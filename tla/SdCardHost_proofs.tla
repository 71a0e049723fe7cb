-------------------------- MODULE SdCardHost_proofs --------------------------
(***************************************************************************)
(* Proofs about the MMC host transport, for every controller, all cards    *)
(* and CSD registers, any losses and however many swaps and retries.       *)
(***************************************************************************)
EXTENDS SdCardHost, DriverLib_proofs

Selected == {"tran", "data", "rcv"}
InitPCs  == {"cmd0", "cmd8", "cmd55", "acmd41", "cmd2", "cmd3", "cmd9", "cmd7", "cmd16"}

\* The driver addresses the card the way it expects.
KindKnown == cardType = "HC" <=> card.kind = "HC"

\* What is needed of the types.
Typed ==
  /\ controller \in {"byCommand", "byType"}
  /\ card \in Card /\ cardType \in Types
  /\ pc \in PCs /\ published.medium \in Nat /\ disturbed \in BOOLEAN

(* How far card and driver have got: a card is never ahead of the command  *)
(* that puts it in a state, and one inserted later is behind.              *)
Progress ==
  /\ card.state = "idle" => card.rca = {}
  /\ pc = "cmd0" /\ caller = "recovery" => card.state = "idle"
  /\ pc \in {"cmd8", "cmd55", "acmd41"} /\ controller = "byCommand" => card.state = "idle"
  /\ pc \in {"cmd55", "acmd41"} => cardType \in {"SC", "V1"}
  /\ pc \in {"cmd2", "cmd3", "cmd9", "cmd7", "cmd16"} => controller = "byCommand"
  /\ pc = "cmd2" => /\ card.state \in {"idle", "ready"}
                    /\ card.state = "ready" => KindKnown
  /\ pc = "cmd3" => /\ card.state \in {"idle", "ident"}
                    /\ card.state = "ident" => KindKnown
  /\ pc \in {"cmd9", "cmd7"} =>
       /\ rca # {} /\ card.state \in {"idle", "stby"}
       /\ card.state = "stby" => KindKnown /\ card.rca = rca
  /\ pc = "cmd7" /\ card.state = "stby" => csdOf = card.medium
  /\ pc = "cmd16" => /\ card.state \in {"idle", "tran"}
                     /\ card.state = "tran" => Known /\ csdOf = card.medium

\* Between initializations, and what an initialization that fails leaves.
Settled ==
  ready /\ pc \notin InitPCs =>
    /\ card.state \in Selected =>
         KindKnown /\ (~disturbed => card.medium = published.medium)
    /\ ~disturbed /\ card.present /\ card.medium = published.medium =>
         Known /\ card.state \in Selected

Calling ==
  /\ caller \in {"initialize", "recovery"}
  /\ pc \in {"command", "cmd12", "finish"} => ready
  /\ pc = "command" => req.lba \in Lbas /\ req.count \in Nat
  /\ pc \in InitPCs /\ caller = "recovery" => disturbed
  /\ published.medium <= card.medium
  /\ ~card.present => card.state = "idle"
  /\ ready => controller = "byCommand"

IInv == Typed /\ Progress /\ Settled /\ Calling

-----------------------------------------------------------------------------
(* The card                                                                *)

\* The card c is like a, as far as the invariant tells cards apart.
Like(c, a) ==
  /\ c \in Card /\ c.medium = a.medium /\ c.present = a.present /\ c.kind = a.kind
  /\ c.rca = a.rca /\ c.state = a.state /\ c.open = a.open

LEMMA ToCard ==
  ASSUME card \in Card,
         NEW s \in {"idle", "ready", "ident", "stby", "tran", "data", "rcv"}
  PROVE  /\ To(s) \in Card /\ To(s).medium = card.medium /\ To(s).present = card.present
         /\ To(s).kind = card.kind /\ To(s).rca = card.rca /\ To(s).state = s
         /\ To(s).open = NoBlock
  BY DEF To, Card

LEMMA ReplyCard ==
  ASSUME NEW a \in Card, NEW r
  PROVE  Like(Reply(r, a).card, a) /\ Reply(r, a).resp = r
  BY DEF Reply, Like, Card

LEMMA R1Card ==
  ASSUME NEW a \in Card, NEW bits
  PROVE  Like(R1(bits, a).card, a)
<1> DEFINE b == [a EXCEPT !.illegal = FALSE]
<1>1. b \in Card /\ Like(b, a)
  BY DEF Like, Card
<1>2. Like(R1(bits, a).card, b)
  BY <1>1, ReplyCard DEF R1
<1> QED
  BY <1>1, <1>2 DEF Like

\* What a command may come to.
LEMMA Sent ==
  ASSUME card \in Card, controller \in {"byCommand", "byType"},
         NEW addressed \in BOOLEAN, NEW legal \in BOOLEAN, NEW replies,
         NEW x \in SdCardSendCommandHost(addressed, legal, replies)
  PROVE  /\ \/ Like(x.card, card)
            \/ card.present /\ addressed /\ legal /\ \E y \in replies : x.card = y.card
         /\ x.st = "SUCCESS" /\ controller = "byCommand" =>
              /\ card.present /\ addressed /\ legal
              /\ \E y \in replies : x.card = y.card /\ x.resp = y.resp
         /\ x.st = "SUCCESS" /\ controller = "byType" => x.resp = {}
         /\ x = Outcome(x.st, x.resp, x.card)
<1> DEFINE made == IF card.present /\ addressed /\ legal THEN replies ELSE {}
           deaf == IF card.present /\ addressed /\ ~legal
                   THEN [card EXCEPT !.illegal = TRUE, !.app = FALSE] ELSE card
<1>1. Like(card, card) /\ Like(deaf, card)
  BY DEF Like, Card
<1>2. \/ x \in Lost(made)
      \/ controller = "byType" /\ x \in {Outcome("SUCCESS", {}, z) :
            z \in IF made = {} THEN {deaf} ELSE {y.card : y \in made}}
      \/ controller = "byCommand" /\ made = {} /\ x = Outcome("TIMEOUT", {}, deaf)
      \/ controller = "byCommand" /\ x \in {Outcome(CheckSdErrorResponse(z.resp), z.resp, z.card) : z \in made}
  BY DEF SdCardSendCommandHost
<1>3. \A z \in made : card.present /\ addressed /\ legal /\ z \in replies
  OBVIOUS
<1> HIDE DEF made, deaf
<1>4. CASE x \in Lost(made)
  <2>1. /\ x.st = "TIMEOUT" /\ (x.card = card \/ \E y \in made : x.card = y.card)
        /\ x = Outcome(x.st, x.resp, x.card)
    BY <1>4 DEF Lost, Outcome
  <2> QED
    BY <1>1, <1>3, <2>1
<1>5. CASE controller = "byType" /\ x \in {Outcome("SUCCESS", {}, z) :
             z \in IF made = {} THEN {deaf} ELSE {y.card : y \in made}}
  <2>1. /\ x.resp = {} /\ (x.card = deaf \/ \E y \in made : x.card = y.card)
        /\ x = Outcome(x.st, x.resp, x.card)
    BY <1>5 DEF Outcome
  <2> QED
    BY <1>1, <1>3, <1>5, <2>1
<1>6. CASE controller = "byCommand" /\ made = {} /\ x = Outcome("TIMEOUT", {}, deaf)
  BY <1>1, <1>6 DEF Outcome
<1>7. CASE controller = "byCommand" /\ x \in {Outcome(CheckSdErrorResponse(z.resp), z.resp, z.card) : z \in made}
  <2>1. PICK z \in made : /\ x.card = z.card /\ x.resp = z.resp
                          /\ x = Outcome(x.st, x.resp, x.card)
    BY <1>7 DEF Outcome
  <2> QED
    BY <1>3, <1>7, <2>1
<1> QED
  BY <1>2, <1>4, <1>5, <1>6, <1>7

\* A response that was taken for a success is one the card made.
LEMMA Answered ==
  ASSUME card \in Card, controller = "byCommand",
         NEW addressed \in BOOLEAN, NEW legal \in BOOLEAN, NEW replies,
         NEW x \in SdCardSendCommandHost(addressed, legal, replies), x.st = "SUCCESS"
  PROVE  /\ card.present /\ addressed /\ legal
         /\ \E y \in replies : x.card = y.card /\ x.resp = y.resp
  BY Sent

LEMMA SentSome ==
  ASSUME card \in Card, controller = "byCommand",
         NEW addressed \in BOOLEAN, NEW legal \in BOOLEAN, NEW replies,
         NEW x \in SdCardSendCommandHost(addressed, legal, replies)
  PROVE  Like(x.card, card) \/ (card.present /\ \E y \in replies : x.card = y.card)
  BY Sent

LEMMA SentLegal ==
  ASSUME card \in Card, controller = "byCommand",
         NEW addressed \in BOOLEAN, NEW legal \in BOOLEAN, NEW replies,
         NEW x \in SdCardSendCommandHost(addressed, legal, replies)
  PROVE  Like(x.card, card) \/ legal
  BY Sent

\* A command with one answer.
LEMMA SentOne ==
  ASSUME card \in Card, controller = "byCommand",
         NEW addressed \in BOOLEAN, NEW legal \in BOOLEAN, NEW y,
         NEW x \in SdCardSendCommandHost(addressed, legal, {y})
  PROVE  /\ Like(x.card, card) \/ (card.present /\ addressed /\ legal /\ x.card = y.card)
         /\ x.st = "SUCCESS" => addressed /\ legal /\ x.card = y.card
         /\ x = Outcome(x.st, x.resp, x.card)
<1>1. PICK replies : replies = {y}
  OBVIOUS
<1>2. x \in SdCardSendCommandHost(addressed, legal, replies)
  BY <1>1
<1>3. /\ Like(x.card, card) \/ (card.present /\ addressed /\ legal /\ x.card = y.card)
      /\ x = Outcome(x.st, x.resp, x.card)
  <2>1. /\ \/ Like(x.card, card)
           \/ card.present /\ addressed /\ legal /\ \E z \in replies : x.card = z.card
        /\ x = Outcome(x.st, x.resp, x.card)
    BY <1>2, Sent
  <2> QED
    BY <1>1, <2>1
<1>4. ASSUME x.st = "SUCCESS" PROVE addressed /\ legal /\ x.card = y.card
  <2>1. addressed /\ legal /\ \E z \in replies : x.card = z.card
    BY <1>2, <1>4, Answered
  <2> QED
    BY <1>1, <2>1
<1> QED
  BY <1>3, <1>4

\* A command that changes nothing the invariant looks at.
LEMMA SentLike ==
  ASSUME card \in Card, controller \in {"byCommand", "byType"},
         NEW addressed \in BOOLEAN, NEW legal \in BOOLEAN, NEW replies,
         \A y \in replies : Like(y.card, card),
         NEW x \in SdCardSendCommandHost(addressed, legal, replies)
  PROVE  Like(x.card, card)
<1>1. Like(x.card, card) \/ \E y \in replies : x.card = y.card
  BY Sent
<1> QED
  BY <1>1

LEMMA GoIdleCard ==
  ASSUME card \in Card, NEW x \in GoIdle, card.present \/ card.state = "idle",
         card.state = "idle" => card.rca = {}
  PROVE  /\ x.card \in Card /\ x.card.medium = card.medium
         /\ x.card.present = card.present /\ x.card.kind = card.kind
         /\ \/ x.card.state = card.state /\ x.card.rca = card.rca
            \/ x.card.state = "idle" /\ x.card.rca = {}
         /\ x.st = "SUCCESS" => x.card.state = "idle" /\ x.card.rca = {}
<1> DEFINE reset == IF card.present
                    THEN [To("idle") EXCEPT !.rca = {}, !.illegal = FALSE, !.app = FALSE]
                    ELSE card
<1>1. To("idle") \in Card /\ {} \in Rcas \union {{}}
  BY ToCard
<1>2. [To("idle") EXCEPT !.rca = {}, !.illegal = FALSE, !.app = FALSE] \in Card
  BY <1>1 DEF Card
<1>3. /\ reset \in Card /\ reset.medium = card.medium /\ reset.present = card.present
      /\ reset.kind = card.kind /\ reset.state = "idle" /\ reset.rca = {}
  <2>1. CASE card.present
    BY <1>1, <1>2, <2>1, ToCard DEF Card
  <2>2. CASE ~card.present
    BY <2>2
  <2> QED
    BY <2>1, <2>2
<1>4. x = Outcome("SUCCESS", {}, reset) \/ x \in Lost({Reply({}, reset)})
  BY DEF GoIdle
<1> HIDE DEF reset
<1>5. Like(Reply({}, reset).card, reset)
  BY <1>3, ReplyCard
<1>6. \/ x.st = "SUCCESS" /\ x.card = reset
      \/ x.st = "TIMEOUT" /\ x.card \in {card, Reply({}, reset).card}
  BY <1>4 DEF Outcome, Lost
<1> QED
  BY <1>3, <1>5, <1>6 DEF Like

-----------------------------------------------------------------------------
(* What every step of an initialization has in common                      *)

\* The card stays in the slot or out of it.
Moves ==
  /\ card' \in Card /\ card'.medium = card.medium /\ card'.present = card.present
  /\ card'.kind = card.kind
  /\ card'.state = "idle" => card'.rca = {}
  /\ ~card'.present => card'.state = "idle"

LEMMA LikeMoves ==
  ASSUME IInv, Like(card', card) PROVE Moves
  BY DEF IInv, Progress, Calling, Like, Moves

\* An initialization that gives up.
LEMMA Failed ==
  ASSUME IInv, pc \in InitPCs, NEW st, st # "SUCCESS", Returned(st), Moves,
         UNCHANGED <<controller, caller>>, cardType' \in Types,
         caller = "recovery" /\ controller = "byCommand" /\ card'.state \in Selected
           => KindKnown'
  PROVE  IInv'
<1>1. pc' = "idle" /\ published' = published /\ disturbed' \in BOOLEAN
  BY DEF Returned, Goto, media, IInv, Typed
<1>2. Typed'
  BY <1>1 DEF IInv, Typed, Moves, PCs
<1>3. Progress'
  BY <1>1 DEF Progress, Moves
<1>4. caller \in {"initialize", "recovery"} /\ (caller = "recovery" => disturbed)
  BY DEF IInv, Calling
<1>5. CASE caller = "initialize"
  <2>1. ready' = FALSE
    BY <1>5 DEF Returned, MediaPresent
  <2> QED
    BY <1>1, <1>2, <1>3, <2>1 DEF IInv, Settled, Calling, Moves, InitPCs
<1>6. CASE caller = "recovery"
  <2>1. UNCHANGED <<ready, disturbed>> /\ disturbed
    BY <1>4, <1>6 DEF Returned, media
  <2>2. Settled'
    BY <1>1, <1>6, <2>1 DEF IInv, Calling, Settled, InitPCs
  <2>3. Calling'
    BY <1>1, <2>1 DEF IInv, Calling, Moves, InitPCs
  <2> QED
    BY <1>2, <1>3, <2>2, <2>3 DEF IInv
<1> QED
  BY <1>4, <1>5, <1>6

\* An initialization that succeeds.
LEMMA Succeeded ==
  ASSUME IInv, pc \in InitPCs, Returned("SUCCESS"), Moves, controller = "byCommand",
         UNCHANGED <<controller, caller, cardType>>, Known', card'.state = "tran"
  PROVE  IInv'
<1>1. /\ pc' = "idle" /\ disturbed' \in BOOLEAN
      /\ published' = published \/ published'.medium = card.medium
  <2>1. CASE caller = "initialize"
    BY <2>1 DEF Returned, Goto
  <2>2. CASE caller # "initialize"
    BY <2>2 DEF Returned, Goto, media, IInv, Typed
  <2> QED
    BY <2>1, <2>2
<1>2. card.medium \in Nat
  BY HostAssumption DEF IInv, Typed, Card
<1>3. Typed'
  BY <1>1, <1>2 DEF IInv, Typed, Moves, PCs
<1>4. Progress'
  BY <1>1 DEF Progress, Moves
<1>5. caller \in {"initialize", "recovery"} /\ (caller = "recovery" => disturbed)
  BY DEF IInv, Calling
<1>6. CASE caller = "initialize"
  <2>1. published'.medium = card.medium
    BY <1>6 DEF Returned
  <2>2. Settled'
    BY <2>1 DEF Settled, Moves, Known, KindKnown, Selected
  <2>3. Calling'
    BY <1>1, <1>2, <2>1 DEF IInv, Calling, Moves, InitPCs
  <2> QED
    BY <1>3, <1>4, <2>2, <2>3 DEF IInv
<1>7. CASE caller = "recovery"
  <2>1. UNCHANGED <<ready, disturbed, published>> /\ disturbed
    BY <1>5, <1>7 DEF Returned, media
  <2> QED
    BY <1>1, <1>3, <1>4, <2>1
    DEF IInv, Settled, Calling, Moves, InitPCs, Known, KindKnown
<1> QED
  BY <1>5, <1>6, <1>7

\* An initialization that goes on.
LEMMA GoesOn ==
  ASSUME IInv, pc \in InitPCs, pc' \in InitPCs, Moves, cardType' \in Types,
         UNCHANGED <<controller, caller, media>>
  PROVE  Typed' /\ Settled' /\ Calling'
<1>1. UNCHANGED <<ready, published, disturbed>>
  BY DEF media
<1>2. Typed'
  BY <1>1 DEF IInv, Typed, Moves, InitPCs, PCs
<1>3. Settled' /\ Calling'
  BY <1>1 DEF IInv, Settled, Calling, Moves, InitPCs
<1> QED
  BY <1>2, <1>3

-----------------------------------------------------------------------------
(* The steps of an initialization                                          *)

LEMMA ResetStep ==
  ASSUME IInv, InitReset PROVE IInv'
<1>1. PICK x \in GoIdle : Then(x, "cmd8")
  BY DEF InitReset
<1>2. pc = "cmd0" /\ UNCHANGED <<controller, caller, cardType, rca>>
  BY DEF InitReset, world, private
<1>3. /\ card \in Card /\ cardType \in Types /\ (card.present \/ card.state = "idle")
      /\ card.state = "idle" => card.rca = {}
  BY DEF IInv, Typed, Calling, Progress
<1>4. card' = x.card
  BY <1>1 DEF Then
<1>5. Moves /\ (card'.state = "idle" \/ card'.state = card.state)
      /\ (x.st = "SUCCESS" => card'.state = "idle")
  BY <1>3, <1>4, GoIdleCard DEF Moves
<1>6. CASE x.st = "SUCCESS"
  <2>1. pc' = "cmd8" /\ UNCHANGED media
    BY <1>1, <1>6 DEF Then, Goto
  <2>2. Typed' /\ Settled' /\ Calling'
    BY <1>2, <1>3, <1>5, <2>1, GoesOn DEF InitPCs
  <2>3. Progress'
    BY <1>5, <1>6, <2>1 DEF Progress, Moves
  <2> QED
    BY <2>2, <2>3 DEF IInv
<1>7. CASE x.st # "SUCCESS"
  <2>1. Returned(x.st)
    BY <1>1, <1>7 DEF Then
  <2>2. caller = "recovery" => card'.state = "idle"
    BY <1>2, <1>5 DEF IInv, Progress
  <2> QED
    BY <1>2, <1>3, <1>5, <1>7, <2>1, <2>2, Failed DEF InitPCs, Selected
<1> QED
  BY <1>6, <1>7

LEMMA VersionStep ==
  ASSUME IInv, InitVersion PROVE IInv'
<1> DEFINE legal == card.state = "idle" /\ card.kind # "V1"
<1>0. legal \in BOOLEAN
  OBVIOUS
<1>1. PICK x \in SdCardSendCommandHost(TRUE, legal, {Reply(Pattern, card)}) :
        /\ card' = x.card
        /\ IF x.st = "SUCCESS" /\ x.resp # Pattern
           THEN Returned("UNSUPPORTED") /\ UNCHANGED cardType
           ELSE /\ cardType' = IF x.st = "SUCCESS" THEN "SC" ELSE "V1"
                /\ Goto("cmd55") /\ status' = x.st /\ UNCHANGED media
  BY DEF InitVersion
<1>2. pc = "cmd8" /\ UNCHANGED <<controller, caller, rca>>
  BY DEF InitVersion, world
<1>3. card \in Card /\ controller \in {"byCommand", "byType"} /\ cardType \in Types
  BY DEF IInv, Typed
<1> HIDE DEF legal
<1>4. Like(x.card, card)
  <2>1. \A y \in {Reply(Pattern, card)} : Like(y.card, card)
    BY <1>3, ReplyCard
  <2> QED
    BY <1>0, <1>3, <2>1, SentLike
<1>5. Moves
  BY <1>1, <1>4, LikeMoves
<1>6. controller = "byCommand" => card'.state = "idle"
  BY <1>1, <1>2, <1>4 DEF IInv, Progress, Like
<1>7. CASE x.st = "SUCCESS" /\ x.resp # Pattern
  <2>1. Returned("UNSUPPORTED") /\ cardType' = cardType
    BY <1>1, <1>7
  <2> QED
    BY <1>2, <1>3, <1>5, <1>6, <2>1, Failed DEF InitPCs, Selected
<1>8. CASE ~(x.st = "SUCCESS" /\ x.resp # Pattern)
  <2>1. cardType' \in {"SC", "V1"} /\ pc' = "cmd55" /\ UNCHANGED media
    BY <1>1, <1>8 DEF Goto
  <2>2. Typed' /\ Settled' /\ Calling'
    BY <1>2, <1>5, <2>1, GoesOn DEF InitPCs, Types
  <2>3. Progress'
    BY <1>2, <1>5, <1>6, <2>1 DEF Progress, Moves
  <2> QED
    BY <2>2, <2>3 DEF IInv
<1> QED
  BY <1>7, <1>8

LEMMA AppCmdCard ==
  ASSUME card \in Card, controller \in {"byCommand", "byType"}, NEW a, NEW x \in AppCmd(a)
  PROVE  Like(x.card, card)
<1> DEFINE y == [R1({5}, card) EXCEPT !.card.app = TRUE]
<1>1. Like(y.card, card)
  <2>1. Like(R1({5}, card).card, card)
    BY R1Card
  <2>2. y.card = [R1({5}, card).card EXCEPT !.app = TRUE]
    BY DEF R1, Reply
  <2> HIDE DEF y
  <2> QED
    BY <2>1, <2>2 DEF Like, Card
<1>2. x \in SdCardSendCommandHost(card.rca = a, card.state \notin {"ready", "ident"}, {y})
  BY DEF AppCmd
<1>3. (card.rca = a) \in BOOLEAN /\ (card.state \notin {"ready", "ident"}) \in BOOLEAN
  OBVIOUS
<1>4. \A z \in {y} : Like(z.card, card)
  BY <1>1
<1> HIDE DEF y
<1> QED
  BY <1>2, <1>3, <1>4, SentLike

LEMMA AppCmdStep ==
  ASSUME IInv, InitAppCmd PROVE IInv'
<1>1. PICK x \in AppCmd({}) : Then(x, "acmd41")
  BY DEF InitAppCmd
<1>2. pc = "cmd55" /\ UNCHANGED <<controller, caller, cardType, rca>>
  BY DEF InitAppCmd, world, private
<1>3. card \in Card /\ controller \in {"byCommand", "byType"} /\ cardType \in Types
  BY DEF IInv, Typed
<1>4. card' = x.card /\ Like(x.card, card)
  BY <1>1, <1>3, AppCmdCard DEF Then
<1>5. Moves
  BY <1>4, LikeMoves
<1>6. /\ controller = "byCommand" => card'.state = "idle"
      /\ cardType' \in {"SC", "V1"}
  BY <1>2, <1>4 DEF IInv, Progress, Like
<1>7. CASE x.st = "SUCCESS"
  <2>1. pc' = "acmd41" /\ UNCHANGED media
    BY <1>1, <1>7 DEF Then, Goto
  <2>2. Typed' /\ Settled' /\ Calling'
    BY <1>2, <1>3, <1>5, <2>1, GoesOn DEF InitPCs
  <2>3. Progress'
    BY <1>2, <1>5, <1>6, <2>1 DEF Progress, Moves
  <2> QED
    BY <2>2, <2>3 DEF IInv
<1>8. CASE x.st # "SUCCESS"
  <2>1. Returned(x.st)
    BY <1>1, <1>8 DEF Then
  <2> QED
    BY <1>2, <1>3, <1>5, <1>6, <1>8, <2>1, Failed DEF InitPCs, Selected
<1> QED
  BY <1>7, <1>8

\* A card that is told to go to another state.
LEMMA ToReply ==
  ASSUME card \in Card, NEW r,
         NEW s \in {"idle", "ready", "ident", "stby", "tran", "data", "rcv"},
         NEW y \in {Reply(r, To(s)), R1(r, To(s))}
  PROVE  /\ y.card \in Card /\ y.card.medium = card.medium
         /\ y.card.present = card.present /\ y.card.kind = card.kind
         /\ y.card.rca = card.rca /\ y.card.state = s
<1>1. Like(y.card, To(s))
  BY ToCard, ReplyCard, R1Card
<1> QED
  BY <1>1, ToCard DEF Like

LEMMA OpCondStep ==
  ASSUME IInv, InitOpCond PROVE IInv'
<1> DEFINE voltages == 15 .. 23
           capacity == IF card.kind = "HC" THEN {30} ELSE {}
           busy == Reply(voltages, card)
           up   == Reply(voltages \union {31} \union capacity, To("ready"))
           legal == card.app /\ card.state = "idle"
<1>0. PICK replies \in SUBSET {busy, up} :
         \E x \in SdCardSendCommandHost(TRUE, legal, replies) :
         \/ /\ x.st # "SUCCESS"
            /\ Then(x, "idle") /\ UNCHANGED cardType
         \/ /\ x.st = "SUCCESS" /\ 31 \in x.resp
            /\ Then(x, "cmd2") /\ cardType' = TypeOfOcr(x.resp)
         \/ /\ x.st = "SUCCESS" /\ 31 \notin x.resp
            /\ card' = x.card /\ UNCHANGED cardType
            /\ \/ Returned("TIMEOUT")
               \/ Goto("cmd55") /\ UNCHANGED media
  <2> DEFINE starting == starts /\ (card.kind = "HC" => cardType = "SC")
             replies == {busy} \union (IF starting THEN {up} ELSE {})
  <2>1. replies \in SUBSET {busy, up}
    OBVIOUS
  <2>2. \E x \in SdCardSendCommandHost(TRUE, legal, replies) :
         \/ /\ x.st # "SUCCESS"
            /\ Then(x, "idle") /\ UNCHANGED cardType
         \/ /\ x.st = "SUCCESS" /\ 31 \in x.resp
            /\ Then(x, "cmd2") /\ cardType' = TypeOfOcr(x.resp)
         \/ /\ x.st = "SUCCESS" /\ 31 \notin x.resp
            /\ card' = x.card /\ UNCHANGED cardType
            /\ \/ Returned("TIMEOUT")
               \/ Goto("cmd55") /\ UNCHANGED media
    BY DEF InitOpCond
  <2> QED
    BY <2>1, <2>2
<1>1. PICK x \in SdCardSendCommandHost(TRUE, legal, replies) :
         \/ /\ x.st # "SUCCESS"
            /\ Then(x, "idle") /\ UNCHANGED cardType
         \/ /\ x.st = "SUCCESS" /\ 31 \in x.resp
            /\ Then(x, "cmd2") /\ cardType' = TypeOfOcr(x.resp)
         \/ /\ x.st = "SUCCESS" /\ 31 \notin x.resp
            /\ card' = x.card /\ UNCHANGED cardType
            /\ \/ Returned("TIMEOUT")
               \/ Goto("cmd55") /\ UNCHANGED media
  BY <1>0
<1>2. pc = "acmd41" /\ UNCHANGED <<controller, caller, rca>>
  BY DEF InitOpCond, world
<1>3. /\ card \in Card /\ controller \in {"byCommand", "byType"}
      /\ cardType \in {"SC", "V1"} /\ legal \in BOOLEAN
  BY <1>2 DEF IInv, Typed, Progress, Card
<1>4. Like(busy.card, card) /\ 31 \notin busy.resp
  BY <1>3, ReplyCard
<1>5. /\ up.card \in Card /\ up.card.medium = card.medium
      /\ up.card.present = card.present /\ up.card.kind = card.kind
      /\ up.card.rca = card.rca /\ up.card.state = "ready"
  BY <1>3, ToReply
<1>6. 31 \in up.resp /\ (30 \in up.resp <=> card.kind = "HC")
  BY DEF Reply
<1> HIDE DEF busy, up, legal
<1>7. \/ Like(x.card, card)
      \/ card.present /\ \E y \in replies : x.card = y.card
  BY <1>3, Sent
<1>8. ASSUME x.st = "SUCCESS", controller = "byCommand"
      PROVE  \E y \in replies : x.card = y.card /\ x.resp = y.resp
  BY <1>3, <1>8, Answered
<1>9. x.st = "SUCCESS" /\ controller = "byType" => x.resp = {}
  BY <1>3, Sent
<1>10. card' = x.card
  BY <1>1 DEF Then
<1>11. \/ Like(card', card)
       \/ card.present /\ card' = up.card
  BY <1>4, <1>7, <1>10
<1>12. Moves
  BY <1>5, <1>11, LikeMoves DEF Moves
<1>13. controller = "byCommand" => card'.state \in {"idle", "ready"}
  BY <1>2, <1>5, <1>11 DEF IInv, Progress, Like
<1>14. ASSUME NEW st, st # "SUCCESS", Returned(st), UNCHANGED cardType PROVE IInv'
  BY <1>2, <1>3, <1>12, <1>13, <1>14, Failed DEF InitPCs, Selected, Types
<1>15. CASE x.st # "SUCCESS"
  BY <1>1, <1>14, <1>15 DEF Then
<1>16. CASE x.st = "SUCCESS" /\ 31 \in x.resp
  <2>1. Goto("cmd2") /\ UNCHANGED media /\ cardType' = TypeOfOcr(x.resp)
    BY <1>1, <1>16 DEF Then
  <2>2. controller = "byCommand"
    BY <1>3, <1>9, <1>16
  <2>3. card' = up.card /\ x.resp = up.resp
    BY <1>4, <1>8, <1>10, <1>16, <2>2
  <2>4. cardType' \in Types
    BY <1>3, <2>1 DEF TypeOfOcr, Types
  <2>5. KindKnown'
    BY <1>3, <1>5, <1>6, <2>1, <2>3 DEF KindKnown, TypeOfOcr
  <2>6. pc' = "cmd2"
    BY <2>1 DEF Goto
  <2>7. Typed' /\ Settled' /\ Calling'
    BY <1>2, <1>12, <2>1, <2>4, <2>6, GoesOn DEF InitPCs
  <2>8. Progress'
    BY <1>2, <1>5, <1>12, <2>2, <2>3, <2>5, <2>6 DEF Progress, Moves
  <2> QED
    BY <2>7, <2>8 DEF IInv
<1>17. CASE x.st = "SUCCESS" /\ 31 \notin x.resp
  <2>1. UNCHANGED cardType /\ (Returned("TIMEOUT") \/ (Goto("cmd55") /\ UNCHANGED media))
    BY <1>1, <1>17
  <2>2. CASE Returned("TIMEOUT")
    BY <1>14, <2>1, <2>2
  <2>3. CASE Goto("cmd55") /\ UNCHANGED media
    <3>1. pc' = "cmd55"
      BY <2>3 DEF Goto
    <3>2. Typed' /\ Settled' /\ Calling'
      BY <1>2, <1>3, <1>12, <2>1, <2>3, <3>1, GoesOn DEF InitPCs, Types
    <3>3. controller = "byCommand" => Like(card', card)
      BY <1>4, <1>6, <1>8, <1>10, <1>17
    <3>4. controller = "byCommand" => card'.state = "idle"
      BY <1>2, <3>3 DEF Like, IInv, Progress
    <3>5. Progress'
      BY <1>2, <1>3, <1>12, <2>1, <3>1, <3>4 DEF Progress, Moves
    <3> QED
      BY <3>2, <3>5 DEF IInv
  <2> QED
    BY <2>1, <2>2, <2>3
<1> QED
  BY <1>15, <1>16, <1>17

LEMMA CidStep ==
  ASSUME IInv, InitCid PROVE IInv'
<1> DEFINE y == Reply({}, To("ident"))
           legal == card.state = "ready"
<1>1. PICK x \in SdCardSendCommandHost(TRUE, legal, {y}) : Then(x, "cmd3")
  BY DEF InitCid
<1>2. pc = "cmd2" /\ UNCHANGED <<controller, caller, cardType, rca>>
  BY DEF InitCid, world, private
<1>3. /\ card \in Card /\ cardType \in Types /\ legal \in BOOLEAN
      /\ controller = "byCommand" /\ card.state \in {"idle", "ready"}
      /\ legal => KindKnown
  BY <1>2 DEF IInv, Typed, Progress
<1>4. /\ y.card \in Card /\ y.card.medium = card.medium
      /\ y.card.present = card.present /\ y.card.kind = card.kind
      /\ y.card.rca = card.rca /\ y.card.state = "ident"
  BY <1>3, ToReply
<1> HIDE DEF y, legal
<1>5. /\ Like(x.card, card) \/ (card.present /\ legal /\ x.card = y.card)
      /\ x.st = "SUCCESS" => legal /\ x.card = y.card
  BY <1>3, SentOne
<1>6. card' = x.card
  BY <1>1 DEF Then
<1>7. Moves /\ card'.state \in {"idle", "ready", "ident"}
  <2>1. CASE Like(x.card, card)
    BY <1>3, <1>6, <2>1, LikeMoves DEF Like
  <2>2. CASE card.present /\ legal /\ x.card = y.card
    BY <1>4, <1>6, <2>2 DEF Moves
  <2> QED
    BY <1>5, <2>1, <2>2
<1>8. CASE x.st = "SUCCESS"
  <2>1. pc' = "cmd3" /\ UNCHANGED media
    BY <1>1, <1>8 DEF Then, Goto
  <2>2. Typed' /\ Settled' /\ Calling'
    BY <1>2, <1>3, <1>7, <2>1, GoesOn DEF InitPCs
  <2>3. KindKnown' /\ card'.state = "ident"
    BY <1>2, <1>3, <1>4, <1>5, <1>6, <1>8 DEF KindKnown
  <2>4. Progress'
    BY <1>2, <1>3, <1>7, <2>1, <2>3 DEF Progress, Moves
  <2> QED
    BY <2>2, <2>4 DEF IInv
<1>9. CASE x.st # "SUCCESS"
  <2>1. Returned(x.st)
    BY <1>1, <1>9 DEF Then
  <2> QED
    BY <1>2, <1>3, <1>7, <1>9, <2>1, Failed DEF InitPCs, Selected
<1> QED
  BY <1>8, <1>9

\* A command whose status is made from its response.
LEMMA ThenWith ==
  ASSUME NEW x, x = Outcome(x.st, x.resp, x.card), NEW st, NEW l,
         Then([x EXCEPT !.st = st], l)
  PROVE  /\ card' = x.card
         /\ st = "SUCCESS" => pc' = l /\ UNCHANGED media
         /\ st # "SUCCESS" => Returned(st)
<1> DEFINE y == [x EXCEPT !.st = st]
<1>1. y.st = st /\ y.card = x.card
  BY DEF Outcome
<1>2. Then(y, l)
  OBVIOUS
<1> HIDE DEF y
<1> QED
  BY <1>1, <1>2 DEF Then, Goto

LEMMA AddressStep ==
  ASSUME IInv, InitAddress PROVE IInv'
<1> DEFINE chosen(b) == Reply(b, [To("stby") EXCEPT !.rca = b])
           legal == card.state \in {"ident", "stby"}
<1>1. PICK x \in SdCardSendCommandHost(TRUE, legal, {chosen(b) : b \in Rcas}) :
        LET a == x.resp \intersect 16 .. 31 IN
        /\ Then([x EXCEPT !.st = IF @ = "SUCCESS" /\ a = {} THEN "DEVICE_ERROR" ELSE @],
                "cmd9")
        /\ rca' = IF x.st = "SUCCESS" /\ a # {} THEN a ELSE rca
  BY DEF InitAddress
<1>2. pc = "cmd3" /\ UNCHANGED <<controller, caller, cardType>>
  BY DEF InitAddress, world
<1>3. /\ card \in Card /\ cardType \in Types /\ legal \in BOOLEAN
      /\ controller = "byCommand" /\ card.state \in {"idle", "ident"}
      /\ legal => KindKnown
  BY <1>2 DEF IInv, Typed, Progress
<1>4. PICK replies : replies = {chosen(b) : b \in Rcas}
  OBVIOUS
<1>5. ASSUME NEW y \in replies
      PROVE  /\ y.card \in Card /\ y.card.medium = card.medium
             /\ y.card.present = card.present /\ y.card.kind = card.kind
             /\ y.card.state = "stby" /\ y.resp = y.card.rca /\ y.resp \in Rcas
  <2>1. PICK b \in Rcas : y = chosen(b)
    BY <1>4
  <2>2. /\ To("stby") \in Card /\ To("stby").medium = card.medium
        /\ To("stby").present = card.present /\ To("stby").kind = card.kind
        /\ To("stby").state = "stby"
    BY <1>3, ToCard
  <2>3. PICK c : c = [To("stby") EXCEPT !.rca = b]
    OBVIOUS
  <2>4. /\ c \in Card /\ c.medium = card.medium /\ c.present = card.present
        /\ c.kind = card.kind /\ c.rca = b /\ c.state = "stby"
    BY <2>2, <2>3 DEF Card
  <2>5. Like(y.card, c) /\ y.resp = b
    BY <2>1, <2>3, <2>4, ReplyCard
  <2> QED
    BY <2>4, <2>5 DEF Like
<1> DEFINE a == x.resp \intersect 16 .. 31
           st == IF x.st = "SUCCESS" /\ a = {} THEN "DEVICE_ERROR" ELSE x.st
<1>6. x \in SdCardSendCommandHost(TRUE, legal, replies)
  BY <1>1, <1>4
<1>7. rca' = IF x.st = "SUCCESS" /\ a # {} THEN a ELSE rca
  BY <1>1
<1>8. Then([x EXCEPT !.st = st], "cmd9")
  BY <1>1
<1>9. /\ st = "SUCCESS" <=> x.st = "SUCCESS" /\ a # {}
  OBVIOUS
<1> HIDE DEF chosen, legal, st
<1>10. x = Outcome(x.st, x.resp, x.card)
  BY <1>3, <1>6, Sent
<1>11. Like(x.card, card) \/ (card.present /\ \E y \in replies : x.card = y.card)
  BY <1>3, <1>6, SentSome
<1>12. /\ card' = x.card
       /\ st = "SUCCESS" => pc' = "cmd9" /\ UNCHANGED media
       /\ st # "SUCCESS" => Returned(st)
  BY <1>8, <1>10, ThenWith
<1>13. Moves /\ card'.state \in {"idle", "ident", "stby"}
  <2>1. CASE Like(x.card, card)
    BY <1>3, <1>12, <2>1, LikeMoves DEF Like
  <2>2. CASE card.present /\ \E y \in replies : x.card = y.card
    BY <1>5, <1>12, <2>2 DEF Moves
  <2> QED
    BY <1>11, <2>1, <2>2
<1>14. CASE st = "SUCCESS"
  <2>1. x.st = "SUCCESS" /\ rca' = a
    BY <1>7, <1>9, <1>14
  <2>2. legal /\ \E y \in replies : x.card = y.card /\ x.resp = y.resp
    BY <1>3, <1>6, <2>1, Answered
  <2>3. /\ card'.kind = card.kind /\ card'.state = "stby"
        /\ card'.rca = x.resp /\ x.resp \in Rcas
    BY <1>5, <1>12, <2>2
  <2>4. x.resp \subseteq 16 .. 31 /\ x.resp # {}
    BY <2>3, HostAssumption
  <2>5. card'.rca = rca' /\ rca' # {}
    BY <2>1, <2>3, <2>4
  <2>6. KindKnown'
    BY <1>2, <1>3, <2>2, <2>3 DEF KindKnown
  <2>7. pc' = "cmd9" /\ UNCHANGED media
    BY <1>12, <1>14
  <2>8. Typed' /\ Settled' /\ Calling'
    BY <1>2, <1>3, <1>13, <2>7, GoesOn DEF InitPCs
  <2>9. Progress'
    BY <1>2, <1>3, <1>13, <2>3, <2>5, <2>6, <2>7 DEF Progress, Moves
  <2> QED
    BY <2>8, <2>9 DEF IInv
<1>15. CASE st # "SUCCESS"
  BY <1>2, <1>3, <1>12, <1>13, <1>15, Failed DEF InitPCs, Selected
<1> QED
  BY <1>14, <1>15

LEMMA CsdStep ==
  ASSUME IInv, InitCsd PROVE IInv'
<1> DEFINE addressed == card.rca = rca
           legal == card.state = "stby"
<1>1. PICK x \in SdCardSendCommandHost(addressed, legal, {Reply({}, card)}) :
        LET csd == ParseCsdRegister(CsdRead, Shift)
            st  == IF x.st = "SUCCESS" THEN csd.st ELSE x.st
        IN /\ Then([x EXCEPT !.st = st], "cmd7")
           /\ IF st = "SUCCESS" THEN csdOf' = card.medium /\ blocks' = csd.blocks
                                ELSE UNCHANGED <<csdOf, blocks>>
  BY DEF InitCsd
<1> DEFINE st == IF x.st = "SUCCESS" THEN ParseCsdRegister(CsdRead, Shift).st ELSE x.st
<1>2. pc = "cmd9" /\ UNCHANGED <<controller, caller, cardType, rca>>
  BY DEF InitCsd, world
<1>3. /\ card \in Card /\ cardType \in Types
      /\ addressed \in BOOLEAN /\ legal \in BOOLEAN
      /\ controller = "byCommand" /\ card.state \in {"idle", "stby"} /\ rca # {}
      /\ card.state = "stby" => KindKnown /\ card.rca = rca
  BY <1>2 DEF IInv, Typed, Progress
<1>4. /\ Then([x EXCEPT !.st = st], "cmd7")
      /\ st = "SUCCESS" => csdOf' = card.medium
  BY <1>1
<1> HIDE DEF addressed, legal, st
<1>5. Like(Reply({}, card).card, card)
  BY <1>3, ReplyCard
<1>6. Like(x.card, card) /\ x = Outcome(x.st, x.resp, x.card)
  BY <1>3, <1>5, SentOne DEF Like
<1>7. /\ card' = x.card
      /\ st = "SUCCESS" => pc' = "cmd7" /\ UNCHANGED media
      /\ st # "SUCCESS" => Returned(st)
  BY <1>4, <1>6, ThenWith
<1>8. Moves /\ card'.state = card.state /\ card'.rca = card.rca
  BY <1>6, <1>7, LikeMoves DEF Like
<1>9. CASE st = "SUCCESS"
  <2>1. pc' = "cmd7" /\ UNCHANGED media /\ csdOf' = card.medium
    BY <1>4, <1>7, <1>9
  <2>2. Typed' /\ Settled' /\ Calling'
    BY <1>2, <1>3, <1>8, <2>1, GoesOn DEF InitPCs
  <2>3. Progress'
    BY <1>2, <1>3, <1>8, <2>1 DEF Progress, Moves, KindKnown
  <2> QED
    BY <2>2, <2>3 DEF IInv
<1>10. CASE st # "SUCCESS"
  BY <1>2, <1>3, <1>7, <1>8, <1>10, Failed DEF InitPCs, Selected
<1> QED
  BY <1>9, <1>10

LEMMA SelectStep ==
  ASSUME IInv, InitSelect PROVE IInv'
<1> DEFINE addressed == card.rca = rca
           legal == card.state = "stby"
           y == R1({}, To("tran"))
<1>1. PICK x \in SdCardSendCommandHost(addressed, legal, {y}) :
        IF x.st = "SUCCESS" /\ cardType = "HC"
        THEN card' = x.card /\ Returned("SUCCESS")
        ELSE Then(x, "cmd16")
  BY DEF InitSelect
<1>2. pc = "cmd7" /\ UNCHANGED <<controller, caller, cardType, rca, csdOf>>
  BY DEF InitSelect, world, private
<1>3. /\ card \in Card /\ cardType \in Types
      /\ addressed \in BOOLEAN /\ legal \in BOOLEAN
      /\ controller = "byCommand" /\ card.state \in {"idle", "stby"}
  BY <1>2 DEF IInv, Typed, Progress
<1>4. legal => KindKnown /\ card.rca = rca /\ csdOf = card.medium
  BY <1>2 DEF IInv, Progress
<1>5. /\ y.card \in Card /\ y.card.medium = card.medium
      /\ y.card.present = card.present /\ y.card.kind = card.kind
      /\ y.card.rca = card.rca /\ y.card.state = "tran"
  BY <1>3, ToReply
<1> HIDE DEF addressed, legal, y
<1>6. /\ Like(x.card, card) \/ (card.present /\ legal /\ x.card = y.card)
      /\ x.st = "SUCCESS" => legal /\ x.card = y.card
  BY <1>3, SentOne
<1>7. card' = x.card
  BY <1>1 DEF Then
<1>8. /\ Moves /\ card'.state \in {"idle", "stby", "tran"}
      /\ card'.state = "tran" => legal
  <2>1. CASE Like(x.card, card)
    BY <1>3, <1>7, <2>1, LikeMoves DEF Like
  <2>2. CASE card.present /\ legal /\ x.card = y.card
    BY <1>5, <1>7, <2>2 DEF Moves
  <2> QED
    BY <1>6, <2>1, <2>2
<1>9. card'.state = "tran" => KindKnown'
  BY <1>2, <1>4, <1>8 DEF Moves, KindKnown
<1>10. CASE x.st = "SUCCESS"
  <2>1. card'.state = "tran" /\ Known' /\ csdOf' = card'.medium
    BY <1>2, <1>4, <1>5, <1>6, <1>7, <1>10 DEF KindKnown, Known
  <2>2. CASE cardType = "HC"
    <3>1. Returned("SUCCESS")
      BY <1>1, <1>10, <2>2
    <3> QED
      BY <1>2, <1>3, <1>8, <2>1, <3>1, Succeeded DEF InitPCs
  <2>3. CASE cardType # "HC"
    <3>1. pc' = "cmd16" /\ UNCHANGED media
      BY <1>1, <1>10, <2>3 DEF Then, Goto
    <3>2. Typed' /\ Settled' /\ Calling'
      BY <1>2, <1>3, <1>8, <3>1, GoesOn DEF InitPCs
    <3>3. Progress'
      BY <1>2, <1>3, <1>8, <2>1, <3>1 DEF Progress, Moves
    <3> QED
      BY <3>2, <3>3 DEF IInv
  <2> QED
    BY <2>2, <2>3
<1>11. CASE x.st # "SUCCESS"
  <2>1. Returned(x.st)
    BY <1>1, <1>11 DEF Then
  <2> QED
    BY <1>2, <1>3, <1>8, <1>9, <1>11, <2>1, Failed DEF InitPCs, Selected
<1> QED
  BY <1>10, <1>11

LEMMA BlockLengthStep ==
  ASSUME IInv, InitBlockLength PROVE IInv'
<1> DEFINE legal == card.state = "tran"
           y == R1({}, card)
<1>1. PICK x \in SdCardSendCommandHost(TRUE, legal, {y}) :
        card' = x.card /\ Returned(x.st)
  BY DEF InitBlockLength
<1>2. pc = "cmd16" /\ UNCHANGED <<controller, caller, cardType, rca, csdOf>>
  BY DEF InitBlockLength, world, private
<1>3. /\ card \in Card /\ cardType \in Types /\ legal \in BOOLEAN
      /\ controller = "byCommand" /\ card.state \in {"idle", "tran"}
  BY <1>2 DEF IInv, Typed, Progress
<1>4. card.state = "tran" => Known
  BY <1>2 DEF IInv, Progress
<1>5. legal => card.state = "tran"
  OBVIOUS
<1>6. Like(y.card, card)
  BY <1>3, R1Card
<1> HIDE DEF legal, y
<1>7. /\ Like(x.card, card)
      /\ x.st = "SUCCESS" => card.state = "tran"
  <2>1. Like(x.card, card) \/ x.card = y.card
    BY <1>3, SentOne
  <2>2. ASSUME x.st = "SUCCESS" PROVE legal
    BY <1>3, <2>2, SentOne
  <2> QED
    BY <1>5, <1>6, <2>1, <2>2 DEF Like
<1>8. Moves /\ card'.state = card.state /\ card'.rca = card.rca /\ card'.kind = card.kind
  BY <1>1, <1>7, LikeMoves DEF Like
<1>9. card'.state = "tran" => Known'
  BY <1>2, <1>4, <1>8 DEF Known
<1>10. CASE x.st = "SUCCESS"
  <2>1. card'.state = "tran" /\ Known' /\ Returned("SUCCESS")
    BY <1>1, <1>7, <1>8, <1>9, <1>10
  <2> QED
    BY <1>2, <1>3, <1>8, <2>1, Succeeded DEF InitPCs
<1>11. CASE x.st # "SUCCESS"
  BY <1>1, <1>2, <1>3, <1>8, <1>9, <1>11, Failed DEF InitPCs, Selected, Known, KindKnown
<1> QED
  BY <1>10, <1>11

-----------------------------------------------------------------------------
(* The calls between initializations                                       *)

\* The card c is in the slot as before, and selected if it was.
Keeps(c) ==
  /\ c \in Card /\ c.medium = card.medium /\ c.present = card.present
  /\ c.kind = card.kind /\ c.rca = card.rca
  /\ c.state = card.state \/ {c.state, card.state} \subseteq Selected

LEMMA LikeKeeps ==
  ASSUME NEW c, Like(c, card) PROVE Keeps(c)
  BY DEF Like, Keeps

LEMMA SentKeeps ==
  ASSUME card \in Card, controller \in {"byCommand", "byType"},
         NEW addressed \in BOOLEAN, NEW legal \in BOOLEAN, NEW replies,
         legal => \A y \in replies : Keeps(y.card),
         NEW x \in SdCardSendCommandHost(addressed, legal, replies)
  PROVE  Keeps(x.card)
<1>1. Like(x.card, card) \/ (legal /\ \E y \in replies : x.card = y.card)
  BY Sent
<1> QED
  BY <1>1, LikeKeeps

\* A step of a call that leaves the card where it was.
LEMMA Between ==
  ASSUME IInv, pc \notin InitPCs, pc' \in PCs \ InitPCs, Keeps(card'),
         UNCHANGED <<controller, caller, cardType, rca, published, disturbed>>,
         ready' = ready \/ ready' = FALSE,
         pc' \in {"command", "cmd12", "finish"} => ready',
         pc' = "command" => req'.lba \in Lbas /\ req'.count \in Nat
  PROVE  IInv'
<1>1. Typed'
  BY DEF IInv, Typed, Keeps
<1>2. Progress'
  BY DEF IInv, Progress, Keeps, InitPCs, Selected
<1>3. Settled'
  BY DEF IInv, Settled, Keeps, Known, KindKnown, Selected
<1>4. Calling'
  BY DEF IInv, Calling, Keeps, Selected
<1> QED
  BY <1>1, <1>2, <1>3, <1>4 DEF IInv

LEMMA CallInitializeStep ==
  ASSUME IInv, CallInitialize PROVE IInv'
<1>1. /\ pc' = "cmd0" /\ caller' = "initialize"
      /\ UNCHANGED <<controller, card, cardType, rca, ready, published, disturbed>>
  BY DEF CallInitialize, Goto, world, private, media
<1>2. Typed'
  BY <1>1 DEF IInv, Typed, PCs
<1>3. Progress'
  BY <1>1 DEF IInv, Progress
<1>4. Settled' /\ Calling'
  BY <1>1 DEF IInv, Settled, Calling, InitPCs
<1> QED
  BY <1>2, <1>3, <1>4 DEF IInv

LEMMA CallTransferStep ==
  ASSUME IInv, NEW r, r.lba \in Lbas, r.count \in Nat, CallTransfer(r) PROVE IInv'
<1>1. /\ pc = "idle" /\ ready
      /\ UNCHANGED <<controller, caller, card, cardType, rca, ready, published, disturbed>>
  BY DEF CallTransfer, world, private, media
<1>2. (pc' = "command" /\ req' = r) \/ pc' = "idle"
  BY DEF CallTransfer, Goto
<1>3. Keeps(card')
  BY <1>1 DEF IInv, Typed, Keeps
<1> QED
  BY <1>1, <1>2, <1>3, Between DEF InitPCs, PCs

\* What a card may answer to a transfer command.
On == [To(IF req.op = "read" THEN "data" ELSE "rcv")
         EXCEPT !.open = BlockAt(Address(req.lba)), !.stream = req.count > 1]

TransferReplies ==
  {R1({e}, card) : e \in Refusals} \union
    {IF BlockAt(Address(req.lba)) = NoBlock THEN R1({31}, card) ELSE R1({}, On)}

LEMMA AddressIsNat ==
  ASSUME NEW lba \in Nat PROVE Address(lba) \in Nat
<1>1. Addresses \in Nat \ {0}
  BY HostAssumption
<1> QED
  BY <1>1 DEF Address

LEMMA BlockAtType ==
  ASSUME NEW a \in Nat PROVE BlockAt(a) \in {NoBlock} \union Nat
<1>1. a \div 512 \in Nat
  OBVIOUS
<1> QED
  BY <1>1 DEF BlockAt

LEMMA OnKeeps ==
  ASSUME card \in Card, card.state = "tran", req.lba \in Lbas, req.count \in Nat,
         NEW y \in {R1({}, On)}
  PROVE  Keeps(y.card) /\ y.card.open = BlockAt(Address(req.lba))
<1>1. BlockAt(Address(req.lba)) \in {NoBlock} \union Nat
  BY HostAssumption, AddressIsNat, BlockAtType
<1>2. PICK s \in {"data", "rcv"} : s = IF req.op = "read" THEN "data" ELSE "rcv"
  <2>1. (IF req.op = "read" THEN "data" ELSE "rcv") \in {"data", "rcv"}
    OBVIOUS
  <2> QED
    BY <2>1
<1>3. /\ To(s) \in Card /\ To(s).medium = card.medium /\ To(s).present = card.present
      /\ To(s).kind = card.kind /\ To(s).rca = card.rca /\ To(s).state = s
  BY ToCard
<1>4. On = [To(s) EXCEPT !.open = BlockAt(Address(req.lba)), !.stream = req.count > 1]
  BY <1>2 DEF On
<1>5. (req.count > 1) \in BOOLEAN
  <2>1. PICK n \in Nat : n = req.count
    OBVIOUS
  <2>2. (n > 1) \in BOOLEAN
    OBVIOUS
  <2> QED
    BY <2>1, <2>2
<1>6. /\ On \in Card /\ On.medium = card.medium /\ On.present = card.present
      /\ On.kind = card.kind /\ On.rca = card.rca /\ On.state = s
      /\ On.open = BlockAt(Address(req.lba))
  BY <1>1, <1>3, <1>4, <1>5 DEF Card
<1>7. Like(y.card, On)
  BY <1>6, R1Card
<1> QED
  BY <1>6, <1>7 DEF Like, Keeps, Selected

LEMMA TransferReply ==
  ASSUME card \in Card, card.state = "tran", req.lba \in Lbas, req.count \in Nat, NEW y \in TransferReplies
  PROVE  /\ Keeps(y.card)
         /\ y.card.open = card.open \/ y.card.open = BlockAt(Address(req.lba))
<1>1. (\E bits : y = R1(bits, card)) \/ y = R1({}, On)
  BY DEF TransferReplies
<1>2. ASSUME NEW bits, y = R1(bits, card) PROVE Like(y.card, card)
  BY <1>2, R1Card
<1>3. CASE \E bits : y = R1(bits, card)
  <2>1. Like(y.card, card)
    BY <1>2, <1>3
  <2> QED
    BY <2>1, LikeKeeps DEF Like
<1>4. CASE y = R1({}, On)
  BY <1>4, OnKeeps
<1> QED
  BY <1>1, <1>3, <1>4

LEMMA TransferCommandStep ==
  ASSUME IInv, TransferCommand PROVE IInv'
<1> DEFINE legal == card.state = "tran"
<1>1. PICK x \in SdCardSendCommandHost(TRUE, legal, TransferReplies) :
        card' = x.card /\ pc' \in {"cmd12", "finish"}
  BY DEF TransferCommand, TransferReplies, On, Goto
<1>2. /\ pc = "command"
      /\ UNCHANGED <<controller, caller, cardType, rca, ready, published, disturbed>>
  BY DEF TransferCommand, world, private, media
<1>3. /\ card \in Card /\ controller \in {"byCommand", "byType"} /\ legal \in BOOLEAN
      /\ ready /\ req.lba \in Lbas /\ req.count \in Nat
  BY <1>2 DEF IInv, Typed, Calling
<1>4. legal => \A y \in TransferReplies : Keeps(y.card)
  BY <1>3, TransferReply
<1> HIDE DEF legal
<1>5. Keeps(card')
  BY <1>1, <1>3, <1>4, SentKeeps
<1> QED
  BY <1>1, <1>2, <1>3, <1>5, Between DEF InitPCs, PCs

LEMMA TransferStopStep ==
  ASSUME IInv, TransferStop PROVE IInv'
<1> DEFINE legal == card.state \in {"data", "rcv"}
           y == R1({}, To("tran"))
<1>1. PICK x \in SdCardSendCommandHost(TRUE, legal, {y}) : card' = x.card
  BY DEF TransferStop
<1>2. /\ pc = "cmd12" /\ pc' = "finish"
      /\ UNCHANGED <<controller, caller, cardType, rca, ready, published, disturbed>>
  BY DEF TransferStop, Goto, world, private, media
<1>3. /\ card \in Card /\ controller \in {"byCommand", "byType"} /\ legal \in BOOLEAN
      /\ ready
  BY <1>2 DEF IInv, Typed, Calling
<1>4. legal => Keeps(y.card)
  BY <1>3, ToReply DEF Keeps, Selected
<1> HIDE DEF legal, y
<1>5. Keeps(card')
  BY <1>1, <1>3, <1>4, SentKeeps
<1> QED
  BY <1>2, <1>3, <1>5, Between DEF InitPCs, PCs

LEMMA TransferFinishStep ==
  ASSUME IInv, TransferFinish PROVE IInv'
<1>1. /\ pc = "finish" /\ pc' = "idle"
      /\ UNCHANGED <<controller, caller, card, cardType, rca, published, disturbed>>
      /\ ready' = ready \/ ready' = FALSE
  BY DEF TransferFinish, Goto, world, private, media
<1>2. Keeps(card')
  BY <1>1 DEF IInv, Typed, Keeps
<1> QED
  BY <1>1, <1>2, Between DEF InitPCs, PCs

-----------------------------------------------------------------------------
(* The operations that nothing calls                                       *)

LEMMA StatusKeeps ==
  ASSUME IInv,
         NEW x \in SdCardSendCommandHost(card.rca = rca,
                     card.state \in {"stby", "tran", "data", "rcv"},
                     {R1({}, IF card.app /\ card.state = "tran" THEN To("data") ELSE card)})
  PROVE  Keeps(x.card)
<1> DEFINE addressed == card.rca = rca
           legal == card.state \in {"stby", "tran", "data", "rcv"}
           y == R1({}, IF card.app /\ card.state = "tran" THEN To("data") ELSE card)
<1>1. card \in Card /\ controller \in {"byCommand", "byType"}
  BY DEF IInv, Typed
<1>2. addressed \in BOOLEAN /\ legal \in BOOLEAN
  OBVIOUS
<1>3. Keeps(y.card)
  <2>1. CASE card.app /\ card.state = "tran"
    <3>1. y = R1({}, To("data"))
      BY <2>1
    <3> HIDE DEF y
    <3> QED
      BY <1>1, <2>1, <3>1, ToReply DEF Keeps, Selected
  <2>2. CASE ~ (card.app /\ card.state = "tran")
    <3>1. y = R1({}, card)
      BY <2>2
    <3> HIDE DEF y
    <3> QED
      BY <1>1, <3>1, R1Card, LikeKeeps
  <2> QED
    BY <2>1, <2>2
<1>4. x \in SdCardSendCommandHost(addressed, legal, {y})
  OBVIOUS
<1>5. \A z \in {y} : Keeps(z.card)
  BY <1>3
<1> HIDE DEF addressed, legal, y
<1> QED
  BY <1>1, <1>2, <1>4, <1>5, SentKeeps

LEMMA SwitchKeeps ==
  ASSUME IInv, NEW x \in SwitchFunction PROVE Keeps(x.card)
<1> DEFINE legal == card.state = "tran"
           done == IF card.app THEN R1({5}, card) ELSE R1({}, To("data"))
           replies == {R1({e}, card) : e \in Refusals} \union {done}
<1>1. card \in Card /\ controller \in {"byCommand", "byType"} /\ legal \in BOOLEAN
  BY DEF IInv, Typed
<1>2. ASSUME legal, NEW y \in replies PROVE Keeps(y.card)
  <2>1. (\E bits : y = R1(bits, card)) \/ y = R1({}, To("data"))
    OBVIOUS
  <2>2. ASSUME NEW bits, y = R1(bits, card) PROVE Keeps(y.card)
    BY <1>1, <2>2, R1Card, LikeKeeps
  <2>3. CASE y = R1({}, To("data"))
    BY <1>1, <1>2, <2>3, ToReply DEF Keeps, Selected
  <2> QED
    BY <2>1, <2>2, <2>3
<1>3. x \in SdCardSendCommandHost(TRUE, legal, replies)
  BY DEF SwitchFunction
<1> HIDE DEF legal, done, replies
<1> QED
  BY <1>1, <1>2, <1>3, SentKeeps

LEMMA AppKeeps ==
  ASSUME IInv, NEW a, NEW x \in AppCmd(a) PROVE Keeps(x.card)
<1>1. Like(x.card, card)
  BY AppCmdCard DEF IInv, Typed
<1> QED
  BY <1>1, LikeKeeps

LEMMA GetCardStatusStep ==
  ASSUME IInv, GetCardStatusHost PROVE IInv'
<1> DEFINE y == R1({}, IF card.app /\ card.state = "tran" THEN To("data") ELSE card)
<1>1. PICK outcomes : outcomes =
        SdCardSendCommandHost(card.rca = rca, card.state \in {"stby", "tran", "data", "rcv"}, {y})
  OBVIOUS
<1>2. \A x \in outcomes : Keeps(x.card)
  BY <1>1, StatusKeeps
<1>3. pc = "idle" /\ \E x \in outcomes : card' = x.card
  BY <1>1 DEF GetCardStatusHost, Single
<1>4. UNCHANGED <<controller, caller, pc, cardType, rca, ready, published, disturbed>>
  BY DEF GetCardStatusHost, Single, media, world, private
<1>5. Keeps(card')
  BY <1>2, <1>3
<1> QED
  BY <1>3, <1>4, <1>5, Between DEF InitPCs, PCs

LEMMA SwitchStep ==
  ASSUME IInv, SetUhsMode \/ SwitchToBootPartition PROVE IInv'
<1>1. pc = "idle" /\ \E x \in SwitchFunction : card' = x.card
  BY DEF SetUhsMode, SwitchToBootPartition, Single
<1>2. UNCHANGED <<controller, caller, pc, cardType, rca, ready, published, disturbed>>
  BY DEF SetUhsMode, SwitchToBootPartition, Single, media, world, private
<1>3. Keeps(card')
  BY <1>1, SwitchKeeps
<1> QED
  BY <1>1, <1>2, <1>3, Between DEF InitPCs, PCs

LEMMA SetBusWidthStep ==
  ASSUME IInv, SetBusWidthHost \/ SetBusWidth PROVE IInv'
<1>1. /\ pc \in {"idle", "width"} /\ pc' \in {"idle", "width"}
      /\ \E x \in AppCmd(rca) \union SwitchFunction : card' = x.card
  BY DEF SetBusWidthHost, SetBusWidth, Goto
<1>2. UNCHANGED <<controller, caller, cardType, rca, ready, published, disturbed>>
  BY DEF SetBusWidthHost, SetBusWidth, media, world, private
<1>3. Keeps(card')
  BY <1>1, SwitchKeeps, AppKeeps
<1> QED
  BY <1>1, <1>2, <1>3, Between DEF InitPCs, PCs

\* After a CMD0 that Block I/O is not told of.
LEMMA ResetCardStep ==
  ASSUME IInv, PowerOff \/ ErrorRecoveryHost PROVE IInv'
<1>1. PICK x \in GoIdle :
        /\ card' = x.card
        /\ \/ pc' = "idle" /\ caller' = caller
           \/ caller' = "recovery" /\ pc' = "idle"
           \/ caller' = "recovery" /\ pc' = "cmd0" /\ x.st = "SUCCESS"
  BY DEF PowerOff, ErrorRecoveryHost, Single, Goto
<1>2. /\ pc = "idle" /\ disturbed' = TRUE
      /\ UNCHANGED <<controller, cardType, rca, ready, published>>
  BY DEF PowerOff, ErrorRecoveryHost, Single, world, private
<1>3. /\ card \in Card /\ (card.present \/ card.state = "idle")
      /\ card.state = "idle" => card.rca = {}
      /\ caller \in {"initialize", "recovery"}
  BY DEF IInv, Typed, Calling, Progress
<1>4. /\ Moves
      /\ card'.state = card.state \/ card'.state = "idle"
      /\ x.st = "SUCCESS" => card'.state = "idle"
  BY <1>1, <1>3, GoIdleCard DEF Moves
<1>5. pc' \in {"idle", "cmd0"}
  BY <1>1
<1>6. Typed'
  BY <1>2, <1>4, <1>5 DEF IInv, Typed, Moves, PCs
<1>7. Progress'
  BY <1>1, <1>4, <1>5 DEF Progress, Moves
<1>8. Settled'
  BY <1>2, <1>4, <1>5 DEF IInv, Settled, Moves, KindKnown, Selected, InitPCs
<1>9. Calling'
  BY <1>1, <1>2, <1>3, <1>4, <1>5 DEF IInv, Calling, Moves, InitPCs
<1> QED
  BY <1>6, <1>7, <1>8, <1>9 DEF IInv

-----------------------------------------------------------------------------
(* The slot                                                                *)

LEMMA CardSentStep ==
  ASSUME IInv, CardSent PROVE IInv'
<1>1. card.state = "data" /\ card' = To("tran")
  BY DEF CardSent
<1>2. UNCHANGED <<controller, caller, pc, cardType, rca, csdOf, req, ready, published, disturbed>>
  BY DEF CardSent, driver, world, private, media, transfer
<1>3. /\ card' \in Card /\ card'.medium = card.medium /\ card'.present = card.present
      /\ card'.kind = card.kind /\ card'.rca = card.rca /\ card'.state = "tran"
  BY <1>1, ToCard DEF IInv, Typed
<1>4. Typed'
  BY <1>2, <1>3 DEF IInv, Typed
<1>5. Progress'
  BY <1>1, <1>2, <1>3 DEF IInv, Progress
<1>6. Settled'
  BY <1>1, <1>2, <1>3 DEF IInv, Settled, Known, KindKnown, Selected
<1>7. Calling'
  BY <1>1, <1>2, <1>3 DEF IInv, Calling, CardSent
<1> QED
  BY <1>4, <1>5, <1>6, <1>7 DEF IInv

LEMMA RemoveStep ==
  ASSUME IInv, Remove PROVE IInv'
<1>1. card' = [To("idle") EXCEPT !.present = FALSE, !.rca = {}, !.app = FALSE,
                                 !.illegal = FALSE]
  BY DEF Remove
<1>2. UNCHANGED <<controller, caller, pc, cardType, rca, csdOf, req, ready, published, disturbed>>
  BY DEF Remove, driver, world, private, media, transfer
<1>3. To("idle") \in Card /\ To("idle").medium = card.medium /\ To("idle").state = "idle"
  BY ToCard DEF IInv, Typed
<1>4. /\ card' \in Card /\ card'.medium = card.medium /\ ~card'.present
      /\ card'.rca = {} /\ card'.state = "idle"
  BY <1>1, <1>3 DEF Card
<1>5. Typed'
  BY <1>2, <1>4 DEF IInv, Typed
<1>6. Progress'
  BY <1>2, <1>4 DEF IInv, Progress
<1>7. Settled'
  BY <1>2, <1>4 DEF IInv, Settled, Selected
<1>8. Calling'
  BY <1>2, <1>4 DEF IInv, Calling
<1> QED
  BY <1>5, <1>6, <1>7, <1>8 DEF IInv

LEMMA InsertStep ==
  ASSUME IInv, NEW kind \in Kinds, Insert(kind) PROVE IInv'
<1>1. /\ ~card.present /\ card.medium < MaxMedia
      /\ card' = [card EXCEPT !.medium = @ + 1, !.present = TRUE, !.kind = kind]
  BY DEF Insert
<1>2. UNCHANGED <<controller, caller, pc, cardType, rca, csdOf, req, ready, published, disturbed>>
  BY DEF Insert, driver, world, private, media, transfer
<1>3. /\ card \in Card /\ card.state = "idle" /\ card.rca = {}
      /\ published.medium <= card.medium /\ published.medium \in Nat
  BY <1>1 DEF IInv, Typed, Calling, Progress
<1>4. MaxMedia \in Nat /\ card.medium \in 0 .. MaxMedia
  BY <1>3, HostAssumption DEF Card
<1>5. card.medium + 1 \in 0 .. MaxMedia
  BY <1>1, <1>4
<1>6. /\ card' \in Card /\ card'.medium = card.medium + 1 /\ card'.present
      /\ card'.rca = {} /\ card'.state = "idle"
  BY <1>1, <1>3, <1>5 DEF Card
<1>7. published.medium < card'.medium
  BY <1>3, <1>4, <1>6
<1>8. Typed'
  BY <1>2, <1>6 DEF IInv, Typed
<1>9. Progress'
  BY <1>2, <1>6 DEF IInv, Progress
<1>10. Settled'
  BY <1>2, <1>3, <1>4, <1>6, <1>7 DEF Settled, Selected
<1>11. Calling'
  BY <1>2, <1>3, <1>4, <1>6, <1>7 DEF IInv, Calling
<1> QED
  BY <1>8, <1>9, <1>10, <1>11 DEF IInv

-----------------------------------------------------------------------------
(* The invariant                                                           *)

LEMMA InitIInv ==
  ASSUME Init PROVE IInv
<1>0. card \in [medium : {0}, present : BOOLEAN, kind : Kinds, state : {"idle", "tran"},
               rca : Rcas \union {{}}, app : {FALSE}, illegal : {FALSE},
               open : {NoBlock}, stream : {FALSE}]
  BY DEF Init
<1>1. /\ card \in Card /\ card.medium = 0
      /\ card.state = "idle" => card.rca = {}
      /\ card.present \/ card.state = "idle"
  <2>1. 0 \in 0 .. MaxMedia
    BY HostAssumption
  <2>2. card \in Card /\ card.medium = 0 /\ card.state \in {"idle", "tran"}
    BY <1>0, <2>1 DEF Card
  <2>3. (card.state = "tran" <=> card.rca # {}) /\ (card.present \/ card.state = "idle")
    BY DEF Init
  <2> QED
    BY <2>2, <2>3
<1>2. /\ controller \in {"byCommand", "byType"} /\ cardType = "UNKNOWN"
      /\ pc = "idle" /\ ready = FALSE /\ published.medium = 0 /\ disturbed = FALSE
      /\ caller = "initialize"
  BY HostAssumption DEF Init
<1>3. Typed
  <2>1. published.medium \in Nat /\ pc \in PCs /\ cardType \in Types
    BY <1>2 DEF PCs, Types
  <2> QED
    BY <1>1, <1>2, <2>1 DEF Typed
<1>4. Progress
  BY <1>1, <1>2 DEF Progress
<1>5. Settled /\ Calling
  BY <1>1, <1>2 DEF Settled, Calling, InitPCs
<1> QED
  BY <1>3, <1>4, <1>5 DEF IInv

LEMMA CallIsTransfer ==
  ASSUME Call, ~ CallInitialize, ~ ErrorRecoveryHost, ~ GetCardStatusHost, ~ SetUhsMode,
         ~ SwitchToBootPartition, ~ SetBusWidthHost, ~ PowerOff
  PROVE  \E r : r.lba \in Lbas /\ r.count \in Nat /\ CallTransfer(r)
<1>1. PICK op \in {"read", "write"}, lba \in Lbas, count \in 1 .. 2, buffer \in 0 .. 1 :
        CallTransfer([op |-> op, lba |-> lba, count |-> count, buffer |-> buffer])
  BY DEF Call
<1> DEFINE r == [op |-> op, lba |-> lba, count |-> count, buffer |-> buffer]
<1>2. r.lba \in Lbas /\ r.count \in Nat
  OBVIOUS
<1>3. CallTransfer(r)
  BY <1>1
<1> QED
  BY <1>2, <1>3

LEMMA StutterStep ==
  ASSUME IInv, UNCHANGED vars PROVE IInv'
<1>1. UNCHANGED <<controller, card, cardType, rca, csdOf, ready, published, disturbed,
                  caller, pc, req>>
  BY DEF vars
<1> QED
  BY <1>1 DEF IInv, Typed, Progress, Settled, Calling, Known, KindKnown

LEMMA NextIInv ==
  ASSUME IInv, [Next]_vars PROVE IInv'
<1>1. CASE DriverStep
  BY <1>1, ResetStep, VersionStep, AppCmdStep, OpCondStep, CidStep, AddressStep, CsdStep,
     SelectStep, BlockLengthStep, TransferCommandStep, TransferStopStep,
     TransferFinishStep, SetBusWidthStep DEF DriverStep
<1>2. CASE Call
  BY <1>2, CallInitializeStep, ResetCardStep, GetCardStatusStep, SwitchStep,
     SetBusWidthStep, CallTransferStep, CallIsTransfer
<1>3. CASE CardSent \/ Remove \/ \E kind \in Kinds : Insert(kind)
  BY <1>3, CardSentStep, RemoveStep, InsertStep
<1>4. CASE UNCHANGED vars
  BY <1>4, StutterStep
<1> QED
  BY <1>1, <1>2, <1>3, <1>4 DEF Next

\* The invariant the other proofs rest on: what the driver holds of a card is
\* true of it in the state the card is in, at each step of initialization.
THEOREM InductiveInvariant == Spec => []IInv
<1>1. Init => IInv
  BY InitIInv
<1>2. IInv /\ [Next]_vars => IInv'
  BY NextIInv
<1> QED
  BY <1>1, <1>2, PTL DEF Spec

-----------------------------------------------------------------------------
(* The card is the one that was brought up                                 *)

(* Whatever fails between two calls, a card that is still the one media was *)
(* published for is selected under the address the driver knows.           *)
THEOREM ReadySelected == Spec => []ReadyCardIsSelected
<1>1. IInv => ReadyCardIsSelected
  BY DEF IInv, Settled, ReadyCardIsSelected, InitPCs, Selected
<1> QED
  BY <1>1, InductiveInvariant, PTL

Initialized ==
  pc' = "idle" /\ pc \in {"cmd7", "cmd16"} /\ status' = "SUCCESS" =>
    (Known /\ card.state = "tran" /\ card.medium = csdOf)'

LEMMA SelectSelects ==
  ASSUME IInv, InitSelect, pc' = "idle", status' = "SUCCESS"
  PROVE  (Known /\ card.state = "tran" /\ card.medium = csdOf)'
<1> DEFINE addressed == card.rca = rca
           legal == card.state = "stby"
           y == R1({}, To("tran"))
<1>1. PICK x \in SdCardSendCommandHost(addressed, legal, {y}) :
        IF x.st = "SUCCESS" /\ cardType = "HC"
        THEN card' = x.card /\ Returned("SUCCESS")
        ELSE Then(x, "cmd16")
  BY DEF InitSelect
<1>2. pc = "cmd7" /\ UNCHANGED <<cardType, rca, csdOf>>
  BY DEF InitSelect, world, private
<1>3. /\ card \in Card /\ controller = "byCommand"
      /\ addressed \in BOOLEAN /\ legal \in BOOLEAN
  BY <1>2 DEF IInv, Typed, Progress
<1>4. legal => KindKnown /\ card.rca = rca /\ csdOf = card.medium
  BY <1>2 DEF IInv, Progress
<1>5. /\ y.card.medium = card.medium /\ y.card.kind = card.kind
      /\ y.card.rca = card.rca /\ y.card.state = "tran"
  BY <1>3, ToReply
<1>6. x.st = "SUCCESS"
  BY <1>1 DEF Then, Returned
<1> HIDE DEF addressed, legal, y
<1>7. legal /\ card' = x.card /\ x.card = y.card
  BY <1>1, <1>3, <1>6, SentOne DEF Then
<1> QED
  BY <1>2, <1>4, <1>5, <1>7 DEF Known, KindKnown

LEMMA BlockLengthSelects ==
  ASSUME IInv, InitBlockLength, status' = "SUCCESS"
  PROVE  (Known /\ card.state = "tran" /\ card.medium = csdOf)'
<1> DEFINE legal == card.state = "tran"
           y == R1({}, card)
<1>1. PICK x \in SdCardSendCommandHost(TRUE, legal, {y}) :
        card' = x.card /\ Returned(x.st)
  BY DEF InitBlockLength
<1>2. pc = "cmd16" /\ UNCHANGED <<cardType, rca, csdOf>>
  BY DEF InitBlockLength, world, private
<1>3. card \in Card /\ controller = "byCommand" /\ legal \in BOOLEAN
  BY <1>2 DEF IInv, Typed, Progress
<1>4. legal => Known /\ card.state = "tran" /\ csdOf = card.medium
  BY <1>2 DEF IInv, Progress
<1>5. Like(y.card, card)
  BY <1>3, R1Card
<1>6. x.st = "SUCCESS"
  BY <1>1 DEF Returned
<1> HIDE DEF legal, y
<1>7. legal /\ x.card = y.card
  BY <1>3, <1>6, SentOne
<1> QED
  BY <1>1, <1>2, <1>4, <1>5, <1>7 DEF Known, Like

(* An initialization that returns success leaves the card selected, and the *)
(* driver with its relative address, its kind and its CSD.                  *)
THEOREM InitializedSelected == Spec => InitializedIsSelected
<1>1. ASSUME IInv, [Next]_vars PROVE Initialized
  <2> SUFFICES ASSUME pc' = "idle", pc \in {"cmd7", "cmd16"}, status' = "SUCCESS"
               PROVE  (Known /\ card.state = "tran" /\ card.medium = csdOf)'
    BY DEF Initialized
  <2>1. CASE DriverStep
    <3>1. InitSelect \/ InitBlockLength
      BY <2>1 DEF DriverStep, InitReset, InitVersion, InitAppCmd, InitOpCond, InitCid,
                  InitAddress, InitCsd, TransferCommand, TransferStop, TransferFinish,
                  SetBusWidth
    <3> QED
      BY <1>1, <3>1, SelectSelects, BlockLengthSelects
  <2>2. CASE Call
    BY <2>2 DEF Call, CallInitialize, ErrorRecoveryHost, GetCardStatusHost, SetUhsMode,
                SwitchToBootPartition, SetBusWidthHost, PowerOff, CallTransfer, Single
  <2>3. CASE CardSent \/ Remove \/ \E kind \in Kinds : Insert(kind)
    BY <2>3 DEF CardSent, Remove, Insert, driver
  <2>4. CASE UNCHANGED vars
    BY <2>4 DEF vars
  <2> QED
    BY <1>1, <2>1, <2>2, <2>3, <2>4 DEF Next
<1>2. IInv /\ [Next]_vars => [Initialized]_vars
  BY <1>1
<1> QED
  BY <1>2, InductiveInvariant, PTL DEF Spec, InitializedIsSelected, Initialized

-----------------------------------------------------------------------------
(* The block asked for                                                     *)

\* A command argument holds every block number and, unless all cards are
\* addressed by blocks, the address of its first byte.
AddressesSuffice ==
  \A l \in Lbas : l < Addresses /\ (Kinds \subseteq {"HC"} \/ l * 512 < Addresses)

LEMMA SmallModulo == \A a, n \in Nat : a < n => a % n = a
  OBVIOUS

\* A card whose kind is known finds the block that was asked for.
LEMMA FindsBlock ==
  ASSUME AddressesSuffice, card \in Card, KindKnown, NEW lba \in Lbas
  PROVE  BlockAt(Address(lba)) \in {NoBlock, lba}
<1>1. lba \in Nat /\ Addresses \in Nat
  BY HostAssumption
<1>2. CASE card.kind = "HC"
  <2>1. lba % Addresses = lba
    BY <1>1, SmallModulo DEF AddressesSuffice
  <2> QED
    BY <1>2, <2>1 DEF KindKnown, Address, BlockAt
<1>3. CASE card.kind # "HC"
  <2>1. card.kind \in Kinds
    BY DEF Card
  <2>2. lba * 512 < Addresses /\ lba * 512 \in Nat
    BY <1>1, <1>3, <2>1 DEF AddressesSuffice
  <2>3. (lba * 512) % Addresses = lba * 512
    BY <1>1, <2>2, SmallModulo
  <2>4. Address(lba) = lba * 512
    BY <1>3, <2>3 DEF KindKnown, Address
  <2>5. BlockAt(lba * 512) \in {NoBlock, (lba * 512) \div 512}
    BY <1>3 DEF BlockAt
  <2>6. (lba * 512) \div 512 = lba
    BY <1>1
  <2> QED
    BY <2>4, <2>5, <2>6
<1> QED
  BY <1>2, <1>3

Opens ==
  pc = "command" /\ card'.open \notin {NoBlock, card.open} =>
    card'.open = req.lba /\ (~disturbed => card'.medium = published.medium)

LEMMA TransferOpens ==
  ASSUME AddressesSuffice, IInv, TransferCommand PROVE Opens
<1> DEFINE legal == card.state = "tran"
<1>1. PICK x \in SdCardSendCommandHost(TRUE, legal, TransferReplies) : card' = x.card
  BY DEF TransferCommand, TransferReplies, On
<1>2. pc = "command"
  BY DEF TransferCommand
<1>3. /\ card \in Card /\ controller = "byCommand" /\ legal \in BOOLEAN
      /\ ready /\ req.lba \in Lbas /\ req.count \in Nat
  BY <1>2 DEF IInv, Typed, Calling
<1>4. legal => KindKnown /\ (~disturbed => card.medium = published.medium)
  BY <1>2, <1>3 DEF IInv, Settled, InitPCs, Selected
<1>5. ASSUME legal, NEW y \in TransferReplies
      PROVE  Keeps(y.card) /\ (y.card.open = card.open \/ y.card.open = BlockAt(Address(req.lba)))
  BY <1>3, <1>5, TransferReply
<1> HIDE DEF legal
<1>6. Like(x.card, card) \/ (legal /\ \E y \in TransferReplies : x.card = y.card)
  BY <1>3, SentSome, SentLegal
<1>7. CASE Like(x.card, card)
  BY <1>1, <1>7 DEF Like, Opens
<1>8. CASE legal /\ \E y \in TransferReplies : x.card = y.card
  <2>1. Keeps(card') /\ (card'.open = card.open \/ card'.open = BlockAt(Address(req.lba)))
    BY <1>1, <1>5, <1>8
  <2>2. BlockAt(Address(req.lba)) \in {NoBlock, req.lba}
    BY <1>3, <1>4, <1>8, FindsBlock
  <2> QED
    BY <1>4, <1>8, <2>1, <2>2 DEF Keeps, Opens
<1> QED
  BY <1>6, <1>7, <1>8

(* A transfer opens the block asked for, on the medium published unless    *)
(* Block I/O was not told of a recovery, whatever the kind of the card.    *)
THEOREM OpensRequested ==
  ASSUME AddressesSuffice PROVE Spec => TransferOpensRequestedBlock
<1>1. ASSUME IInv, [Next]_vars PROVE Opens
  <2> SUFFICES ASSUME pc = "command", card'.open \notin {NoBlock, card.open}
               PROVE  Opens
    BY DEF Opens
  <2>1. CASE DriverStep
    <3>1. TransferCommand
      BY <2>1 DEF DriverStep, InitReset, InitVersion, InitAppCmd, InitOpCond, InitCid,
                  InitAddress, InitCsd, InitSelect, InitBlockLength, TransferStop,
                  TransferFinish, SetBusWidth
    <3> QED
      BY <1>1, <3>1, TransferOpens
  <2>2. CASE Call
    BY <2>2 DEF Call, CallInitialize, ErrorRecoveryHost, GetCardStatusHost, SetUhsMode,
                SwitchToBootPartition, SetBusWidthHost, PowerOff, CallTransfer, Single
  <2>3. CASE CardSent \/ Remove
    <3>1. card \in Card
      BY <1>1 DEF IInv, Typed
    <3>2. To("tran").open = NoBlock /\ To("idle") \in Card /\ To("idle").open = NoBlock
      BY <3>1, ToCard
    <3>3. card'.open = NoBlock
      BY <2>3, <3>2 DEF CardSent, Remove, Card
    <3> QED
      BY <3>3
  <2>4. CASE \E kind \in Kinds : Insert(kind)
    BY <1>1, <2>4 DEF Insert, IInv, Typed, Card
  <2>5. CASE UNCHANGED vars
    BY <2>5 DEF vars
  <2> QED
    BY <1>1, <2>1, <2>2, <2>3, <2>4, <2>5 DEF Next
<1>2. IInv /\ [Next]_vars => [Opens]_vars
  BY <1>1
<1> QED
  BY <1>2, InductiveInvariant, PTL DEF Spec, TransferOpensRequestedBlock, Opens

-----------------------------------------------------------------------------
(* Bounce buffers                                                          *)

Transferring == {"command", "cmd12", "finish"}

\* The pool blocks that are allocated are those of the transfer under way.
BufferInv ==
  /\ pc \in Transferring => pool \subseteq {bounce}
  /\ pc \notin Transferring => pool = {}

LEMMA AlignedBuffer ==
  ASSUME NEW p \in Nat, NEW n \in Nat \ {0}, NEW q \in Nat, p = q * n
  PROVE  BounceBufferIn(p, n) = p
<1>1. (q * n + n - 1) \div n = q
  OBVIOUS
<1> QED
  BY <1>1 DEF BounceBufferIn

\* AllocatePool aligns its blocks for every IoAlign that divides its own.
PoolIsAligned == \E q \in Nat : PoolAlign = q * IoAlign

LEMMA NextBufferInv ==
  ASSUME PoolIsAligned, BufferInv, [Next]_vars PROVE BufferInv'
<1>1. CASE DriverStep
  <2>1. CASE TransferCommand \/ TransferStop
    BY <2>1 DEF TransferCommand, TransferStop, Goto, BufferInv, Transferring
  <2>2. CASE TransferFinish
    BY <2>2 DEF TransferFinish, Goto, BufferInv, Transferring, SdCardFreeBounceBuffer
  <2>3. CASE InitReset \/ InitVersion \/ InitAppCmd
    <3>1. UNCHANGED <<pool, bounce>> /\ pc \in {"cmd0", "cmd8", "cmd55"}
      BY <2>3 DEF InitReset, InitVersion, InitAppCmd, transfer
    <3>2. pc' \in {"idle", "cmd8", "cmd55", "acmd41"}
      BY <2>3 DEF InitReset, InitVersion, InitAppCmd, Then, Returned, Goto
    <3> QED
      BY <3>1, <3>2 DEF BufferInv, Transferring
  <2>4. CASE InitOpCond \/ InitCid \/ InitAddress
    <3>1. UNCHANGED <<pool, bounce>> /\ pc \in {"acmd41", "cmd2", "cmd3"}
      BY <2>4 DEF InitOpCond, InitCid, InitAddress, transfer
    <3>2. pc' \in {"idle", "cmd55", "cmd2", "cmd3", "cmd9"}
      BY <2>4 DEF InitOpCond, InitCid, InitAddress, Then, Returned, Goto
    <3> QED
      BY <3>1, <3>2 DEF BufferInv, Transferring
  <2>5. CASE InitCsd \/ InitSelect \/ InitBlockLength
    <3>1. UNCHANGED <<pool, bounce>> /\ pc \in {"cmd9", "cmd7", "cmd16"}
      BY <2>5 DEF InitCsd, InitSelect, InitBlockLength, transfer
    <3>2. pc' \in {"idle", "cmd7", "cmd16"}
      BY <2>5 DEF InitCsd, InitSelect, InitBlockLength, Then, Returned, Goto
    <3> QED
      BY <3>1, <3>2 DEF BufferInv, Transferring
  <2>6. CASE SetBusWidth
    BY <2>6 DEF SetBusWidth, Goto, transfer, BufferInv, Transferring
  <2> QED
    BY <1>1, <2>1, <2>2, <2>3, <2>4, <2>5, <2>6 DEF DriverStep
<1>2. CASE Call
  <2>1. CASE CallInitialize \/ ErrorRecoveryHost
    BY <2>1 DEF CallInitialize, ErrorRecoveryHost, Goto, transfer, BufferInv, Transferring
  <2>2. CASE GetCardStatusHost \/ SetUhsMode \/ SwitchToBootPartition \/ PowerOff
    BY <2>2 DEF GetCardStatusHost, SetUhsMode, SwitchToBootPartition, PowerOff, Single,
                transfer, BufferInv, Transferring
  <2>3. CASE SetBusWidthHost
    BY <2>3 DEF SetBusWidthHost, Goto, transfer, BufferInv, Transferring
  <2>4. ASSUME NEW r, CallTransfer(r) PROVE BufferInv'
    <3>1. BounceBufferIn(PoolAlign, IoAlign) = PoolAlign
      BY HostAssumption, AlignedBuffer DEF PoolIsAligned
    <3>2. pool = {}
      BY <2>4 DEF CallTransfer, BufferInv, Transferring
    <3>3. \/ bounce' = 0 /\ pool' = pool /\ pc' = "command"
          \/ /\ bounce' = BounceBufferIn(PoolAlign, IoAlign)
             /\ pool' = pool \union {PoolAlign} /\ pc' = "command"
          \/ pool' = pool /\ pc' = "idle"
      BY <2>4 DEF CallTransfer, Goto
    <3> QED
      BY <3>1, <3>2, <3>3 DEF BufferInv, Transferring
  <2> QED
    BY <1>2, <2>1, <2>2, <2>3, <2>4 DEF Call
<1>3. CASE CardSent \/ Remove \/ \E kind \in Kinds : Insert(kind)
  BY <1>3 DEF CardSent, Remove, Insert, driver, transfer, BufferInv, Transferring
<1>4. CASE UNCHANGED vars
  BY <1>4 DEF vars, BufferInv, Transferring
<1> QED
  BY <1>1, <1>2, <1>3, <1>4 DEF Next

(* No transfer leaks its bounce buffer, however it ends, although it is    *)
(* freed by its aligned address.                                           *)
THEOREM BuffersFreed ==
  ASSUME PoolIsAligned PROVE Spec => []BuffersAreFreed
<1>1. Init => BufferInv
  BY DEF Init, BufferInv, Transferring
<1>2. BufferInv /\ [Next]_vars => BufferInv'
  BY NextBufferInv
<1>3. BufferInv => BuffersAreFreed
  BY DEF BufferInv, BuffersAreFreed, Transferring
<1> QED
  BY <1>1, <1>2, <1>3, PTL DEF Spec

-----------------------------------------------------------------------------
(* Types                                                                   *)

(* What IInv does not say of the types, with the retries the ACMD41 loop   *)
(* has left while it runs: Retry stays in range for no other reason.       *)
Rest ==
  /\ controller \in Controllers /\ starts \in Inquiries /\ rca \in Rcas \union {{}}
  /\ csdOf \in 0 .. MaxMedia /\ blocks \in Nat
  /\ ready \in BOOLEAN /\ published \in [medium : 0 .. MaxMedia, blocks : Nat]
  /\ status \in Statuses /\ resp \in Bits
  /\ retry \in 0 .. Retries /\ req \in Request
  /\ bounce \in Nat /\ pool \subseteq Nat
  /\ pc \in {"cmd55", "acmd41"} => retry # 0

LEMMA CapacityType ==
  ASSUME card \in Card PROVE CapacityOf(card.kind) \in Nat
<1>1. Csd[card.kind] \in [0 .. 127 -> Bit]
  BY HostAssumption DEF Card, Bit
<1> QED
  BY <1>1, ParsedType DEF CapacityOf

LEMMA CsdType ==
  ASSUME card \in Card
  PROVE  ParseCsdRegister(CsdRead, Shift).blocks \in Nat
         /\ ParseCsdRegister(CsdRead, Shift).st \in Statuses
<1>1. CsdRead \in [0 .. 127 -> Bit]
  BY HostAssumption DEF Card, Bit, CsdRead
<1>2. ParseCsdRegister(CsdRead, Shift) \in
        [st : {"SUCCESS", "UNSUPPORTED"}, high : BOOLEAN, blocks : Nat]
  BY <1>1, HostAssumption, HostParsedType
<1> QED
  BY <1>2 DEF Statuses

LEMMA SentStatus ==
  ASSUME controller \in {"byCommand", "byType"}, NEW addressed, NEW legal, NEW replies,
         NEW x \in SdCardSendCommandHost(addressed, legal, replies)
  PROVE  /\ x.st \in Statuses
         /\ (\A y \in replies : y.resp \in Bits) => x.resp \in Bits
<1> DEFINE made == IF card.present /\ addressed /\ legal THEN replies ELSE {}
           deaf == IF card.present /\ addressed /\ ~legal
                   THEN [card EXCEPT !.illegal = TRUE, !.app = FALSE] ELSE card
<1>1. \/ x \in Lost(made)
      \/ x \in {Outcome("SUCCESS", {}, z) : z \in IF made = {} THEN {deaf} ELSE {y.card : y \in made}}
      \/ x = Outcome("TIMEOUT", {}, deaf)
      \/ x \in {Outcome(CheckSdErrorResponse(z.resp), z.resp, z.card) : z \in made}
  BY DEF SdCardSendCommandHost
<1>2. \A z \in made : z \in replies
  OBVIOUS
<1> HIDE DEF made, deaf
<1>3. {} \in Bits
  BY DEF Bits
<1>4. CASE x \in Lost(made)
  BY <1>3, <1>4 DEF Lost, Outcome, Statuses
<1>5. CASE x \in {Outcome("SUCCESS", {}, z) : z \in IF made = {} THEN {deaf} ELSE {y.card : y \in made}}
  BY <1>3, <1>5 DEF Outcome, Statuses
<1>6. CASE x = Outcome("TIMEOUT", {}, deaf)
  BY <1>3, <1>6 DEF Outcome, Statuses
<1>7. CASE x \in {Outcome(CheckSdErrorResponse(z.resp), z.resp, z.card) : z \in made}
  <2>1. PICK z \in made : x.st = CheckSdErrorResponse(z.resp) /\ x.resp = z.resp
    BY <1>7 DEF Outcome
  <2>2. CheckSdErrorResponse(z.resp) \in Statuses
    BY DEF CheckSdErrorResponse, SdCardMapSdErrorToEfiStatus, Statuses
  <2> QED
    BY <1>2, <2>1, <2>2
<1> QED
  BY <1>1, <1>4, <1>5, <1>6, <1>7

LEMMA GoIdleStatus ==
  ASSUME NEW x \in GoIdle PROVE x.st \in Statuses
  BY DEF GoIdle, Lost, Outcome, Statuses

LEMMA ReturnedTypes ==
  ASSUME Rest, card \in Card, NEW st \in Statuses, Returned(st)
  PROVE  /\ pc' = "idle" /\ status' \in Statuses /\ ready' \in BOOLEAN
         /\ published' \in [medium : 0 .. MaxMedia, blocks : Nat]
<1>1. card.medium \in 0 .. MaxMedia /\ CapacityOf(card.kind) \in Nat
  BY CapacityType DEF Card
<1>2. pc' = "idle" /\ status' = st
  BY DEF Returned, Goto
<1>3. MediaPresent(st) \in BOOLEAN
  BY DEF MediaPresent
<1>4. CASE caller = "initialize"
  <2>1. /\ ready' = MediaPresent(st)
        /\ published' = IF st = "SUCCESS"
                        THEN [medium |-> card.medium, blocks |-> CapacityOf(card.kind)]
                        ELSE published
    BY <1>4 DEF Returned
  <2> QED
    BY <1>1, <1>2, <1>3, <2>1 DEF Rest
<1>5. CASE caller # "initialize"
  <2>1. UNCHANGED <<ready, published>>
    BY <1>5 DEF Returned, media
  <2> QED
    BY <1>2, <2>1 DEF Rest
<1> QED
  BY <1>4, <1>5

LEMMA ThenTypes ==
  ASSUME Rest, card \in Card, NEW x, x.st \in Statuses, NEW l, Then(x, l)
  PROVE  /\ pc' \in {l, "idle"} /\ status' \in Statuses /\ ready' \in BOOLEAN
         /\ published' \in [medium : 0 .. MaxMedia, blocks : Nat]
<1>1. CASE x.st = "SUCCESS"
  <2>1. pc' = l /\ status' = x.st /\ UNCHANGED <<ready, published>>
    BY <1>1 DEF Then, Goto, media
  <2> QED
    BY <2>1 DEF Rest
<1>2. CASE x.st # "SUCCESS"
  BY <1>2, ReturnedTypes DEF Then
<1> QED
  BY <1>1, <1>2

LEMMA InitTypes ==
  ASSUME IInv, Rest,
         InitReset \/ InitAppCmd \/ InitCid \/ InitSelect \/ InitBlockLength
  PROVE  Rest'
<1>1. card \in Card /\ controller \in {"byCommand", "byType"}
  BY DEF IInv, Typed
<1>2. UNCHANGED <<world, private, caller, retry, transfer>>
  BY DEF InitReset, InitAppCmd, InitCid, InitSelect, InitBlockLength
<1>3. /\ status' \in Statuses /\ ready' \in BOOLEAN
      /\ published' \in [medium : 0 .. MaxMedia, blocks : Nat]
      /\ pc' \in {"cmd55", "acmd41"} => pc \in {"cmd55", "acmd41"}
  <2>1. CASE InitReset
    <3>1. PICK x \in GoIdle : Then(x, "cmd8")
      BY <2>1 DEF InitReset
    <3> QED
      BY <1>1, <3>1, GoIdleStatus, ThenTypes
  <2>2. CASE InitAppCmd
    <3>1. PICK x \in AppCmd({}) : Then(x, "acmd41")
      BY <2>2 DEF InitAppCmd
    <3>2. x.st \in Statuses
      BY <1>1, <3>1, SentStatus DEF AppCmd
    <3> QED
      BY <1>1, <2>2, <3>1, <3>2, ThenTypes DEF InitAppCmd
  <2>3. CASE InitCid
    <3>1. PICK x \in SdCardSendCommandHost(TRUE, card.state = "ready", {Reply({}, To("ident"))}) :
            Then(x, "cmd3")
      BY <2>3 DEF InitCid
    <3>2. x.st \in Statuses
      BY <1>1, <3>1, SentStatus
    <3> QED
      BY <1>1, <3>1, <3>2, ThenTypes
  <2>4. CASE InitSelect
    <3>1. PICK x \in SdCardSendCommandHost(card.rca = rca, card.state = "stby", {R1({}, To("tran"))}) :
            Returned("SUCCESS") \/ Then(x, "cmd16")
      BY <2>4 DEF InitSelect
    <3>2. x.st \in Statuses /\ "SUCCESS" \in Statuses
      BY <1>1, <3>1, SentStatus DEF Statuses
    <3> QED
      BY <1>1, <3>1, <3>2, ThenTypes, ReturnedTypes
  <2>5. CASE InitBlockLength
    <3>1. PICK x \in SdCardSendCommandHost(TRUE, card.state = "tran", {R1({}, card)}) : Returned(x.st)
      BY <2>5 DEF InitBlockLength
    <3>2. x.st \in Statuses
      BY <1>1, <3>1, SentStatus
    <3> QED
      BY <1>1, <3>1, <3>2, ReturnedTypes
  <2> QED
    BY <2>1, <2>2, <2>3, <2>4, <2>5
<1> QED
  BY <1>2, <1>3 DEF Rest, world, private, transfer

LEMMA VersionTypes ==
  ASSUME IInv, Rest, InitVersion PROVE Rest'
<1>1. card \in Card /\ controller \in {"byCommand", "byType"}
  BY DEF IInv, Typed
<1>2. UNCHANGED <<world, rca, csdOf, blocks, transfer>> /\ retry' = Retries /\ Retries \in Nat \ {0}
  BY HostAssumption DEF InitVersion
<1>3. PICK x \in SdCardSendCommandHost(TRUE, card.state = "idle" /\ card.kind # "V1",
                                       {Reply(Pattern, card)}) :
        Returned("UNSUPPORTED") \/ (status' = x.st /\ UNCHANGED media)
  BY DEF InitVersion
<1>4. x.st \in Statuses /\ "UNSUPPORTED" \in Statuses
  BY <1>1, <1>3, SentStatus DEF Statuses
<1>5. /\ status' \in Statuses /\ ready' \in BOOLEAN
      /\ published' \in [medium : 0 .. MaxMedia, blocks : Nat]
  <2>1. CASE Returned("UNSUPPORTED")
    BY <1>1, <1>4, <2>1, ReturnedTypes
  <2>2. CASE status' = x.st /\ UNCHANGED media
    BY <1>4, <2>2 DEF media, Rest
  <2> QED
    BY <1>3, <2>1, <2>2
<1> QED
  BY <1>2, <1>5 DEF Rest, world, transfer

LEMMA OpCondTypes ==
  ASSUME IInv, Rest, InitOpCond PROVE Rest'
<1>1. card \in Card /\ controller \in {"byCommand", "byType"}
  BY DEF IInv, Typed
<1>2. UNCHANGED <<world, rca, csdOf, blocks, transfer>> /\ pc = "acmd41"
  BY DEF InitOpCond
<1>3. PICK replies : \E x \in SdCardSendCommandHost(TRUE, card.app /\ card.state = "idle", replies) :
        \/ (Then(x, "idle") \/ Then(x, "cmd2")) /\ retry' = 0
        \/ /\ retry' = RetriesLeft(retry)
           /\ IF retry' = 0 THEN Returned("TIMEOUT")
              ELSE Goto("cmd55") /\ status' = x.st /\ UNCHANGED media
  BY DEF InitOpCond
<1>4. PICK x \in SdCardSendCommandHost(TRUE, card.app /\ card.state = "idle", replies) :
        \/ (Then(x, "idle") \/ Then(x, "cmd2")) /\ retry' = 0
        \/ /\ retry' = RetriesLeft(retry)
           /\ IF retry' = 0 THEN Returned("TIMEOUT")
              ELSE Goto("cmd55") /\ status' = x.st /\ UNCHANGED media
  BY <1>3
<1>5. x.st \in Statuses /\ "TIMEOUT" \in Statuses
  BY <1>1, <1>4, SentStatus DEF Statuses
<1>6. retry \in 1 .. Retries /\ Retries \in Nat
  BY <1>2, HostAssumption DEF Rest
<1>7. /\ status' \in Statuses /\ ready' \in BOOLEAN
      /\ published' \in [medium : 0 .. MaxMedia, blocks : Nat]
      /\ retry' \in 0 .. Retries
      /\ pc' \in {"cmd55", "acmd41"} => retry' # 0
  <2>1. CASE (Then(x, "idle") \/ Then(x, "cmd2")) /\ retry' = 0
    BY <1>1, <1>5, <1>6, <2>1, ThenTypes
  <2>2. CASE retry' = RetriesLeft(retry) /\ retry' = 0 /\ Returned("TIMEOUT")
    BY <1>1, <1>5, <1>6, <2>2, ReturnedTypes
  <2>3. CASE retry' = RetriesLeft(retry) /\ retry' # 0 /\ status' = x.st /\ UNCHANGED media
    BY <1>5, <1>6, <2>3 DEF RetriesLeft, media, Rest
  <2> QED
    BY <1>4, <2>1, <2>2, <2>3
<1> QED
  BY <1>2, <1>7 DEF Rest, world, transfer

LEMMA AddressTypes ==
  ASSUME IInv, Rest, InitAddress PROVE Rest'
<1> DEFINE legal == card.state \in {"ident", "stby"}
<1>1. /\ card \in Card /\ controller = "byCommand" /\ legal \in BOOLEAN /\ pc = "cmd3"
  BY DEF IInv, Typed, Progress, InitAddress
<1>2. UNCHANGED <<world, csdOf, blocks, retry, transfer>>
  BY DEF InitAddress
<1>3. PICK replies :
        /\ replies = {Reply(b, [To("stby") EXCEPT !.rca = b]) : b \in Rcas}
        /\ \E x \in SdCardSendCommandHost(TRUE, legal, replies) :
             LET a == x.resp \intersect 16 .. 31 IN
             /\ Then([x EXCEPT !.st = IF @ = "SUCCESS" /\ a = {} THEN "DEVICE_ERROR" ELSE @],
                     "cmd9")
             /\ rca' = IF x.st = "SUCCESS" /\ a # {} THEN a ELSE rca
  BY DEF InitAddress
<1>4. PICK x \in SdCardSendCommandHost(TRUE, legal, replies) :
        LET a == x.resp \intersect 16 .. 31 IN
        /\ Then([x EXCEPT !.st = IF @ = "SUCCESS" /\ a = {} THEN "DEVICE_ERROR" ELSE @],
                "cmd9")
        /\ rca' = IF x.st = "SUCCESS" /\ a # {} THEN a ELSE rca
  BY <1>3
<1> DEFINE a  == x.resp \intersect 16 .. 31
           st == IF x.st = "SUCCESS" /\ a = {} THEN "DEVICE_ERROR" ELSE x.st
           y  == [x EXCEPT !.st = st]
<1>5. x.st \in Statuses /\ x = Outcome(x.st, x.resp, x.card)
  BY <1>1, SentStatus, Sent
<1>6. st \in Statuses /\ y.st = st /\ Then(y, "cmd9")
  BY <1>4, <1>5 DEF Statuses, Outcome
<1>7. rca' \in Rcas \union {{}}
  <2>1. CASE x.st = "SUCCESS" /\ a # {}
    <3>1. PICK z \in replies : x.resp = z.resp
      <4> HIDE DEF legal
      <4>1. x.st = "SUCCESS"
        BY <2>1
      <4>2. \E z \in replies : x.card = z.card /\ x.resp = z.resp
        BY <1>1, <1>4, <4>1, Answered
      <4> QED
        BY <4>2
    <3>2. x.resp \in Rcas
      <4>1. PICK b \in Rcas : z = Reply(b, [To("stby") EXCEPT !.rca = b])
        BY <1>3, <3>1
      <4> QED
        BY <3>1, <4>1 DEF Reply
    <3>3. a = x.resp
      BY <3>2, HostAssumption
    <3> QED
      BY <1>4, <2>1, <3>2, <3>3
  <2>2. CASE ~(x.st = "SUCCESS" /\ a # {})
    BY <1>4, <2>2 DEF Rest
  <2> QED
    BY <2>1, <2>2
<1> HIDE DEF y, st
<1>8. /\ pc' \in {"cmd9", "idle"} /\ status' \in Statuses /\ ready' \in BOOLEAN
      /\ published' \in [medium : 0 .. MaxMedia, blocks : Nat]
  BY <1>1, <1>6, ThenTypes
<1> QED
  BY <1>2, <1>7, <1>8 DEF Rest, world, transfer

LEMMA CsdTypes ==
  ASSUME IInv, Rest, InitCsd PROVE Rest'
<1> DEFINE csd == ParseCsdRegister(CsdRead, Shift)
           addressed == card.rca = rca
           legal == card.state = "stby"
<1>1. /\ card \in Card /\ controller \in {"byCommand", "byType"} /\ pc = "cmd9"
      /\ card.medium \in 0 .. MaxMedia
  BY DEF IInv, Typed, InitCsd, Card
<1>2. UNCHANGED <<world, rca, retry, transfer>>
  BY DEF InitCsd
<1>3. csd.blocks \in Nat /\ csd.st \in Statuses
  BY <1>1, CsdType
<1> HIDE DEF csd
<1>4. PICK x \in SdCardSendCommandHost(addressed, legal, {Reply({}, card)}) :
        LET st == IF x.st = "SUCCESS" THEN csd.st ELSE x.st
        IN  /\ Then([x EXCEPT !.st = st], "cmd7")
            /\ IF st = "SUCCESS" THEN csdOf' = card.medium /\ blocks' = csd.blocks
                                 ELSE UNCHANGED <<csdOf, blocks>>
  BY DEF InitCsd, csd
<1> DEFINE st == IF x.st = "SUCCESS" THEN csd.st ELSE x.st
           y  == [x EXCEPT !.st = st]
<1>5. x.st \in Statuses /\ x = Outcome(x.st, x.resp, x.card)
  <2>1. addressed \in BOOLEAN /\ legal \in BOOLEAN
    OBVIOUS
  <2> HIDE DEF addressed, legal
  <2> QED
    BY <1>1, <1>4, <2>1, SentStatus, Sent
<1>6. st \in Statuses /\ y.st = st /\ Then(y, "cmd7")
  BY <1>3, <1>4, <1>5 DEF Outcome
<1>7. csdOf' \in 0 .. MaxMedia /\ blocks' \in Nat
  BY <1>1, <1>3, <1>4 DEF Rest
<1> HIDE DEF y, st
<1>8. /\ pc' \in {"cmd7", "idle"} /\ status' \in Statuses /\ ready' \in BOOLEAN
      /\ published' \in [medium : 0 .. MaxMedia, blocks : Nat]
  BY <1>1, <1>6, ThenTypes
<1> QED
  BY <1>2, <1>7, <1>8 DEF Rest, world, transfer

LEMMA CallTransferTypes ==
  ASSUME Rest, NEW r \in Request, CallTransfer(r) PROVE Rest'
<1>1. UNCHANGED <<world, private, media, resp, retry>>
  BY DEF CallTransfer
<1>2. PoolAlign \in Nat /\ BounceBufferIn(PoolAlign, IoAlign) \in Nat
  <2>1. PoolAlign \in Nat \ {0} /\ IoAlign \in Nat \ {0}
    BY HostAssumption
  <2>2. (PoolAlign + IoAlign - 1) \div IoAlign \in Nat
    BY <2>1
  <2>3. \A q, a \in Nat : q * a \in Nat
    OBVIOUS
  <2> QED
    BY <2>1, <2>2, <2>3 DEF BounceBufferIn
<1>3. /\ pc' \in {"command", "idle"} /\ status' \in Statuses
      /\ req' \in Request /\ bounce' \in Nat /\ pool' \subseteq Nat
  <2>1. \/ /\ pc' = "command" /\ status' = status /\ req' = r
           /\ \/ bounce' = 0 /\ pool' = pool
              \/ bounce' = BounceBufferIn(PoolAlign, IoAlign) /\ pool' = pool \union {PoolAlign}
        \/ pc' = "idle" /\ status' = "OUT_OF_RESOURCES" /\ UNCHANGED <<req, bounce, pool>>
    BY DEF CallTransfer, Goto
  <2>2. /\ status \in Statuses /\ req \in Request /\ bounce \in Nat /\ pool \subseteq Nat
        /\ "OUT_OF_RESOURCES" \in Statuses
    BY DEF Rest, Statuses
  <2>4. pool \union {PoolAlign} \subseteq Nat
    BY <1>2, <2>2
  <2> DEFINE b == BounceBufferIn(PoolAlign, IoAlign)
  <2>6. b \in Nat /\ 0 \in Nat
    BY <1>2
  <2>7. bounce' \in {0, b, bounce} /\ pool' \in {pool, pool \union {PoolAlign}}
        /\ req' \in {r, req} /\ pc' \in {"command", "idle"} /\ status' \in {status, "OUT_OF_RESOURCES"}
    BY <2>1
  <2> HIDE DEF b
  <2> QED
    BY <2>2, <2>4, <2>6, <2>7
<1> QED
  BY <1>1, <1>3 DEF Rest, world, private, media

LEMMA TransferTypes ==
  ASSUME IInv, Rest, TransferCommand \/ TransferStop \/ TransferFinish
  PROVE  Rest'
<1>1. controller \in {"byCommand", "byType"}
  BY DEF IInv, Typed
<1>2. UNCHANGED <<world, private, retry>>
  BY DEF TransferCommand, TransferStop, TransferFinish
<1>3. CASE TransferCommand
  <2> DEFINE b  == BlockAt(Address(req.lba))
             on == [To(IF req.op = "read" THEN "data" ELSE "rcv")
                      EXCEPT !.open = b, !.stream = req.count > 1]
             made == {R1({e}, card) : e \in Refusals} \union
                     {IF b = NoBlock THEN R1({31}, card) ELSE R1({}, on)}
  <2>1. PICK replies : replies = made
    OBVIOUS
  <2>2. \A y \in replies : y.resp \in Bits
    <3>1. \A e \in Refusals : e \in 0 .. 31
      BY HostAssumption DEF R1Errors
    <3>2. \A bits, after : bits \subseteq 0 .. 31 => R1(bits, after).resp \in Bits
      BY DEF R1, Reply, Bits
    <3>3. SUFFICES ASSUME NEW y \in made PROVE y.resp \in Bits
      BY <2>1
    <3> HIDE DEF b, on
    <3>4. CASE \E e \in Refusals : y = R1({e}, card)
      <4>1. PICK e \in Refusals : y = R1({e}, card)
        BY <3>4
      <4>2. {e} \subseteq 0 .. 31
        BY <3>1
      <4> QED
        BY <3>2, <4>1, <4>2
    <3>5. CASE y = R1({31}, card) \/ y = R1({}, on)
      <4>1. {31} \subseteq 0 .. 31 /\ {} \subseteq 0 .. 31
        OBVIOUS
      <4> QED
        BY <3>2, <3>5, <4>1
    <3> QED
      BY <3>3, <3>4, <3>5
  <2>3. PICK x \in SdCardSendCommandHost(TRUE, card.state = "tran", replies) :
          status' = x.st /\ resp' = x.resp /\ pc' \in {"cmd12", "finish"}
    BY <1>3, <2>1 DEF TransferCommand, Goto
  <2>4. status' \in Statuses /\ resp' \in Bits
    BY <1>1, <2>2, <2>3, SentStatus
  <2>5. UNCHANGED <<media, req, bounce, pool>>
    BY <1>3 DEF TransferCommand
  <2> QED
    BY <1>2, <2>3, <2>4, <2>5 DEF Rest, world, private, media
<1>4. CASE TransferStop
  <2>1. R1({}, To("tran")).resp \in Bits
    BY DEF R1, Reply, Bits
  <2> DEFINE legal == card.state \in {"data", "rcv"}
  <2>2. PICK replies : replies = {R1({}, To("tran"))}
    OBVIOUS
  <2>5. PICK x \in SdCardSendCommandHost(TRUE, legal, replies) :
          status' = x.st /\ resp' = x.resp
    BY <1>4, <2>2 DEF TransferStop
  <2>6. \A y \in replies : y.resp \in Bits
    BY <2>1, <2>2
  <2> HIDE DEF legal
  <2>3. status' \in Statuses /\ resp' \in Bits
    BY <1>1, <2>5, <2>6, SentStatus
  <2>4. pc' = "finish" /\ UNCHANGED <<media, req, bounce, pool>>
    BY <1>4 DEF TransferStop, Goto
  <2> QED
    BY <1>2, <2>3, <2>4 DEF Rest, world, private, media
<1>5. CASE TransferFinish
  <2>1. /\ pool' \subseteq Nat /\ bounce' = 0 /\ resp' \in Bits /\ req' \in Request
        /\ pc' = "idle" /\ status' \in Statuses /\ ready' \in BOOLEAN
        /\ published' = published
    <3>1. pool' \subseteq pool /\ bounce' = 0 /\ resp' = {} /\ req' = NoRequest /\ pc' = "idle"
      BY <1>5 DEF TransferFinish, Goto
    <3>2. {} \in Bits /\ NoRequest \in Request /\ "NO_MEDIA" \in Statuses
      BY DEF Bits, NoRequest, Request, Statuses
    <3>3. pool \subseteq Nat /\ status \in Statuses /\ ready \in BOOLEAN
      BY DEF Rest
    <3>4. /\ \/ status' = status /\ ready' = ready
             \/ status' = "NO_MEDIA" /\ ready' = FALSE
          /\ published' = published
      BY <1>5 DEF TransferFinish, media
    <3>5. pool' \subseteq Nat
      BY <3>1, <3>3
    <3> QED
      BY <3>1, <3>2, <3>3, <3>4, <3>5
  <2> QED
    BY <1>2, <2>1 DEF Rest, world, private
<1> QED
  BY <1>3, <1>4, <1>5

LEMMA SwitchStatus ==
  ASSUME controller \in {"byCommand", "byType"}, NEW x \in SwitchFunction
  PROVE  x.st \in Statuses
<1> DEFINE legal == card.state = "tran"
           made  == {R1({e}, card) : e \in Refusals} \union
                    {IF card.app THEN R1({5}, card) ELSE R1({}, To("data"))}
<1>1. x \in SdCardSendCommandHost(TRUE, legal, made)
  BY DEF SwitchFunction
<1> HIDE DEF legal, made
<1> QED
  BY <1>1, SentStatus

LEMMA AppStatus ==
  ASSUME controller \in {"byCommand", "byType"}, NEW a, NEW x \in AppCmd(a)
  PROVE  x.st \in Statuses
<1> DEFINE addressed == card.rca = a
           legal == card.state \notin {"ready", "ident"}
           made  == {[R1({5}, card) EXCEPT !.card.app = TRUE]}
<1>1. x \in SdCardSendCommandHost(addressed, legal, made)
  BY DEF AppCmd
<1> HIDE DEF addressed, legal, made
<1> QED
  BY <1>1, SentStatus

LEMMA WidthTypes ==
  ASSUME IInv, Rest, SetBusWidthHost \/ SetBusWidth PROVE Rest'
<1>1. controller \in {"byCommand", "byType"}
  BY DEF IInv, Typed
<1>2. status' \in Statuses /\ pc' \in {"width", "idle"}
  <2>1. CASE SetBusWidthHost
    <3>1. PICK x \in AppCmd(rca) : status' = x.st /\ pc' \in {"width", "idle"}
      BY <2>1 DEF SetBusWidthHost, Goto
    <3> QED
      BY <1>1, <3>1, AppStatus
  <2>2. CASE SetBusWidth
    <3>1. PICK x \in SwitchFunction : status' = x.st
      BY <2>2 DEF SetBusWidth
    <3> QED
      BY <1>1, <2>2, <3>1, SwitchStatus DEF SetBusWidth, Goto
  <2> QED
    BY <2>1, <2>2
<1>3. UNCHANGED <<world, private, media, retry, transfer>>
  BY DEF SetBusWidthHost, SetBusWidth
<1> QED
  BY <1>2, <1>3 DEF Rest, world, private, media, transfer

LEMMA OtherCallTypes ==
  ASSUME IInv, Rest,
         \/ GetCardStatusHost \/ SetUhsMode \/ SwitchToBootPartition \/ PowerOff
         \/ CallInitialize \/ ErrorRecoveryHost
  PROVE  Rest'
<1>1. controller \in {"byCommand", "byType"} /\ "DEVICE_ERROR" \in Statuses
  BY DEF IInv, Typed, Statuses
<1>2. CASE GetCardStatusHost \/ SetUhsMode \/ SwitchToBootPartition \/ PowerOff
  <2>1. status' \in Statuses
    <3>1. CASE GetCardStatusHost
      <4> DEFINE addressed == card.rca = rca
                 legal == card.state \in {"stby", "tran", "data", "rcv"}
                 made  == {R1({}, IF card.app /\ card.state = "tran" THEN To("data") ELSE card)}
      <4>1. PICK x \in SdCardSendCommandHost(addressed, legal, made) : status' = x.st
        BY <3>1 DEF GetCardStatusHost, Single
      <4> HIDE DEF addressed, legal, made
      <4> QED
        BY <1>1, <4>1, SentStatus
    <3>2. CASE SetUhsMode \/ SwitchToBootPartition
      <4>1. PICK x \in SwitchFunction : status' \in {"DEVICE_ERROR", x.st}
        BY <3>2 DEF SetUhsMode, SwitchToBootPartition, Single
      <4> QED
        BY <1>1, <4>1, SwitchStatus
    <3>3. CASE PowerOff
      <4>1. PICK x \in GoIdle : status' = x.st
        BY <3>3 DEF PowerOff, Single
      <4> QED
        BY <4>1, GoIdleStatus
    <3> QED
      BY <1>2, <3>1, <3>2, <3>3
  <2>2. UNCHANGED <<world, private, pc, retry, transfer, ready, published>>
    BY <1>2 DEF GetCardStatusHost, SetUhsMode, SwitchToBootPartition, PowerOff, Single, media
  <2> QED
    BY <2>1, <2>2 DEF Rest, world, private, transfer
<1>3. CASE CallInitialize
  <2>1. pc' = "cmd0" /\ UNCHANGED <<world, private, media, status, retry, transfer>>
    BY <1>3 DEF CallInitialize, Goto
  <2> QED
    BY <2>1 DEF Rest, world, private, media, transfer
<1>4. CASE ErrorRecoveryHost
  <2>1. PICK x \in GoIdle : status' = x.st /\ pc' \in {"cmd0", "idle"}
    BY <1>4 DEF ErrorRecoveryHost, Goto
  <2>2. status' \in Statuses
    BY <2>1, GoIdleStatus
  <2>3. UNCHANGED <<world, private, ready, published, retry, transfer>>
    BY <1>4 DEF ErrorRecoveryHost
  <2> QED
    BY <2>1, <2>2, <2>3 DEF Rest, world, private, transfer
<1> QED
  BY <1>2, <1>3, <1>4

LEMMA InitRest ==
  ASSUME Init PROVE Rest
<1>1. {} \in Bits /\ NoRequest \in Request /\ "SUCCESS" \in Statuses
  BY DEF Bits, NoRequest, Request, Statuses
<1>2. Retries \in Nat /\ MaxMedia \in Nat
  BY HostAssumption
<1> QED
  <2>1. /\ controller \in Controllers /\ starts \in Inquiries
        /\ rca = {} /\ csdOf = 0 /\ blocks = 0 /\ ready = FALSE
        /\ published = [medium |-> 0, blocks |-> 0] /\ pc = "idle" /\ status = "SUCCESS"
        /\ retry = 0 /\ req = NoRequest /\ bounce = 0 /\ resp = {} /\ pool = {}
    BY DEF Init
  <2>2. 0 \in 0 .. Retries /\ 0 \in 0 .. MaxMedia
    BY <1>2
  <2>3. published \in [medium : 0 .. MaxMedia, blocks : Nat]
    BY <2>1, <2>2
  <2> HIDE DEF NoRequest
  <2> QED
    BY <1>1, <2>1, <2>2, <2>3 DEF Rest

LEMMA StepRest ==
  ASSUME IInv, Rest, [Next]_vars PROVE Rest'
<1>1. CASE InitReset \/ InitAppCmd \/ InitCid \/ InitSelect \/ InitBlockLength
  BY <1>1, InitTypes
<1>2. CASE InitVersion
  BY <1>2, VersionTypes
<1>3. CASE InitOpCond
  BY <1>3, OpCondTypes
<1>4. CASE InitAddress
  BY <1>4, AddressTypes
<1>5. CASE InitCsd
  BY <1>5, CsdTypes
<1>6. CASE TransferCommand \/ TransferStop \/ TransferFinish
  BY <1>6, TransferTypes
<1>7. CASE SetBusWidth \/ SetBusWidthHost
  BY <1>7, WidthTypes
<1>8. CASE \/ CallInitialize \/ ErrorRecoveryHost \/ GetCardStatusHost
           \/ SetUhsMode \/ SwitchToBootPartition \/ PowerOff
  BY <1>8, OtherCallTypes
<1>9. CASE \E op \in {"read", "write"}, lba \in Lbas, count \in 1 .. 2, buffer \in 0 .. 1 :
             CallTransfer([op |-> op, lba |-> lba, count |-> count, buffer |-> buffer])
  <2>1. PICK op \in {"read", "write"}, lba \in Lbas, count \in 1 .. 2, buffer \in 0 .. 1 :
          CallTransfer([op |-> op, lba |-> lba, count |-> count, buffer |-> buffer])
    BY <1>9
  <2>2. [op |-> op, lba |-> lba, count |-> count, buffer |-> buffer] \in Request
    BY HostAssumption DEF Request
  <2> QED
    BY <2>1, <2>2, CallTransferTypes
<1>10. CASE CardSent \/ Remove \/ (\E kind \in Kinds : Insert(kind)) \/ UNCHANGED vars
  <2>1. UNCHANGED driver
    BY <1>10 DEF CardSent, Remove, Insert, vars, driver, world, private, media, transfer
  <2> QED
    BY <2>1 DEF driver, Rest, world, private, media, transfer
<1> QED
  BY <1>1, <1>2, <1>3, <1>4, <1>5, <1>6, <1>7, <1>8, <1>9, <1>10 DEF Next, DriverStep, Call

\* Every variable of the host transport has its type in every behaviour.
THEOREM TypeCorrect == Spec => []TypeOK
<1>1. Init => IInv /\ Rest
  BY InitRest, InitIInv
<1>2. IInv /\ Rest /\ [Next]_vars => (IInv /\ Rest)'
  BY StepRest, NextIInv
<1>3. IInv /\ Rest => TypeOK
  BY DEF IInv, Typed, Calling, Rest, TypeOK
<1> QED
  BY <1>1, <1>2, <1>3, PTL DEF Spec

-----------------------------------------------------------------------------
(* Every call ends                                                         *)

LEMMA StepsLeftIs ==
  /\ pc = "idle" => StepsLeft = 0
  /\ pc \in {"cmd16", "finish", "width"} => StepsLeft = 1
  /\ pc \in {"cmd7", "cmd12"} => StepsLeft = 2
  /\ pc \in {"cmd9", "command"} => StepsLeft = 3
  /\ pc = "cmd3" => StepsLeft = 4
  /\ pc = "cmd2" => StepsLeft = 5
  /\ pc = "acmd41" => StepsLeft = 2 * retry + 4
  /\ pc = "cmd55" => StepsLeft = 2 * retry + 5
  /\ pc = "cmd8" => StepsLeft = 2 * Retries + 6
  /\ pc = "cmd0" => StepsLeft = 2 * Retries + 7
  BY Zenon DEF StepsLeft

LEMMA StepsLeftNext ==
  /\ pc' = "idle" => StepsLeft' = 0
  /\ pc' \in {"cmd16", "finish", "width"} => StepsLeft' = 1
  /\ pc' \in {"cmd7", "cmd12"} => StepsLeft' = 2
  /\ pc' \in {"cmd9", "command"} => StepsLeft' = 3
  /\ pc' = "cmd3" => StepsLeft' = 4
  /\ pc' = "cmd2" => StepsLeft' = 5
  /\ pc' = "acmd41" => StepsLeft' = 2 * retry' + 4
  /\ pc' = "cmd55" => StepsLeft' = 2 * retry' + 5
  /\ pc' = "cmd8" => StepsLeft' = 2 * Retries + 6
  /\ pc' = "cmd0" => StepsLeft' = 2 * Retries + 7
  BY Zenon DEF StepsLeft

LEMMA ReturnsOrGoes ==
  ASSUME NEW x, NEW l
  PROVE  /\ Then(x, l) => pc' \in {l, "idle"}
         /\ \A st : Returned(st) => pc' = "idle"
  BY DEF Then, Returned, Goto

\* Where the steps of an initialization lead.
LEMMA InitMoves ==
  ASSUME InitReset \/ InitVersion \/ InitAppCmd \/ InitCid \/ InitAddress \/ InitCsd
           \/ InitSelect \/ InitBlockLength
  PROVE  \/ pc = "cmd0"  /\ pc' \in {"cmd8", "idle"}
         \/ pc = "cmd8"  /\ pc' \in {"cmd55", "idle"} /\ retry' = Retries
         \/ pc = "cmd55" /\ pc' \in {"acmd41", "idle"} /\ retry' = retry
         \/ pc = "cmd2"  /\ pc' \in {"cmd3", "idle"}
         \/ pc = "cmd3"  /\ pc' \in {"cmd9", "idle"}
         \/ pc = "cmd9"  /\ pc' \in {"cmd7", "idle"}
         \/ pc = "cmd7"  /\ pc' \in {"cmd16", "idle"}
         \/ pc = "cmd16" /\ pc' = "idle"
<1>1. CASE InitReset
  BY <1>1, ReturnsOrGoes DEF InitReset
<1>2. CASE InitVersion
  BY <1>2, ReturnsOrGoes DEF InitVersion, Goto
<1>3. CASE InitAppCmd
  BY <1>3, ReturnsOrGoes DEF InitAppCmd
<1>4. CASE InitCid
  BY <1>4, ReturnsOrGoes DEF InitCid
<1>5. CASE InitAddress
  <2>1. \E y : Then(y, "cmd9")
    BY <1>5 DEF InitAddress
  <2>2. pc = "cmd3"
    BY <1>5 DEF InitAddress
  <2> QED
    BY <2>1, <2>2, ReturnsOrGoes
<1>6. CASE InitCsd
  <2>1. \E y : Then(y, "cmd7")
    BY <1>6 DEF InitCsd
  <2>2. pc = "cmd9"
    BY <1>6 DEF InitCsd
  <2> QED
    BY <2>1, <2>2, ReturnsOrGoes
<1>7. CASE InitSelect
  BY <1>7, ReturnsOrGoes DEF InitSelect
<1>8. CASE InitBlockLength
  BY <1>8, ReturnsOrGoes DEF InitBlockLength
<1> QED
  BY <1>1, <1>2, <1>3, <1>4, <1>5, <1>6, <1>7, <1>8

LEMMA OpCondMoves ==
  ASSUME InitOpCond
  PROVE  /\ pc = "acmd41"
         /\ pc' \in {"cmd2", "idle"} \/ (pc' = "cmd55" /\ retry' = retry - 1)
<1>1. PICK replies, x : \/ (Then(x, "idle") \/ Then(x, "cmd2")) /\ retry' = 0
                        \/ /\ retry' = RetriesLeft(retry)
                           /\ Returned("TIMEOUT") \/ Goto("cmd55")
  BY DEF InitOpCond
<1>2. pc = "acmd41"
  BY DEF InitOpCond
<1> QED
  BY <1>1, <1>2, ReturnsOrGoes DEF RetriesLeft, Goto

\* A step of a call in progress leaves it less to do.
LEMMA StepEnds ==
  ASSUME IInv, Rest, DriverStep PROVE StepsLeft' \in 0 .. StepsLeft - 1
<1>1. /\ Retries \in Nat \ {0} /\ retry \in 0 .. Retries
      /\ pc \in {"cmd55", "acmd41"} => retry # 0
  BY HostAssumption DEF Rest
<1>2. CASE InitOpCond
  BY <1>1, <1>2, OpCondMoves, StepsLeftIs, StepsLeftNext
<1>3. CASE InitReset \/ InitVersion \/ InitAppCmd \/ InitCid \/ InitAddress \/ InitCsd
             \/ InitSelect \/ InitBlockLength
  BY <1>1, <1>3, InitMoves, StepsLeftIs, StepsLeftNext
<1>4. CASE TransferCommand
  <2>1. pc = "command" /\ pc' \in {"cmd12", "finish"}
    BY <1>4 DEF TransferCommand, Goto
  <2> QED
    BY <2>1, StepsLeftIs, StepsLeftNext
<1>5. CASE TransferStop \/ TransferFinish \/ SetBusWidth
  <2>1. \/ pc = "cmd12" /\ pc' = "finish"
        \/ pc \in {"finish", "width"} /\ pc' = "idle"
    BY <1>5 DEF TransferStop, TransferFinish, SetBusWidth, Goto
  <2> QED
    BY <2>1, StepsLeftIs, StepsLeftNext
<1> QED
  BY <1>2, <1>3, <1>4, <1>5 DEF DriverStep

LEMMA CallBegins ==
  ASSUME Call PROVE pc = "idle" /\ StepsLeft' \in 0 .. 2 * Retries + 7
<1>1. pc = "idle" /\ pc' \in {"cmd0", "command", "width", "idle"}
  BY DEF Call, CallInitialize, ErrorRecoveryHost, GetCardStatusHost, SetUhsMode,
         SwitchToBootPartition, SetBusWidthHost, PowerOff, CallTransfer, Single, Goto
<1>2. Retries \in Nat
  BY HostAssumption
<1> QED
  BY <1>1, <1>2, StepsLeftNext

(* With any card, any controller and any losses, a call takes at most      *)
(* 2 * Retries + 7 steps, whatever happens in the slot meanwhile: what     *)
(* fairness has to add for the call to return is only that it goes on.     *)
THEOREM CallsBounded == Spec => CallsAreBounded
<1> DEFINE Bounded ==
      IF pc = "idle" THEN StepsLeft' \in 0 .. 2 * Retries + 7
      ELSE StepsLeft' \in 0 .. StepsLeft - 1 \/ UNCHANGED driver
<1>1. ASSUME IInv, Rest, [Next]_vars PROVE Bounded
  <2>1. CASE DriverStep
    <3>1. StepsLeft' \in 0 .. StepsLeft - 1
      BY <1>1, <2>1, StepEnds
    <3>2. pc # "idle"
      BY <2>1 DEF DriverStep, InitReset, InitVersion, InitAppCmd, InitOpCond, InitCid,
                  InitAddress, InitCsd, InitSelect, InitBlockLength, TransferCommand,
                  TransferStop, TransferFinish, SetBusWidth
    <3> QED
      BY <3>1, <3>2
  <2>2. CASE Call
    BY <2>2, CallBegins
  <2>3. CASE CardSent \/ Remove \/ (\E kind \in Kinds : Insert(kind)) \/ UNCHANGED vars
    <3>1. UNCHANGED driver
      BY <2>3 DEF CardSent, Remove, Insert, vars, driver, world, private, media, transfer
    <3>2. pc = "idle" => StepsLeft' = 0
      BY <3>1, StepsLeftNext DEF driver
    <3>3. Retries \in Nat
      BY HostAssumption
    <3> QED
      BY <3>1, <3>2, <3>3
  <2> QED
    BY <1>1, <2>1, <2>2, <2>3 DEF Next
<1>2. Init => IInv /\ Rest
  BY InitRest, InitIInv
<1>3. IInv /\ Rest /\ [Next]_vars => (IInv /\ Rest)'
  BY StepRest, NextIInv
<1> QED
  BY <1>1, <1>2, <1>3, PTL DEF Spec, CallsAreBounded
=============================================================================
