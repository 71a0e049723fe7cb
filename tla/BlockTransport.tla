--------------------------- MODULE BlockTransport ---------------------------
(***************************************************************************)
(* What a transport promises Block I/O while its bus, which may miss,      *)
(* refuse or damage things, takes nothing for something else: a presence   *)
(* request is answered by a card that was reset before, a bring-up that    *)
(* succeeds leaves the card in the slot ready, a command is accepted and   *)
(* data moves only where a card takes data, and nothing but a bring-up     *)
(* makes a card that was put in usable.  Only the end of a multi-block     *)
(* write succeeds whoever is in the slot.                                  *)
(***************************************************************************)
EXTENDS CardSlot

VARIABLES
  works,  \* is nothing on the bus taken for something else?
  doing,  \* what the transport is asked to do
  ok      \* did the last request succeed?

vars == <<slot, works, doing, ok>>

Begin(d)     == doing' = d /\ ok' = FALSE
Finish(good) == doing' = "nothing" /\ ok' = good

Detect ==
  /\ doing = "nothing"
  /\ \/ Answers /\ Begin("bringUp") /\ UNCHANGED slot
     \/ Finish(FALSE) /\ slot' \in LeftBehind

BringUp ==
  /\ doing = "bringUp"
  /\ \/ Begin("bringUp") /\ slot' \in LeftBehind
     \/ Finish(FALSE) /\ slot' \in LeftBehind
     \/ Finish(TRUE) /\ BroughtUp

Transfer == doing = "nothing" /\ Begin("command") /\ UNCHANGED slot

Command ==
  /\ doing = "command"
  /\ \/ TakesData /\ Begin("data")
     \/ Finish(FALSE)
  /\ UNCHANGED slot

Data ==
  /\ doing = "data"
  /\ \/ \E d \in {"data", "end"} : Begin(d)
     \/ \E good \in BOOLEAN : Finish(good) /\ (good => TakesData)
  /\ UNCHANGED slot

EndOfWrite ==
  /\ doing = "end"
  /\ \E good \in BOOLEAN : Finish(good)
  /\ UNCHANGED slot

Swap == (Removed \/ \E m \in Media : Inserted(m)) /\ UNCHANGED <<doing, ok>>

Init ==
  /\ slot \in Slot /\ slot.card # "ready"
  /\ works \in BOOLEAN /\ doing = "nothing" /\ ok \in BOOLEAN

Next ==
  /\ works => Detect \/ BringUp \/ Transfer \/ Command \/ Data \/ EndOfWrite \/ Swap
  /\ UNCHANGED works

Spec == Init /\ [][Next]_vars
=============================================================================
