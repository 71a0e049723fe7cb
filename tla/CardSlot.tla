------------------------------ MODULE CardSlot ------------------------------
(***************************************************************************)
(* The slot as Block I/O sees it through the SPI transport: what a card in *)
(* it may be asked and what bringing it up makes of it.  SdCardMedia is    *)
(* built over these definitions, and BlockTransport states with them the   *)
(* contract that SdCardSpi implements.                                     *)
(***************************************************************************)
EXTENDS Integers

CONSTANTS
  FreshAnswers,  \* does a card answer CMD13 before it was ever reset?
  MaxMedia       \* bound on the cards inserted in a run

Media == 0 .. MaxMedia

(* A card in the slot is fresh, was reset to SPI mode, was brought up, or  *)
(* came halfway: it takes data, but not because the last bring-up said so. *)
Slot == [present : BOOLEAN, medium : Media,
         card : {"fresh", "reset", "halfway", "ready"}]

VARIABLE slot

\* May the card answer CMD13?
Answers == slot.present /\ (slot.card # "fresh" \/ FreshAnswers)

TakesData == slot.present /\ slot.card \in {"halfway", "ready"}

\* A bring-up that succeeds has read the CSD of the card in the slot.
BroughtUp ==
  /\ slot.present
  /\ slot' = [slot EXCEPT !.card = "ready"]

\* A failed command leaves the card as it was or anywhere on the way.
LeftBehind ==
  IF slot.present
  THEN {[slot EXCEPT !.card = c] : c \in {slot.card, "reset", "halfway"}}
  ELSE {slot}

Removed ==
  /\ slot.present
  /\ slot' = [present |-> FALSE, medium |-> slot.medium, card |-> "fresh"]

\* A card that comes back, or a new one, is fresh.
Inserted(m) ==
  /\ ~slot.present /\ m \in {slot.medium, slot.medium + 1} \intersect Media
  /\ slot' = [present |-> TRUE, medium |-> m, card |-> "fresh"]
=============================================================================
