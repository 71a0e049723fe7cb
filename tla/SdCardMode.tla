----------------------------- MODULE SdCardMode -----------------------------
(***************************************************************************)
(* Card initialization with fallback between the two transports of the     *)
(* driver, an MMC host controller and a plain SPI bus: SdCardInitialize    *)
(* (SdCardMedia.c) and SdCardHandleModeFallback (SdCardMode.c), which call *)
(* each other, over the part of the UEFI handle database they change.      *)
(*                                                                         *)
(* The call stack of the two functions is always: the outside caller, then *)
(* some activations of SdCardInitialize suspended in the fallback they     *)
(* called, then the running function.  The fallback returns what its       *)
(* SdCardInitialize returns, so it never waits itself, and the number of   *)
(* suspended activations ("waiting") is the whole stack.                   *)
(*                                                                         *)
(* This module has no next-state relation of its own: SdCardDxe adds the   *)
(* callers.                                                                *)
(***************************************************************************)
EXTENDS Integers, FiniteSets

CONSTANTS
  Inst,           \* SD_CARD_PRIVATE_DATA structures that Start may allocate
  RecordsHandle,  \* is Private->ControllerHandle assigned?  FALSE as built
  RecordsCsd,     \* is Private->Csd assigned?               FALSE as built
  SpiOnly,        \* PcdSdCardSpiOnlyMode
  Faulty,         \* may card, bus, pool and boot services fail at any call?
  MaxWaiting,     \* bound on suspended SdCardInitialize activations
  MediaIds        \* number of values of a MediaId (2^32 in UEFI)

ASSUME ConstantsAssumption ==
  /\ IsFiniteSet(Inst)
  /\ RecordsHandle \in BOOLEAN /\ RecordsCsd \in BOOLEAN
  /\ SpiOnly \in BOOLEAN /\ Faulty \in BOOLEAN
  /\ MaxWaiting \in Nat \ {0} /\ MediaIds \in Nat \ {0, 1}

Protocols == {"MMC", "SPI"}   \* EFI_SD_MMC_PASS_THRU and EFI_SPI_HC
Modes     == {"UNKNOWN", "HOST", "SPI"}
ProtocolOf(mode) == IF mode = "HOST" THEN "MMC" ELSE "SPI"

Statuses == {"SUCCESS", "CRC_ERROR", "DEVICE_ERROR", "TIMEOUT", "NOT_READY",
             "UNSUPPORTED", "NO_MEDIA", "OUT_OF_RESOURCES", "ACCESS_DENIED",
             "ALREADY_STARTED", "INVALID_PARAMETER"}

\* The failures after which the other mode is tried.
FallbackStatuses == {"CRC_ERROR", "DEVICE_ERROR", "TIMEOUT"}

\* What the mode-specific initialization may return.
SpiInitStatuses  == {"SUCCESS"} \union FallbackStatuses
HostInitStatuses == SpiInitStatuses \union {"UNSUPPORTED", "NOT_READY"}

(***************************************************************************)
(* SD_CARD_PRIVATE_DATA: pointers are TRUE when not NULL; csd says whether *)
(* Private->Csd is all zero, holds a register SdCardParseCsdRegister       *)
(* rejects, or one it accepts.                                             *)
(***************************************************************************)
Private ==
  [live : BOOLEAN, mode : Modes, mmc : BOOLEAN, spi : BOOLEAN,
   peripheral : BOOLEAN, path : BOOLEAN, csd : {"zero", "bad", "good"},
   initialized : BOOLEAN, mediaPresent : BOOLEAN, mediaId : 0 .. MediaIds - 1]

NoPrivate ==
  [live |-> FALSE, mode |-> "UNKNOWN", mmc |-> FALSE, spi |-> FALSE,
   peripheral |-> FALSE, path |-> FALSE, csd |-> "zero",
   initialized |-> FALSE, mediaPresent |-> FALSE, mediaId |-> 0]

\* Pool blocks by what they hold; heap[i] counts those allocated for i.
Blocks == {"private", "peripheral", "path"}

VARIABLES
  installed,       \* protocols present on the controller handle
  foreign,         \* those another driver holds BY_DRIVER
  opened,          \* those this driver holds BY_DRIVER
  priv,            \* the private structures
  heap,            \* pool blocks allocated and not freed
  pc, self,        \* where the driver is, and in which structure
  caller, waiting, \* the call stack: outside caller, suspended activations
  status           \* EFI_STATUS of the call that returned last

database  == <<installed, foreign>>
modeVars  == <<installed, foreign, opened, priv, heap, pc, self, caller,
               waiting, status>>

-----------------------------------------------------------------------------
(* Boot services, as the driver uses them.                                 *)

(* Statuses of OpenProtocol(BY_DRIVER) on p when this driver holds "held". *)
OpenStatuses(handle, held, p) ==
  IF ~handle                 THEN {"INVALID_PARAMETER"}
  ELSE IF p \notin installed THEN {"UNSUPPORTED"}
  ELSE IF p \in held         THEN {"ALREADY_STARTED"}
  ELSE IF p \in foreign      THEN {"ACCESS_DENIED"}
  ELSE {"SUCCESS"} \union (IF Faulty THEN {"OUT_OF_RESOURCES"} ELSE {})

(* The interface pointer after such a call: stored on success and on       *)
(* ALREADY_STARTED, NULL when unsupported, otherwise left alone.           *)
Interface(old, st) ==
  CASE st \in {"SUCCESS", "ALREADY_STARTED"} -> TRUE
    [] st = "UNSUPPORTED"                    -> FALSE
    [] OTHER                                 -> old

\* Outcomes of a call that needs memory, a card or a bus.
Works == IF Faulty THEN BOOLEAN ELSE {TRUE}

Allocate(i, b) == heap' = [heap EXCEPT ![i][b] = @ + 1]

-----------------------------------------------------------------------------
(* SdCardInitialize                                                        *)

\* The structure the running call works on, its mode, and its new value.
Own         == priv[self]
Mode        == Own.mode
Becomes(p)  == priv' = [priv EXCEPT ![self] = p]

(* Presence is always asked over SPI: without an SPI interface no card is  *)
(* ever seen, in either mode.                                              *)
DetectCardPresence ==
  IF Own.spi THEN Works ELSE {FALSE}

InitializeDetect ==
  /\ pc = "detect"
  /\ \E present \in DetectCardPresence :
       IF present
       THEN /\ pc' = "modeInit"
            /\ UNCHANGED <<priv, status>>
       ELSE /\ Becomes([Own EXCEPT !.mediaPresent = FALSE])
            /\ status' = "NO_MEDIA"
            /\ pc' = "return"
  /\ UNCHANGED <<database, opened, heap, self, caller, waiting>>

\* What mode-specific initialization leaves in Private->Csd.
CsdRead(old) ==
  IF ~RecordsCsd THEN {old}
  ELSE IF Faulty THEN {"bad", "good"} ELSE {"good"}

(* SdCardInitializeHost or SdCardInitializeSpi; the latter first marks the *)
(* media absent.  A failure suspends this activation in the fallback.      *)
InitializeMode ==
  /\ pc = "modeInit"
  /\ \E st \in IF Mode = "HOST" /\ ~Own.mmc THEN {"UNSUPPORTED"}
               ELSE IF ~Faulty THEN {"SUCCESS"}
               ELSE IF Mode = "HOST" THEN HostInitStatuses
               ELSE SpiInitStatuses,
        csd \in CsdRead(Own.csd) :
       /\ status' = st
       /\ Becomes([Own EXCEPT
            !.csd = IF st = "SUCCESS" THEN csd ELSE @,
            !.initialized  = IF Mode = "SPI" THEN FALSE ELSE @,
            !.mediaPresent = IF Mode = "SPI" THEN FALSE ELSE @])
       /\ IF st = "SUCCESS"
          THEN /\ pc' = "identify"
               /\ UNCHANGED waiting
          ELSE /\ waiting < MaxWaiting
               /\ waiting' = waiting + 1
               /\ pc' = "fallback"
  /\ UNCHANGED <<database, opened, heap, self, caller>>

\* Mutant: MediaId as an unbounded integer.
NextMediaIdUnbounded(id) == id + 1

\* UINT32 arithmetic, on MediaIds values.
NextMediaId(id) == (id + 1) % MediaIds

\* Mutants: the result of the CSD parser, or the whole check, is ignored.
CsdUnparsed(csd)  == csd # "zero"
CsdUnchecked(csd) == TRUE

\* GetCardIdentificationData rejects an empty or unparsable CSD.
CsdAccepted(csd) == csd = "good"

\* Mutant: the card is never marked initialized.
IdentifiedOnly(p) ==
  [p EXCEPT !.mediaPresent = TRUE, !.mediaId = NextMediaId(@)]

\* The media is published under the next MediaId.
Identified(p) ==
  [p EXCEPT !.initialized = TRUE, !.mediaPresent = TRUE,
            !.mediaId = NextMediaId(@)]

InitializeIdentify ==
  /\ pc = "identify"
  /\ pc' = "return"
  /\ IF CsdAccepted(Own.csd)
     THEN /\ status' = "SUCCESS"
          /\ Becomes(Identified(Own))
     ELSE /\ status' = IF Own.csd = "zero" THEN "DEVICE_ERROR"
                                                  ELSE "UNSUPPORTED"
          /\ Becomes([Own EXCEPT !.mediaPresent = FALSE])
  /\ UNCHANGED <<database, opened, heap, self, caller, waiting>>

(* A suspended activation gets the status its fallback returned: it goes   *)
(* on with identification, or marks the media absent and fails in turn.    *)
InitializeResume ==
  /\ pc = "return" /\ waiting > 0
  /\ waiting' = waiting - 1
  /\ IF status = "SUCCESS"
     THEN /\ pc' = "identify"
          /\ UNCHANGED priv
     ELSE /\ Becomes([Own EXCEPT !.mediaPresent = FALSE])
          /\ UNCHANGED pc
  /\ UNCHANGED <<database, opened, heap, self, caller, status>>

-----------------------------------------------------------------------------
(* SdCardHandleModeFallback                                                *)

\* Mutant: the fallback is handed the controller handle.
FallbackHandleStored == TRUE

(* All its handle database calls go through Private->ControllerHandle: is  *)
(* that a handle?                                                          *)
FallbackHandle == RecordsHandle

FallbackRefused ==
  /\ pc = "fallback"
  /\ status \notin FallbackStatuses \/ Mode = "UNKNOWN"
  /\ pc' = "return"
  /\ UNCHANGED <<database, opened, priv, heap, self, caller, waiting, status>>

\* The protocols still held once p is closed.
Closed(p) == IF FallbackHandle THEN opened \ {p} ELSE opened

(* From the MMC host to SPI.  When SPI cannot be opened the host protocol  *)
(* is opened again, whatever that returns.                                 *)
FallbackToSpi ==
  /\ pc = "fallback" /\ status \in FallbackStatuses /\ Mode = "HOST"
  /\ \E st \in OpenStatuses(FallbackHandle, Closed("MMC"), "SPI") :
       \/ /\ st # "SUCCESS"
          /\ \E again \in OpenStatuses(FallbackHandle, Closed("MMC"), "MMC") :
               /\ opened' = IF again = "SUCCESS"
                            THEN Closed("MMC") \union {"MMC"}
                            ELSE Closed("MMC")
               /\ Becomes([Own EXCEPT !.spi = Interface(@, st),
                                       !.mmc = Interface(@, again)])
          /\ pc' = "return"
          /\ UNCHANGED <<heap, status>>
       \/ /\ st = "SUCCESS" /\ TRUE \in Works
          /\ opened' = Closed("MMC") \union {"SPI"}
          /\ Becomes([Own EXCEPT !.spi = TRUE, !.peripheral = TRUE,
                                  !.mode = "SPI"])
          /\ Allocate(self, "peripheral")
          /\ pc' = "detect"
          /\ UNCHANGED status
       \/ /\ st = "SUCCESS" /\ FALSE \in Works
          /\ opened' = Closed("MMC")
          /\ Becomes([Own EXCEPT !.spi = TRUE, !.peripheral = FALSE])
          /\ status' = "OUT_OF_RESOURCES"
          /\ pc' = "return"
          /\ UNCHANGED heap
  /\ UNCHANGED <<database, self, caller, waiting>>

\* From SPI to the MMC host: no host protocol on the handle.
FallbackToHostUnavailable ==
  /\ pc = "fallback" /\ status \in FallbackStatuses /\ Mode = "SPI"
  /\ ~FallbackHandle \/ "MMC" \notin installed
  /\ pc' = "return"
  /\ UNCHANGED <<database, opened, priv, heap, self, caller, waiting, status>>

(* SPI is given up before the host protocol is opened; the interface       *)
(* pointer SpiHcProtocol keeps its value.                                  *)
FallbackToHost ==
  /\ pc = "fallback" /\ status \in FallbackStatuses /\ Mode = "SPI"
  /\ FallbackHandle /\ "MMC" \in installed
  /\ heap' = [heap EXCEPT ![self]["peripheral"] =
                IF Own.peripheral THEN @ - 1 ELSE @]
  /\ \E st \in OpenStatuses(FallbackHandle, Closed("SPI"), "MMC") :
       /\ Becomes([Own EXCEPT
            !.peripheral = FALSE,
            !.mmc  = Interface(@, st),
            !.mode = IF st = "SUCCESS" THEN "HOST" ELSE @])
       /\ opened' = IF st = "SUCCESS" THEN Closed("SPI") \union {"MMC"}
                                      ELSE Closed("SPI")
       /\ pc' = IF st = "SUCCESS" THEN "detect" ELSE "return"
  /\ UNCHANGED <<database, self, caller, waiting, status>>

ModeStep ==
  \/ InitializeDetect \/ InitializeMode \/ InitializeIdentify
  \/ InitializeResume
  \/ FallbackRefused \/ FallbackToSpi
  \/ FallbackToHostUnavailable \/ FallbackToHost
=============================================================================
