-------------------------- MODULE SdCardDxe_proofs --------------------------
(***************************************************************************)
(* Proofs about the driver binding protocol, for every set of structures,  *)
(* every bound on nested fallbacks and every value of the two "Records"    *)
(* constants.                                                              *)
(***************************************************************************)
EXTENDS SdCardDxe, TLAPS

USE DEF Protocols, Modes, ProtocolOf, Statuses, FallbackStatuses,
        SpiInitStatuses, HostInitStatuses, Blocks, PCs, Callers

\* OpenProtocol returns one of the statuses of the model.
LEMMA OpenStatusesType ==
  ASSUME NEW handle, NEW held, NEW p
  PROVE  OpenStatuses(handle, held, p) \subseteq Statuses
  BY DEF OpenStatuses

\* An interface pointer is NULL or not after the call as before it.
LEMMA InterfaceType ==
  ASSUME NEW old \in BOOLEAN, NEW st
  PROVE  Interface(old, st) \in BOOLEAN
  BY DEF Interface

LEMMA WorksType == Works \subseteq BOOLEAN
  BY DEF Works

\* What a structure becomes stays a structure.
LEMMA NoPrivateType == NoPrivate \in Private
  BY ConstantsAssumption DEF NoPrivate, Private

LEMMA IdentifiedType ==
  ASSUME NEW p \in Private
  PROVE  Identified(p) \in Private
<1>1. NextMediaId(p.mediaId) \in 0 .. MediaIds - 1
  BY ConstantsAssumption DEF NextMediaId, Private
<1> QED
  BY <1>1 DEF Identified, Private

LEMMA OwnType == TypeOK => Own \in Private
  BY DEF TypeOK, Own

LEMMA BecomesType ==
  ASSUME TypeOK, NEW p \in Private, Becomes(p)
  PROVE  priv' \in [Inst -> Private]
  BY DEF TypeOK, Becomes

\* The fields the steps of the driver change keep their types.
LEMMA FieldTypes ==
  ASSUME NEW p \in Private, NEW b \in BOOLEAN, NEW c \in BOOLEAN,
         NEW m \in Modes, NEW csd \in {"zero", "bad", "good"}
  PROVE  /\ [p EXCEPT !.mediaPresent = b] \in Private
         /\ [p EXCEPT !.mediaPresent = b, !.path = c] \in Private
         /\ [p EXCEPT !.peripheral = b] \in Private
         /\ [p EXCEPT !.mmc = b, !.spi = c] \in Private
         /\ [p EXCEPT !.spi = b, !.mmc = c] \in Private
         /\ [p EXCEPT !.spi = b, !.peripheral = c] \in Private
         /\ [p EXCEPT !.spi = TRUE, !.peripheral = b, !.mode = m] \in Private
         /\ [p EXCEPT !.peripheral = FALSE, !.mmc = b, !.mode = m] \in Private
         /\ [p EXCEPT !.csd = csd, !.initialized = b, !.mediaPresent = c]
              \in Private
  BY DEF Private

LEMMA FreedType ==
  ASSUME TypeOK, NEW i \in Inst
  PROVE  Freed(i) \in [Inst -> [Blocks -> Int]]
<1>1. heap \in [Inst -> [Blocks -> Int]]
  BY DEF TypeOK
<1> QED
  BY <1>1 DEF Freed

LEMMA AllocateType ==
  ASSUME TypeOK, NEW i \in Inst, NEW b \in Blocks, Allocate(i, b)
  PROVE  heap' \in [Inst -> [Blocks -> Int]]
<1>1. heap \in [Inst -> [Blocks -> Int]]
  BY DEF TypeOK
<1> QED
  BY <1>1 DEF Allocate

LEMMA ModeStepType == TypeOK /\ ModeStep /\ UNCHANGED dxeVars => TypeOK'
<1> SUFFICES ASSUME TypeOK, ModeStep, UNCHANGED dxeVars
             PROVE  TypeOK'
  OBVIOUS
<1>0. Own \in Private /\ Own.mode \in Modes
  BY OwnType DEF Private
<1> USE DEF dxeVars, database
<1>1. CASE InitializeDetect
  <2>1. priv' \in [Inst -> Private]
    BY <1>0, <1>1, BecomesType, FieldTypes DEF InitializeDetect, TypeOK
  <2> QED
    BY <1>1, <2>1 DEF InitializeDetect, TypeOK
<1>2. CASE InitializeMode
  <2>1. PICK st \in HostInitStatuses, csd \in CsdRead(Own.csd) :
          /\ status' = st
          /\ Becomes([Own EXCEPT
               !.csd = IF st = "SUCCESS" THEN csd ELSE @,
               !.initialized  = IF Mode = "SPI" THEN FALSE ELSE @,
               !.mediaPresent = IF Mode = "SPI" THEN FALSE ELSE @])
    BY <1>2 DEF InitializeMode
  <2> DEFINE c == IF st = "SUCCESS" THEN csd ELSE Own.csd
             n == IF Mode = "SPI" THEN FALSE ELSE Own.initialized
             m == IF Mode = "SPI" THEN FALSE ELSE Own.mediaPresent
  <2>2. c \in {"zero", "bad", "good"} /\ n \in BOOLEAN /\ m \in BOOLEAN
    BY <1>0, <2>1 DEF CsdRead, Private
  <2>3. Becomes([Own EXCEPT !.csd = c, !.initialized = n, !.mediaPresent = m])
    BY <2>1
  <2>4. priv' \in [Inst -> Private]
    <3> HIDE DEF c, n, m
    <3> QED
      BY <1>0, <2>2, <2>3, BecomesType, FieldTypes
  <2>5. waiting' \in 0 .. MaxWaiting /\ pc' \in PCs
    BY <1>2, ConstantsAssumption DEF InitializeMode, TypeOK
  <2> QED
    BY <1>2, <2>1, <2>4, <2>5 DEF InitializeMode, TypeOK
<1>3. CASE InitializeIdentify
  <2>1. priv' \in [Inst -> Private]
    BY <1>0, <1>3, BecomesType, FieldTypes, IdentifiedType
    DEF InitializeIdentify
  <2> QED
    BY <1>3, <2>1 DEF InitializeIdentify, TypeOK
<1>4. CASE InitializeResume
  <2>1. waiting' \in 0 .. MaxWaiting
    BY <1>4, ConstantsAssumption DEF InitializeResume, TypeOK
  <2>2. priv' \in [Inst -> Private]
    BY <1>0, <1>4, BecomesType, FieldTypes DEF InitializeResume, TypeOK
  <2> QED
    BY <1>4, <2>1, <2>2 DEF InitializeResume, TypeOK
<1>5. CASE FallbackRefused
  BY <1>5 DEF FallbackRefused, TypeOK
<1>6. CASE FallbackToSpi
  <2>1. opened' \subseteq Protocols
    BY <1>6 DEF FallbackToSpi, Closed, TypeOK
  <2>2. priv' \in [Inst -> Private]
    <3>1. \A st, again :
            Interface(Own.spi, st) \in BOOLEAN /\
            Interface(Own.mmc, again) \in BOOLEAN
      BY <1>0, InterfaceType DEF Private
    <3> QED
      BY <1>0, <1>6, <3>1, BecomesType, FieldTypes DEF FallbackToSpi
  <2>3. heap' \in [Inst -> [Blocks -> Int]]
    BY <1>6, AllocateType DEF FallbackToSpi, TypeOK
  <2> QED
    BY <1>6, <2>1, <2>2, <2>3 DEF FallbackToSpi, TypeOK
<1>7. CASE FallbackToHostUnavailable
  BY <1>7 DEF FallbackToHostUnavailable, TypeOK
<1>8. CASE FallbackToHost
  <2>1. opened' \subseteq Protocols
    BY <1>8 DEF FallbackToHost, Closed, TypeOK
  <2>2. priv' \in [Inst -> Private]
    <3>1. PICK st : Becomes([Own EXCEPT
            !.peripheral = FALSE,
            !.mmc  = Interface(@, st),
            !.mode = IF st = "SUCCESS" THEN "HOST" ELSE @])
      BY <1>8 DEF FallbackToHost
    <3> DEFINE b == Interface(Own.mmc, st)
               m == IF st = "SUCCESS" THEN "HOST" ELSE Own.mode
    <3>2. b \in BOOLEAN /\ m \in Modes
      BY <1>0, InterfaceType DEF Private
    <3>3. Becomes([Own EXCEPT !.peripheral = FALSE, !.mmc = b, !.mode = m])
      BY <3>1
    <3> HIDE DEF b, m
    <3> QED
      BY <1>0, <3>2, <3>3, BecomesType, FieldTypes
  <2>3. heap' \in [Inst -> [Blocks -> Int]]
    BY <1>8 DEF FallbackToHost, TypeOK
  <2> QED
    BY <1>8, <2>1, <2>2, <2>3 DEF FallbackToHost, TypeOK
<1> QED
  BY <1>1, <1>2, <1>3, <1>4, <1>5, <1>6, <1>7, <1>8 DEF ModeStep

LEMMA StartStepType ==
  ASSUME TypeOK,
         \/ \E i \in Inst : StartProbe(i)
         \/ StartOpen \/ StartPeripheral \/ StartInitialized \/ StartMedia
         \/ StartInstall \/ StartLink \/ StartExit
  PROVE  TypeOK'
<1>0. Own \in Private /\ Own.mode \in Modes
  BY OwnType DEF Private
<1> USE DEF dxeVars, database
<1>1. CASE \E i \in Inst : StartProbe(i)
  <2>1. PICK i \in Inst : StartProbe(i)
    BY <1>1
  <2>2. SdCardProbeMode \in Modes
    BY DEF SdCardProbeMode
  <2>3. [NoPrivate EXCEPT !.live = TRUE, !.mode = SdCardProbeMode] \in Private
    BY <2>2, NoPrivateType DEF Private
  <2>4. priv' \in [Inst -> Private]
    BY <2>1, <2>3 DEF StartProbe, TypeOK
  <2>5. heap' \in [Inst -> [Blocks -> Int]]
    BY <2>1, AllocateType DEF StartProbe
  <2> QED
    BY <2>1, <2>4, <2>5 DEF StartProbe, TypeOK
<1>2. CASE StartOpen
  <2>1. PICK st \in OpenStatuses(TRUE, opened, ProtocolOf(Mode)) :
          /\ status' = st
          /\ Becomes([Own EXCEPT
               !.mmc = IF Mode = "HOST" THEN Interface(@, st) ELSE @,
               !.spi = IF Mode = "SPI"  THEN Interface(@, st) ELSE @])
    BY <1>2 DEF StartOpen
  <2> DEFINE b == IF Mode = "HOST" THEN Interface(Own.mmc, st) ELSE Own.mmc
             c == IF Mode = "SPI" THEN Interface(Own.spi, st) ELSE Own.spi
  <2>2. b \in BOOLEAN /\ c \in BOOLEAN
    BY <1>0, InterfaceType DEF Private
  <2>3. Becomes([Own EXCEPT !.mmc = b, !.spi = c])
    BY <2>1
  <2>4. priv' \in [Inst -> Private]
    <3> HIDE DEF b, c
    <3> QED
      BY <1>0, <2>2, <2>3, BecomesType, FieldTypes
  <2>5. status' \in Statuses
    BY <2>1, OpenStatusesType
  <2>6. opened' \subseteq Protocols /\ pc' \in PCs
    BY <1>2 DEF StartOpen, TypeOK
  <2>7. protocolOpened' \in BOOLEAN
    BY <1>2 DEF StartOpen
  <2> QED
    BY <1>2, <2>4, <2>5, <2>6, <2>7 DEF StartOpen, TypeOK
<1>3. CASE StartPeripheral
  <2>1. priv' \in [Inst -> Private]
    BY <1>0, <1>3, BecomesType, FieldTypes DEF StartPeripheral, TypeOK
  <2>2. heap' \in [Inst -> [Blocks -> Int]]
    BY <1>3, AllocateType DEF StartPeripheral, TypeOK
  <2> QED
    BY <1>3, <2>1, <2>2 DEF StartPeripheral, TypeOK
<1>4. CASE StartInitialized
  BY <1>4 DEF StartInitialized, TypeOK
<1>5. CASE StartMedia
  <2>1. priv' \in [Inst -> Private]
    BY <1>0, <1>5, BecomesType, FieldTypes DEF StartMedia, TypeOK
  <2>2. heap' \in [Inst -> [Blocks -> Int]]
    BY <1>5, AllocateType DEF StartMedia, TypeOK
  <2> QED
    BY <1>5, <2>1, <2>2 DEF StartMedia, TypeOK
<1>6. CASE StartInstall
  BY <1>6 DEF StartInstall, TypeOK
<1>7. CASE StartLink
  <2>1. linked' \subseteq Protocols \X Inst
    BY <1>7 DEF StartLink, TypeOK
  <2> QED
    BY <1>7, <2>1 DEF StartLink, TypeOK
<1>8. CASE StartExit
  <2>1. priv' \in [Inst -> Private]
    BY <1>8, BecomesType, NoPrivateType DEF StartExit
  <2>2. heap' \in [Inst -> [Blocks -> Int]]
    BY <1>8, FreedType DEF StartExit, TypeOK
  <2> QED
    BY <1>8, <2>1, <2>2 DEF StartExit, ExitCloses, TypeOK
<1> QED
  BY <1>1, <1>2, <1>3, <1>4, <1>5, <1>6, <1>7, <1>8

LEMMA StopChildType ==
  ASSUME TypeOK, NEW i \in Inst, StopChild(i)
  PROVE  TypeOK'
<1>1. priv' \in [Inst -> Private]
  BY NoPrivateType DEF StopChild, TypeOK
<1>2. heap' \in [Inst -> [Blocks -> Int]]
  <2>1. Freed(i) \in [Inst -> [Blocks -> Int]]
    BY FreedType
  <2>2. heap \in [Inst -> [Blocks -> Int]]
    BY DEF TypeOK
  <2> QED
    BY <2>1, <2>2 DEF StopChild
<1>3. linked' \subseteq Protocols \X Inst /\ children' \subseteq Inst
  BY DEF StopChild, TypeOK
<1>4. allStopped' \in BOOLEAN
  BY DEF StopChild, TypeOK
<1> QED
  BY <1>1, <1>2, <1>3, <1>4 DEF StopChild, database, TypeOK

LEMMA OtherStepType ==
  ASSUME TypeOK,
         \/ \E i \in Inst : SdCardMediaReset(i)
         \/ ResetReturn \/ StopNoChildren \/ StopFinish
         \/ \E buffer \in SUBSET Inst : StopBegin(buffer)
         \/ Environment
  PROVE  TypeOK'
<1> USE DEF dxeVars, database
<1>1. ASSUME NEW i \in Inst, SdCardMediaReset(i) PROVE TypeOK'
  BY <1>1 DEF SdCardMediaReset, TypeOK
<1>2. CASE ResetReturn
  BY <1>2 DEF ResetReturn, TypeOK
<1>3. CASE StopNoChildren
  BY <1>3 DEF StopNoChildren, TypeOK
<1>4. CASE StopFinish
  BY <1>4 DEF StopFinish, TypeOK
<1>5. ASSUME NEW buffer \in SUBSET Inst, StopBegin(buffer) PROVE TypeOK'
  BY <1>5 DEF StopBegin, TypeOK
<1>6. CASE Environment
  <2>1. PICK p \in Protocols :
          ProducerInstalls(p) \/ ProducerUninstalls(p) \/
          ForeignOpens(p) \/ ForeignCloses(p)
    BY <1>6 DEF Environment
  <2>2. installed' \subseteq Protocols /\ foreign' \subseteq Protocols
    BY <2>1 DEF ProducerInstalls, ProducerUninstalls, ForeignOpens,
                ForeignCloses, TypeOK
  <2>3. UNCHANGED <<opened, priv, heap, pc, self, caller, waiting, status,
                    dxeVars>>
    BY <2>1 DEF ProducerInstalls, ProducerUninstalls, ForeignOpens,
                ForeignCloses
  <2> QED
    BY <2>2, <2>3 DEF TypeOK
<1> QED
  BY <1>1, <1>2, <1>3, <1>4, <1>5, <1>6

LEMMA NextType == TypeOK /\ [Next]_vars => TypeOK'
<1> SUFFICES ASSUME TypeOK, [Next]_vars PROVE TypeOK'
  OBVIOUS
<1>1. CASE Next
  BY <1>1, ModeStepType, StartStepType, StopChildType, OtherStepType
  DEF Next, CallStep, Call
<1>2. CASE UNCHANGED vars
  BY <1>2 DEF vars, modeVars, dxeVars, TypeOK
<1> QED
  BY <1>1, <1>2

LEMMA InitType == Init => TypeOK
<1> SUFFICES ASSUME Init PROVE TypeOK
  OBVIOUS
<1>1. priv \in [Inst -> Private]
  BY NoPrivateType DEF Init
<1>2. heap \in [Inst -> [Blocks -> Int]]
  BY DEF Init
<1>3. waiting \in 0 .. MaxWaiting
  BY ConstantsAssumption DEF Init
<1> QED
  BY <1>1, <1>2, <1>3 DEF Init, TypeOK

(* Every variable keeps its type; in particular the MediaId of a card      *)
(* stays within its width and no activation is resumed that was not        *)
(* suspended.                                                              *)
THEOREM TypeCorrect == Spec => []TypeOK
<1>1. Init => TypeOK
  BY InitType
<1>2. TypeOK /\ [Next]_vars => TypeOK'
  BY NextType
<1> QED
  BY <1>1, <1>2, PTL DEF Spec

-----------------------------------------------------------------------------
(* The inductive invariant.                                                *)

\* Where control is determines who called and that nobody waits in between.
InMode == pc \in {"detect", "modeInit", "identify", "return", "fallback"}

Control ==
  /\ pc \in {"idle", "open", "stop"} <=> caller = "none"
  /\ pc \in {"peripheral", "media", "install", "link", "exit"} =>
       caller \in {"Start", "StartFallback"}
  /\ ~InMode => waiting = 0

(* The child handle Start makes exists from its installation on; one that  *)
(* is abandoned is never linked.  A child is linked to the controller      *)
(* once, through one protocol, and only once Start has come to link it.    *)
Handles ==
  /\ abandoned \subseteq children
  /\ pc = "link" => self \in children \ abandoned
  /\ InStart /\ self \in children =>
       pc = "link" \/ (pc = "exit" /\ self \in abandoned)
  /\ caller = "Reset" => self \in children \ abandoned
  /\ \A p \in Protocols, q \in Protocols, i \in Inst :
       <<p, i>> \in linked /\ <<q, i>> \in linked => p = q
  /\ \A p \in Protocols, i \in Inst :
       <<p, i>> \in linked => i \in children \ abandoned /\ ~(pc = "link" /\ i = self)

(* Pointers match the pool; the places where a block is about to be        *)
(* allocated hold no block yet.                                            *)
Memory ==
  /\ NoLeak
  /\ \A i \in Inst :
       /\ ~priv[i].live => ~priv[i].peripheral /\ ~priv[i].path
       /\ priv[i].mode = "HOST" => ~priv[i].peripheral
  /\ pc \in {"open", "peripheral"} => ~Own.peripheral
  /\ pc = "peripheral" => Own.mode # "HOST"
  /\ InStart /\ pc \notin {"install", "link", "exit"} => ~Own.path

(* During Start the driver holds what it held before and at most the       *)
(* protocol of the current mode, which nobody else of it held.             *)
StartClaims ==
  IF protocolOpened
  THEN /\ ProtocolOf(Mode) \notin before
       /\ before \subseteq opened
       /\ opened \subseteq before \union {ProtocolOf(Mode)}
  ELSE opened = before

ClaimInv ==
  /\ InStart =>
       /\ StartClaims
       /\ before # {} => (children \ abandoned) \ {self} # {}
       /\ pc = "open" => ~protocolOpened
       /\ pc \notin {"open", "exit"} => protocolOpened
  /\ ClaimsServeAChild

(* While Start runs, initialization only goes on, and only succeeds, in a  *)
(* mode whose protocol is held and whose peripheral matches.               *)
Attached == ProtocolOf(Mode) \in opened /\ (Mode = "SPI" <=> Own.peripheral)

ReadyInv ==
  /\ pc = "fallback" => status # "SUCCESS"
  /\ InStart => Mode # "UNKNOWN"
  /\ pc = "peripheral" => Mode = "SPI" /\ ProtocolOf(Mode) \in opened
  /\ InStart /\ pc \in {"detect", "modeInit", "identify"} => Attached
  /\ InStart /\ pc = "return" /\ status = "SUCCESS" =>
       Attached /\ Own.initialized /\ Own.csd = "good"
  /\ PublishedIsReady

LEMMA NextControl == TypeOK /\ Control /\ [Next]_vars => Control'
<1> SUFFICES ASSUME TypeOK, Control, [Next]_vars PROVE Control'
  OBVIOUS
<1>0. waiting \in Nat
  BY ConstantsAssumption DEF TypeOK
<1> USE DEF Control, InMode, dxeVars, database
<1>1. CASE ModeStep /\ UNCHANGED dxeVars
  BY <1>0, <1>1 DEF ModeStep, InitializeDetect, InitializeMode,
     InitializeIdentify, InitializeResume, FallbackRefused, FallbackToSpi,
     FallbackToHostUnavailable, FallbackToHost
<1>2. CASE \E i \in Inst : StartProbe(i)
  BY <1>2 DEF StartProbe
<1>3. CASE StartOpen
  BY <1>3 DEF StartOpen
<1>4. CASE StartPeripheral \/ StartInitialized \/ StartMedia \/ StartInstall
           \/ StartLink \/ StartExit
  BY <1>4 DEF StartPeripheral, StartInitialized, StartMedia, StartInstall,
     StartLink, StartExit, FallbackTried
<1>5. CASE \E i \in Inst : SdCardMediaReset(i) \/ StopChild(i)
  BY <1>5 DEF SdCardMediaReset, StopChild
<1>6. CASE ResetReturn \/ StopNoChildren \/ StopFinish
  BY <1>6 DEF ResetReturn, StopNoChildren, StopFinish
<1>7. CASE \E buffer \in SUBSET Inst : StopBegin(buffer)
  BY <1>7 DEF StopBegin
<1>8. CASE Environment
  BY <1>8 DEF Environment, ProducerInstalls, ProducerUninstalls,
     ForeignOpens, ForeignCloses
<1>9. CASE UNCHANGED vars
  BY <1>9 DEF vars, modeVars
<1> QED
  BY <1>1, <1>2, <1>3, <1>4, <1>5, <1>6, <1>7, <1>8, <1>9
  DEF Next, CallStep, Call

(* Where the child handles are: a child gets its link last and loses it    *)
(* first, and one that is abandoned never had a link.                      *)
LEMMA NextHandles ==
  ASSUME TypeOK, Control, Handles, [Next]_vars
  PROVE  Handles'
<1>0. self \in Inst
  BY DEF TypeOK
<1>1. CASE StartInstall
  <2>1. /\ pc = "install" /\ UNCHANGED <<self, linked, caller, abandoned>>
        /\ \/ pc' = "link" /\ children' = children \union {self}
           \/ pc' = "exit" /\ children' = children
    BY <1>1 DEF StartInstall
  <2>2. self \notin children
    BY <2>1 DEF Handles, InStart
  <2>3. caller # "Reset"
    BY <2>1 DEF Control
  <2> QED
    BY <2>1, <2>2, <2>3 DEF Handles
<1>2. CASE StartLink
  <2>1. /\ pc = "link" /\ pc' # "link" /\ UNCHANGED self
        /\ self \in children \ abandoned
    BY <1>2 DEF StartLink, Handles
  <2>2. \A p \in Protocols : <<p, self>> \notin linked
    BY <1>0, <2>1 DEF Handles
  <2>3. caller' # "Reset"
    BY <1>2 DEF StartLink, Control
  <2>4. CASE /\ UNCHANGED <<children, abandoned>> /\ pc' = "idle" /\ caller' = "none"
             /\ linked' = linked \union {<<ProtocolOf(Mode), self>>}
    BY <2>1, <2>2, <2>3, <2>4 DEF Handles, InStart
  <2>5. CASE /\ children' = children \ {self} /\ pc' = "exit"
             /\ UNCHANGED <<linked, abandoned>>
    BY <2>1, <2>2, <2>3, <2>5 DEF Handles
  <2>6. CASE /\ abandoned' = abandoned \union {self} /\ pc' = "exit"
             /\ UNCHANGED <<linked, children>>
    BY <2>1, <2>2, <2>3, <2>6 DEF Handles
  <2> QED
    BY <1>2, <2>4, <2>5, <2>6 DEF StartLink
<1>3. ASSUME NEW i \in Inst, StopChild(i) PROVE Handles'
  <2> DEFINE link == <<ProtocolOf(priv[i].mode), i>>
  <2>1. /\ pc = "stop" /\ pc' = "stop" /\ caller = "none"
        /\ UNCHANGED <<self, caller, abandoned>>
        /\ \/ UNCHANGED <<linked, children>>
           \/ linked' = linked \ {link} /\ children' = children
           \/ link \in linked /\ linked' = linked \ {link} /\ children' = children \ {i}
    BY <1>3 DEF StopChild, Control
  <2>2. ~InStart'
    BY <2>1 DEF InStart
  <2>3. CASE link \in linked /\ linked' = linked \ {link} /\ children' = children \ {i}
    <3>1. ProtocolOf(priv[i].mode) \in Protocols
      BY DEF ProtocolOf, Protocols
    <3>2. \A p \in Protocols : <<p, i>> \in linked => <<p, i>> = link
      BY <2>3, <3>1 DEF Handles
    <3>3. i \notin abandoned
      BY <2>3, <3>1 DEF Handles
    <3> QED
      BY <2>1, <2>2, <2>3, <3>2, <3>3 DEF Handles
  <2>4. CASE UNCHANGED <<linked, children>> \/ (linked' = linked \ {link} /\ children' = children)
    BY <2>1, <2>2, <2>4 DEF Handles
  <2> QED
    BY <2>1, <2>3, <2>4
<1>4. CASE StartExit
  <2>1. /\ pc' = "idle" /\ caller' = "none" /\ UNCHANGED <<linked, children, abandoned, self>>
    BY <1>4 DEF StartExit, dxeVars
  <2> QED
    BY <2>1 DEF Handles, InStart
<1>5. CASE \/ ModeStep /\ UNCHANGED dxeVars
           \/ StartOpen \/ StartPeripheral \/ StartInitialized \/ StartMedia
  <2>1. /\ UNCHANGED <<linked, children, abandoned, self>>
        /\ pc \notin {"link", "exit"} /\ pc' # "link"
        /\ InStart' => InStart
        /\ caller' = "Reset" => caller = "Reset"
    BY <1>5 DEF dxeVars, ModeStep, InitializeDetect, InitializeMode, InitializeIdentify,
       InitializeResume, FallbackRefused, FallbackToSpi, FallbackToHostUnavailable,
       FallbackToHost, StartOpen, StartPeripheral, StartInitialized, StartMedia, InStart
  <2> QED
    BY <2>1 DEF Handles
<1>6. ASSUME NEW i \in Inst, StartProbe(i) PROVE Handles'
  <2>1. /\ UNCHANGED <<linked, children, abandoned, caller>> /\ i \notin children
        /\ self' = i /\ pc' = "open" /\ caller = "none"
    BY <1>6 DEF StartProbe, Control
  <2> QED
    BY <2>1 DEF Handles
<1>7. ASSUME NEW i \in Inst, SdCardMediaReset(i) PROVE Handles'
  <2>1. /\ UNCHANGED <<linked, children, abandoned>> /\ i \in children \ abandoned
        /\ self' = i /\ pc' = "detect" /\ caller' = "Reset"
    BY <1>7 DEF SdCardMediaReset, dxeVars
  <2> QED
    BY <2>1 DEF Handles, InStart
<1>8. CASE \/ ResetReturn \/ StopNoChildren \/ StopFinish \/ Environment
           \/ \E buffer \in SUBSET Inst : StopBegin(buffer)
  <2>1. /\ UNCHANGED <<linked, children, abandoned>> /\ pc' \in {"idle", "stop"}
        /\ caller' = "none"
    BY <1>8 DEF dxeVars, ResetReturn, StopNoChildren, StopFinish, Environment,
       ProducerInstalls, ProducerUninstalls, ForeignOpens, ForeignCloses, StopBegin, Control
  <2> QED
    BY <2>1 DEF Handles, InStart
<1>9. CASE UNCHANGED vars
  BY <1>9 DEF vars, modeVars, dxeVars, Handles, InStart
<1> QED
  BY <1>1, <1>2, <1>3, <1>4, <1>5, <1>6, <1>7, <1>8, <1>9 DEF Next, CallStep, Call

\* The new value of the running structure, and of the others.
LEMMA BecomesValue ==
  ASSUME TypeOK, NEW p, Becomes(p)
  PROVE  /\ priv'[self] = p
         /\ \A i \in Inst : i # self => priv'[i] = priv[i]
  BY DEF TypeOK, Becomes

LEMMA AllocateValue ==
  ASSUME TypeOK, NEW i \in Inst, NEW b \in Blocks, Allocate(i, b)
  PROVE  /\ heap'[i][b] = heap[i][b] + 1
         /\ \A c \in Blocks : c # b => heap'[i][c] = heap[i][c]
         /\ \A j \in Inst : j # i => heap'[j] = heap[j]
<1>1. heap \in [Inst -> [Blocks -> Int]]
  BY DEF TypeOK
<1> QED
  BY <1>1 DEF Allocate

LEMMA FreedValue ==
  ASSUME TypeOK, NEW i \in Inst, HeapMatches(i), priv[i].live
  PROVE  /\ \A b \in Blocks : Freed(i)[i][b] = 0
         /\ \A j \in Inst : j # i => Freed(i)[j] = heap[j]
<1>1. heap \in [Inst -> [Blocks -> Int]]
  BY DEF TypeOK
<1> QED
  BY <1>1 DEF Freed, HeapMatches, Count

\* The fields the memory invariant is about are the same in p and q.
SamePointers(p, q) ==
  p.live = q.live /\ p.peripheral = q.peripheral /\ p.path = q.path
  /\ p.mode = q.mode

PointersKept == \A i \in Inst : SamePointers(priv'[i], priv[i])

(* A step that moves no pointer and no pool block keeps the invariant,     *)
(* unless control enters a place the invariant asks more of.               *)
LEMMA MemoryQuiet ==
  ASSUME Memory, self \in Inst, PointersKept,
         UNCHANGED <<heap, self, children, abandoned>>, InStart' <=> InStart,
         pc' \in {"open", "peripheral"} => pc \in {"open", "peripheral"},
         pc' = "peripheral" => Own.mode # "HOST",
         pc \in {"install", "link", "exit"} => pc' \in {"install", "link", "exit"}
  PROVE  Memory'
<1>1. \A i \in Inst : /\ priv'[i].live = priv[i].live
                      /\ priv'[i].peripheral = priv[i].peripheral
                      /\ priv'[i].path = priv[i].path
                      /\ priv'[i].mode = priv[i].mode
  BY DEF PointersKept, SamePointers
<1>2. NoLeak'
  BY <1>1 DEF Memory, NoLeak, HeapMatches
<1> QED
  BY <1>1, <1>2 DEF Memory, Own

LEMMA MemoryQuietMode ==
  ASSUME Memory, InMode, InMode',
         UNCHANGED <<heap, self, children, abandoned, caller>>,
         PointersKept, self \in Inst
  PROVE  Memory'
<1>1. InStart' <=> InStart
  BY DEF InStart, InMode
<1> QED
  BY <1>1, MemoryQuiet DEF InMode

LEMMA FieldsKept ==
  ASSUME NEW p \in Private, NEW a, NEW b, NEW c
  PROVE  /\ SamePointers([p EXCEPT !.mediaPresent = a], p)
         /\ SamePointers([p EXCEPT !.spi = a, !.mmc = b], p)
         /\ SamePointers([p EXCEPT !.mmc = a, !.spi = b], p)
         /\ SamePointers([p EXCEPT !.csd = a, !.initialized = b,
                                   !.mediaPresent = c], p)
         /\ SamePointers(Identified(p), p)
         /\ ~p.peripheral =>
              SamePointers([p EXCEPT !.spi = a, !.peripheral = FALSE], p)
  BY DEF SamePointers, Private, Identified

LEMMA BecomesSame ==
  ASSUME TypeOK, NEW p, Becomes(p), SamePointers(p, Own)
  PROVE  PointersKept
  BY BecomesValue DEF PointersKept, SamePointers, Own

\* The steps that switch no mode.
QuietStep ==
  \/ InitializeDetect \/ InitializeMode \/ InitializeIdentify
  \/ InitializeResume \/ FallbackRefused \/ FallbackToHostUnavailable

LEMMA QuietStepPointers ==
  ASSUME TypeOK, QuietStep
  PROVE  PointersKept /\ UNCHANGED <<heap, opened>>
<1>0. Own \in Private
  BY OwnType
<1>1. ASSUME InitializeDetect \/ InitializeIdentify \/ InitializeResume
      PROVE  PointersKept
  <2>1. \/ UNCHANGED priv
        \/ Becomes([Own EXCEPT !.mediaPresent = FALSE])
        \/ Becomes(Identified(Own))
    BY <1>1 DEF InitializeDetect, InitializeIdentify, InitializeResume
  <2>2. SamePointers([Own EXCEPT !.mediaPresent = FALSE], Own)
    BY <1>0, FieldsKept
  <2>3. SamePointers(Identified(Own), Own)
    BY <1>0, FieldsKept
  <2>4. UNCHANGED priv => PointersKept
    BY DEF PointersKept, SamePointers
  <2> QED
    BY <2>1, <2>2, <2>3, <2>4, BecomesSame
<1>2. ASSUME InitializeMode
      PROVE  PointersKept
  <2>1. PICK c, n, m : Becomes([Own EXCEPT !.csd = c, !.initialized = n,
                                           !.mediaPresent = m])
    BY <1>2 DEF InitializeMode
  <2> DEFINE q == [Own EXCEPT !.csd = c, !.initialized = n,
                              !.mediaPresent = m]
  <2>2. SamePointers(q, Own)
    BY <1>0, FieldsKept
  <2> QED
    BY <2>1, <2>2, BecomesSame
<1>3. ASSUME FallbackRefused \/ FallbackToHostUnavailable
      PROVE  PointersKept
  BY <1>3 DEF FallbackRefused, FallbackToHostUnavailable, PointersKept,
     SamePointers
<1>4. UNCHANGED <<heap, opened>>
  BY DEF QuietStep, InitializeDetect, InitializeMode, InitializeIdentify,
     InitializeResume, FallbackRefused, FallbackToHostUnavailable
<1> QED
  BY <1>1, <1>2, <1>3, <1>4 DEF QuietStep

LEMMA ModeStepMemory ==
  ASSUME TypeOK, Control, Handles, Memory, ModeStep, UNCHANGED dxeVars
  PROVE  Memory'
<1>0. Own \in Private /\ self \in Inst
  BY OwnType DEF TypeOK
<1>a. priv \in [Inst -> Private]
  BY DEF TypeOK
<1>b. InMode /\ InMode' /\ UNCHANGED <<self, children, abandoned, caller>>
  BY DEF ModeStep, InitializeDetect, InitializeMode, InitializeIdentify,
     InitializeResume, FallbackRefused, FallbackToSpi,
     FallbackToHostUnavailable, FallbackToHost, InMode, dxeVars
<1>c. InStart' <=> InStart
  BY <1>b DEF InStart, InMode
<1>1. CASE QuietStep
  BY <1>0, <1>1, <1>b, QuietStepPointers, MemoryQuietMode
<1>2. CASE FallbackToSpi
  <2>0. Own.mode = "HOST" /\ ~Own.peripheral
    BY <1>0, <1>2 DEF FallbackToSpi, Mode, Own, Memory
  <2>1. CASE UNCHANGED heap
    <3>1. \A b \in Blocks : ~Allocate(self, b)
      BY <1>0, <2>1, AllocateValue DEF TypeOK
    <3>2. \/ \E b, c : Becomes([Own EXCEPT !.spi = b, !.mmc = c])
          \/ Becomes([Own EXCEPT !.spi = TRUE, !.peripheral = FALSE])
      BY <1>2, <3>1 DEF FallbackToSpi
    <3>3. PointersKept
      BY <1>0, <2>0, <3>2, FieldsKept, BecomesSame
    <3> QED
      BY <1>0, <1>b, <2>1, <3>3, MemoryQuietMode
  <2>2. CASE Allocate(self, "peripheral") /\
             Becomes([Own EXCEPT !.spi = TRUE, !.peripheral = TRUE,
                                 !.mode = "SPI"])
    <3> DEFINE q == [Own EXCEPT !.spi = TRUE, !.peripheral = TRUE,
                                !.mode = "SPI"]
    <3>0. /\ q.live = Own.live /\ q.path = Own.path
          /\ q.peripheral = TRUE /\ q.mode = "SPI"
      BY <1>0 DEF Private
    <3>1. /\ priv'[self].live = Own.live
          /\ priv'[self].peripheral = TRUE
          /\ priv'[self].path = Own.path
          /\ priv'[self].mode = "SPI"
          /\ \A i \in Inst : i # self => priv'[i] = priv[i]
      BY <1>0, <2>2, <3>0, BecomesValue
    <3>2. /\ heap'[self]["peripheral"] = heap[self]["peripheral"] + 1
          /\ heap'[self]["private"] = heap[self]["private"]
          /\ heap'[self]["path"] = heap[self]["path"]
          /\ \A i \in Inst : i # self => heap'[i] = heap[i]
      BY <1>0, <2>2, AllocateValue
    <3>3. Own.live
      BY <1>0, <1>b DEF Memory, NoLeak, Handles, Control, InMode, InStart, Callers,
         TypeOK, Own
    <3>4. NoLeak'
      BY <1>0, <1>b, <1>c, <2>0, <3>1, <3>2
      DEF Memory, NoLeak, HeapMatches, Count, Own
    <3> QED
      BY <1>0, <1>b, <1>c, <3>1, <3>3, <3>4 DEF Memory, Own, InMode
  <2> QED
    BY <1>2, <2>1, <2>2 DEF FallbackToSpi
<1>3. CASE FallbackToHost
  <2>1. PICK b, m : Becomes([Own EXCEPT !.peripheral = FALSE, !.mmc = b,
                                        !.mode = m])
    BY <1>3 DEF FallbackToHost
  <2> DEFINE q == [Own EXCEPT !.peripheral = FALSE, !.mmc = b, !.mode = m]
  <2>a. q.live = Own.live /\ q.path = Own.path /\ q.peripheral = FALSE
    BY <1>0 DEF Private
  <2>2. /\ priv'[self].live = Own.live
        /\ priv'[self].peripheral = FALSE
        /\ priv'[self].path = Own.path
        /\ \A i \in Inst : i # self => priv'[i] = priv[i]
    BY <1>0, <2>1, <2>a, BecomesValue
  <2>3. /\ heap'[self]["peripheral"] = heap[self]["peripheral"]
                                       - Count(Own.peripheral)
        /\ heap'[self]["private"] = heap[self]["private"]
        /\ heap'[self]["path"] = heap[self]["path"]
        /\ \A i \in Inst : i # self => heap'[i] = heap[i]
    BY <1>0, <1>3 DEF FallbackToHost, TypeOK, Count
  <2>4. NoLeak'
    BY <1>0, <1>b, <1>c, <2>2, <2>3
    DEF Memory, NoLeak, HeapMatches, Count, Own
  <2> QED
    BY <1>0, <1>b, <1>c, <2>2, <2>4 DEF Memory, Own, InMode
<1> QED
  BY <1>1, <1>2, <1>3 DEF ModeStep, QuietStep

LEMMA StartProbeMemory ==
  ASSUME TypeOK, Control, Handles, Memory, NEW i \in Inst, StartProbe(i)
  PROVE  Memory'
<1>1. /\ ~InStart /\ InStart' /\ self' = i /\ pc' = "open"
      /\ caller' = "none" /\ UNCHANGED <<children, abandoned>>
  BY DEF StartProbe, InStart, Control
<1>2. ~priv[i].live /\ ~priv[i].peripheral /\ ~priv[i].path
  BY DEF StartProbe, Memory
<1>3. /\ priv'[i].live = TRUE /\ priv'[i].peripheral = FALSE
      /\ priv'[i].path = FALSE
      /\ \A j \in Inst : j # i => priv'[j] = priv[j]
  BY DEF StartProbe, TypeOK, NoPrivate
<1>4. /\ heap'[i]["private"] = heap[i]["private"] + 1
      /\ heap'[i]["peripheral"] = heap[i]["peripheral"]
      /\ heap'[i]["path"] = heap[i]["path"]
      /\ \A j \in Inst : j # i => heap'[j] = heap[j]
  BY AllocateValue DEF StartProbe
<1>5. NoLeak'
  BY <1>1, <1>2, <1>3, <1>4 DEF Memory, NoLeak, HeapMatches, Count
<1>6. \A j \in Inst : j = i \/ j # i
  OBVIOUS
<1> QED
  BY <1>1, <1>3, <1>5 DEF Memory, Own

LEMMA StartStepMemory ==
  ASSUME TypeOK, Control, Handles, Memory,
         \/ StartOpen \/ StartPeripheral \/ StartInitialized \/ StartMedia
         \/ StartInstall \/ StartLink \/ StartExit
  PROVE  Memory'
<1>0. Own \in Private /\ self \in Inst
  BY OwnType DEF TypeOK
<1>a. priv \in [Inst -> Private] /\ Own = priv[self]
  BY DEF TypeOK, Own
<1>b. UNCHANGED self
  BY DEF StartOpen, StartPeripheral, StartInitialized, StartMedia,
     StartInstall, StartLink, StartExit
<1>c. InStart
  BY DEF StartOpen, StartPeripheral, StartInitialized, StartMedia,
     StartInstall, StartLink, StartExit, InStart
<1>d. Own.live
  BY <1>0, <1>c DEF Memory, NoLeak, Own
<1> USE DEF dxeVars
<1>1. CASE StartOpen
  <2>1. PICK b, c : Becomes([Own EXCEPT !.mmc = b, !.spi = c])
    BY <1>1 DEF StartOpen
  <2>2. PointersKept
    BY <1>0, <2>1, FieldsKept, BecomesSame
  <2>3. InStart'
    BY <1>1 DEF StartOpen, InStart
  <2> QED
    BY <1>0, <1>1, <1>c, <2>2, <2>3, MemoryQuiet DEF StartOpen, Mode
<1>2. CASE StartPeripheral
  <2>0. InStart' /\ UNCHANGED <<caller, children, abandoned>>
    BY <1>2 DEF StartPeripheral, InStart, Control
  <2>1. CASE UNCHANGED <<priv, heap>>
    <3>1. PointersKept
      BY <2>1 DEF PointersKept, SamePointers
    <3>2. pc = "peripheral" /\ pc' \in {"exit", "detect"}
      BY <1>2 DEF StartPeripheral
    <3> QED
      BY <1>0, <1>b, <1>c, <2>0, <2>1, <3>1, <3>2, MemoryQuiet
  <2>2. CASE /\ Becomes([Own EXCEPT !.peripheral = TRUE])
             /\ Allocate(self, "peripheral") /\ pc' = "detect"
    <3>1. \A i \in Inst : i # self => priv'[i] = priv[i]
      BY <2>2, BecomesValue
    <3>2. /\ priv'[self].live = Own.live /\ priv'[self].path = Own.path
          /\ priv'[self].mode = Own.mode /\ priv'[self].peripheral = TRUE
      BY <1>0, <1>a, <2>2 DEF Becomes, Private
    <3>3. /\ heap'[self]["peripheral"] = heap[self]["peripheral"] + 1
          /\ heap'[self]["private"] = heap[self]["private"]
          /\ heap'[self]["path"] = heap[self]["path"]
          /\ \A i \in Inst : i # self => heap'[i] = heap[i]
      BY <1>0, <2>2, AllocateValue
    <3>4. pc = "peripheral"
      BY <1>2 DEF StartPeripheral
    <3>5. NoLeak'
      BY <1>0, <1>b, <1>c, <2>0, <3>1, <3>2, <3>3, <3>4
      DEF Memory, NoLeak, HeapMatches, Count, Own
    <3>6. Own.mode # "HOST"
      BY <3>4 DEF Memory
    <3> QED
      BY <1>0, <1>b, <1>c, <1>d, <2>0, <2>2, <3>1, <3>2, <3>4, <3>5, <3>6
      DEF Memory, Own
  <2> QED
    BY <1>2, <2>1, <2>2 DEF StartPeripheral
<1>3. CASE StartInitialized
  <2>1. PointersKept
    BY <1>3 DEF StartInitialized, PointersKept, SamePointers
  <2>2. InStart'
    BY <1>3 DEF StartInitialized, InStart
  <2> QED
    BY <1>0, <1>3, <1>b, <1>c, <2>1, <2>2, MemoryQuiet DEF StartInitialized
<1>4. CASE StartMedia
  <2>0. /\ InStart' /\ UNCHANGED <<caller, children, abandoned>>
        /\ pc = "media" /\ pc' \in {"install", "exit"}
    BY <1>4 DEF StartMedia, InStart
  <2>1. CASE /\ Becomes([Own EXCEPT !.mediaPresent = TRUE])
             /\ UNCHANGED heap
    <3>1. PointersKept
      BY <1>0, <2>1, FieldsKept, BecomesSame
    <3> QED
      BY <1>0, <1>b, <1>c, <2>0, <2>1, <3>1, MemoryQuiet
  <2>2. CASE /\ Becomes([Own EXCEPT !.mediaPresent = TRUE, !.path = TRUE])
             /\ Allocate(self, "path")
    <3>1. \A i \in Inst : i # self => priv'[i] = priv[i]
      BY <2>2, BecomesValue
    <3>2. /\ priv'[self].live = Own.live /\ priv'[self].path = TRUE
          /\ priv'[self].mode = Own.mode
          /\ priv'[self].peripheral = Own.peripheral
      BY <1>0, <1>a, <2>2 DEF Becomes, Private
    <3>3. /\ heap'[self]["path"] = heap[self]["path"] + 1
          /\ heap'[self]["private"] = heap[self]["private"]
          /\ heap'[self]["peripheral"] = heap[self]["peripheral"]
          /\ \A i \in Inst : i # self => heap'[i] = heap[i]
      BY <1>0, <2>2, AllocateValue
    <3>4. NoLeak'
      BY <1>0, <1>b, <1>c, <2>0, <3>1, <3>2, <3>3
      DEF Memory, NoLeak, HeapMatches, Count, Own
    <3>5. pc' \in {"install", "exit"}
      BY <2>0
    <3> QED
      BY <1>0, <1>b, <1>c, <1>d, <2>0, <3>1, <3>2, <3>4 DEF Memory, Own
  <2> QED
    BY <1>4, <2>1, <2>2 DEF StartMedia
<1>5. CASE StartInstall
  <2>1. /\ InStart' /\ UNCHANGED <<caller, priv, heap, abandoned>>
        /\ pc = "install"
        /\ \/ pc' = "link" /\ children' = children \union {self}
           \/ pc' = "exit" /\ children' = children
    BY <1>5 DEF StartInstall, InStart
  <2>2. NoLeak'
    BY <1>b, <1>c, <2>1 DEF Memory, NoLeak, HeapMatches
  <2> QED
    BY <1>b, <1>c, <2>1, <2>2 DEF Memory, Own
<1>6. CASE StartLink
  <2>1. /\ UNCHANGED <<priv, heap>> /\ pc = "link"
        /\ \/ ~InStart' /\ UNCHANGED <<children, abandoned>> /\ pc' = "idle"
              /\ caller' = "none"
           \/ /\ InStart' /\ pc' = "exit" /\ UNCHANGED caller
              /\ \/ children' = children \ {self} /\ UNCHANGED abandoned
                 \/ abandoned' = abandoned \union {self} /\ UNCHANGED children
    BY <1>6 DEF StartLink, InStart
  <2>2. NoLeak'
    BY <1>0, <1>b, <1>c, <2>1 DEF Memory, NoLeak, HeapMatches, Handles
  <2> QED
    BY <1>b, <1>c, <2>1, <2>2 DEF Memory, Own
<1>7. CASE StartExit
  <2>1. /\ ~InStart' /\ heap' = Freed(self) /\ pc = "exit" /\ pc' = "idle"
        /\ caller' = "none" /\ UNCHANGED <<children, abandoned>>
    BY <1>7 DEF StartExit, InStart
  <2>2. /\ priv'[self] = NoPrivate
        /\ \A i \in Inst : i # self => priv'[i] = priv[i]
    BY <1>7, BecomesValue DEF StartExit
  <2>3. /\ \A b \in Blocks : heap'[self][b] = 0
        /\ \A i \in Inst : i # self => heap'[i] = heap[i]
    BY <1>0, <1>a, <1>d, <2>1, FreedValue DEF Memory, NoLeak
  <2>4. NoLeak'
    BY <1>0, <1>b, <1>c, <2>1, <2>2, <2>3
    DEF Memory, NoLeak, HeapMatches, Count, NoPrivate, Handles
  <2> QED
    BY <1>0, <1>b, <1>c, <2>1, <2>2, <2>4 DEF Memory, Own, NoPrivate
<1> QED
  BY <1>1, <1>2, <1>3, <1>4, <1>5, <1>6, <1>7

LEMMA StopChildMemory ==
  ASSUME TypeOK, Control, Handles, Memory, NEW i \in Inst, StopChild(i)
  PROVE  Memory'
<1>1. /\ pc = "stop" /\ pc' = "stop" /\ caller = "none" /\ caller' = "none"
      /\ UNCHANGED <<self, abandoned>> /\ ~InStart /\ ~InStart'
  BY DEF StopChild, Control, InStart
<1>2. CASE UNCHANGED <<children, priv, heap>>
  BY <1>1, <1>2 DEF Memory, NoLeak, HeapMatches, Own
<1>3. CASE /\ i \in children \ abandoned /\ children' = children \ {i}
           /\ heap' = Freed(i) /\ priv' = [priv EXCEPT ![i] = NoPrivate]
  <2>1. /\ priv'[i] = NoPrivate
        /\ \A j \in Inst : j # i => priv'[j] = priv[j]
    BY <1>3 DEF TypeOK
  <2>2. /\ \A b \in Blocks : heap'[i][b] = 0
        /\ \A j \in Inst : j # i => heap'[j] = heap[j]
    BY <1>3, FreedValue DEF Memory, NoLeak
  <2>3. NoLeak'
    BY <1>1, <1>3, <2>1, <2>2
    DEF Memory, NoLeak, HeapMatches, Count, NoPrivate
  <2> QED
    BY <1>1, <2>1, <2>3 DEF Memory, NoPrivate
<1>4. <<ProtocolOf(priv[i].mode), i>> \in linked => i \in children \ abandoned
  BY DEF Handles, ProtocolOf, Protocols
<1> QED
  BY <1>2, <1>3, <1>4 DEF StopChild

LEMMA OtherStepMemory ==
  ASSUME TypeOK, Control, Handles, Memory,
         \/ \E i \in Inst : SdCardMediaReset(i)
         \/ ResetReturn \/ StopNoChildren \/ StopFinish
         \/ \E buffer \in SUBSET Inst : StopBegin(buffer)
         \/ Environment
         \/ UNCHANGED vars
  PROVE  Memory'
<1> USE DEF vars, modeVars, dxeVars, database
<1>0. self \in Inst
  BY DEF TypeOK
<1>1. UNCHANGED <<priv, heap, children, abandoned>>
  BY DEF SdCardMediaReset, ResetReturn, StopNoChildren, StopFinish, StopBegin,
     Environment, ProducerInstalls, ProducerUninstalls, ForeignOpens,
     ForeignCloses
<1>2. PointersKept
  BY <1>1 DEF PointersKept, SamePointers
<1>3. CASE \E i \in Inst : SdCardMediaReset(i)
  BY <1>1, <1>3 DEF SdCardMediaReset, Control, Memory, NoLeak, HeapMatches,
     InStart
<1>4. CASE ResetReturn \/ StopNoChildren \/ StopFinish
           \/ \E buffer \in SUBSET Inst : StopBegin(buffer)
  <2>1. /\ ~InStart /\ ~InStart' /\ UNCHANGED self /\ caller' # "Reset"
        /\ pc' \in {"idle", "stop"}
    BY <1>4 DEF ResetReturn, StopNoChildren, StopFinish, StopBegin, InStart,
       Control
  <2>2. pc \notin {"install", "link", "exit"}
    BY <1>4 DEF ResetReturn, StopNoChildren, StopFinish, StopBegin
  <2> QED
    BY <1>0, <1>1, <1>2, <2>1, <2>2, MemoryQuiet
<1>5. CASE Environment \/ UNCHANGED vars
  <2>1. UNCHANGED <<priv, heap, children, abandoned, self, pc, caller>>
    BY <1>5 DEF Environment, ProducerInstalls, ProducerUninstalls,
       ForeignOpens, ForeignCloses
  <2> QED
    BY <2>1 DEF Memory, NoLeak, HeapMatches, InStart, Own
<1> QED
  BY <1>3, <1>4, <1>5

LEMMA NextMemory ==
  ASSUME TypeOK, Control, Handles, Memory, [Next]_vars
  PROVE  Memory'
<1>1. CASE UNCHANGED vars
  BY <1>1, OtherStepMemory
<1>2. CASE Next
  BY <1>2, ModeStepMemory, StartProbeMemory, StartStepMemory,
     StopChildMemory, OtherStepMemory
  DEF Next, CallStep, Call
<1> QED
  BY <1>1, <1>2

(* Starting from an empty pool: what Start, Stop, Reset and any number of  *)
(* nested fallbacks allocate is what the structures point to, and a        *)
(* structure exists only during Start or with its child handle, unless     *)
(* that is one a failing Start could not uninstall.                        *)
THEOREM NothingLeaks == Spec => []NoLeak
<1> DEFINE Inv == TypeOK /\ Control /\ Handles /\ Memory
<1>1. Init => Inv
  BY InitType DEF Init, Control, Handles, Memory, NoLeak, HeapMatches, Count,
     NoPrivate, InStart, InMode, Own, TypeOK
<1>2. Inv /\ [Next]_vars => Inv'
  BY NextType, NextControl, NextHandles, NextMemory
<1>3. Inv => NoLeak
  BY DEF Memory
<1> QED
  BY <1>1, <1>2, <1>3, PTL DEF Spec

-----------------------------------------------------------------------------
(* Claims on the controller.                                               *)

\* OpenProtocol succeeds only on a protocol this driver does not hold yet.
LEMMA OpenSucceeds ==
  ASSUME NEW handle \in BOOLEAN, NEW held, NEW p,
         "SUCCESS" \in OpenStatuses(handle, held, p)
  PROVE  handle /\ p \notin held
  BY DEF OpenStatuses

(* A fallback during Start trades the protocol of the old mode for that of *)
(* the new one, or loses it.                                               *)
LEMMA ModeStepClaims ==
  ASSUME TypeOK, InStart, StartClaims, protocolOpened, ModeStep,
         UNCHANGED dxeVars
  PROVE  StartClaims'
<1>0. Own \in Private /\ self \in Inst /\ UNCHANGED self
  BY OwnType DEF TypeOK, ModeStep, InitializeDetect, InitializeMode,
     InitializeIdentify, InitializeResume, FallbackRefused, FallbackToSpi,
     FallbackToHostUnavailable, FallbackToHost
<1>a. protocolOpened' /\ UNCHANGED before /\ priv \in [Inst -> Private]
  BY DEF dxeVars, TypeOK
<1>b. /\ ProtocolOf(Mode) \notin before
      /\ before \subseteq opened
      /\ opened \subseteq before \union {ProtocolOf(Mode)}
  BY DEF StartClaims
<1>c. FallbackHandle \in BOOLEAN
  BY ConstantsAssumption DEF FallbackHandle
<1> HIDE DEF ProtocolOf
<1>1. CASE UNCHANGED opened /\ priv'[self].mode = Own.mode
  BY <1>0, <1>1, <1>a DEF StartClaims, Mode, Own
<1>2. CASE QuietStep
  BY <1>0, <1>1, <1>2, QuietStepPointers DEF PointersKept, SamePointers, Own
<1>3. CASE FallbackToSpi
  <2>1. ProtocolOf(Mode) = "MMC"
    BY <1>3 DEF FallbackToSpi, ProtocolOf
  <2>2. before \subseteq Closed("MMC")
    BY <1>b, <2>1 DEF Closed
  <2>3. Closed("MMC") \subseteq before \union {"MMC"}
    BY <1>b, <2>1 DEF Closed
  <2>4. CASE opened' \in {Closed("MMC"), Closed("MMC") \union {"MMC"}}
             /\ priv'[self].mode = Own.mode
    BY <1>0, <1>a, <1>b, <2>1, <2>2, <2>3, <2>4 DEF StartClaims, Mode, Own
  <2>5. CASE /\ "SUCCESS" \in OpenStatuses(FallbackHandle, Closed("MMC"), "SPI")
             /\ opened' = Closed("MMC") \union {"SPI"}
             /\ priv'[self].mode = "SPI"
    <3>1. FallbackHandle /\ "SPI" \notin Closed("MMC")
      BY <1>c, <2>5, OpenSucceeds
    <3>2. Closed("MMC") = before
      BY <1>b, <2>1, <3>1 DEF Closed
    <3>3. ProtocolOf(Mode)' = "SPI"
      BY <1>0, <2>5 DEF ProtocolOf, Mode, Own
    <3> QED
      BY <1>a, <2>5, <3>1, <3>2, <3>3 DEF StartClaims
  <2> DEFINE q(b, c) == [Own EXCEPT !.spi = b, !.mmc = c]
             r == [Own EXCEPT !.spi = TRUE, !.peripheral = TRUE, !.mode = "SPI"]
             t == [Own EXCEPT !.spi = TRUE, !.peripheral = FALSE]
  <2>6. \/ /\ \E b, c : Becomes(q(b, c))
           /\ opened' \in {Closed("MMC"), Closed("MMC") \union {"MMC"}}
        \/ /\ "SUCCESS" \in OpenStatuses(FallbackHandle, Closed("MMC"), "SPI")
           /\ opened' = Closed("MMC") \union {"SPI"}
           /\ Becomes(r)
        \/ /\ opened' = Closed("MMC")
           /\ Becomes(t)
    BY <1>3 DEF FallbackToSpi
  <2>7. /\ \A b, c : q(b, c).mode = Own.mode
        /\ t.mode = Own.mode /\ r.mode = "SPI"
    BY <1>0 DEF Private
  <2> HIDE DEF q, r, t
  <2>8. \A p : Becomes(p) => priv'[self] = p
    BY BecomesValue
  <2>9. \/ /\ priv'[self].mode = Own.mode
           /\ opened' \in {Closed("MMC"), Closed("MMC") \union {"MMC"}}
        \/ /\ "SUCCESS" \in OpenStatuses(FallbackHandle, Closed("MMC"), "SPI")
           /\ opened' = Closed("MMC") \union {"SPI"}
           /\ priv'[self].mode = "SPI"
    BY <2>6, <2>7, <2>8
  <2> QED
    BY <2>4, <2>5, <2>9
<1>4. CASE FallbackToHost
  <2>1. ProtocolOf(Mode) = "SPI" /\ FallbackHandle
    BY <1>4 DEF FallbackToHost, ProtocolOf
  <2>2. Closed("SPI") = before
    BY <1>b, <2>1 DEF Closed
  <2>3. CASE opened' = before /\ priv'[self].mode = Own.mode
    BY <1>0, <1>a, <1>b, <2>1, <2>3 DEF StartClaims, Mode, Own
  <2>4. CASE /\ "SUCCESS" \in OpenStatuses(FallbackHandle, before, "MMC")
             /\ opened' = before \union {"MMC"}
             /\ priv'[self].mode = "HOST"
    <3>1. "MMC" \notin before
      BY <1>c, <2>4, OpenSucceeds
    <3>2. ProtocolOf(Mode)' = "MMC"
      BY <1>0, <2>4 DEF ProtocolOf, Mode, Own
    <3> QED
      BY <1>a, <2>4, <3>1, <3>2 DEF StartClaims
  <2> QED
    BY <1>0, <1>4, <1>a, <2>2, <2>3, <2>4
    DEF FallbackToHost, Becomes, Private, Own
<1> QED
  BY <1>2, <1>3, <1>4 DEF ModeStep, QuietStep

\* Start keeps its claims together; calls leave none behind without a child.
LEMMA NextClaims ==
  ASSUME TypeOK, Control, Handles, Memory, ClaimInv, [Next]_vars
  PROVE  ClaimInv'
<1> USE DEF dxeVars, database
<1>0. self \in Inst
  BY DEF TypeOK
<1>1. CASE ModeStep /\ UNCHANGED dxeVars
  <2>1. /\ InMode /\ InMode' /\ UNCHANGED <<self, caller, dxeVars>>
    BY <1>1 DEF ModeStep, InitializeDetect, InitializeMode,
       InitializeIdentify, InitializeResume, FallbackRefused, FallbackToSpi,
       FallbackToHostUnavailable, FallbackToHost, InMode
  <2>2. InStart' <=> InStart
    BY <2>1 DEF InStart, InMode
  <2>3. InStart => StartClaims'
    BY <1>1, <2>1, ModeStepClaims DEF ClaimInv, InMode
  <2> QED
    BY <2>1, <2>2, <2>3 DEF ClaimInv, ClaimsServeAChild, InMode
<1>2. ASSUME NEW i \in Inst, StartProbe(i) PROVE ClaimInv'
  <2>1. /\ ~InStart /\ pc = "idle" /\ ~priv[i].live /\ pc' = "open"
        /\ self' = i /\ protocolOpened' = FALSE /\ before' = opened
        /\ UNCHANGED <<opened, children, abandoned>>
    BY <1>2 DEF StartProbe, InStart, Control
  <2>2. i \notin children
    BY <1>2 DEF StartProbe
  <2> QED
    BY <2>1, <2>2 DEF ClaimInv, ClaimsServeAChild, StartClaims
<1>3. CASE StartOpen
  <2>1. PICK st \in OpenStatuses(TRUE, opened, ProtocolOf(Mode)) :
          /\ protocolOpened' = (st = "SUCCESS")
          /\ opened' = IF st = "SUCCESS"
                       THEN opened \union {ProtocolOf(Mode)} ELSE opened
          /\ pc' = IF st # "SUCCESS" THEN "exit"
                   ELSE IF Mode = "HOST" THEN "detect" ELSE "peripheral"
          /\ \E b, c : Becomes([Own EXCEPT !.mmc = b, !.spi = c])
    BY <1>3 DEF StartOpen
  <2>2. /\ InStart /\ opened = before
        /\ UNCHANGED <<self, before, children, abandoned>>
    BY <1>3 DEF StartOpen, InStart, ClaimInv, StartClaims
  <2>3. Mode' = Mode
    <3>1. PICK b, c : Becomes([Own EXCEPT !.mmc = b, !.spi = c])
      BY <2>1
    <3>2. [Own EXCEPT !.mmc = b, !.spi = c].mode = Own.mode
      BY OwnType DEF Private
    <3> QED
      BY <2>2, <3>1, <3>2, BecomesValue DEF Mode, Own
  <2>4. st = "SUCCESS" => ProtocolOf(Mode) \notin before
    BY <2>1, <2>2, OpenSucceeds
  <2>5. StartClaims'
    <3> HIDE DEF ProtocolOf
    <3>1. ProtocolOf(Mode)' = ProtocolOf(Mode)
      BY <2>3
    <3> QED
      BY <2>1, <2>2, <2>4, <3>1 DEF StartClaims
  <2>6. /\ pc' \in {"exit", "detect", "peripheral"}
        /\ pc' # "exit" => protocolOpened'
    BY <2>1
  <2>7. before # {} => (children \ abandoned) \ {self} # {}
    BY <2>2 DEF ClaimInv
  <2>8. before' # {} => (children' \ abandoned') \ {self'} # {}
    BY <2>2, <2>7
  <2> QED
    BY <2>5, <2>6, <2>8 DEF ClaimInv, ClaimsServeAChild
<1>4. CASE StartPeripheral \/ StartInitialized \/ StartMedia \/ StartInstall
  <2>1. /\ InStart /\ pc \notin {"open", "exit"} /\ pc' \notin {"idle", "open"}
        /\ UNCHANGED <<opened, self, before, protocolOpened>>
        /\ (children \ abandoned) \ {self} = (children' \ abandoned') \ {self}
    BY <1>4 DEF StartPeripheral, StartInitialized, StartMedia, StartInstall,
       InStart
  <2>2. Mode' = Mode
    <3>1. Own \in Private
      BY OwnType
    <3>2. \/ UNCHANGED priv
          \/ Becomes([Own EXCEPT !.peripheral = TRUE])
          \/ Becomes([Own EXCEPT !.mediaPresent = TRUE])
          \/ Becomes([Own EXCEPT !.mediaPresent = TRUE, !.path = TRUE])
      BY <1>4 DEF StartPeripheral, StartInitialized, StartMedia, StartInstall
    <3>3. /\ [Own EXCEPT !.peripheral = TRUE].mode = Own.mode
          /\ [Own EXCEPT !.mediaPresent = TRUE].mode = Own.mode
          /\ [Own EXCEPT !.mediaPresent = TRUE, !.path = TRUE].mode = Own.mode
      BY <3>1 DEF Private
    <3> QED
      BY <2>1, <3>2, <3>3, BecomesValue DEF Mode, Own
  <2>3. StartClaims'
    <3> HIDE DEF ProtocolOf
    <3>1. ProtocolOf(Mode)' = ProtocolOf(Mode)
      BY <2>2
    <3> QED
      BY <2>1, <3>1 DEF ClaimInv, StartClaims
  <2> QED
    BY <2>1, <2>3 DEF ClaimInv, ClaimsServeAChild
<1>5. CASE StartLink
  <2>1. /\ InStart /\ pc = "link" /\ protocolOpened
        /\ UNCHANGED <<opened, self, before, protocolOpened, priv>>
        /\ self \in children \ abandoned
        /\ \/ UNCHANGED <<children, abandoned>> /\ ~InStart'
           \/ pc' = "exit" /\ children' = children \ {self} /\ UNCHANGED abandoned
           \/ pc' = "exit" /\ abandoned' = abandoned \union {self} /\ UNCHANGED children
    BY <1>5 DEF StartLink, InStart, Handles, ClaimInv
  <2>2. StartClaims'
    <3> HIDE DEF ProtocolOf
    <3>1. ProtocolOf(Mode)' = ProtocolOf(Mode)
      BY <2>1 DEF Mode, Own
    <3> QED
      BY <2>1, <3>1 DEF ClaimInv, StartClaims
  <2> QED
    BY <2>1, <2>2 DEF ClaimInv, ClaimsServeAChild
<1>6. CASE StartExit
  <2>1. opened' = before /\ ~InStart' /\ UNCHANGED <<children, abandoned>>
    BY <1>6 DEF StartExit, ExitCloses, ClaimInv, StartClaims, InStart
  <2>2. before # {} => children \ abandoned # {}
    BY <1>6 DEF StartExit, ClaimInv, InStart
  <2> QED
    BY <2>1, <2>2 DEF ClaimInv, ClaimsServeAChild
<1>7. ASSUME NEW i \in Inst, StopChild(i) PROVE ClaimInv'
  BY <1>7 DEF StopChild, ClaimInv, ClaimsServeAChild, InStart, Control
<1>8. CASE \/ \E i \in Inst : SdCardMediaReset(i)
           \/ \E buffer \in SUBSET Inst : StopBegin(buffer)
  BY <1>8 DEF SdCardMediaReset, StopBegin, ClaimInv, ClaimsServeAChild,
     InStart, Control
<1>9. CASE ResetReturn
  BY <1>9 DEF ResetReturn, ClaimInv, ClaimsServeAChild, InStart, Handles
<1>10. CASE StopNoChildren \/ StopFinish
  BY <1>10 DEF StopNoChildren, StopFinish, ClaimInv, ClaimsServeAChild,
     InStart, Control
<1>11. CASE Environment \/ UNCHANGED vars
  <2>1. UNCHANGED <<opened, priv, children, abandoned, self, pc, caller,
                    protocolOpened, before>>
    BY <1>11 DEF Environment, ProducerInstalls, ProducerUninstalls,
       ForeignOpens, ForeignCloses, vars, modeVars
  <2>2. StartClaims' <=> StartClaims
    BY <2>1 DEF StartClaims, Mode, Own
  <2> QED
    BY <2>1, <2>2 DEF ClaimInv, ClaimsServeAChild, InStart
<1> QED
  BY <1>1, <1>2, <1>3, <1>4, <1>5, <1>6, <1>7, <1>8, <1>9, <1>10, <1>11
  DEF Next, CallStep, Call

\* Everything proved so far about the reachable states.
Safe == TypeOK /\ Control /\ Handles /\ Memory /\ ClaimInv

LEMMA InitSafe == Init => Safe
  BY InitType DEF Init, Safe, Control, Handles, Memory, NoLeak, HeapMatches, Count,
     NoPrivate, InStart, InMode, Own, TypeOK, ClaimInv, ClaimsServeAChild

LEMMA NextSafe == Safe /\ [Next]_vars => Safe'
  BY NextType, NextControl, NextHandles, NextMemory, NextClaims DEF Safe

(* A Start that fails, at whatever point and after whatever fallbacks,     *)
(* leaves the driver holding exactly what it held when Start was called.   *)
THEOREM FailureRestores == Spec => FailedStartRestores
<1>1. Safe /\ StartExit => opened' = before
  BY DEF Safe, ClaimInv, StartClaims, StartExit, ExitCloses, InStart
<1> QED
  BY <1>1, InitSafe, NextSafe, PTL DEF Spec, FailedStartRestores

(* Between calls the driver claims the controller only while it manages a  *)
(* child.                                                                  *)
THEOREM NoIdleClaims == Spec => []ClaimsServeAChild
<1>1. Safe => ClaimsServeAChild
  BY DEF Safe, ClaimInv
<1> QED
  BY <1>1, InitSafe, NextSafe, PTL DEF Spec

-----------------------------------------------------------------------------
(* What is published is ready.                                             *)

LEMMA AttachedKept ==
  ASSUME self \in Inst, PointersKept, UNCHANGED <<self, opened>>
  PROVE  (Attached' <=> Attached) /\ Mode' = Mode
<1>1. /\ priv'[self].mode = priv[self].mode
      /\ priv'[self].peripheral = priv[self].peripheral
  BY DEF PointersKept, SamePointers
<1>2. Mode' = Mode
  BY <1>1 DEF Mode, Own
<1>3. Own.peripheral' = Own.peripheral
  BY <1>1 DEF Own
<1>4. ProtocolOf(Mode)' = ProtocolOf(Mode)
  BY <1>2
<1> QED
  BY <1>2, <1>3, <1>4 DEF Attached

LEMMA ModeStepReady ==
  ASSUME TypeOK, Control, Memory, ClaimInv, ReadyInv, InStart, ModeStep,
         UNCHANGED dxeVars
  PROVE  ReadyInv'
<1>0. Own \in Private /\ self \in Inst
  BY OwnType DEF TypeOK
<1>a. priv \in [Inst -> Private] /\ Own = priv[self]
  BY DEF TypeOK, Own
<1>b. InMode /\ InMode' /\ UNCHANGED <<self, caller>> /\ InStart'
  BY DEF ModeStep, InitializeDetect, InitializeMode, InitializeIdentify,
     InitializeResume, FallbackRefused, FallbackToSpi,
     FallbackToHostUnavailable, FallbackToHost, InMode, InStart
<1>1. CASE QuietStep
  <2>1. Mode' = Mode /\ (Attached' <=> Attached)
    BY <1>0, <1>b, <1>1, AttachedKept, QuietStepPointers
  <2>2. CASE InitializeDetect
    BY <1>b, <2>1, <2>2 DEF InitializeDetect, ReadyInv, InMode,
       PublishedIsReady
  <2>3. CASE InitializeMode
    <3>1. /\ pc = "modeInit" /\ pc' \in {"identify", "fallback"}
          /\ pc' = "fallback" => status' # "SUCCESS"
      BY <2>3 DEF InitializeMode
    <3> QED
      BY <1>b, <2>1, <3>1 DEF ReadyInv, InMode, PublishedIsReady
  <2>4. CASE InitializeIdentify
    <3>1. /\ pc = "identify" /\ pc' = "return"
          /\ status' = "SUCCESS" =>
               Becomes(Identified(Own)) /\ Own.csd = "good"
      BY <2>4 DEF InitializeIdentify, CsdAccepted
    <3>2. Identified(Own).initialized /\ Identified(Own).csd = Own.csd
      BY <1>0 DEF Identified, Private
    <3>3. status' = "SUCCESS" => Own.initialized' /\ (Own.csd)' = "good"
      BY <1>b, <3>1, <3>2, BecomesValue DEF Own
    <3> QED
      BY <1>b, <2>1, <3>1, <3>3 DEF ReadyInv, InMode, PublishedIsReady
  <2>5. CASE InitializeResume
    BY <1>b, <2>1, <2>5 DEF InitializeResume, ReadyInv, InMode,
       PublishedIsReady
  <2>6. CASE FallbackRefused \/ FallbackToHostUnavailable
    BY <1>b, <2>1, <2>6 DEF FallbackRefused, FallbackToHostUnavailable,
       ReadyInv, InMode, PublishedIsReady
  <2> QED
    BY <1>1, <2>2, <2>3, <2>4, <2>5, <2>6 DEF QuietStep
<1>2. CASE FallbackToSpi
  <2> DEFINE q(b, c) == [Own EXCEPT !.spi = b, !.mmc = c]
             r == [Own EXCEPT !.spi = TRUE, !.peripheral = TRUE, !.mode = "SPI"]
             t == [Own EXCEPT !.spi = TRUE, !.peripheral = FALSE]
  <2>1. /\ pc = "fallback" /\ Mode = "HOST" /\ status \in FallbackStatuses
        /\ \/ pc' = "return" /\ UNCHANGED status /\ \E b, c : Becomes(q(b, c))
           \/ /\ pc' = "detect" /\ opened' = Closed("MMC") \union {"SPI"}
              /\ Becomes(r)
           \/ pc' = "return" /\ status' = "OUT_OF_RESOURCES" /\ Becomes(t)
    BY <1>2 DEF FallbackToSpi
  <2>2. /\ \A b, c : q(b, c).mode = Own.mode
        /\ t.mode = Own.mode /\ r.mode = "SPI" /\ r.peripheral
    BY <1>0 DEF Private
  <2> HIDE DEF q, r, t
  <2>3. \A p : Becomes(p) => Own' = p
    BY <1>b, BecomesValue DEF Own
  <2>4. CASE pc' = "return" /\ status' # "SUCCESS" /\ Mode' = "HOST"
    BY <1>b, <2>4 DEF ReadyInv, PublishedIsReady
  <2>5. CASE pc' = "detect" /\ "SPI" \in opened' /\ Mode' = "SPI"
             /\ (Own.peripheral)'
    BY <1>b, <2>5 DEF ReadyInv, PublishedIsReady, Attached
  <2> QED
    BY <2>1, <2>2, <2>3, <2>4, <2>5 DEF Mode
<1>3. CASE FallbackToHost
  <2> DEFINE q(b, m) == [Own EXCEPT !.peripheral = FALSE, !.mmc = b, !.mode = m]
  <2>1. /\ pc = "fallback" /\ Mode = "SPI" /\ status \in FallbackStatuses
        /\ UNCHANGED status
        /\ \E st, b, m :
             /\ Becomes(q(b, m))
             /\ m = IF st = "SUCCESS" THEN "HOST" ELSE Own.mode
             /\ opened' = IF st = "SUCCESS" THEN Closed("SPI") \union {"MMC"}
                                            ELSE Closed("SPI")
             /\ pc' = IF st = "SUCCESS" THEN "detect" ELSE "return"
    BY <1>3 DEF FallbackToHost
  <2>2. \A b, m : q(b, m).mode = m /\ ~q(b, m).peripheral
    BY <1>0 DEF Private
  <2> HIDE DEF q
  <2>3. \A p : Becomes(p) => Own' = p
    BY <1>b, BecomesValue DEF Own
  <2>4. CASE pc' = "return" /\ status' # "SUCCESS" /\ Mode' = "SPI"
    BY <1>b, <2>4 DEF ReadyInv, PublishedIsReady
  <2>5. CASE pc' = "detect" /\ "MMC" \in opened' /\ Mode' = "HOST"
             /\ ~(Own.peripheral)'
    BY <1>b, <2>5 DEF ReadyInv, PublishedIsReady, Attached
  <2> QED
    BY <2>1, <2>2, <2>3, <2>4, <2>5 DEF Mode
<1> QED
  BY <1>1, <1>2, <1>3 DEF ModeStep, QuietStep

LEMMA StartStepReady ==
  ASSUME TypeOK, Control, Memory, ClaimInv, ReadyInv,
         \/ StartOpen \/ StartPeripheral \/ StartInitialized \/ StartMedia
         \/ StartInstall \/ StartLink \/ StartExit
  PROVE  ReadyInv'
<1>0. Own \in Private /\ self \in Inst
  BY OwnType DEF TypeOK
<1>a. UNCHANGED self /\ InStart
  BY DEF StartOpen, StartPeripheral, StartInitialized, StartMedia,
     StartInstall, StartLink, StartExit, InStart
<1>b. \A p : Becomes(p) => Own' = p
  BY <1>a, BecomesValue DEF Own
<1> USE DEF dxeVars
<1>1. CASE StartOpen
  <2> DEFINE q(b, c) == [Own EXCEPT !.mmc = b, !.spi = c]
  <2>1. /\ pc = "open"
        /\ \E st, b, c :
             /\ opened' = IF st = "SUCCESS"
                          THEN opened \union {ProtocolOf(Mode)} ELSE opened
             /\ pc' = IF st # "SUCCESS" THEN "exit"
                      ELSE IF Mode = "HOST" THEN "detect" ELSE "peripheral"
             /\ Becomes(q(b, c))
    BY <1>1 DEF StartOpen
  <2>2. /\ \A b, c : q(b, c).mode = Own.mode
        /\ \A b, c : q(b, c).peripheral = Own.peripheral
    BY <1>0 DEF Private
  <2> HIDE DEF q
  <2>3. Mode' = Mode /\ (Own.peripheral)' = Own.peripheral
    BY <1>b, <2>1, <2>2 DEF Mode
  <2>4. ~Own.peripheral /\ Mode \in {"HOST", "SPI"}
    BY <1>0, <1>a, <2>1 DEF Memory, ReadyInv, Private, Mode
  <2>5. CASE pc' = "exit"
    BY <2>3, <2>4, <2>5 DEF ReadyInv, PublishedIsReady
  <2>6. CASE pc' = "detect" /\ Mode = "HOST" /\ "MMC" \in opened'
    BY <2>3, <2>4, <2>6 DEF ReadyInv, PublishedIsReady, Attached
  <2>7. CASE pc' = "peripheral" /\ Mode = "SPI" /\ "SPI" \in opened'
    BY <2>3, <2>4, <2>7 DEF ReadyInv, PublishedIsReady
  <2> QED
    BY <2>1, <2>4, <2>5, <2>6, <2>7
<1>2. CASE StartPeripheral
  <2> DEFINE q == [Own EXCEPT !.peripheral = TRUE]
  <2>1. /\ pc = "peripheral" /\ UNCHANGED opened
        /\ \/ pc' = "detect" /\ Becomes(q)
           \/ pc' = "exit" /\ UNCHANGED priv
    BY <1>2 DEF StartPeripheral
  <2>2. q.mode = Own.mode /\ q.peripheral
    BY <1>0 DEF Private
  <2> HIDE DEF q
  <2>3. Mode' = Mode /\ (pc' = "detect" => (Own.peripheral)')
    BY <1>a, <1>b, <2>1, <2>2 DEF Mode, Own
  <2> QED
    BY <1>a, <2>1, <2>3 DEF ReadyInv, PublishedIsReady, Attached
<1>3. CASE StartInitialized
  BY <1>3, <1>a DEF StartInitialized, ReadyInv, PublishedIsReady, Attached,
     Own, Mode
<1>4. CASE StartMedia
  <2> DEFINE q == [Own EXCEPT !.mediaPresent = TRUE]
             r == [Own EXCEPT !.mediaPresent = TRUE, !.path = TRUE]
  <2>1. /\ pc = "media" /\ pc' \in {"install", "exit"} /\ UNCHANGED opened
        /\ Becomes(q) \/ Becomes(r)
    BY <1>4 DEF StartMedia
  <2>2. /\ q.mode = Own.mode /\ q.peripheral = Own.peripheral
        /\ q.initialized = Own.initialized /\ q.csd = Own.csd
        /\ r.mode = Own.mode /\ r.peripheral = Own.peripheral
        /\ r.initialized = Own.initialized /\ r.csd = Own.csd
    BY <1>0 DEF Private
  <2> HIDE DEF q, r
  <2>3. /\ (Own.mode)' = Own.mode /\ (Own.peripheral)' = Own.peripheral
        /\ (Own.initialized)' = Own.initialized /\ (Own.csd)' = Own.csd
    BY <1>b, <2>1, <2>2
  <2> QED
    BY <1>a, <2>1, <2>3 DEF ReadyInv, PublishedIsReady, Mode
<1>5. CASE StartInstall \/ StartLink
  BY <1>5, <1>a DEF StartInstall, StartLink, InStart, ReadyInv,
     PublishedIsReady, Own, Mode
<1>6. CASE StartExit
  BY <1>6 DEF StartExit, InStart, ReadyInv, PublishedIsReady
<1> QED
  BY <1>1, <1>2, <1>3, <1>4, <1>5, <1>6

LEMMA NextReady ==
  ASSUME Safe, ReadyInv, [Next]_vars
  PROVE  ReadyInv'
<1> USE DEF Safe, database, dxeVars
<1>1. CASE ModeStep /\ UNCHANGED dxeVars
  <2>1. CASE InStart
    BY <1>1, <2>1, ModeStepReady
  <2>2. CASE ~InStart
    <3>1. InMode' /\ ~InStart'
      BY <1>1, <2>2 DEF ModeStep, InitializeDetect, InitializeMode,
         InitializeIdentify, InitializeResume, FallbackRefused, FallbackToSpi,
         FallbackToHostUnavailable, FallbackToHost, InMode, InStart
    <3>2. pc' = "fallback" => status' # "SUCCESS"
      BY <1>1 DEF ModeStep, InitializeDetect, InitializeMode,
         InitializeIdentify, InitializeResume, FallbackRefused, FallbackToSpi,
         FallbackToHostUnavailable, FallbackToHost
    <3> QED
      BY <3>1, <3>2 DEF ReadyInv, PublishedIsReady, InMode
  <2> QED
    BY <2>1, <2>2
<1>2. ASSUME NEW i \in Inst, StartProbe(i) PROVE ReadyInv'
  <2>1. pc' = "open" /\ self' = i /\ SdCardProbeMode # "UNKNOWN"
    BY <1>2 DEF StartProbe
  <2>2. priv'[i].mode = SdCardProbeMode
    BY <1>2 DEF StartProbe, NoPrivate, TypeOK
  <2> QED
    BY <2>1, <2>2 DEF ReadyInv, PublishedIsReady, Mode, Own
<1>3. CASE \/ StartOpen \/ StartPeripheral \/ StartInitialized \/ StartMedia
           \/ StartInstall \/ StartLink \/ StartExit
  BY <1>3, StartStepReady
<1>4. CASE \/ \E i \in Inst : SdCardMediaReset(i) \/ StopChild(i)
           \/ \E buffer \in SUBSET Inst : StopBegin(buffer)
           \/ ResetReturn \/ StopNoChildren \/ StopFinish
  <2>1. pc' \in {"idle", "stop", "detect"} /\ ~InStart'
    BY <1>4 DEF SdCardMediaReset, StopBegin, StopChild, ResetReturn,
       StopNoChildren, StopFinish, InStart, Control
  <2> QED
    BY <2>1 DEF ReadyInv, PublishedIsReady
<1>5. CASE Environment
  BY <1>5 DEF Environment, ProducerInstalls, ProducerUninstalls,
     ForeignOpens, ForeignCloses, ReadyInv, PublishedIsReady, InStart, Control
<1>6. CASE UNCHANGED vars
  BY <1>6 DEF vars, modeVars, ReadyInv, PublishedIsReady, InStart, Attached,
     Own, Mode
<1> QED
  BY <1>1, <1>2, <1>3, <1>4, <1>5, <1>6 DEF Next, CallStep, Call

LEMMA InitReady == Init => ReadyInv
  BY DEF Init, ReadyInv, PublishedIsReady, InStart

(* Start publishes a child only for an initialized card with an accepted   *)
(* CSD, in a mode whose protocol it holds, whatever fallbacks came before. *)
THEOREM OnlyReadyIsPublished == Spec => []PublishedIsReady
<1> DEFINE Inv == Safe /\ ReadyInv
<1>1. Init => Inv
  BY InitSafe, InitReady
<1>2. Inv /\ [Next]_vars => Inv'
  BY NextSafe, NextReady
<1>3. Inv => PublishedIsReady
  BY DEF ReadyInv
<1> QED
  BY <1>1, <1>2, <1>3, PTL DEF Spec

-----------------------------------------------------------------------------
(* The driver implements the contract of a bus driver.                     *)

CONTRACT == [Contract!Next]_<<Claims, Managed, abandoned>>

\* Initialization and fallback during Start are invisible.
LEMMA ModeStepContract ==
  ASSUME TypeOK, Control, Handles, Memory, ModeStep, UNCHANGED dxeVars
  PROVE  CONTRACT
<1>0. /\ InMode /\ InMode' /\ UNCHANGED <<self, caller, children, abandoned, before>>
      /\ self \in Inst
  BY DEF ModeStep, InitializeDetect, InitializeMode, InitializeIdentify,
     InitializeResume, FallbackRefused, FallbackToSpi,
     FallbackToHostUnavailable, FallbackToHost, InMode, dxeVars, TypeOK
<1>1. Managed' = Managed
  BY <1>0 DEF Managed, InMode
<1>2. CASE InStart
  <2>1. InStart'
    BY <1>0, <1>2 DEF InStart, InMode
  <2> QED
    BY <1>0, <1>1, <1>2, <2>1 DEF CONTRACT, Claims
<1>3. CASE ~InStart
  <2>1. ~InStart' /\ caller = "Reset"
    BY <1>0, <1>3 DEF InStart, InMode, Control, TypeOK
  <2>2. Claims = opened /\ Claims' = opened'
    BY <1>3, <2>1 DEF Claims
  <2>3. Managed # {}
    BY <1>0, <2>1 DEF Managed, Handles, InMode
  <2>4. CASE QuietStep
    BY <1>0, <1>1, <2>2, <2>4, QuietStepPointers DEF CONTRACT
  <2>5. CASE FallbackToSpi \/ FallbackToHost
    <3>1. PICK p \in Protocols, q \in Protocols :
            \/ opened' = opened
            \/ opened' = opened \ {p}
            \/ opened' = (opened \ {p}) \union {q}
      <4>1. CASE FallbackHandle
        <5>1. \A p : Closed(p) = opened \ {p}
          BY <4>1 DEF Closed
        <5> QED
          BY <2>5, <5>1 DEF FallbackToSpi, FallbackToHost
      <4>2. CASE ~FallbackHandle
        <5>1. \A p : Closed(p) = opened
          BY <4>2 DEF Closed
        <5>2. \A held, p : OpenStatuses(FallbackHandle, held, p)
                            = {"INVALID_PARAMETER"}
          BY <4>2 DEF OpenStatuses
        <5> QED
          BY <2>5, <5>1, <5>2, <4>2 DEF FallbackToSpi, FallbackToHost
      <4> QED
        BY <4>1, <4>2
    <3>2. CASE opened' = opened
      BY <1>0, <1>1, <2>2, <3>2 DEF CONTRACT
    <3>3. CASE opened' # opened
      BY <1>0, <1>1, <2>2, <2>3, <3>1, <3>3
      DEF CONTRACT, Contract!Next, Contract!Trade
    <3> QED
      BY <3>2, <3>3
  <2> QED
    BY <2>4, <2>5 DEF ModeStep, QuietStep
<1> QED
  BY <1>2, <1>3

(* Start is atomic for the contract: it happens when the child is linked,  *)
(* the one new claim being that of the mode the card ended in.  A Start    *)
(* that cannot take its child back leaves a stray at that moment.          *)
LEMMA StartStepContract ==
  ASSUME Safe, ReadyInv,
         \/ \E i \in Inst : StartProbe(i)
         \/ StartOpen \/ StartPeripheral \/ StartInitialized \/ StartMedia
         \/ StartInstall \/ StartLink \/ StartExit
  PROVE  CONTRACT
<1> USE DEF Safe, database, dxeVars
<1>0. self \in Inst
  BY DEF TypeOK
<1>1. CASE \E i \in Inst : StartProbe(i)
  <2>1. /\ ~InStart /\ InStart' /\ before' = opened
        /\ UNCHANGED <<children, abandoned>> /\ pc = "idle" /\ pc' = "open"
    BY <1>1 DEF StartProbe, InStart, Control
  <2> QED
    BY <2>1 DEF CONTRACT, Claims, Managed
<1>2. CASE StartOpen \/ StartPeripheral \/ StartInitialized \/ StartMedia
           \/ StartInstall
  <2>1. /\ InStart /\ InStart' /\ UNCHANGED <<before, self, abandoned>>
        /\ pc \notin {"link", "exit"}
        /\ \/ UNCHANGED children /\ pc' # "link"
           \/ children' = children \union {self} /\ pc' = "link"
    BY <1>2 DEF StartOpen, StartPeripheral, StartInitialized, StartMedia,
       StartInstall, InStart, Control
  <2>2. self \notin children
    BY <2>1 DEF Handles
  <2>3. Managed' = Managed
    BY <2>1, <2>2 DEF Managed
  <2> QED
    BY <2>1, <2>3 DEF CONTRACT, Claims
<1>3. CASE StartLink
  <2>1. /\ InStart /\ pc = "link" /\ protocolOpened
        /\ UNCHANGED <<opened, before, self>>
        /\ self \in children \ abandoned
    BY <1>3 DEF StartLink, InStart, Handles, ClaimInv
  <2>2. CASE children' = children \ {self} /\ pc' = "exit" /\ UNCHANGED abandoned
    BY <2>1, <2>2 DEF CONTRACT, Claims, Managed, InStart
  <2>4. CASE /\ abandoned' = abandoned \union {self} /\ pc' = "exit"
             /\ UNCHANGED children
    <3>1. /\ Claims = before /\ Claims' = before
          /\ Managed = (children \ {self}) \ abandoned /\ Managed' = Managed
      BY <2>1, <2>4 DEF Claims, Managed, InStart
    <3>2. Contract!StartLeavesStray(self)
      BY <2>1, <2>4, <3>1 DEF Contract!StartLeavesStray
    <3> QED
      BY <1>0, <3>2 DEF CONTRACT, Contract!Next
  <2>3. CASE UNCHANGED <<children, abandoned>> /\ ~InStart' /\ pc' = "idle"
    <3>1. opened = before \union {ProtocolOf(Mode)}
      BY <2>1 DEF ClaimInv, StartClaims, ReadyInv, PublishedIsReady
    <3>2. ProtocolOf(Mode) \in Protocols \ before
      BY <2>1 DEF ClaimInv, StartClaims
    <3>3. /\ Claims = before /\ Claims' = opened
          /\ Managed = (children \ {self}) \ abandoned
          /\ Managed' = children \ abandoned
      BY <2>1, <2>3 DEF Claims, Managed
    <3>4. Contract!Start(self)
      BY <1>0, <2>1, <2>3, <3>1, <3>2, <3>3 DEF Contract!Start
    <3> QED
      BY <1>0, <3>4 DEF CONTRACT, Contract!Next
  <2> QED
    BY <1>3, <2>2, <2>3, <2>4 DEF StartLink, InStart
<1>4. CASE StartExit
  <2>1. /\ InStart /\ ~InStart' /\ opened' = before
        /\ UNCHANGED <<children, abandoned>> /\ pc = "exit" /\ pc' = "idle"
    BY <1>4 DEF StartExit, ExitCloses, InStart, ClaimInv, StartClaims
  <2> QED
    BY <2>1 DEF CONTRACT, Claims, Managed
<1> QED
  BY <1>1, <1>2, <1>3, <1>4

LEMMA OtherStepContract ==
  ASSUME Safe,
         \/ \E i \in Inst : SdCardMediaReset(i) \/ StopChild(i)
         \/ ResetReturn \/ StopNoChildren \/ StopFinish
         \/ \E buffer \in SUBSET Inst : StopBegin(buffer)
         \/ Environment
         \/ UNCHANGED vars
  PROVE  CONTRACT
<1> USE DEF Safe, database, dxeVars, vars, modeVars
<1>1. CASE \/ \E i \in Inst : SdCardMediaReset(i)
           \/ ResetReturn
           \/ \E buffer \in SUBSET Inst : StopBegin(buffer)
           \/ Environment
           \/ UNCHANGED vars
  <2>1. CASE \/ \E i \in Inst : SdCardMediaReset(i)
             \/ ResetReturn
             \/ \E buffer \in SUBSET Inst : StopBegin(buffer)
    <3>1. /\ UNCHANGED <<opened, children, abandoned>>
          /\ ~InStart /\ ~InStart' /\ pc # "link" /\ pc' # "link"
      BY <2>1 DEF SdCardMediaReset, ResetReturn, StopBegin, InStart, Control
    <3> QED
      BY <3>1 DEF CONTRACT, Claims, Managed
  <2>2. CASE Environment \/ UNCHANGED vars
    <3>1. UNCHANGED <<opened, before, children, abandoned, self, pc, caller>>
      BY <2>2 DEF Environment, ProducerInstalls, ProducerUninstalls,
         ForeignOpens, ForeignCloses
    <3> QED
      BY <3>1 DEF CONTRACT, Claims, Managed, InStart
  <2> QED
    BY <1>1, <2>1, <2>2
<1>2. CASE StopNoChildren \/ StopFinish
  <2>1. /\ ~InStart /\ ~InStart' /\ opened' = {} /\ UNCHANGED <<children, abandoned>>
        /\ pc # "link" /\ pc' # "link"
    BY <1>2 DEF StopNoChildren, StopFinish, InStart, Control
  <2>2. Contract!Release
    BY <2>1 DEF Contract!Release, Claims, Managed
  <2> QED
    BY <2>2 DEF CONTRACT, Contract!Next
<1>3. ASSUME NEW i \in Inst, StopChild(i) PROVE CONTRACT
  <2>0. <<ProtocolOf(priv[i].mode), i>> \in linked => i \in children \ abandoned
    BY DEF Handles, ProtocolOf, Protocols
  <2>1. /\ ~InStart /\ ~InStart' /\ UNCHANGED <<opened, abandoned>>
        /\ pc # "link" /\ pc' # "link"
        /\ \/ UNCHANGED children
           \/ i \in children \ abandoned /\ children' = children \ {i}
    BY <1>3, <2>0 DEF StopChild, InStart, Control
  <2>2. /\ Claims' = Claims
        /\ Managed = children \ abandoned /\ Managed' = children' \ abandoned
    BY <2>1 DEF Claims, Managed
  <2>3. CASE UNCHANGED children
    BY <2>1, <2>2, <2>3 DEF CONTRACT
  <2>4. CASE i \in children \ abandoned /\ children' = children \ {i}
    <3>1. Contract!StopChild(i)
      BY <2>1, <2>2, <2>4 DEF Contract!StopChild
    <3> QED
      BY <3>1 DEF CONTRACT, Contract!Next
  <2> QED
    BY <2>1, <2>3, <2>4
<1> QED
  BY <1>1, <1>2, <1>3

(* Start, Stop and Reset, with their fallbacks and all their failures,     *)
(* refine the abstract bus driver, which may leave a stray child behind    *)
(* when a Start fails, and in no other way.                                *)
THEOREM DriverBindingRefined == Spec => ImplementsDriverBinding
<1> DEFINE Inv == Safe /\ ReadyInv
<1>1. Init => Inv
  BY InitSafe, InitReady
<1>2. Inv /\ [Next]_vars => Inv'
  BY NextSafe, NextReady
<1>3. Init => Contract!Init
  BY DEF Init, Contract!Init, Claims, Managed, InStart
<1>4. Inv /\ [Next]_vars => [Contract!Next]_<<Claims, Managed, abandoned>>
  <2> SUFFICES ASSUME Inv, [Next]_vars PROVE CONTRACT
    BY DEF CONTRACT
  <2>1. CASE ModeStep /\ UNCHANGED dxeVars
    BY <2>1, ModeStepContract DEF Safe
  <2>2. CASE \/ \E i \in Inst : StartProbe(i)
             \/ StartOpen \/ StartPeripheral \/ StartInitialized
             \/ StartMedia \/ StartInstall \/ StartLink \/ StartExit
    BY <2>2, StartStepContract
  <2> QED
    BY <2>1, <2>2, OtherStepContract DEF Next, CallStep, Call
<1> QED
  BY <1>1, <1>2, <1>3, <1>4, PTL
  DEF Spec, ImplementsDriverBinding, Contract!Spec

-----------------------------------------------------------------------------
(* The driver as it is built: no recorded CSD, no recorded handle.         *)

\* Only mode initialization can change a CSD, and only a fallback a mode.
CsdKept(p, q)  == ~RecordsCsd => p.csd \in {q.csd, "zero"}
ModeKept(p, q) == ~RecordsHandle /\ q.live /\ p.live => p.mode = q.mode

FieldsFixed ==
  \A i \in Inst : CsdKept(priv'[i], priv[i]) /\ ModeKept(priv'[i], priv[i])

LEMMA BecomesFixed ==
  ASSUME TypeOK, NEW p, Becomes(p), CsdKept(p, Own), ModeKept(p, Own)
  PROVE  FieldsFixed
  BY BecomesValue DEF FieldsFixed, CsdKept, ModeKept, Own

LEMMA OwnUpdatesFixed ==
  ASSUME NEW p \in Private, NEW a, NEW b, NEW c
  PROVE  /\ CsdKept([p EXCEPT !.mediaPresent = a], p)
         /\ CsdKept([p EXCEPT !.mediaPresent = a, !.path = b], p)
         /\ CsdKept([p EXCEPT !.peripheral = a], p)
         /\ CsdKept([p EXCEPT !.mmc = a, !.spi = b], p)
         /\ CsdKept([p EXCEPT !.spi = a, !.mmc = b], p)
         /\ CsdKept([p EXCEPT !.spi = a, !.peripheral = b], p)
         /\ CsdKept([p EXCEPT !.spi = a, !.peripheral = b, !.mode = c], p)
         /\ CsdKept([p EXCEPT !.peripheral = a, !.mmc = b, !.mode = c], p)
         /\ CsdKept(Identified(p), p)
         /\ CsdKept(NoPrivate, p)
         /\ ModeKept([p EXCEPT !.mediaPresent = a], p)
         /\ ModeKept([p EXCEPT !.mediaPresent = a, !.path = b], p)
         /\ ModeKept([p EXCEPT !.peripheral = a], p)
         /\ ModeKept([p EXCEPT !.mmc = a, !.spi = b], p)
         /\ ModeKept([p EXCEPT !.spi = a, !.mmc = b], p)
         /\ ModeKept([p EXCEPT !.spi = a, !.peripheral = b], p)
         /\ ModeKept([p EXCEPT !.csd = a, !.initialized = b,
                               !.mediaPresent = c], p)
         /\ ModeKept(Identified(p), p)
         /\ ModeKept(NoPrivate, p)
  BY DEF CsdKept, ModeKept, Private, Identified, NoPrivate

LEMMA ModeStepFixed ==
  ASSUME TypeOK, ModeStep
  PROVE  FieldsFixed
<1>0. Own \in Private
  BY OwnType
<1>1. CASE UNCHANGED priv
  BY <1>1 DEF FieldsFixed, CsdKept, ModeKept
<1>2. CASE InitializeDetect \/ InitializeIdentify \/ InitializeResume
           \/ FallbackRefused \/ FallbackToHostUnavailable
  <2>1. \/ UNCHANGED priv
        \/ Becomes([Own EXCEPT !.mediaPresent = FALSE])
        \/ Becomes(Identified(Own))
    BY <1>2 DEF InitializeDetect, InitializeIdentify, InitializeResume,
       FallbackRefused, FallbackToHostUnavailable
  <2>2. CASE Becomes([Own EXCEPT !.mediaPresent = FALSE])
    BY <1>0, <2>2, BecomesFixed, OwnUpdatesFixed
  <2>3. CASE Becomes(Identified(Own))
    BY <1>0, <2>3, BecomesFixed, OwnUpdatesFixed
  <2> QED
    BY <1>1, <2>1, <2>2, <2>3
<1>3. CASE InitializeMode
  <2>1. PICK c, n, m :
          /\ Becomes([Own EXCEPT !.csd = c, !.initialized = n,
                                 !.mediaPresent = m])
          /\ ~RecordsCsd => c = Own.csd
    BY <1>3 DEF InitializeMode, CsdRead
  <2> DEFINE q == [Own EXCEPT !.csd = c, !.initialized = n, !.mediaPresent = m]
  <2>2. q.csd = c
    BY <1>0 DEF Private
  <2>3. CsdKept(q, Own)
    BY <2>1, <2>2 DEF CsdKept
  <2>4. ModeKept(q, Own)
    BY <1>0, OwnUpdatesFixed
  <2> QED
    BY <2>1, <2>3, <2>4, BecomesFixed
<1>4. CASE FallbackToSpi
  <2> DEFINE q(b, c) == [Own EXCEPT !.spi = b, !.mmc = c]
             r == [Own EXCEPT !.spi = TRUE, !.peripheral = TRUE, !.mode = "SPI"]
             t == [Own EXCEPT !.spi = TRUE, !.peripheral = FALSE]
  <2>1. \/ \E b, c : Becomes(q(b, c))
        \/ Becomes(r) /\ "SUCCESS" \in OpenStatuses(FallbackHandle,
                                                    Closed("MMC"), "SPI")
        \/ Becomes(t)
    BY <1>4 DEF FallbackToSpi
  <2>2. /\ \A b, c : CsdKept(q(b, c), Own) /\ ModeKept(q(b, c), Own)
        /\ CsdKept(t, Own) /\ ModeKept(t, Own) /\ CsdKept(r, Own)
    BY <1>0, OwnUpdatesFixed
  <2>3. "SUCCESS" \in OpenStatuses(FallbackHandle, Closed("MMC"), "SPI") =>
          ModeKept(r, Own)
    BY DEF OpenStatuses, FallbackHandle, ModeKept
  <2> HIDE DEF q, r, t
  <2> QED
    BY <2>1, <2>2, <2>3, BecomesFixed
<1>5. CASE FallbackToHost
  <2>1. PICK b, m : Becomes([Own EXCEPT !.peripheral = FALSE, !.mmc = b,
                                        !.mode = m])
    BY <1>5 DEF FallbackToHost
  <2>2. RecordsHandle
    BY <1>5 DEF FallbackToHost, FallbackHandle
  <2> DEFINE q == [Own EXCEPT !.peripheral = FALSE, !.mmc = b, !.mode = m]
  <2>3. CsdKept(q, Own) /\ ModeKept(q, Own)
    BY <1>0, <2>2, OwnUpdatesFixed DEF ModeKept
  <2> QED
    BY <2>1, <2>3, BecomesFixed
<1> QED
  BY <1>2, <1>3, <1>4, <1>5 DEF ModeStep

LEMMA NextFixed ==
  ASSUME TypeOK, [Next]_vars
  PROVE  FieldsFixed
<1>0. Own \in Private
  BY OwnType
<1>1. CASE UNCHANGED priv
  BY <1>1 DEF FieldsFixed, CsdKept, ModeKept
<1>2. CASE StartOpen
  <2>1. PICK b, c : Becomes([Own EXCEPT !.mmc = b, !.spi = c])
    BY <1>2 DEF StartOpen
  <2> DEFINE q == [Own EXCEPT !.mmc = b, !.spi = c]
  <2>2. CsdKept(q, Own) /\ ModeKept(q, Own)
    BY <1>0, OwnUpdatesFixed
  <2> QED
    BY <2>1, <2>2, BecomesFixed
<1>3. CASE StartPeripheral \/ StartMedia \/ StartExit
  <2>1. \/ UNCHANGED priv
        \/ Becomes([Own EXCEPT !.peripheral = TRUE])
        \/ Becomes([Own EXCEPT !.mediaPresent = TRUE])
        \/ Becomes([Own EXCEPT !.mediaPresent = TRUE, !.path = TRUE])
        \/ Becomes(NoPrivate)
    BY <1>3 DEF StartPeripheral, StartMedia, StartExit
  <2>2. CASE Becomes([Own EXCEPT !.peripheral = TRUE])
    BY <1>0, <2>2, BecomesFixed, OwnUpdatesFixed
  <2>3. CASE Becomes([Own EXCEPT !.mediaPresent = TRUE])
    BY <1>0, <2>3, BecomesFixed, OwnUpdatesFixed
  <2>4. CASE Becomes([Own EXCEPT !.mediaPresent = TRUE, !.path = TRUE])
    BY <1>0, <2>4, BecomesFixed, OwnUpdatesFixed
  <2>5. CASE Becomes(NoPrivate)
    BY <1>0, <2>5, BecomesFixed, OwnUpdatesFixed
  <2> QED
    BY <1>1, <2>1, <2>2, <2>3, <2>4, <2>5
<1>4. ASSUME NEW i \in Inst, StartProbe(i) PROVE FieldsFixed
  <2>1. /\ ~priv[i].live /\ priv'[i].csd = "zero"
        /\ \A j \in Inst : j # i => priv'[j] = priv[j]
    BY <1>4 DEF StartProbe, TypeOK, NoPrivate
  <2> QED
    BY <2>1 DEF FieldsFixed, CsdKept, ModeKept
<1>5. ASSUME NEW i \in Inst, StopChild(i) PROVE FieldsFixed
  <2>1. \/ UNCHANGED priv
        \/ priv'[i] = NoPrivate /\ \A j \in Inst : j # i => priv'[j] = priv[j]
    BY <1>5 DEF StopChild, TypeOK
  <2>2. NoPrivate.csd = "zero" /\ ~NoPrivate.live
    BY DEF NoPrivate
  <2> QED
    BY <1>1, <2>1, <2>2 DEF FieldsFixed, CsdKept, ModeKept
<1>6. CASE \/ StartInitialized \/ StartInstall \/ StartLink \/ ResetReturn
           \/ StopNoChildren \/ StopFinish \/ Environment
           \/ \E i \in Inst : SdCardMediaReset(i)
           \/ \E buffer \in SUBSET Inst : StopBegin(buffer)
           \/ UNCHANGED vars
  BY <1>1, <1>6 DEF StartInitialized, StartInstall, StartLink, ResetReturn,
     StopNoChildren, StopFinish, Environment, ProducerInstalls,
     ProducerUninstalls, ForeignOpens, ForeignCloses, SdCardMediaReset,
     StopBegin, vars, modeVars
<1> QED
  BY <1>2, <1>3, <1>4, <1>5, <1>6, ModeStepFixed DEF Next, CallStep, Call

(* Without a controller handle to work with, the fallback leaves every     *)
(* card in the mode Start probed for it.                                   *)
THEOREM ModeStaysFixed == Spec => ModeIsFixed
<1>1. TypeOK /\ [Next]_vars =>
        [\A i \in Inst : ~RecordsHandle /\ priv[i].live /\ priv'[i].live =>
           priv'[i].mode = priv[i].mode]_vars
  BY NextFixed DEF FieldsFixed, ModeKept
<1> QED
  BY <1>1, InitType, NextType, PTL DEF Spec, ModeIsFixed

(* ... nor does any structure ever hold a CSD that nothing records.        *)
NoCsd == ~RecordsCsd => children = {} /\ \A i \in Inst : priv[i].csd = "zero"

(* Whatever the two transports, the card and the boot services do, a       *)
(* driver that never records the CSD publishes no child and holds no       *)
(* protocol between calls.                                                 *)
THEOREM NeverPublishes == Spec => []NothingPublishedWithoutCsd
<1> DEFINE Inv == Safe /\ ReadyInv /\ NoCsd
<1>1. Init => Inv
  <2>1. Init => NoCsd
    BY DEF Init, NoCsd, NoPrivate
  <2> QED
    BY <2>1, InitSafe, InitReady
<1>2. Inv /\ [Next]_vars => Inv'
  <2> SUFFICES ASSUME Inv, [Next]_vars PROVE NoCsd'
    BY NextSafe, NextReady
  <2>1. CASE RecordsCsd
    BY <2>1 DEF NoCsd
  <2>2. CASE ~RecordsCsd
    <3>1. \A i \in Inst : priv'[i].csd = "zero"
      BY <2>2, NextFixed DEF Safe, FieldsFixed, CsdKept, NoCsd
    <3>2. ~StartInstall
      BY <2>2 DEF NoCsd, Safe, TypeOK, ReadyInv, PublishedIsReady, Own,
         StartInstall
    <3>3. children' \subseteq children
      <4>1. CASE ModeStep /\ UNCHANGED dxeVars
        BY <4>1 DEF dxeVars
      <4>2. CASE \/ \E i \in Inst : StartProbe(i) \/ SdCardMediaReset(i)
                                     \/ StopChild(i)
                 \/ \E buffer \in SUBSET Inst : StopBegin(buffer)
        BY <4>2 DEF StartProbe, SdCardMediaReset, StopChild, StopBegin, dxeVars
      <4>3. CASE \/ StartOpen \/ StartPeripheral \/ StartInitialized
                 \/ StartMedia \/ StartExit
        BY <4>3 DEF StartOpen, StartPeripheral, StartInitialized, StartMedia,
           StartExit, dxeVars
      <4>5. CASE StartLink
        BY <4>5 DEF StartLink
      <4>4. CASE \/ ResetReturn \/ StopNoChildren \/ StopFinish
                 \/ Environment \/ UNCHANGED vars
        BY <4>4 DEF ResetReturn, StopNoChildren, StopFinish, Environment,
           ProducerInstalls, ProducerUninstalls, ForeignOpens, ForeignCloses,
           vars, dxeVars
      <4> QED
        BY <3>2, <4>1, <4>2, <4>3, <4>4, <4>5 DEF Next, CallStep, Call
    <3> QED
      BY <2>2, <3>1, <3>3 DEF NoCsd
  <2> QED
    BY <2>1, <2>2
<1>3. Inv => NothingPublishedWithoutCsd
  BY DEF Safe, ClaimInv, ClaimsServeAChild, NoCsd, NothingPublishedWithoutCsd
<1> QED
  BY <1>1, <1>2, <1>3, PTL DEF Spec

(* Without a handle a fallback only ever fails, so the activation that     *)
(* asked for it fails too and nothing is retried.                          *)
Shallow ==
  ~RecordsHandle =>
    /\ waiting <= 1
    /\ pc \in {"detect", "modeInit", "identify"} => waiting = 0
    /\ pc = "fallback" => status # "SUCCESS"
    /\ pc = "return" /\ waiting > 0 => status # "SUCCESS"

LEMMA ModeStepShallow ==
  ASSUME TypeOK, Control, Shallow, ModeStep, ~RecordsHandle
  PROVE  Shallow'
<1>0. waiting \in Nat
  BY ConstantsAssumption DEF TypeOK
<1>1. CASE InitializeDetect \/ InitializeIdentify \/ InitializeResume
           \/ FallbackRefused \/ FallbackToHostUnavailable
  BY <1>0, <1>1 DEF InitializeDetect, InitializeIdentify, InitializeResume,
     FallbackRefused, FallbackToHostUnavailable, Shallow
<1>2. CASE InitializeMode
  BY <1>0, <1>2 DEF InitializeMode, Shallow
<1>3. CASE FallbackToSpi
  <2>1. \A held, p : OpenStatuses(FallbackHandle, held, p)
                     = {"INVALID_PARAMETER"}
    BY DEF OpenStatuses, FallbackHandle
  <2>2. pc = "fallback" /\ pc' = "return" /\ UNCHANGED <<status, waiting>>
    BY <1>3, <2>1 DEF FallbackToSpi
  <2> QED
    BY <2>2 DEF Shallow
<1>4. CASE FallbackToHost
  BY <1>4 DEF FallbackToHost, FallbackHandle
<1> QED
  BY <1>1, <1>2, <1>3, <1>4 DEF ModeStep

LEMMA NextShallow ==
  ASSUME TypeOK, Control, Shallow, [Next]_vars
  PROVE  Shallow'
<1> USE DEF database, dxeVars
<1>1. CASE RecordsHandle
  BY <1>1 DEF Shallow
<1>2. CASE ~RecordsHandle /\ ModeStep
  BY <1>2, ModeStepShallow
<1>3. CASE ~RecordsHandle /\ ~ModeStep
  <2>1. CASE StartInitialized
    BY <2>1 DEF StartInitialized, Shallow
  <2>2. CASE ~StartInitialized
    <3>1. pc' \notin {"return", "fallback"} \/ UNCHANGED <<pc, status>>
      BY <1>3, <2>2 DEF Next, CallStep, Call, StartOpen, StartPeripheral,
         StartMedia, StartInstall, StartLink, StartExit, ResetReturn,
         StopChild, StopFinish, StartProbe, SdCardMediaReset, StopNoChildren,
         StopBegin, Environment, ProducerInstalls, ProducerUninstalls,
         ForeignOpens, ForeignCloses, vars, modeVars
    <3>2. UNCHANGED waiting
      BY <1>3, <2>2 DEF Next, CallStep, Call, StartOpen, StartPeripheral,
         StartMedia, StartInstall, StartLink, StartExit, ResetReturn,
         StopChild, StopFinish, StartProbe, SdCardMediaReset, StopNoChildren,
         StopBegin, Environment, ProducerInstalls, ProducerUninstalls,
         ForeignOpens, ForeignCloses, vars, modeVars
    <3>3. pc' \in {"detect", "modeInit", "identify"} =>
            UNCHANGED pc \/ pc \in {"idle", "open", "peripheral"}
      BY <1>3, <2>2 DEF Next, CallStep, Call, StartOpen, StartPeripheral,
         StartMedia, StartInstall, StartLink, StartExit, ResetReturn,
         StopChild, StopFinish, StartProbe, SdCardMediaReset, StopNoChildren,
         StopBegin, Environment, ProducerInstalls, ProducerUninstalls,
         ForeignOpens, ForeignCloses, vars, modeVars
    <3> QED
      BY <3>1, <3>2, <3>3 DEF Shallow, Control, InMode
  <2> QED
    BY <2>1, <2>2
<1> QED
  BY <1>1, <1>2, <1>3

(* The mutual recursion of SdCardInitialize and its fallback is never      *)
(* entered more than once by a driver that does not record its handle.     *)
THEOREM RecursionIsShallow == Spec => []NoRecursionWithoutHandle
<1> DEFINE Inv == TypeOK /\ Control /\ Shallow
<1>1. Init => Inv
  BY InitType DEF Init, Control, InMode, Shallow
<1>2. Inv /\ [Next]_vars => Inv'
  BY NextType, NextControl, NextShallow
<1>3. Inv => NoRecursionWithoutHandle
  BY DEF Shallow, NoRecursionWithoutHandle
<1> QED
  BY <1>1, <1>2, <1>3, PTL DEF Spec
=============================================================================
