------------------------------ MODULE SdCardDxe ------------------------------
(***************************************************************************)
(* The driver binding protocol of the SD card driver on one controller     *)
(* handle (SdCardDxe.c): Start, Stop, and Reset of the Block I/O protocol  *)
(* it produces, with the environment that the handle database makes        *)
(* visible: protocols that come and go, other drivers that claim them, and *)
(* the DXE core that connects and disconnects the controller.              *)
(*                                                                         *)
(* Boot-time drivers run on one thread: while a call is in progress        *)
(* (pc # "idle") only that call takes steps.                               *)
(***************************************************************************)
EXTENDS SdCardMode

VARIABLES
  children,        \* structures whose Block I/O is installed on a child handle
  linked,          \* <<protocol, child>> opened BY_CHILD_CONTROLLER
  protocolOpened,  \* Start's local ProtocolOpened
  todo,            \* Stop: children not handled yet
  stopping,        \* Stop: ChildHandleBuffer
  allStopped,      \* Stop: AllChildrenStopped
  before,          \* history: what this driver held when Start was called
  abandoned        \* history: children a failed Start could not uninstall

dxeVars  == <<children, linked, protocolOpened, todo, stopping, allStopped,
              before, abandoned>>
vars     == <<modeVars, dxeVars>>

Init ==
  /\ installed \in SUBSET Protocols /\ foreign = {} /\ opened = {}
  /\ priv = [i \in Inst |-> NoPrivate]
  /\ heap = [i \in Inst |-> [b \in Blocks |-> 0]]
  /\ pc = "idle" /\ self \in Inst
  /\ caller = "none" /\ waiting = 0 /\ status = "SUCCESS"
  /\ children = {} /\ linked = {} /\ protocolOpened = FALSE
  /\ todo = {} /\ stopping = {} /\ allStopped = TRUE /\ before = {}
  /\ abandoned = {}

-----------------------------------------------------------------------------
(* Start                                                                   *)

SdCardProbeMode ==
  IF SpiOnly                    THEN "SPI"
  ELSE IF "MMC" \in installed   THEN "HOST"
  ELSE IF "SPI" \in installed   THEN "SPI"
  ELSE "UNKNOWN"

(* A controller without either protocol is not supported; nor does Start   *)
(* leave anything behind when the private structure cannot be allocated.   *)
(* The structure is a new one, not that of a child handle still around.    *)
StartProbe(i) ==
  /\ pc = "idle" /\ ~priv[i].live /\ i \notin children
  /\ SdCardProbeMode # "UNKNOWN"
  /\ priv' = [priv EXCEPT ![i] =
       [NoPrivate EXCEPT !.live = TRUE, !.mode = SdCardProbeMode]]
  /\ Allocate(i, "private")
  /\ pc' = "open" /\ self' = i
  /\ protocolOpened' = FALSE /\ before' = opened
  /\ UNCHANGED <<database, opened, caller, waiting, status, children, linked,
                 todo, stopping, allStopped, abandoned>>

StartOpen ==
  /\ pc = "open"
  /\ \E st \in OpenStatuses(TRUE, opened, ProtocolOf(Mode)) :
       /\ status' = st
       /\ protocolOpened' = (st = "SUCCESS")
       /\ opened' = IF st = "SUCCESS"
                    THEN opened \union {ProtocolOf(Mode)} ELSE opened
       /\ Becomes([Own EXCEPT
            !.mmc = IF Mode = "HOST" THEN Interface(@, st) ELSE @,
            !.spi = IF Mode = "SPI"  THEN Interface(@, st) ELSE @])
       /\ pc' = IF st # "SUCCESS"     THEN "exit"
                ELSE IF Mode = "HOST" THEN "detect" ELSE "peripheral"
  /\ caller' = "Start"
  /\ UNCHANGED <<database, heap, self, waiting, children, linked, todo,
                 stopping, allStopped, before, abandoned>>

StartPeripheral ==
  /\ pc = "peripheral"
  /\ \E works \in Works :
       IF works
       THEN /\ Becomes([Own EXCEPT !.peripheral = TRUE])
            /\ Allocate(self, "peripheral")
            /\ pc' = "detect"
            /\ UNCHANGED status
       ELSE /\ status' = "OUT_OF_RESOURCES"
            /\ pc' = "exit"
            /\ UNCHANGED <<priv, heap>>
  /\ UNCHANGED <<database, opened, self, caller, waiting, dxeVars>>

\* Mutant: Start asks for a fallback as long as initialization fails.
NeverTried == FALSE

FallbackTried == caller = "StartFallback"

(* SdCardInitialize came back: on failure Start asks for a fallback once   *)
(* more, on top of those SdCardInitialize already tried.                   *)
StartInitialized ==
  /\ pc = "return" /\ waiting = 0
  /\ caller \in {"Start", "StartFallback"}
  /\ \/ /\ status = "SUCCESS"
        /\ pc' = "media"
        /\ UNCHANGED caller
     \/ /\ status # "SUCCESS" /\ ~FallbackTried
        /\ pc' = "fallback" /\ caller' = "StartFallback"
     \/ /\ status # "SUCCESS" /\ FallbackTried
        /\ pc' = "exit"
        /\ UNCHANGED caller
  /\ UNCHANGED <<database, opened, priv, heap, self, waiting, status, dxeVars>>

(* Fill in Block I/O, get the parent's device path, append this driver's   *)
(* node to a copy of it.                                                   *)
StartMedia ==
  /\ pc = "media"
  /\ \E parent \in Works, copy \in Works :
       \/ /\ parent /\ copy
          /\ Becomes([Own EXCEPT !.mediaPresent = TRUE, !.path = TRUE])
          /\ Allocate(self, "path")
          /\ pc' = "install"
          /\ UNCHANGED status
       \/ /\ ~(parent /\ copy)
          /\ Becomes([Own EXCEPT !.mediaPresent = TRUE])
          /\ status' = IF parent THEN "OUT_OF_RESOURCES" ELSE "UNSUPPORTED"
          /\ pc' = "exit"
          /\ UNCHANGED heap
  /\ UNCHANGED <<database, opened, self, caller, waiting, dxeVars>>

StartInstall ==
  /\ pc = "install"
  /\ \E works \in Works :
       IF works
       THEN /\ children' = children \union {self}
            /\ pc' = "link"
            /\ UNCHANGED status
       ELSE /\ status' = "OUT_OF_RESOURCES"
            /\ pc' = "exit"
            /\ UNCHANGED children
  /\ UNCHANGED <<database, opened, priv, heap, self, caller, waiting, linked,
                 protocolOpened, todo, stopping, allStopped, before, abandoned>>

(* Open BY_CHILD_CONTROLLER the protocol of the mode the card is in now;   *)
(* on a failure Start uninstalls the child's protocols, which a consumer   *)
(* that opened Block I/O meanwhile prevents, does not look whether that    *)
(* succeeded, and goes on to free the structure they are in.               *)
StartLink ==
  /\ pc = "link"
  /\ \/ /\ ProtocolOf(Mode) \in installed
        /\ linked' = linked \union {<<ProtocolOf(Mode), self>>}
        /\ status' = "SUCCESS"
        /\ pc' = "idle" /\ caller' = "none"
        /\ UNCHANGED <<children, abandoned>>
     \/ /\ ProtocolOf(Mode) \notin installed \/ Faulty
        /\ \E gone \in Works :
             IF gone
             THEN children' = children \ {self} /\ UNCHANGED abandoned
             ELSE abandoned' = abandoned \union {self} /\ UNCHANGED children
        /\ status' = IF ProtocolOf(Mode) \in installed
                     THEN "OUT_OF_RESOURCES" ELSE "UNSUPPORTED"
        /\ pc' = "exit"
        /\ UNCHANGED <<linked, caller>>
  /\ UNCHANGED <<database, opened, priv, heap, self, waiting, protocolOpened,
                 todo, stopping, allStopped, before>>

\* Mutants: the SPI peripheral, or the device path, is not freed.
FreedButPeripheral(i) ==
  [heap EXCEPT ![i]["private"] = @ - 1,
               ![i]["path"] = IF priv[i].path THEN @ - 1 ELSE @]
FreedButPath(i) ==
  [heap EXCEPT ![i]["private"] = @ - 1,
               ![i]["peripheral"] = IF priv[i].peripheral THEN @ - 1 ELSE @]

\* The pool blocks left once the structure of i and what it points to is freed.
Freed(i) ==
  [heap EXCEPT ![i]["private"] = @ - 1,
               ![i]["peripheral"] = IF priv[i].peripheral THEN @ - 1 ELSE @,
               ![i]["path"] = IF priv[i].path THEN @ - 1 ELSE @]

\* Mutants: the exit closes the protocol of the mode Start probed, or closes
\* one although it could not be opened.
ExitClosesProbed ==
  IF protocolOpened THEN opened \ {ProtocolOf(SdCardProbeMode)} ELSE opened
ExitClosesAlways == opened \ {ProtocolOf(Mode)}

\* The common error exit closes the protocol of the current mode.
ExitCloses ==
  IF protocolOpened THEN opened \ {ProtocolOf(Mode)} ELSE opened

StartExit ==
  /\ pc = "exit"
  /\ opened' = ExitCloses
  /\ heap' = Freed(self)
  /\ Becomes(NoPrivate)
  /\ pc' = "idle" /\ caller' = "none"
  /\ UNCHANGED <<database, self, waiting, status, dxeVars>>

-----------------------------------------------------------------------------
(* Block I/O Reset with extended verification.  A call on an abandoned     *)
(* child would work on freed memory: what it does is undefined, and the    *)
(* model makes no such call.                                               *)

SdCardMediaReset(i) ==
  /\ pc = "idle" /\ i \in children \ abandoned /\ priv[i].mediaPresent
  /\ pc' = "detect" /\ self' = i /\ caller' = "Reset"
  /\ UNCHANGED <<database, opened, priv, heap, waiting, status, dxeVars>>

ResetReturn ==
  /\ pc = "return" /\ waiting = 0 /\ caller = "Reset"
  /\ pc' = "idle" /\ caller' = "none"
  /\ UNCHANGED <<database, opened, priv, heap, self, waiting, status, dxeVars>>

-----------------------------------------------------------------------------
(* Stop, as DisconnectController calls it: only on a controller the driver *)
(* holds a protocol of BY_DRIVER, and with the children it finds linked.   *)

LinkedChildren == {i \in Inst : \E p \in Protocols : <<p, i>> \in linked}

StopNoChildren ==
  /\ pc = "idle" /\ opened # {} /\ LinkedChildren = {}
  /\ opened' = {}
  /\ status' = "SUCCESS"
  /\ UNCHANGED <<database, priv, heap, pc, self, caller, waiting, dxeVars>>

StopBegin(buffer) ==
  /\ pc = "idle" /\ opened # {}
  /\ buffer # {} /\ buffer \subseteq LinkedChildren
  /\ pc' = "stop"
  /\ todo' = buffer /\ stopping' = buffer /\ allStopped' = TRUE
  /\ UNCHANGED <<database, opened, priv, heap, self, caller, waiting, status,
                 children, linked, protocolOpened, before, abandoned>>

(* One child: close its BY_CHILD_CONTROLLER open on the protocol of its    *)
(* current mode, then uninstall its protocols, which a consumer that keeps *)
(* Block I/O open prevents.  The attempt to open BY_CHILD_CONTROLLER again *)
(* passes no place for the interface and is refused.                       *)
StopChild(i) ==
  LET link == <<ProtocolOf(priv[i].mode), i>>
  IN
  /\ pc = "stop" /\ i \in todo
  /\ todo' = todo \ {i}
  /\ \/ /\ i \notin children \/ link \notin linked
        /\ allStopped' = FALSE
        /\ UNCHANGED <<linked, children, priv, heap>>
     \/ /\ i \in children /\ link \in linked /\ FALSE \in Works
        /\ linked' = linked \ {link}
        /\ allStopped' = FALSE
        /\ UNCHANGED <<children, priv, heap>>
     \/ /\ i \in children /\ link \in linked
        /\ linked' = linked \ {link}
        /\ children' = children \ {i}
        /\ heap' = Freed(i)
        /\ priv' = [priv EXCEPT ![i] = NoPrivate]
        /\ UNCHANGED allStopped
  /\ UNCHANGED <<database, opened, pc, self, caller, waiting, status,
                 protocolOpened, stopping, before, abandoned>>

StopFinish ==
  /\ pc = "stop" /\ todo = {}
  /\ opened' = {}
  /\ status' = IF allStopped THEN "SUCCESS" ELSE "DEVICE_ERROR"
  /\ pc' = "idle"
  /\ UNCHANGED <<database, priv, heap, self, caller, waiting, dxeVars>>

-----------------------------------------------------------------------------
(* Environment: it moves between calls.  A protocol is removed only when   *)
(* nobody holds it.                                                        *)

Connectable(p) == p \notin opened /\ \A i \in Inst : <<p, i>> \notin linked

ProducerInstalls(p) ==
  /\ pc = "idle" /\ p \notin installed
  /\ installed' = installed \union {p}
  /\ UNCHANGED <<foreign, opened, priv, heap, pc, self, caller, waiting,
                 status, dxeVars>>

ProducerUninstalls(p) ==
  /\ pc = "idle" /\ p \in installed \ foreign /\ Connectable(p)
  /\ installed' = installed \ {p}
  /\ UNCHANGED <<foreign, opened, priv, heap, pc, self, caller, waiting,
                 status, dxeVars>>

ForeignOpens(p) ==
  /\ pc = "idle" /\ p \in installed \ foreign /\ p \notin opened
  /\ foreign' = foreign \union {p}
  /\ UNCHANGED <<installed, opened, priv, heap, pc, self, caller, waiting,
                 status, dxeVars>>

ForeignCloses(p) ==
  /\ pc = "idle" /\ p \in foreign
  /\ foreign' = foreign \ {p}
  /\ UNCHANGED <<installed, opened, priv, heap, pc, self, caller, waiting,
                 status, dxeVars>>

-----------------------------------------------------------------------------
\* The steps of a call in progress.
CallStep ==
  \/ ModeStep /\ UNCHANGED dxeVars
  \/ StartOpen \/ StartPeripheral \/ StartInitialized \/ StartMedia
  \/ StartInstall \/ StartLink \/ StartExit
  \/ ResetReturn
  \/ \E i \in Inst : StopChild(i)
  \/ StopFinish

\* The calls the DXE core and the consumers of Block I/O make.
Call ==
  \/ \E i \in Inst : StartProbe(i) \/ SdCardMediaReset(i)
  \/ StopNoChildren
  \/ \E buffer \in SUBSET Inst : StopBegin(buffer)

Environment ==
  \E p \in Protocols :
    ProducerInstalls(p) \/ ProducerUninstalls(p) \/
    ForeignOpens(p) \/ ForeignCloses(p)

Next == CallStep \/ Call \/ Environment

Spec == Init /\ [][Next]_vars

(* A call in progress owns the processor, so it keeps taking steps; nobody *)
(* is obliged to call the driver.                                          *)
FairSpec == Spec /\ WF_vars(CallStep)

-----------------------------------------------------------------------------
(* Properties                                                              *)

PCs == {"idle", "open", "peripheral", "detect", "modeInit", "identify",
        "return", "fallback", "media", "install", "link", "exit", "stop"}
Callers == {"none", "Start", "StartFallback", "Reset"}

\* Every variable has its type.
TypeOK ==
  /\ installed \subseteq Protocols /\ foreign \subseteq Protocols
  /\ opened \subseteq Protocols /\ before \subseteq Protocols
  /\ priv \in [Inst -> Private] /\ heap \in [Inst -> [Blocks -> Int]]
  /\ pc \in PCs /\ self \in Inst /\ caller \in Callers
  /\ waiting \in 0 .. MaxWaiting /\ status \in Statuses
  /\ children \subseteq Inst /\ linked \subseteq Protocols \X Inst
  /\ protocolOpened \in BOOLEAN /\ allStopped \in BOOLEAN
  /\ todo \subseteq Inst /\ stopping \subseteq Inst /\ abandoned \subseteq Inst

\* The pool blocks a structure reaches are exactly those allocated for it.
Count(b) == IF b THEN 1 ELSE 0
HeapMatches(i) ==
  /\ heap[i]["private"]    = Count(priv[i].live)
  /\ heap[i]["peripheral"] = Count(priv[i].peripheral)
  /\ heap[i]["path"]       = Count(priv[i].path)

\* The points of a call to Start.
InStart == pc \in {"open", "peripheral", "media", "install", "link", "exit"}
           \/ caller \in {"Start", "StartFallback"}

(* Nothing is leaked or freed twice, however the fallbacks of Start and    *)
(* Reset nest and wherever Start or Stop give up: the blocks allocated for *)
(* a structure are those it points to, and a structure lives exactly while *)
(* Start builds it or while its child handle exists.  The one exception is *)
(* the child that a failing Start could not uninstall: its structure is    *)
(* freed although the handle stays (ChildrenAreBacked).                    *)
NoLeak ==
  \A i \in Inst :
    /\ HeapMatches(i)
    /\ priv[i].live <=> (i \in children \ abandoned \/ (InStart /\ i = self))

(* A failed Start leaves this driver's claims on the controller as it      *)
(* found them: it closes what it opened even when a fallback changed the   *)
(* mode in between, and never what an earlier, successful Start still      *)
(* holds.                                                                  *)
FailedStartRestores == [][StartExit => opened' = before]_vars

(* A child handle is published only for an initialized card whose CSD was  *)
(* accepted and in a mode whose protocol the driver holds, whichever mode  *)
(* the fallbacks ended in.                                                 *)
PublishedIsReady ==
  pc \in {"media", "install", "link"} =>
    /\ Own.initialized /\ Own.csd = "good"
    /\ ProtocolOf(Mode) \in opened
    /\ Mode = "SPI" <=> Own.peripheral

(* The driver holds a protocol between calls only if it manages a child,   *)
(* one it has not abandoned: no controller stays claimed, out of reach of  *)
(* other drivers, by a driver that serves nothing on it.                   *)
ClaimsServeAChild == pc = "idle" /\ opened # {} => children \ abandoned # {}

(* Media reported present has been initialized from an accepted CSD.       *)
PresentIsInitialized ==
  pc = "idle" =>
    \A i \in children : priv[i].mediaPresent =>
      priv[i].initialized /\ priv[i].csd = "good"

(* Stop reports success only if every child it was given is gone, with its *)
(* memory and its link to the controller.                                  *)
StopIsComplete ==
  [][StopFinish /\ status' = "SUCCESS" =>
       /\ stopping \intersect (children \union LinkedChildren) = {}
       /\ \A i \in stopping, b \in Blocks : heap[i][b] = 0]_vars

(* The driver as the driver model sees it: a Start in progress has not     *)
(* happened yet.                                                           *)
Claims  == IF InStart THEN before ELSE opened
Managed == (IF pc = "link" THEN children \ {self} ELSE children) \ abandoned

Contract ==
  INSTANCE DriverBinding
  WITH claims <- Claims, managed <- Managed, strays <- abandoned

(* Start, Stop and Reset together keep the contract of a bus driver, as    *)
(* far as this one does: a child that a failing Start could not uninstall  *)
(* stays behind, and is nobody's from then on.                             *)
ImplementsDriverBinding == Contract!Spec

(* As long as the fallback has no controller handle to work with it never  *)
(* switches the mode, so at most one SdCardInitialize waits for it: the    *)
(* mutual recursion of the two functions is not exercised.                 *)
NoRecursionWithoutHandle == ~RecordsHandle => waiting <= 1

(* ... and a card stays in the mode Start probed for it.                   *)
ModeIsFixed ==
  [][\A i \in Inst : ~RecordsHandle /\ priv[i].live /\ priv'[i].live =>
       priv'[i].mode = priv[i].mode]_vars

(* Without a recorded CSD no call to Start gets past identification: the   *)
(* driver never produces a Block I/O handle and never keeps a protocol.    *)
NothingPublishedWithoutCsd ==
  ~RecordsCsd => children = {} /\ (pc = "idle" => opened = {})

\* How many steps a call has left, at most: first in SdCardInitialize and its
\* fallback, on the way down the recursion or back up, then in all.
InitializeLeft ==
  CASE pc = "fallback" -> 5 * MaxWaiting - 3 * waiting + 5
    [] pc = "detect"   -> 5 * MaxWaiting - 3 * waiting + 4
    [] pc = "modeInit" -> 5 * MaxWaiting - 3 * waiting + 3
    [] pc = "identify" -> 2 * waiting + 1
    [] pc = "return"   -> 2 * waiting

StepsLeft ==
  CASE pc = "idle"       -> 0
    [] pc = "stop"       -> Cardinality(todo) + 1
    [] pc = "exit"       -> 1
    [] pc = "link"       -> 2
    [] pc = "install"    -> 3
    [] pc = "media"      -> 4
    [] pc = "peripheral" -> 10 * MaxWaiting + 16
    [] pc = "open"       -> 10 * MaxWaiting + 17
    [] OTHER -> InitializeLeft + (IF caller = "Start" THEN 5 * MaxWaiting + 11 ELSE 5)

(* The depth of the mutual recursion is all that can make a call long:     *)
(* once an initialization has failed or succeeded no activation tries the  *)
(* other mode again, Start asks for one more fallback only, and Stop takes *)
(* each child once.  Each step of a call brings it closer to its end.      *)
CallsAreBounded ==
  [][IF pc = "idle"
     THEN StepsLeft' \in {0, 5 * MaxWaiting + 9, 10 * MaxWaiting + 17,
                          Cardinality(stopping') + 1}
     ELSE StepsLeft' \in 0 .. StepsLeft - 1]_vars

\* Every call into the driver returns.
CallsReturn == pc # "idle" ~> pc = "idle"

-----------------------------------------------------------------------------
(* What the comments of the code promise and the code does not do          *)

(* SdCardDxe.c:355 and 369: "Clean up the protocols we just installed" and *)
(* "Centralized cleanup logic": between calls a published child handle has *)
(* its structure, also after a Start that failed.                          *)
ChildrenAreBacked == pc = "idle" => \A i \in children : priv[i].live

(* README.md:2 and SdCardMedia.c:466: a card behind a working MMC host or  *)
(* SPI bus is detected.                                                    *)
CardIsDetected == ~Faulty => ~(pc = "return" /\ status = "NO_MEDIA")
=============================================================================
