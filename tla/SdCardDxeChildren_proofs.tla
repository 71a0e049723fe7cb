---------------------- MODULE SdCardDxeChildren_proofs ----------------------
(***************************************************************************)
(* More proofs about the driver binding: what a child handle reports, what *)
(* Stop leaves of it, and how long a call may take.  They build on the     *)
(* invariants that SdCardDxe_proofs establishes.                           *)
(***************************************************************************)
EXTENDS SdCardDxe_proofs, FiniteSetTheorems

Reached == Safe /\ ReadyInv

LEMMA InitReached == Init => Reached
  BY InitSafe, InitReady DEF Reached

LEMMA NextReached == Reached /\ [Next]_vars => Reached'
  BY NextSafe, NextReady DEF Reached

-----------------------------------------------------------------------------
(* Media present is media initialized.                                     *)

(* In host mode an initialization replaces the CSD of media that is still  *)
(* reported present, until the identification that follows decides on it.  *)
Backed(p, identifying) ==
  p.mediaPresent => p.initialized /\ (p.csd = "good" \/ identifying)

PresentInv == \A i \in Inst : Backed(priv[i], pc = "identify" /\ i = self)

LEMMA PresentKept ==
  ASSUME PresentInv, UNCHANGED priv, pc # "identify"
  PROVE  PresentInv'
  BY DEF PresentInv, Backed

LEMMA PresentBecomes ==
  ASSUME TypeOK, PresentInv, NEW p, Becomes(p), UNCHANGED self,
         Backed(p, pc' = "identify")
  PROVE  PresentInv'
<1>1. priv'[self] = p /\ \A i \in Inst : i # self => priv'[i] = priv[i]
  BY BecomesValue
<1> SUFFICES ASSUME NEW i \in Inst PROVE Backed(priv[i], pc = "identify" /\ i = self)'
  BY DEF PresentInv
<1>2. CASE i = self
  BY <1>1, <1>2 DEF Backed
<1>3. CASE i # self
  BY <1>1, <1>3 DEF PresentInv, Backed
<1> QED
  BY <1>2, <1>3

\* The updates that leave what media is reported on alone, or take it back.
LEMMA UpdatesBacked ==
  ASSUME NEW p \in Private, NEW a, NEW b, NEW c, NEW k
  PROVE  /\ Backed([p EXCEPT !.mediaPresent = FALSE], k)
         /\ Backed(NoPrivate, k)
         /\ Backed(p, FALSE) => /\ Backed([p EXCEPT !.peripheral = a], k)
                                /\ Backed([p EXCEPT !.mmc = a, !.spi = b], k)
                                /\ Backed([p EXCEPT !.spi = a, !.mmc = b], k)
                                /\ Backed([p EXCEPT !.spi = a, !.peripheral = b], k)
                                /\ Backed([p EXCEPT !.spi = a, !.peripheral = b, !.mode = c], k)
                                /\ Backed([p EXCEPT !.peripheral = a, !.mmc = b, !.mode = c], k)
         /\ p.csd = "good" => Backed(Identified(p), k)
         /\ p.initialized /\ p.csd = "good" =>
              /\ Backed([p EXCEPT !.mediaPresent = TRUE], k)
              /\ Backed([p EXCEPT !.mediaPresent = TRUE, !.path = a], k)
  BY DEF Backed, Private, Identified, NoPrivate

LEMMA ModeStepPresent ==
  ASSUME TypeOK, PresentInv, ModeStep
  PROVE  PresentInv'
<1>0. Own \in Private /\ self \in Inst
  BY OwnType DEF TypeOK
<1>1. pc # "identify" => Backed(Own, FALSE)
  BY <1>0 DEF PresentInv, Backed, Own
<1>2. CASE InitializeDetect \/ InitializeResume \/ FallbackRefused
           \/ FallbackToHostUnavailable
  <2>1. /\ pc # "identify" /\ UNCHANGED self
        /\ UNCHANGED priv \/ Becomes([Own EXCEPT !.mediaPresent = FALSE])
    BY <1>2 DEF InitializeDetect, InitializeResume, FallbackRefused,
       FallbackToHostUnavailable
  <2> QED
    BY <1>0, <2>1, PresentKept, PresentBecomes, UpdatesBacked
<1>3. CASE InitializeIdentify
  <2>1. /\ UNCHANGED self
        /\ \/ Own.csd = "good" /\ Becomes(Identified(Own))
           \/ Becomes([Own EXCEPT !.mediaPresent = FALSE])
    BY <1>3 DEF InitializeIdentify, CsdAccepted
  <2> QED
    BY <1>0, <2>1, PresentBecomes, UpdatesBacked
<1>4. CASE InitializeMode
  <2>1. PICK c, n, m :
          /\ Becomes([Own EXCEPT !.csd = c, !.initialized = n, !.mediaPresent = m])
          /\ c = Own.csd \/ pc' = "identify"
          /\ \/ n = FALSE /\ m = FALSE
             \/ n = Own.initialized /\ m = Own.mediaPresent
          /\ pc = "modeInit" /\ UNCHANGED self
    BY <1>4 DEF InitializeMode
  <2> DEFINE q == [Own EXCEPT !.csd = c, !.initialized = n, !.mediaPresent = m]
  <2>2. q.csd = c /\ q.initialized = n /\ q.mediaPresent = m
    BY <1>0 DEF Private
  <2>3. Backed(q, pc' = "identify")
    BY <1>1, <2>1, <2>2 DEF Backed
  <2> HIDE DEF q
  <2>4. Becomes(q) /\ UNCHANGED self
    BY <2>1 DEF q
  <2> QED
    BY <2>3, <2>4, PresentBecomes
<1>5. CASE FallbackToSpi \/ FallbackToHost
  <2>1. /\ pc = "fallback" /\ UNCHANGED self
        /\ \/ \E b, c : Becomes([Own EXCEPT !.spi = b, !.mmc = c])
           \/ \E b, c, m : Becomes([Own EXCEPT !.spi = b, !.peripheral = c, !.mode = m])
           \/ \E b, c : Becomes([Own EXCEPT !.spi = b, !.peripheral = c])
           \/ \E b, c, m : Becomes([Own EXCEPT !.peripheral = b, !.mmc = c, !.mode = m])
    BY <1>5 DEF FallbackToSpi, FallbackToHost
  <2>2. Backed(Own, FALSE)
    BY <1>1, <2>1
  <2> DEFINE k == pc' = "identify"
  <2>3. ASSUME NEW q, Becomes(q), Backed(q, k) PROVE PresentInv'
    BY <2>1, <2>3, PresentBecomes
  <2> HIDE DEF k
  <2>4. ASSUME NEW b, NEW c, Becomes([Own EXCEPT !.spi = b, !.mmc = c]) PROVE PresentInv'
    BY <1>0, <2>2, <2>3, <2>4, UpdatesBacked
  <2>5. ASSUME NEW b, NEW c, NEW m,
               Becomes([Own EXCEPT !.spi = b, !.peripheral = c, !.mode = m])
        PROVE  PresentInv'
    BY <1>0, <2>2, <2>3, <2>5, UpdatesBacked
  <2>6. ASSUME NEW b, NEW c, Becomes([Own EXCEPT !.spi = b, !.peripheral = c])
        PROVE  PresentInv'
    BY <1>0, <2>2, <2>3, <2>6, UpdatesBacked
  <2>7. ASSUME NEW b, NEW c, NEW m,
               Becomes([Own EXCEPT !.peripheral = b, !.mmc = c, !.mode = m])
        PROVE  PresentInv'
    BY <1>0, <2>2, <2>3, <2>7, UpdatesBacked
  <2> QED
    BY <2>1, <2>4, <2>5, <2>6, <2>7
<1> QED
  BY <1>2, <1>3, <1>4, <1>5 DEF ModeStep

LEMMA NextPresent ==
  ASSUME TypeOK, ReadyInv, PresentInv, [Next]_vars
  PROVE  PresentInv'
<1>0. Own \in Private /\ self \in Inst
  BY OwnType DEF TypeOK
<1>1. pc # "identify" => Backed(Own, FALSE)
  BY <1>0 DEF PresentInv, Backed, Own
<1>2. CASE StartOpen
  <2>1. PICK b, c : Becomes([Own EXCEPT !.mmc = b, !.spi = c])
    BY <1>2 DEF StartOpen
  <2>2. pc # "identify" /\ UNCHANGED self
    BY <1>2 DEF StartOpen
  <2> QED
    BY <1>0, <1>1, <2>1, <2>2, PresentBecomes, UpdatesBacked
<1>3. CASE StartPeripheral \/ StartExit
  <2>1. /\ pc # "identify" /\ UNCHANGED self
        /\ \/ UNCHANGED priv
           \/ Becomes([Own EXCEPT !.peripheral = TRUE])
           \/ Becomes(NoPrivate)
    BY <1>3 DEF StartPeripheral, StartExit
  <2> QED
    BY <1>0, <1>1, <2>1, PresentKept, PresentBecomes, UpdatesBacked
<1>4. CASE StartMedia
  <2>1. /\ UNCHANGED self /\ Own.initialized /\ Own.csd = "good"
        /\ \/ Becomes([Own EXCEPT !.mediaPresent = TRUE, !.path = TRUE])
           \/ Becomes([Own EXCEPT !.mediaPresent = TRUE])
    BY <1>4 DEF StartMedia, ReadyInv, PublishedIsReady
  <2> QED
    BY <1>0, <2>1, PresentBecomes, UpdatesBacked
<1>5. ASSUME NEW i \in Inst, StartProbe(i) PROVE PresentInv'
  <2>1. /\ pc = "idle" /\ ~priv'[i].mediaPresent
        /\ \A j \in Inst : j # i => priv'[j] = priv[j]
    BY <1>5 DEF StartProbe, TypeOK, NoPrivate
  <2> QED
    BY <2>1 DEF PresentInv, Backed
<1>6. ASSUME NEW i \in Inst, StopChild(i) PROVE PresentInv'
  <2>1. /\ pc = "stop"
        /\ \/ UNCHANGED priv
           \/ priv'[i] = NoPrivate /\ \A j \in Inst : j # i => priv'[j] = priv[j]
    BY <1>6 DEF StopChild, TypeOK
  <2>2. ~NoPrivate.mediaPresent
    BY DEF NoPrivate
  <2> QED
    BY <2>1, <2>2 DEF PresentInv, Backed
<1>7. CASE \/ StartInitialized \/ StartInstall \/ StartLink \/ ResetReturn
           \/ StopNoChildren \/ StopFinish \/ Environment
           \/ \E i \in Inst : SdCardMediaReset(i)
           \/ \E buffer \in SUBSET Inst : StopBegin(buffer)
  <2>1. UNCHANGED priv /\ pc # "identify"
    BY <1>7 DEF StartInitialized, StartInstall, StartLink, ResetReturn,
       StopNoChildren, StopFinish, Environment, ProducerInstalls,
       ProducerUninstalls, ForeignOpens, ForeignCloses, SdCardMediaReset, StopBegin
  <2> QED
    BY <2>1, PresentKept
<1>8. CASE UNCHANGED vars
  BY <1>8 DEF vars, modeVars, PresentInv, Backed
<1> QED
  BY <1>2, <1>3, <1>4, <1>5, <1>6, <1>7, <1>8, ModeStepPresent DEF Next, CallStep, Call

(* Between calls, a child that reports media was initialized from an       *)
(* accepted CSD, also when a Reset in host mode failed half-way.           *)
THEOREM PresentInitialized == Spec => []PresentIsInitialized
<1> DEFINE Inv == Reached /\ PresentInv
<1>1. Init => Inv
  <2>1. Init => PresentInv
    BY DEF Init, PresentInv, Backed, NoPrivate
  <2> QED
    BY <2>1, InitReached
<1>2. Inv /\ [Next]_vars => Inv'
  BY NextReached, NextPresent DEF Reached, Safe
<1>3. Inv => PresentIsInitialized
  BY DEF PresentInv, Backed, PresentIsInitialized, Reached, Safe, TypeOK
<1> QED
  BY <1>1, <1>2, <1>3, PTL DEF Spec

-----------------------------------------------------------------------------
(* What Stop leaves.                                                       *)

\* While all went well, Stop has left nothing of the children it handled.
StopInv ==
  pc = "stop" /\ allStopped =>
    \A i \in stopping \ todo : i \notin children /\ \A b \in Blocks : heap[i][b] = 0

LEMMA NextStop ==
  ASSUME Safe, StopInv, [Next]_vars
  PROVE  StopInv'
<1>0. TypeOK /\ Handles /\ Memory
  BY DEF Safe
<1>1. ASSUME NEW i \in Inst, StopChild(i) PROVE StopInv'
  <2>1. /\ pc = "stop" /\ todo' = todo \ {i} /\ i \in todo /\ UNCHANGED stopping
        /\ \/ allStopped' = FALSE
           \/ /\ i \in children \ abandoned /\ children' = children \ {i}
              /\ heap' = Freed(i) /\ UNCHANGED allStopped
    BY <1>0, <1>1 DEF StopChild, Handles, ProtocolOf, Protocols
  <2>2. CASE /\ i \in children \ abandoned /\ children' = children \ {i}
             /\ heap' = Freed(i) /\ UNCHANGED allStopped
    <3>1. HeapMatches(i) /\ priv[i].live
      BY <1>0, <2>2 DEF Memory, NoLeak
    <3>2. /\ \A b \in Blocks : heap'[i][b] = 0
          /\ \A j \in Inst : j # i => heap'[j] = heap[j]
      BY <1>0, <2>2, <3>1, FreedValue
    <3> QED
      BY <1>0, <2>1, <2>2, <3>2 DEF StopInv, TypeOK
  <2> QED
    BY <2>1, <2>2 DEF StopInv
<1>2. CASE \E buffer \in SUBSET Inst : StopBegin(buffer)
  BY <1>2 DEF StopBegin, StopInv
<1>3. CASE \/ ModeStep /\ UNCHANGED dxeVars
           \/ StartOpen \/ StartPeripheral \/ StartInitialized \/ StartMedia
           \/ StartInstall \/ StartLink \/ StartExit
  <2>1. pc' # "stop"
    BY <1>3 DEF ModeStep, InitializeDetect, InitializeMode, InitializeIdentify,
       InitializeResume, FallbackRefused, FallbackToSpi, FallbackToHostUnavailable,
       FallbackToHost, StartOpen, StartPeripheral, StartInitialized, StartMedia,
       StartInstall, StartLink, StartExit
  <2> QED
    BY <2>1 DEF StopInv
<1>4. CASE \/ ResetReturn \/ StopNoChildren \/ StopFinish \/ Environment
           \/ \E i \in Inst : StartProbe(i) \/ SdCardMediaReset(i)
  <2>1. pc' # "stop"
    BY <1>4 DEF ResetReturn, StopNoChildren, StopFinish, Environment, ProducerInstalls,
       ProducerUninstalls, ForeignOpens, ForeignCloses, StartProbe, SdCardMediaReset
  <2> QED
    BY <2>1 DEF StopInv
<1>5. CASE UNCHANGED vars
  BY <1>5 DEF vars, modeVars, dxeVars, StopInv
<1> QED
  BY <1>1, <1>2, <1>3, <1>4, <1>5 DEF Next, CallStep, Call

(* A Stop that reports success has uninstalled, unlinked and freed every   *)
(* child it was given, although one loop handles them all and goes on      *)
(* after a failure.                                                        *)
THEOREM StopCompletes == Spec => StopIsComplete
<1> DEFINE Inv == Safe /\ StopInv
           Complete == StopFinish /\ status' = "SUCCESS" =>
             /\ stopping \intersect (children \union LinkedChildren) = {}
             /\ \A i \in stopping, b \in Blocks : heap[i][b] = 0
<1>1. Init => Inv
  <2>1. Init => StopInv
    BY DEF Init, StopInv
  <2> QED
    BY <2>1, InitSafe
<1>2. Inv /\ [Next]_vars => Inv'
  BY NextSafe, NextStop
<1>3. Inv => Complete
  <2> SUFFICES ASSUME Inv, StopFinish, status' = "SUCCESS" PROVE Complete
    OBVIOUS
  <2>1. pc = "stop" /\ todo = {} /\ allStopped
    BY DEF StopFinish, Safe, TypeOK
  <2>2. \A i \in stopping : i \notin children /\ \A b \in Blocks : heap[i][b] = 0
    BY <2>1 DEF StopInv
  <2>3. LinkedChildren \subseteq children
    BY DEF LinkedChildren, Handles, Safe
  <2> QED
    BY <2>2, <2>3
<1>4. Inv /\ [Next]_vars => [Complete]_vars
  BY <1>3
<1> QED
  BY <1>1, <1>2, <1>4, PTL DEF Spec, StopIsComplete

-----------------------------------------------------------------------------
(* Every call ends.                                                        *)

LEMMA StepsLeftIs ==
  /\ pc = "idle" => StepsLeft = 0
  /\ pc = "stop" => StepsLeft = Cardinality(todo) + 1
  /\ pc = "exit" => StepsLeft = 1
  /\ pc = "link" => StepsLeft = 2
  /\ pc = "install" => StepsLeft = 3
  /\ pc = "media" => StepsLeft = 4
  /\ pc = "peripheral" => StepsLeft = 10 * MaxWaiting + 16
  /\ pc = "open" => StepsLeft = 10 * MaxWaiting + 17
  /\ InMode => StepsLeft = InitializeLeft + (IF caller = "Start" THEN 5 * MaxWaiting + 11 ELSE 5)
  BY Zenon DEF StepsLeft, InMode

LEMMA StepsLeftNext ==
  /\ pc' = "idle" => StepsLeft' = 0
  /\ pc' = "stop" => StepsLeft' = Cardinality(todo') + 1
  /\ pc' = "exit" => StepsLeft' = 1
  /\ pc' = "link" => StepsLeft' = 2
  /\ pc' = "install" => StepsLeft' = 3
  /\ pc' = "media" => StepsLeft' = 4
  /\ pc' = "peripheral" => StepsLeft' = 10 * MaxWaiting + 16
  /\ pc' = "open" => StepsLeft' = 10 * MaxWaiting + 17
  /\ InMode' => StepsLeft' = InitializeLeft' + (IF caller' = "Start" THEN 5 * MaxWaiting + 11 ELSE 5)
  BY Zenon DEF StepsLeft, InMode

LEMMA InitializeLeftIs ==
  /\ pc = "fallback" => InitializeLeft = 5 * MaxWaiting - 3 * waiting + 5
  /\ pc = "detect" => InitializeLeft = 5 * MaxWaiting - 3 * waiting + 4
  /\ pc = "modeInit" => InitializeLeft = 5 * MaxWaiting - 3 * waiting + 3
  /\ pc = "identify" => InitializeLeft = 2 * waiting + 1
  /\ pc = "return" => InitializeLeft = 2 * waiting
  BY Zenon DEF InitializeLeft

LEMMA InitializeLeftNext ==
  /\ pc' = "fallback" => InitializeLeft' = 5 * MaxWaiting - 3 * waiting' + 5
  /\ pc' = "detect" => InitializeLeft' = 5 * MaxWaiting - 3 * waiting' + 4
  /\ pc' = "modeInit" => InitializeLeft' = 5 * MaxWaiting - 3 * waiting' + 3
  /\ pc' = "identify" => InitializeLeft' = 2 * waiting' + 1
  /\ pc' = "return" => InitializeLeft' = 2 * waiting'
  BY Zenon DEF InitializeLeft

LEMMA Depths ==
  ASSUME TypeOK PROVE MaxWaiting \in Nat \ {0} /\ waiting \in 0 .. MaxWaiting
  BY ConstantsAssumption DEF TypeOK

\* Where SdCardInitialize and its fallback go.
LEMMA ModeMoves ==
  ASSUME TypeOK, ModeStep
  PROVE  /\ caller' = caller /\ waiting' \in 0 .. MaxWaiting
         /\ \/ pc = "detect" /\ pc' \in {"modeInit", "return"} /\ waiting' = waiting
            \/ pc = "modeInit" /\ pc' = "identify" /\ waiting' = waiting
            \/ pc = "modeInit" /\ pc' = "fallback" /\ waiting' = waiting + 1
            \/ pc = "identify" /\ pc' = "return" /\ waiting' = waiting
            \/ pc = "return" /\ pc' \in {"identify", "return"} /\ waiting' = waiting - 1
            \/ pc = "fallback" /\ pc' \in {"detect", "return"} /\ waiting' = waiting
<1>1. CASE InitializeDetect
  BY <1>1, Depths DEF InitializeDetect
<1>2. CASE InitializeMode
  BY <1>2, Depths DEF InitializeMode
<1>3. CASE InitializeIdentify
  BY <1>3, Depths DEF InitializeIdentify
<1>4. CASE InitializeResume
  BY <1>4, Depths DEF InitializeResume
<1>5. CASE FallbackRefused \/ FallbackToHostUnavailable
  BY <1>5, Depths DEF FallbackRefused, FallbackToHostUnavailable
<1>6. CASE FallbackToSpi
  BY <1>6, Depths DEF FallbackToSpi
<1>7. CASE FallbackToHost
  BY <1>7, Depths DEF FallbackToHost
<1> QED
  BY <1>1, <1>2, <1>3, <1>4, <1>5, <1>6, <1>7 DEF ModeStep

LEMMA ModeStepEnds ==
  ASSUME TypeOK, ModeStep PROVE StepsLeft' \in 0 .. StepsLeft - 1
<1> DEFINE base == IF caller = "Start" THEN 5 * MaxWaiting + 11 ELSE 5
<1>1. base \in Nat /\ MaxWaiting \in Nat /\ waiting \in 0 .. MaxWaiting
  BY Depths
<1>2. InitializeLeft' \in 0 .. InitializeLeft - 1
  BY <1>1, ModeMoves, InitializeLeftIs, InitializeLeftNext
<1>3. InMode /\ InMode' /\ caller' = caller
  BY ModeMoves DEF InMode
<1>4. StepsLeft = InitializeLeft + base /\ StepsLeft' = InitializeLeft' + base
  BY <1>3, StepsLeftIs, StepsLeftNext
<1>5. InitializeLeft \in Int
  BY <1>1, <1>3, InitializeLeftIs DEF InMode
<1>6. \A a \in Int, b \in Nat : \A c \in 0 .. a - 1 : c + b \in 0 .. (a + b) - 1
  OBVIOUS
<1> HIDE DEF base
<1>7. InitializeLeft' + base \in 0 .. (InitializeLeft + base) - 1
  BY <1>1, <1>2, <1>5, <1>6, Zenon
<1> QED
  BY <1>4, <1>7

\* Start and Reset around SdCardInitialize.
LEMMA StartStepEnds ==
  ASSUME TypeOK, Control,
         \/ StartOpen \/ StartPeripheral \/ StartInitialized \/ StartMedia
         \/ StartInstall \/ StartLink \/ StartExit \/ ResetReturn
  PROVE  pc # "idle" /\ StepsLeft' \in 0 .. StepsLeft - 1
<1>1. /\ MaxWaiting \in Nat \ {0} /\ waiting \in 0 .. MaxWaiting
      /\ pc \in {"open", "peripheral"} => waiting = 0
  BY Depths DEF Control, InMode
<1>2. CASE StartOpen
  <2>1. /\ pc = "open" /\ pc' \in {"exit", "detect", "peripheral"}
        /\ caller' = "Start" /\ waiting' = waiting
    BY <1>2 DEF StartOpen
  <2> QED
    BY <1>1, <2>1, StepsLeftIs, StepsLeftNext, InitializeLeftNext DEF InMode
<1>3. CASE StartPeripheral
  <2>1. /\ pc = "peripheral" /\ pc' \in {"exit", "detect"} /\ waiting' = waiting
    BY <1>3 DEF StartPeripheral
  <2> QED
    BY <1>1, <2>1, StepsLeftIs, StepsLeftNext, InitializeLeftNext DEF InMode
<1>4. CASE StartInitialized
  <2>1. /\ pc = "return" /\ waiting = 0 /\ waiting' = waiting
        /\ \/ pc' \in {"media", "exit"}
           \/ pc' = "fallback" /\ caller = "Start" /\ caller' = "StartFallback"
    BY <1>4 DEF StartInitialized, FallbackTried
  <2> QED
    BY <1>1, <2>1, StepsLeftIs, StepsLeftNext, InitializeLeftIs, InitializeLeftNext DEF InMode
<1>5. CASE StartMedia \/ StartInstall \/ StartLink \/ StartExit
  <2>1. \/ pc = "media" /\ pc' \in {"install", "exit"}
        \/ pc = "install" /\ pc' \in {"link", "exit"}
        \/ pc = "link" /\ pc' \in {"idle", "exit"}
        \/ pc = "exit" /\ pc' = "idle"
    BY <1>5 DEF StartMedia, StartInstall, StartLink, StartExit
  <2> QED
    BY <2>1, StepsLeftIs, StepsLeftNext
<1>6. CASE ResetReturn
  <2>1. pc = "return" /\ waiting = 0 /\ pc' = "idle" /\ caller = "Reset"
    BY <1>6 DEF ResetReturn
  <2> QED
    BY <1>1, <2>1, StepsLeftIs, StepsLeftNext, InitializeLeftIs DEF InMode
<1> QED
  BY <1>2, <1>3, <1>4, <1>5, <1>6

LEMMA StopStepEnds ==
  ASSUME TypeOK, StopFinish \/ \E i \in Inst : StopChild(i)
  PROVE  pc # "idle" /\ StepsLeft' \in 0 .. StepsLeft - 1
<1>1. IsFiniteSet(todo)
  BY ConstantsAssumption, FS_Subset DEF TypeOK
<1>2. Cardinality(todo) \in Nat
  BY <1>1, FS_CardinalityType
<1>3. CASE StopFinish
  <2>1. pc = "stop" /\ pc' = "idle"
    BY <1>3 DEF StopFinish
  <2> QED
    BY <1>2, <2>1, StepsLeftIs, StepsLeftNext
<1>4. CASE \E i \in Inst : StopChild(i)
  <2>1. PICK i \in todo : pc = "stop" /\ pc' = "stop" /\ todo' = todo \ {i}
    BY <1>4 DEF StopChild
  <2>2. Cardinality(todo \ {i}) = Cardinality(todo) - 1 /\ Cardinality(todo \ {i}) \in Nat
    BY <1>1, FS_RemoveElement, FS_CardinalityType
  <2> QED
    BY <1>2, <2>1, <2>2, StepsLeftIs, StepsLeftNext
<1> QED
  BY <1>3, <1>4

LEMMA CallBegins ==
  ASSUME Control, Call
  PROVE  /\ pc = "idle"
         /\ StepsLeft' \in {0, 5 * MaxWaiting + 9, 10 * MaxWaiting + 17,
                            Cardinality(stopping') + 1}
<1>1. CASE \E i \in Inst : StartProbe(i)
  BY <1>1, StepsLeftNext DEF StartProbe
<1>2. CASE \E i \in Inst : SdCardMediaReset(i)
  <2>1. pc = "idle" /\ waiting = 0 /\ waiting' = waiting /\ pc' = "detect" /\ caller' = "Reset"
    BY <1>2 DEF SdCardMediaReset, Control, InMode
  <2>2. MaxWaiting \in Nat
    BY ConstantsAssumption
  <2> QED
    BY <2>1, <2>2, StepsLeftNext, InitializeLeftNext DEF InMode
<1>3. CASE StopNoChildren
  BY <1>3, StepsLeftNext DEF StopNoChildren
<1>4. CASE \E buffer \in SUBSET Inst : StopBegin(buffer)
  BY <1>4, StepsLeftNext DEF StopBegin
<1> QED
  BY <1>1, <1>2, <1>3, <1>4 DEF Call

(* Start, Reset and Stop end after a number of steps given by the depth of *)
(* the recursion and by the number of children, whatever the card, the bus *)
(* and the handle database do.  Without a handle the depth is one          *)
(* (RecursionIsShallow).                                                   *)
THEOREM CallsBounded == Spec => CallsAreBounded
<1> DEFINE Bounded ==
      IF pc = "idle"
      THEN StepsLeft' \in {0, 5 * MaxWaiting + 9, 10 * MaxWaiting + 17,
                           Cardinality(stopping') + 1}
      ELSE StepsLeft' \in 0 .. StepsLeft - 1
<1>1. ASSUME TypeOK, Control, Next PROVE Bounded
  <2>1. CASE ModeStep
    <3>1. pc # "idle"
      BY <1>1, <2>1, ModeMoves
    <3> QED
      BY <1>1, <2>1, <3>1, ModeStepEnds
  <2>2. CASE \/ StartOpen \/ StartPeripheral \/ StartInitialized \/ StartMedia
             \/ StartInstall \/ StartLink \/ StartExit \/ ResetReturn
    BY <1>1, <2>2, StartStepEnds
  <2>3. CASE StopFinish \/ \E i \in Inst : StopChild(i)
    BY <1>1, <2>3, StopStepEnds
  <2>4. CASE Call
    BY <1>1, <2>4, CallBegins
  <2>5. CASE Environment
    <3>1. pc = "idle" /\ pc' = "idle"
      BY <2>5 DEF Environment, ProducerInstalls, ProducerUninstalls, ForeignOpens,
         ForeignCloses
    <3> QED
      BY <3>1, StepsLeftNext
  <2> QED
    BY <1>1, <2>1, <2>2, <2>3, <2>4, <2>5 DEF Next, CallStep
<1>2. TypeOK /\ Control /\ [Next]_vars => [Bounded]_vars
  BY <1>1
<1>3. Init => TypeOK /\ Control
  BY InitType DEF Init, Control, InMode
<1>4. TypeOK /\ Control /\ [Next]_vars => (TypeOK /\ Control)'
  BY NextType, NextControl
<1> QED
  BY <1>2, <1>3, <1>4, PTL DEF Spec, CallsAreBounded
=============================================================================
