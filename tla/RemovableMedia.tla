--------------------------- MODULE RemovableMedia ---------------------------
(***************************************************************************)
(* What Block I/O of removable media promises its callers.  A MediaId, once*)
(* given to a medium, is given to no other; a request is taken only under  *)
(* the MediaId of the media present, and what a read returns is of that    *)
(* medium; media that is absent is refused at once and comes back only by  *)
(* an event; and no request that is neither refused nor done at once       *)
(* succeeds if the slot was empty all its time.                            *)
(*                                                                         *)
(* A request done at once promises nothing of the slot: it succeeds while  *)
(* the media is taken for present, gone or not.  When media is withdrawn,  *)
(* and what else a request comes to, is left open.                         *)
(***************************************************************************)
EXTENDS Integers

CONSTANTS Media, Ids

VARIABLES
  present, id,  \* is media present, and under which MediaId?
  name,         \* the medium last published under each MediaId
  doing,        \* "nothing", "transfer" or "reset": the request in progress
  request,      \* that request
  ok, source,   \* did the last request succeed, on which medium?
  cut,          \* has an event, or a card left halfway, spoiled its bus?
  empty,        \* was the slot empty since it began?
  notified      \* is an event in progress?

media == <<present, id, name>>
vars  == <<media, doing, request, ok, source, cut, empty, notified>>

Withdrawn ==
  present' = FALSE /\ id' \in {id, id + 1} /\ UNCHANGED name

Published ==
  /\ present' = TRUE /\ id' = id + 1
  /\ \E m \in Media : name' = [name EXCEPT ![id + 1] = m]

Finish(good) == doing' = "nothing" /\ ok' = good

\* A request is refused or done at once, or begins.
Call ==
  /\ doing = "nothing"
  /\ \/ \E good \in BOOLEAN : Finish(good) /\ (good => present)
     \/ /\ present /\ UNCHANGED ok
        /\ \/ doing' = "transfer" /\ request'.id = id
           \/ doing' = "reset"
  /\ UNCHANGED <<media, notified>>

\* A transfer that fails may have found that the media is gone.
TransferEnds ==
  /\ doing = "transfer"
  /\ \/ /\ Finish(TRUE) /\ (cut \/ ~empty)
        /\ request.op = "read" /\ ~cut => source' = name[request.id]
        /\ UNCHANGED media
     \/ Finish(FALSE) /\ Withdrawn
     \/ Finish(FALSE) /\ (cut \/ ~empty) /\ UNCHANGED media
  /\ UNCHANGED <<request, empty, notified>>

\* A reset withdraws the media, whatever an event makes of it meanwhile, and
\* in the end publishes the medium it found.
Reset ==
  /\ doing = "reset"
  /\ \/ Withdrawn /\ UNCHANGED <<doing, ok>>
     \/ Finish(FALSE) /\ Withdrawn
     \/ Finish(TRUE) /\ Published /\ (cut \/ ~empty)
  /\ UNCHANGED <<request, source, empty, notified>>

Event ==
  /\ \/ notified /\ (Withdrawn \/ Published \/ UNCHANGED media)
     \/ notified' /\ UNCHANGED media
  /\ UNCHANGED <<doing, request, ok, source, empty>>

\* The slot, its card and the bus change.
Around ==
  /\ empty' => empty
  /\ UNCHANGED <<media, doing, request, ok, source, notified>>

Init ==
  /\ present \in BOOLEAN /\ id \in Ids /\ name \in [Ids -> Media]
  /\ doing = "nothing" /\ ok \in BOOLEAN /\ source \in Media
  /\ {cut, empty, notified} \subseteq BOOLEAN

Next == Call \/ TransferEnds \/ Reset \/ Event \/ Around

Spec == Init /\ [][Next]_vars
=============================================================================
