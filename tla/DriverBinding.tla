---------------------------- MODULE DriverBinding ----------------------------
(***************************************************************************)
(* What a bus driver owes the UEFI driver model, seen between and during   *)
(* its calls by the rest of the system: the protocols it claims BY_DRIVER  *)
(* on a controller and the child handles it manages there.                 *)
(*                                                                         *)
(* Start is all or nothing: one step adds a child together with one new    *)
(* claim, and a Start that fails changes no claim and no managed child.    *)
(* It may leave a stray: a child handle that exists, that the driver does  *)
(* not manage and never takes up again.  Children go one at a time, and    *)
(* the claims are released together.  Only while it manages a child may    *)
(* the driver otherwise change its claims: give one up, add one, or trade  *)
(* one for another.                                                        *)
(***************************************************************************)
CONSTANTS Protocols, Inst

VARIABLES
  claims,   \* protocols the driver holds BY_DRIVER
  managed,  \* child handles it produces
  strays    \* child handles left behind by a Start that failed

Init == claims = {} /\ managed = {} /\ strays = {}

Start(i) ==
  /\ i \notin managed \union strays
  /\ managed' = managed \union {i}
  /\ \E p \in Protocols \ claims : claims' = claims \union {p}
  /\ UNCHANGED strays

StartLeavesStray(i) ==
  /\ i \notin managed \union strays
  /\ strays' = strays \union {i}
  /\ UNCHANGED <<claims, managed>>

StopChild(i) ==
  /\ i \in managed
  /\ managed' = managed \ {i}
  /\ UNCHANGED <<claims, strays>>

Release ==
  /\ claims' = {}
  /\ UNCHANGED <<managed, strays>>

Trade ==
  /\ managed # {}
  /\ \E p \in Protocols :
       \/ claims' = claims \ {p}
       \/ \E q \in Protocols : claims' = (claims \ {p}) \union {q}
  /\ UNCHANGED <<managed, strays>>

Next ==
  \/ \E i \in Inst : Start(i) \/ StartLeavesStray(i) \/ StopChild(i)
  \/ Release
  \/ Trade

Spec == Init /\ [][Next]_<<claims, managed, strays>>
=============================================================================
