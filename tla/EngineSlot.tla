----------------------------- MODULE EngineSlot -----------------------------
(***************************************************************************)
(* What an owner of engines promises to the rest of the process: a slot    *)
(* that holds one open engine or none.  An engine is opened once, into the *)
(* empty slot; it leaves the slot when it is closed and never comes back;  *)
(* and a slot that was disposed of is not filled again, while what it held *)
(* at that moment may still be there until it is released.                 *)
(*                                                                         *)
(* daemon.StartedService implements it with its instances (StartedService  *)
(* and its proofs), and the record `static` of v2/hcore with its services  *)
(* (CoreLifecycle and its proofs), which is never disposed of.             *)
(***************************************************************************)
CONSTANT Engines

VARIABLES
    open,      \* the engines that are open
    used,      \* the engines that were ever opened
    disposed   \* the slot is closed for good

slot == <<open, used, disposed>>

Init == open = {} /\ used = {} /\ disposed = FALSE

Open(e) ==
    /\ ~disposed /\ open = {} /\ e \notin used
    /\ open' = {e} /\ used' = used \cup {e}
    /\ UNCHANGED disposed

Release(e) ==
    /\ e \in open
    /\ open' = open \ {e}
    /\ UNCHANGED <<used, disposed>>

Dispose ==
    /\ ~disposed /\ disposed' = TRUE
    /\ UNCHANGED <<open, used>>

Next == (\E e \in Engines : Open(e) \/ Release(e)) \/ Dispose

Spec == Init /\ [][Next]_slot

\* Two engines are never open at once.
AtMostOne == \A a, b \in open : a = b
=============================================================================
