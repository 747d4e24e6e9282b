---------------------------- MODULE Hypervisor ----------------------------
(***************************************************************************)
(* What a user of \DosDevices\rootvisor may rely on: CreateFile either     *)
(* fails and leaves every core as it was, or returns with every core in a  *)
(* guest; CloseHandle returns with every core native again; and each of    *)
(* them returns.  Which core follows which is nobody's business.           *)
(***************************************************************************)
CONSTANT Core      \* the logical processors

VARIABLES
  phase,           \* "closed", "opening", "open" or "closing"
  virtualized      \* the cores whose operating system runs as a guest

vars == <<phase, virtualized>>

Init == phase = "closed" /\ virtualized = {}

(* IRP_MJ_CREATE and IRP_MJ_CLOSE arrive.                                  *)
Create == phase = "closed" /\ phase' = "opening" /\ UNCHANGED virtualized
Close  == phase = "open" /\ phase' = "closing" /\ UNCHANGED virtualized

Virtualize(c) == /\ phase = "opening" /\ c \notin virtualized
                 /\ virtualized' = virtualized \cup {c}
                 /\ UNCHANGED phase

Release(c) == /\ phase = "closing" /\ c \in virtualized
              /\ virtualized' = virtualized \ {c}
              /\ UNCHANGED phase

(* The request is completed: a create with success or with an error.       *)
CreateSucceeds == /\ phase = "opening" /\ virtualized = Core
                  /\ phase' = "open" /\ UNCHANGED virtualized

CreateFails == /\ phase = "opening" /\ virtualized = {}
               /\ phase' = "closed" /\ UNCHANGED virtualized

CloseReturns == /\ phase = "closing" /\ virtualized = {}
                /\ phase' = "closed" /\ UNCHANGED virtualized

(* What the driver owes once a request has arrived.                        *)
Serve == \/ CreateSucceeds \/ CreateFails \/ CloseReturns
         \/ \E c \in Core : Virtualize(c) \/ Release(c)

Next == Create \/ Close \/ Serve

(* What the user may rely on without waiting, and with it.                 *)
SafeSpec == Init /\ [][Next]_vars

Spec == SafeSpec /\ WF_vars(Serve)
==========================================================================
