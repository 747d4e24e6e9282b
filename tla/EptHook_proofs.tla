-------------------------- MODULE EptHook_proofs --------------------------
(* Theorems about EptHook for any number of cores and pages, checked by    *)
(* TLAPS.                                                                  *)
EXTENDS EptHook, TLAPS

LEMMA TypingStep == TypeOK /\ [Next]_vars => TypeOK'
<1>. USE PageAssumption, BoundAssumption
<1>. SUFFICES ASSUME TypeOK, [Next]_vars PROVE TypeOK'
  OBVIOUS
<1>. USE DEF TypeOK, table, cores, Fetches, Cpu, AsmInvept
<1>0. \A p \in Page : Walk(p) \in Translation
  BY DEF Walk, Translation
<1>1. CASE UNCHANGED vars
  BY <1>1 DEF vars
<1>2. CASE EptLogicalProcessorInitialize
  <2>1. tlb' \in [Core -> SUBSET Translation]
    BY <1>2 DEF EptLogicalProcessorInitialize, TableAddress
  <2>2. /\ ExecuteAccess' \in [Page -> BOOLEAN]
        /\ large' \in BOOLEAN /\ armed' \in BOOLEAN
    BY <1>2 DEF EptLogicalProcessorInitialize
  <2>3. pc' = "Launch" /\ opens' \in Nat /\ buffer' = {} /\ UNCHANGED <<acked, cores>>
    BY <1>2 DEF EptLogicalProcessorInitialize
  <2>. QED
    BY <2>1, <2>2, <2>3
<1>3. CASE HvTerminateVmx \/ LaunchDpcReturns \/ IpiReturns \/ TerminateDpcReturns
  BY <1>3 DEF HvTerminateVmx, LaunchDpcReturns, IpiReturns, TerminateDpcReturns
<1>4. ASSUME NEW c \in Core,
             VmxVirtualizeCurrentSystem(c) \/ PreAllocate(c) \/ VmcallExecHookPage(c)
               \/ VmxVmxoff(c)
      PROVE  TypeOK'
  BY <1>4 DEF VmxVirtualizeCurrentSystem, PreAllocate, VmcallExecHookPage, VmxVmxoff
<1>5. ASSUME NEW c \in Core, Execute(c) PROVE TypeOK'
  <2>1. \A e \in Usable(c, insn[c]) : e \in Translation
    BY <1>0, <1>5 DEF Execute, Usable
  <2>2. tlb' \in [Core -> SUBSET Translation]
    BY <1>5, <2>1 DEF Execute
  <2>3. insn' \in [Core -> Fetches \cup {Vmcall}]
    BY <1>5 DEF Execute
  <2>. QED
    BY <1>5, <2>2, <2>3 DEF Execute
<1>6. ASSUME NEW c \in Core, EptViolation(c) PROVE TypeOK'
  <2>1. tlb' \in [Core -> SUBSET Translation]
    BY <1>6 DEF EptViolation
  <2>2. cpu' = [cpu EXCEPT ![c] = "violation"] /\ armed' \in BOOLEAN
    BY <1>6 DEF EptViolation
  <2>. QED
    BY <1>6, <2>1, <2>2 DEF EptViolation
<1>7. ASSUME NEW c \in Core, EptHandlePageHookExit(c) \/ InveptAndRedo(c) PROVE TypeOK'
  BY <1>7 DEF EptHandlePageHookExit, InveptAndRedo
<1>8. ASSUME NEW c \in Core, ResumeGuest(c) PROVE TypeOK'
  BY <1>8 DEF ResumeGuest
<1>9. ASSUME NEW c \in Core, EptVmxRootModePageHook(c) \/ StoreHook(c) \/ InveptHook(c)
      PROVE  TypeOK'
  BY <1>9 DEF EptVmxRootModePageHook, StoreHook, InveptHook
<1>10. ASSUME NEW c \in Core, HvInvalidateEptByVmcall(c) PROVE TypeOK'
  BY <1>10 DEF HvInvalidateEptByVmcall
<1>11. ASSUME NEW c \in Core, TlbFill(c) PROVE TypeOK'
  <2>1. tlb' \in [Core -> SUBSET Translation]
    BY <1>0, <1>11 DEF TlbFill
  <2>. QED
    BY <1>11, <2>1 DEF TlbFill
<1>. HIDE DEF TypeOK
<1>. QED
  BY <1>1, <1>2, <1>3, <1>4, <1>5, <1>6, <1>7, <1>8, <1>9, <1>10, <1>11
     DEF Next, Thread, Guest, Handler

(* Type correctness.                                                       *)
THEOREM Typing == Spec => []TypeOK
<1>1. ASSUME Init PROVE TypeOK
  <2>1. insn \in [Core -> Fetches \cup {Vmcall}]
    BY <1>1 DEF Init
  <2>2. cpu \in [Core -> {"off", "guest", "violation", "invept", "resume",
                        "hook", "store", "hookInvept"}]
    BY <1>1 DEF Init
  <2>3. /\ ExecuteAccess \in [Page -> BOOLEAN] /\ IncrementRip \in [Core -> BOOLEAN]
        /\ tlb \in [Core -> SUBSET Translation]
    BY <1>1 DEF Init
  <2>. QED
    BY <1>1, <2>1, <2>2, <2>3 DEF Init, TypeOK
<1>. QED
  BY <1>1, TypingStep, PTL DEF Spec

--------------------------------------------------------------------------
(* NoStaleTranslation, OnlyTargetTraps and HookedFetchRedone               *)

(* A page table is at an address no core has cached translations for.      *)
FreshTable == ~SameTable

RootStages == {"hook", "store", "hookInvept"}

(* At most one core executes the hook, and only while the thread is in     *)
(* its VMCALL; with the device closed no core is in VMX operation.         *)
RootInv ==
  /\ \A c \in Core : cpu[c] \in RootStages => pc = "Root" /\ insn[c] = Vmcall
  /\ \A c, d \in Core : cpu[c] \in RootStages /\ cpu[d] \in RootStages => c = d
  /\ pc = "Closed" => \A c \in Core : cpu[c] = "off"

(* Only the hooked page, and only once it is split, is not executable.     *)
TrapInv ==
  /\ \A p \in Page \ {Target} : ExecuteAccess[p]
  /\ \A c \in Core : \A e \in tlb[c] : ~e.exec => e.page = Target /\ ~large
  /\ \A c \in Core : cpu[c] = "violation" /\ insn[c] \in Page => insn[c] = Target /\ ~large

(* A fetch from the region is on its way back to the guest only to be      *)
(* redone.                                                                 *)
RedoInv ==
  \A c \in Core : cpu[c] = "resume" /\ insn[c] \in Page => ~IncrementRip[c]

(* The cores whose translations agree with the table: all of them, but for *)
(* the time from the split or the store of a hook to a core's INVEPT.      *)
Agrees(c) == \A e \in tlb[c] : /\ e.exec => Walk(e.page).exec
                               /\ e.type = Walk(e.page).type

InWindow(c) == \/ \E d \in Core : cpu[d] \in {"store", "hookInvept"}
               \/ pc = "Notify" /\ c \notin acked

AgreeInv == \A c \in Core : InWindow(c) \/ Agrees(c)

HookInv == RootInv /\ TrapInv /\ RedoInv /\ AgreeInv

LEMMA HookInvStep ==
  ASSUME FreshTable
  PROVE  TypeOK /\ HookInv /\ [Next]_vars => HookInv'
<1>. USE PageAssumption DEF FreshTable
<1>. SUFFICES ASSUME TypeOK, HookInv, [Next]_vars PROVE HookInv'
  OBVIOUS
<1>. USE DEF HookInv, RootInv, RootStages, TrapInv, RedoInv, AgreeInv, InWindow, Agrees, Walk,
             table, cores, Cpu, AsmInvept, Fetches
<1>0. /\ \A c \in Core : tlb[c] \subseteq Translation
      /\ \A c \in Core : cpu[c] \in {"off", "guest", "violation", "invept", "resume",
                                     "hook", "store", "hookInvept"}
  BY DEF TypeOK
<1>1. CASE UNCHANGED vars
  BY <1>1 DEF vars
<1>2. CASE EptLogicalProcessorInitialize
  <2>1. /\ tlb' = [c \in Core |-> {}] /\ UNCHANGED cores
        /\ \A c \in Core : cpu[c] = "off"
        /\ pc' = "Launch"
        /\ \A p \in Page \ {Target} : ExecuteAccess'[p]
    BY <1>2 DEF EptLogicalProcessorInitialize, TableAddress
  <2>. QED
    BY <2>1
<1>3. CASE HvTerminateVmx \/ LaunchDpcReturns \/ IpiReturns \/ TerminateDpcReturns
  BY <1>3 DEF HvTerminateVmx, LaunchDpcReturns, IpiReturns, TerminateDpcReturns
<1>4. ASSUME NEW c \in Core, VmxVirtualizeCurrentSystem(c) \/ PreAllocate(c) \/ VmxVmxoff(c)
      PROVE  HookInv'
  BY <1>4 DEF VmxVirtualizeCurrentSystem, PreAllocate, VmxVmxoff, TypeOK
<1>5. ASSUME NEW c \in Core, VmcallExecHookPage(c) PROVE HookInv'
  <2>1. /\ pc = "Vmcall" /\ pc' = "Root"
        /\ cpu' = [cpu EXCEPT ![c] = "hook"] /\ insn' = [insn EXCEPT ![c] = Vmcall]
        /\ UNCHANGED <<acked, table, tlb>>
        /\ \A d \in Core \ {c} : IncrementRip'[d] = IncrementRip[d]
    BY <1>5 DEF VmcallExecHookPage, TypeOK
  <2>2. RootInv'
    BY <2>1 DEF TypeOK
  <2>3. TrapInv' /\ RedoInv'
    BY <2>1 DEF TypeOK
  <2>4. AgreeInv'
    BY <2>1 DEF TypeOK
  <2>. QED
    BY <2>2, <2>3, <2>4
<1>6. ASSUME NEW c \in Core, Execute(c) PROVE HookInv'
  BY <1>0, <1>6 DEF Execute, Usable, TypeOK
<1>7. ASSUME NEW c \in Core, EptViolation(c) PROVE HookInv'
  BY <1>0, <1>7 DEF EptViolation, Usable, TypeOK
<1>8. ASSUME NEW c \in Core, EptHandlePageHookExit(c) PROVE HookInv'
  <2>1. /\ \E stage \in {"invept", "resume"} :
             /\ cpu' = [cpu EXCEPT ![c] = stage]
             /\ stage = "resume" => insn[c] \notin Page
        /\ \A p \in Page : ExecuteAccess[p] => ExecuteAccess'[p]
        /\ cpu[c] = "violation"
        /\ UNCHANGED <<pc, acked, large, insn, IncrementRip, tlb>>
    BY <1>8 DEF EptHandlePageHookExit, TypeOK
  <2>2. RootInv'
    BY <2>1 DEF TypeOK
  <2>3. TrapInv'
    BY <2>1 DEF TypeOK
  <2>4. RedoInv'
    BY <2>1 DEF TypeOK
  <2>5. \A d \in Core : Agrees(d) => Agrees(d)'
    BY <1>0, <2>1 DEF Translation
  <2>6. \A d \in Core : InWindow(d) => InWindow(d)'
    BY <2>1 DEF TypeOK
  <2>7. AgreeInv'
    BY <2>5, <2>6
  <2>. QED
    BY <2>2, <2>3, <2>4, <2>7
<1>9. ASSUME NEW c \in Core, InveptAndRedo(c) PROVE HookInv'
  BY <1>9 DEF InveptAndRedo, TypeOK
<1>10. ASSUME NEW c \in Core, ResumeGuest(c) PROVE HookInv'
  BY <1>10 DEF ResumeGuest, TypeOK
<1>11. ASSUME NEW c \in Core, EptVmxRootModePageHook(c) PROVE HookInv'
  BY <1>0, <1>11 DEF EptVmxRootModePageHook, TypeOK
<1>12. ASSUME NEW c \in Core, StoreHook(c) PROVE HookInv'
  BY <1>0, <1>12 DEF StoreHook, TypeOK
<1>13. ASSUME NEW c \in Core, InveptHook(c) PROVE HookInv'
  BY <1>0, <1>13 DEF InveptHook, TypeOK
<1>14. ASSUME NEW c \in Core, HvInvalidateEptByVmcall(c) PROVE HookInv'
  BY <1>14 DEF HvInvalidateEptByVmcall, TypeOK
<1>15. ASSUME NEW c \in Core, TlbFill(c) PROVE HookInv'
  BY <1>0, <1>15 DEF TlbFill, TypeOK
<1>. HIDE DEF HookInv
<1>. QED
  BY <1>1, <1>2, <1>3, <1>4, <1>5, <1>6, <1>7, <1>8, <1>9, <1>10, <1>11, <1>12, <1>13,
     <1>14, <1>15
     DEF Next, Thread, Guest, Handler

LEMMA HookInvariance ==
  ASSUME FreshTable
  PROVE  Spec => []HookInv
<1>1. Init => HookInv
  BY DEF Init, HookInv, RootInv, RootStages, TrapInv, RedoInv, AgreeInv, Agrees
<1>. QED
  BY <1>1, HookInvStep, Typing, PTL DEF Spec

(* Whatever the number of cores, when EptPageHook has returned no core     *)
(* holds a translation that contradicts the page table, provided a new     *)
(* page table is not given the address of an earlier one.                  *)
THEOREM TranslationsAgree ==
  ASSUME FreshTable
  PROVE  Spec => []NoStaleTranslation
<1>1. TypeOK /\ HookInv => NoStaleTranslation
  BY DEF HookInv, RootInv, RootStages, AgreeInv, InWindow, Agrees, NoStaleTranslation, Settled
<1>. QED
  BY <1>1, HookInvariance, Typing, PTL

(* No page but the hooked one ever leaves the guest.                       *)
THEOREM NeighboursUntouched ==
  ASSUME FreshTable
  PROVE  Spec => []OnlyTargetTraps
<1>1. HookInv => OnlyTargetTraps
  BY DEF HookInv, TrapInv, OnlyTargetTraps
<1>. QED
  BY <1>1, HookInvariance, PTL

(* No exit handler moves a guest past a fetch from the hooked region.      *)
THEOREM FetchesRedone ==
  ASSUME FreshTable
  PROVE  Spec => HookedFetchRedone
<1>. DEFINE Redone == \A c \in Core : insn[c] \in Page /\ insn'[c] # insn[c] => cpu[c] = "guest"
<1>1. TypeOK /\ HookInv /\ [Next]_vars => [Redone]_vars
  <2>. SUFFICES ASSUME TypeOK, HookInv, Next PROVE Redone
    OBVIOUS
  <2>1. ASSUME NEW c \in Core, Execute(c) \/ VmcallExecHookPage(c) \/ ResumeGuest(c)
        PROVE  Redone
    BY <2>1 DEF Execute, VmcallExecHookPage, ResumeGuest, HookInv, RedoInv, TypeOK
  <2>2. \/ UNCHANGED insn
        \/ \E c \in Core : Execute(c) \/ VmcallExecHookPage(c) \/ ResumeGuest(c)
    <3>1. EptLogicalProcessorInitialize \/ HvTerminateVmx \/ LaunchDpcReturns \/ IpiReturns
            \/ TerminateDpcReturns => UNCHANGED insn
      BY DEF EptLogicalProcessorInitialize, HvTerminateVmx, LaunchDpcReturns, IpiReturns,
             TerminateDpcReturns, cores
    <3>2. ASSUME NEW c \in Core
          PROVE  VmxVirtualizeCurrentSystem(c) \/ PreAllocate(c) \/ VmxVmxoff(c)
                   \/ EptViolation(c) \/ EptHandlePageHookExit(c) \/ InveptAndRedo(c)
                   \/ EptVmxRootModePageHook(c) \/ StoreHook(c) \/ InveptHook(c)
                   \/ TlbFill(c) \/ HvInvalidateEptByVmcall(c)
                 => UNCHANGED insn
      BY DEF VmxVirtualizeCurrentSystem, PreAllocate, VmxVmxoff, EptViolation,
             EptHandlePageHookExit, InveptAndRedo, EptVmxRootModePageHook, StoreHook,
             InveptHook, TlbFill, HvInvalidateEptByVmcall, cores
    <3>. QED
      BY <3>1, <3>2 DEF Next, Thread, Guest, Handler
  <2>. QED
    BY <2>1, <2>2
<1>. QED
  BY <1>1, HookInvariance, Typing, PTL DEF Spec, HookedFetchRedone

--------------------------------------------------------------------------
(* The open and the close that Hypervisor promises                         *)

(* From the return of the launch broadcast to the close, every core is in  *)
(* its guest or in an exit handler, one at most in that of the hook.       *)
LaunchedInv ==
  /\ RootInv
  /\ pc \in {"Buffer", "Vmcall", "Root", "Notify", "Open"} => \A c \in Core : cpu[c] # "off"

(* A step of the table or of the caches changes neither.                   *)
LEMMA LaunchedStep == TypeOK /\ LaunchedInv /\ [Next]_vars => LaunchedInv'
<1>. SUFFICES ASSUME TypeOK, LaunchedInv, [Next]_vars PROVE LaunchedInv'
  OBVIOUS
<1>. USE DEF LaunchedInv, RootInv, RootStages, cores, Cpu
<1>0. cpu \in [Core -> {"off", "guest", "violation", "invept", "resume",
                       "hook", "store", "hookInvept"}] /\ DOMAIN insn = Core
  BY DEF TypeOK
<1>1. CASE UNCHANGED vars
  BY <1>1 DEF vars
<1>2. CASE EptLogicalProcessorInitialize \/ HvTerminateVmx \/ LaunchDpcReturns
             \/ IpiReturns \/ TerminateDpcReturns
  BY <1>2 DEF EptLogicalProcessorInitialize, HvTerminateVmx, LaunchDpcReturns, IpiReturns,
     TerminateDpcReturns
<1>3. ASSUME NEW c \in Core,
             VmxVirtualizeCurrentSystem(c) \/ PreAllocate(c) \/ VmcallExecHookPage(c)
               \/ VmxVmxoff(c)
      PROVE  LaunchedInv'
  BY <1>0, <1>3 DEF VmxVirtualizeCurrentSystem, PreAllocate, VmcallExecHookPage, VmxVmxoff
<1>4. ASSUME NEW c \in Core, Execute(c) \/ TlbFill(c) \/ HvInvalidateEptByVmcall(c)
      PROVE  LaunchedInv'
  BY <1>0, <1>4 DEF Execute, TlbFill, HvInvalidateEptByVmcall
<1>5. ASSUME NEW c \in Core,
             EptViolation(c) \/ EptHandlePageHookExit(c) \/ InveptAndRedo(c) \/ ResumeGuest(c)
      PROVE  LaunchedInv'
  BY <1>0, <1>5 DEF EptViolation, EptHandlePageHookExit, InveptAndRedo, ResumeGuest
<1>6. ASSUME NEW c \in Core, EptVmxRootModePageHook(c) \/ StoreHook(c) \/ InveptHook(c)
      PROVE  LaunchedInv'
  BY <1>0, <1>6 DEF EptVmxRootModePageHook, StoreHook, InveptHook
<1>. HIDE DEF LaunchedInv
<1>. QED
  BY <1>1, <1>2, <1>3, <1>4, <1>5, <1>6 DEF Next, Thread, Guest, Handler

Virtualized == {c \in Core : cpu[c] # "off"}

(* The steps of the thread are those of the request, the launch and the    *)
(* VMXOFF of a core those of Hypervisor; all others are invisible.         *)
LEMMA RefinesStep == TypeOK /\ LaunchedInv /\ [Next]_vars => [H!Next]_H!vars
<1>. SUFFICES ASSUME TypeOK, LaunchedInv, [Next]_vars PROVE [H!Next]_H!vars
  OBVIOUS
<1>. USE DEF cores, Cpu
<1>0. cpu \in [Core -> {"off", "guest", "violation", "invept", "resume",
                       "hook", "store", "hookInvept"}]
  BY DEF TypeOK
<1>i. ASSUME UNCHANGED <<Phase, Virtualized>> PROVE [H!Next]_H!vars
  BY <1>i DEF H!vars, Virtualized
<1>1. CASE UNCHANGED vars
  BY <1>1, <1>i DEF vars, Phase, Virtualized
<1>2. CASE EptLogicalProcessorInitialize
  <2>1. H!Create
    BY <1>2 DEF EptLogicalProcessorInitialize, H!Create, Phase
  <2>. QED
    BY <2>1 DEF H!Next
<1>3. CASE LaunchDpcReturns
  BY <1>3, <1>i DEF LaunchDpcReturns, Phase, Virtualized
<1>4. ASSUME pc \in {"Buffer", "Vmcall", "Root", "Notify"}, pc' = "Open",
             Virtualized' = Virtualized
      PROVE  [H!Next]_H!vars
  <2>1. Phase = "opening" /\ Phase' = "open"
    BY <1>4 DEF Phase
  <2>2. Virtualized = Core
    BY <1>4 DEF LaunchedInv, Virtualized
  <2>3. H!CreateSucceeds
    BY <1>4, <2>1, <2>2 DEF H!CreateSucceeds, Virtualized
  <2>. QED
    BY <2>3 DEF H!Next, H!Serve
<1>5. CASE IpiReturns
  BY <1>4, <1>5 DEF IpiReturns, Virtualized
<1>6. CASE HvTerminateVmx
  <2>1. H!Close
    BY <1>6 DEF HvTerminateVmx, H!Close, Phase
  <2>. QED
    BY <2>1 DEF H!Next
<1>7. CASE TerminateDpcReturns
  <2>1. Phase = "closing" /\ Phase' = "closed" /\ Virtualized = {} /\ UNCHANGED Virtualized
    BY <1>7 DEF TerminateDpcReturns, Phase, Virtualized
  <2>2. H!CloseReturns
    BY <2>1 DEF H!CloseReturns, Virtualized
  <2>. QED
    BY <2>2 DEF H!Next, H!Serve
<1>8. ASSUME NEW c \in Core, VmxVirtualizeCurrentSystem(c) PROVE [H!Next]_H!vars
  <2>1. Phase = "opening" /\ Phase' = "opening"
    BY <1>8 DEF VmxVirtualizeCurrentSystem, Phase
  <2>2. c \notin Virtualized /\ Virtualized' = Virtualized \cup {c}
    BY <1>0, <1>8 DEF VmxVirtualizeCurrentSystem, Virtualized
  <2>3. H!Virtualize(c)
    BY <2>1, <2>2 DEF H!Virtualize, Virtualized
  <2>. QED
    BY <2>3 DEF H!Next, H!Serve
<1>9. ASSUME NEW c \in Core, VmxVmxoff(c) PROVE [H!Next]_H!vars
  <2>1. Phase = "closing" /\ Phase' = "closing"
    BY <1>9 DEF VmxVmxoff, Phase
  <2>2. c \in Virtualized /\ Virtualized' = Virtualized \ {c}
    BY <1>0, <1>9 DEF VmxVmxoff, Virtualized
  <2>3. H!Release(c)
    BY <2>1, <2>2 DEF H!Release, Virtualized
  <2>. QED
    BY <2>3 DEF H!Next, H!Serve
<1>10. ASSUME NEW c \in Core, PreAllocate(c) PROVE [H!Next]_H!vars
  <2>1. /\ pc = "Buffer" /\ pc' \in {"Vmcall", "Open"} /\ Virtualized' = Virtualized
    BY <1>10 DEF PreAllocate, Virtualized
  <2>2. pc' = "Vmcall" => Phase' = Phase
    BY <2>1 DEF Phase
  <2>. QED
    BY <1>4, <1>i, <2>1, <2>2
<1>11. ASSUME NEW c \in Core, EptVmxRootModePageHook(c) PROVE [H!Next]_H!vars
  <2>1. pc = "Root" /\ Virtualized' = Virtualized /\ (pc' = pc \/ pc' = "Open")
    BY <1>0, <1>11 DEF EptVmxRootModePageHook, Virtualized, LaunchedInv, RootInv, RootStages
  <2>2. pc' = pc => Phase' = Phase
    BY DEF Phase
  <2>. QED
    BY <1>4, <1>i, <2>1, <2>2
<1>12. ASSUME NEW c \in Core, InveptHook(c) PROVE [H!Next]_H!vars
  <2>1. pc = "Root" /\ pc' = "Notify" /\ Virtualized' = Virtualized
    BY <1>0, <1>12 DEF InveptHook, Virtualized, LaunchedInv, RootInv, RootStages
  <2>. QED
    BY <1>i, <2>1 DEF Phase
<1>13. ASSUME NEW c \in Core, VmcallExecHookPage(c) PROVE [H!Next]_H!vars
  <2>1. Virtualized' = Virtualized
    BY <1>0, <1>13 DEF VmcallExecHookPage, Virtualized
  <2>2. Phase' = Phase
    BY <1>13 DEF VmcallExecHookPage, Phase
  <2>. QED
    BY <1>i, <2>1, <2>2
<1>14. ASSUME NEW c \in Core,
              EptViolation(c) \/ EptHandlePageHookExit(c) \/ InveptAndRedo(c)
                \/ ResumeGuest(c) \/ StoreHook(c)
       PROVE  [H!Next]_H!vars
  <2>1. Virtualized' = Virtualized
    BY <1>0, <1>14 DEF EptViolation, EptHandlePageHookExit, InveptAndRedo, ResumeGuest,
       StoreHook, Virtualized
  <2>2. pc' = pc
    BY <1>14 DEF EptViolation, EptHandlePageHookExit, InveptAndRedo, ResumeGuest, StoreHook
  <2>. QED
    BY <1>i, <2>1, <2>2 DEF Phase
<1>15. ASSUME NEW c \in Core, Execute(c) \/ TlbFill(c) \/ HvInvalidateEptByVmcall(c)
       PROVE  [H!Next]_H!vars
  <2>1. pc' = pc /\ cpu' = cpu
    BY <1>15 DEF Execute, TlbFill, HvInvalidateEptByVmcall
  <2>. QED
    BY <1>i, <2>1 DEF Phase, Virtualized
<1>. QED
  BY <1>1, <1>2, <1>3, <1>5, <1>6, <1>7, <1>8, <1>9, <1>10, <1>11, <1>12, <1>13, <1>14,
     <1>15 DEF Next, Thread, Guest, Handler

(* The open that hooks a page and the close that follows are, step by step,*)
(* those a user may rely on, however many cores trap in between and        *)
(* wherever the page table lies: the open returns with every core in a     *)
(* guest, and the close with every core out of it.  That they do return is *)
(* left to TLC, with ImplementsHypervisor.                                 *)
THEOREM RefinesHypervisor == Spec => H!SafeSpec
<1>1. Init => LaunchedInv
  BY DEF Init, LaunchedInv, RootInv, RootStages
<1>2. Spec => []LaunchedInv
  BY <1>1, LaunchedStep, Typing, PTL DEF Spec
<1>3. Init => H!Init
  BY DEF Init, H!Init, Phase
<1>. QED
  BY <1>2, <1>3, RefinesStep, Typing, PTL DEF Spec, H!SafeSpec
==========================================================================
