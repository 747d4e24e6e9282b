----------------------- MODULE VmxLifecycle_proofs -----------------------
(* Theorems about VmxLifecycle for every set of cores, every bound and     *)
(* every choice of faults, checked by TLAPS.                               *)
EXTENDS VmxLifecycle, FiniteSetTheorems, TLAPS

(* Every step keeps every variable in its type.                            *)
LEMMA TypingStep == TypeOK /\ [Next]_vars => TypeOK'
<1>. USE CoreAssumption, FaultsAssumption, BoundsAssumption
<1>. SUFFICES ASSUME TypeOK, [Next]_vars PROVE TypeOK'
  OBVIOUS
<1>. USE DEF TypeOK, At, Pcs, OpenPcs, ClosePcs, driver, request, globals, hook
<1>0. ASSUME NEW k \in Kind, NEW c \in Core \cup {NULL} PROVE NewBlock(k, c) \in Block
  BY DEF NewBlock, Block
<1>f. ASSUME NEW c \in Core, NEW p \in Pointer
      PROVE  /\ [gs EXCEPT ![c].VmxonRegion = p] \in [Core -> VirtualMachineState]
             /\ [gs EXCEPT ![c].VmcsRegion = p] \in [Core -> VirtualMachineState]
             /\ [gs EXCEPT ![c].VmmStack = p] \in [Core -> VirtualMachineState]
  BY DEF VirtualMachineState
<1>g. ASSUME NEW c \in Core, NEW p \in Pointer, NEW q \in Pointer
      PROVE  [gs EXCEPT ![c].VmmStack = p, ![c].MsrBitmap = q]
               \in [Core -> VirtualMachineState]
  BY DEF VirtualMachineState
<1>1. CASE UNCHANGED vars
  BY <1>1 DEF vars
<1>2. CASE Bugcheck
  BY <1>2 DEF Bugcheck
<1>3. CASE DriverEntry \/ DrvUnload \/ DrvCreate \/ DrvClose
  <2>1. CASE DriverEntry
    BY <2>1 DEF DriverEntry
  <2>2. CASE DrvUnload
    BY <2>2 DEF DrvUnload
  <2>3. CASE DrvCreate
    BY <2>3 DEF DrvCreate
  <2>4. CASE DrvClose
    BY <2>4 DEF DrvClose, KeGenericCallDpc
  <2>. QED
    BY <1>3, <2>1, <2>2, <2>3, <2>4
<1>4. CASE AllocateGuestState
  <2>1. Zeroed \in VirtualMachineState
    BY DEF Zeroed, VirtualMachineState, Pointer
  <2>2. NewBlock("GuestState", NULL) \in Block
    BY <1>0 DEF Kind
  <2>3. gs' \in [Core -> VirtualMachineState]
    BY <1>4, <2>1 DEF AllocateGuestState
  <2>4. live' \subseteq Block /\ GuestState' \in Pointer
    BY <1>4, <2>2 DEF AllocateGuestState, Pointer
  <2>5. pc' \in Pcs /\ UNCHANGED <<gen, handles>>
    BY <1>4 DEF AllocateGuestState, OpenFails, Goto
  <2>6. UNCHANGED <<driver, machine, EptState, PageTable, splits, inUse, mode, dpc>>
    BY <1>4 DEF AllocateGuestState
  <2>. QED
    BY <2>3, <2>4, <2>5, <2>6
<1>5. CASE AllocateEptState
  <2>1. NewBlock("EptState", NULL) \in Block
    BY <1>0 DEF Kind
  <2>. QED
    BY <1>5, <2>1 DEF AllocateEptState, OpenFails, Goto, Pointer
<1>6. CASE EptCheckFeatures \/ CallRegionsDpc \/ CallLaunchDpc \/ SplitsFreed
  BY <1>6 DEF EptCheckFeatures, CallRegionsDpc, CallLaunchDpc, SplitsFreed,
              OpenFails, Goto, KeGenericCallDpc
<1>7. CASE AllocatePageTable
  BY <1>0, <1>7 DEF AllocatePageTable, OpenFails, Goto, Kind, Pointer
<1>8. CASE BroadcastReturns
  BY <1>8 DEF BroadcastReturns, Goto
<1>9. ASSUME NEW c \in Core, HookBuffer(c) \/ LateHookBuffer(c) PROVE TypeOK'
  <2>1. PICK k \in {"BufferBeforeLaunch", "BufferAfterLaunch"} :
          /\ gs' = gs \/ gs' = [gs EXCEPT ![c].PreAllocatedBuffer = NewBlock(k, c)]
          /\ live' = live \/ live' = live \cup {NewBlock(k, c)}
    BY <1>9 DEF HookBuffer, LateHookBuffer, PreAllocate
  <2>2. NewBlock(k, c) \in Block /\ NewBlock(k, c) \in Pointer
    BY <1>0 DEF Kind, Pointer
  <2>3. [gs EXCEPT ![c].PreAllocatedBuffer = NewBlock(k, c)]
          \in [Core -> VirtualMachineState]
    BY <2>2 DEF VirtualMachineState
  <2>4. pc' \in Pcs /\ gen' \in Nat /\ handles' \in Nat
    BY <1>9 DEF HookBuffer, LateHookBuffer, PreAllocate, Goto, OpenSucceeds
  <2>5. UNCHANGED <<driver, machine, globals, splits, inUse, mode, dpc>>
    BY <1>9 DEF HookBuffer, LateHookBuffer, PreAllocate
  <2>. QED
    BY <2>1, <2>2, <2>3, <2>4, <2>5
<1>10. ASSUME NEW c \in Core, EptSplitLargePage(c)
       PROVE  /\ splits' \subseteq Block
              /\ gs' \in [Core -> VirtualMachineState]
              /\ inUse' \in [Core -> SUBSET Pointer]
  <2>1. gs[c].PreAllocatedBuffer \in Pointer
    BY DEF VirtualMachineState
  <2>2. CASE UNCHANGED hook
    BY <2>2
  <2>3. CASE splits = {} /\ gs[c].PreAllocatedBuffer # NULL
    <3>1. gs[c].PreAllocatedBuffer \in Block
      BY <2>1, <2>3 DEF Pointer
    <3>2. gs' \in [Core -> VirtualMachineState]
      BY <1>10, <2>3 DEF EptSplitLargePage, VirtualMachineState, Pointer
    <3>3. \A d \in Core : inUse[d] \cup {gs[c].PreAllocatedBuffer} \in SUBSET Pointer
      BY <2>1
    <3>4. inUse' \in [Core -> SUBSET Pointer]
      BY <1>10, <2>3, <3>3 DEF EptSplitLargePage
    <3>. QED
      BY <1>10, <2>3, <3>1, <3>2, <3>4 DEF EptSplitLargePage
  <2>. QED
    BY <1>10, <2>2, <2>3 DEF EptSplitLargePage
<1>11. ASSUME NEW c \in Core, Hook(c) PROVE TypeOK'
  BY <1>10, <1>11 DEF Hook, Goto
<1>12. ASSUME NEW c \in Core, LateHook(c) PROVE TypeOK'
  BY <1>2, <1>10, <1>12 DEF LateHook, Goto, OpenSucceeds
<1>13. ASSUME NEW c \in Core, AllocateStackAndBitmap(c) PROVE TypeOK'
  <2>1. NewBlock("VmmStack", c) \in Block /\ NewBlock("MsrBitmap", c) \in Block
    BY <1>0 DEF Kind
  <2>2. NewBlock("VmmStack", c) \in Pointer /\ NewBlock("MsrBitmap", c) \in Pointer
    BY <2>1 DEF Pointer
  <2>3. gs' \in [Core -> VirtualMachineState]
    <3>1. /\ [gs EXCEPT ![c].VmmStack = NewBlock("VmmStack", c)]
               \in [Core -> VirtualMachineState]
          /\ [gs EXCEPT ![c].VmmStack = NewBlock("VmmStack", c),
                        ![c].MsrBitmap = NewBlock("MsrBitmap", c)]
               \in [Core -> VirtualMachineState]
      BY <1>f, <1>g, <2>2
    <3>2. \/ gs' = gs
          \/ gs' = [gs EXCEPT ![c].VmmStack = NewBlock("VmmStack", c)]
          \/ gs' = [gs EXCEPT ![c].VmmStack = NewBlock("VmmStack", c),
                             ![c].MsrBitmap = NewBlock("MsrBitmap", c)]
      BY <1>13 DEF AllocateStackAndBitmap
    <3>. QED
      BY <3>1, <3>2
  <2>. QED
    BY <1>13, <2>1, <2>3 DEF AllocateStackAndBitmap, OpenFails, Goto
<1>14. ASSUME NEW c \in Core, TestVmcall(c) PROVE TypeOK'
  BY <1>2, <1>14 DEF TestVmcall, OpenFails, Goto
<1>15. CASE NotifyAllToInvalidateEpt
  BY <1>2, <1>15 DEF NotifyAllToInvalidateEpt, OpenSucceeds
<1>16. CASE FreePageTable \/ FreeGuestState \/ FreeEptState
  BY <1>16 DEF FreePageTable, FreeGuestState, FreeEptState, FreeGlobal, Goto
<1>17. ASSUME NEW b \in splits, FreeSplit(b) PROVE TypeOK'
  BY <1>2, <1>17 DEF FreeSplit
<1>18. ASSUME NEW c \in Core, VmxAllocateVmxonRegion(c) PROVE TypeOK'
  <2>1. NewBlock("VmxonRegion", c) \in Block /\ NewBlock("VmxonRegion", c) \in Pointer
    BY <1>0 DEF Kind, Pointer
  <2>2. gs' \in [Core -> VirtualMachineState]
    <3>1. [gs EXCEPT ![c].VmxonRegion = NewBlock("VmxonRegion", c)]
            \in [Core -> VirtualMachineState]
      BY <1>f, <2>1
    <3>2. gs' = gs \/ gs' = [gs EXCEPT ![c].VmxonRegion = NewBlock("VmxonRegion", c)]
      BY <1>18 DEF VmxAllocateVmxonRegion
    <3>. QED
      BY <3>1, <3>2
  <2>3. inUse' \in [Core -> SUBSET Pointer]
    BY <1>18, <2>1 DEF VmxAllocateVmxonRegion, Pointer
  <2>. QED
    BY <1>18, <2>1, <2>2, <2>3 DEF VmxAllocateVmxonRegion, DpcAt
<1>19. ASSUME NEW c \in Core, VmxAllocateVmcsRegion(c) PROVE TypeOK'
  <2>1. NewBlock("VmcsRegion", c) \in Block /\ NewBlock("VmcsRegion", c) \in Pointer
    BY <1>0 DEF Kind, Pointer
  <2>2. gs' \in [Core -> VirtualMachineState]
    <3>1. [gs EXCEPT ![c].VmcsRegion = NewBlock("VmcsRegion", c)]
            \in [Core -> VirtualMachineState]
      BY <1>f, <2>1
    <3>2. gs' = gs \/ gs' = [gs EXCEPT ![c].VmcsRegion = NewBlock("VmcsRegion", c)]
      BY <1>19 DEF VmxAllocateVmcsRegion
    <3>. QED
      BY <3>1, <3>2
  <2>. QED
    BY <1>19, <2>1, <2>2 DEF VmxAllocateVmcsRegion, DpcAt
<1>20. ASSUME NEW c \in Core, VmxVirtualizeCurrentSystem(c) PROVE TypeOK'
  <2>1. VmcsBlocks(c) \subseteq Pointer
    BY DEF VmcsBlocks, Pointer, VirtualMachineState
  <2>2. [inUse EXCEPT ![c] = @ \cup VmcsBlocks(c)] \in [Core -> SUBSET Pointer]
    BY <2>1
  <2>3. CASE Bugcheck
    BY <1>2, <2>3
  <2>4. CASE UNCHANGED <<driver, machine, request, live, globals, gs, splits>>
    <3>1. mode' \in [Core -> {"off", "root", "guest"}]
      BY <1>2, <1>20 DEF VmxVirtualizeCurrentSystem, Bugcheck
    <3>2. inUse' = inUse \/ inUse' = [inUse EXCEPT ![c] = {}]
            \/ inUse' = [inUse EXCEPT ![c] = @ \cup VmcsBlocks(c)]
      BY <1>20 DEF VmxVirtualizeCurrentSystem, Bugcheck
    <3>3. inUse' \in [Core -> SUBSET Pointer]
      BY <2>2, <3>2
    <3>4. dpc' = dpc \/ dpc' = [dpc EXCEPT ![c] = "sync"]
      BY <1>20 DEF VmxVirtualizeCurrentSystem, Bugcheck, DpcAt
    <3>. QED
      BY <2>4, <3>1, <3>3, <3>4
  <2>5. Bugcheck \/ UNCHANGED <<driver, machine, request, live, globals, gs, splits>>
    BY <1>20 DEF VmxVirtualizeCurrentSystem
  <2>. QED
    BY <2>3, <2>4, <2>5
<1>21. ASSUME NEW c \in Core, VmcallVmxoff(c) PROVE TypeOK'
  <2>1. CASE Bugcheck
    BY <1>2, <2>1
  <2>2. CASE ~Bugcheck
    <3>1. [gs EXCEPT ![c].IsVmxoffExecuted = TRUE] \in [Core -> VirtualMachineState]
      BY DEF VirtualMachineState
    <3>2. gs' = gs \/ gs' = [gs EXCEPT ![c].IsVmxoffExecuted = TRUE]
      BY <1>21, <2>2 DEF VmcallVmxoff
    <3>3. /\ mode' = mode \/ mode' = [mode EXCEPT ![c] = "off"]
          /\ inUse' = inUse \/ inUse' = [inUse EXCEPT ![c] = {}]
          /\ dpc' = [dpc EXCEPT ![c] = "second"]
          /\ UNCHANGED <<driver, machine, request, live, globals, splits>>
      BY <1>21, <2>2 DEF VmcallVmxoff, DpcAt
    <3>. QED
      BY <3>1, <3>2, <3>3
  <2>. QED
    BY <2>1, <2>2
<1>22. ASSUME NEW c \in Core, FreeRegions(c) PROVE TypeOK'
  BY <1>2, <1>22 DEF FreeRegions, DpcAt
<1>23. ASSUME NEW c \in Core, KeSignalCallDpcDone(c) \/ LostVmexit(c) PROVE TypeOK'
  BY <1>2, <1>23 DEF KeSignalCallDpcDone, LostVmexit, DpcAt
<1>. HIDE DEF TypeOK
<1>. QED
  BY <1>1, <1>2, <1>3, <1>4, <1>5, <1>6, <1>7, <1>8, <1>9, <1>11, <1>12, <1>13, <1>14,
     <1>15, <1>16, <1>17, <1>18, <1>19, <1>20, <1>21, <1>22, <1>23
     DEF Next, RequestStep, DpcStep

(* Type correctness, for every set of faults and limits.                   *)
THEOREM Typing == Spec => []TypeOK
<1>. USE CoreAssumption, FaultsAssumption, BoundsAssumption
<1>1. ASSUME Init PROVE TypeOK
  <2>1. Zeroed \in VirtualMachineState
    BY DEF Zeroed, VirtualMachineState, Pointer
  <2>2. inUse \in [Core -> SUBSET Pointer]
    BY <1>1 DEF Init
  <2>3. gs \in [Core -> VirtualMachineState]
    BY <1>1, <2>1 DEF Init
  <2>4. /\ mode \in [Core -> {"off", "root", "guest"}]
        /\ dpc \in [Core -> {"none", "queued", "second", "sync", "done", "returned"}]
    BY <1>1 DEF Init
  <2>5. platform \subseteq Limits
    BY <1>1 DEF Init
  <2>6. GuestState \in Pointer /\ EptState \in Pointer /\ PageTable \in Pointer
    BY <1>1 DEF Init, Pointer
  <2>. QED
    BY <1>1, <2>2, <2>3, <2>4, <2>5, <2>6 DEF Init, TypeOK, Pcs
<1>. QED
  BY <1>1, TypingStep, PTL DEF Spec

--------------------------------------------------------------------------
(* VmxoffFlagAgrees                                                        *)

(* Strengthening: once an open request holds its own GuestState, no core's *)
(* flag is up, and only the broadcast of a close raises one, in a core     *)
(* whose guest is gone.                                                    *)
FlagInv ==
  /\ VmxoffFlagAgrees
  /\ pc \in OpenPcs \ {"GuestState"} => \A c \in Core : ~gs[c].IsVmxoffExecuted

(* For every set of faults and any number of handles, no core runs a guest *)
(* with IsVmxoffExecuted raised.                                           *)
THEOREM FlagsAgree == Spec => []VmxoffFlagAgrees
<1>1. Init => FlagInv
  BY DEF Init, FlagInv, VmxoffFlagAgrees, OpenPcs, Zeroed
<1>2. TypeOK /\ FlagInv /\ [Next]_vars => FlagInv'
  <2>. SUFFICES ASSUME TypeOK, FlagInv, [Next]_vars PROVE FlagInv'
    OBVIOUS
  <2>. USE DEF FlagInv, At, VmxoffFlagAgrees, OpenPcs, driver, request, globals, hook
  <2>1. CASE UNCHANGED vars
    BY <2>1 DEF vars
  <2>2. CASE Bugcheck
    BY <2>2 DEF Bugcheck
  <2>3. CASE DriverEntry \/ DrvUnload \/ DrvCreate \/ DrvClose
    BY <2>3 DEF DriverEntry, DrvUnload, DrvCreate, DrvClose
  <2>4. CASE AllocateGuestState
    BY <2>4 DEF AllocateGuestState, OpenFails, Goto, Zeroed
  <2>5. CASE AllocateEptState \/ EptCheckFeatures \/ AllocatePageTable
               \/ CallRegionsDpc \/ CallLaunchDpc
    BY <2>5 DEF AllocateEptState, EptCheckFeatures, AllocatePageTable, CallRegionsDpc,
                CallLaunchDpc, OpenFails, Goto
  <2>6. CASE BroadcastReturns \/ NotifyAllToInvalidateEpt \/ SplitsFreed \/ FreePageTable
               \/ FreeGuestState \/ FreeEptState
    BY <2>2, <2>6 DEF BroadcastReturns, NotifyAllToInvalidateEpt, SplitsFreed, FreePageTable,
                FreeGuestState, FreeEptState, FreeGlobal, Goto, OpenSucceeds
  <2>7. ASSUME NEW c \in Core, HookBuffer(c) \/ LateHookBuffer(c) PROVE FlagInv'
    <3>1. \A d \in Core : gs'[d].IsVmxoffExecuted = gs[d].IsVmxoffExecuted
      BY <2>7 DEF HookBuffer, LateHookBuffer, PreAllocate, TypeOK, VirtualMachineState
    <3>. QED
      BY <2>7, <3>1 DEF HookBuffer, LateHookBuffer, PreAllocate, Goto, OpenSucceeds
  <2>8. ASSUME NEW c \in Core, EptSplitLargePage(c)
        PROVE  \A d \in Core : gs'[d].IsVmxoffExecuted = gs[d].IsVmxoffExecuted
    BY <2>8 DEF EptSplitLargePage, TypeOK, VirtualMachineState
  <2>9. ASSUME NEW c \in Core, Hook(c) \/ LateHook(c) PROVE FlagInv'
    BY <2>2, <2>8, <2>9 DEF Hook, LateHook, Goto, OpenSucceeds
  <2>10. ASSUME NEW c \in Core, AllocateStackAndBitmap(c) PROVE FlagInv'
    <3>1. \A d \in Core : gs'[d].IsVmxoffExecuted = gs[d].IsVmxoffExecuted
      BY <2>10 DEF AllocateStackAndBitmap, TypeOK, VirtualMachineState
    <3>. QED
      BY <2>10, <3>1 DEF AllocateStackAndBitmap, OpenFails, Goto
  <2>11. ASSUME NEW c \in Core, TestVmcall(c) PROVE FlagInv'
    BY <2>2, <2>11 DEF TestVmcall, OpenFails, Goto
  <2>12. ASSUME NEW c \in Core, VmxAllocateVmxonRegion(c) PROVE FlagInv'
    <3>1. \A d \in Core : gs'[d].IsVmxoffExecuted = gs[d].IsVmxoffExecuted
      BY <2>12 DEF VmxAllocateVmxonRegion, TypeOK, VirtualMachineState
    <3>2. \A d \in Core : mode'[d] = "guest" => mode[d] = "guest"
      BY <2>12 DEF VmxAllocateVmxonRegion, TypeOK
    <3>. QED
      BY <2>12, <3>1, <3>2 DEF VmxAllocateVmxonRegion
  <2>13. ASSUME NEW c \in Core, VmxAllocateVmcsRegion(c) PROVE FlagInv'
    BY <2>13 DEF VmxAllocateVmcsRegion, TypeOK, VirtualMachineState
  <2>14. ASSUME NEW c \in Core, VmxVirtualizeCurrentSystem(c) PROVE FlagInv'
    BY <2>2, <2>14 DEF VmxVirtualizeCurrentSystem, TypeOK
  <2>15. ASSUME NEW c \in Core, VmcallVmxoff(c) PROVE FlagInv'
    BY <2>2, <2>15 DEF VmcallVmxoff, TypeOK, VirtualMachineState
  <2>16. ASSUME NEW c \in Core, FreeRegions(c) \/ KeSignalCallDpcDone(c) \/ LostVmexit(c)
         PROVE  FlagInv'
    BY <2>2, <2>16 DEF FreeRegions, KeSignalCallDpcDone, LostVmexit
  <2>17. ASSUME NEW b \in splits, FreeSplit(b) PROVE FlagInv'
    BY <2>2, <2>17 DEF FreeSplit
  <2>. HIDE DEF FlagInv
  <2>. QED
    BY <2>1, <2>3, <2>4, <2>5, <2>6, <2>7, <2>9, <2>10, <2>11, <2>12, <2>13, <2>14,
       <2>15, <2>16, <2>17
       DEF Next, RequestStep, DpcStep
<1>3. FlagInv => VmxoffFlagAgrees
  BY DEF FlagInv
<1>. QED
  BY Typing, <1>1, <1>2, <1>3, PTL DEF Spec

--------------------------------------------------------------------------
(* LiveWhileVirtualized                                                    *)

(* What the theorem assumes: the device is opened once at a time, and      *)
(* VMPTRLD of a region that VMCLEAR accepted does not fail.                *)
SingleHandle == MaxHandles = 1 /\ "Vmptrld" \notin Faults

Early   == {"GuestState", "EptState", "EptFeatures", "PageTable", "HookBuffer",
            "Hook", "RegionsCall", "RegionsDpc", "Stacks"}
Late    == {"Test", "LateHookBuffer", "LateHook", "NotifyEpt"}
Buffers == {"BufferBeforeLaunch", "BufferAfterLaunch"}
Regions == {"VmxonRegion", "VmcsRegion", "VmmStack", "MsrBitmap"}

(* The device is open, or half way into its open or out of it.             *)
Running == pc \in Late \cup {"LaunchDpc", "TerminateDpc"} \/ (pc = "Idle" /\ handles > 0)

HandleInv == handles \in {0, 1} /\ (pc # "Idle" => handles = 0)

(* Where in a request a core may be in which mode.                         *)
ModeInv ==
  \A c \in Core :
    /\ mode[c] = "off" => inUse[c] = {}
    /\ mode[c] = "guest" => Running
    /\ mode[c] = "root" => pc \in Early \cup {"LaunchDpc"} \/ (pc = "Idle" /\ handles = 0)
    /\ pc = "LaunchDpc" /\ mode[c] = "root" => dpc[c] = "queued"
    /\ pc = "TerminateDpc" /\ mode[c] # "off" => dpc[c] = "queued"

(* A core refers to live blocks: its own regions, or the shared EPT.       *)
UseInv ==
  \A c \in Core : \A b \in inUse[c] :
    /\ b \in live
    /\ b.kind \in Buffers \cup {"PageTable"} \/ (b.kind \in Regions /\ b.owner = c)

(* The globals point at blocks of their kind, live while they are needed.  *)
GlobalInv ==
  /\ GuestState # NULL => GuestState.kind = "GuestState"
  /\ EptState # NULL => EptState.kind = "EptState"
  /\ PageTable # NULL => PageTable.kind = "PageTable"
  /\ \A b \in splits : b.kind \in Buffers
  /\ pc \in OpenPcs \ {"GuestState"} \/ Running => GuestState \in live
  /\ pc \in OpenPcs \ {"GuestState", "EptState"} \/ Running => EptState \in live
  /\ pc \in OpenPcs \ {"GuestState", "EptState"} => splits \subseteq live
  /\ pc \in OpenPcs \ {"GuestState", "EptState", "EptFeatures", "PageTable"} =>
       PageTable \in live

(* The blocks of GuestState[c] are of their kinds and belong to c, and     *)
(* during an open request those that are there are live.                   *)
OwnInv ==
  \A c \in Core :
    /\ \A b \in RegionsOf(c) : b # NULL => b.kind \in Regions /\ b.owner = c
    /\ gs[c].PreAllocatedBuffer # NULL => gs[c].PreAllocatedBuffer.kind \in Buffers
    /\ pc \in OpenPcs \ {"GuestState"} =>
         RegionsOf(c) \cup {gs[c].PreAllocatedBuffer} \subseteq live \cup {NULL}

(* Each phase leaves behind the regions the next one relies on.            *)
ReadyInv ==
  \A c \in Core :
    /\ pc = "RegionsDpc" /\ dpc[c] \in {"second", "sync", "done"} => gs[c].VmxonRegion # NULL
    /\ pc = "RegionsDpc" /\ dpc[c] \in {"sync", "done"} => gs[c].VmcsRegion # NULL
    /\ pc = "Stacks" => gs[c].VmxonRegion # NULL /\ gs[c].VmcsRegion # NULL
    /\ pc \in OpenPcs \ {"GuestState"} /\ gs[c].MsrBitmap # NULL => gs[c].VmmStack # NULL
    /\ pc = "LaunchDpc" => NULL \notin RegionsOf(c)

LiveInv == /\ HandleInv /\ ModeInv /\ UseInv /\ GlobalInv /\ OwnInv /\ ReadyInv

(* LiveInv is inductive for one handle at a time.                          *)
THEOREM LiveInvariance ==
  ASSUME SingleHandle
  PROVE  Spec => []LiveInv
<1>. USE CoreAssumption, NullAssumption DEF SingleHandle
<1>1. Init => LiveInv
  BY DEF Init, LiveInv, HandleInv, ModeInv, UseInv, GlobalInv, OwnInv, ReadyInv, Running,
         Late, OpenPcs, RegionsOf, Zeroed
<1>2. TypeOK /\ LiveInv /\ [Next]_vars => LiveInv'
  <2>. SUFFICES ASSUME TypeOK, LiveInv, [Next]_vars PROVE LiveInv'
    OBVIOUS
  <2>. USE DEF LiveInv, At, Running, Late, Early, OpenPcs, ClosePcs, driver, request, globals, hook
  <2>0. NULL \notin live
    BY DEF TypeOK
  <2>1. CASE UNCHANGED vars
    BY <2>1 DEF vars, HandleInv, ModeInv, UseInv, GlobalInv, OwnInv, ReadyInv, RegionsOf
  <2>2. CASE Bugcheck
    BY <2>2 DEF Bugcheck, HandleInv, ModeInv, UseInv, GlobalInv, OwnInv, ReadyInv, RegionsOf
  <2>3. CASE DriverEntry \/ DrvUnload
    BY <2>3 DEF DriverEntry, DrvUnload, HandleInv, ModeInv, UseInv, GlobalInv, OwnInv,
                ReadyInv, RegionsOf
  <2>4. CASE DrvCreate
    <3>1. HandleInv' /\ ModeInv' /\ UseInv' /\ GlobalInv'
      BY <2>4 DEF DrvCreate, HandleInv, ModeInv, UseInv, GlobalInv
    <3>2. OwnInv' /\ ReadyInv'
      BY <2>4 DEF DrvCreate, OwnInv, ReadyInv, RegionsOf
    <3>. QED
      BY <3>1, <3>2
  <2>5. CASE AllocateGuestState
    <3>1. HandleInv' /\ ModeInv' /\ UseInv'
      BY <2>5 DEF AllocateGuestState, OpenFails, Goto, HandleInv, ModeInv, UseInv
    <3>2. GlobalInv'
      BY <2>5 DEF AllocateGuestState, OpenFails, Goto, HandleInv, ModeInv, GlobalInv, NewBlock
    <3>3. OwnInv' /\ ReadyInv'
      BY <2>5 DEF AllocateGuestState, OpenFails, Goto, OwnInv, ReadyInv, RegionsOf, Zeroed
    <3>. QED
      BY <3>1, <3>2, <3>3
  <2>6. CASE AllocateEptState
    <3>1. HandleInv' /\ ModeInv'
      BY <2>6 DEF AllocateEptState, OpenFails, Goto, HandleInv, ModeInv
    <3>2. UseInv'
      BY <2>0, <2>6 DEF AllocateEptState, OpenFails, Goto, UseInv, GlobalInv, Regions, Buffers
    <3>3. GlobalInv'
      BY <2>0, <2>6 DEF AllocateEptState, OpenFails, Goto, HandleInv, GlobalInv, NewBlock
    <3>4. OwnInv' /\ ReadyInv'
      BY <2>6 DEF AllocateEptState, OpenFails, Goto, OwnInv, ReadyInv, RegionsOf
    <3>. QED
      BY <3>1, <3>2, <3>3, <3>4
  <2>7. CASE EptCheckFeatures \/ CallRegionsDpc
    <3>1. HandleInv' /\ ModeInv' /\ UseInv' /\ GlobalInv'
      BY <2>7 DEF EptCheckFeatures, CallRegionsDpc, OpenFails, Goto, KeGenericCallDpc,
                  HandleInv, ModeInv, UseInv, GlobalInv
    <3>2. OwnInv' /\ ReadyInv'
      BY <2>7 DEF EptCheckFeatures, CallRegionsDpc, OpenFails, Goto, KeGenericCallDpc,
                  OwnInv, ReadyInv, RegionsOf
    <3>. QED
      BY <3>1, <3>2
  <2>8. CASE AllocatePageTable
    <3>1. HandleInv' /\ ModeInv' /\ UseInv'
      BY <2>8 DEF AllocatePageTable, OpenFails, Goto, HandleInv, ModeInv, UseInv
    <3>2. GlobalInv'
      BY <2>8 DEF AllocatePageTable, OpenFails, Goto, HandleInv, GlobalInv, NewBlock
    <3>3. OwnInv' /\ ReadyInv'
      BY <2>8 DEF AllocatePageTable, OpenFails, Goto, OwnInv, ReadyInv, RegionsOf
    <3>. QED
      BY <3>1, <3>2, <3>3
  <2>9. CASE CallLaunchDpc
    <3>1. HandleInv' /\ ModeInv' /\ UseInv' /\ GlobalInv'
      BY <2>9 DEF CallLaunchDpc, Goto, KeGenericCallDpc, HandleInv, ModeInv, UseInv, GlobalInv
    <3>2. OwnInv' /\ ReadyInv'
      BY <2>9 DEF CallLaunchDpc, Goto, KeGenericCallDpc, OwnInv, ReadyInv, RegionsOf
    <3>. QED
      BY <3>1, <3>2
  <2>10. CASE BroadcastReturns
    <3>1. HandleInv' /\ ModeInv' /\ UseInv' /\ GlobalInv'
      BY <2>10 DEF BroadcastReturns, BroadcastReturned, Goto, HandleInv, ModeInv, UseInv,
                   GlobalInv, TypeOK
    <3>2. OwnInv' /\ ReadyInv'
      BY <2>10 DEF BroadcastReturns, BroadcastReturned, Goto, OwnInv, ReadyInv, RegionsOf
    <3>. QED
      BY <3>1, <3>2
  <2>11. ASSUME NEW c \in Core, HookBuffer(c) \/ LateHookBuffer(c) PROVE LiveInv'
    <3>1. HandleInv' /\ ModeInv' /\ UseInv' /\ GlobalInv'
      BY <2>11 DEF HookBuffer, LateHookBuffer, PreAllocate, Goto, OpenSucceeds,
                   HandleInv, ModeInv, UseInv, GlobalInv
    <3>2. /\ live \subseteq live'
          /\ \A d \in Core :
               /\ RegionsOf(d)' = RegionsOf(d)
               /\ gs'[d].VmxonRegion = gs[d].VmxonRegion
               /\ gs'[d].VmcsRegion = gs[d].VmcsRegion
               /\ gs'[d].VmmStack = gs[d].VmmStack
               /\ gs'[d].MsrBitmap = gs[d].MsrBitmap
               /\ \/ gs'[d].PreAllocatedBuffer = gs[d].PreAllocatedBuffer
                  \/ /\ gs'[d].PreAllocatedBuffer \in live'
                     /\ gs'[d].PreAllocatedBuffer.kind \in Buffers
      BY <2>11 DEF HookBuffer, LateHookBuffer, PreAllocate, NewBlock, RegionsOf, Buffers,
                   TypeOK, VirtualMachineState
    <3>3. OwnInv'
      BY <2>11, <3>2 DEF HookBuffer, LateHookBuffer, PreAllocate, Goto, OpenSucceeds, OwnInv
    <3>4. ReadyInv'
      BY <2>11, <3>2 DEF HookBuffer, LateHookBuffer, PreAllocate, Goto, OpenSucceeds, ReadyInv
    <3>. QED
      BY <3>1, <3>3, <3>4
  <2>12. ASSUME NEW c \in Core, EptSplitLargePage(c), pc \in OpenPcs \ {"GuestState", "EptState"}
         PROVE  /\ \A d \in Core : /\ inUse[d] = {} => inUse'[d] = {}
                                   /\ inUse'[d] \subseteq inUse[d] \cup (splits' \ splits)
                /\ \A d \in Core : /\ gs'[d].VmxonRegion = gs[d].VmxonRegion
                                   /\ gs'[d].VmcsRegion = gs[d].VmcsRegion
                                   /\ gs'[d].VmmStack = gs[d].VmmStack
                                   /\ gs'[d].MsrBitmap = gs[d].MsrBitmap
                                   /\ gs'[d].PreAllocatedBuffer \in {NULL, gs[d].PreAllocatedBuffer}
                /\ splits' \subseteq live
                /\ \A b \in splits' : b.kind \in Buffers
    <3>1. gs[c].PreAllocatedBuffer # NULL
            => gs[c].PreAllocatedBuffer \in live /\ gs[c].PreAllocatedBuffer.kind \in Buffers
      BY <2>12 DEF OwnInv
    <3>. QED
      BY <2>12, <3>1 DEF EptSplitLargePage, GlobalInv, TypeOK, VirtualMachineState
  <2>13. ASSUME NEW c \in Core, Hook(c) PROVE LiveInv'
    <3>1. HandleInv' /\ ModeInv'
      BY <2>12, <2>13 DEF Hook, Goto, HandleInv, ModeInv
    <3>2. UseInv'
      BY <2>12, <2>13 DEF Hook, Goto, UseInv
    <3>3. GlobalInv'
      BY <2>12, <2>13 DEF Hook, Goto, GlobalInv
    <3>4. OwnInv' /\ ReadyInv'
      BY <2>12, <2>13 DEF Hook, Goto, OwnInv, ReadyInv, RegionsOf
    <3>. QED
      BY <3>1, <3>2, <3>3, <3>4
  <2>14. ASSUME NEW c \in Core, LateHook(c) PROVE LiveInv'
    <3>0. pc = "LateHook" /\ mode[c] # "root"
      BY <2>14 DEF LateHook, ModeInv
    <3>1. HandleInv' /\ ModeInv'
      BY <2>2, <2>12, <2>14, <3>0 DEF LateHook, VmcallFails, Goto, OpenSucceeds, HandleInv, ModeInv
    <3>2. UseInv'
      BY <2>2, <2>12, <2>14, <3>0 DEF LateHook, VmcallFails, Goto, OpenSucceeds, UseInv
    <3>3. GlobalInv'
      BY <2>2, <2>12, <2>14, <3>0
         DEF LateHook, VmcallFails, Goto, OpenSucceeds, GlobalInv, HandleInv
    <3>4. OwnInv' /\ ReadyInv'
      BY <2>2, <2>12, <2>14, <3>0 DEF LateHook, VmcallFails, Goto, OpenSucceeds, OwnInv, ReadyInv,
                                      RegionsOf
    <3>. QED
      BY <3>1, <3>2, <3>3, <3>4
  <2>15. ASSUME NEW c \in Core, AllocateStackAndBitmap(c) PROVE LiveInv'
    <3>1. HandleInv' /\ ModeInv' /\ UseInv' /\ GlobalInv'
      BY <2>15 DEF AllocateStackAndBitmap, OpenFails, Goto, HandleInv, ModeInv, UseInv, GlobalInv
    <3>2. ASSUME NEW d \in Core
          PROVE  /\ gs'[d].VmxonRegion = gs[d].VmxonRegion
                 /\ gs'[d].VmcsRegion = gs[d].VmcsRegion
                 /\ gs'[d].PreAllocatedBuffer = gs[d].PreAllocatedBuffer
                 /\ \/ gs'[d].VmmStack = gs[d].VmmStack
                    \/ gs'[d].VmmStack = NewBlock("VmmStack", d)
                          /\ NewBlock("VmmStack", d) \in live'
                 /\ \/ gs'[d].MsrBitmap = gs[d].MsrBitmap
                    \/ /\ gs'[d].VmmStack = NewBlock("VmmStack", d)
                       /\ gs'[d].MsrBitmap = NewBlock("MsrBitmap", d)
                       /\ NewBlock("MsrBitmap", d) \in live'
      BY <2>15 DEF AllocateStackAndBitmap, TypeOK, VirtualMachineState
    <3>3. TypeOK'
      BY TypingStep
    <3>4. NULL \notin live' /\ live \subseteq live' /\ pc = "Stacks"
      BY <2>15, <3>3 DEF TypeOK, AllocateStackAndBitmap
    <3>5. ASSUME NEW d \in Core
          PROVE  /\ NewBlock("VmmStack", d).kind \in Regions
                 /\ NewBlock("VmmStack", d).owner = d
                 /\ NewBlock("MsrBitmap", d).kind \in Regions
                 /\ NewBlock("MsrBitmap", d).owner = d
                 /\ NewBlock("VmmStack", d) # NULL
      BY NullAssumption DEF NewBlock, Regions, Block, Kind, TypeOK
    <3>6. OwnInv'
      <4>. SUFFICES ASSUME NEW d \in Core
           PROVE  /\ \A b \in RegionsOf(d)' : b # NULL => b.kind \in Regions /\ b.owner = d
                  /\ gs'[d].PreAllocatedBuffer # NULL
                       => gs'[d].PreAllocatedBuffer.kind \in Buffers
                  /\ RegionsOf(d)' \cup {gs'[d].PreAllocatedBuffer} \subseteq live' \cup {NULL}
        BY DEF OwnInv
      <4>1. /\ \A b \in RegionsOf(d) : b # NULL => b.kind \in Regions /\ b.owner = d
            /\ gs[d].PreAllocatedBuffer # NULL => gs[d].PreAllocatedBuffer.kind \in Buffers
            /\ RegionsOf(d) \cup {gs[d].PreAllocatedBuffer} \subseteq live \cup {NULL}
        BY <3>4 DEF OwnInv
      <4>. QED
        BY <4>1, <3>2, <3>4, <3>5 DEF RegionsOf
    <3>7. ReadyInv'
      <4>1. pc' \in {"Idle", "Stacks"}
        BY <2>15, <3>4 DEF AllocateStackAndBitmap, OpenFails, Goto
      <4>. QED
        BY <4>1, <3>2, <3>4, <3>5 DEF ReadyInv
    <3>. QED
      BY <3>1, <3>6, <3>7
  <2>16. ASSUME NEW c \in Core, TestVmcall(c) PROVE LiveInv'
    <3>0. pc = "Test" /\ mode[c] # "root"
      BY <2>16 DEF TestVmcall, ModeInv
    <3>1. HandleInv' /\ ModeInv' /\ UseInv' /\ GlobalInv'
      BY <2>2, <2>16, <3>0 DEF TestVmcall, VmcallFails, Goto, HandleInv, ModeInv, UseInv, GlobalInv
    <3>2. OwnInv' /\ ReadyInv'
      BY <2>2, <2>16, <3>0 DEF TestVmcall, VmcallFails, Goto, OwnInv, ReadyInv, RegionsOf
    <3>. QED
      BY <3>1, <3>2
  <2>17. CASE NotifyAllToInvalidateEpt
    <3>1. HandleInv' /\ ModeInv' /\ UseInv' /\ GlobalInv'
      BY <2>2, <2>17
         DEF NotifyAllToInvalidateEpt, OpenSucceeds, HandleInv, ModeInv, UseInv, GlobalInv
    <3>2. OwnInv' /\ ReadyInv'
      BY <2>2, <2>17 DEF NotifyAllToInvalidateEpt, OpenSucceeds, OwnInv, ReadyInv, RegionsOf
    <3>. QED
      BY <3>1, <3>2
  <2>18. CASE DrvClose
    <3>1. HandleInv' /\ ModeInv' /\ UseInv' /\ GlobalInv'
      BY <2>18 DEF DrvClose, KeGenericCallDpc, HandleInv, ModeInv, UseInv, GlobalInv
    <3>2. OwnInv' /\ ReadyInv'
      BY <2>18 DEF DrvClose, KeGenericCallDpc, OwnInv, ReadyInv, RegionsOf
    <3>. QED
      BY <3>1, <3>2
  <2>19. ASSUME NEW c \in Core, VmxAllocateVmxonRegion(c) PROVE LiveInv'
    <3>0. /\ NewBlock("VmxonRegion", c) \in Block
          /\ NewBlock("VmxonRegion", c).kind = "VmxonRegion"
          /\ NewBlock("VmxonRegion", c).owner = c
      BY DEF NewBlock, Block, Kind, TypeOK
    <3>1. HandleInv' /\ ModeInv' /\ GlobalInv'
      BY <2>19 DEF VmxAllocateVmxonRegion, DpcAt, HandleInv, ModeInv, GlobalInv, TypeOK
    <3>2. UseInv'
      BY <2>19, <3>0 DEF VmxAllocateVmxonRegion, UseInv, Regions, TypeOK
    <3>3. ASSUME NEW d \in Core
          PROVE  /\ \/ gs'[d].VmxonRegion = gs[d].VmxonRegion
                    \/ d = c /\ gs'[d].VmxonRegion = NewBlock("VmxonRegion", c)
                         /\ NewBlock("VmxonRegion", c) \in live'
                 /\ dpc'[d] \in {"second", "sync", "done"} /\ dpc'[d] # dpc[d]
                      => dpc'[d] = "second" /\ gs'[d].VmxonRegion = NewBlock("VmxonRegion", c)
                 /\ gs'[d].VmcsRegion = gs[d].VmcsRegion
                 /\ gs'[d].VmmStack = gs[d].VmmStack
                 /\ gs'[d].MsrBitmap = gs[d].MsrBitmap
                 /\ gs'[d].PreAllocatedBuffer = gs[d].PreAllocatedBuffer
      BY <2>19 DEF VmxAllocateVmxonRegion, DpcAt, TypeOK, VirtualMachineState
    <3>4. live \subseteq live' /\ UNCHANGED request /\ pc = "RegionsDpc"
      BY <2>19 DEF VmxAllocateVmxonRegion
    <3>5. OwnInv'
      BY <3>0, <3>3, <3>4 DEF OwnInv, RegionsOf, Regions
    <3>6. ReadyInv'
      BY <3>0, <3>3, <3>4 DEF ReadyInv
    <3>. QED
      BY <3>1, <3>2, <3>5, <3>6
  <2>20. ASSUME NEW c \in Core, VmxAllocateVmcsRegion(c) PROVE LiveInv'
    <3>0. /\ NewBlock("VmcsRegion", c) \in Block
          /\ NewBlock("VmcsRegion", c).kind = "VmcsRegion"
          /\ NewBlock("VmcsRegion", c).owner = c
      BY DEF NewBlock, Block, Kind, TypeOK
    <3>1. HandleInv' /\ ModeInv' /\ GlobalInv' /\ UseInv'
      BY <2>20 DEF VmxAllocateVmcsRegion, DpcAt, HandleInv, ModeInv, GlobalInv, UseInv, TypeOK
    <3>3. ASSUME NEW d \in Core
          PROVE  /\ \/ gs'[d].VmcsRegion = gs[d].VmcsRegion
                    \/ d = c /\ gs'[d].VmcsRegion = NewBlock("VmcsRegion", c)
                         /\ NewBlock("VmcsRegion", c) \in live'
                 /\ dpc'[d] \in {"second", "sync", "done"} /\ dpc'[d] # dpc[d]
                      => dpc[d] = "second" /\ gs'[d].VmcsRegion = NewBlock("VmcsRegion", c)
                 /\ gs'[d].VmxonRegion = gs[d].VmxonRegion
                 /\ gs'[d].VmmStack = gs[d].VmmStack
                 /\ gs'[d].MsrBitmap = gs[d].MsrBitmap
                 /\ gs'[d].PreAllocatedBuffer = gs[d].PreAllocatedBuffer
      BY <2>20 DEF VmxAllocateVmcsRegion, DpcAt, TypeOK, VirtualMachineState
    <3>4. live \subseteq live' /\ UNCHANGED request /\ pc = "RegionsDpc"
      BY <2>20 DEF VmxAllocateVmcsRegion
    <3>5. OwnInv'
      BY <3>0, <3>3, <3>4 DEF OwnInv, RegionsOf, Regions
    <3>6. ReadyInv'
      BY <3>0, <3>3, <3>4 DEF ReadyInv
    <3>. QED
      BY <3>1, <3>5, <3>6
  <2>21. ASSUME NEW c \in Core, VmxVirtualizeCurrentSystem(c) PROVE LiveInv'
    <3>0. CASE Bugcheck
      BY <2>2, <3>0
    <3>1. CASE ~Bugcheck
      <4>1. /\ pc = "LaunchDpc"
            /\ UNCHANGED <<driver, machine, request, live, globals, gs, splits>>
            /\ dpc' = [dpc EXCEPT ![c] = "sync"]
            /\ \/ mode' = [mode EXCEPT ![c] = "off"] /\ inUse' = [inUse EXCEPT ![c] = {}]
               \/ /\ mode' = [mode EXCEPT ![c] = "guest"]
                  /\ inUse' = [inUse EXCEPT ![c] = @ \cup VmcsBlocks(c)]
        BY <2>21, <3>1 DEF VmxVirtualizeCurrentSystem, DpcAt
      <4>2. HandleInv' /\ ModeInv' /\ GlobalInv'
        BY <4>1 DEF HandleInv, ModeInv, GlobalInv, TypeOK
      <4>3. OwnInv' /\ ReadyInv'
        BY <4>1 DEF OwnInv, ReadyInv, RegionsOf
      <4>4. \A b \in VmcsBlocks(c) :
              /\ b \in live
              /\ b.kind \in Buffers \cup {"PageTable"} \/ (b.kind \in Regions /\ b.owner = c)
        BY <2>0, <4>1 DEF VmcsBlocks, OwnInv, ReadyInv, GlobalInv, RegionsOf
      <4>5. UseInv'
        BY <4>1, <4>4 DEF UseInv, TypeOK
      <4>. QED
        BY <4>2, <4>3, <4>5
    <3>. QED
      BY <3>0, <3>1
  <2>22. ASSUME NEW c \in Core, VmcallVmxoff(c) PROVE LiveInv'
    <3>0. CASE Bugcheck
      BY <2>2, <3>0
    <3>1. CASE ~Bugcheck
      <4>1. /\ pc = "TerminateDpc"
            /\ UNCHANGED <<driver, machine, request, live, globals, splits>>
            /\ dpc' = [dpc EXCEPT ![c] = "second"]
            /\ gs' = [gs EXCEPT ![c].IsVmxoffExecuted = TRUE]
            /\ mode' = [mode EXCEPT ![c] = "off"]
            /\ inUse' = [inUse EXCEPT ![c] = {}]
        BY <2>22, <3>1 DEF VmcallVmxoff, VmcallFails, ModeInv, DpcAt
      <4>2. HandleInv' /\ ModeInv' /\ GlobalInv' /\ UseInv'
        BY <4>1 DEF HandleInv, ModeInv, GlobalInv, UseInv, TypeOK
      <4>3. OwnInv' /\ ReadyInv'
        BY <4>1 DEF OwnInv, ReadyInv, RegionsOf, TypeOK, VirtualMachineState
      <4>. QED
        BY <4>2, <4>3
    <3>. QED
      BY <3>0, <3>1
  <2>23. ASSUME NEW c \in Core, FreeRegions(c) PROVE LiveInv'
    <3>0. CASE Bugcheck
      BY <2>2, <3>0
    <3>1. CASE ~Bugcheck
      <4>1. /\ pc = "TerminateDpc" /\ dpc[c] = "second"
            /\ RegionsOf(c) \subseteq live /\ live' = live \ RegionsOf(c)
            /\ dpc' = [dpc EXCEPT ![c] = "sync"]
            /\ UNCHANGED <<driver, machine, request, globals, hook, mode>>
        BY <2>23, <3>1 DEF FreeRegions, DpcAt
      <4>2. HandleInv' /\ ModeInv'
        BY <4>1 DEF HandleInv, ModeInv, TypeOK
      <4>3. \A b \in RegionsOf(c) : b.kind \in Regions /\ b.owner = c
        BY <2>0, <4>1 DEF OwnInv
      <4>4. UseInv'
        BY <4>1, <4>3 DEF UseInv, ModeInv, Regions, Buffers
      <4>5. GlobalInv'
        BY <2>0, <4>1, <4>3 DEF GlobalInv, Regions
      <4>6. OwnInv' /\ ReadyInv'
        BY <4>1 DEF OwnInv, ReadyInv, RegionsOf
      <4>. QED
        BY <4>2, <4>4, <4>5, <4>6
    <3>. QED
      BY <3>0, <3>1
  <2>24. ASSUME NEW c \in Core, KeSignalCallDpcDone(c) PROVE LiveInv'
    <3>1. HandleInv' /\ ModeInv' /\ UseInv' /\ GlobalInv'
      BY <2>24 DEF KeSignalCallDpcDone, DpcAt, HandleInv, ModeInv, UseInv, GlobalInv, TypeOK
    <3>2. OwnInv' /\ ReadyInv'
      BY <2>24 DEF KeSignalCallDpcDone, DpcAt, OwnInv, ReadyInv, RegionsOf, TypeOK
    <3>. QED
      BY <3>1, <3>2
  <2>25. CASE SplitsFreed \/ FreePageTable \/ FreeGuestState \/ FreeEptState
    <3>1. \A c \in Core : inUse[c] = {}
      BY <2>25 DEF SplitsFreed, FreePageTable, FreeGuestState, FreeEptState, FreeGlobal,
                   ModeInv, TypeOK
    <3>2. HandleInv' /\ ModeInv' /\ UseInv' /\ GlobalInv'
      BY <2>25, <3>1 DEF SplitsFreed, FreePageTable, FreeGuestState, FreeEptState, FreeGlobal,
                   Goto, HandleInv, ModeInv, UseInv, GlobalInv
    <3>3. OwnInv' /\ ReadyInv'
      BY <2>25 DEF SplitsFreed, FreePageTable, FreeGuestState, FreeEptState, FreeGlobal,
                   Goto, OwnInv, ReadyInv, RegionsOf
    <3>. QED
      BY <3>2, <3>3
  <2>26. ASSUME NEW b \in splits, FreeSplit(b) PROVE LiveInv'
    <3>0. CASE Bugcheck
      BY <2>2, <3>0
    <3>1. CASE ~Bugcheck
      <4>1. \A c \in Core : inUse[c] = {}
        BY <2>26 DEF FreeSplit, ModeInv, TypeOK
      <4>2. HandleInv' /\ ModeInv' /\ UseInv' /\ GlobalInv'
        BY <2>26, <3>1, <4>1 DEF FreeSplit, HandleInv, ModeInv, UseInv, GlobalInv
      <4>3. OwnInv' /\ ReadyInv'
        BY <2>26, <3>1 DEF FreeSplit, OwnInv, ReadyInv, RegionsOf
      <4>. QED
        BY <4>2, <4>3
    <3>. QED
      BY <3>0, <3>1
  <2>27. ASSUME NEW c \in Core, LostVmexit(c) PROVE LiveInv'
    BY <2>2, <2>27 DEF LostVmexit
  <2>. HIDE DEF LiveInv
  <2>. QED
    BY <2>1, <2>3, <2>4, <2>5, <2>6, <2>7, <2>8, <2>9, <2>10, <2>11, <2>13, <2>14, <2>15,
       <2>16, <2>17, <2>18, <2>19, <2>20, <2>21, <2>22, <2>23, <2>24, <2>25, <2>26, <2>27
       DEF Next, RequestStep, DpcStep
<1>. QED
  BY Typing, <1>1, <1>2, PTL DEF Spec

(* With one handle at a time and VMPTRLD not failing, whatever else fails, *)
(* no core in VMX operation ever refers to freed memory.                   *)
THEOREM NoDanglingHardware ==
  ASSUME SingleHandle
  PROVE  Spec => []LiveWhileVirtualized
<1>1. LiveInv /\ TypeOK => LiveWhileVirtualized
  BY DEF LiveInv, UseInv, ModeInv, GlobalInv, LiveWhileVirtualized, TypeOK, Running
<1>. QED
  BY LiveInvariance, Typing, <1>1, PTL

(* Under the same assumptions the close frees what the cores share only    *)
(* once every core has left VMX operation.                                 *)
THEOREM VmxOffBeforeFree ==
  ASSUME SingleHandle
  PROVE  Spec => []OffBeforeFree
<1>1. LiveInv /\ TypeOK => OffBeforeFree
  BY DEF LiveInv, ModeInv, OffBeforeFree, TypeOK, Running, Late, Early, ClosePcs
<1>. QED
  BY LiveInvariance, Typing, <1>1, PTL

--------------------------------------------------------------------------
(* LaunchOnlyWhenAllReady                                                  *)

(* ReadyInv alone is inductive, whatever fails and however often the       *)
(* device is opened: a phase starts only when every core ended the last.   *)
LEMMA ReadyStep == TypeOK /\ ReadyInv /\ [Next]_vars => ReadyInv'
<1>. USE NullAssumption
<1>. SUFFICES ASSUME TypeOK, ReadyInv, [Next]_vars PROVE ReadyInv'
  OBVIOUS
<1>. USE DEF ReadyInv, At, OpenPcs, ClosePcs, driver, request, globals, hook
<1>0. ASSUME NEW k \in Kind, NEW c \in Core PROVE NewBlock(k, c) # NULL
  BY DEF NewBlock, Block, TypeOK
<1>1. CASE UNCHANGED vars
  BY <1>1 DEF vars, RegionsOf
<1>2. CASE Bugcheck
  BY <1>2 DEF Bugcheck, RegionsOf
<1>3. CASE DriverEntry \/ DrvUnload \/ DrvCreate
  BY <1>3 DEF DriverEntry, DrvUnload, DrvCreate, RegionsOf
<1>4. CASE AllocateGuestState
  BY <1>4 DEF AllocateGuestState, OpenFails, Goto, Zeroed
<1>5. CASE AllocateEptState \/ EptCheckFeatures \/ AllocatePageTable
  BY <1>5 DEF AllocateEptState, EptCheckFeatures, AllocatePageTable, OpenFails, Goto
<1>6. CASE CallRegionsDpc
  BY <1>6 DEF CallRegionsDpc, Goto, KeGenericCallDpc
<1>7. CASE CallLaunchDpc
  BY <1>7 DEF CallLaunchDpc, Goto, RegionsOf
<1>8. CASE BroadcastReturns
  BY <1>8 DEF BroadcastReturns, BroadcastReturned, Goto
<1>9. CASE DrvClose \/ NotifyAllToInvalidateEpt \/ SplitsFreed \/ FreePageTable
             \/ FreeGuestState \/ FreeEptState
  BY <1>2, <1>9 DEF DrvClose, NotifyAllToInvalidateEpt, OpenSucceeds, SplitsFreed, FreePageTable,
              FreeGuestState, FreeEptState, FreeGlobal, Goto
<1>10. ASSUME NEW c \in Core,
              HookBuffer(c) \/ LateHookBuffer(c) \/ EptSplitLargePage(c)
       PROVE  \A d \in Core : /\ gs'[d].VmxonRegion = gs[d].VmxonRegion
                              /\ gs'[d].VmcsRegion = gs[d].VmcsRegion
                              /\ gs'[d].VmmStack = gs[d].VmmStack
                              /\ gs'[d].MsrBitmap = gs[d].MsrBitmap
  <2>1. \/ gs' = gs
        \/ \E b \in {NULL, NewBlock("BufferBeforeLaunch", c), NewBlock("BufferAfterLaunch", c)} :
             gs' = [gs EXCEPT ![c].PreAllocatedBuffer = b]
    BY <1>10 DEF HookBuffer, LateHookBuffer, PreAllocate, EptSplitLargePage
  <2>. QED
    BY <2>1 DEF TypeOK, VirtualMachineState
<1>11. ASSUME NEW c \in Core, HookBuffer(c) \/ LateHookBuffer(c) PROVE ReadyInv'
  <2>1. /\ pc' \in {"Hook", "RegionsCall", "LateHook", "Idle"}
        /\ pc \in OpenPcs \ {"GuestState"}
    BY <1>11 DEF HookBuffer, LateHookBuffer, PreAllocate, Goto, OpenSucceeds
  <2>. QED
    BY <1>10, <1>11, <2>1
<1>12. ASSUME NEW c \in Core, Hook(c) \/ LateHook(c) PROVE ReadyInv'
  <2>1. CASE Bugcheck
    BY <1>2, <2>1
  <2>2. CASE ~Bugcheck
    <3>1. /\ pc' \in {"RegionsCall", "NotifyEpt", "Idle"}
          /\ pc \in OpenPcs \ {"GuestState"}
          /\ UNCHANGED gs \/ EptSplitLargePage(c)
      BY <1>12, <2>2 DEF Hook, LateHook, Goto, OpenSucceeds
    <3>. QED
      BY <1>10, <3>1
  <2>. QED
    BY <2>1, <2>2
<1>13. ASSUME NEW c \in Core, AllocateStackAndBitmap(c) PROVE ReadyInv'
  <2>1. ASSUME NEW d \in Core
        PROVE  /\ gs'[d].VmxonRegion = gs[d].VmxonRegion
               /\ gs'[d].VmcsRegion = gs[d].VmcsRegion
               /\ \/ gs'[d].VmmStack = gs[d].VmmStack
                  \/ gs'[d].VmmStack = NewBlock("VmmStack", d)
               /\ \/ gs'[d].MsrBitmap = gs[d].MsrBitmap
                  \/ gs'[d].VmmStack = NewBlock("VmmStack", d)
    BY <1>13 DEF AllocateStackAndBitmap, TypeOK, VirtualMachineState
  <2>2. pc = "Stacks" /\ pc' \in {"Idle", "Stacks"}
    BY <1>13 DEF AllocateStackAndBitmap, OpenFails, Goto
  <2>3. \A d \in Core : NewBlock("VmmStack", d) # NULL
    BY <1>0 DEF Kind
  <2>. QED
    BY <2>1, <2>2, <2>3
<1>14. ASSUME NEW c \in Core, TestVmcall(c) PROVE ReadyInv'
  BY <1>2, <1>14 DEF TestVmcall, OpenFails, Goto
<1>15. ASSUME NEW c \in Core, VmxAllocateVmxonRegion(c) PROVE ReadyInv'
  <2>1. ASSUME NEW d \in Core
        PROVE  /\ \/ gs'[d].VmxonRegion = gs[d].VmxonRegion
                  \/ gs'[d].VmxonRegion = NewBlock("VmxonRegion", c)
               /\ dpc'[d] \in {"second", "sync", "done"} /\ dpc'[d] # dpc[d]
                    => dpc'[d] = "second" /\ gs'[d].VmxonRegion = NewBlock("VmxonRegion", c)
               /\ gs'[d].VmcsRegion = gs[d].VmcsRegion
               /\ gs'[d].VmmStack = gs[d].VmmStack
               /\ gs'[d].MsrBitmap = gs[d].MsrBitmap
    BY <1>15 DEF VmxAllocateVmxonRegion, DpcAt, TypeOK, VirtualMachineState
  <2>2. pc = "RegionsDpc" /\ UNCHANGED request /\ NewBlock("VmxonRegion", c) # NULL
    BY <1>0, <1>15 DEF VmxAllocateVmxonRegion, Kind
  <2>. QED
    BY <2>1, <2>2
<1>16. ASSUME NEW c \in Core, VmxAllocateVmcsRegion(c) PROVE ReadyInv'
  <2>1. ASSUME NEW d \in Core
        PROVE  /\ \/ gs'[d].VmcsRegion = gs[d].VmcsRegion
                  \/ gs'[d].VmcsRegion = NewBlock("VmcsRegion", c)
               /\ dpc'[d] \in {"second", "sync", "done"} /\ dpc'[d] # dpc[d]
                    => dpc[d] = "second" /\ gs'[d].VmcsRegion = NewBlock("VmcsRegion", c)
               /\ gs'[d].VmxonRegion = gs[d].VmxonRegion
               /\ gs'[d].VmmStack = gs[d].VmmStack
               /\ gs'[d].MsrBitmap = gs[d].MsrBitmap
    BY <1>16 DEF VmxAllocateVmcsRegion, DpcAt, TypeOK, VirtualMachineState
  <2>2. pc = "RegionsDpc" /\ UNCHANGED request /\ NewBlock("VmcsRegion", c) # NULL
    BY <1>0, <1>16 DEF VmxAllocateVmcsRegion, Kind
  <2>. QED
    BY <2>1, <2>2
<1>17. ASSUME NEW c \in Core, VmxVirtualizeCurrentSystem(c) PROVE ReadyInv'
  BY <1>2, <1>17 DEF VmxVirtualizeCurrentSystem, RegionsOf
<1>18. ASSUME NEW c \in Core, VmcallVmxoff(c) \/ FreeRegions(c) \/ LostVmexit(c)
       PROVE  ReadyInv'
  BY <1>2, <1>18 DEF VmcallVmxoff, FreeRegions, LostVmexit
<1>19. ASSUME NEW c \in Core, KeSignalCallDpcDone(c) PROVE ReadyInv'
  BY <1>19 DEF KeSignalCallDpcDone, DpcAt, TypeOK, RegionsOf
<1>20. ASSUME NEW b \in splits, FreeSplit(b) PROVE ReadyInv'
  BY <1>2, <1>20 DEF FreeSplit
<1>. HIDE DEF ReadyInv
<1>. QED
  BY <1>1, <1>3, <1>4, <1>5, <1>6, <1>7, <1>8, <1>9, <1>11, <1>12, <1>13, <1>14,
     <1>15, <1>16, <1>17, <1>18, <1>19, <1>20
     DEF Next, RequestStep, DpcStep

(* Whatever fails, no core launches a guest before every core has its      *)
(* VMXON region, VMCS, stack and MSR bitmap.                               *)
THEOREM LaunchAfterRendezvous == Spec => LaunchOnlyWhenAllReady
<1>. DEFINE Ready == \A c \in Core : mode[c] # "guest" /\ mode'[c] = "guest" =>
                       \A d \in Core : NULL \notin RegionsOf(d)
<1>1. Init => ReadyInv
  BY DEF Init, ReadyInv, OpenPcs
<1>2. TypeOK /\ ReadyInv /\ [Next]_vars => [Ready]_vars
  <2>. SUFFICES ASSUME TypeOK, ReadyInv, Next PROVE Ready
    OBVIOUS
  <2>1. CASE UNCHANGED mode
    BY <2>1
  <2>2. CASE \E c \in Core : VmxAllocateVmxonRegion(c) \/ VmcallVmxoff(c)
    BY <2>2 DEF VmxAllocateVmxonRegion, VmcallVmxoff, Bugcheck, TypeOK
  <2>3. CASE \E c \in Core : VmxVirtualizeCurrentSystem(c)
    <3>1. pc = "LaunchDpc"
      BY <2>3 DEF VmxVirtualizeCurrentSystem, At
    <3>. QED
      BY <3>1 DEF ReadyInv
  <2>4. \/ UNCHANGED mode
        \/ \E c \in Core : VmxAllocateVmxonRegion(c) \/ VmcallVmxoff(c)
                            \/ VmxVirtualizeCurrentSystem(c)
    <3>1. DriverEntry \/ DrvUnload \/ DrvCreate \/ DrvClose => UNCHANGED mode
      BY DEF DriverEntry, DrvUnload, DrvCreate, DrvClose
    <3>2. RequestStep => UNCHANGED mode
      BY DEF RequestStep, AllocateGuestState, AllocateEptState, EptCheckFeatures,
             AllocatePageTable, CallRegionsDpc, BroadcastReturns, CallLaunchDpc,
             NotifyAllToInvalidateEpt, SplitsFreed, FreePageTable, FreeGuestState,
             FreeEptState, FreeGlobal, HookBuffer, Hook, AllocateStackAndBitmap, TestVmcall,
             LateHookBuffer, LateHook, FreeSplit, PreAllocate, Bugcheck
    <3>3. ASSUME NEW c \in Core
          PROVE  VmxAllocateVmcsRegion(c) \/ FreeRegions(c) \/ KeSignalCallDpcDone(c)
                   \/ LostVmexit(c) => UNCHANGED mode
      BY DEF VmxAllocateVmcsRegion, FreeRegions, KeSignalCallDpcDone, LostVmexit, Bugcheck
    <3>. QED
      BY <3>1, <3>2, <3>3 DEF Next, DpcStep
  <2>. QED
    BY <2>1, <2>2, <2>3, <2>4
<1>. QED
  BY Typing, ReadyStep, <1>1, <1>2, PTL DEF Spec, LaunchOnlyWhenAllReady

--------------------------------------------------------------------------
(* OpenMeansVirtualized, NativeWhenClosed and the user's view              *)

(* What these theorems assume besides: every allocation that may fail      *)
(* fails before the first VMXON, or in a DPC, whose rendezvous then never  *)
(* returns; and a core whose regions are allocated gets its VMCS loaded.   *)
(* VMLAUNCH may fail, for then the kernel stops.                           *)
CleanFailures ==
  SingleHandle /\ Faults \cap {"VmmStack", "MsrBitmap", "Vmclear"} = {}

(* All cores change sides in the two broadcasts, and nowhere else.         *)
LaunchInv ==
  \A c \in Core :
    /\ mode[c] = "root" => pc \in {"RegionsDpc", "Stacks", "LaunchDpc"}
    /\ pc = "RegionsDpc" /\ dpc[c] \in {"second", "sync", "done"} => mode[c] = "root"
    /\ pc = "Stacks" => mode[c] = "root"
    /\ pc = "LaunchDpc" => mode[c] = (IF dpc[c] = "queued" THEN "root" ELSE "guest")
    /\ pc \in Late \/ (pc = "Idle" /\ handles > 0) => mode[c] = "guest"
    /\ pc = "TerminateDpc" /\ dpc[c] = "queued" => mode[c] = "guest"

(* With no failure half way, every core follows the others.                *)
LEMMA LaunchInvStep ==
  ASSUME CleanFailures
  PROVE  TypeOK /\ LiveInv /\ LaunchInv /\ [Next]_vars => LaunchInv'
<1>. USE CoreAssumption DEF CleanFailures, SingleHandle
<1>. SUFFICES ASSUME TypeOK, LiveInv, LaunchInv, [Next]_vars PROVE LaunchInv'
  OBVIOUS
<1>0. /\ HandleInv /\ ModeInv
      /\ mode \in [Core -> {"off", "root", "guest"}]
      /\ dpc \in [Core -> {"none", "queued", "second", "sync", "done", "returned"}]
  BY DEF LiveInv, TypeOK
<1>. USE DEF LaunchInv, At, Late, driver, request, globals, hook
<1>1. CASE UNCHANGED vars
  BY <1>1 DEF vars
<1>2. CASE Bugcheck
  BY <1>2 DEF Bugcheck
<1>3. CASE DriverEntry \/ DrvUnload \/ DrvCreate \/ DrvClose
  BY <1>0, <1>3 DEF DriverEntry, DrvUnload, DrvCreate, DrvClose, KeGenericCallDpc, HandleInv
<1>4. CASE AllocateGuestState \/ AllocateEptState \/ EptCheckFeatures \/ AllocatePageTable
  BY <1>0, <1>4 DEF AllocateGuestState, AllocateEptState, EptCheckFeatures,
     AllocatePageTable, OpenFails, Goto, HandleInv
<1>5. CASE CallRegionsDpc \/ CallLaunchDpc
  BY <1>0, <1>5 DEF CallRegionsDpc, CallLaunchDpc, Goto, KeGenericCallDpc
<1>6. CASE BroadcastReturns
  BY <1>0, <1>6 DEF BroadcastReturns, BroadcastReturned, Goto, ModeInv
<1>7. CASE NotifyAllToInvalidateEpt \/ SplitsFreed
  BY <1>0, <1>2, <1>7 DEF NotifyAllToInvalidateEpt, SplitsFreed, OpenSucceeds, Goto
<1>8. CASE FreePageTable \/ FreeGuestState \/ FreeEptState
  BY <1>0, <1>8 DEF FreePageTable, FreeGuestState, FreeEptState, FreeGlobal, Goto, HandleInv
<1>9. ASSUME NEW c \in Core, HookBuffer(c) \/ LateHookBuffer(c) \/ Hook(c) PROVE LaunchInv'
  BY <1>0, <1>9 DEF HookBuffer, LateHookBuffer, Hook, PreAllocate, Goto, OpenSucceeds
<1>10. ASSUME NEW c \in Core, AllocateStackAndBitmap(c) PROVE LaunchInv'
  BY <1>10 DEF AllocateStackAndBitmap
<1>11. ASSUME NEW c \in Core, TestVmcall(c) PROVE LaunchInv'
  BY <1>2, <1>11 DEF TestVmcall, VmcallFails, Goto
<1>12. ASSUME NEW c \in Core, LateHook(c) PROVE LaunchInv'
  BY <1>2, <1>12 DEF LateHook, VmcallFails, Goto, OpenSucceeds
<1>13. ASSUME NEW b \in splits, FreeSplit(b) PROVE LaunchInv'
  BY <1>2, <1>13 DEF FreeSplit
<1>14. ASSUME NEW c \in Core, VmxAllocateVmxonRegion(c) \/ VmxAllocateVmcsRegion(c)
       PROVE  LaunchInv'
  BY <1>0, <1>14 DEF VmxAllocateVmxonRegion, VmxAllocateVmcsRegion, DpcAt
<1>15. ASSUME NEW c \in Core, VmxVirtualizeCurrentSystem(c) PROVE LaunchInv'
  BY <1>0, <1>2, <1>15 DEF VmxVirtualizeCurrentSystem, DpcAt
<1>16. ASSUME NEW c \in Core, VmcallVmxoff(c) PROVE LaunchInv'
  BY <1>0, <1>2, <1>16 DEF VmcallVmxoff, VmcallFails, DpcAt
<1>17. ASSUME NEW c \in Core, FreeRegions(c) \/ KeSignalCallDpcDone(c) \/ LostVmexit(c)
       PROVE  LaunchInv'
  BY <1>0, <1>2, <1>17 DEF FreeRegions, KeSignalCallDpcDone, LostVmexit, DpcAt
<1>. HIDE DEF LaunchInv
<1>. QED
  BY <1>1, <1>3, <1>4, <1>5, <1>6, <1>7, <1>8, <1>9, <1>10, <1>11, <1>12, <1>13, <1>14,
     <1>15, <1>16, <1>17 DEF Next, RequestStep, DpcStep

LEMMA LaunchInvariance ==
  ASSUME CleanFailures
  PROVE  Spec => []LaunchInv
<1>1. SingleHandle
  BY DEF CleanFailures
<1>2. Init => LaunchInv
  BY DEF Init, LaunchInv, Late
<1>. QED
  BY <1>1, <1>2, LaunchInvStep, LiveInvariance, Typing, PTL DEF Spec

(* An open handle means that every core runs a guest: HvVmxInitialize may  *)
(* test one core for all, since none of them can be left behind.           *)
THEOREM OpenVirtualizesAll ==
  ASSUME CleanFailures
  PROVE  Spec => []OpenMeansVirtualized
<1>1. LaunchInv => OpenMeansVirtualized
  BY DEF LaunchInv, OpenMeansVirtualized
<1>. QED
  BY <1>1, LaunchInvariance, PTL

(* With no handle open and no request under way no core is in VMX          *)
(* operation, so that the driver may be unloaded.                          *)
THEOREM ClosedIsNative ==
  ASSUME CleanFailures
  PROVE  Spec => []NativeWhenClosed
<1>1. SingleHandle
  BY DEF CleanFailures
<1>2. TypeOK /\ LiveInv /\ LaunchInv => NativeWhenClosed
  BY DEF TypeOK, LiveInv, ModeInv, LaunchInv, NativeWhenClosed, Running, Late
<1>. QED
  BY <1>1, <1>2, LaunchInvariance, LiveInvariance, Typing, PTL

Guests == {c \in Core : mode[c] = "guest"}

(* The request's steps are those of Hypervisor, and so are the launch and  *)
(* the VMXOFF of a core; the allocations and the frees are invisible.      *)
LEMMA RefinesStep ==
  ASSUME CleanFailures
  PROVE  TypeOK /\ LiveInv /\ LaunchInv /\ [Next]_vars => [H!Next]_H!vars
<1>. USE CoreAssumption DEF CleanFailures, SingleHandle
<1>. SUFFICES ASSUME TypeOK, LiveInv, LaunchInv, [Next]_vars PROVE [H!Next]_H!vars
  OBVIOUS
<1>0. /\ HandleInv /\ ModeInv
      /\ mode \in [Core -> {"off", "root", "guest"}]
  BY DEF LiveInv, TypeOK
<1>. USE DEF LaunchInv, At, Late, driver, request, globals, hook
<1>i. ASSUME Phase' = Phase, Guests' = Guests PROVE [H!Next]_H!vars
  BY <1>i DEF H!vars, Guests
<1>k. /\ pc \in OpenPcs => Phase = "opening"
      /\ pc \in ClosePcs => Phase = "closing"
      /\ pc = "Idle" => Phase = IF handles > 0 THEN "open" ELSE "closed"
  BY DEF Phase, OpenPcs, ClosePcs
<1>n. /\ pc' \in OpenPcs => Phase' = "opening"
      /\ pc' \in ClosePcs => Phase' = "closing"
      /\ pc' = "Idle" => Phase' = IF handles' > 0 THEN "open" ELSE "closed"
  BY DEF Phase, OpenPcs, ClosePcs
<1>p. ASSUME pc' = pc, handles' = handles PROVE Phase' = Phase
  BY <1>k, <1>n, <1>p DEF TypeOK, Pcs
<1>s. ASSUME pc' = pc, handles' = handles, mode' = mode PROVE [H!Next]_H!vars
  BY <1>i, <1>p, <1>s DEF Guests
<1>o. ASSUME pc \in OpenPcs, pc' \in OpenPcs, mode' = mode PROVE [H!Next]_H!vars
  BY <1>i, <1>k, <1>n, <1>o DEF Guests
<1>c. ASSUME pc \in ClosePcs, pc' \in ClosePcs, mode' = mode PROVE [H!Next]_H!vars
  BY <1>i, <1>k, <1>n, <1>c DEF Guests
<1>f. ASSUME pc \in Early, OpenFails, mode' = mode PROVE [H!Next]_H!vars
  <2>1. Phase = "opening" /\ Phase' = "closed"
    BY <1>0, <1>f DEF Early, OpenFails, Goto, Phase, OpenPcs, ClosePcs, HandleInv
  <2>2. Guests = {} /\ Guests' = Guests
    BY <1>0, <1>f DEF Early, ModeInv, Running, Guests
  <2>3. H!CreateFails
    BY <2>1, <2>2 DEF H!CreateFails, Guests
  <2>. QED
    BY <2>3 DEF H!Next, H!Serve
<1>w. ASSUME pc \in Late, OpenSucceeds, mode' = mode PROVE [H!Next]_H!vars
  <2>1. Phase = "opening" /\ Phase' = "open"
    BY <1>0, <1>w DEF OpenSucceeds, Phase, OpenPcs, ClosePcs, HandleInv
  <2>2. Guests = Core /\ Guests' = Guests
    BY <1>w DEF Guests
  <2>3. H!CreateSucceeds
    BY <2>1, <2>2 DEF H!CreateSucceeds, Guests
  <2>. QED
    BY <2>3 DEF H!Next, H!Serve
<1>1. CASE UNCHANGED vars
  BY <1>1, <1>s DEF vars
<1>2. CASE Bugcheck
  BY <1>2, <1>s DEF Bugcheck
<1>3. CASE DriverEntry \/ DrvUnload
  BY <1>3, <1>s DEF DriverEntry, DrvUnload
<1>4. CASE DrvCreate
  <2>1. Phase = "closed" /\ Phase' = "opening" /\ Guests' = Guests
    BY <1>0, <1>4 DEF DrvCreate, Phase, OpenPcs, ClosePcs, HandleInv, Guests
  <2>2. H!Create
    BY <2>1 DEF H!Create, Guests
  <2>. QED
    BY <2>2 DEF H!Next
<1>5. CASE DrvClose
  <2>1. Phase = "open" /\ Phase' = "closing" /\ Guests' = Guests
    BY <1>5 DEF DrvClose, Phase, OpenPcs, ClosePcs, Guests
  <2>2. H!Close
    BY <2>1 DEF H!Close, Guests
  <2>. QED
    BY <2>2 DEF H!Next
<1>6. CASE AllocateGuestState \/ AllocateEptState \/ EptCheckFeatures \/ AllocatePageTable
  <2>1. /\ pc \in Early /\ mode' = mode
        /\ OpenFails \/ pc' \in OpenPcs
    BY <1>6 DEF AllocateGuestState, AllocateEptState, EptCheckFeatures, AllocatePageTable,
       Goto, Early, OpenPcs
  <2>. QED
    BY <1>f, <1>o, <2>1 DEF Early, OpenPcs
<1>7. CASE CallRegionsDpc \/ CallLaunchDpc
  BY <1>7, <1>o DEF CallRegionsDpc, CallLaunchDpc, Goto, OpenPcs
<1>8. CASE BroadcastReturns
  BY <1>8, <1>o, <1>c DEF BroadcastReturns, Goto, OpenPcs, ClosePcs
<1>9. CASE NotifyAllToInvalidateEpt
  BY <1>2, <1>9, <1>w DEF NotifyAllToInvalidateEpt
<1>10. CASE SplitsFreed \/ FreePageTable \/ FreeGuestState
  BY <1>10, <1>c DEF SplitsFreed, FreePageTable, FreeGuestState, FreeGlobal, Goto, ClosePcs
<1>11. CASE FreeEptState
  <2>1. Phase = "closing" /\ Phase' = "closed"
    BY <1>0, <1>11 DEF FreeEptState, FreeGlobal, Goto, Phase, OpenPcs, ClosePcs, HandleInv
  <2>2. Guests = {} /\ Guests' = Guests
    BY <1>0, <1>11 DEF FreeEptState, FreeGlobal, ModeInv, Running, Guests
  <2>3. H!CloseReturns
    BY <2>1, <2>2 DEF H!CloseReturns, Guests
  <2>. QED
    BY <2>3 DEF H!Next, H!Serve
<1>12. ASSUME NEW c \in Core, HookBuffer(c) PROVE [H!Next]_H!vars
  BY <1>12, <1>o DEF HookBuffer, PreAllocate, Goto, OpenPcs
<1>13. ASSUME NEW c \in Core, Hook(c) PROVE [H!Next]_H!vars
  BY <1>13, <1>o DEF Hook, Goto, OpenPcs
<1>14. ASSUME NEW c \in Core, AllocateStackAndBitmap(c) PROVE [H!Next]_H!vars
  BY <1>14, <1>s DEF AllocateStackAndBitmap
<1>15. ASSUME NEW c \in Core, TestVmcall(c) PROVE [H!Next]_H!vars
  BY <1>2, <1>15, <1>o DEF TestVmcall, VmcallFails, Goto, OpenPcs
<1>16. ASSUME NEW c \in Core, LateHookBuffer(c) PROVE [H!Next]_H!vars
  BY <1>16, <1>o, <1>w DEF LateHookBuffer, PreAllocate, Goto, OpenPcs
<1>17. ASSUME NEW c \in Core, LateHook(c) PROVE [H!Next]_H!vars
  BY <1>2, <1>17, <1>o, <1>w DEF LateHook, Goto, OpenPcs
<1>18. ASSUME NEW b \in splits, FreeSplit(b) PROVE [H!Next]_H!vars
  BY <1>2, <1>18, <1>s DEF FreeSplit
<1>19. ASSUME NEW c \in Core, VmxAllocateVmxonRegion(c) PROVE [H!Next]_H!vars
  <2>1. Guests' = Guests /\ pc' = pc /\ handles' = handles
    BY <1>0, <1>19 DEF VmxAllocateVmxonRegion, Guests
  <2>. QED
    BY <1>i, <1>p, <2>1
<1>20. ASSUME NEW c \in Core,
              VmxAllocateVmcsRegion(c) \/ FreeRegions(c) \/ KeSignalCallDpcDone(c)
                \/ LostVmexit(c)
       PROVE  [H!Next]_H!vars
  BY <1>2, <1>20, <1>s DEF VmxAllocateVmcsRegion, FreeRegions, KeSignalCallDpcDone, LostVmexit
<1>21. ASSUME NEW c \in Core, VmxVirtualizeCurrentSystem(c) PROVE [H!Next]_H!vars
  <2>1. CASE Bugcheck
    BY <1>2, <2>1
  <2>2. CASE ~Bugcheck
    <3>1. /\ pc = "LaunchDpc" /\ mode[c] = "root" /\ pc' = pc
          /\ mode' = [mode EXCEPT ![c] = "guest"]
      BY <1>21, <2>2 DEF VmxVirtualizeCurrentSystem
    <3>2. Phase = "opening" /\ Phase' = "opening"
      BY <1>k, <1>n, <3>1 DEF OpenPcs
    <3>3. c \notin Guests /\ Guests' = Guests \cup {c}
      BY <1>0, <3>1 DEF Guests
    <3>4. H!Virtualize(c)
      BY <3>2, <3>3 DEF H!Virtualize, Guests
    <3>. QED
      BY <3>4 DEF H!Next, H!Serve
  <2>. QED
    BY <2>1, <2>2
<1>22. ASSUME NEW c \in Core, VmcallVmxoff(c) PROVE [H!Next]_H!vars
  <2>1. CASE Bugcheck
    BY <1>2, <2>1
  <2>2. CASE ~Bugcheck
    <3>1. /\ pc = "TerminateDpc" /\ mode[c] = "guest" /\ pc' = pc
          /\ mode' = [mode EXCEPT ![c] = "off"]
      BY <1>22, <2>2 DEF VmcallVmxoff, VmcallFails
    <3>2. Phase = "closing" /\ Phase' = Phase
      BY <3>1 DEF Phase, OpenPcs, ClosePcs
    <3>3. c \in Guests /\ Guests' = Guests \ {c}
      BY <1>0, <3>1 DEF Guests
    <3>4. H!Release(c)
      BY <3>2, <3>3 DEF H!Release, Guests
    <3>. QED
      BY <3>4 DEF H!Next, H!Serve
  <2>. QED
    BY <2>1, <2>2
<1>. QED
  BY <1>1, <1>3, <1>4, <1>5, <1>6, <1>7, <1>8, <1>9, <1>10, <1>11, <1>12, <1>13, <1>14,
     <1>15, <1>16, <1>17, <1>18, <1>19, <1>20, <1>21, <1>22 DEF Next, RequestStep, DpcStep

(* Step by step the driver is the hypervisor its user sees, also when the  *)
(* kernel stops or a rendezvous never returns: an open ends with every     *)
(* core in a guest or none, a close with none, and cores change sides in   *)
(* between only.                                                           *)
THEOREM RefinesHypervisor ==
  ASSUME CleanFailures
  PROVE  Spec => H!SafeSpec
<1>1. SingleHandle
  BY DEF CleanFailures
<1>2. Init => H!Init
  BY DEF Init, H!Init, Phase, OpenPcs, ClosePcs
<1>. QED
  BY <1>1, <1>2, RefinesStep, LaunchInvariance, LiveInvariance, Typing, PTL
     DEF Spec, H!SafeSpec

--------------------------------------------------------------------------
(* BufferNotLinked                                                         *)

(* The steps of an open before its two calls of EptPageHook.               *)
BeforeHook == {"GuestState", "EptState", "EptFeatures", "PageTable", "HookBuffer"}

(* A buffer comes from an earlier open, or from the call of EptPageHook    *)
(* that this open has made already.                                        *)
Allocated(b) ==
  /\ b.gen <= gen
  /\ pc \in BeforeHook => b.gen < gen
  /\ pc \in OpenPcs \ {"LateHook", "NotifyEpt"} /\ b.kind = "BufferAfterLaunch" => b.gen < gen

(* Strengthening of BufferNotLinked, whatever fails and with any number of *)
(* handles: what a core offers is its own, and nothing else it or the page *)
(* table refers to could be taken for a buffer that is still to come.      *)
BufferInv ==
  /\ BufferNotLinked
  /\ PageTable # NULL => PageTable.kind = "PageTable"
  /\ \A c \in Core :
       /\ LET b == gs[c].PreAllocatedBuffer
          IN  b # NULL => b.kind \in Buffers /\ b.owner = c
       /\ \A b \in RegionsOf(c) \ {NULL} : b.kind \in Regions
       /\ \A b \in (splits \cup inUse[c] \cup {gs[c].PreAllocatedBuffer}) \ {NULL} :
            b.kind \in Buffers => Allocated(b)

(* No step offers what is linked already.                                  *)
LEMMA BufferStep == TypeOK /\ BufferInv /\ [Next]_vars => BufferInv'
<1>. USE CoreAssumption, NullAssumption
<1>. SUFFICES ASSUME TypeOK, BufferInv, [Next]_vars PROVE BufferInv'
  OBVIOUS
<1>. USE DEF At, driver, request, globals, hook
<1>t. /\ gs \in [Core -> VirtualMachineState] /\ inUse \in [Core -> SUBSET Pointer]
      /\ splits \subseteq Block /\ gen \in Nat /\ PageTable \in Pointer
  BY DEF TypeOK
<1>a. DEFINE Forward == /\ pc' \in BeforeHook => pc \in BeforeHook
                        /\ pc' \in OpenPcs \ {"LateHook", "NotifyEpt"} =>
                             pc \in OpenPcs \ {"LateHook", "NotifyEpt"}
             SameStates == \A c \in Core :
                             /\ gs'[c].PreAllocatedBuffer = gs[c].PreAllocatedBuffer
                             /\ RegionsOf(c)' \ {NULL} \subseteq
                                  RegionsOf(c) \cup {b \in Block : b.kind \in Regions}
<1>k. ASSUME NEW b, Allocated(b), gen' = gen, Forward
      PROVE  Allocated(b)'
  BY <1>k DEF Allocated
(* A step that neither makes nor links a buffer.                           *)
<1>f. ASSUME gen' = gen, Forward, SameStates, PageTable' = PageTable,
             splits' \subseteq splits, \A c \in Core : inUse'[c] \subseteq inUse[c]
      PROVE  BufferInv'
  BY <1>f, <1>k DEF BufferInv, BufferNotLinked, Allocated
(* A core takes blocks into use, but no buffer that is not linked.         *)
<1>g. ASSUME gen' = gen, Forward, SameStates, PageTable' = PageTable, splits' = splits,
             \A c \in Core : \A b \in inUse'[c] :
               b \in inUse[c] \cup splits \/ b = NULL \/ b.kind \notin Buffers
      PROVE  BufferInv'
  BY <1>g, <1>k DEF BufferInv, BufferNotLinked, Allocated
<1>1. CASE UNCHANGED vars \/ Bugcheck
  BY <1>1, <1>f DEF vars, Bugcheck, RegionsOf
<1>2. CASE DriverEntry \/ DrvUnload \/ DrvClose
  BY <1>2, <1>f DEF DriverEntry, DrvUnload, DrvClose, BeforeHook, OpenPcs, ClosePcs, RegionsOf
(* A new request makes every buffer an old one.                            *)
<1>3. CASE DrvCreate
  <2>1. /\ UNCHANGED <<globals, hook>> /\ gen' = gen + 1
    BY <1>3 DEF DrvCreate
  <2>2. ASSUME NEW c \in Core,
               NEW b \in (splits \cup inUse[c] \cup {gs[c].PreAllocatedBuffer}) \ {NULL},
               b.kind \in Buffers
        PROVE  Allocated(b)'
    <3>1. b \in Block
      BY <1>t, <2>2 DEF Pointer, VirtualMachineState
    <3>2. b.gen \in Nat /\ b.gen <= gen
      BY <2>2, <3>1 DEF BufferInv, Allocated, Block
    <3>. QED
      BY <1>t, <2>1, <3>2 DEF Allocated
  <2>. QED
    BY <2>1, <2>2 DEF BufferInv, BufferNotLinked, RegionsOf
<1>4. CASE AllocateGuestState
  <2>1. /\ UNCHANGED <<PageTable, splits, inUse>> /\ gen' = gen /\ pc = "GuestState"
        /\ pc' \in {"Idle", "EptState"}
        /\ gs' = gs \/ gs' = [c \in Core |-> Zeroed]
    BY <1>4 DEF AllocateGuestState, OpenFails, Goto
  <2>2. Forward
    BY <2>1 DEF BeforeHook, OpenPcs
  <2>3. CASE gs' = gs
    BY <1>f, <2>1, <2>2, <2>3 DEF RegionsOf
  <2>4. CASE gs' = [c \in Core |-> Zeroed]
    <3>1. \A c \in Core : gs'[c].PreAllocatedBuffer = NULL /\ RegionsOf(c)' = {NULL}
      BY <2>4 DEF Zeroed, RegionsOf
    <3>. QED
      BY <1>k, <2>1, <2>2, <3>1 DEF BufferInv, BufferNotLinked, Allocated
  <2>. QED
    BY <2>1, <2>3, <2>4
<1>5. CASE AllocateEptState
  <2>1. /\ gs' = gs /\ inUse' = inUse /\ gen' = gen /\ splits' \subseteq splits
        /\ PageTable' \in {NULL, PageTable}
        /\ pc = "EptState" /\ pc' \in {"Idle", "EptFeatures"}
    BY <1>5 DEF AllocateEptState, OpenFails, Goto
  <2>2. Forward
    BY <2>1 DEF BeforeHook, OpenPcs
  <2>. QED
    BY <1>k, <2>1, <2>2 DEF BufferInv, BufferNotLinked, Allocated, RegionsOf
<1>6. CASE AllocatePageTable
  <2>1. /\ gs' = gs /\ inUse' = inUse /\ gen' = gen /\ splits' = splits
        /\ PageTable' = PageTable \/ PageTable'.kind = "PageTable"
        /\ pc = "PageTable" /\ pc' \in {"Idle", "HookBuffer"}
    BY <1>6 DEF AllocatePageTable, OpenFails, Goto, NewBlock
  <2>2. Forward
    BY <2>1 DEF BeforeHook, OpenPcs
  <2>. QED
    BY <1>k, <2>1, <2>2 DEF BufferInv, BufferNotLinked, Allocated, RegionsOf
<1>7. CASE EptCheckFeatures \/ CallRegionsDpc \/ CallLaunchDpc \/ BroadcastReturns
             \/ SplitsFreed \/ FreePageTable \/ FreeGuestState \/ FreeEptState
  <2>1. UNCHANGED <<hook, PageTable>> /\ gen' = gen
    BY <1>7 DEF EptCheckFeatures, CallRegionsDpc, CallLaunchDpc, BroadcastReturns,
       SplitsFreed, FreePageTable, FreeGuestState, FreeEptState, FreeGlobal, OpenFails, Goto
  <2>2. Forward
    BY <1>7 DEF EptCheckFeatures, CallRegionsDpc, CallLaunchDpc, BroadcastReturns,
       SplitsFreed, FreePageTable, FreeGuestState, FreeEptState, FreeGlobal, OpenFails, Goto,
       BeforeHook, OpenPcs
  <2>. QED
    BY <1>f, <2>1, <2>2 DEF RegionsOf
<1>8. CASE NotifyAllToInvalidateEpt
  BY <1>1, <1>8, <1>f DEF NotifyAllToInvalidateEpt, OpenSucceeds, BeforeHook, OpenPcs, RegionsOf
<1>9. ASSUME NEW c \in Core, TestVmcall(c) PROVE BufferInv'
  BY <1>1, <1>9, <1>f DEF TestVmcall, OpenFails, Goto, BeforeHook, OpenPcs, RegionsOf
<1>10. ASSUME NEW b \in splits, FreeSplit(b) PROVE BufferInv'
  BY <1>1, <1>10, <1>f DEF FreeSplit, RegionsOf
<1>11. ASSUME NEW c \in Core, FreeRegions(c) \/ KeSignalCallDpcDone(c) \/ LostVmexit(c)
       PROVE  BufferInv'
  BY <1>1, <1>11, <1>f DEF FreeRegions, KeSignalCallDpcDone, LostVmexit, RegionsOf
<1>12. ASSUME NEW c \in Core, HookBuffer(c) \/ LateHookBuffer(c) PROVE BufferInv'
  <2>1. /\ UNCHANGED <<PageTable, splits, inUse>> /\ gen' = gen
        /\ \/ pc = "HookBuffer" /\ pc' \in {"Hook", "RegionsCall"}
           \/ pc = "LateHookBuffer" /\ pc' \in {"LateHook", "Idle"}
    BY <1>12 DEF HookBuffer, LateHookBuffer, PreAllocate, Goto, OpenSucceeds
  <2>2. Forward
    BY <2>1 DEF BeforeHook, OpenPcs
  <2>3. CASE gs' = gs
    BY <1>f, <2>1, <2>2, <2>3 DEF RegionsOf
  <2>4. CASE gs' # gs
    <3>1. PICK k \in Buffers :
            /\ gs' = [gs EXCEPT ![c].PreAllocatedBuffer = NewBlock(k, c)]
            /\ \/ k = "BufferBeforeLaunch" /\ pc = "HookBuffer" /\ pc' = "Hook"
               \/ k = "BufferAfterLaunch" /\ pc = "LateHookBuffer" /\ pc' = "LateHook"
      BY <1>12, <2>4 DEF HookBuffer, LateHookBuffer, PreAllocate, Goto, OpenSucceeds, Buffers
    <3>0. PICK new : new = NewBlock(k, c)
      OBVIOUS
    <3>2. /\ new \in Block /\ new # NULL
          /\ new.kind = k /\ new.gen = gen /\ new.owner = c
      BY <1>t, <3>0 DEF NewBlock, Block, Kind, Buffers
    <3>3. \A d \in Core : /\ RegionsOf(d)' = RegionsOf(d)
                          /\ gs'[d].PreAllocatedBuffer =
                              IF d = c THEN new ELSE gs[d].PreAllocatedBuffer
      BY <1>t, <3>0, <3>1 DEF RegionsOf, VirtualMachineState
    (* The new one is not yet linked: nothing allocated has its name.        *)
    <3>4. \A d \in Core : new \notin splits /\ new \notin inUse[d]
      BY <1>t, <3>1, <3>2 DEF BufferInv, Allocated, BeforeHook, OpenPcs, Buffers
    <3>5. \A d \in Core \ {c} : gs[d].PreAllocatedBuffer # new
      BY <3>2 DEF BufferInv
    <3>6. Allocated(new)'
      BY <1>t, <2>1, <3>1, <3>2 DEF Allocated, BeforeHook, OpenPcs
    <3>7. BufferNotLinked'
      BY <2>1, <3>2, <3>3, <3>4, <3>5 DEF BufferInv, BufferNotLinked
    <3>8. ASSUME NEW d \in Core
          PROVE  /\ gs'[d].PreAllocatedBuffer # NULL
                      => /\ gs'[d].PreAllocatedBuffer.kind \in Buffers
                         /\ gs'[d].PreAllocatedBuffer.owner = d
                 /\ \A b \in RegionsOf(d)' \ {NULL} : b.kind \in Regions
      BY <3>1, <3>2, <3>3 DEF BufferInv
    <3>9. ASSUME NEW d \in Core,
                 NEW b \in (splits \cup inUse[d] \cup {gs'[d].PreAllocatedBuffer}) \ {NULL},
                 b.kind \in Buffers
          PROVE  Allocated(b)'
      <4>1. CASE b = new
        BY <3>6, <4>1
      <4>2. CASE b # new
        <5>1. Allocated(b)
          BY <3>3, <3>9, <4>2 DEF BufferInv
        <5>. QED
          BY <1>k, <2>1, <2>2, <5>1
      <4>. QED
        BY <4>1, <4>2
    <3>. QED
      BY <2>1, <3>7, <3>8, <3>9 DEF BufferInv
  <2>. QED
    BY <2>3, <2>4
(* A buffer is linked where it stops being offered.                        *)
<1>13. ASSUME NEW c \in Core, EptSplitLargePage(c) \/ UNCHANGED hook,
              gen' = gen, Forward, PageTable' = PageTable
       PROVE  BufferInv'
  <2>1. CASE UNCHANGED hook
    BY <1>13, <1>f, <2>1 DEF RegionsOf
  <2>2. CASE ~UNCHANGED hook
    <3>. DEFINE buffer == gs[c].PreAllocatedBuffer
    <3>1. /\ buffer # NULL
          /\ gs' = [gs EXCEPT ![c].PreAllocatedBuffer = NULL]
          /\ splits' = splits \cup {buffer}
          /\ \A d \in Core : inUse'[d] \subseteq inUse[d] \cup {buffer}
      BY <1>13, <2>2, <1>t DEF EptSplitLargePage
    <3>2. \A d \in Core : /\ RegionsOf(d)' = RegionsOf(d)
                          /\ gs'[d].PreAllocatedBuffer =
                              IF d = c THEN NULL ELSE gs[d].PreAllocatedBuffer
      BY <1>t, <3>1 DEF RegionsOf, VirtualMachineState
    <3>3. buffer.kind \in Buffers /\ Allocated(buffer)
      BY <3>1 DEF BufferInv
    <3>4. \A d \in Core \ {c} : gs[d].PreAllocatedBuffer # NULL
                              => gs[d].PreAllocatedBuffer # buffer
      BY <3>1 DEF BufferInv, BufferNotLinked
    <3>. HIDE DEF buffer
    <3>5. BufferNotLinked'
      BY <3>1, <3>2, <3>4 DEF BufferInv, BufferNotLinked
    <3>6. ASSUME NEW d \in Core,
                 NEW b \in (splits' \cup inUse'[d] \cup {gs'[d].PreAllocatedBuffer}) \ {NULL},
                 b.kind \in Buffers
          PROVE  Allocated(b)'
      <4>1. Allocated(b)
        BY <3>1, <3>2, <3>3, <3>6 DEF BufferInv
      <4>. QED
        BY <1>13, <1>k, <4>1
    <3>7. ASSUME NEW d \in Core
          PROVE  /\ gs'[d].PreAllocatedBuffer # NULL
                      => /\ gs'[d].PreAllocatedBuffer.kind \in Buffers
                         /\ gs'[d].PreAllocatedBuffer.owner = d
                 /\ \A b \in RegionsOf(d)' \ {NULL} : b.kind \in Regions
      BY <3>2 DEF BufferInv
    <3>. QED
      BY <1>13, <3>5, <3>6, <3>7 DEF BufferInv
  <2>. QED
    BY <2>1, <2>2
<1>14. ASSUME NEW c \in Core, Hook(c) PROVE BufferInv'
  BY <1>13, <1>14 DEF Hook, Goto, BeforeHook, OpenPcs
<1>15. ASSUME NEW c \in Core, LateHook(c) PROVE BufferInv'
  <2>1. CASE Bugcheck
    BY <1>1, <2>1
  <2>2. CASE ~Bugcheck
    <3>1. /\ EptSplitLargePage(c) \/ UNCHANGED hook
          /\ gen' = gen /\ PageTable' = PageTable /\ pc' \in {"NotifyEpt", "Idle"}
      BY <1>15, <2>2 DEF LateHook, Goto, OpenSucceeds
    <3>. QED
      BY <1>13, <3>1 DEF BeforeHook, OpenPcs
  <2>. QED
    BY <2>1, <2>2
(* The regions of a core are no buffers.                                   *)
<1>16. ASSUME NEW c \in Core, AllocateStackAndBitmap(c) PROVE BufferInv'
  <2>1. /\ UNCHANGED <<PageTable, splits, inUse>> /\ gen' = gen
        /\ pc = "Stacks" /\ pc' \in {"Stacks", "Idle"}
    BY <1>16 DEF AllocateStackAndBitmap, OpenFails, Goto
  <2>2. \A k \in Regions : NewBlock(k, c) \in Block /\ NewBlock(k, c).kind \in Regions
    BY <1>t DEF NewBlock, Block, Kind, Regions
  <2>3. SameStates
    <3>1. ASSUME NEW d \in Core
          PROVE  /\ gs'[d].PreAllocatedBuffer = gs[d].PreAllocatedBuffer
                 /\ gs'[d].VmxonRegion = gs[d].VmxonRegion
                 /\ gs'[d].VmcsRegion = gs[d].VmcsRegion
                 /\ gs'[d].VmmStack \in {gs[d].VmmStack, NewBlock("VmmStack", c)}
                 /\ gs'[d].MsrBitmap \in {gs[d].MsrBitmap, NewBlock("MsrBitmap", c)}
      BY <1>t, <1>16 DEF AllocateStackAndBitmap, VirtualMachineState
    <3>. QED
      BY <2>2, <3>1 DEF RegionsOf, Regions
  <2>. QED
    BY <1>f, <2>1, <2>3 DEF BeforeHook, OpenPcs
<1>17. ASSUME NEW c \in Core, VmxAllocateVmxonRegion(c) \/ VmxAllocateVmcsRegion(c)
       PROVE  BufferInv'
  <2>1. /\ UNCHANGED <<PageTable, splits>> /\ gen' = gen /\ pc' = pc
    BY <1>17 DEF VmxAllocateVmxonRegion, VmxAllocateVmcsRegion
  <2>2. \A k \in Regions : NewBlock(k, c) \in Block /\ NewBlock(k, c).kind = k
    BY <1>t DEF NewBlock, Block, Kind, Regions
  <2>3. SameStates
    <3>1. ASSUME NEW d \in Core
          PROVE  /\ gs'[d].PreAllocatedBuffer = gs[d].PreAllocatedBuffer
                 /\ gs'[d].VmxonRegion \in {gs[d].VmxonRegion, NewBlock("VmxonRegion", c)}
                 /\ gs'[d].VmcsRegion \in {gs[d].VmcsRegion, NewBlock("VmcsRegion", c)}
                 /\ gs'[d].VmmStack = gs[d].VmmStack
                 /\ gs'[d].MsrBitmap = gs[d].MsrBitmap
      BY <1>t, <1>17 DEF VmxAllocateVmxonRegion, VmxAllocateVmcsRegion, VirtualMachineState
    <3>. QED
      BY <2>2, <3>1 DEF RegionsOf, Regions
  <2>4. CASE inUse' = inUse
    BY <1>f, <2>1, <2>3, <2>4
  <2>5. CASE inUse' = [inUse EXCEPT ![c] = {NewBlock("VmxonRegion", c)}]
    <3>1. NewBlock("VmxonRegion", c).kind \notin Buffers
      BY <2>2 DEF Regions, Buffers
    <3>2. \A d \in Core : \A b \in inUse'[d] : b \in inUse[d] \/ b.kind \notin Buffers
      BY <1>t, <2>5, <3>1
    <3>. QED
      BY <1>g, <2>1, <2>3, <3>2
  <2>. QED
    BY <1>17, <2>4, <2>5 DEF VmxAllocateVmxonRegion, VmxAllocateVmcsRegion
(* A core that enters its guest takes the splits, and regions, into use.   *)
<1>18. ASSUME NEW c \in Core, VmxVirtualizeCurrentSystem(c) PROVE BufferInv'
  <2>1. CASE Bugcheck
    BY <1>1, <2>1
  <2>2. CASE ~Bugcheck
    <3>1. /\ UNCHANGED <<PageTable, splits, gs>> /\ gen' = gen /\ pc' = pc
          /\ \A d \in Core : inUse'[d] \subseteq inUse[d] \cup VmcsBlocks(c)
      BY <1>t, <1>18, <2>2 DEF VmxVirtualizeCurrentSystem
    <3>2. \A b \in VmcsBlocks(c) : b \in splits \/ b = NULL \/ b.kind \notin Buffers
      BY DEF VmcsBlocks, BufferInv, RegionsOf, Regions, Buffers
    <3>. QED
      BY <1>g, <3>1, <3>2 DEF RegionsOf
  <2>. QED
    BY <2>1, <2>2
<1>19. ASSUME NEW c \in Core, VmcallVmxoff(c) PROVE BufferInv'
  <2>1. CASE Bugcheck
    BY <1>1, <2>1
  <2>2. CASE ~Bugcheck
    <3>1. /\ UNCHANGED <<PageTable, splits>> /\ gen' = gen /\ pc' = pc
          /\ \A d \in Core : inUse'[d] \subseteq inUse[d]
          /\ gs' = gs \/ gs' = [gs EXCEPT ![c].IsVmxoffExecuted = TRUE]
      BY <1>t, <1>19, <2>2 DEF VmcallVmxoff
    <3>2. SameStates
      BY <1>t, <3>1 DEF RegionsOf, VirtualMachineState
    <3>. QED
      BY <1>f, <3>1, <3>2
  <2>. QED
    BY <2>1, <2>2
<1>. HIDE DEF BufferInv
<1>. QED
  BY <1>1, <1>2, <1>3, <1>4, <1>5, <1>6, <1>7, <1>8, <1>9, <1>10, <1>11, <1>12, <1>14,
     <1>15, <1>16, <1>17, <1>18, <1>19 DEF Next, RequestStep, DpcStep

(* A buffer for a split is offered to one core and linked nowhere, whatever*)
(* fails, however many handles are open and however often: no split zeroes *)
(* a table that a processor walks.                                         *)
THEOREM BuffersAreFree == Spec => []BufferNotLinked
<1>1. Init => BufferInv
  BY DEF Init, BufferInv, BufferNotLinked, RegionsOf, Zeroed
<1>2. BufferInv => BufferNotLinked
  BY DEF BufferInv
<1>. QED
  BY <1>1, <1>2, BufferStep, Typing, PTL DEF Spec

--------------------------------------------------------------------------
(* LeaksOnlyBuffers                                                        *)

(* Besides, the failures of an open from which it returns without freeing  *)
(* what it has do not happen.                                              *)
NothingDropped == CleanFailures /\ "PageTable" \notin Faults /\ "NoEpt" \notin Limits

(* A block the thread will free, at each place of a request.               *)
Held(b) ==
  /\ pc = "Idle" => handles > 0
  /\ \/ b = GuestState /\ pc \notin {"GuestState", "FreeEptState"}
     \/ b = EptState /\ pc \notin {"GuestState", "EptState"}
     \/ b = PageTable /\ pc \notin {"GuestState", "EptState", "EptFeatures", "PageTable",
                                  "FreeGuestState", "FreeEptState"}

(* A block that core c will free in the broadcast of the close.            *)
HeldBy(c, b) ==
  \/ /\ b = gs[c].VmxonRegion
     /\ pc = "Stacks" \/ (pc = "RegionsDpc" /\ dpc[c] \in {"second", "sync", "done"})
  \/ /\ b = gs[c].VmcsRegion
     /\ pc = "Stacks" \/ (pc = "RegionsDpc" /\ dpc[c] \in {"sync", "done"})
  \/ pc = "Stacks" /\ gs[c].MsrBitmap # NULL /\ b \in {gs[c].VmmStack, gs[c].MsrBitmap}
  \/ /\ b \in RegionsOf(c)
     /\ \/ pc \in Late \cup {"LaunchDpc"} \/ (pc = "Idle" /\ handles > 0)
        \/ pc = "TerminateDpc" /\ dpc[c] \in {"queued", "second"}

Hangs == pc = "RegionsDpc" /\ \E c \in Core : dpc[c] = "returned"

(* All but buffers will be freed, unless a rendezvous never returns.       *)
HeldInv ==
  Hangs \/ \A b \in live : b.kind \in Buffers \/ Held(b) \/ \E c \in Core : HeldBy(c, b)

(* A request makes one buffer before launch and one after, on any core.    *)
OneBufferInv ==
  /\ \A b \in live : b.kind \in Buffers => Allocated(b)
  /\ \A b, d \in live : b.kind \in Buffers /\ b.kind = d.kind /\ b.gen = d.gen => b = d

(* A rendezvous that one core has left never returns.                      *)
LEMMA HeldStep ==
  ASSUME NothingDropped
  PROVE  TypeOK /\ LiveInv /\ LaunchInv /\ HeldInv /\ [Next]_vars => HeldInv'
<1>. USE CoreAssumption, NullAssumption DEF NothingDropped, CleanFailures, SingleHandle
<1>. SUFFICES ASSUME TypeOK, LiveInv, LaunchInv, HeldInv, [Next]_vars PROVE HeldInv'
  OBVIOUS
<1>. USE DEF At, Late, driver, request, globals, hook
<1>0. /\ HandleInv
      /\ gs \in [Core -> VirtualMachineState]
      /\ dpc \in [Core -> {"none", "queued", "second", "sync", "done", "returned"}]
      /\ platform \subseteq Limits
  BY DEF LiveInv, TypeOK
<1>. DEFINE Same == \A c \in Core : /\ gs'[c].VmxonRegion = gs[c].VmxonRegion
                                    /\ gs'[c].VmcsRegion = gs[c].VmcsRegion
                                    /\ gs'[c].VmmStack = gs[c].VmmStack
                                    /\ gs'[c].MsrBitmap = gs[c].MsrBitmap
(* A step of the request that makes nothing but buffers.                   *)
<1>f. ASSUME Same, UNCHANGED <<request, globals, dpc>>,
             \A b \in live' : b \in live \/ b.kind \in Buffers
      PROVE  HeldInv'
  BY <1>f DEF HeldInv, Hangs, Held, HeldBy, RegionsOf
<1>1. CASE UNCHANGED vars \/ Bugcheck
  BY <1>1, <1>f DEF vars, Bugcheck
<1>2. CASE DriverEntry \/ DrvUnload
  BY <1>2, <1>f DEF DriverEntry, DrvUnload
<1>3. CASE DrvCreate
  BY <1>0, <1>3 DEF DrvCreate, HeldInv, Hangs, Held, HeldBy, HandleInv
<1>4. CASE DrvClose
  BY <1>0, <1>4 DEF DrvClose, KeGenericCallDpc, HeldInv, Hangs, Held, HeldBy, HandleInv, RegionsOf
<1>5. CASE AllocateGuestState
  BY <1>0, <1>5 DEF AllocateGuestState, OpenFails, Goto, HeldInv, Hangs, Held, HeldBy, HandleInv
<1>6. CASE AllocateEptState
  BY <1>0, <1>6 DEF AllocateEptState, OpenFails, Goto, HeldInv, Hangs, Held, HeldBy, HandleInv
<1>7. CASE EptCheckFeatures \/ AllocatePageTable
  BY <1>0, <1>7 DEF EptCheckFeatures, AllocatePageTable, Goto, HeldInv, Hangs, Held, HeldBy
<1>8. CASE CallRegionsDpc \/ CallLaunchDpc
  BY <1>0, <1>8 DEF CallRegionsDpc, CallLaunchDpc, Goto, KeGenericCallDpc, HeldInv, Hangs,
     Held, HeldBy, RegionsOf
<1>9. CASE BroadcastReturns
  BY <1>0, <1>9 DEF BroadcastReturns, BroadcastReturned, Goto, HeldInv, Hangs, Held, HeldBy,
     RegionsOf
<1>10. CASE NotifyAllToInvalidateEpt
  <2>1. CASE Bugcheck
    BY <1>1, <2>1
  <2>2. CASE ~Bugcheck
    <3>1. /\ UNCHANGED <<globals, dpc, gen, live, gs>>
          /\ pc = "NotifyEpt" /\ pc' = "Idle" /\ handles' = handles + 1
      BY <1>10, <2>2 DEF NotifyAllToInvalidateEpt, OpenSucceeds
    <3>. QED
      BY <1>0, <3>1 DEF HeldInv, Hangs, Held, HeldBy, RegionsOf, HandleInv
  <2>. QED
    BY <2>1, <2>2
<1>11. CASE SplitsFreed \/ FreePageTable \/ FreeGuestState \/ FreeEptState
  BY <1>0, <1>11 DEF SplitsFreed, FreePageTable, FreeGuestState, FreeEptState, FreeGlobal, Goto,
     HeldInv, Hangs, Held, HeldBy
<1>12. ASSUME NEW b \in splits, FreeSplit(b) PROVE HeldInv'
  BY <1>1, <1>12, <1>f DEF FreeSplit
<1>13. ASSUME NEW c \in Core, HookBuffer(c) \/ LateHookBuffer(c) PROVE HeldInv'
  <2>1. /\ UNCHANGED <<globals, dpc, gen>>
        /\ \A b \in live' : b \in live \/ b.kind \in Buffers
        /\ \/ pc = "HookBuffer" /\ pc' \in {"Hook", "RegionsCall"} /\ handles' = handles
           \/ /\ pc = "LateHookBuffer"
              /\ \/ pc' = "LateHook" /\ handles' = handles
                 \/ pc' = "Idle" /\ handles' = handles + 1
    BY <1>13 DEF HookBuffer, LateHookBuffer, PreAllocate, Goto, OpenSucceeds, NewBlock, Buffers
  <2>2. Same
    BY <1>0, <1>13 DEF HookBuffer, LateHookBuffer, PreAllocate, VirtualMachineState
  <2>. QED
    BY <1>0, <2>1, <2>2 DEF HeldInv, Hangs, Held, HeldBy, RegionsOf, HandleInv
<1>14. ASSUME NEW c \in Core, Hook(c) \/ LateHook(c) PROVE HeldInv'
  <2>1. CASE Bugcheck
    BY <1>1, <2>1
  <2>2. CASE ~Bugcheck
    <3>1. /\ UNCHANGED <<globals, dpc, gen, live>>
          /\ \/ pc = "Hook" /\ pc' = "RegionsCall" /\ handles' = handles
             \/ /\ pc = "LateHook"
                /\ \/ pc' = "NotifyEpt" /\ handles' = handles
                   \/ pc' = "Idle" /\ handles' = handles + 1
      BY <1>14, <2>2 DEF Hook, LateHook, Goto, OpenSucceeds
    <3>2. Same
      BY <1>0, <1>14, <2>2 DEF Hook, LateHook, EptSplitLargePage, VirtualMachineState
    <3>. QED
      BY <1>0, <3>1, <3>2 DEF HeldInv, Hangs, Held, HeldBy, RegionsOf, HandleInv
  <2>. QED
    BY <2>1, <2>2
<1>15. ASSUME NEW c \in Core, TestVmcall(c) PROVE HeldInv'
  <2>1. CASE Bugcheck
    BY <1>1, <2>1
  <2>2. CASE ~Bugcheck
    <3>1. /\ UNCHANGED <<globals, dpc, gen, live, gs, handles>>
          /\ pc = "Test" /\ pc' = "LateHookBuffer"
      BY <1>15, <2>2 DEF TestVmcall, VmcallFails, Goto, LaunchInv
    <3>. QED
      BY <1>0, <3>1 DEF HeldInv, Hangs, Held, HeldBy, RegionsOf
  <2>. QED
    BY <2>1, <2>2
<1>16. ASSUME NEW c \in Core, AllocateStackAndBitmap(c) PROVE HeldInv'
  <2>1. PICK stack \in Block, bitmap \in Block :
          /\ gs[c].MsrBitmap = NULL /\ bitmap # NULL
          /\ live' = live \cup {stack, bitmap}
          /\ gs' = [gs EXCEPT ![c].VmmStack = stack, ![c].MsrBitmap = bitmap]
          /\ UNCHANGED <<request, globals, dpc>> /\ pc = "Stacks"
    <3>1. \A k \in Kind : NewBlock(k, c) \in Block
      BY DEF NewBlock, Block, TypeOK
    <3>. QED
      BY <1>16, <3>1 DEF AllocateStackAndBitmap, Kind
  <2>2. \A d \in Core : /\ gs'[d].VmxonRegion = gs[d].VmxonRegion
                        /\ gs'[d].VmcsRegion = gs[d].VmcsRegion
                        /\ gs'[d].VmmStack = IF d = c THEN stack ELSE gs[d].VmmStack
                        /\ gs'[d].MsrBitmap = IF d = c THEN bitmap ELSE gs[d].MsrBitmap
    BY <1>0, <2>1 DEF VirtualMachineState
  <2>s. /\ gs[c].MsrBitmap = NULL /\ bitmap # NULL
        /\ live' = live \cup {stack, bitmap}
        /\ UNCHANGED <<request, globals, dpc>> /\ pc = "Stacks"
    BY <2>1
  <2>3. ASSUME NEW b, NEW d \in Core, HeldBy(d, b) PROVE HeldBy(d, b)'
    BY <2>s, <2>2, <2>3 DEF HeldBy, RegionsOf
  <2>4. \A b \in {stack, bitmap} : HeldBy(c, b)'
    BY <2>s, <2>2 DEF HeldBy
  <2>5. \A b : Held(b) => Held(b)'
    BY <2>s DEF Held
  <2>6. ~Hangs
    BY <2>s DEF Hangs
  <2>7. ASSUME NEW b \in live'
        PROVE  b.kind \in Buffers \/ Held(b)' \/ \E d \in Core : HeldBy(d, b)'
    <3>1. CASE b \in {stack, bitmap}
      BY <2>4, <3>1
    <3>2. CASE b \in live
      BY <2>3, <2>5, <2>6, <3>2 DEF HeldInv
    <3>. QED
      BY <2>s, <3>1, <3>2
  <2>. QED
    BY <2>7 DEF HeldInv
<1>17. ASSUME NEW c \in Core, VmxAllocateVmxonRegion(c) PROVE HeldInv'
  <2>1. CASE dpc'[c] = "returned"
    BY <1>17, <2>1 DEF VmxAllocateVmxonRegion, HeldInv, Hangs
  <2>2. CASE dpc'[c] # "returned"
    <3>1. PICK region :
            /\ live' = live \cup {region} /\ gs' = [gs EXCEPT ![c].VmxonRegion = region]
            /\ dpc' = [dpc EXCEPT ![c] = "second"] /\ dpc[c] = "queued"
            /\ UNCHANGED <<request, globals>> /\ pc = "RegionsDpc"
      BY <1>0, <1>17, <2>2 DEF VmxAllocateVmxonRegion, DpcAt
    <3>2. \A d \in Core : /\ gs'[d].VmxonRegion = IF d = c THEN region ELSE gs[d].VmxonRegion
                          /\ gs'[d].VmcsRegion = gs[d].VmcsRegion
      BY <1>0, <3>1 DEF VirtualMachineState
    <3>. QED
      BY <1>0, <3>1, <3>2 DEF HeldInv, Hangs, Held, HeldBy
  <2>. QED
    BY <2>1, <2>2
<1>18. ASSUME NEW c \in Core, VmxAllocateVmcsRegion(c) PROVE HeldInv'
  <2>1. CASE dpc'[c] = "returned"
    BY <1>18, <2>1 DEF VmxAllocateVmcsRegion, HeldInv, Hangs
  <2>2. CASE dpc'[c] # "returned"
    <3>1. PICK region :
            /\ live' = live \cup {region} /\ gs' = [gs EXCEPT ![c].VmcsRegion = region]
            /\ dpc' = [dpc EXCEPT ![c] = "sync"] /\ dpc[c] = "second"
            /\ UNCHANGED <<request, globals>> /\ pc = "RegionsDpc"
      BY <1>0, <1>18, <2>2 DEF VmxAllocateVmcsRegion, DpcAt
    <3>2. \A d \in Core : /\ gs'[d].VmcsRegion = IF d = c THEN region ELSE gs[d].VmcsRegion
                          /\ gs'[d].VmxonRegion = gs[d].VmxonRegion
      BY <1>0, <3>1 DEF VirtualMachineState
    <3>. QED
      BY <1>0, <3>1, <3>2 DEF HeldInv, Hangs, Held, HeldBy
  <2>. QED
    BY <2>1, <2>2
<1>19. ASSUME NEW c \in Core, VmxVirtualizeCurrentSystem(c) PROVE HeldInv'
  <2>1. CASE Bugcheck
    BY <1>1, <2>1
  <2>2. CASE ~Bugcheck
    <3>1. UNCHANGED <<request, globals, live, gs>> /\ pc = "LaunchDpc"
      BY <1>19, <2>2 DEF VmxVirtualizeCurrentSystem
    <3>. QED
      BY <3>1 DEF HeldInv, Hangs, Held, HeldBy, RegionsOf
  <2>. QED
    BY <2>1, <2>2
<1>20. ASSUME NEW c \in Core, VmcallVmxoff(c) PROVE HeldInv'
  <2>1. CASE Bugcheck
    BY <1>1, <2>1
  <2>2. CASE ~Bugcheck
    <3>1. /\ UNCHANGED <<request, globals, live>> /\ pc = "TerminateDpc"
          /\ dpc[c] = "queued" /\ dpc' = [dpc EXCEPT ![c] = "second"]
          /\ gs' = gs \/ gs' = [gs EXCEPT ![c].IsVmxoffExecuted = TRUE]
      BY <1>20, <2>2 DEF VmcallVmxoff, DpcAt
    <3>2. Same
      BY <1>0, <3>1 DEF VirtualMachineState
    <3>. QED
      BY <1>0, <3>1, <3>2 DEF HeldInv, Hangs, Held, HeldBy, RegionsOf
  <2>. QED
    BY <2>1, <2>2
<1>21. ASSUME NEW c \in Core, FreeRegions(c) PROVE HeldInv'
  <2>1. CASE Bugcheck
    BY <1>1, <2>1
  <2>2. CASE ~Bugcheck
    <3>1. /\ UNCHANGED <<request, globals, gs>> /\ pc = "TerminateDpc"
          /\ dpc[c] = "second" /\ dpc' = [dpc EXCEPT ![c] = "sync"]
          /\ live' = live \ RegionsOf(c)
      BY <1>21, <2>2 DEF FreeRegions, DpcAt
    <3>. QED
      BY <1>0, <3>1 DEF HeldInv, Hangs, Held, HeldBy, RegionsOf
  <2>. QED
    BY <2>1, <2>2
<1>22. ASSUME NEW c \in Core, KeSignalCallDpcDone(c) PROVE HeldInv'
  BY <1>0, <1>22 DEF KeSignalCallDpcDone, DpcAt, HeldInv, Hangs, Held, HeldBy, RegionsOf
<1>23. ASSUME NEW c \in Core, LostVmexit(c) PROVE HeldInv'
  BY <1>1, <1>23 DEF LostVmexit
<1>. HIDE DEF HeldInv
<1>. QED
  BY <1>1, <1>2, <1>3, <1>4, <1>5, <1>6, <1>7, <1>8, <1>9, <1>10, <1>11, <1>12, <1>13,
     <1>14, <1>15, <1>16, <1>17, <1>18, <1>19, <1>20, <1>21, <1>22, <1>23
     DEF Next, RequestStep, DpcStep

(* Whatever fails: only EptPageHook makes buffers, at its two places.      *)
LEMMA OneBufferStep == TypeOK /\ OneBufferInv /\ [Next]_vars => OneBufferInv'
<1>. SUFFICES ASSUME TypeOK, OneBufferInv, [Next]_vars PROVE OneBufferInv'
  OBVIOUS
<1>. USE DEF At, driver, request, globals, hook
<1>t. live \subseteq Block /\ gen \in Nat
  BY DEF TypeOK
<1>. DEFINE Forward == /\ pc' \in BeforeHook => pc \in BeforeHook
                       /\ pc' \in OpenPcs \ {"LateHook", "NotifyEpt"} =>
                            pc \in OpenPcs \ {"LateHook", "NotifyEpt"}
            Quiet == /\ gen' = gen /\ Forward
                     /\ \A b \in live' : b \in live \/ b.kind \notin Buffers
<1>f. Quiet => OneBufferInv'
  BY DEF OneBufferInv, Allocated
<1>1. CASE UNCHANGED vars \/ Bugcheck
  BY <1>1, <1>f DEF vars, Bugcheck
<1>2. CASE DriverEntry \/ DrvUnload \/ DrvClose
  BY <1>2, <1>f DEF DriverEntry, DrvUnload, DrvClose, BeforeHook, OpenPcs
<1>3. CASE DrvCreate
  <2>1. live' = live /\ gen' = gen + 1
    BY <1>3 DEF DrvCreate
  <2>2. \A b \in live : b.gen \in Nat
    BY <1>t DEF Block
  <2>. QED
    BY <1>t, <2>1, <2>2 DEF OneBufferInv, Allocated
<1>4. CASE AllocateGuestState \/ AllocateEptState \/ AllocatePageTable
  BY <1>4, <1>f DEF AllocateGuestState, AllocateEptState, AllocatePageTable, OpenFails, Goto,
     NewBlock, BeforeHook, OpenPcs, Buffers
<1>5. CASE EptCheckFeatures \/ CallRegionsDpc \/ CallLaunchDpc \/ BroadcastReturns
             \/ SplitsFreed \/ FreePageTable \/ FreeGuestState \/ FreeEptState
  BY <1>5, <1>f DEF EptCheckFeatures, CallRegionsDpc, CallLaunchDpc, BroadcastReturns,
     SplitsFreed, FreePageTable, FreeGuestState, FreeEptState, FreeGlobal, OpenFails, Goto,
     BeforeHook, OpenPcs
<1>6. CASE NotifyAllToInvalidateEpt
  BY <1>1, <1>6, <1>f DEF NotifyAllToInvalidateEpt, OpenSucceeds, BeforeHook, OpenPcs
<1>7. ASSUME NEW c \in Core, HookBuffer(c) \/ LateHookBuffer(c) PROVE OneBufferInv'
  <2>1. CASE live' = live
    <3>1. gen' = gen /\ Forward
      BY <1>7 DEF HookBuffer, LateHookBuffer, PreAllocate, Goto, OpenSucceeds, BeforeHook, OpenPcs
    <3>. QED
      BY <1>f, <2>1, <3>1
  <2>2. CASE live' # live
    <3>1. PICK k \in Buffers :
            /\ live' = live \cup {NewBlock(k, c)} /\ gen' = gen
            /\ \/ k = "BufferBeforeLaunch" /\ pc = "HookBuffer" /\ pc' = "Hook"
               \/ k = "BufferAfterLaunch" /\ pc = "LateHookBuffer" /\ pc' = "LateHook"
      BY <1>7, <2>2 DEF HookBuffer, LateHookBuffer, PreAllocate, Goto, OpenSucceeds, Buffers
    <3>2. PICK new : new = NewBlock(k, c)
      OBVIOUS
    <3>3. new.kind = k /\ new.gen = gen
      BY <3>2 DEF NewBlock
    <3>4. Forward
      BY <3>1 DEF BeforeHook, OpenPcs
    (* Nothing of this kind has been made in this request before.            *)
    <3>5. \A b \in live : b.kind = k => b.gen # gen
      BY <1>t, <3>1 DEF OneBufferInv, Allocated, BeforeHook, OpenPcs, Buffers, Block
    <3>6. Allocated(new)'
      BY <1>t, <3>1, <3>3 DEF Allocated, BeforeHook, OpenPcs
    <3>7. \A b \in live : Allocated(b) => Allocated(b)'
      BY <3>1, <3>4 DEF Allocated
    <3>8. ASSUME NEW b \in live', b.kind \in Buffers PROVE Allocated(b)'
      <4>1. b \in live \/ b = new
        BY <3>1, <3>2
      <4>. QED
        BY <3>6, <3>7, <3>8, <4>1 DEF OneBufferInv
    <3>9. ASSUME NEW b \in live', NEW d \in live',
                 b.kind \in Buffers, b.kind = d.kind, b.gen = d.gen
          PROVE  b = d
      <4>1. (b \in live \/ b = new) /\ (d \in live \/ d = new)
        BY <3>1, <3>2
      <4>. QED
        BY <3>3, <3>5, <3>9, <4>1 DEF OneBufferInv
    <3>. QED
      BY <3>8, <3>9 DEF OneBufferInv
  <2>. QED
    BY <2>1, <2>2
<1>8. ASSUME NEW c \in Core, Hook(c) \/ LateHook(c) PROVE OneBufferInv'
  BY <1>1, <1>8, <1>f DEF Hook, LateHook, Goto, OpenSucceeds, BeforeHook, OpenPcs
<1>9. ASSUME NEW c \in Core, TestVmcall(c) PROVE OneBufferInv'
  BY <1>1, <1>9, <1>f DEF TestVmcall, OpenFails, Goto, BeforeHook, OpenPcs
<1>10. ASSUME NEW c \in Core, AllocateStackAndBitmap(c) PROVE OneBufferInv'
  <2>1. \A b \in live' : b \in live \/ b = NewBlock("VmmStack", c) \/ b = NewBlock("MsrBitmap", c)
    BY <1>10 DEF AllocateStackAndBitmap
  <2>2. /\ NewBlock("VmmStack", c).kind \notin Buffers
        /\ NewBlock("MsrBitmap", c).kind \notin Buffers
    BY DEF NewBlock, Buffers
  <2>3. gen' = gen /\ Forward
    BY <1>10 DEF AllocateStackAndBitmap, OpenFails, Goto, BeforeHook, OpenPcs
  <2>. QED
    BY <1>f, <2>1, <2>2, <2>3
<1>11. ASSUME NEW c \in Core, VmxAllocateVmxonRegion(c) \/ VmxAllocateVmcsRegion(c)
       PROVE  OneBufferInv'
  BY <1>11, <1>f DEF VmxAllocateVmxonRegion, VmxAllocateVmcsRegion, NewBlock, Buffers
<1>12. ASSUME NEW c \in Core, VmxVirtualizeCurrentSystem(c) PROVE OneBufferInv'
  BY <1>1, <1>12, <1>f DEF VmxVirtualizeCurrentSystem
<1>13. ASSUME NEW c \in Core,
              VmcallVmxoff(c) \/ FreeRegions(c) \/ KeSignalCallDpcDone(c) \/ LostVmexit(c)
       PROVE  OneBufferInv'
  BY <1>1, <1>13, <1>f DEF VmcallVmxoff, FreeRegions, KeSignalCallDpcDone, LostVmexit
<1>14. ASSUME NEW b \in splits, FreeSplit(b) PROVE OneBufferInv'
  BY <1>1, <1>14, <1>f DEF FreeSplit
<1>. HIDE DEF OneBufferInv
<1>. QED
  BY <1>1, <1>2, <1>3, <1>4, <1>5, <1>6, <1>7, <1>8, <1>9, <1>10, <1>11, <1>12, <1>13,
     <1>14 DEF Next, RequestStep, DpcStep

(* A set in which any two of three are the same has two members at most.   *)
LEMMA AtMostTwo ==
  ASSUME NEW S, NEW x, NEW y, S \subseteq {x, y}
  PROVE  Cardinality(S) <= 2
<1>1. IsFiniteSet({x}) /\ Cardinality({x}) = 1
  BY FS_Singleton
<1>2. IsFiniteSet({x, y}) /\ Cardinality({x, y}) <= 2
  <2>1. {x, y} = {x} \cup {y}
    OBVIOUS
  <2>2. /\ IsFiniteSet({x} \cup {y})
        /\ Cardinality({x} \cup {y})
             = IF y \in {x} THEN Cardinality({x}) ELSE Cardinality({x}) + 1
    BY <1>1, FS_AddElement
  <2>3. Cardinality({x}) \in Nat
    BY <1>1, FS_CardinalityType
  <2>. QED
    BY <1>1, <2>1, <2>2, <2>3
<1>3. Cardinality(S) <= Cardinality({x, y})
  BY <1>2, FS_Subset
<1>4. Cardinality(S) \in Nat /\ Cardinality({x, y}) \in Nat
  BY <1>2, FS_Subset, FS_CardinalityType
<1>. QED
  BY <1>2, <1>3, <1>4

(* Two buffers at most are lost to a request, and nothing else is.         *)
THEOREM OnlyBuffersLeak ==
  ASSUME NothingDropped
  PROVE  Spec => []LeaksOnlyBuffers
<1>1. CleanFailures /\ SingleHandle
  BY DEF NothingDropped, CleanFailures
<1>2. Init => HeldInv /\ OneBufferInv
  BY DEF Init, HeldInv, OneBufferInv
<1>3. TypeOK /\ HeldInv /\ OneBufferInv => LeaksOnlyBuffers
  <2>. SUFFICES ASSUME TypeOK, HeldInv, OneBufferInv, pc = "Idle", handles = 0
       PROVE  /\ \A b \in live : b.kind \in Buffers
              /\ \A g \in 1..gen : Cardinality({b \in live : b.gen = g}) <= 2
    BY DEF LeaksOnlyBuffers, Buffers
  <2>1. \A b \in live : b.kind \in Buffers
    BY DEF HeldInv, Hangs, Held, HeldBy, Late
  <2>2. ASSUME NEW g \in 1..gen PROVE Cardinality({b \in live : b.gen = g}) <= 2
    <3>. DEFINE S == {b \in live : b.gen = g}
                Of(k) == CHOOSE b \in S : b.kind = k
    <3>1. \A b \in S : b = Of("BufferBeforeLaunch") \/ b = Of("BufferAfterLaunch")
      <4>1. ASSUME NEW b \in S PROVE b = Of(b.kind)
        <5>1. Of(b.kind) \in S /\ Of(b.kind).kind = b.kind
          OBVIOUS
        <5>. HIDE DEF Of
        <5>. QED
          BY <2>1, <5>1 DEF OneBufferInv
      <4>. QED
        BY <2>1, <4>1 DEF Buffers
    <3>. HIDE DEF Of
    <3>2. S \subseteq {Of("BufferBeforeLaunch"), Of("BufferAfterLaunch")}
      BY <3>1
    <3>. QED
      BY <3>2, AtMostTwo
  <2>. QED
    BY <2>1, <2>2
<1>. QED
  BY <1>1, <1>2, <1>3, HeldStep, OneBufferStep, LaunchInvariance, LiveInvariance, Typing,
     PTL DEF Spec
==========================================================================
