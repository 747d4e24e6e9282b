--------------------------- MODULE VmxLifecycle ---------------------------
(***************************************************************************)
(* The life of the hypervisor from the load of the driver to its unload:   *)
(* DriverEntry, DrvCreate (HvVmxInitialize), DrvClose (HvTerminateVmx) and *)
(* DrvUnload, with the two per-core broadcasts (KeGenericCallDpc) that     *)
(* allocate the VMX regions and launch the guests, the broadcast that      *)
(* turns VMX off, the pool blocks all of them share, and the EPT split     *)
(* that the test hook links into the page table before and after launch.   *)
(*                                                                         *)
(* The thread that serves the request is one process, and each core's DPC  *)
(* is another; the thread runs at PASSIVE_LEVEL, so the core under each of *)
(* its steps is chosen anew.  One IRP is in flight at a time (README).     *)
(***************************************************************************)
EXTENDS Naturals, FiniteSets

CONSTANTS
  Core,        \* the logical processors
  NULL,        \* a pointer that holds 0; also the owner of the global blocks
  Faults,      \* which allocations and VMX instructions may fail
  Limits,      \* what this machine may lack
  MaxHandles,  \* bound: device handles open at once
  MaxOpens     \* bound: IRP_MJ_CREATE requests in a behaviour

AllFaults == {"GuestState", "EptState", "PageTable", "Buffer", "VmxonRegion",
              "Vmxon", "VmcsRegion", "VmmStack", "MsrBitmap", "Vmclear",
              "Vmptrld", "Vmlaunch", "PoolReuse"}

AllLimits == {"NoVmx", "NoEpt", "HighTarget"}

ASSUME CoreAssumption == NULL \notin Core /\ Core # {}
ASSUME FaultsAssumption == Faults \subseteq AllFaults /\ Limits \subseteq AllLimits
ASSUME BoundsAssumption == MaxHandles \in Nat /\ MaxOpens \in Nat

Kind == {"GuestState", "EptState", "PageTable", "VmxonRegion", "VmcsRegion",
         "VmmStack", "MsrBitmap", "BufferBeforeLaunch", "BufferAfterLaunch"}

(* A block from the pool, named by what was allocated, during which open   *)
(* request, and for which core.                                            *)
Block == [kind : Kind, gen : Nat, owner : Core \cup {NULL}]

ASSUME NullAssumption == NULL \notin Block

Pointer == Block \cup {NULL}

VARIABLES
  loaded,      \* the driver image is loaded and its device exists
  link,        \* the symbolic link \DosDevices\rootvisor exists
  platform,    \* what CPUID, the MSRs and the memory map of this machine lack
  machine,     \* "up", or "bugcheck" once the kernel has crashed
  pc,          \* where the thread that serves the IRP stands
  gen,         \* number of the current open request
  handles,     \* handles whose IRP_MJ_CREATE succeeded and that are not closed
  live,        \* blocks allocated and not freed
  GuestState,  \* the global pointer to the per-core VIRTUAL_MACHINE_STATE array
  EptState,    \* the global pointer to the EPT_STATE
  PageTable,   \* EptState->EptPageTable
  splits,      \* blocks linked in EptPageTable->DynamicSplitList
  gs,          \* GuestState[core]
  mode,        \* VMX operation of each core
  inUse,       \* blocks each processor itself refers to (VMXON, VMCS, EPT)
  dpc          \* progress of each core in the current broadcast

driver  == <<loaded, link, platform>>
request == <<pc, gen, handles>>
globals == <<GuestState, EptState, PageTable>>
hook    == <<gs, splits, inUse>>
vars    == <<driver, machine, request, live, globals, hook, mode, dpc>>

VirtualMachineState ==
  [VmxonRegion : Pointer, VmcsRegion : Pointer, VmmStack : Pointer,
   MsrBitmap : Pointer, PreAllocatedBuffer : Pointer, IsVmxoffExecuted : BOOLEAN]

Zeroed == [VmxonRegion |-> NULL, VmcsRegion |-> NULL, VmmStack |-> NULL,
           MsrBitmap |-> NULL, PreAllocatedBuffer |-> NULL,
           IsVmxoffExecuted |-> FALSE]

OpenPcs  == {"GuestState", "EptState", "EptFeatures", "PageTable", "HookBuffer",
             "Hook", "RegionsCall", "RegionsDpc", "Stacks", "LaunchDpc", "Test",
             "LateHookBuffer", "LateHook", "NotifyEpt"}
ClosePcs == {"TerminateDpc", "FreeSplits", "FreePageTable", "FreeGuestState",
             "FreeEptState"}
Pcs      == {"Idle"} \cup OpenPcs \cup ClosePcs

Init ==
  /\ loaded = FALSE /\ link = FALSE /\ platform \in SUBSET Limits
  /\ machine = "up"
  /\ pc = "Idle" /\ gen = 0 /\ handles = 0
  /\ live = {} /\ splits = {}
  /\ GuestState = NULL /\ EptState = NULL /\ PageTable = NULL
  /\ gs = [c \in Core |-> Zeroed]
  /\ mode = [c \in Core |-> "off"]
  /\ inUse = [c \in Core |-> {}]
  /\ dpc = [c \in Core |-> "none"]

--------------------------------------------------------------------------
(* Helpers                                                                 *)

NewBlock(kind, owner) == [kind |-> kind, gen |-> gen, owner |-> owner]

(* The kernel still runs and the thread stands at label p.                 *)
At(p) == machine = "up" /\ pc = p

Goto(next) == pc' = next /\ UNCHANGED <<gen, handles>>

(* The open request completes with an error; there is no cleanup path.     *)
OpenFails == Goto("Idle")

OpenSucceeds == pc' = "Idle" /\ handles' = handles + 1 /\ UNCHANGED gen

(* #UD, a bad free or a wild pointer at raised IRQL: the kernel stops.     *)
Bugcheck == /\ machine' = "bugcheck"
            /\ UNCHANGED <<driver, request, live, globals, hook, mode, dpc>>

(* Mutant: the DPC is queued on one core only (KeInsertQueueDpc).           *)
QueueOnOneCore == dpc' = [c \in Core |-> IF c = (CHOOSE d \in Core : TRUE)
                                        THEN "queued" ELSE "done"]

KeGenericCallDpc == dpc' = [c \in Core |-> "queued"]

DpcAt(c, stage) == dpc' = [dpc EXCEPT ![c] = stage]

BroadcastReturned == \A c \in Core : dpc[c] = "done"

--------------------------------------------------------------------------
(* Driver.c: load and unload                                               *)

(* IoCreateSymbolicLink collides with a link that is still there; the      *)
(* device is then deleted and the load fails.                              *)
DriverEntry ==
  /\ machine = "up" /\ ~loaded
  /\ loaded' = ~link /\ link' = TRUE
  /\ UNCHANGED <<platform, machine, request, live, globals, hook, mode, dpc>>

(* DrvUnload deletes \DosDevices\MyHypervisorDevice, a link nobody made.   *)
DrvUnload ==
  /\ loaded /\ At("Idle") /\ handles = 0
  /\ loaded' = FALSE
  /\ UNCHANGED <<link, platform, machine, request, live, globals, hook, mode, dpc>>

--------------------------------------------------------------------------
(* DrvCreate -> HvVmxInitialize -> VmxInitializer                          *)

DrvCreate ==
  /\ loaded /\ At("Idle") /\ handles < MaxHandles /\ gen < MaxOpens
  /\ gen' = gen + 1 /\ pc' = "GuestState"
  /\ UNCHANGED <<driver, machine, handles, live, globals, hook, mode, dpc>>

(* Mutant: a new GuestState is not zeroed.                                 *)
AllocateStaleGuestState ==
  /\ At("GuestState")
  /\ GuestState' = NewBlock("GuestState", NULL)
  /\ live' = live \cup {GuestState'}
  /\ Goto("EptState")
  /\ UNCHANGED <<driver, machine, EptState, PageTable, hook, mode, dpc>>

AllocateGuestState ==
  /\ At("GuestState")
  /\ UNCHANGED <<driver, machine, EptState, PageTable, splits, inUse, mode, dpc>>
  /\ \/ /\ "NoVmx" \in platform
        /\ OpenFails
        /\ UNCHANGED <<live, GuestState, gs>>
     \/ /\ "NoVmx" \notin platform /\ "GuestState" \in Faults
        /\ GuestState' = NULL
        /\ OpenFails
        /\ UNCHANGED <<live, gs>>
     \/ /\ "NoVmx" \notin platform
        /\ GuestState' = NewBlock("GuestState", NULL)
        /\ live' = live \cup {GuestState'}
        /\ gs' = [c \in Core |-> Zeroed]
        /\ Goto("EptState")

(* Mutant: no cleanup of GuestState when EptState cannot be allocated.     *)
AllocateEptStateNoCleanup ==
  /\ At("EptState")
  /\ UNCHANGED <<driver, machine, gs, inUse, mode, dpc>>
  /\ \/ /\ "EptState" \in Faults
        /\ GuestState' = NULL /\ EptState' = NULL
        /\ OpenFails
        /\ UNCHANGED <<live, PageTable, splits>>
     \/ /\ EptState' = NewBlock("EptState", NULL)
        /\ live' = live \cup {EptState'}
        /\ PageTable' = NULL /\ splits' = {}
        /\ Goto("EptFeatures")
        /\ UNCHANGED GuestState

AllocateEptState ==
  /\ At("EptState")
  /\ UNCHANGED <<driver, machine, gs, inUse, mode, dpc>>
  /\ \/ /\ "EptState" \in Faults
        /\ live' = live \ {GuestState}
        /\ GuestState' = NULL /\ EptState' = NULL
        /\ OpenFails
        /\ UNCHANGED <<PageTable, splits>>
     \/ /\ EptState' = NewBlock("EptState", NULL)
        /\ live' = live \cup {EptState'}
        /\ PageTable' = NULL /\ splits' = {}
        /\ Goto("EptFeatures")
        /\ UNCHANGED GuestState

(* EptCheckFeatures and EptBuildMtrrMap; on FALSE nothing is freed.        *)
EptCheckFeatures ==
  /\ At("EptFeatures")
  /\ IF "NoEpt" \in platform THEN OpenFails ELSE Goto("PageTable")
  /\ UNCHANGED <<driver, machine, live, globals, hook, mode, dpc>>

(* EptLogicalProcessorInitialize up to its call of EptPageHook.            *)
AllocatePageTable ==
  /\ At("PageTable")
  /\ UNCHANGED <<driver, machine, GuestState, EptState, hook, mode, dpc>>
  /\ \/ /\ "PageTable" \in Faults
        /\ OpenFails
        /\ UNCHANGED <<live, PageTable>>
     \/ /\ PageTable' = NewBlock("PageTable", NULL)
        /\ live' = live \cup {PageTable'}
        /\ Goto("HookBuffer")

--------------------------------------------------------------------------
(* EptPageHook: a buffer for the split, then the hook                      *)

(* The first half of EptPageHook, on core c: reuse or allocate the buffer. *)
PreAllocate(c, kind, next, failed) ==
  /\ UNCHANGED <<driver, machine, globals, splits, inUse, mode, dpc>>
  /\ \/ /\ gs[c].PreAllocatedBuffer # NULL
        /\ next
        /\ UNCHANGED <<live, gs>>
     \/ /\ gs[c].PreAllocatedBuffer = NULL /\ "Buffer" \in Faults
        /\ failed
        /\ UNCHANGED <<live, gs>>
     \/ /\ gs[c].PreAllocatedBuffer = NULL
        /\ gs' = [gs EXCEPT ![c].PreAllocatedBuffer = NewBlock(kind, c)]
        /\ live' = live \cup {NewBlock(kind, c)}
        /\ next

(* Mutant: a missing buffer is linked into the list like any other.        *)
SplitWithoutBufferCheck(c) ==
  /\ splits' = splits \cup {gs[c].PreAllocatedBuffer}
  /\ gs' = [gs EXCEPT ![c].PreAllocatedBuffer = NULL]
  /\ UNCHANGED inUse

(* Mutant: the buffer stays on offer after it has become a split.          *)
SplitKeepingBuffer(c) ==
  /\ splits' = splits \cup ({gs[c].PreAllocatedBuffer} \ {NULL})
  /\ UNCHANGED <<gs, inUse>>

(* EptSplitLargePage with core c's buffer: a page that is split already is *)
(* left alone; a missing buffer leaves the page large.                     *)
EptSplitLargePage(c) ==
  LET buffer == gs[c].PreAllocatedBuffer
  IN  IF splits # {} \/ buffer = NULL
      THEN UNCHANGED hook
      ELSE /\ gs' = [gs EXCEPT ![c].PreAllocatedBuffer = NULL]
           /\ splits' = splits \cup {buffer}
           /\ inUse' = [d \in Core |-> IF PageTable \in inUse[d]
                                       THEN inUse[d] \cup {buffer}
                                       ELSE inUse[d]]

HookBuffer(c) ==
  At("HookBuffer")
    /\ PreAllocate(c, "BufferBeforeLaunch", Goto("Hook"), Goto("RegionsCall"))

(* EptVmxRootModePageHook before launch, called directly; a target above   *)
(* 512GB has no entry.  EptLogicalProcessorInitialize ignores the result.  *)
Hook(c) ==
  /\ At("Hook")
  /\ IF "HighTarget" \in platform THEN UNCHANGED hook ELSE EptSplitLargePage(c)
  /\ Goto("RegionsCall")
  /\ UNCHANGED <<driver, machine, live, globals, mode, dpc>>

CallRegionsDpc ==
  /\ At("RegionsCall")
  /\ Goto("RegionsDpc") /\ KeGenericCallDpc
  /\ UNCHANGED <<driver, machine, live, globals, hook, mode>>

--------------------------------------------------------------------------
(* VmxDpcBroadcastAllocateVmxonRegions, on every core                      *)

(* VMXON fails in a core that is in VMX operation already.  A routine that *)
(* returns FALSE signals neither the rendezvous nor its completion.        *)
VmxAllocateVmxonRegion(c) ==
  LET region == NewBlock("VmxonRegion", c)
  IN  /\ At("RegionsDpc") /\ dpc[c] = "queued"
      /\ UNCHANGED <<driver, machine, request, globals, splits>>
      /\ \/ /\ "VmxonRegion" \in Faults
            /\ DpcAt(c, "returned")
            /\ UNCHANGED <<live, gs, inUse, mode>>
         \/ /\ "Vmxon" \in Faults \/ mode[c] # "off"
            /\ live' = live \cup {region}
            /\ DpcAt(c, "returned")
            /\ UNCHANGED <<gs, inUse, mode>>
         \/ /\ mode[c] = "off"
            /\ live' = live \cup {region}
            /\ gs' = [gs EXCEPT ![c].VmxonRegion = region]
            /\ mode' = [mode EXCEPT ![c] = "root"]
            /\ inUse' = [inUse EXCEPT ![c] = {region}]
            /\ DpcAt(c, "second")

VmxAllocateVmcsRegion(c) ==
  LET region == NewBlock("VmcsRegion", c)
  IN  /\ At("RegionsDpc") /\ dpc[c] = "second"
      /\ UNCHANGED <<driver, machine, request, globals, splits, inUse, mode>>
      /\ \/ /\ "VmcsRegion" \in Faults
            /\ DpcAt(c, "returned")
            /\ UNCHANGED <<live, gs>>
         \/ /\ live' = live \cup {region}
            /\ gs' = [gs EXCEPT ![c].VmcsRegion = region]
            /\ DpcAt(c, "sync")

(* KeSignalCallDpcSynchronize lets nobody pass before everybody arrived,   *)
(* then KeSignalCallDpcDone counts this core as finished.                  *)
KeSignalCallDpcDone(c) ==
  /\ machine = "up" /\ dpc[c] = "sync"
  /\ \A d \in Core : dpc[d] \in {"sync", "done"}
  /\ DpcAt(c, "done")
  /\ UNCHANGED <<driver, machine, request, live, globals, hook, mode>>

(* KeGenericCallDpc returns to the thread once every core is done.         *)
BroadcastReturns ==
  /\ BroadcastReturned
  /\ dpc' = [c \in Core |-> "none"]
  /\ \/ At("RegionsDpc") /\ Goto("Stacks")
     \/ At("LaunchDpc") /\ Goto("Test")
     \/ At("TerminateDpc") /\ Goto("FreeSplits")
  /\ UNCHANGED <<driver, machine, live, globals, hook, mode>>

--------------------------------------------------------------------------
(* The rest of HvVmxInitialize                                             *)

(* One turn of the loop: VmxAllocateVmmStack and VmxAllocateMsrBitmap.     *)
AllocateStackAndBitmap(c) ==
  LET stack  == NewBlock("VmmStack", c)
      bitmap == NewBlock("MsrBitmap", c)
  IN  /\ At("Stacks") /\ gs[c].MsrBitmap = NULL
      /\ UNCHANGED <<driver, machine, globals, splits, inUse, mode, dpc>>
      /\ \/ /\ "VmmStack" \in Faults
            /\ OpenFails
            /\ UNCHANGED <<live, gs>>
         \/ /\ "MsrBitmap" \in Faults
            /\ live' = live \cup {stack}
            /\ gs' = [gs EXCEPT ![c].VmmStack = stack]
            /\ OpenFails
         \/ /\ live' = live \cup {stack, bitmap}
            /\ gs' = [gs EXCEPT ![c].VmmStack = stack, ![c].MsrBitmap = bitmap]
            /\ UNCHANGED request

(* Mutant: the allocation loop ends one processor early.                   *)
CallLaunchDpcEarly ==
  /\ At("Stacks") /\ \E c \in Core : gs[c].MsrBitmap # NULL
  /\ Goto("LaunchDpc") /\ KeGenericCallDpc
  /\ UNCHANGED <<driver, machine, live, globals, hook, mode>>

CallLaunchDpc ==
  /\ At("Stacks") /\ \A c \in Core : gs[c].MsrBitmap # NULL
  /\ Goto("LaunchDpc") /\ KeGenericCallDpc
  /\ UNCHANGED <<driver, machine, live, globals, hook, mode>>

(* What the VMCS of core c points at once VmxSetupVmcs has filled it.      *)
VmcsBlocks(c) ==
  {gs[c].VmcsRegion, gs[c].VmmStack, gs[c].MsrBitmap, PageTable} \cup splits

(* A VMCLEAR that fails turns VMX off, a VMPTRLD that fails does not; both *)
(* fall through to the rendezvous.  A VMLAUNCH that fails executes VMXOFF  *)
(* and then VMREAD, which is #UD outside VMX operation.                    *)
VmxVirtualizeCurrentSystem(c) ==
  /\ At("LaunchDpc") /\ dpc[c] = "queued"
  /\ \/ /\ "Vmclear" \in Faults
        /\ mode' = [mode EXCEPT ![c] = "off"]
        /\ inUse' = [inUse EXCEPT ![c] = {}]
        /\ DpcAt(c, "sync")
        /\ UNCHANGED <<driver, machine, request, live, globals, gs, splits>>
     \/ /\ "Vmptrld" \in Faults
        /\ DpcAt(c, "sync")
        /\ UNCHANGED <<driver, machine, request, live, globals, hook, mode>>
     \/ /\ "Vmlaunch" \in Faults
        /\ Bugcheck
     \/ /\ mode' = [mode EXCEPT ![c] = "guest"]
        /\ inUse' = [inUse EXCEPT ![c] = @ \cup VmcsBlocks(c)]
        /\ DpcAt(c, "sync")
        /\ UNCHANGED <<driver, machine, request, live, globals, gs, splits>>

(* VMCALL on core c: it exits from a guest, fails without touching RAX in  *)
(* VMX root operation, and is #UD outside VMX operation.                   *)
VmcallExits(c) == mode[c] = "guest" /\ GuestState \in live
VmcallFails(c) == mode[c] = "root"
VmcallFaults(c) == ~VmcallExits(c) /\ ~VmcallFails(c)

(* VMCALL_TEST runs on the one core the thread is on.  In root operation   *)
(* RAX still holds what it held, which may or may not be STATUS_SUCCESS.   *)
TestVmcall(c) ==
  /\ At("Test")
  /\ IF VmcallFaults(c) THEN Bugcheck
     ELSE /\ Goto("LateHookBuffer") \/ (VmcallFails(c) /\ OpenFails)
          /\ UNCHANGED <<driver, machine, live, globals, hook, mode, dpc>>

LateHookBuffer(c) ==
  At("LateHookBuffer")
    /\ PreAllocate(c, "BufferAfterLaunch", Goto("LateHook"), OpenSucceeds)

(* VMCALL_EXEC_HOOK_PAGE on core c: in root mode the hook needs a buffer   *)
(* of that core.  HvVmxInitialize ignores the result.                      *)
LateHook(c) ==
  LET hooked == gs[c].PreAllocatedBuffer # NULL /\ "HighTarget" \notin platform
  IN  /\ At("LateHook")
      /\ IF VmcallFaults(c) THEN Bugcheck
         ELSE /\ UNCHANGED <<driver, machine, live, globals, mode, dpc>>
              /\ \/ VmcallFails(c) /\ UNCHANGED hook
                      /\ (Goto("NotifyEpt") \/ OpenSucceeds)
                 \/ VmcallExits(c) /\ hooked /\ EptSplitLargePage(c)
                      /\ Goto("NotifyEpt")
                 \/ VmcallExits(c) /\ ~hooked /\ UNCHANGED hook /\ OpenSucceeds

(* HvNotifyAllToInvalidateEpt: KeIpiGenericCall runs a VMCALL everywhere.  *)
NotifyAllToInvalidateEpt ==
  /\ At("NotifyEpt")
  /\ IF \E c \in Core : VmcallFaults(c) THEN Bugcheck
     ELSE /\ OpenSucceeds
          /\ UNCHANGED <<driver, machine, live, globals, hook, mode, dpc>>

--------------------------------------------------------------------------
(* DrvClose -> HvTerminateVmx                                              *)

(* Mutant: the globals are freed without the broadcast.                    *)
CloseWithoutBroadcast ==
  /\ At("Idle") /\ handles > 0
  /\ handles' = handles - 1 /\ pc' = "FreeSplits"
  /\ UNCHANGED <<driver, machine, gen, live, globals, hook, mode, dpc>>

DrvClose ==
  /\ At("Idle") /\ handles > 0
  /\ handles' = handles - 1 /\ pc' = "TerminateDpc"
  /\ KeGenericCallDpc
  /\ UNCHANGED <<driver, machine, gen, live, globals, hook, mode>>

(* Mutant: VmxVmxoff raises the flag and forgets VMXOFF.                   *)
FlagWithoutVmxoff(c) ==
  /\ At("TerminateDpc") /\ dpc[c] = "queued"
  /\ gs' = [gs EXCEPT ![c].IsVmxoffExecuted = TRUE]
  /\ DpcAt(c, "second")
  /\ UNCHANGED <<driver, machine, request, live, globals, splits, mode, inUse>>

(* VmxTerminate, VMCALL_VMXOFF: VmxVmxoff raises the flag, then VMXOFF.    *)
VmcallVmxoff(c) ==
  /\ At("TerminateDpc") /\ dpc[c] = "queued"
  /\ IF VmcallFaults(c) THEN Bugcheck
     ELSE /\ DpcAt(c, "second")
          /\ UNCHANGED <<driver, machine, request, live, globals, splits>>
          /\ IF VmcallFails(c) THEN UNCHANGED <<gs, mode, inUse>>
             ELSE /\ gs' = [gs EXCEPT ![c].IsVmxoffExecuted = TRUE]
                  /\ mode' = [mode EXCEPT ![c] = "off"]
                  /\ inUse' = [inUse EXCEPT ![c] = {}]

RegionsOf(c) == {gs[c].VmxonRegion, gs[c].VmcsRegion, gs[c].VmmStack, gs[c].MsrBitmap}

(* Mutant: the terminate routine returns without signalling.               *)
FreeRegionsNoSignal(c) ==
  /\ At("TerminateDpc") /\ dpc[c] = "second"
  /\ live' = live \ RegionsOf(c)
  /\ DpcAt(c, "returned")
  /\ UNCHANGED <<driver, machine, request, globals, hook, mode>>

(* VmxTerminate, the four frees, whatever the VMCALL returned.             *)
FreeRegions(c) ==
  /\ At("TerminateDpc") /\ dpc[c] = "second"
  /\ IF RegionsOf(c) \cup {GuestState} \subseteq live
     THEN /\ live' = live \ RegionsOf(c)
          /\ DpcAt(c, "sync")
          /\ UNCHANGED <<driver, machine, request, globals, hook, mode>>
     ELSE Bugcheck

(* One turn of FOR_EACH_LIST_ENTRY: the body frees the split, the loop     *)
(* then reads Flink inside it, which the pool may have handed out again.   *)
FreeSplit(b) ==
  /\ At("FreeSplits") /\ b \in splits
  /\ \/ /\ live' = live \ {b} /\ splits' = splits \ {b}
        /\ UNCHANGED <<driver, machine, request, globals, gs, inUse, mode, dpc>>
     \/ "PoolReuse" \in Faults /\ Bugcheck

SplitsFreed ==
  /\ At("FreeSplits") /\ splits = {}
  /\ Goto("FreePageTable")
  /\ UNCHANGED <<driver, machine, live, globals, hook, mode, dpc>>

FreeGlobal(at, b, next) ==
  /\ At(at)
  /\ live' = live \ {b}
  /\ Goto(next)
  /\ UNCHANGED <<driver, machine, globals, hook, mode, dpc>>

(* The globals keep their values: nothing sets them to NULL.               *)
FreePageTable  == FreeGlobal("FreePageTable", PageTable, "FreeGuestState")
FreeGuestState == FreeGlobal("FreeGuestState", GuestState, "FreeEptState")
FreeEptState   == FreeGlobal("FreeEptState", EptState, "Idle")

--------------------------------------------------------------------------
(* Any instruction of the guest may exit; the handler's code and its       *)
(* GuestState must still be there.                                         *)
LostVmexit(c) ==
  /\ machine = "up" /\ mode[c] = "guest" /\ (GuestState \notin live \/ ~loaded)
  /\ Bugcheck

RequestStep ==
  \/ AllocateGuestState \/ AllocateEptState \/ EptCheckFeatures
  \/ AllocatePageTable \/ CallRegionsDpc \/ BroadcastReturns \/ CallLaunchDpc
  \/ NotifyAllToInvalidateEpt
  \/ SplitsFreed \/ FreePageTable \/ FreeGuestState \/ FreeEptState
  \/ \E c \in Core : \/ HookBuffer(c) \/ Hook(c) \/ AllocateStackAndBitmap(c)
                     \/ TestVmcall(c) \/ LateHookBuffer(c) \/ LateHook(c)
  \/ \E b \in splits : FreeSplit(b)

DpcStep(c) ==
  \/ VmxAllocateVmxonRegion(c) \/ VmxAllocateVmcsRegion(c)
  \/ VmxVirtualizeCurrentSystem(c)
  \/ VmcallVmxoff(c) \/ FreeRegions(c)
  \/ KeSignalCallDpcDone(c)

Next ==
  \/ DriverEntry \/ DrvUnload \/ DrvCreate \/ DrvClose
  \/ RequestStep
  \/ \E c \in Core : DpcStep(c) \/ LostVmexit(c)

Spec == Init /\ [][Next]_vars

(* The thread inside a request is scheduled, and a queued DPC runs; nobody *)
(* has to open, close, load or unload anything.                            *)
Fairness == /\ WF_vars(RequestStep)
            /\ \A c \in Core : WF_vars(DpcStep(c))

FairSpec == Spec /\ Fairness

--------------------------------------------------------------------------
(* Properties                                                              *)

(* Type invariant: every variable stays in its type, pointers point at     *)
(* blocks or are NULL.                                                     *)
TypeOK ==
  /\ loaded \in BOOLEAN /\ link \in BOOLEAN /\ platform \subseteq Limits
  /\ machine \in {"up", "bugcheck"}
  /\ pc \in Pcs /\ gen \in Nat /\ handles \in Nat
  /\ live \subseteq Block /\ splits \subseteq Block
  /\ GuestState \in Pointer /\ EptState \in Pointer /\ PageTable \in Pointer
  /\ gs \in [Core -> VirtualMachineState]
  /\ mode \in [Core -> {"off", "root", "guest"}]
  /\ inUse \in [Core -> SUBSET Pointer]
  /\ dpc \in [Core -> {"none", "queued", "second", "sync", "done", "returned"}]

(* A core in VMX operation refers only to memory that is still allocated:  *)
(* its VMXON region, its VMCS, stack and bitmap, the EPT and the splits;   *)
(* and a core in a guest finds GuestState and EptState at its next exit.   *)
(* HvTerminateVmx frees all of these from another thread.                  *)
LiveWhileVirtualized ==
  \A c \in Core : /\ inUse[c] \subseteq live
                  /\ mode[c] = "guest" => {GuestState, EptState} \subseteq live

(* No core runs a guest with IsVmxoffExecuted raised: its first exit would *)
(* leave through AsmVmxoffHandler without a VMXOFF.  The flag survives a   *)
(* close, so this rests on every open starting from zeroed memory.         *)
VmxoffFlagAgrees ==
  \A c \in Core : mode[c] = "guest" => ~gs[c].IsVmxoffExecuted

(* HvVmxInitialize tests one core and reports success for all of them:     *)
(* between requests an open handle means that every core runs a guest.     *)
OpenMeansVirtualized ==
  pc = "Idle" /\ handles > 0 => \A c \in Core : mode[c] = "guest"

(* Between requests, with no handle open, no core is in VMX operation,     *)
(* so that DrvUnload leaves nothing running in the image it removes.       *)
NativeWhenClosed ==
  pc = "Idle" /\ handles = 0 => \A c \in Core : mode[c] = "off"

(* HvTerminateVmx frees the page table, the splits and the state arrays    *)
(* only after the terminate broadcast has turned VMX off on all cores.     *)
OffBeforeFree ==
  pc \in ClosePcs \ {"TerminateDpc"} => \A c \in Core : mode[c] = "off"

(* A PreAllocatedBuffer that has become a split is no longer offered for   *)
(* the next one, and no two cores offer the same: EptSplitLargePage would  *)
(* zero a table that the processors are walking.                           *)
BufferNotLinked ==
  \A c \in Core : LET b == gs[c].PreAllocatedBuffer
                  IN  b # NULL => /\ b \notin splits
                                  /\ \A d \in Core : b \notin inUse[d]
                                  /\ \A d \in Core \ {c} : gs[d].PreAllocatedBuffer # b

(* Once everything is closed, all that is left of past requests are        *)
(* buffers of EptPageHook that no split consumed, one or two a request.    *)
LeaksOnlyBuffers ==
  pc = "Idle" /\ handles = 0 =>
    /\ \A b \in live : b.kind \in {"BufferBeforeLaunch", "BufferAfterLaunch"}
    /\ \A g \in 1..gen : Cardinality({b \in live : b.gen = g}) <= 2

(* The two broadcasts are rendezvous: no core launches its guest before    *)
(* every core is in VMX operation with all four of its regions, because    *)
(* the launch broadcast starts after the allocations of all cores.         *)
LaunchOnlyWhenAllReady ==
  [][\A c \in Core : mode[c] # "guest" /\ mode'[c] = "guest" =>
       \A d \in Core : NULL \notin RegionsOf(d)]_vars

(* A request that has begun returns to the I/O manager: no rendezvous      *)
(* waits for a core that will not come.                                    *)
RequestCompletes == (pc # "Idle") ~> (pc = "Idle")

Phase == CASE pc \in OpenPcs  -> "opening"
           [] pc \in ClosePcs -> "closing"
           [] pc = "Idle"     -> IF handles > 0 THEN "open" ELSE "closed"

H == INSTANCE Hypervisor WITH phase <- Phase,
                              virtualized <- {c \in Core : mode[c] = "guest"}

(* With one handle, the driver is the hypervisor its user sees: an open    *)
(* puts every core into a guest or none, a close takes every core out,     *)
(* a core changes sides within such a request only, and both return.       *)
ImplementsHypervisor == H!Spec

(* DrvUnload "unregisters the devices": a driver that is not loaded leaves *)
(* no symbolic link behind that keeps the next load from succeeding.       *)
NoLinkWhenUnloaded == ~loaded => ~link
==========================================================================
