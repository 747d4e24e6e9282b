# A verification project for RootVisor

RootVisor is a small type-2 hypervisor: a Windows driver (`rootvisor_km`) that puts a running
system into a guest when its device is opened and takes it out again when the device is closed,
with a proof of concept of an EPT execute hook. These modules model its control: the life of the
hypervisor on all cores, the hook under concurrency, the entry to and exit from the guest, and the
tables the processor is given before the first VMLAUNCH: page table, MSR bitmaps and VMCS.

## 1. Inventory

| Part | Source | State it keeps | Operations | What is hard |
|---|---|---|---|---|
| Driver entry points | `Driver.c` | device, symbolic link | `DriverEntry`, `DrvUnload`, `DrvCreate`, `DrvClose` | the device is not exclusive; load after unload |
| Initialisation and termination | `HypervisorRoutines.c`, `VmxRoutines.c` | `GuestState[]`, `EptState`, one VMXON region, VMCS, stack and bitmap per core | `HvVmxInitialize`, `VmxInitializer`, the three DPC broadcasts, `HvTerminateVmx` | rendezvous of all cores; any allocation or VMX instruction failing on any core; memory freed under the hardware |
| EPT hook | `EptRoutines.c`, `Invept.c`, `AsmEpt.asm` | page table shared by all cores, `DynamicSplitList`, `PreAllocatedBuffer` per core | `EptPageHook`, `EptVmxRootModePageHook`, `EptSplitLargePage`, `EptHandlePageHookExit`, `HvNotifyAllToInvalidateEpt` | no lock; cached translations; handlers on several cores |
| VM exit handler | `VmxRoutines.c`, `Vmcall.c`, `AsmVmexitHandler.asm`, `AsmVmxContentextState.asm` | the pushed frame, `IncrementRip`, `IsVmxoffExecuted`, the VMCS | one case per exit reason, VMRESUME, the VMXOFF path | hand-written stack layout; flags that survive an exit |
| EPT construction | `EptRoutines.c` | `MemoryRanges`, PML4/3/2 tables, splits | `EptBuildMtrrMap`, `EptSetupPML2Entry`, `EptAllocateAndCreateIdentityPageTable` | overlapping ranges, an array without a bound, a large page and a split in one slot |
| MSR bitmap, segments | `HypervisorRoutines.c`, `Common.c` | a bitmap per core | `HvSetMsrBitmap`, `SetBit`, `HvGetSegmentDescriptor`, `HvFillGuestSelectorData` | four quarters, bit numbering, sign extension |
| VMCS set-up | `VmxSetupVmcs`, `HvAdjustControls`, `AsmSegmentRegs.asm` | the VMCS, `InitiateCr3` | selectors, segments, controls, CR3 | runs in whatever process the DPC interrupts; the checks of VM entry |
| User-mode client | `rootvisor_um` | a handle | open, wait for a key, close | – |

How they interact: the client's `CreateFile` and `CloseHandle` become `DrvCreate` and `DrvClose` in
its thread. That thread calls `KeGenericCallDpc`, which runs a routine on every core; the routines
meet in `KeSignalCallDpcSynchronize`. They share `GuestState` (a slot per core), `EptState` and the
page table. Code in a guest reaches the hypervisor of its core through `AsmVmxVmcall` and through
exits; the hypervisors of different cores share only the page table and `EptState`. The hook asks
the other cores for an INVEPT through `KeIpiGenericCall`.

What makes each part correct:

* lifecycle: an open that succeeds has virtualized every core, a close leaves none; hardware never
  refers to freed memory; a request always returns; nothing but hook buffers leaks;
* hook: after the notification no core uses a translation the page table contradicts; only the hooked
  page traps; a trapped fetch is redone, and gets past the hook in the end; the hook returns;
* exits: the guest sees one instruction per exit and gets all other registers back, and the way out
  of the handler agrees with whether the core is still in VMX operation;
* set-up: under the page table every frame is found where it was, with a memory type the MTRRs allow;
  every split is freed; exactly the requested MSR accesses exit; VM entry accepts the VMCS, the operating
  system keeps its segments and address spaces, and the host's address space exists while it is needed.

The hazards behind these are listed with their lines in `PROJECT.json`.

## 2. Modules

| Module | Models |
|---|---|
| `Hypervisor` | abstract: what an open and a close promise a client |
| `VmxLifecycle` | load, open, close, unload; the three broadcasts; pool blocks; failures |
| `VmxLifecycle_proofs` | its theorems, and the inductive invariants `LiveInv`, `ReadyInv`, `LaunchInv`, `BufferInv`, `HeldInv` |
| `MCVmxLifecycle` | the sets of failures the runs use |
| `EptHook` | hook, violation handlers, page table and TLBs of all cores |
| `EptHook_proofs`, `MCEptHook` | its theorems; symmetry |
| `GuestInstructions` | instructions that exit, register values |
| `GuestCpu` | abstract: what an instruction that exits does, as one step |
| `VmExit` | launch, exit, handlers, VMRESUME, VMXOFF, with the assembly frames |
| `VmExit_proofs` | its theorems and the invariants `FlagInv`, `StepInv` |
| `MCVmExit` | the registers and CPUID outputs of the run |
| `Cores` | the constants the next four share |
| `EptTables` | MTRR map, identity map, splits, hooks and their release, entry by entry |
| `MsrBitmap` | `HvSetMsrBitmap` and `SetBit` |
| `VmcsSetup` | `VmxSetupVmcs`, VM entry and exit, processes and their page directories |
| `Setup` | composes these three in the order `VmxInitializer` and `HvVmxInitialize` impose |
| `Setup_proofs` | theorems about `Setup`, with one invariant for each of its parts |
| `EptTables_proofs` | theorems about the page table: frames, hooked pages, list of splits, memory types |
| `VmcsSetup_proofs` | theorems about the VMCS, the segments and VM entry; the type invariant of `Setup` |
| `MCSetup` | the machines, MTRR sets and requests of the run |

### Hypervisor

Two variables, the phase of the handle and the set of virtualized cores. An open fails and leaves no core
virtualized or returns with all of them; a close returns with none; weak fairness of `Serve` says that
each returns. `VmxLifecycle` and `EptHook` both implement it (`ImplementsHypervisor`): the first with the
failures of allocations, the second with cores that trap on a hook while the others wait for them.
`VmxLifecycle` reads the phase off `pc` and the handles, `EptHook` off `pc`; virtualized are the cores
whose guest exists, in its own code or in an exit.

### VmxLifecycle

`pc` is where the thread of the request stands, one label for every call that can fail or that
other cores can observe; `dpc[core]` is each core's progress in the current broadcast (`queued`,
`second` half, `sync` = waiting in the rendezvous, `done`, or `returned` without having signalled).
A pool block is a record naming what was allocated, by which open and for which core; `live` is the
set of allocated ones, `inUse[core]` what the *processor* refers to (VMXON region, VMCS and what it
points at), which the code cannot see and must not free. `splits` is `DynamicSplitList`.
Everything the code does on failure is an alternative of the action: the cleanup of `GuestState` when
`EptState` is missing, the early `return FALSE` of the allocation DPC, VMXOFF after a failed VMCLEAR,
VMREAD after VMXOFF when VMLAUNCH fails, `HvTerminateVmx` freeing whatever the VMCALL returned. #UD or
a bad free at DISPATCH_LEVEL is `Bugcheck`; then nothing happens any more.

`Faults` says which allocations and instructions may fail, `Limits` what the machine may lack.
The thread runs at PASSIVE_LEVEL and may be on another core at each step, so `PreAllocate`, `Hook`,
`TestVmcall` and `LateHook` choose the core anew.

Abstractions: one IRP is served at a time; the allocation loop of `HvVmxInitialize` visits cores in
any order; `KeIpiGenericCall` is one step here (it is expanded in `EptHook`); `DbgBreakPoint` and
`int 3` continue (a debugger is attached).

### EptHook

The table is `large` (the 2MB entry has not been split) and `ExecuteAccess[page]`. `tlb[core]` holds
translations the core has cached; a processor may cache or walk at any time (`TlbFill`, `Usable`), and
may hold several translations of one page. A fetch either executes or leaves the guest; the handler's
store, its INVEPT with `IncrementRip = FALSE`, and the way back are separate steps, as are the split,
the store and the INVEPT of the hook, so every interleaving between cores is explored. The memory type
of a split (`MemoryType` is left 0, uncacheable) is part of a translation. `SameTable` lets the pool
give a later open the address of the freed page table, where cached translations are tagged with the
same EPT pointer. `armed` is a history variable.

Abstractions: the read-modify-write of the execute bit is one store (every writer agrees on the other
bits); `KeIpiGenericCall` makes each core execute its VMCALL in turn, without the barrier before it,
which allows more orders than the kernel does; a guest's next fetch is from another page.

### VmExit and GuestCpu

A stack is a sequence of slots. `Pushes`, `Pops`, `Saves`, `Restores` and `VmxoffSlot` are the
assembly's, `GUEST_REGS` the struct the C code lays over the frame; the handlers read and write the
frame through it. Registers are symbols with a high half, so that sign extension, 64-bit comparisons
and bit 63 of CR3 count. The C code clobbers all registers. `GuestCpu` states per instruction which
registers and fields may change and how; `VmExit` maps its state to it by showing the state at the
last exit (`before`) until the core is back in the guest, or in the caller of VMCALL_VMXOFF.

`GuestCpu` promises what the code does, also where a processor would do otherwise: an unknown MSR reads
0, INVD and XSETBV are skipped, the high halves of CPUID outputs and the flags after VMXOFF are
left open. RSP as a destination of MOV from CR3 is left out: the code writes it to a slot that is
never restored (listed as a hazard).

### EptTables, MsrBitmap, VmcsSetup and Setup

`EptTables` numbers 4KB frames. `mtrr` holds what the variable ranges of the machine say,
`ReadVariableRange` is one turn of the loop of `EptBuildMtrrMap` (bit scan included),
`CreateIdentityPageTable` fills the PML2 entries through `EptSetupPML2Entry`, `EptPageHook` is the whole
call, from allocating a buffer on one core to `EptVmxRootModePageHook` on that or another core. A PML2
entry is a large page or a pointer to a split, told apart by the `LargePage` bit as in memory. A buffer is
named by the call that allocated it. The properties walk the table as the processor does (`Walk`) and
compare with the MTRRs read as the processor reads them, bit by bit (`InRange`), not with end addresses.
Past `MemoryRanges` the model stops (`Overrun`). PML4 and PML3 always point on and have no state. The
default type is taken to be write-back, as the code takes it, and the fixed MTRRs are not read.

`MsrBitmap` keeps bytes and bits, so that `SetBit`'s division and the four quarters count. The only call of
`HvSetMsrBitmap` in the driver is commented out (`VmxRoutines.c:824`, where it would also take the
TRUE of success for an error); here any core may ask for any MSR.

`VmcsSetup` has the segment registers with their hidden parts, a GDT, the capability MSRs and the
address spaces. A descriptor's base is two halves, each a symbol, with a sign for bit 31; access rights
are a symbol, `"none"` for a descriptor that is not present. `EntryAllowed` gives the checks of VM entry
that these fields can fail; a VMCS that fails them leaves the core in mode `"failed"`, which
`LaunchAccepted` says never happens. `EptCheckFeatures` guards the making of the table (`Prepare`).
`VmExit`, `VmxVmresume` and `VmxVmxoff` move CR3 and segments as the processor and the code do;
`ContextSwitch` and `ProcessExit` are Windows. `HOST_CR3` is the page directory of the client, although the comment at `VmxRoutines.c:402` speaks of the SYSTEM process; it
lives as long as the client, which cannot exit before its handle is closed. Registers that are copied
unchanged (CR0, CR4, SYSENTER, GDTR, IDTR) have no property and are left out. Every processor has the
same machine.

`Setup` puts them in order: `Prepare` (`VmxInitializer` and the loop of `HvVmxInitialize`), `Launch`,
`Handle` (VMX root operation: a hook by VMCALL, a violation), `Terminate`, and `Run` for what Windows
and the processor do. These modules open the device once and assume that allocations other than a split
buffer succeed; `VmxLifecycle` has the failures, the second open and what a reused address does.

## 3. Runs

| Run | Instance | What it shows |
|---|---|---|
| `VmxLifecycle` | 3 cores, 1 handle, 2 opens, failures the code can return from; 35,868 states | `ImplementsHypervisor`, `RequestCompletes`, `OpenMeansVirtualized`, `NativeWhenClosed`, `LeaksOnlyBuffers`, `LiveWhileVirtualized`, `OffBeforeFree`, and the inductive `LiveInv` |
| `VmxFaults` | 2 cores, 2 handles, 3 opens, every failure; 192,230 states up to symmetry | `VmxoffFlagAgrees`, `BufferNotLinked`, `LaunchOnlyWhenAllReady` |
| `VmxDpcHang` | VMCS region may fail | **violated** `RequestCompletes`: one DPC returns without signalling, all wait |
| `VmxOpenUnvirtualized` | VMPTRLD may fail | **violated** `OpenMeansVirtualized`: launch is judged on one core |
| `DriverReload` | no failure | **violated** `NoLinkWhenUnloaded`: the wrong link is deleted |
| `EptHook` | 2 cores, hooked page, a neighbour and a page above 512GB; 242,641 states | translations, neighbours, redone fetches, progress of fetch and hook, `ImplementsHypervisor` |
| `EptRedo` | as above | **violated** `EveryFetchRedone`: an unmapped fetch is skipped |
| `EptHookLost` | as above | **violated** `NextFetchTraps`: a late handler undoes a new hook |
| `EptReopen` | 2 opens, reused table address | **violated** `NoStaleTranslation`: nothing invalidates between opens |
| `VmExit` | 4 exits or launches, 5 registers in CR accesses; 50,014 states | `ImplementsGuestCpu`, `ResumeOnlyInVmx` |
| `Setup` | 8 mapped frames of 16, 2 slots for ranges, 3 hooks, 2 MSR requests, 2 cores, 3 processes; 113,635 states | memory types, array overrun, identity map, which pages trap, the list of splits, MSR exits, VM entry, segments, CR3 of host and guest, dropped controls |
| `VmxoffFlags` | 2 exits | **violated** `VmxoffKeepsFlags`: interrupts are off after VMXOFF |

Why the bounds are enough: a rendezvous, a race between a handler and a hook or a stale translation
needs two cores, and a third shows that "all" is not "both"; a second open meets everything the
first left behind, a third meets the leftovers of an overwritten one; a second handle is what makes
an open meet running guests. In `VmExit` four steps are a launch, VMXOFF, a launch and an exit, or a
launch and three exits, so that each flag is seen stale. `EptHook` opens once: with a fresh table a
second open repeats the first (the theorems cover any number), and with a reused one `EptReopen`
shows the violation.

In `Setup` a paging structure has 2 entries, so that three levels are 8 frames and a frame above them
exists for the limit of 512GB; 2 slots are filled by a third range. All pairs of aligned ranges and all
triples of five overlapping ones occur, hooks hit two pages of one region, pages of others and one above
the limit, MSRs the first and last of both ranges and their neighbours. Machines vary in null and
user-mode selectors, a local descriptor table, bit 31 of the FS descriptor, what follows the null
descriptor, and the controls on offer: some processors have no EPT, no 2MB pages in it or no secondary
controls, and MTRRs may be off, which `EptCheckFeatures` has to find. The four subjects barely depend on each other, and their product
would be of no use: `focus` in `MCSetup` chooses in the initial state which of them varies, and the
others stay plain. `Setup` itself has no such choice, and the theorems are about `Setup`.

Several runs turn deadlock checking off: a driver that is unloaded, a kernel that has stopped and an
exhausted bound are ends of a behaviour; `Setup` ends when an MTRR set overruns its array or a focus is
done.

Fairness. `VmxLifecycle`: weak fairness of the request's thread and of each core's DPC, which Windows
schedules; opening, closing, loading and unloading are never forced. `EptHook`: weak fairness of each
guest and each handler, which simply execute; strong fairness of the thread and of the interrupt,
since both need the core to be in its guest, which it is again and again while it traps. `VmExit`: the
core executes. `Hypervisor`: weak fairness of `Serve`, which the two specifications that implement it have
to justify with theirs. `Setup` has safety properties only.

## 4. Proofs

Every invariant and every action property of the passing runs is a theorem, and so are the two
refinements step by step. None fixes the number of cores, pages, registers, slots or requests. Where a
theorem needs a hypothesis, it is stated as one, and this section says what it excludes.

### Lifecycle (`VmxLifecycle_proofs`)

Under every failure and with any number of handles:

* `Typing`: the type invariant.
* `FlagsAgree`: no guest runs with `IsVmxoffExecuted` raised. Inductive because a guest is entered only
  in a launch broadcast, which follows the zeroing of `GuestState` by the same open.
* `LaunchAfterRendezvous`: no step launches a guest before every core has its regions, from `ReadyInv`
  (during the launch broadcast every core's four pointers are set).
* `BuffersAreFree`: the pool buffer a core has on offer is not one a split uses. `BufferInv` adds where
  in a request a buffer of that request can exist at all (`Allocated`), which is what makes the next
  allocation a new one.

With one handle and without a failing VMPTRLD (`SingleHandle`):

* `LiveInvariance`, `NoDanglingHardware`, `VmxOffBeforeFree`: hardware refers to live memory only, and
  all cores are off before the globals are freed. `LiveWhileVirtualized` is not inductive: that
  `HvTerminateVmx` may free needs that every core has passed `VmcallVmxoff`, which needs the per-core
  progress in `dpc`, the blocks each pointer of `GuestState[core]` owns, and which labels a launched core
  excludes. `LiveInv` is the conjunction of these. With two handles, or with VMPTRLD failing, TLC finds
  the core whose memory is freed.

If besides no stack, no bitmap and no VMCLEAR fails (`CleanFailures`):

* `OpenVirtualizesAll`, `ClosedIsNative`: a handle means that every core is in a guest, none that no core is.
* `RefinesHypervisor`: every step is a step or a stutter of `Hypervisor` (its `SafeSpec`), also those that
  end in a stopped kernel or a rendezvous that never returns. All three follow from `LaunchInv`: where
  each core is while a broadcast runs, by its `dpc`, and that everywhere else all cores are on one side.

`CleanFailures` is what the code needs: without a stack or a bitmap the open returns with every core left
in VMX root mode, and a core whose VMCLEAR or VMPTRLD fails is left behind while the open is judged on
another (`VmxOpenUnvirtualized` shows it).
`GuestState`, `EptState`, page table, buffers, VMXON and VMCS regions, VMXON and VMLAUNCH may fail.

If in addition no page table fails and the processor has the EPT features (`NothingDropped`):

* `OnlyBuffersLeak`: an idle driver leaves at most two hook buffers per open. `HeldInv` says who will
  free each block at each label of a request; `OneBufferInv` and `AtMostTwo` count the buffers.
  The two failures are excluded because the code returns from them without freeing what it has.

### Hook (`EptHook_proofs`)

* `Typing`, and `RefinesHypervisor`: the open that hooks a page and the close that follows are those of
  `Hypervisor`, step by step, with any page table. `LaunchedInv` says that outside the two requests' own
  broadcasts no core changes sides, however many trap.
* `TranslationsAgree`, `NeighboursUntouched`, `FetchesRedone`: the three safety properties of the hook, if
  the page table is not at the address of an earlier one (`FreshTable`; `EptReopen` is the
  counterexample without it). `HookInv` joins who is in VMX root mode for the hook and where the thread is
  (`RootInv`), that only the target can lack execute access (`TrapInv`), that a handler that will resume
  with `IncrementRip` set did not trap on a mapped page (`RedoInv`), and that settled cores agree with the
  table (`AgreeInv`).

### Exits (`VmExit_proofs`)

* `ResumeInVmx`: a guest is resumed only in VMX operation. The property says nothing of the flag that
  selects the way out; `FlagInv` adds that `IsVmxoffExecuted` is the complement of VMX operation from the
  launch until the core has left, which only zeroing `GuestState` on every open makes true.
* `Typing`, and `RefinesGuestCpu`: launch, exit, handler, VMRESUME and VMXOFF implement the one step of
  `GuestCpu`, for any register values, CPUID outputs and number of exits. Here the refinement is
  the whole of `ImplementsGuestCpu`, since `GuestCpu` states no fairness. `StepInv` relates the frame on
  the stack and the VMCS to `before`, the state at the exit: which slots still hold what the guest
  had, and what each handler has put in the others. `Slots` and its companions say that every
  register is pushed to, popped from and named by `GUEST_REGS` at the same place.

### Set-up (`Setup_proofs`, `EptTables_proofs`, `VmcsSetup_proofs`)

`Components` shows that a step of `Setup` is a step or a stutter of each of its three parts, so each
invariant is proved on one part. Without hypotheses, for any cores, processes, registers, slots, hooks,
bitmap bytes, page-table geometry and machines:

* `HostSpaceLives`, `SpaceKept`: `SpaceInv` ties the CR3 of every core, and of the VMCS of every core in
  the host, to the process it has interrupted, and `InitiateCr3` to a client that is alive while the
  device is open.
* `OverrunNeedsFullMap`: `MapInv` counts the ranges that stay stored among the registers read
  (`StoredStep`: one more register adds one or none).
* `NoSplitLost`: in `BufferInv` every live buffer is in the list or on offer, with `HookBuffers` for the hook.
* `BitmapExact`: different accesses have different bits (`OneBitEach`), a request sets the one of its
  access (`SetAccessSetsOne`), and the processor looks there (`ExitsIfSet`).
* `ListSound`, `FramesStay`, `HookedPagesTrap`: in `LinkInv` a buffer is on offer on one core or linked
  once, and a linked one is where its entry points; in `TableInv` every PML2 entry is as it was built and
  covers no hooked page, or leads to a linked split that maps the same frames and traps on exactly
  the hooked ones. Index arithmetic is in lemmas of its own, from `Division` and `Quotient` to
  `AtPosition`; the provers know products and no powers, so `EptTables` writes sizes as products.
* `SetupTyping`: the type invariant, from the invariants of the parts.

With a hypothesis about the machines, which `MCSetup` has TLC check of those of the run:

* `MemoryTypesKept`, if every valid MTRR covers the frames from its base to the end given by the
  lowest bit of its mask (`ContiguousRanges`). `EptBuildMtrrMap` computes the end so and takes it for
  granted; the architecture allows other masks and discourages them. The ranges may overlap, and come in
  any number and order. `StoredInv` says that the slots hold exactly the descriptors of the ranges that
  are not write-back, `TypesFollow` that a region gets the type of the last slot that touches it, or UC at the first
  that is UC, which is what the MTRRs say of uncacheable frames and of regions of one type.
  That a non-empty set of slots has a last element would need induction; the invariant carries it
  (`LastExists`), so that one more register is one step of it.
* `SegmentsKept`, `NoLaunchFails`, with the segments of a 64-bit Windows (`WindowsSegments`: null
  selectors are 0, what is loaded is present, code and data bases have no bit 31, system bases are
  canonical, CS and TR are not null); `NoLaunchFails` also with capability MSRs that demand no control they
  forbid (`Consistent`). A null selector with an RPL is excluded because VM entry fails for it (section 5).
* `NothingMissed`: a guest that runs has EPT and every instruction of its processor, on what the
  architecture makes any processor report (`Architectural`; those without EPT are included). `CheckedInv`
  carries what `EptCheckFeatures` found in IA32_VMX_EPT_VPID_CAP at the open to the launch on every core,
  where `HvAdjustControls` looks at another MSR. The instructions are RDTSCP, INVPCID and XSAVES: one
  with a later control (TPAUSE) is reported by CPUID and is an invalid opcode in the guest.

The last three rest on `VmcsInv`: what a core runs with is what `VmxSetupVmcs` wrote, whatever exits there were.

### Only model-checked

Liveness, which is out of the prover's reach: `RequestCompletes`, `FetchExecutes`, `HookReturns`, and the
weak fairness of `Serve` in the two `ImplementsHypervisor`, whose other half is `RefinesHypervisor`. The
properties of the runs that expect a violation have no proof, of course; TLC's counterexamples are
their evidence.

## 5. Not modelled

* Requests served concurrently: the device is not exclusive, and two creates, or a create and a close,
  race on `GuestState` and the broadcasts. In the hazards, and next in the plan.
* VMCS fields that are copied unchanged or are zero; the default MTRR type and the fixed MTRRs, which
  the code does not read; null selectors with an RPL other than 0, which `HvFillGuestSelectorData` does not
  mark unusable, so that VM entry would fail (listed as a hazard; Windows itself uses none); writes of a `vmread` past a 32-bit local,
  whose effect depends on the stack layout of a build.
* `SetBit` with `Set` FALSE, `GetBit` and `HvSetGuestSelector`, which have no caller.
* I/O exits, triple faults and EPT misconfigurations beyond the default case; a failing VMRESUME.
* What the segment registers are after VMXOFF: the code gives back CR3, stack and instruction pointer
  only, and Windows reloads selectors at the next switch, which is not in the source.
* The user-mode client, which is the environment of `VmxLifecycle`; logging and build files.

## 6. Plan

Done: 1. `VmxLifecycle`; 2. `EptHook`; 3. `GuestCpu` and `VmExit`; 4. `Hypervisor`, implemented by 1 and 2;
5. `EptTables`, `MsrBitmap`, `VmcsSetup` and `Setup`; 6. the theorems of all of them.

Next, in this order:

1. concurrent opens and closes in `VmxLifecycle`: a process per request, and which of the theorems
   survive it;
2. `LiveInv` for two handles as far as it is true: that a core in a guest refers to the blocks of *some*
   open, whatever the globals say.
