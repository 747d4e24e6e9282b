------------------------------ MODULE EptHook ------------------------------
(***************************************************************************)
(* The execute hook of EptRoutines.c: EptPageHook takes execute access     *)
(* from the page of ExAllocatePool2 before launch and again afterwards,    *)
(* while the guests of all cores keep fetching from that page through      *)
(* translations their processors have cached.  The first fetch of a hooked *)
(* page leaves the guest; EptHandlePageHookExit gives execute access back, *)
(* invalidates the cached translations of its own core and has the guest   *)
(* redo the instruction.                                                   *)
(*                                                                         *)
(* One thread hooks; each core runs its guest and, in VMX root mode, its   *)
(* exit handler.  All cores share one page table without a lock.           *)
(***************************************************************************)
EXTENDS Naturals, FiniteSets

CONSTANTS
  Core,       \* the logical processors
  Page,       \* 4KB pages of the 2MB region that holds the hooked function
  Target,     \* the page of the hooked function
  Unmapped,   \* guest-physical pages above 512GB, which have no EPT entry
  Vmcall,     \* the VMCALL instruction of AsmVmxVmcall
  SameTable,  \* a later open may get its page table at the address of an earlier
  MaxOpens    \* bound: open requests in a behaviour

ASSUME PageAssumption == /\ Target \in Page /\ Page \cap Unmapped = {}
                         /\ Vmcall \notin Page \cup Unmapped
ASSUME BoundAssumption == SameTable \in BOOLEAN /\ MaxOpens \in Nat

VARIABLES
  pc,            \* where the thread that opens, hooks and closes stands
  opens,         \* opens so far
  acked,         \* cores whose part of the KeIpiGenericCall is done
  large,         \* the region's PML2 entry maps a large page
  ExecuteAccess, \* the execute bit of each page's PML1 entry
  buffer,        \* cores with a PreAllocatedBuffer
  cpu,           \* what each core does: the guest, or a stage of its exit handler
  insn,          \* the instruction of each guest: a fetch from a page, or VMCALL
  IncrementRip,  \* GuestState[core].IncrementRip
  tlb,           \* translations each core has cached
  armed          \* history: hooked, and nobody has left the guest on Target since

table == <<large, ExecuteAccess>>
cores == <<cpu, insn, IncrementRip>>
vars  == <<pc, opens, acked, table, buffer, cores, tlb, armed>>

Fetches == Page \cup Unmapped

Translation == [page : Page, exec : BOOLEAN, type : {"WB", "UC"}]

(* What a walk of the page table yields for page p.  The PML1 entries of a *)
(* split leave MemoryType 0, uncacheable.                                  *)
Walk(p) == [page |-> p,
            exec |-> large \/ ExecuteAccess[p],
            type |-> IF large THEN "WB" ELSE "UC"]

Init ==
  /\ pc = "Closed" /\ opens = 0 /\ acked = {}
  /\ large = TRUE /\ ExecuteAccess = [p \in Page |-> TRUE]
  /\ buffer = {}
  /\ cpu = [c \in Core |-> "off"]
  /\ insn \in [Core -> Fetches]
  /\ IncrementRip = [c \in Core |-> FALSE]
  /\ tlb = [c \in Core |-> {}]
  /\ armed = FALSE

Cpu(c, stage) == cpu' = [cpu EXCEPT ![c] = stage]

(* AsmInvept on core c, for this EPT or for all of them.                   *)
AsmInvept(c) == tlb' = [tlb EXCEPT ![c] = {}]

--------------------------------------------------------------------------
(* The guests                                                              *)

(* A processor may cache any translation a guest could use.                *)
TlbFill(c) ==
  /\ cpu[c] = "guest"
  /\ \E p \in Page : tlb' = [tlb EXCEPT ![c] = @ \cup {Walk(p)}]
  /\ UNCHANGED <<pc, opens, acked, table, buffer, cores, armed>>

(* What core c may use for a fetch from page p: cached, or walked now.     *)
Usable(c, p) == {e \in tlb[c] : e.page = p} \cup {Walk(p)}

Execute(c) ==
  /\ cpu[c] = "guest" /\ insn[c] \in Page
  /\ \E e \in Usable(c, insn[c]) :
       e.exec /\ tlb' = [tlb EXCEPT ![c] = @ \cup {e}]
  /\ \E next \in Fetches \ {insn[c]} : insn' = [insn EXCEPT ![c] = next]
  /\ UNCHANGED <<pc, opens, acked, table, buffer, cpu, IncrementRip, armed>>

(* An EPT violation drops the translation it used.  VmxVmexitHandler       *)
(* raises IncrementRip before it looks at the exit reason.                 *)
EptViolation(c) ==
  /\ cpu[c] = "guest" /\ insn[c] \in Fetches
  /\ insn[c] \in Page => \E e \in Usable(c, insn[c]) : ~e.exec
  /\ tlb' = [tlb EXCEPT ![c] = {e \in @ : e.page # insn[c]}]
  /\ Cpu(c, "violation") /\ IncrementRip' = [IncrementRip EXCEPT ![c] = TRUE]
  /\ armed' = (armed /\ insn[c] # Target)
  /\ UNCHANGED <<pc, opens, acked, table, buffer, insn>>

--------------------------------------------------------------------------
(* The exit handlers                                                       *)

(* Mutant: a violation is ours only if the entry is not executable now.    *)
HandleOnlyIfStillHooked(c) ==
  /\ cpu[c] = "violation"
  /\ IF insn[c] \in Page /\ ~large /\ ~ExecuteAccess[insn[c]]
     THEN /\ ExecuteAccess' = [ExecuteAccess EXCEPT ![insn[c]] = TRUE]
          /\ Cpu(c, "invept")
     ELSE UNCHANGED ExecuteAccess /\ Cpu(c, "resume")
  /\ UNCHANGED <<pc, opens, acked, large, buffer, insn, IncrementRip, tlb, armed>>

(* Mutant: the handler forgets to give execute access back.                *)
HandleWithoutAccess(c) ==
  /\ cpu[c] = "violation"
  /\ Cpu(c, IF insn[c] \in Page /\ ~large THEN "invept" ELSE "resume")
  /\ UNCHANGED <<pc, opens, acked, table, buffer, insn, IncrementRip, tlb, armed>>

(* Mutant: EptGetPml1Entry without the test for addresses above 512GB.     *)
HandleWithoutRangeCheck(c) ==
  /\ cpu[c] = "violation"
  /\ ExecuteAccess' = [p \in Page \cup {insn[c]} |-> p = insn[c] \/ ExecuteAccess[p]]
  /\ Cpu(c, "invept")
  /\ UNCHANGED <<pc, opens, acked, large, buffer, insn, IncrementRip, tlb, armed>>

(* The violation says the page was not executable when it was translated,  *)
(* whatever its entry says by now.  EptGetPml1Entry finds no entry above   *)
(* 512GB; then EptHandleEptViolation returns FALSE, which is only logged.  *)
EptHandlePageHookExit(c) ==
  /\ cpu[c] = "violation"
  /\ IF insn[c] \in Page /\ ~large
     THEN /\ ExecuteAccess' = [ExecuteAccess EXCEPT ![insn[c]] = TRUE]
          /\ Cpu(c, "invept")
     ELSE UNCHANGED ExecuteAccess /\ Cpu(c, "resume")
  /\ UNCHANGED <<pc, opens, acked, large, buffer, insn, IncrementRip, tlb, armed>>

InveptAndRedo(c) ==
  /\ cpu[c] = "invept"
  /\ AsmInvept(c)
  /\ IncrementRip' = [IncrementRip EXCEPT ![c] = FALSE]
  /\ Cpu(c, "resume")
  /\ UNCHANGED <<pc, opens, acked, table, buffer, insn, armed>>

(* The end of VmxVmexitHandler, with HvResumeToNextInstruction.            *)
ResumeGuest(c) ==
  /\ cpu[c] = "resume" /\ Cpu(c, "guest")
  /\ IF IncrementRip[c]
     THEN \E next \in Fetches \ {insn[c]} : insn' = [insn EXCEPT ![c] = next]
     ELSE UNCHANGED insn
  /\ UNCHANGED <<pc, opens, acked, table, buffer, IncrementRip, tlb, armed>>

--------------------------------------------------------------------------
(* The thread: open, hook, close                                           *)

(* The page table of the next open, at a new address or at the old one,    *)
(* whose translations no INVEPT has removed.                               *)
TableAddress == \/ tlb' = [c \in Core |-> {}]
                \/ SameTable /\ UNCHANGED tlb

(* EptLogicalProcessorInitialize: a new identity map and the hook before   *)
(* launch, which fails if there is no buffer for the split.                *)
EptLogicalProcessorInitialize ==
  /\ pc = "Closed" /\ opens < MaxOpens
  /\ pc' = "Launch" /\ opens' = opens + 1 /\ buffer' = {}
  /\ \/ /\ large' = FALSE
        /\ ExecuteAccess' = [p \in Page |-> p # Target]
        /\ armed' = TRUE
     \/ /\ large' = TRUE
        /\ ExecuteAccess' = [p \in Page |-> TRUE]
        /\ armed' = FALSE
  /\ TableAddress
  /\ UNCHANGED <<acked, cores>>

VmxVirtualizeCurrentSystem(c) ==
  /\ pc = "Launch" /\ cpu[c] = "off"
  /\ Cpu(c, "guest")
  /\ UNCHANGED <<pc, opens, acked, table, buffer, insn, IncrementRip, tlb, armed>>

LaunchDpcReturns ==
  /\ pc = "Launch" /\ \A c \in Core : cpu[c] # "off"
  /\ pc' = "Buffer"
  /\ UNCHANGED <<opens, acked, table, buffer, cores, tlb, armed>>

(* EptPageHook after launch, on the core the thread is on just now.        *)
PreAllocate(c) ==
  /\ pc = "Buffer" /\ cpu[c] = "guest"
  /\ \/ pc' = "Vmcall" /\ buffer' = buffer \cup {c}
     \/ pc' = "Open" /\ UNCHANGED buffer
  /\ UNCHANGED <<opens, acked, table, cores, tlb, armed>>

VmcallExecHookPage(c) ==
  /\ pc = "Vmcall" /\ cpu[c] = "guest"
  /\ pc' = "Root" /\ Cpu(c, "hook")
  /\ insn' = [insn EXCEPT ![c] = Vmcall]
  /\ IncrementRip' = [IncrementRip EXCEPT ![c] = TRUE]
  /\ UNCHANGED <<opens, acked, table, buffer, tlb, armed>>

(* Mutant: the split starts from an empty template.                        *)
SplitNotExecutable(c) ==
  /\ cpu[c] = "hook"
  /\ IF c \notin buffer
     THEN pc' = "Open" /\ Cpu(c, "resume") /\ UNCHANGED <<table, buffer>>
     ELSE /\ Cpu(c, "store") /\ UNCHANGED pc
          /\ large' = FALSE
          /\ IF large THEN /\ ExecuteAccess' = [p \in Page |-> FALSE]
                           /\ buffer' = buffer \ {c}
             ELSE UNCHANGED <<ExecuteAccess, buffer>>
  /\ UNCHANGED <<opens, acked, insn, IncrementRip, tlb, armed>>

(* Mutant: a hook that finds no buffer has the thread try again.           *)
RetryWithoutBuffer(c) ==
  /\ cpu[c] = "hook"
  /\ IF c \notin buffer
     THEN pc' = "Vmcall" /\ Cpu(c, "resume") /\ UNCHANGED <<table, buffer>>
     ELSE /\ Cpu(c, "store") /\ UNCHANGED pc
          /\ large' = FALSE
          /\ IF large THEN /\ ExecuteAccess' = [p \in Page |-> TRUE]
                           /\ buffer' = buffer \ {c}
             ELSE UNCHANGED <<ExecuteAccess, buffer>>
  /\ UNCHANGED <<opens, acked, insn, IncrementRip, tlb, armed>>

(* EptVmxRootModePageHook up to its EptSplitLargePage; the thread may have *)
(* moved to a core that has no buffer.                                     *)
EptVmxRootModePageHook(c) ==
  /\ cpu[c] = "hook"
  /\ IF c \notin buffer
     THEN pc' = "Open" /\ Cpu(c, "resume") /\ UNCHANGED <<table, buffer>>
     ELSE /\ Cpu(c, "store") /\ UNCHANGED pc
          /\ large' = FALSE
          /\ IF large THEN /\ ExecuteAccess' = [p \in Page |-> TRUE]
                           /\ buffer' = buffer \ {c}
             ELSE UNCHANGED <<ExecuteAccess, buffer>>
  /\ UNCHANGED <<opens, acked, insn, IncrementRip, tlb, armed>>

(* TargetPage->Flags = OriginalEntry.Flags                                 *)
StoreHook(c) ==
  /\ cpu[c] = "store"
  /\ ExecuteAccess' = [ExecuteAccess EXCEPT ![Target] = FALSE]
  /\ armed' = TRUE
  /\ Cpu(c, "hookInvept")
  /\ UNCHANGED <<pc, opens, acked, large, buffer, insn, IncrementRip, tlb>>

(* Mutant: success is reported without HvNotifyAllToInvalidateEpt.         *)
InveptHookNoNotify(c) ==
  /\ cpu[c] = "hookInvept"
  /\ AsmInvept(c) /\ Cpu(c, "resume")
  /\ pc' = "Open" /\ acked' = {}
  /\ UNCHANGED <<opens, table, buffer, insn, IncrementRip, armed>>

(* The INVEPT of the hook; VMCALL returns STATUS_SUCCESS and EptPageHook   *)
(* calls HvNotifyAllToInvalidateEpt.                                       *)
InveptHook(c) ==
  /\ cpu[c] = "hookInvept"
  /\ AsmInvept(c) /\ Cpu(c, "resume")
  /\ pc' = "Notify" /\ acked' = {}
  /\ UNCHANGED <<opens, table, buffer, insn, IncrementRip, armed>>

(* HvInvalidateEptByVmcall in the interrupt of KeIpiGenericCall: taken by  *)
(* a guest, not by an exit handler.  Its exit touches core c's TLB only.   *)
HvInvalidateEptByVmcall(c) ==
  /\ pc = "Notify" /\ cpu[c] = "guest" /\ c \notin acked
  /\ AsmInvept(c) /\ acked' = acked \cup {c}
  /\ UNCHANGED <<pc, opens, table, buffer, cores, armed>>

IpiReturns ==
  /\ pc = "Notify" /\ acked = Core
  /\ pc' = "Open"
  /\ UNCHANGED <<opens, acked, table, buffer, cores, tlb, armed>>

HvTerminateVmx ==
  /\ pc = "Open" /\ pc' = "Close"
  /\ UNCHANGED <<opens, acked, table, buffer, cores, tlb, armed>>

(* VMXOFF keeps cached translations, and nothing invalidates them.         *)
VmxVmxoff(c) ==
  /\ pc = "Close" /\ cpu[c] = "guest"
  /\ Cpu(c, "off")
  /\ UNCHANGED <<pc, opens, acked, table, buffer, insn, IncrementRip, tlb, armed>>

(* Mutant: the close does not wait for the DPCs it has queued.             *)
TerminateDpcQueued ==
  /\ pc = "Close"
  /\ pc' = "Closed"
  /\ UNCHANGED <<opens, acked, table, buffer, cores, tlb, armed>>

TerminateDpcReturns ==
  /\ pc = "Close" /\ \A c \in Core : cpu[c] = "off"
  /\ pc' = "Closed"
  /\ UNCHANGED <<opens, acked, table, buffer, cores, tlb, armed>>

Guest(c) == Execute(c) \/ EptViolation(c)

Handler(c) == \/ EptHandlePageHookExit(c) \/ InveptAndRedo(c) \/ ResumeGuest(c)
              \/ EptVmxRootModePageHook(c) \/ StoreHook(c) \/ InveptHook(c)

Thread ==
  \/ LaunchDpcReturns \/ IpiReturns \/ TerminateDpcReturns
  \/ \E c \in Core : \/ VmxVirtualizeCurrentSystem(c) \/ PreAllocate(c)
                     \/ VmcallExecHookPage(c) \/ VmxVmxoff(c)

Next ==
  \/ EptLogicalProcessorInitialize \/ HvTerminateVmx \/ Thread
  \/ \E c \in Core : \/ Guest(c) \/ Handler(c) \/ TlbFill(c)
                     \/ HvInvalidateEptByVmcall(c)

Spec == Init /\ [][Next]_vars

(* Every core executes its guest and its handlers and takes its interrupt; *)
(* the thread inside a request runs.  Nobody has to open or close.         *)
Fairness ==
  /\ SF_vars(Thread)
  /\ \A c \in Core : /\ WF_vars(Guest(c)) /\ WF_vars(Handler(c))
                     /\ SF_vars(HvInvalidateEptByVmcall(c))

FairSpec == Spec /\ Fairness

--------------------------------------------------------------------------
(* Properties                                                              *)

(* Type invariant.                                                         *)
TypeOK ==
  /\ pc \in {"Closed", "Launch", "Buffer", "Vmcall", "Root", "Notify", "Open", "Close"}
  /\ opens \in Nat /\ acked \subseteq Core /\ buffer \subseteq Core
  /\ large \in BOOLEAN /\ ExecuteAccess \in [Page -> BOOLEAN]
  /\ cpu \in [Core -> {"off", "guest", "violation", "invept", "resume",
                       "hook", "store", "hookInvept"}]
  /\ insn \in [Core -> Fetches \cup {Vmcall}]
  /\ IncrementRip \in [Core -> BOOLEAN]
  /\ tlb \in [Core -> SUBSET Translation]
  /\ armed \in BOOLEAN

(* Core c has had every invalidation the thread has asked of it.           *)
Settled(c) == /\ cpu[c] # "off"
              /\ pc \in {"Launch", "Buffer", "Vmcall", "Open"} \/ (pc = "Notify" /\ c \in acked)

(* "so it will not conflict with the actual paging structure": once a core *)
(* has taken its part of HvNotifyAllToInvalidateEpt, no translation it has *)
(* cached executes a page the table makes non-executable, and none is      *)
(* left of the large page the table no longer has.                         *)
NoStaleTranslation ==
  \A c \in Core : Settled(c) =>
    \A e \in tlb[c] : /\ e.exec => Walk(e.page).exec
                      /\ e.type = Walk(e.page).type

(* The split leaves the neighbours of the hooked page alone: no core is    *)
(* ever in the EPT violation handler for one of them.                      *)
OnlyTargetTraps ==
  \A c \in Core : cpu[c] = "violation" /\ insn[c] \in Page => insn[c] = Target

(* A fetch from the hooked region is never skipped by an exit handler:     *)
(* the guest moves past it only by executing it, also when several cores   *)
(* leave the guest for the same entry and the first has changed it.        *)
HookedFetchRedone ==
  [][\A c \in Core : insn[c] \in Page /\ insn'[c] # insn[c] => cpu[c] = "guest"]_vars

(* A fetch from the hooked page is not trapped over and over: the guest    *)
(* gets past it, whatever the other cores do to the entry.                 *)
FetchExecutes ==
  \A c \in Core : (insn[c] = Target /\ cpu[c] # "off")
                    ~> (insn[c] # Target \/ cpu[c] = "off")

(* EptPageHook returns: the VMCALL resumes and every core takes the        *)
(* interrupt, in spite of the violations it has to handle meanwhile.       *)
HookReturns == (pc = "Vmcall") ~> (pc = "Open")

Phase == CASE pc \in {"Launch", "Buffer", "Vmcall", "Root", "Notify"} -> "opening"
           [] pc = "Open"   -> "open"
           [] pc = "Close"  -> "closing"
           [] pc = "Closed" -> "closed"

H == INSTANCE Hypervisor WITH phase <- Phase,
                              virtualized <- {c \in Core : cpu[c] # "off"}

(* The open that hooks and waits for all cores while they trap still does  *)
(* what its user may rely on: it returns with every core in a guest, and   *)
(* the close gets every core out of its handlers and native.               *)
ImplementsHypervisor == H!Spec

(* "Redo the instruction that caused the exception" (EptRoutines.c:547):   *)
(* no fetch that left the guest with an EPT violation is skipped.          *)
EveryFetchRedone ==
  [][\A c \in Core : insn[c] \in Fetches /\ insn'[c] # insn[c] => cpu[c] = "guest"]_vars

(* "the next time that an instruction is fetched from this page" causes an *)
(* EPT violation exit (EptRoutines.c:624): once EptPageHook has returned,  *)
(* no core executes the page before somebody has left the guest on it.     *)
NextFetchTraps ==
  [][\A c \in Core : pc = "Open" /\ armed /\ insn[c] = Target /\ insn'[c] # Target
                       => cpu[c] # "guest"]_vars
==========================================================================
