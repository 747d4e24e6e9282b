----------------------------- MODULE EptTables -----------------------------
(***************************************************************************)
(* The extended page table of EptRoutines.c: EptBuildMtrrMap reads the     *)
(* variable-range MTRRs, EptAllocateAndCreateIdentityPageTable maps every  *)
(* address below 512GB to itself in large pages with the memory types of   *)
(* that map, EptPageHook splits large pages and takes execute access from  *)
(* single frames, EptHandlePageHookExit gives it back, and HvTerminateVmx  *)
(* frees what DynamicSplitList remembers.                                  *)
(*                                                                         *)
(* An address is the number of its 4KB frame.  The driver runs these one   *)
(* after another; EptHook models them on several cores at once.            *)
(***************************************************************************)
EXTENDS Cores, Naturals, Sequences, FiniteSets

CONSTANTS
  Entries,     \* entries of a paging structure (512)
  MaskBits,    \* width of PhysMask in frames (36)
  RangeSlots,  \* length of EptState->MemoryRanges (9)
  MtrrSets,    \* what the variable-range MTRRs of a machine may hold
  Functions,   \* frames of the functions EptPageHook is asked to hook
  MaxHooks     \* bound: calls of EptPageHook in a behaviour

Frame  == 0 .. 2^MaskBits - 1
Mapped == 0 .. Entries * Entries * Entries - 1
Index  == 0 .. Entries - 1
Buffer == 1 .. MaxHooks

MemoryType == {"UC", "WC", "WT", "WP", "WB"}

VariableRange == [Valid : BOOLEAN, PhysBase : Frame, PhysMask : Frame, Type : MemoryType]

ASSUME SizeAssumption == /\ Entries \in Nat \ {0} /\ MaskBits \in Nat
                         /\ RangeSlots \in Nat /\ MaxHooks \in Nat
ASSUME FrameAssumption == Mapped \subseteq Frame /\ Functions \subseteq Frame
ASSUME MtrrAssumption == MtrrSets \subseteq Seq(VariableRange)
ASSUME PointerAssumption == NULL \notin Buffer

VARIABLES
  mtrr,             \* the variable-range MTRRs of this machine
  stage,            \* what has been built
  CurrentRegister,  \* variable ranges read so far
  MemoryRanges,     \* EptState->MemoryRanges and, beside it,
  NumberOfEnabledMemoryRanges,
  PML2,             \* the PML2 entries, by index into PML3 and PML2
  split,            \* the VMM_EPT_DYNAMIC_SPLIT in each buffer
  DynamicSplitList, \* the buffers linked in the page table, last split first
  PreAllocatedBuffer,
  calls,            \* calls of EptPageHook so far
  live,             \* buffers allocated and not freed
  hooked            \* history: hooked and not trapped since

mtrrMap == <<CurrentRegister, MemoryRanges, NumberOfEnabledMemoryRanges>>
splits  == <<split, DynamicSplitList, PreAllocatedBuffer, live>>
eptVars == <<mtrr, stage, mtrrMap, PML2, splits, calls, hooked>>

(* ADDRMASK_EPT_PML1_INDEX and so on, of a frame.                          *)
PML1Index(f) == f % Entries
PML2Index(f) == (f \div Entries) % Entries
PML3Index(f) == (f \div (Entries * Entries)) % Entries
PML4Index(f) == f \div (Entries * Entries * Entries)

EntryOf(f) == <<PML3Index(f), PML2Index(f)>>

(* An EPT_PML2_ENTRY for a large page and an EPT_PML2_POINTER to a split   *)
(* lie in the same place; the latter's frame is that of the buffer.        *)
LargeEntry(pfn, type) ==
  [LargePage |-> TRUE, PageFrameNumber |-> pfn, MemoryType |-> type]
PointerTo(b) == [LargePage |-> FALSE, PageFrameNumber |-> b]

EptInit ==
  /\ mtrr \in MtrrSets /\ stage = "Mtrr"
  /\ CurrentRegister = 0 /\ NumberOfEnabledMemoryRanges = 0
  /\ MemoryRanges = [i \in 0 .. RangeSlots - 1 |-> NULL]
  /\ PML2 = [e \in Index \X Index |-> NULL]
  /\ split = [b \in Buffer |-> NULL]
  /\ DynamicSplitList = <<>>
  /\ PreAllocatedBuffer = [c \in Core |-> NULL]
  /\ calls = 0 /\ live = {} /\ hooked = {}

--------------------------------------------------------------------------
(* EptBuildMtrrMap                                                         *)

(* _BitScanForward64: the lowest bit that is set.                          *)
LowestBit(mask) ==
  CHOOSE b \in {2^k : k \in 0 .. MaskBits - 1} : mask % (2 * b) = b

Descriptor(r) == [PhysicalBaseAddress |-> r.PhysBase,
                  PhysicalEndAddress  |-> r.PhysBase + LowestBit(r.PhysMask) - 1,
                  MemoryType          |-> r.Type]

(* Mutant: a write-back range keeps the slot it was written to.            *)
ReadVariableRangeKeepingWb ==
  LET r == mtrr[CurrentRegister + 1]
      n == NumberOfEnabledMemoryRanges
  IN  /\ stage = "Mtrr" /\ CurrentRegister < Len(mtrr)
      /\ CurrentRegister' = CurrentRegister + 1
      /\ IF ~r.Valid THEN UNCHANGED <<stage, MemoryRanges, NumberOfEnabledMemoryRanges>>
         ELSE IF n = RangeSlots
         THEN /\ stage' = "Overrun"
              /\ UNCHANGED <<MemoryRanges, NumberOfEnabledMemoryRanges>>
         ELSE /\ MemoryRanges' = [MemoryRanges EXCEPT ![n] = Descriptor(r)]
              /\ NumberOfEnabledMemoryRanges' = n + 1
              /\ UNCHANGED stage
      /\ UNCHANGED <<mtrr, PML2, splits, calls, hooked>>

(* One turn of the loop.  A range is written first and its slot given back *)
(* if it is write-back; past the array the write lands on the count and    *)
(* the pointers that follow it in EPT_STATE, where the model stops.        *)
ReadVariableRange ==
  LET r == mtrr[CurrentRegister + 1]
      n == NumberOfEnabledMemoryRanges
  IN  /\ stage = "Mtrr" /\ CurrentRegister < Len(mtrr)
      /\ CurrentRegister' = CurrentRegister + 1
      /\ IF ~r.Valid THEN UNCHANGED <<stage, MemoryRanges, NumberOfEnabledMemoryRanges>>
         ELSE IF n = RangeSlots
         THEN /\ stage' = "Overrun"
              /\ UNCHANGED <<MemoryRanges, NumberOfEnabledMemoryRanges>>
         ELSE /\ MemoryRanges' = [MemoryRanges EXCEPT ![n] = Descriptor(r)]
              /\ NumberOfEnabledMemoryRanges' = IF r.Type = "WB" THEN n ELSE n + 1
              /\ UNCHANGED stage
      /\ UNCHANGED <<mtrr, PML2, splits, calls, hooked>>

--------------------------------------------------------------------------
(* EptAllocateAndCreateIdentityPageTable                                   *)

(* The stored ranges that touch large page pfn, by their slot.             *)
Touching(pfn) ==
  {i \in 0 .. NumberOfEnabledMemoryRanges - 1 :
     /\ pfn * Entries <= MemoryRanges[i].PhysicalEndAddress
     /\ pfn * Entries + Entries - 1 >= MemoryRanges[i].PhysicalBaseAddress}

(* Mutant: the search does not stop at an uncacheable range.               *)
EptSetupPML2EntryNoBreak(pfn) ==
  LET touching == Touching(pfn)
      last     == CHOOSE i \in touching : \A j \in touching : j <= i
  IN  LargeEntry(pfn, IF pfn = 0 THEN "UC"
                      ELSE IF touching = {} THEN "WB"
                      ELSE MemoryRanges[last].MemoryType)

(* The first large page is uncacheable; for any other the last range that  *)
(* touches it decides, unless the search has stopped at an uncacheable one.*)
EptSetupPML2Entry(pfn) ==
  LET touching == Touching(pfn)
      last     == CHOOSE i \in touching : \A j \in touching : j <= i
  IN  LargeEntry(pfn, IF \/ pfn = 0
                         \/ \E i \in touching : MemoryRanges[i].MemoryType = "UC"
                      THEN "UC"
                      ELSE IF touching = {} THEN "WB"
                      ELSE MemoryRanges[last].MemoryType)

CreateIdentityPageTable ==
  /\ stage = "Mtrr" /\ CurrentRegister = Len(mtrr)
  /\ stage' = "Built"
  /\ PML2' = [e \in Index \X Index |-> EptSetupPML2Entry(e[1] * Entries + e[2])]
  /\ UNCHANGED <<mtrr, mtrrMap, splits, calls, hooked>>

--------------------------------------------------------------------------
(* EptPageHook                                                             *)

(* Mutant: the frames of a split are counted from 0.                       *)
SplitFromZero(e) ==
  [Entry |-> e,
   PML1  |-> [i \in Index |-> [PageFrameNumber |-> PML2[e].PageFrameNumber + i,
                               ExecuteAccess |-> TRUE, MemoryType |-> "UC"]]]

(* The template leaves MemoryType 0, which is uncacheable.                 *)
SplitOf(e) ==
  [Entry |-> e,
   PML1  |-> [i \in Index |-> [PageFrameNumber |-> PML2[e].PageFrameNumber * Entries + i,
                               ExecuteAccess |-> TRUE, MemoryType |-> "UC"]]]

(* Mutant: the split is not entered in the list.                           *)
NotLinked(b) == DynamicSplitList

(* InsertHeadList.                                                         *)
Linked(b) == <<b>> \o DynamicSplitList

(* Mutant: the hook is put on the first entry of the split.                *)
HookFirst(s, f) == [s EXCEPT !.PML1[0].ExecuteAccess = FALSE]

HookEntry(s, f) == [s EXCEPT !.PML1[PML1Index(f)].ExecuteAccess = FALSE]

(* Mutant: EptGetPml2Entry takes addresses above 512GB.                    *)
HookFailsAtNoAddress(d, f, pre) ==
  \/ stage = "Launched" /\ pre[d] = NULL
  \/ f = 0
  \/ PML2[EntryOf(f)].LargePage /\ pre[d] = NULL

(* EptVmxRootModePageHook on core d, where pre are the buffers on offer,   *)
(* when it returns FALSE: no buffer in VMX root mode, a page at physical   *)
(* address 0, no entry above 512GB, nothing to split the large page with.  *)
HookFails(d, f, pre) ==
  \/ stage = "Launched" /\ pre[d] = NULL
  \/ f = 0 \/ PML4Index(f) > 0
  \/ PML2[EntryOf(f)].LargePage /\ pre[d] = NULL

(* Mutant: the buffer of a split stays on offer.                           *)
HookKeepingBuffer(d, f, pre) ==
  LET e == EntryOf(f)
      b == IF PML2[e].LargePage THEN pre[d] ELSE PML2[e].PageFrameNumber
  IN  /\ PML2' = [PML2 EXCEPT ![e] = PointerTo(b)]
      /\ DynamicSplitList' = IF PML2[e].LargePage THEN Linked(b) ELSE DynamicSplitList
      /\ split' = [split EXCEPT ![b] =
                     HookEntry(IF PML2[e].LargePage THEN SplitOf(e) ELSE split[b], f)]
      /\ PreAllocatedBuffer' = pre
      /\ hooked' = hooked \cup {f}

(* EptSplitLargePage, EptGetPml1Entry and the store of the hook.  A page   *)
(* that is split already leaves the buffer on offer.                       *)
HookSucceeds(d, f, pre) ==
  LET e     == EntryOf(f)
      large == PML2[e].LargePage
      b     == IF large THEN pre[d] ELSE PML2[e].PageFrameNumber
  IN  /\ PML2' = [PML2 EXCEPT ![e] = PointerTo(b)]
      /\ DynamicSplitList' = IF large THEN Linked(b) ELSE DynamicSplitList
      /\ split' = [split EXCEPT ![b] = HookEntry(IF large THEN SplitOf(e) ELSE split[b], f)]
      /\ PreAllocatedBuffer' = IF large THEN [pre EXCEPT ![d] = NULL] ELSE pre
      /\ hooked' = hooked \cup {f}

(* EptPageHook allocates on core c; the thread may be on another core, d,  *)
(* when it hooks.                                                          *)
EptPageHook(c, d, f) ==
  /\ stage \in {"Built", "Launched"} /\ calls < MaxHooks
  /\ calls' = calls + 1
  /\ LET new == PreAllocatedBuffer[c] = NULL
         pre == IF new THEN [PreAllocatedBuffer EXCEPT ![c] = calls']
                ELSE PreAllocatedBuffer
     IN  \/ new /\ UNCHANGED <<PML2, splits, hooked>>   \* no memory for a buffer
         \/ /\ live' = live \cup {pre[c]}
            /\ IF HookFails(d, f, pre)
               THEN /\ PreAllocatedBuffer' = pre
                    /\ UNCHANGED <<PML2, split, DynamicSplitList, hooked>>
               ELSE HookSucceeds(d, f, pre)
  /\ UNCHANGED <<mtrr, stage, mtrrMap>>

--------------------------------------------------------------------------
(* The guests run, and the end                                             *)

HasTable == stage \in {"Built", "Launched"}

(* The translation a processor finds.                                      *)
Walk(f) ==
  LET e == PML2[EntryOf(f)]
  IN  IF e.LargePage
      THEN [PageFrameNumber |-> e.PageFrameNumber * Entries + PML1Index(f),
            ExecuteAccess |-> TRUE, MemoryType |-> e.MemoryType]
      ELSE split[e.PageFrameNumber].PML1[PML1Index(f)]

Launched ==
  /\ stage = "Built" /\ stage' = "Launched"
  /\ UNCHANGED <<mtrr, mtrrMap, PML2, splits, calls, hooked>>

(* The violation of a fetch from f, and EptGetPml1Entry in its handler.    *)
EptHandlePageHookExit(f) ==
  LET b == PML2[EntryOf(f)].PageFrameNumber
  IN  /\ HasTable /\ f # 0 /\ ~Walk(f).ExecuteAccess
      /\ split' = [split EXCEPT ![b].PML1[PML1Index(f)].ExecuteAccess = TRUE]
      /\ hooked' = hooked \ {f}
      /\ UNCHANGED <<mtrr, stage, mtrrMap, PML2, DynamicSplitList,
                     PreAllocatedBuffer, calls, live>>

InList == {DynamicSplitList[i] : i \in DOMAIN DynamicSplitList}

HvTerminateVmx ==
  /\ stage = "Launched" /\ stage' = "Closed"
  /\ live' = live \ InList
  /\ UNCHANGED <<mtrr, mtrrMap, PML2, split, DynamicSplitList,
                 PreAllocatedBuffer, calls, hooked>>

--------------------------------------------------------------------------
(* Properties                                                              *)

(* Type invariant.                                                         *)
EptTypeOK ==
  /\ mtrr \in MtrrSets
  /\ stage \in {"Mtrr", "Overrun", "Built", "Launched", "Closed"}
  /\ CurrentRegister \in 0 .. Len(mtrr)
  /\ NumberOfEnabledMemoryRanges \in 0 .. RangeSlots
  /\ \A i \in 0 .. NumberOfEnabledMemoryRanges - 1 : MemoryRanges[i].MemoryType \in MemoryType
  /\ DOMAIN PML2 = Index \X Index /\ DOMAIN split = Buffer
  /\ DynamicSplitList \in Seq(Buffer) /\ live \subseteq Buffer
  /\ PreAllocatedBuffer \in [Core -> Buffer \cup {NULL}]
  /\ calls \in 0 .. MaxHooks /\ hooked \subseteq Mapped

BitOf(n, k) == (n \div 2^k) % 2

(* The processor's own test: the bits of f under the mask are those of the *)
(* base.                                                                   *)
InRange(f, r) ==
  r.Valid /\ \A k \in 0 .. MaskBits - 1 :
               BitOf(r.PhysMask, k) = 1 => BitOf(f, k) = BitOf(r.PhysBase, k)

(* What the MTRRs say of f, which is more than one type where ranges       *)
(* overlap; write-back is the default type.                                *)
TypesOf(f) ==
  LET types == {mtrr[i].Type : i \in {j \in DOMAIN mtrr : InRange(f, mtrr[j])}}
  IN  IF types = {} THEN {"WB"} ELSE types

(* UC wins over everything and WT over WB; firmware programs no other      *)
(* overlap, since its outcome is undefined.                                *)
MtrrType(f) ==
  CASE "UC" \in TypesOf(f)        -> "UC"
    [] TypesOf(f) = {"WT", "WB"}  -> "WT"
    [] OTHER                      -> CHOOSE t \in TypesOf(f) : TRUE

DefinedOverlaps ==
  \A f \in Frame : "UC" \in TypesOf(f) \/ TypesOf(f) = {"WT", "WB"}
                     \/ Cardinality(TypesOf(f)) = 1

FramesOf(e) == {f \in Mapped : EntryOf(f) = e}

(* "11.11.4.1 MTRR Precedences": under the table, which replaces the MTRRs *)
(* for a guest, no frame the MTRRs make uncacheable is cacheable, however  *)
(* ranges overlap, in whatever order they are listed, and whatever has     *)
(* been split; and a large page all of whose frames have one type has it,  *)
(* except the first.                                                       *)
MemoryTypesFollowMtrrs ==
  HasTable /\ DefinedOverlaps =>
    /\ \A f \in Mapped : MtrrType(f) = "UC" => Walk(f).MemoryType = "UC"
    /\ \A e \in Index \X Index, t \in MemoryType :
         /\ e # <<0, 0>> /\ PML2[e].LargePage
         /\ \A f \in FramesOf(e) : MtrrType(f) = t
         => PML2[e].MemoryType = t

(* Only ranges that are not write-back use up MemoryRanges: the map        *)
(* overruns its array on no machine whose other ranges are fewer than its  *)
(* slots, however many registers are valid and in whatever order.          *)
OverrunOnlyWhenFull ==
  stage = "Overrun" =>
    Cardinality({i \in DOMAIN mtrr : mtrr[i].Valid /\ mtrr[i].Type # "WB"}) >= RangeSlots

(* Every frame below 512GB is mapped to itself, before and after any       *)
(* splits, hooks and violations: a guest finds its memory where it was.    *)
IdentityMapped == HasTable => \A f \in Mapped : Walk(f).PageFrameNumber = f

(* A page lacks execute access exactly while a hook on it waits for its    *)
(* fetch; the other frames of a split, and hooks that fail, change nobody. *)
ExactlyHookedPagesTrap ==
  HasTable => \A f \in Mapped : Walk(f).ExecuteAccess = (f \notin hooked)

(* The list and the page table agree: each split PML2 entry leads to a     *)
(* live buffer in the list whose Entry leads back, no buffer is in it      *)
(* twice, and none of them is on offer for another split.                  *)
SplitListSound ==
  HasTable =>
    /\ \A i, j \in DOMAIN DynamicSplitList :
         i # j => DynamicSplitList[i] # DynamicSplitList[j]
    /\ InList = {PML2[e].PageFrameNumber : e \in {d \in Index \X Index : ~PML2[d].LargePage}}
    /\ \A b \in InList : /\ b \in live
                         /\ PML2[split[b].Entry] = PointerTo(b)
                         /\ \A c \in Core : PreAllocatedBuffer[c] # b

(* HvTerminateVmx finds every split: what is left afterwards is a buffer   *)
(* that was on offer when GuestState was freed, at most one for each core. *)
SplitsAllFreed ==
  stage = "Closed" => live \subseteq {PreAllocatedBuffer[c] : c \in Core}
==========================================================================
