---------------------------- MODULE Setup_proofs ----------------------------
(***************************************************************************)
(* Theorems about Setup, for any processors, processes, machines, MTRRs    *)
(* and sizes.  Each component has an invariant of its own, and a step of   *)
(* Setup is a step of each component or leaves it alone.                   *)
(***************************************************************************)
EXTENDS Setup, FiniteSetTheorems, SequenceTheorems, TLAPS

EptStep == \/ ReadVariableRange \/ CreateIdentityPageTable \/ Launched \/ HvTerminateVmx
           \/ \E c, d \in Core, f \in Functions : EptPageHook(c, d, f)
           \/ \E f \in Mapped : EptHandlePageHookExit(f)

MsrStep == \E c \in Core, msr \in Msrs, r, w \in BOOLEAN : HvSetMsrBitmap(c, msr, r, w)

VmcsStep == \/ LaunchDpcReturns \/ DrvClose \/ TerminateDpcReturns
            \/ \E c \in Core : \/ ReadInitiateCr3(c) \/ VmxVirtualizeCurrentSystem(c)
                               \/ VmExit(c) \/ VmxVmresume(c) \/ VmxVmxoff(c)
            \/ \E c \in Core, p \in Process : ContextSwitch(c, p)
            \/ \E p \in Process : ProcessExit(p)

LEMMA Components ==
  ASSUME [Next]_vars
  PROVE  [EptStep]_eptVars /\ [MsrStep]_msrVars /\ [VmcsStep]_vmcsVars
<1>1. CASE Prepare BY <1>1 DEF Prepare, EptStep, MsrStep
<1>2. CASE Launch BY <1>2 DEF Launch, EptStep, VmcsStep
<1>3. CASE Terminate BY <1>3 DEF Terminate, EptStep, VmcsStep
<1>4. CASE Handle BY <1>4 DEF Handle, EptStep
<1>5. CASE Run BY <1>5 DEF Run, VmcsStep
<1>6. CASE UNCHANGED vars BY <1>6 DEF vars
<1> QED BY <1>1, <1>2, <1>3, <1>4, <1>5, <1>6 DEF Next

--------------------------------------------------------------------------
(* The address spaces.                                                     *)

(* The client cannot exit between CREATE and CLOSE, so the directory in    *)
(* HOST_CR3 outlives every guest; and the VMCS of a core in VMX root       *)
(* operation has the CR3 of the process it has interrupted.                *)
SpaceInv ==
  /\ proc \in [Core -> alive] /\ cr3 \in [Core -> Process] /\ alive \subseteq Process
  /\ mode \in [Core -> {"off", "guest", "host", "failed"}]
  /\ vmcs = [c \in Core |-> vmcs[c]]
  /\ handle \in {"closed", "opening", "open", "closing"}
  /\ handle = "closed" => \A c \in Core : mode[c] = "off"
  /\ handle # "closed" => InitiateCr3 = Client /\ Client \in alive
  /\ \A c \in Core :
       /\ mode[c] \in {"off", "guest"} => cr3[c] = proc[c]
       /\ mode[c] \in {"guest", "host"} =>
            /\ vmcs[c] = [guest |-> vmcs[c].guest, host |-> vmcs[c].host,
                          controls |-> vmcs[c].controls]
            /\ vmcs[c].host.cr3 = Client
       /\ mode[c] = "host" => vmcs[c].guest.cr3 = proc[c]

LEMMA SpaceInit == Init => SpaceInv
BY ProcessAssumption DEF Init, VmcsInit, SpaceInv

LEMMA SpaceStep == SpaceInv /\ [VmcsStep]_vmcsVars => SpaceInv'
<1> SUFFICES ASSUME SpaceInv, [VmcsStep]_vmcsVars PROVE SpaceInv'
  OBVIOUS
<1> USE ProcessAssumption DEF spaces
<1>1. CASE UNCHANGED vmcsVars
  BY <1>1 DEF SpaceInv, vmcsVars
<1>2. CASE LaunchDpcReturns \/ DrvClose \/ TerminateDpcReturns
  BY <1>2 DEF SpaceInv, LaunchDpcReturns, DrvClose, TerminateDpcReturns
<1>3. ASSUME NEW c \in Core, ReadInitiateCr3(c) PROVE SpaceInv'
  BY <1>3 DEF SpaceInv, ReadInitiateCr3
<1>4. ASSUME NEW c \in Core, VmxVirtualizeCurrentSystem(c) PROVE SpaceInv'
  <2> DEFINE v == VmxSetupVmcs(c)
  <2>1. /\ v = [guest |-> v.guest, host |-> v.host, controls |-> v.controls]
        /\ v.guest.cr3 = cr3[c] /\ v.host.cr3 = InitiateCr3
    BY DEF VmxSetupVmcs, HostCr3
  <2>2. handle = "opening" /\ mode[c] = "off" /\ vmcs' = [vmcs EXCEPT ![c] = v]
        /\ UNCHANGED <<machine, handle, spaces>>
    BY <1>4 DEF VmxVirtualizeCurrentSystem
  <2>3. \/ mode' = [mode EXCEPT ![c] = "guest"] /\ cr3' = [cr3 EXCEPT ![c] = v.guest.cr3]
        \/ mode' = [mode EXCEPT ![c] = "failed"] /\ cr3' = cr3
    BY <1>4 DEF VmxVirtualizeCurrentSystem
  <2> HIDE DEF v
  <2> QED BY <2>1, <2>2, <2>3 DEF SpaceInv
<1>5. ASSUME NEW c \in Core, VmExit(c) PROVE SpaceInv'
  BY <1>5 DEF SpaceInv, VmExit
<1>6. ASSUME NEW c \in Core, VmxVmresume(c) PROVE SpaceInv'
  BY <1>6 DEF SpaceInv, VmxVmresume
<1>7. ASSUME NEW c \in Core, VmxVmxoff(c) PROVE SpaceInv'
  BY <1>7 DEF SpaceInv, VmxVmxoff
<1>8. ASSUME NEW c \in Core, NEW p \in Process, ContextSwitch(c, p) PROVE SpaceInv'
  BY <1>8 DEF SpaceInv, ContextSwitch
<1>9. ASSUME NEW p \in Process, ProcessExit(p) PROVE SpaceInv'
  BY <1>9 DEF SpaceInv, ProcessExit
<1> QED BY <1>1, <1>2, <1>3, <1>4, <1>5, <1>6, <1>7, <1>8, <1>9 DEF VmcsStep

LEMMA SpaceInvariance == Spec => []SpaceInv
<1>1. SpaceInv /\ [Next]_vars => SpaceInv'
  BY Components, SpaceStep
<1> QED BY SpaceInit, <1>1, PTL DEF Spec

(* HOST_CR3 names a page directory that exists for as long as a core may   *)
(* leave its guest, whichever processes come and go meanwhile.             *)
THEOREM HostSpaceLives == Spec => []HostAddressSpaceLives
<1>1. SpaceInv => HostAddressSpaceLives BY DEF SpaceInv, HostAddressSpaceLives
<1> QED BY SpaceInvariance, <1>1, PTL

(* An exit, a resume and VMXOFF give the interrupted process its own       *)
(* address space back.                                                     *)
THEOREM SpaceKept == Spec => []ProcessKeepsItsSpace
<1>1. SpaceInv => ProcessKeepsItsSpace BY DEF SpaceInv, ProcessKeepsItsSpace
<1> QED BY SpaceInvariance, <1>1, PTL

--------------------------------------------------------------------------
(* The MTRR map.                                                           *)

(* The valid ranges among the first k that are not write-back.             *)
Stored(k) == {i \in 1 .. k : mtrr[i].Valid /\ mtrr[i].Type # "WB"}

(* Until the array overruns, the count is that of the ranges stored so far;*)
(* it overruns when all slots are taken.                                   *)
MapInv ==
  /\ mtrr \in Seq(VariableRange)
  /\ CurrentRegister \in 0 .. Len(mtrr)
  /\ NumberOfEnabledMemoryRanges \in 0 .. RangeSlots
  /\ stage = "Mtrr" => NumberOfEnabledMemoryRanges = Cardinality(Stored(CurrentRegister))
  /\ stage = "Overrun" => Cardinality(Stored(Len(mtrr))) >= RangeSlots

(* Reading one register more adds it to the stored ones or does not.       *)
LEMMA StoredStep ==
  ASSUME NEW k \in Nat, k < Len(mtrr), mtrr \in Seq(VariableRange)
  PROVE  LET r == mtrr[k + 1]
         IN  /\ Cardinality(Stored(k)) \in Nat
             /\ Cardinality(Stored(k)) <= Cardinality(Stored(Len(mtrr)))
             /\ r.Valid /\ r.Type # "WB"
                  => Cardinality(Stored(k + 1)) = Cardinality(Stored(k)) + 1
             /\ ~(r.Valid /\ r.Type # "WB")
                  => Cardinality(Stored(k + 1)) = Cardinality(Stored(k))
<1>1. \A n \in Nat : IsFiniteSet(Stored(n))
  <2> TAKE n \in Nat
  <2>1. IsFiniteSet(1 .. n) BY FS_Interval
  <2>2. Stored(n) \subseteq 1 .. n BY DEF Stored
  <2> QED BY <2>1, <2>2, FS_Subset
<1>2. Cardinality(Stored(k)) \in Nat BY <1>1, FS_CardinalityType
<1>3. Cardinality(Stored(k)) <= Cardinality(Stored(Len(mtrr)))
  <2>1. Stored(k) \subseteq Stored(Len(mtrr)) BY DEF Stored
  <2>2. Len(mtrr) \in Nat OBVIOUS
  <2> QED BY <1>1, <2>1, <2>2, FS_Subset
<1>4. CASE mtrr[k + 1].Valid /\ mtrr[k + 1].Type # "WB"
  <2>1. Stored(k + 1) = Stored(k) \cup {k + 1} BY <1>4 DEF Stored
  <2>2. k + 1 \notin Stored(k) BY DEF Stored
  <2> QED BY <1>1, <1>2, <1>3, <1>4, <2>1, <2>2, FS_AddElement
<1>5. CASE ~(mtrr[k + 1].Valid /\ mtrr[k + 1].Type # "WB")
  <2>1. Stored(k + 1) = Stored(k) BY <1>5 DEF Stored
  <2> QED BY <1>2, <1>3, <1>5, <2>1
<1> QED BY <1>4, <1>5

LEMMA MapInit == Init => MapInv
<1> SUFFICES ASSUME Init PROVE MapInv
  OBVIOUS
<1>1. mtrr \in Seq(VariableRange) /\ stage = "Mtrr" /\ CurrentRegister = 0
        /\ NumberOfEnabledMemoryRanges = 0
  BY MtrrAssumption DEF Init, EptInit
<1>2. Stored(0) = {} BY DEF Stored
<1>3. Cardinality(Stored(0)) = 0 BY <1>2, FS_EmptySet
<1> QED BY <1>1, <1>3, SizeAssumption DEF MapInv

LEMMA MapStep == MapInv /\ [EptStep]_eptVars => MapInv'
<1> SUFFICES ASSUME MapInv, [EptStep]_eptVars PROVE MapInv'
  OBVIOUS
<1>1. CASE UNCHANGED <<mtrr, stage, mtrrMap>>
  BY <1>1 DEF MapInv, mtrrMap, Stored
<1>2. CASE UNCHANGED <<mtrr, mtrrMap>> /\ stage' \notin {"Mtrr", "Overrun"}
  BY <1>2 DEF MapInv, mtrrMap
<1>3. CASE ReadVariableRange
  <2> DEFINE k == CurrentRegister
             r == mtrr[k + 1]
             n == NumberOfEnabledMemoryRanges
  <2>1. /\ stage = "Mtrr" /\ k \in Nat /\ k < Len(mtrr) /\ mtrr \in Seq(VariableRange)
        /\ mtrr' = mtrr /\ CurrentRegister' = k + 1
        /\ n \in 0 .. RangeSlots /\ n = Cardinality(Stored(k))
    BY <1>3 DEF ReadVariableRange, MapInv
  <2>2. /\ Cardinality(Stored(k)) <= Cardinality(Stored(Len(mtrr)))
        /\ r.Valid /\ r.Type # "WB" => Cardinality(Stored(k + 1)) = n + 1
        /\ ~(r.Valid /\ r.Type # "WB") => Cardinality(Stored(k + 1)) = n
    BY <2>1, StoredStep
  <2>3. \A j \in Nat : Stored(j)' = Stored(j) BY <2>1 DEF Stored
  <2>4. /\ Stored(CurrentRegister)' = Stored(k + 1)
        /\ Stored(Len(mtrr))' = Stored(Len(mtrr))
    BY <2>1 DEF Stored
  <2>5. CASE ~r.Valid
    BY <1>3, <2>1, <2>2, <2>4, <2>5 DEF ReadVariableRange, MapInv
  <2>6. CASE r.Valid /\ n = RangeSlots
    BY <1>3, <2>1, <2>2, <2>4, <2>6, SizeAssumption DEF ReadVariableRange, MapInv
  <2>7. CASE r.Valid /\ n # RangeSlots
    BY <1>3, <2>1, <2>2, <2>4, <2>7, SizeAssumption DEF ReadVariableRange, MapInv
  <2> QED BY <2>5, <2>6, <2>7
<1> QED
  BY <1>1, <1>2, <1>3 DEF EptStep, eptVars, CreateIdentityPageTable, Launched,
     HvTerminateVmx, EptPageHook, EptHandlePageHookExit

(* Only as many ranges that are not write-back as there are slots can make *)
(* EptBuildMtrrMap write past MemoryRanges.                                *)
THEOREM OverrunNeedsFullMap == Spec => []OverrunOnlyWhenFull
<1>1. MapInv /\ [Next]_vars => MapInv'
  BY Components, MapStep
<1>2. MapInv => OverrunOnlyWhenFull
  <2> SUFFICES ASSUME MapInv, stage = "Overrun"
               PROVE  Cardinality({i \in DOMAIN mtrr : mtrr[i].Valid /\ mtrr[i].Type # "WB"})
                        >= RangeSlots
    BY DEF OverrunOnlyWhenFull
  <2>1. DOMAIN mtrr = 1 .. Len(mtrr) BY DEF MapInv
  <2> QED BY <2>1 DEF MapInv, Stored
<1> QED BY MapInit, <1>1, <1>2, PTL DEF Spec

--------------------------------------------------------------------------
(* The buffers.                                                            *)

(* A live buffer is in the list of splits or on offer on some core.        *)
BufferInv ==
  /\ DynamicSplitList \in Seq(Buffer)
  /\ PreAllocatedBuffer \in [Core -> Buffer \cup {NULL}]
  /\ calls \in Nat /\ live \subseteq Buffer
  /\ IF stage = "Closed"
     THEN live \subseteq {PreAllocatedBuffer[c] : c \in Core}
     ELSE live \subseteq InList \cup {PreAllocatedBuffer[c] : c \in Core}

LEMMA BufferInit == Init => BufferInv
BY SizeAssumption DEF Init, EptInit, BufferInv

(* What a hook that succeeds does with the buffers.                        *)
LEMMA HookBuffers ==
  ASSUME NEW d \in Core, NEW f, NEW pre \in [Core -> Buffer \cup {NULL}],
         ~HookFails(d, f, pre), HookSucceeds(d, f, pre),
         DynamicSplitList \in Seq(Buffer)
  PROVE  /\ DynamicSplitList' \in Seq(Buffer)
         /\ PreAllocatedBuffer' \in [Core -> Buffer \cup {NULL}]
         /\ {pre[c] : c \in Core} \cup InList
              \subseteq {PreAllocatedBuffer'[c] : c \in Core} \cup InList' \cup {NULL}
<1>1. CASE ~PML2[EntryOf(f)].LargePage
  BY <1>1 DEF HookSucceeds, InList
<1>2. CASE PML2[EntryOf(f)].LargePage
  <2>1. pre[d] \in Buffer BY <1>2 DEF HookFails
  <2>2. DynamicSplitList' = <<pre[d]>> \o DynamicSplitList
        /\ PreAllocatedBuffer' = [pre EXCEPT ![d] = NULL]
    BY <1>2 DEF HookSucceeds, Linked
  <2>3. DynamicSplitList' \in Seq(Buffer) BY <2>1, <2>2
  <2>4. pre[d] \in InList'
    <3>1. 1 \in DOMAIN DynamicSplitList' /\ DynamicSplitList'[1] = pre[d]
      BY <2>1, <2>2
    <3> QED BY <3>1 DEF InList
  <2>5. InList \subseteq InList'
    <3> SUFFICES ASSUME NEW i \in DOMAIN DynamicSplitList
                 PROVE  DynamicSplitList[i] \in InList'
      BY DEF InList
    <3>1. i + 1 \in DOMAIN DynamicSplitList'
            /\ DynamicSplitList'[i + 1] = DynamicSplitList[i]
      BY <2>1, <2>2
    <3> QED BY <3>1 DEF InList
  <2> QED BY <2>2, <2>3, <2>4, <2>5
<1> QED BY <1>1, <1>2

LEMMA BufferStep == BufferInv /\ [EptStep]_eptVars => BufferInv'
<1> SUFFICES ASSUME BufferInv, [EptStep]_eptVars PROVE BufferInv'
  OBVIOUS
<1>1. CASE UNCHANGED <<DynamicSplitList, PreAllocatedBuffer, calls, live>>
             /\ (stage' = "Closed" <=> stage = "Closed")
  BY <1>1 DEF BufferInv, InList
<1>2. CASE HvTerminateVmx
  BY <1>2 DEF BufferInv, HvTerminateVmx
<1>3. ASSUME NEW c \in Core, NEW d \in Core, NEW f \in Functions, EptPageHook(c, d, f)
      PROVE  BufferInv'
  <2> DEFINE new == PreAllocatedBuffer[c] = NULL
             pre == IF new THEN [PreAllocatedBuffer EXCEPT ![c] = calls']
                    ELSE PreAllocatedBuffer
  <2>1. /\ stage # "Closed" /\ stage' = stage /\ calls' \in Nat
        /\ calls' \in Buffer
    BY <1>3, SizeAssumption DEF EptPageHook, BufferInv, Buffer
  <2>2. pre \in [Core -> Buffer \cup {NULL}]
    BY <2>1 DEF BufferInv
  <2>3. {PreAllocatedBuffer[x] : x \in Core} \subseteq {pre[x] : x \in Core} \cup {NULL}
    BY DEF BufferInv
  <2>4. \/ UNCHANGED splits
        \/ live' = live \cup {pre[c]} /\ HookFails(d, f, pre) /\ PreAllocatedBuffer' = pre
             /\ UNCHANGED DynamicSplitList
        \/ live' = live \cup {pre[c]} /\ ~HookFails(d, f, pre) /\ HookSucceeds(d, f, pre)
    BY <1>3 DEF EptPageHook
  <2>5. pre[c] \in Buffer
    BY <2>1 DEF BufferInv
  <2>6. CASE UNCHANGED splits
    BY <2>1, <2>6 DEF BufferInv, splits, InList
  <2> HIDE DEF pre
  <2>7. CASE live' = live \cup {pre[c]} /\ PreAllocatedBuffer' = pre
               /\ UNCHANGED DynamicSplitList
    BY <2>1, <2>2, <2>3, <2>5, <2>7, PointerAssumption DEF BufferInv, InList
  <2>8. CASE live' = live \cup {pre[c]} /\ ~HookFails(d, f, pre) /\ HookSucceeds(d, f, pre)
    <3>1. /\ DynamicSplitList' \in Seq(Buffer)
          /\ PreAllocatedBuffer' \in [Core -> Buffer \cup {NULL}]
          /\ {pre[x] : x \in Core} \cup InList
               \subseteq {PreAllocatedBuffer'[x] : x \in Core} \cup InList' \cup {NULL}
      BY <2>2, <2>8, HookBuffers DEF BufferInv
    <3>2. live \subseteq InList \cup {PreAllocatedBuffer[x] : x \in Core}
      BY <2>1 DEF BufferInv
    <3>3. live' \subseteq {pre[x] : x \in Core} \cup InList \cup {NULL}
      BY <2>3, <2>8, <3>2
    <3>4. live' \subseteq Buffer
      BY <2>5, <2>8 DEF BufferInv
    <3> QED BY <2>1, <3>1, <3>3, <3>4, PointerAssumption DEF BufferInv
  <2> QED BY <2>4, <2>6, <2>7, <2>8
<1> QED
  BY <1>1, <1>2, <1>3 DEF EptStep, eptVars, splits, ReadVariableRange,
     CreateIdentityPageTable, Launched, EptHandlePageHookExit

(* HvTerminateVmx loses no split, wherever the threads that hooked ran and *)
(* however many hooks there were: only buffers on offer are left.          *)
THEOREM NoSplitLost == Spec => []SplitsAllFreed
<1>1. BufferInv /\ [Next]_vars => BufferInv'
  BY Components, BufferStep
<1>2. BufferInv => SplitsAllFreed
  BY DEF BufferInv, SplitsAllFreed
<1> QED BY BufferInit, <1>1, <1>2, PTL DEF Spec

--------------------------------------------------------------------------
(* The MSR bitmap.                                                         *)

BitmapInv ==
  /\ bitmap \in [Core -> [Byte -> SUBSET (0 .. 7)]]
  /\ detected \in [Core -> SUBSET (Msrs \X Access)]
  /\ ExactlyDetectedAccessesExit

(* Where HvSetMsrBitmap puts the bit of an access, and whether it is set.  *)
ByteOf(msr, access) ==
  (IF access = "write" THEN 2 * Quarter ELSE 0)
    + (IF msr \in HighRange THEN Quarter + ((msr - HighBase) \div 8) ELSE msr \div 8)
BitIn(msr) == (IF msr \in HighRange THEN msr - HighBase ELSE msr) % 8
IsSet(map, msr, access) == BitIn(msr) \in map[ByteOf(msr, access)]

(* No two accesses share a bit, and every bit lies in the bitmap.          *)
LEMMA OneBitEach ==
  ASSUME NEW m \in LowRange \cup HighRange, NEW a \in Access,
         NEW n \in LowRange \cup HighRange, NEW b \in Access
  PROVE  /\ ByteOf(m, a) \in Byte /\ BitIn(m) \in 0 .. 7
         /\ ByteOf(m, a) = ByteOf(n, b) /\ BitIn(m) = BitIn(n) => m = n /\ a = b
<1> DEFINE Off(x) == IF x \in HighRange THEN x - HighBase ELSE x
<1>1. \A x \in LowRange \cup HighRange : Off(x) \in 0 .. 8 * Quarter - 1
  BY QuarterAssumption, RangeAssumption DEF LowRange, HighRange
<1>2. \A x \in 0 .. 8 * Quarter - 1 :
        x \div 8 \in 0 .. Quarter - 1 /\ x % 8 \in 0 .. 7 /\ x = 8 * (x \div 8) + (x % 8)
  BY QuarterAssumption
<1>3. /\ Off(m) \div 8 \in 0 .. Quarter - 1 /\ Off(n) \div 8 \in 0 .. Quarter - 1
      /\ Off(m) % 8 \in 0 .. 7
      /\ Off(m) = 8 * (Off(m) \div 8) + (Off(m) % 8)
      /\ Off(n) = 8 * (Off(n) \div 8) + (Off(n) % 8)
  BY <1>1, <1>2
<1>4. /\ m \in Nat /\ n \in Nat /\ HighBase \in Nat /\ Quarter \in Nat
      /\ m \in LowRange <=> m \notin HighRange
      /\ n \in LowRange <=> n \notin HighRange
  BY QuarterAssumption, RangeAssumption DEF LowRange, HighRange
<1>5. ByteOf(m, a) = (IF a = "write" THEN 2 * Quarter ELSE 0)
                       + (IF m \in HighRange THEN Quarter ELSE 0) + (Off(m) \div 8)
  BY <1>3, <1>4 DEF ByteOf
<1>6. ByteOf(n, b) = (IF b = "write" THEN 2 * Quarter ELSE 0)
                       + (IF n \in HighRange THEN Quarter ELSE 0) + (Off(n) \div 8)
  BY <1>3, <1>4 DEF ByteOf
<1>7. BitIn(m) = Off(m) % 8 /\ BitIn(n) = Off(n) % 8 BY DEF BitIn
<1>8. ByteOf(m, a) \in Byte /\ BitIn(m) \in 0 .. 7
  BY <1>3, <1>4, <1>5, <1>7 DEF Byte
<1>9. ASSUME ByteOf(m, a) = ByteOf(n, b), BitIn(m) = BitIn(n) PROVE m = n /\ a = b
  <2> DEFINE P == Off(m) \div 8
             Q == Off(n) \div 8
  <2>1. P \in 0 .. Quarter - 1 /\ Q \in 0 .. Quarter - 1 BY <1>3
  <2> HIDE DEF P, Q, Off
  <2>2. (a = b) /\ (m \in HighRange <=> n \in HighRange) /\ P = Q
    BY <1>4, <1>5, <1>6, <1>9, <2>1 DEF Access, P, Q
  <2>3. Off(m) = Off(n) BY <1>3, <1>7, <1>9, <2>2 DEF P, Q
  <2> QED BY <1>4, <2>2, <2>3 DEF Off
<1> QED BY <1>8, <1>9

(* SetAccess sets the bit of its access and no other.                      *)
LEMMA SetAccessSetsOne ==
  ASSUME NEW map \in [Byte -> SUBSET (0 .. 7)], NEW m \in LowRange \cup HighRange,
         NEW a \in Access, NEW wanted \in BOOLEAN
  PROVE  /\ SetAccess(map, m, a, wanted) \in [Byte -> SUBSET (0 .. 7)]
         /\ \A n \in LowRange \cup HighRange, b \in Access :
              IsSet(SetAccess(map, m, a, wanted), n, b)
                <=> IsSet(map, n, b) \/ (wanted /\ n = m /\ b = a)
<1>1. CASE ~wanted BY <1>1 DEF SetAccess
<1>2. CASE wanted
  <2>1. SetAccess(map, m, a, wanted) = [map EXCEPT ![ByteOf(m, a)] = @ \cup {BitIn(m)}]
    <3>1. /\ m \in Nat /\ HighBase \in Nat /\ Quarter \in Nat
          /\ m \in LowRange <=> m \notin HighRange
      BY QuarterAssumption, RangeAssumption DEF LowRange, HighRange
    <3>2. (m - HighBase) \div 8 \in Int /\ m \div 8 \in Int BY <3>1
    <3>3. CASE m \in LowRange
      <4>1. ByteOf(m, a) = (IF a = "read" THEN 0 ELSE 2 * Quarter) + (m \div 8)
        BY <3>1, <3>2, <3>3 DEF ByteOf, Access
      <4> QED BY <1>2, <3>1, <3>3, <4>1 DEF SetAccess, SetBit, BitIn
    <3>4. CASE m \notin LowRange
      <4> DEFINE half == IF a = "read" THEN 0 ELSE 2 * Quarter
                 index == half + Quarter + ((m - HighBase) \div 8)
      <4>1. ByteOf(m, a) = index
        BY <3>1, <3>2, <3>4 DEF ByteOf, Access
      <4>2. BitIn(m) = (m - HighBase) % 8
        BY <3>1, <3>4 DEF BitIn
      <4>3. SetAccess(map, m, a, wanted) = SetBit(map, half + Quarter, m - HighBase)
        BY <1>2, <3>4 DEF SetAccess
      <4> HIDE DEF half
      <4>4. SetBit(map, half + Quarter, m - HighBase)
              = [map EXCEPT ![index] = @ \cup {(m - HighBase) % 8}]
        BY DEF SetBit
      <4> HIDE DEF index
      <4> QED BY <4>1, <4>2, <4>3, <4>4
    <3> QED BY <3>3, <3>4
  <2>2. ByteOf(m, a) \in Byte /\ BitIn(m) \in 0 .. 7 BY OneBitEach
  <2>3. \A n \in LowRange \cup HighRange, b \in Access :
          /\ ByteOf(n, b) \in Byte
          /\ ByteOf(m, a) = ByteOf(n, b) /\ BitIn(m) = BitIn(n) => m = n /\ a = b
    BY OneBitEach
  <2> DEFINE set == SetAccess(map, m, a, wanted)
  <2>4. /\ set[ByteOf(m, a)] = map[ByteOf(m, a)] \cup {BitIn(m)}
        /\ \A i \in Byte : i # ByteOf(m, a) => set[i] = map[i]
    BY <2>1, <2>2
  <2>5. set \in [Byte -> SUBSET (0 .. 7)]
    BY <2>1, <2>2
  <2> HIDE DEF set
  <2>6. ASSUME NEW n \in LowRange \cup HighRange, NEW b \in Access
        PROVE  IsSet(set, n, b) <=> IsSet(map, n, b) \/ (n = m /\ b = a)
    <3>1. CASE ByteOf(n, b) # ByteOf(m, a)
      BY <2>3, <2>4, <3>1 DEF IsSet
    <3>2. CASE ByteOf(n, b) = ByteOf(m, a)
      <4>1. IsSet(set, n, b) <=> IsSet(map, n, b) \/ BitIn(n) = BitIn(m)
        BY <2>4, <3>2 DEF IsSet
      <4>2. BitIn(n) = BitIn(m) <=> n = m /\ b = a
        BY <2>3, <3>2
      <4> QED BY <4>1, <4>2
    <3> QED BY <3>1, <3>2
  <2> QED BY <1>2, <2>5, <2>6 DEF set
<1> QED BY <1>1, <1>2

(* The processor looks at the same bit.                                    *)
LEMMA ExitsIfSet ==
  ASSUME NEW map, NEW msr \in Nat, NEW a \in Access
  PROVE  AccessExits(map, msr, a)
           <=> msr \notin LowRange \cup HighRange \/ IsSet(map, msr, a)
<1>1. HighBase \in Nat /\ Quarter \in Nat BY QuarterAssumption, RangeAssumption
<1>2. (msr - HighBase) \div 8 \in Int /\ msr \div 8 \in Int BY <1>1
<1>3. CASE msr \in HighRange /\ a = "write"
  BY <1>1, <1>2, <1>3 DEF AccessExits, IsSet, ByteOf, BitIn
<1>4. CASE msr \in HighRange /\ a # "write"
  BY <1>1, <1>2, <1>4 DEF AccessExits, IsSet, ByteOf, BitIn
<1>5. CASE msr \notin HighRange /\ a = "write"
  BY <1>1, <1>2, <1>5 DEF AccessExits, IsSet, ByteOf, BitIn
<1>6. CASE msr \notin HighRange /\ a # "write"
  BY <1>1, <1>2, <1>6 DEF AccessExits, IsSet, ByteOf, BitIn
<1> QED BY <1>3, <1>4, <1>5, <1>6

LEMMA BitmapInit == Init => BitmapInv
<1> SUFFICES ASSUME Init PROVE BitmapInv
  OBVIOUS
<1>1. bitmap = [c \in Core |-> [b \in Byte |-> {}]] /\ detected = [c \in Core |-> {}]
  BY DEF Init, MsrInit
<1>2. \A c \in Core, msr \in Msrs, a \in Access :
        AccessExits(bitmap[c], msr, a) <=> msr \notin LowRange \cup HighRange
  <2> TAKE c \in Core, msr \in Msrs, a \in Access
  <2>1. msr \in Nat BY RangeAssumption
  <2>2. msr \in LowRange \cup HighRange => ~IsSet(bitmap[c], msr, a)
    BY <1>1, OneBitEach DEF IsSet
  <2> QED BY <2>1, <2>2, ExitsIfSet
<1> QED BY <1>1, <1>2 DEF BitmapInv, ExactlyDetectedAccessesExit

LEMMA BitmapStep == BitmapInv /\ [MsrStep]_msrVars => BitmapInv'
<1> SUFFICES ASSUME BitmapInv, [MsrStep]_msrVars PROVE BitmapInv'
  OBVIOUS
<1>1. CASE UNCHANGED <<bitmap, detected>>
  BY <1>1 DEF BitmapInv, ExactlyDetectedAccessesExit
<1>2. ASSUME NEW c \in Core, NEW m \in Msrs \cap (LowRange \cup HighRange),
             NEW r \in BOOLEAN, NEW w \in BOOLEAN, r \/ w, HvSetMsrBitmap(c, m, r, w)
      PROVE  BitmapInv'
  <2> DEFINE read == SetAccess(bitmap[c], m, "read", r)
             both == SetAccess(read, m, "write", w)
             asks == {x \in Access : IF x = "read" THEN r ELSE w}
  <2>1. /\ bitmap' = [bitmap EXCEPT ![c] = both]
        /\ detected' = [detected EXCEPT ![c] = @ \cup {<<m, a>> : a \in asks}]
    BY <1>2 DEF HvSetMsrBitmap
  <2>2. "read" \in Access /\ "write" \in Access /\ bitmap[c] \in [Byte -> SUBSET (0 .. 7)]
    BY DEF Access, BitmapInv
  <2>3. /\ read \in [Byte -> SUBSET (0 .. 7)]
        /\ \A n \in LowRange \cup HighRange, b \in Access :
             IsSet(read, n, b) <=> IsSet(bitmap[c], n, b) \/ (r /\ n = m /\ b = "read")
    BY <2>2, SetAccessSetsOne
  <2> HIDE DEF read
  <2>4. /\ both \in [Byte -> SUBSET (0 .. 7)]
        /\ \A n \in LowRange \cup HighRange, b \in Access :
             IsSet(both, n, b) <=> IsSet(read, n, b) \/ (w /\ n = m /\ b = "write")
    BY <2>2, <2>3, SetAccessSetsOne
  <2> HIDE DEF both
  <2>5. /\ bitmap' \in [Core -> [Byte -> SUBSET (0 .. 7)]]
        /\ detected' \in [Core -> SUBSET (Msrs \X Access)]
    BY <2>1, <2>4 DEF BitmapInv
  <2>6. ASSUME NEW d \in Core, NEW n \in Msrs, NEW b \in Access
        PROVE  AccessExits(bitmap'[d], n, b)
                 <=> (n \notin LowRange \cup HighRange \/ <<n, b>> \in detected'[d])
    <3>1. n \in Nat BY RangeAssumption
    <3>2. AccessExits(bitmap'[d], n, b)
            <=> n \notin LowRange \cup HighRange \/ IsSet(bitmap'[d], n, b)
      BY <3>1, ExitsIfSet
    <3>3. n \in LowRange \cup HighRange
            => (IsSet(bitmap[d], n, b) <=> <<n, b>> \in detected[d])
      BY <3>1, ExitsIfSet DEF BitmapInv, ExactlyDetectedAccessesExit
    <3>4. CASE d # c
      BY <2>1, <3>2, <3>3, <3>4 DEF BitmapInv
    <3>5. CASE d = c
      <4>1. <<n, b>> \in detected'[c]
              <=> <<n, b>> \in detected[c] \/ (n = m /\ b \in asks)
        BY <2>1 DEF BitmapInv
      <4>2. b \in asks <=> (b = "read" /\ r) \/ (b = "write" /\ w)
        BY DEF Access
      <4>3. bitmap'[c] = both BY <2>1 DEF BitmapInv
      <4> QED BY <2>3, <2>4, <3>2, <3>3, <3>5, <4>1, <4>2, <4>3
    <3> QED BY <3>4, <3>5
  <2> QED BY <2>5, <2>6 DEF BitmapInv, ExactlyDetectedAccessesExit
<1> QED
  BY <1>1, <1>2 DEF MsrStep, msrVars, HvSetMsrBitmap

(* Requests set exactly their own bits, for bitmaps of any size.           *)
THEOREM BitmapExact == Spec => []ExactlyDetectedAccessesExit
<1>1. BitmapInv /\ [Next]_vars => BitmapInv'
  BY Components, BitmapStep
<1>2. BitmapInv => ExactlyDetectedAccessesExit
  BY DEF BitmapInv
<1> QED BY BitmapInit, <1>1, <1>2, PTL DEF Spec
==========================================================================
