-------------------------- MODULE VmExit_proofs --------------------------
(* Theorems about VmExit for every set of registers, every CPUID and every *)
(* bound, checked by TLAPS.                                                *)
EXTENDS VmExit, TLAPS

(* The fields of GuestState[core] stay where they are.                     *)
StateFields ==
  DOMAIN state = {"IsOnVmxRootMode", "IncrementRip", "IsVmxoffExecuted",
                  "GuestRip", "GuestRsp"}

(* Strengthening of ResumeOnlyInVmx: IsVmxoffExecuted is the complement of *)
(* VMX operation from the launch on, until the exit that executes VMXOFF   *)
(* has left; a core that is back in native code has no say in it.          *)
FlagInv ==
  /\ StateFields /\ vmx \in BOOLEAN /\ state.IsVmxoffExecuted \in BOOLEAN
  /\ stage \in {"launch", "restore in guest", "guest", "exit", "handler", "resume"} =>
       vmx = TRUE /\ state.IsVmxoffExecuted = FALSE
  /\ stage = "handled" => (vmx = ~state.IsVmxoffExecuted)
  /\ stage \in {"vmxoff", "return"} => vmx = FALSE

(* GuestState starts zeroed, on a core without VMX.                        *)
LEMMA FlagInit == Init => FlagInv
<1>. SUFFICES ASSUME Init PROVE FlagInv
  OBVIOUS
<1>1. stage = "native" /\ vmx = FALSE /\ state = Zeroed
  BY DEF Init
<1>2. StateFields /\ state.IsVmxoffExecuted = FALSE
  BY <1>1 DEF Zeroed, StateFields
<1>. QED
  BY <1>1, <1>2 DEF FlagInv

(* Only VmxVmxoff raises the flag, and it executes VMXOFF; only a new open,*)
(* which has executed VMXON, lowers it.                                    *)
LEMMA FlagStep == FlagInv /\ [Next]_vars => FlagInv'
<1>. SUFFICES ASSUME FlagInv, [Next]_vars PROVE FlagInv'
  OBVIOUS
<1>. USE DEF FlagInv, StateFields, Goto
<1>e. /\ DOMAIN Entered = DOMAIN state
      /\ Entered.IsVmxoffExecuted = state.IsVmxoffExecuted
  BY DEF Entered
<1>1. CASE UNCHANGED vars
  BY <1>1 DEF vars
<1>2. CASE AsmVmxSaveState
  BY <1>2 DEF AsmVmxSaveState, Zeroed
<1>3. CASE VmxVirtualizeCurrentSystem
  BY <1>3 DEF VmxVirtualizeCurrentSystem
<1>4. CASE AsmVmxRestoreState
  BY <1>4 DEF AsmVmxRestoreState
<1>5. ASSUME NEW i \in Instruction, Exit(i) PROVE FlagInv'
  BY <1>5 DEF Exit
<1>6. CASE AsmVmexitHandler
  BY <1>6 DEF AsmVmexitHandler
<1>7. CASE VmxVmexitHandler
  <2>w. ASSUME stage = "handler", stage' = "handled", state' = Entered, vmx' = vmx
        PROVE  FlagInv'
    BY <2>w, <1>e
  <2>1. CASE HvHandleCpuid
    BY <2>1, <2>w DEF HvHandleCpuid, Handles, Writes
  <2>2. CASE HvHandleControlRegisterAccess
    BY <2>2, <2>w DEF HvHandleControlRegisterAccess, Handles, Writes
  <2>3. CASE HvHandleMsrRead
    BY <2>3, <2>w DEF HvHandleMsrRead, Handles, Writes
  <2>4. CASE HvHandleMsrWriteOrUnknown
    BY <2>4, <2>w DEF HvHandleMsrWriteOrUnknown, Handles, Writes
  <2>5. CASE EptHandlePageHookExit
    <3>1. stage = "handler" /\ stage' = "handled" /\ vmx' = vmx
      BY <2>5 DEF EptHandlePageHookExit, Handles
    <3>2. state' = [Entered EXCEPT !.IncrementRip = FALSE]
      BY <2>5 DEF EptHandlePageHookExit
    <3>. QED
      BY <3>1, <3>2, <1>e
  <2>6. CASE VmxInstruction
    BY <2>6, <2>w DEF VmxInstruction, Handles
  <2>7. CASE VmxVmcallHandler
    BY <2>7, <2>w DEF VmxVmcallHandler, Handles, Writes
  <2>8. CASE VmxVmxoff
    <3>1. stage' = "handled" /\ vmx' = FALSE
      BY <2>8 DEF VmxVmxoff, Handles
    <3>2. state' = [Entered EXCEPT !.GuestRip = vmcs.rip + 1, !.GuestRsp = vmcs.rsp,
                                   !.IsVmxoffExecuted = TRUE]
      BY <2>8 DEF VmxVmxoff
    <3>. QED
      BY <3>1, <3>2, <1>e
  <2>. QED
    BY <1>7, <2>1, <2>2, <2>3, <2>4, <2>5, <2>6, <2>7, <2>8 DEF VmxVmexitHandler
<1>8. CASE HvResumeToNextInstruction
  BY <1>8 DEF HvResumeToNextInstruction
<1>9. CASE VmxVmresume
  BY <1>9 DEF VmxVmresume
<1>10. CASE AsmVmxoffHandler
  BY <1>10 DEF AsmVmxoffHandler
<1>11. CASE RestoreState
  BY <1>11 DEF RestoreState
<1>. QED
  BY <1>1, <1>2, <1>3, <1>4, <1>5, <1>6, <1>7, <1>8, <1>9, <1>10, <1>11 DEF Next

(* VMRESUME and every other step back into a guest happen in VMX           *)
(* operation, the VMXOFF path outside it: the flag that VmxVmexitHandler   *)
(* returns to AsmVmexitHandler can be trusted after any series of opens,   *)
(* exits and closes.                                                       *)
THEOREM ResumeInVmx == Spec => []ResumeOnlyInVmx
<1>1. FlagInv => ResumeOnlyInVmx
  BY DEF FlagInv, ResumeOnlyInVmx
<1>. QED
  BY <1>1, FlagInit, FlagStep, PTL DEF Spec

--------------------------------------------------------------------------
(* What the registers, the frame and the VMCS hold on the way through the  *)
(* hypervisor, in terms of what the guest saw when it left                 *)

Flags == SUBSET {"IF", "CF"}

(* What code on this core may see: nothing in the model moves its stack.   *)
Sight == [regs : [GPR -> Value], rsp : {StackTop}, rip : Nat, rflags : Flags,
          cr3 : Value, virtualized : BOOLEAN]

(* The registers the instruction has found.                                *)
Found == Loaded(insn, before.regs)

Leaves == insn.op = "vmcall" /\ insn.rcx = Number("VMCALL_VMXOFF")

Saved(r) == frame[Slot(r)]

(* The frame holds what Found holds, but for these registers.              *)
Holds(registers) == \A r \in GPR \ registers : Saved(r) = Found[r]

IsFrame(f) == f = [k \in 1..18 |-> f[k]]

(* The stack AsmVmexitHandler has built, with some values in it.           *)
FrameOK == /\ IsFrame(frame)
           /\ \A r \in GPR : Saved(r) \in Value
           /\ frame[17] \in Flags

(* AsmVmxSaveState has pushed what its caller saw.                         *)
LaunchInv ==
  stage \in {"launch", "restore", "restore in guest"} =>
    /\ ~before.virtualized
    /\ cpu.rsp = before.rsp /\ cpu.rip = before.rip /\ cpu.cr3 = before.cr3
    /\ \A r \in GPR : frame[PoppedSlot(Restores, r)] = before.regs[r]
    /\ frame[PoppedSlot(Restores, "rflags")] = before.rflags

ExitInv ==
  /\ stage \in {"exit", "handler", "handled", "resume", "vmxoff", "return"} =>
       before.virtualized
  /\ stage \in {"exit", "handler"} =>
       vmcs = [rsp |-> before.rsp, rip |-> before.rip, rflags |-> before.rflags,
               cr3 |-> before.cr3]
  /\ stage = "exit" => cpu.regs = Found
  /\ stage \in {"handler", "handled", "resume", "vmxoff", "return"} => FrameOK
  /\ stage = "handler" => Holds({})

(* The frame and the VMCS after the handler of an instruction, as GuestCpu *)
(* has it.                                                                 *)
CpuidDone ==
  insn.op = "cpuid" =>
    /\ Holds({"rax", "rbx", "rcx", "rdx"})
    /\ \A out \in {"rax", "rbx", "rcx", "rdx"} :
         Saved(out).lo = IF insn.rax = Word(<<"leaf", "1">>, "zero") /\ out = "rcx"
                         THEN HypervisorPresent(insn.rax, out)
                         ELSE IF insn.rax = Word(<<"leaf", "interface">>, "zero")
                                 /\ out = "rax"
                         THEN <<"HVFS">>
                         ELSE CpuidOutput(insn.rax, out)

MovDone ==
  /\ insn.op = "to cr3" =>
       Holds({}) /\ vmcs.cr3 = WithoutBit63(Operand(insn, before.regs, before.rsp))
  /\ insn.op = "from cr3" => Holds({insn.reg}) /\ Saved(insn.reg) = before.cr3
  /\ insn.op # "to cr3" => vmcs.cr3 = before.cr3

RdmsrDone ==
  insn.op = "rdmsr" =>
    /\ Holds({"rax", "rdx"})
    /\ Saved("rax") = Word(<<"0">>, "zero") /\ Saved("rdx") = Word(<<"0">>, "zero")

OtherDone ==
  /\ insn.op \in {"wrmsr", "other", "vmx", "fetch"} => Holds({})
  /\ insn.op = "vmcall" => Holds({"rax"})
  /\ vmcs.rflags = IF insn.op = "vmx" THEN before.rflags \cup {"CF"} ELSE before.rflags

Done == CpuidDone /\ MovDone /\ RdmsrDone /\ OtherDone

DoneInv ==
  /\ stage \in {"handled", "resume"} => Done /\ vmcs.rsp = before.rsp
  /\ stage \in {"vmxoff", "return"} => Done
  /\ stage = "handled" =>
       /\ state.IsVmxoffExecuted = Leaves
       /\ state.IncrementRip = (insn.op # "fetch")
       /\ vmcs.rip = before.rip
  /\ stage = "resume" =>
       ~Leaves /\ vmcs.rip = IF insn.op = "fetch" THEN before.rip ELSE before.rip + 1
  /\ stage \in {"vmxoff", "return"} \/ (stage = "handled" /\ Leaves) =>
       /\ Leaves /\ cpu.cr3 = before.cr3
       /\ state.GuestRip = before.rip + 1 /\ state.GuestRsp = before.rsp
  /\ stage = "return" =>
       frame[18] = before.rsp - 1 /\ below[before.rsp - 1] = before.rip + 1

StepInv ==
  /\ TypeOK /\ FlagInv
  /\ insn \in Instruction /\ before \in Sight
  /\ stage \in {"guest", "native"} => cpu.rsp = StackTop
  /\ LaunchInv /\ ExitInv /\ DoneInv

(* Every register has one slot in GUEST_REGS, and no two share one.        *)
LEMMA Slots ==
  \A r \in GPR \cup {"rsp"} :
    /\ Slot(r) \in 1..16 /\ GUEST_REGS[Slot(r)] = r
    /\ \A k \in 1..16 : GUEST_REGS[k] = r => k = Slot(r)
<1>1. Len(GUEST_REGS) = 16
  BY DEF GUEST_REGS
<1>2. \A r \in GPR \cup {"rsp"} : \E k \in 1..16 : GUEST_REGS[k] = r
  BY DEF GUEST_REGS, GPR
<1>3. \A j, k \in 1..16 : GUEST_REGS[j] = GUEST_REGS[k] => j = k
  BY DEF GUEST_REGS
<1>. QED
  BY <1>1, <1>2, <1>3 DEF Slot

(* AsmVmexitHandler pops every register from its slot.                     *)
LEMMA PopsSlots ==
  /\ \A r \in GPR : PoppedSlot(Pops, r) = Slot(r)
  /\ PoppedSlot(Pops, "rflags") = 17
<1>1. Len(Pops) = 17 /\ Pops[17] = "rflags"
  BY DEF Pops
<1>2. \A k \in 1..16 : Pops[k] = IF k = 5 THEN "rbp" ELSE GUEST_REGS[k]
  BY DEF Pops, GUEST_REGS
<1>3. Slot("rbp") = 6 /\ Slot("rsp") = 5
  BY Slots DEF GUEST_REGS, GPR
<1>4. "rflags" \notin GPR /\ "rsp" \notin GPR /\ "rbp" \in GPR
  BY DEF GPR
<1>5. \A k \in 1..16 : GUEST_REGS[k] \in GPR \cup {"rsp"}
  BY DEF GUEST_REGS, GPR
<1>6. PoppedSlot(Pops, "rflags") = 17
  <2>1. \A k \in 1..17 : Pops[k] = "rflags" => k = 17
    BY <1>2, <1>4, <1>5
  <2>. QED
    BY <2>1, <1>1 DEF PoppedSlot
<1>7. ASSUME NEW r \in GPR PROVE PoppedSlot(Pops, r) = Slot(r)
  <2>1. Slot(r) \in 1..17 /\ Pops[Slot(r)] = r
    BY <1>2, <1>3, <1>4, Slots
  <2>2. \A j \in (Slot(r) + 1)..17 : Pops[j] # r
    BY <1>1, <1>2, <1>3, <1>4, Slots
  <2>3. ASSUME NEW k \in 1..17, Pops[k] = r, \A j \in (k + 1)..17 : Pops[j] # r
        PROVE  k = Slot(r)
    BY <2>1, <2>3, <1>1, <1>2, <1>3, <1>4, Slots
  <2>. QED
    BY <2>1, <2>2, <2>3, <1>1 DEF PoppedSlot
<1>. QED
  BY <1>6, <1>7

(* AsmVmxoffHandler pops them from the same slots, and RSP from the last.  *)
LEMMA VmxoffSlots ==
  /\ \A r \in GPR : PoppedSlot(Pops \o <<"rsp">>, r) = Slot(r)
  /\ PoppedSlot(Pops \o <<"rsp">>, "rflags") = 17
  /\ PoppedSlot(Pops \o <<"rsp">>, "rsp") = 18
<1>. DEFINE order == Pops \o <<"rsp">>
<1>1. Len(Pops) = 17 /\ \A k \in 1..17 : Pops[k] # "rsp"
  BY DEF Pops
<1>2. /\ Len(order) = 18 /\ order[18] = "rsp"
      /\ \A k \in 1..17 : order[k] = Pops[k]
  BY DEF Pops
<1>. HIDE DEF order
<1>3. PoppedSlot(order, "rsp") = 18
  BY <1>1, <1>2 DEF PoppedSlot
<1>4. ASSUME NEW n \in GPR \cup {"rflags"}
      PROVE  PoppedSlot(order, n) = PoppedSlot(Pops, n)
  <2>1. n # "rsp"
    BY DEF GPR
  <2>2. \A k : k \in 1..18 /\ order[k] = n /\ (\A j \in (k + 1)..18 : order[j] # n)
                <=> k \in 1..17 /\ Pops[k] = n /\ (\A j \in (k + 1)..17 : Pops[j] # n)
    BY <1>2, <2>1
  <2>. QED
    BY <2>2, <1>1, <1>2 DEF PoppedSlot
<1>. QED
  BY <1>3, <1>4, PopsSlots DEF order

(* AsmVmxRestoreState undoes the pushes of AsmVmxSaveState.                *)
LEMMA RestoresSlots ==
  \A n \in GPR \cup {"rflags"} :
    PoppedSlot(Restores, n) \in 1..16 /\ Saves[17 - PoppedSlot(Restores, n)] = n
<1>1. Len(Restores) = 16 /\ \A k \in 1..16 : Saves[17 - k] = Restores[k]
  BY DEF Restores, Saves
<1>2. \A n \in GPR \cup {"rflags"} : \E k \in 1..16 : Restores[k] = n
  BY DEF Restores, GPR
<1>3. \A j, k \in 1..16 : Restores[j] = Restores[k] => j = k
  BY DEF Restores
<1>4. ASSUME NEW n \in GPR \cup {"rflags"}
      PROVE  PoppedSlot(Restores, n) \in 1..16 /\ Restores[PoppedSlot(Restores, n)] = n
  <2>1. PICK k \in 1..16 : Restores[k] = n
    BY <1>2
  <2>2. \A j \in (k + 1)..16 : Restores[j] # n
    BY <1>3, <2>1
  <2>. QED
    BY <1>1, <2>1, <2>2 DEF PoppedSlot
<1>. QED
  BY <1>1, <1>4

(* The stack that AsmVmxSaveState leaves holds every register and the flags*)
(* where AsmVmxRestoreState looks for them.                                *)
LEMMA SavedForRestore ==
  /\ \A r \in GPR : Pushed(Saves)[PoppedSlot(Restores, r)] = cpu.regs[r]
  /\ Pushed(Saves)[PoppedSlot(Restores, "rflags")] = cpu.rflags
<1>1. Len(Saves) = 16
  BY DEF Saves
<1>2. \A k \in 1..16 :
        Pushed(Saves)[k] = IF Saves[17 - k] = "0" THEN 0
                           ELSE IF Saves[17 - k] = "rflags" THEN cpu.rflags
                           ELSE cpu.regs[Saves[17 - k]]
  BY <1>1 DEF Pushed
<1>3. "0" \notin GPR /\ "rflags" \notin GPR
  BY DEF GPR
<1>. QED
  BY <1>2, <1>3, RestoresSlots

(* The pushes of AsmVmexitHandler make the struct that the C code expects. *)
LEMMA PushedStruct ==
  /\ IsFrame(Pushed(Pushes))
  /\ \A r \in GPR : Pushed(Pushes)[Slot(r)] = cpu.regs[r]
  /\ Pushed(Pushes)[17] = cpu.rflags
<1>1. Len(Pushes) = 18 /\ Pushes[2] = "rflags"
  BY DEF Pushes
<1>2. \A k \in 1..18 :
        Pushed(Pushes)[k] = IF Pushes[19 - k] = "0" THEN 0
                            ELSE IF Pushes[19 - k] = "rflags" THEN cpu.rflags
                            ELSE cpu.regs[Pushes[19 - k]]
  BY <1>1 DEF Pushed
<1>3. "0" \notin GPR /\ "rflags" \notin GPR /\ "rsp" \notin GPR
  BY DEF GPR
<1>4. \A k \in 1..16 : GUEST_REGS[k] # "rsp" => Pushes[19 - k] = GUEST_REGS[k]
  BY DEF Pushes, GUEST_REGS
<1>5. ASSUME NEW r \in GPR PROVE Pushes[19 - Slot(r)] = r /\ Slot(r) \in 1..16
  BY <1>3, <1>4, Slots
<1>6. IsFrame(Pushed(Pushes))
  BY <1>1 DEF Pushed, IsFrame
<1>. QED
  BY <1>1, <1>2, <1>3, <1>5, <1>6

(* A handler that writes to GuestRegs->r changes the slot of r.            *)
LEMMA SetSlot ==
  \A f, v : \A r \in GPR \cup {"rsp"} : IsFrame(f) =>
    /\ IsFrame(Set(f, r, v))
    /\ Set(f, r, v)[Slot(r)] = v
    /\ \A q \in GPR \ {r} : Set(f, r, v)[Slot(q)] = f[Slot(q)]
    /\ Set(f, r, v)[17] = f[17]
<1>. SUFFICES ASSUME NEW f, NEW v, NEW r \in GPR \cup {"rsp"}, IsFrame(f)
              PROVE  SetSlot!(f, v)!(r)!2
  OBVIOUS
<1>. DEFINE g == Set(f, r, v)
<1>1. \A q \in GPR \ {r} : Slot(q) # Slot(r)
  BY Slots
<1>2. \A q \in GPR \cup {"rsp"} : Slot(q) \in 1..16
  BY Slots
<1>3. g = [k \in 1..18 |-> IF k = Slot(r) THEN v ELSE f[k]]
  BY DEF Set, IsFrame
<1>. HIDE DEF g
<1>4. IsFrame(g)
  BY <1>3 DEF IsFrame
<1>5. g[Slot(r)] = v /\ g[17] = f[17] /\ \A q \in GPR \ {r} : g[Slot(q)] = f[Slot(q)]
  BY <1>1, <1>2, <1>3
<1>. QED
  BY <1>4, <1>5 DEF g

--------------------------------------------------------------------------
(* Types of the values                                                     *)

LEMMA WordValue == \A l \in Low, h \in High : Word(l, h) \in Value
  BY DEF Word, Value

LEMMA WordFields == \A l, h : Word(l, h).lo = l /\ Word(l, h).hi = h
  BY DEF Word

(* The constants of the code, and an address or a register of the guest.   *)
LEMMA Constants ==
  /\ Keep \in Value /\ HostCr3 \in Value /\ Success \in Value /\ Unsuccessful \in Value
  /\ Word(<<"host">>, "other") \in Value /\ Word(<<"cr3">>, "zero") \in Value
  /\ Word(<<"0">>, "zero") \in Value /\ Word(<<"HVFS">>, "zero") \in Value
  /\ Clobbered \in [GPR -> Value]
  /\ \A n \in Nat : Address(n) \in Value
  /\ \A r \in GPR : Own(r) \in Value
<1>1. {<<"0">>, <<"keep">>, <<"InitiateCr3">>, <<"cr3">>, <<"host">>, <<"HVFS">>,
       <<"STATUS_SUCCESS">>, <<"STATUS_UNSUCCESSFUL">>} \subseteq Low
  BY DEF Low
<1>2. \A n \in Nat : <<"stack", n>> \in Low
  BY DEF Low
<1>3. \A r \in GPR : <<"register", r>> \in Low
  BY DEF Low
<1>4. High = {"zero", "ones", "bit63", "other"}
  BY DEF High
<1>. QED
  BY <1>1, <1>2, <1>3, <1>4, WordValue
     DEF Keep, HostCr3, Success, Unsuccessful, Clobbered, Address, Own

(* The instructions that exit, and the operands each of them loads.        *)
LEMMA Instructions ==
  \A i \in Instruction :
    /\ i.op \in {"cpuid", "to cr3", "from cr3", "rdmsr", "wrmsr", "vmcall", "vmx",
                 "other", "fetch"}
    /\ i.reg \in GPR \cup {"rsp"} /\ (i.op = "from cr3" => i.reg \in GPR)
    /\ i.op = "cpuid" => \E l \in {"1", "interface", "other"}, h \in {"zero", "other"} :
                           i.rax = Word(<<"leaf", l>>, h)
    /\ i.op \notin {"cpuid", "to cr3"} => i.rax = Keep
    /\ i.op = "to cr3" => i.rax \in {Keep, Word(<<"pcid">>, "bit63")}
    /\ i.op \in {"rdmsr", "wrmsr"} => i.rcx = Word(<<"msr", "outside">>, "zero")
    /\ i.op = "vmcall" => \E n \in VmcallNumber : i.rcx = Number(n)
    /\ i.op \notin {"rdmsr", "wrmsr", "vmcall"} => i.rcx = Keep
<1>1. "rax" \in GPR /\ "rcx" \in GPR
  BY DEF GPR
<1>2. CrRegs \subseteq GPR \cup {"rsp"}
  BY CrRegsAssumption
<1>. SUFFICES ASSUME NEW i \in Instruction
              PROVE  Instructions!(i)
  OBVIOUS
<1>3. \/ \E leaf \in Leaf : i = Insn("cpuid", "rax", leaf, Keep)
      \/ \E r \in CrRegs : i = Insn("to cr3", r, Keep, Keep)
      \/ i = Insn("to cr3", "rax", Word(<<"pcid">>, "bit63"), Keep)
      \/ \E r \in CrRegs \ {"rsp"} : i = Insn("from cr3", r, Keep, Keep)
      \/ \E op \in {"rdmsr", "wrmsr"} :
           i = Insn(op, "rcx", Keep, Word(<<"msr", "outside">>, "zero"))
      \/ \E n \in VmcallNumber : i = Insn("vmcall", "rcx", Keep, Number(n))
      \/ \E op \in {"vmx", "other", "fetch"} : i = Insn(op, "rax", Keep, Keep)
  BY DEF Instruction
<1>. DEFINE G == Instructions!(i)
<1>4. ASSUME NEW leaf \in Leaf, i = Insn("cpuid", "rax", leaf, Keep) PROVE G
  BY <1>1, <1>4 DEF Insn, Leaf
<1>5. ASSUME NEW r \in CrRegs, i = Insn("to cr3", r, Keep, Keep) PROVE G
  BY <1>1, <1>2, <1>5 DEF Insn
<1>6. CASE i = Insn("to cr3", "rax", Word(<<"pcid">>, "bit63"), Keep)
  BY <1>1, <1>6 DEF Insn
<1>7. ASSUME NEW r \in CrRegs \ {"rsp"}, i = Insn("from cr3", r, Keep, Keep) PROVE G
  BY <1>1, <1>2, <1>7 DEF Insn
<1>8. ASSUME NEW op \in {"rdmsr", "wrmsr"},
             i = Insn(op, "rcx", Keep, Word(<<"msr", "outside">>, "zero"))
      PROVE  G
  BY <1>1, <1>8 DEF Insn
<1>9. ASSUME NEW n \in VmcallNumber, i = Insn("vmcall", "rcx", Keep, Number(n)) PROVE G
  BY <1>1, <1>9 DEF Insn
<1>10. ASSUME NEW op \in {"vmx", "other", "fetch"}, i = Insn(op, "rax", Keep, Keep)
       PROVE  G
  BY <1>1, <1>10 DEF Insn
<1>. QED
  BY <1>3, <1>4, <1>5, <1>6, <1>7, <1>8, <1>9, <1>10

(* An instruction that loads its operands leaves values in all registers.  *)
LEMMA LoadedValues ==
  ASSUME NEW i \in Instruction, NEW regs \in [GPR -> Value]
  PROVE  /\ Loaded(i, regs) \in [GPR -> Value]
         /\ Loaded(i, regs).rax = IF i.rax = Keep THEN regs.rax ELSE i.rax
         /\ Loaded(i, regs).rcx = IF i.rcx = Keep THEN regs.rcx ELSE i.rcx
         /\ i.rax = Keep /\ i.rcx = Keep => Loaded(i, regs) = regs
<1>1. "rax" \in GPR /\ "rcx" \in GPR
  BY DEF GPR
<1>2. i.rax \in Value /\ i.rcx \in Value
  <2>1. \A l \in {"1", "interface", "other"} : <<"leaf", l>> \in Low
    BY DEF Low
  <2>2. <<"pcid">> \in Low /\ <<"msr", "outside">> \in Low
    BY DEF Low
  <2>3. \A n \in VmcallNumber : <<"number", n>> \in Low
    BY DEF Low
  <2>4. {"zero", "other", "bit63"} \subseteq High
    BY DEF High
  <2>5. /\ \A l \in {"1", "interface", "other"}, h \in {"zero", "other"} :
             Word(<<"leaf", l>>, h) \in Value
        /\ Word(<<"pcid">>, "bit63") \in Value
        /\ Word(<<"msr", "outside">>, "zero") \in Value
        /\ \A n \in VmcallNumber : Number(n) \in Value
    BY <2>1, <2>2, <2>3, <2>4, WordValue DEF Number
  <2>. QED
    BY <2>5, Instructions, Constants
<1>. QED
  BY <1>1, <1>2 DEF Loaded

--------------------------------------------------------------------------
(* The invariant is kept by every step                                     *)

LEMMA StepInit == Init => StepInv
<1>. SUFFICES ASSUME Init PROVE StepInv
  OBVIOUS
<1>1. TypeOK
  BY Constants, MaxExitsAssumption DEF Init, TypeOK, Zeroed, StackTop
<1>2. FlagInv
  BY FlagInit
<1>3. insn \in Instruction
  BY DEF Init, Instruction
<1>4. before \in Sight
  BY <1>1 DEF Init, TypeOK, Sight, Visible, Flags
<1>. QED
  BY <1>1, <1>2, <1>3, <1>4 DEF Init, StepInv, LaunchInv, ExitInv, DoneInv

(* The launch: the stack of AsmVmxSaveState holds what its caller sees.    *)
LEMMA LaunchStep == StepInv /\ AsmVmxSaveState /\ FlagInv' => StepInv'
<1>. SUFFICES ASSUME StepInv, AsmVmxSaveState, FlagInv' PROVE StepInv'
  OBVIOUS
<1>. USE DEF StepInv, AsmVmxSaveState, Goto
<1>1. TypeOK'
  BY DEF TypeOK, Zeroed
<1>2. before' \in Sight /\ insn' \in Instruction
  BY DEF TypeOK, Sight, Visible, Flags, StackTop
<1>3. LaunchInv'
  <2>1. /\ ~before'.virtualized /\ before'.regs = cpu.regs /\ before'.rflags = cpu.rflags
        /\ cpu'.rsp = before'.rsp /\ cpu'.rip = before'.rip /\ cpu'.cr3 = before'.cr3
    BY DEF Visible
  <2>2. frame' = Pushed(Saves)
    OBVIOUS
  <2>. QED
    BY <2>1, <2>2, SavedForRestore DEF LaunchInv
<1>. QED
  BY <1>1, <1>2, <1>3 DEF ExitInv, DoneInv

LEMMA VirtualizeStep == StepInv /\ VmxVirtualizeCurrentSystem /\ FlagInv' => StepInv'
<1>. SUFFICES ASSUME StepInv, VmxVirtualizeCurrentSystem, FlagInv' PROVE StepInv'
  OBVIOUS
<1>. USE DEF StepInv, VmxVirtualizeCurrentSystem, Goto
<1>1. /\ stage = "launch" /\ stage' \in {"restore", "restore in guest"}
      /\ vmx' \in BOOLEAN
      /\ UNCHANGED <<state, frame, below, insn, exits, before>>
  BY DEF TypeOK
<1>2. PICK carry \in SUBSET {"CF"} :
        cpu' = [cpu EXCEPT !.regs = Clobbered, !.rflags = {"IF"} \cup carry]
  OBVIOUS
<1>3. vmcs' = [vmcs EXCEPT !.cr3 = cpu.cr3, !.rflags = cpu'.rflags]
  OBVIOUS
<1>4. cpu'.rflags \in SUBSET {"IF", "CF"} /\ cpu'.rsp = cpu.rsp /\ cpu'.rip = cpu.rip
      /\ cpu'.cr3 = cpu.cr3
  BY <1>2 DEF TypeOK
<1>5. TypeOK'
  BY <1>1, <1>2, <1>3, <1>4, Constants DEF TypeOK
<1>6. LaunchInv'
  BY <1>1, <1>4 DEF LaunchInv
<1>. QED
  BY <1>1, <1>5, <1>6 DEF ExitInv, DoneInv

(* What AsmVmxRestoreState pops is what was pushed.                        *)
LEMMA Restored ==
  ASSUME StepInv, AsmVmxRestoreState
  PROVE  cpu' = [regs |-> before.regs, rsp |-> before.rsp, rip |-> before.rip + 1,
                 rflags |-> before.rflags, cr3 |-> before.cr3]
<1>. USE DEF StepInv, AsmVmxRestoreState, Goto
<1>1. /\ cpu.rsp = before.rsp /\ cpu.rip = before.rip /\ cpu.cr3 = before.cr3
      /\ \A r \in GPR : frame[PoppedSlot(Restores, r)] = before.regs[r]
      /\ frame[PoppedSlot(Restores, "rflags")] = before.rflags
  BY DEF LaunchInv
<1>2. PoppedRegs(Restores) = before.regs /\ PoppedFlags(Restores) = before.rflags
  BY <1>1 DEF Sight, PoppedRegs, PoppedFlags
<1>. QED
  BY <1>1, <1>2 DEF TypeOK

LEMMA RestoreStep == StepInv /\ AsmVmxRestoreState /\ FlagInv' => StepInv'
<1>. SUFFICES ASSUME StepInv, AsmVmxRestoreState, FlagInv' PROVE StepInv'
  OBVIOUS
<1>1. cpu' = [regs |-> before.regs, rsp |-> before.rsp, rip |-> before.rip + 1,
              rflags |-> before.rflags, cr3 |-> before.cr3]
  BY Restored
<1>2. stage' \in {"native", "guest"}
      /\ UNCHANGED <<vmx, vmcs, state, frame, below, insn, exits, before>>
  BY DEF AsmVmxRestoreState, Goto
<1>3. TypeOK'
  <2>1. /\ before.regs \in [GPR -> Value] /\ before.cr3 \in Value
        /\ before.rflags \in SUBSET {"IF", "CF"}
        /\ before.rsp \in Nat /\ before.rip + 1 \in Nat
    BY DEF StepInv, Sight, Flags, StackTop
  <2>2. cpu' \in [regs : [GPR -> Value], rsp : Nat, rip : Nat,
                  rflags : SUBSET {"IF", "CF"}, cr3 : Value]
    BY <1>1, <2>1
  <2>. QED
    BY <1>2, <2>2 DEF StepInv, TypeOK
<1>. QED
  BY <1>1, <1>2, <1>3 DEF StepInv, Sight, LaunchInv, ExitInv, DoneInv

(* A VM exit saves what the guest sees, and the guest has loaded operands. *)
LEMMA ExitStep ==
  ASSUME StepInv, NEW i \in Instruction, Exit(i), FlagInv'
  PROVE  StepInv'
<1>. USE DEF StepInv, Exit, Goto
<1>1. Loaded(i, cpu.regs) \in [GPR -> Value]
  BY LoadedValues DEF TypeOK
<1>2. TypeOK'
  BY <1>1, Constants DEF TypeOK, HostRsp, HostRip
<1>3. before' \in Sight /\ insn' \in Instruction
  BY DEF TypeOK, Sight, Visible, Flags, StackTop
<1>4. ExitInv'
  BY DEF ExitInv, Found, Visible
<1>. QED
  BY <1>2, <1>3, <1>4 DEF LaunchInv, DoneInv

(* The struct on the stack holds the registers the instruction has found.  *)
LEMMA PushStep == StepInv /\ AsmVmexitHandler /\ FlagInv' => StepInv'
<1>. SUFFICES ASSUME StepInv, AsmVmexitHandler, FlagInv' PROVE StepInv'
  OBVIOUS
<1>. USE DEF StepInv, AsmVmexitHandler, Goto
<1>1. TypeOK'
  BY DEF TypeOK
<1>2. /\ IsFrame(frame')
      /\ \A r \in GPR : frame'[Slot(r)] = cpu.regs[r]
      /\ frame'[17] = cpu.rflags
  BY PushedStruct
<1>3. FrameOK'
  BY <1>2 DEF FrameOK, IsFrame, Saved, TypeOK, Flags
<1>4. Holds({})'
  BY <1>2 DEF ExitInv, Holds, Saved, Found
<1>. QED
  BY <1>1, <1>3, <1>4 DEF LaunchInv, ExitInv, DoneInv

(* A handler that leaves the frame and the VMCS as GuestCpu has them.      *)
LEMMA HandledStep ==
  ASSUME StepInv, FlagInv', stage = "handler", stage' = "handled", ~Leaves,
         UNCHANGED <<vmx, below, insn, exits, before>>,
         state' = [Entered EXCEPT !.IncrementRip = (insn.op # "fetch")],
         cpu' = [cpu EXCEPT !.regs = Clobbered],
         NEW newFlags \in Flags, NEW newCr3 \in Value,
         vmcs' = [vmcs EXCEPT !.rflags = newFlags, !.cr3 = newCr3],
         FrameOK', Done'
  PROVE  StepInv'
<1>. USE DEF StepInv
<1>1. TypeOK'
  BY Constants DEF TypeOK, Entered, Flags
<1>2. /\ vmcs.rsp = before.rsp /\ vmcs.rip = before.rip
      /\ vmcs'.rsp = vmcs.rsp /\ vmcs'.rip = vmcs.rip
  BY DEF ExitInv, TypeOK
<1>3. /\ state'.IsVmxoffExecuted = FALSE
      /\ state'.IncrementRip = (insn.op # "fetch")
  BY DEF TypeOK, Entered, FlagInv
<1>4. Leaves' = FALSE
  BY DEF Leaves
<1>5. DoneInv'
  <2>1. state'.IsVmxoffExecuted = Leaves'
    BY <1>3, <1>4
  <2>2. state'.IncrementRip = (insn'.op # "fetch")
    BY <1>3
  <2>3. vmcs'.rsp = before'.rsp /\ vmcs'.rip = before'.rip
    BY <1>2
  <2>4. ~Leaves'
    BY <1>4
  <2>. HIDE <1>3, <1>4
  <2>. QED
    BY <2>1, <2>2, <2>3, <2>4, Zenon DEF DoneInv
<1>6. ExitInv' /\ LaunchInv'
  BY DEF ExitInv, LaunchInv
<1>. QED
  BY <1>1, <1>5, <1>6

(* What is common to the handlers that only write registers.               *)
LEMMA WritesStep ==
  ASSUME StepInv, FlagInv', Handles(insn.op), Writes(frame'),
         insn.op \notin {"fetch", "to cr3", "vmx"}, ~Leaves,
         FrameOK', CpuidDone', RdmsrDone',
         insn.op = "from cr3" => Holds({insn.reg})' /\ Saved(insn.reg)' = before.cr3,
         insn.op \in {"wrmsr", "other"} => Holds({})',
         insn.op = "vmcall" => Holds({"rax"})'
  PROVE  StepInv'
<1>. USE DEF StepInv, Handles, Writes, Goto
<1>1. state' = [Entered EXCEPT !.IncrementRip = (insn.op # "fetch")]
  <2>1. Entered = [Entered EXCEPT !.IncrementRip = TRUE]
    BY DEF Entered, TypeOK
  <2>. QED
    BY <2>1
<1>2. vmcs' = [vmcs EXCEPT !.rflags = vmcs.rflags, !.cr3 = vmcs.cr3]
  BY DEF TypeOK
<1>3. vmcs.rflags \in Flags /\ vmcs.cr3 \in Value
  BY DEF TypeOK, Flags
<1>4. vmcs'.rflags = before'.rflags /\ vmcs'.cr3 = before'.cr3 /\ insn' = insn
  <2>1. vmcs = [rsp |-> before.rsp, rip |-> before.rip, rflags |-> before.rflags,
                cr3 |-> before.cr3]
    BY DEF ExitInv
  <2>2. vmcs.rflags = before.rflags /\ vmcs.cr3 = before.cr3
    BY <2>1
  <2>. QED
    BY <2>2
<1>5. MovDone'
  BY <1>4 DEF MovDone
<1>6. OtherDone'
  BY <1>4 DEF OtherDone
<1>. QED
  BY <1>1, <1>2, <1>3, <1>5, <1>6, HandledStep DEF Done

(* CPUID: the four registers are written one after the other, and Found    *)
(* holds a leaf in RAX.                                                    *)
LEMMA CpuidStep == StepInv /\ HvHandleCpuid /\ FlagInv' => StepInv'
<1>. SUFFICES ASSUME StepInv, HvHandleCpuid, FlagInv' PROVE StepInv'
  OBVIOUS
<1>. DEFINE leaf == GuestRegs("rax")
            Output(out) ==
              IF leaf = Word(<<"leaf", "1">>, "zero") /\ out = "rcx"
              THEN Word(HypervisorPresent(leaf, out), "ones")
              ELSE IF leaf = Word(<<"leaf", "interface">>, "zero") /\ out = "rax"
              THEN Word(<<"HVFS">>, "zero")
              ELSE Word(CpuidOutput(leaf, out),
                        IF <<leaf.lo[2], out>> \in Negative THEN "ones" ELSE "zero")
            f1 == Set(frame, "rax", Output("rax"))
            f2 == Set(f1, "rbx", Output("rbx"))
            f3 == Set(f2, "rcx", Output("rcx"))
            f4 == Set(f3, "rdx", Output("rdx"))
<1>1. Handles("cpuid") /\ Writes(f4)
  BY DEF HvHandleCpuid
<1>2. /\ stage = "handler" /\ insn.op = "cpuid" /\ insn \in Instruction
      /\ insn' = insn /\ before' = before /\ frame' = f4
  BY <1>1 DEF Handles, Writes, StepInv
<1>r. {"rax", "rbx", "rcx", "rdx"} \subseteq GPR
  BY DEF GPR
<1>3. leaf = insn.rax
  <2>1. Saved("rax") = Found["rax"]
    BY <1>2, <1>r DEF StepInv, ExitInv, Holds
  <2>2. insn.rax # Keep
    <3>1. PICK l \in {"1", "interface", "other"}, h \in {"zero", "other"} :
            insn.rax = Word(<<"leaf", l>>, h)
      BY <1>2, Instructions
    <3>2. insn.rax.lo[1] = "leaf" /\ Keep.lo[1] = "keep"
      BY <3>1 DEF Keep, Word
    <3>. QED
      BY <3>2
  <2>3. Found["rax"] = insn.rax
    BY <1>2, <2>2, LoadedValues DEF Found, StepInv, Sight
  <2>. QED
    BY <2>1, <2>3 DEF Saved, GuestRegs
<1>4. \A out \in {"rax", "rbx", "rcx", "rdx"} :
        /\ Output(out) \in Value
        /\ Output(out).lo = IF insn.rax = Word(<<"leaf", "1">>, "zero") /\ out = "rcx"
                           THEN HypervisorPresent(insn.rax, out)
                           ELSE IF insn.rax = Word(<<"leaf", "interface">>, "zero")
                                   /\ out = "rax"
                           THEN <<"HVFS">>
                           ELSE CpuidOutput(insn.rax, out)
  <2>1. PICK l \in {"1", "interface", "other"}, h \in {"zero", "other"} :
          insn.rax = Word(<<"leaf", l>>, h)
    BY <1>2, Instructions
  <2>2. insn.rax.lo[2] = l
    BY <2>1 DEF Word
  <2>. SUFFICES ASSUME NEW out \in {"rax", "rbx", "rcx", "rdx"}
                PROVE  <1>4!(out)
    OBVIOUS
  <2>3. /\ HypervisorPresent(leaf, out) \in Low /\ CpuidOutput(leaf, out) \in Low
        /\ <<"HVFS">> \in Low
    <3>1. <<"cpuid", l, out>> \in Low
      BY <1>r DEF Low
    <3>2. <<"cpuid", l, out, "hypervisor">> \in Low
      BY <1>r DEF Low
    <3>3. <<"HVFS">> \in Low
      BY DEF Low
    <3>. QED
      BY <3>1, <3>2, <3>3, <1>3, <2>2 DEF HypervisorPresent, CpuidOutput
  <2>4. {"zero", "ones"} \subseteq High
    BY DEF High
  <2>. QED
    BY <1>3, <2>3, <2>4, WordValue, WordFields
<1>. HIDE DEF leaf, Output, f1, f2, f3, f4
<1>5. /\ FrameOK'
      /\ \A out \in {"rax", "rbx", "rcx", "rdx"} : Saved(out)' = Output(out)
      /\ \A r \in GPR \ {"rax", "rbx", "rcx", "rdx"} : Saved(r)' = Saved(r)
  <2>0. IsFrame(frame) /\ frame[17] \in Flags
        /\ \A r \in GPR : frame[Slot(r)] \in Value
    BY <1>2 DEF StepInv, ExitInv, FrameOK, Saved
  <2>1. /\ IsFrame(f1) /\ f1[Slot("rax")] = Output("rax")
        /\ \A q \in GPR \ {"rax"} : f1[Slot(q)] = frame[Slot(q)]
        /\ f1[17] = frame[17]
    BY <2>0, <1>r, SetSlot DEF f1
  <2>2. /\ IsFrame(f2) /\ f2[Slot("rbx")] = Output("rbx")
        /\ \A q \in GPR \ {"rbx"} : f2[Slot(q)] = f1[Slot(q)]
        /\ f2[17] = f1[17]
    BY <2>1, <1>r, SetSlot DEF f2
  <2>3. /\ IsFrame(f3) /\ f3[Slot("rcx")] = Output("rcx")
        /\ \A q \in GPR \ {"rcx"} : f3[Slot(q)] = f2[Slot(q)]
        /\ f3[17] = f2[17]
    BY <2>2, <1>r, SetSlot DEF f3
  <2>4. /\ IsFrame(f4) /\ f4[Slot("rdx")] = Output("rdx")
        /\ \A q \in GPR \ {"rdx"} : f4[Slot(q)] = f3[Slot(q)]
        /\ f4[17] = f3[17]
    BY <2>3, <1>r, SetSlot DEF f4
  <2>5. \A r \in GPR \ {"rax", "rbx", "rcx", "rdx"} : f4[Slot(r)] = frame[Slot(r)]
    BY <2>1, <2>2, <2>3, <2>4
  <2>6. \A out \in {"rax", "rbx", "rcx", "rdx"} : f4[Slot(out)] = Output(out)
    BY <2>1, <2>2, <2>3, <2>4, <1>r
  <2>7. \A r \in GPR : f4[Slot(r)] \in Value
    BY <2>5, <2>6, <2>0, <1>4
  <2>8. f4[17] \in Flags
    BY <2>1, <2>2, <2>3, <2>4, <2>0
  <2>. QED
    BY <1>2, <2>4, <2>5, <2>6, <2>7, <2>8 DEF FrameOK, Saved
<1>6. CpuidDone'
  <2>1. Holds({"rax", "rbx", "rcx", "rdx"})'
    BY <1>2, <1>5 DEF Holds, Found, StepInv, ExitInv
  <2>. QED
    BY <1>2, <1>4, <1>5, <2>1 DEF CpuidDone
<1>7. RdmsrDone' /\ ~Leaves
  BY <1>2 DEF RdmsrDone, Leaves
<1>8. /\ insn.op \notin {"fetch", "to cr3", "vmx", "from cr3", "wrmsr", "other", "vmcall"}
      /\ Handles(insn.op) /\ Writes(frame')
  BY <1>1, <1>2
<1>. QED
  BY <1>5, <1>6, <1>7, <1>8, WritesStep

(* What a handler finds: the struct, and the VMCS as the exit has left it. *)
LEMMA AtHandler ==
  ASSUME StepInv, stage = "handler"
  PROVE  /\ IsFrame(frame) /\ frame[17] \in Flags
         /\ \A r \in GPR : Saved(r) \in Value /\ Saved(r) = Found[r]
         /\ vmcs.rsp = before.rsp /\ vmcs.rip = before.rip
         /\ vmcs.rflags = before.rflags /\ vmcs.cr3 = before.cr3
         /\ vmcs.rflags \in Flags /\ vmcs.cr3 \in Value
<1>1. vmcs = [rsp |-> before.rsp, rip |-> before.rip, rflags |-> before.rflags,
              cr3 |-> before.cr3]
  BY DEF StepInv, ExitInv
<1>2. vmcs.rflags \in Flags /\ vmcs.cr3 \in Value
  BY DEF StepInv, TypeOK, Flags
<1>. QED
  BY <1>1, <1>2 DEF StepInv, ExitInv, FrameOK, Holds

(* A handler that writes v to GuestRegs->r and nothing else to the frame.  *)
LEMMA SetInFrame ==
  ASSUME StepInv, stage = "handler", insn' = insn, before' = before,
         NEW r \in GPR, NEW v \in Value, frame' = Set(frame, r, v)
  PROVE  /\ FrameOK' /\ Saved(r)' = v
         /\ \A q \in GPR \ {r} : Saved(q)' = Saved(q)
         /\ Holds({r})'
<1>1. /\ IsFrame(frame') /\ frame'[Slot(r)] = v /\ frame'[17] = frame[17]
      /\ \A q \in GPR \ {r} : frame'[Slot(q)] = frame[Slot(q)]
  BY SetSlot, AtHandler
<1>2. FrameOK'
  BY <1>1, AtHandler DEF FrameOK, Saved
<1>. QED
  BY <1>1, <1>2, AtHandler DEF Saved, Holds, Found

(* The slot of RSP is nobody's register.                                   *)
LEMMA SetRspInFrame ==
  ASSUME StepInv, stage = "handler", insn' = insn, before' = before,
         NEW v, frame' = Set(frame, "rsp", v)
  PROVE  FrameOK' /\ frame'[Slot("rsp")] = v /\ Holds({})'
<1>1. /\ IsFrame(frame') /\ frame'[Slot("rsp")] = v /\ frame'[17] = frame[17]
      /\ \A q \in GPR : frame'[Slot(q)] = frame[Slot(q)]
  <2>1. "rsp" \notin GPR
    BY DEF GPR
  <2>. QED
    BY <2>1, SetSlot, AtHandler
<1>. QED
  BY <1>1, AtHandler DEF FrameOK, Saved, Holds, Found

(* A handler that leaves the frame alone.                                  *)
LEMMA FrameKept ==
  ASSUME StepInv, stage = "handler", insn' = insn, before' = before, frame' = frame
  PROVE  FrameOK' /\ Holds({})'
<1>. QED
  BY AtHandler DEF FrameOK, Saved, Holds, Found

LEMMA MsrReadStep == StepInv /\ HvHandleMsrRead /\ FlagInv' => StepInv'
<1>. SUFFICES ASSUME StepInv, HvHandleMsrRead, FlagInv' PROVE StepInv'
  OBVIOUS
<1>r. "rax" \in GPR /\ "rcx" \in GPR /\ "rdx" \in GPR
  BY DEF GPR
<1>1. /\ stage = "handler" /\ insn.op = "rdmsr" /\ insn \in Instruction
      /\ insn' = insn /\ before' = before /\ Handles(insn.op) /\ Writes(frame')
  BY DEF HvHandleMsrRead, Handles, Writes, StepInv
<1>2. GuestRegs("rcx").lo = <<"msr", "outside">>
  <2>1. insn.rcx = Word(<<"msr", "outside">>, "zero")
    BY <1>1, Instructions
  <2>2. insn.rcx.lo[1] = "msr" /\ Keep.lo[1] = "keep"
    BY <2>1 DEF Word, Keep
  <2>3. Found["rcx"] = insn.rcx
    BY <1>1, <2>2, LoadedValues DEF Found, StepInv, Sight
  <2>4. Saved("rcx") = insn.rcx
    BY <1>1, <1>r, <2>3, AtHandler
  <2>. QED
    BY <2>1, <2>4, WordFields DEF GuestRegs, Saved
<1>3. frame' = Set(Set(frame, "rax", Word(<<"0">>, "zero")), "rdx", Word(<<"0">>, "zero"))
  BY <1>2 DEF HvHandleMsrRead, Writes
<1>. DEFINE f1 == Set(frame, "rax", Word(<<"0">>, "zero"))
<1>4. /\ IsFrame(f1) /\ f1[Slot("rax")] = Word(<<"0">>, "zero") /\ f1[17] = frame[17]
      /\ \A q \in GPR \ {"rax"} : f1[Slot(q)] = Saved(q)
  BY <1>1, <1>r, SetSlot, AtHandler DEF Saved
<1>5. frame' = Set(f1, "rdx", Word(<<"0">>, "zero"))
  BY <1>3
<1>. HIDE DEF f1
<1>6. /\ IsFrame(frame') /\ frame'[Slot("rdx")] = Word(<<"0">>, "zero")
      /\ frame'[17] = f1[17]
      /\ \A q \in GPR \ {"rdx"} : frame'[Slot(q)] = f1[Slot(q)]
  BY <1>r, <1>4, <1>5, SetSlot
<1>7. /\ Saved("rax")' = Word(<<"0">>, "zero") /\ Saved("rdx")' = Word(<<"0">>, "zero")
      /\ \A q \in GPR \ {"rax", "rdx"} : Saved(q)' = Saved(q)
  BY <1>r, <1>4, <1>6 DEF Saved
<1>8. FrameOK'
  <2>1. \A q \in GPR : Saved(q)' \in Value
    BY <1>1, <1>7, AtHandler, Constants
  <2>. QED
    BY <1>1, <1>4, <1>6, <2>1, AtHandler DEF FrameOK
<1>9. Holds({"rax", "rdx"})'
  BY <1>1, <1>7, AtHandler DEF Holds, Found
<1>10. RdmsrDone' /\ CpuidDone' /\ ~Leaves
  BY <1>1, <1>7, <1>9 DEF RdmsrDone, CpuidDone, Leaves
<1>. QED
  BY <1>1, <1>8, <1>10, WritesStep

LEMMA MsrWriteStep == StepInv /\ HvHandleMsrWriteOrUnknown /\ FlagInv' => StepInv'
<1>. SUFFICES ASSUME StepInv, HvHandleMsrWriteOrUnknown, FlagInv' PROVE StepInv'
  OBVIOUS
<1>1. /\ stage = "handler" /\ insn.op \in {"wrmsr", "other"}
      /\ insn' = insn /\ before' = before /\ frame' = frame
      /\ Handles(insn.op) /\ Writes(frame')
  BY DEF HvHandleMsrWriteOrUnknown, Handles, Writes
<1>2. FrameOK' /\ Holds({})'
  BY <1>1, FrameKept
<1>3. RdmsrDone' /\ CpuidDone' /\ ~Leaves
  BY <1>1 DEF RdmsrDone, CpuidDone, Leaves
<1>. QED
  BY <1>1, <1>2, <1>3, WritesStep

LEMMA MovFromStep ==
  ASSUME StepInv, FlagInv', Handles("from cr3"), Writes(Set(frame, insn.reg, vmcs.cr3))
  PROVE  StepInv'
<1>1. /\ stage = "handler" /\ insn.op = "from cr3" /\ insn \in Instruction
      /\ insn' = insn /\ before' = before /\ Handles(insn.op) /\ Writes(frame')
      /\ frame' = Set(frame, insn.reg, vmcs.cr3)
  BY DEF Handles, Writes, StepInv
<1>2. insn.reg \in GPR /\ vmcs.cr3 \in Value /\ vmcs.cr3 = before.cr3
  BY <1>1, Instructions, AtHandler
<1>3. FrameOK' /\ Saved(insn.reg)' = before.cr3 /\ Holds({insn.reg})'
  BY <1>1, <1>2, SetInFrame
<1>4. RdmsrDone' /\ CpuidDone' /\ ~Leaves
  BY <1>1 DEF RdmsrDone, CpuidDone, Leaves
<1>. QED
  BY <1>1, <1>3, <1>4, WritesStep

(* MOV to CR3 takes the operand from its slot, or the stack pointer that it*)
(* has just put into the slot of RSP.                                      *)
LEMMA MovToStep ==
  ASSUME StepInv, FlagInv', Handles("to cr3"),
         NEW f, f = IF insn.reg = "rsp" THEN Set(frame, "rsp", Address(vmcs.rsp)) ELSE frame,
         vmcs' = [vmcs EXCEPT !.cr3 = WithoutBit63(f[Slot(insn.reg)])],
         frame' = f, state' = Entered, cpu' = [cpu EXCEPT !.regs = Clobbered], vmx' = vmx
  PROVE  StepInv'
<1>1. /\ stage = "handler" /\ stage' = "handled" /\ insn.op = "to cr3"
      /\ insn \in Instruction
      /\ insn' = insn /\ before' = before /\ UNCHANGED <<vmx, below, exits>>
  BY DEF Handles, Goto, StepInv
<1>2. FrameOK' /\ Holds({})'
  BY <1>1, FrameKept, SetRspInFrame
<1>3. f[Slot(insn.reg)] = Operand(insn, before.regs, before.rsp)
  <2>1. insn.reg \in GPR \cup {"rsp"}
    BY <1>1, Instructions
  <2>2. CASE insn.reg = "rsp"
    BY <1>1, <2>2, SetRspInFrame, AtHandler DEF Operand
  <2>3. CASE insn.reg # "rsp"
    BY <1>1, <2>1, <2>3, AtHandler DEF Operand, Saved, Found
  <2>. QED
    BY <2>2, <2>3
<1>4. f[Slot(insn.reg)] \in Value
  <2>1. insn.reg \in GPR \cup {"rsp"}
    BY <1>1, Instructions
  <2>2. Loaded(insn, before.regs) \in [GPR -> Value]
    BY <1>1, LoadedValues DEF StepInv, Sight
  <2>3. Address(before.rsp) \in Value
    BY Constants DEF StepInv, Sight, StackTop
  <2>. QED
    BY <1>3, <2>1, <2>2, <2>3 DEF Operand
<1>5. WithoutBit63(f[Slot(insn.reg)]) \in Value
  BY <1>4 DEF WithoutBit63, Value, High
<1>6. /\ vmcs' = [vmcs EXCEPT !.rflags = vmcs.rflags,
                             !.cr3 = WithoutBit63(f[Slot(insn.reg)])]
      /\ vmcs'.cr3 = WithoutBit63(f[Slot(insn.reg)])
      /\ vmcs'.rflags = before.rflags
      /\ vmcs.rflags \in Flags
  BY <1>1, AtHandler DEF StepInv, TypeOK
<1>7. state' = [Entered EXCEPT !.IncrementRip = (insn.op # "fetch")]
  <2>1. Entered = [Entered EXCEPT !.IncrementRip = TRUE]
    BY DEF Entered, StepInv, TypeOK
  <2>. QED
    BY <1>1, <2>1
<1>8. Done' /\ ~Leaves
  <2>1. CpuidDone' /\ RdmsrDone' /\ ~Leaves
    BY <1>1 DEF CpuidDone, RdmsrDone, Leaves
  <2>2. MovDone'
    BY <1>1, <1>2, <1>3, <1>6 DEF MovDone
  <2>3. OtherDone'
    BY <1>1, <1>6 DEF OtherDone
  <2>. QED
    BY <2>1, <2>2, <2>3 DEF Done
<1>. QED
  BY <1>1, <1>2, <1>5, <1>6, <1>7, <1>8, HandledStep

LEMMA CrStep == StepInv /\ HvHandleControlRegisterAccess /\ FlagInv' => StepInv'
<1>. SUFFICES ASSUME StepInv, HvHandleControlRegisterAccess, FlagInv' PROVE StepInv'
  OBVIOUS
<1>. DEFINE f == IF insn.reg = "rsp" THEN Set(frame, "rsp", Address(vmcs.rsp)) ELSE frame
<1>1. \/ /\ Handles("to cr3")
         /\ vmcs' = [vmcs EXCEPT !.cr3 = WithoutBit63(f[Slot(insn.reg)])]
         /\ frame' = f
         /\ state' = Entered /\ cpu' = [cpu EXCEPT !.regs = Clobbered]
         /\ vmx' = vmx
      \/ /\ Handles("from cr3")
         /\ Writes(Set(f, insn.reg, vmcs.cr3))
  BY DEF HvHandleControlRegisterAccess
<1>2. CASE Handles("from cr3") /\ Writes(Set(f, insn.reg, vmcs.cr3))
  <2>1. insn.reg # "rsp"
    BY <1>2, Instructions DEF Handles, StepInv, GPR
  <2>. QED
    BY <1>2, <2>1, MovFromStep
<1>. QED
  BY <1>1, <1>2, MovToStep

(* The fetch of a hooked page, and VMX instructions.                       *)
LEMMA FetchStep == StepInv /\ EptHandlePageHookExit /\ FlagInv' => StepInv'
<1>. SUFFICES ASSUME StepInv, EptHandlePageHookExit, FlagInv' PROVE StepInv'
  OBVIOUS
<1>1. /\ stage = "handler" /\ stage' = "handled" /\ insn.op = "fetch"
      /\ insn' = insn /\ before' = before /\ frame' = frame
      /\ UNCHANGED <<vmx, vmcs, below, exits>>
      /\ state' = [Entered EXCEPT !.IncrementRip = (insn.op # "fetch")]
      /\ cpu' = [cpu EXCEPT !.regs = Clobbered]
  BY DEF EptHandlePageHookExit, Handles, Goto
<1>2. FrameOK' /\ Holds({})'
  BY <1>1, FrameKept
<1>3. vmcs' = [vmcs EXCEPT !.rflags = vmcs.rflags, !.cr3 = vmcs.cr3]
  BY <1>1 DEF StepInv, TypeOK
<1>4. Done' /\ ~Leaves
  BY <1>1, <1>2, AtHandler DEF Done, CpuidDone, MovDone, RdmsrDone, OtherDone, Leaves
<1>5. vmcs.rflags \in Flags /\ vmcs.cr3 \in Value
  BY <1>1, AtHandler
<1>. QED
  BY <1>1, <1>2, <1>3, <1>4, <1>5, HandledStep

LEMMA VmxInstructionStep == StepInv /\ VmxInstruction /\ FlagInv' => StepInv'
<1>. SUFFICES ASSUME StepInv, VmxInstruction, FlagInv' PROVE StepInv'
  OBVIOUS
<1>1. /\ stage = "handler" /\ stage' = "handled" /\ insn.op = "vmx"
      /\ insn' = insn /\ before' = before /\ frame' = frame
      /\ UNCHANGED <<vmx, below, exits>>
      /\ state' = Entered
      /\ cpu' = [cpu EXCEPT !.regs = Clobbered]
      /\ vmcs' = [vmcs EXCEPT !.rflags = vmcs.rflags \cup {"CF"}]
  BY DEF VmxInstruction, Handles, Goto
<1>2. FrameOK' /\ Holds({})'
  BY <1>1, FrameKept
<1>3. /\ vmcs' = [vmcs EXCEPT !.rflags = vmcs.rflags \cup {"CF"}, !.cr3 = vmcs.cr3]
      /\ vmcs'.rflags = vmcs.rflags \cup {"CF"} /\ vmcs'.cr3 = vmcs.cr3
  BY <1>1 DEF StepInv, TypeOK
<1>4. Done' /\ ~Leaves
  BY <1>1, <1>2, <1>3, AtHandler DEF Done, CpuidDone, MovDone, RdmsrDone, OtherDone, Leaves
<1>5. vmcs.rflags \cup {"CF"} \in Flags /\ vmcs.cr3 \in Value
  BY <1>1, AtHandler DEF Flags
<1>6. state' = [Entered EXCEPT !.IncrementRip = (insn.op # "fetch")]
  <2>1. Entered = [Entered EXCEPT !.IncrementRip = TRUE]
    BY DEF Entered, StepInv, TypeOK
  <2>. QED
    BY <1>1, <2>1
<1>. QED
  BY <1>1, <1>2, <1>3, <1>4, <1>5, <1>6, HandledStep

(* The number of a VMCALL reaches its handler in RCX.                      *)
LEMMA VmcallNumberInRcx ==
  ASSUME StepInv, stage = "handler", insn.op = "vmcall"
  PROVE  GuestRegs("rcx") = insn.rcx
<1>r. "rcx" \in GPR
  BY DEF GPR
<1>i. insn \in Instruction
  BY DEF StepInv
<1>1. insn.rcx # Keep
  <2>1. PICK n \in VmcallNumber : insn.rcx = Number(n)
    BY <1>i, Instructions
  <2>2. insn.rcx.lo[1] = "number" /\ Keep.lo[1] = "keep"
    BY <2>1 DEF Number, Word, Keep
  <2>. QED
    BY <2>2
<1>2. Found["rcx"] = insn.rcx
  BY <1>i, <1>1, LoadedValues DEF Found, StepInv, Sight
<1>. QED
  BY <1>r, <1>2, AtHandler DEF GuestRegs, Saved

(* A VMCALL writes its status to RAX; VMCALL_VMXOFF is a case of its own.  *)
LEMMA VmcallStep == StepInv /\ VmxVmcallHandler /\ FlagInv' => StepInv'
<1>. SUFFICES ASSUME StepInv, VmxVmcallHandler, FlagInv' PROVE StepInv'
  OBVIOUS
<1>r. "rax" \in GPR /\ "rcx" \in GPR
  BY DEF GPR
<1>1. PICK status \in {Success, Unsuccessful} :
        Handles("vmcall") /\ GuestRegs("rcx") # Number("VMCALL_VMXOFF")
          /\ Writes(Set(frame, "rax", status))
  BY DEF VmxVmcallHandler
<1>2. /\ stage = "handler" /\ insn.op = "vmcall" /\ insn \in Instruction
      /\ insn' = insn /\ before' = before /\ Handles(insn.op) /\ Writes(frame')
      /\ frame' = Set(frame, "rax", status)
  BY <1>1 DEF Handles, Writes, StepInv
<1>3. FrameOK' /\ Holds({"rax"})'
  BY <1>r, <1>2, SetInFrame, Constants
<1>4. GuestRegs("rcx") = insn.rcx
  BY <1>2, VmcallNumberInRcx
<1>5. RdmsrDone' /\ CpuidDone' /\ ~Leaves
  BY <1>1, <1>2, <1>4 DEF RdmsrDone, CpuidDone, Leaves
<1>. QED
  BY <1>2, <1>3, <1>5, WritesStep

LEMMA VmxoffStep == StepInv /\ VmxVmxoff /\ FlagInv' => StepInv'
<1>. SUFFICES ASSUME StepInv, VmxVmxoff, FlagInv' PROVE StepInv'
  OBVIOUS
<1>r. "rax" \in GPR
  BY DEF GPR
<1>1. /\ stage = "handler" /\ stage' = "handled" /\ insn.op = "vmcall"
      /\ insn \in Instruction /\ insn' = insn /\ before' = before
      /\ frame' = Set(frame, "rax", Success) /\ vmx' = FALSE
      /\ UNCHANGED <<vmcs, below, exits>>
      /\ GuestRegs("rcx") = Number("VMCALL_VMXOFF")
  BY DEF VmxVmxoff, Handles, Goto, StepInv
<1>2. FrameOK' /\ Holds({"rax"})'
  BY <1>r, <1>1, SetInFrame, Constants
<1>3. Leaves /\ Leaves'
  BY <1>1, VmcallNumberInRcx DEF Leaves
<1>4. Done'
  BY <1>1, <1>2, AtHandler DEF Done, CpuidDone, MovDone, RdmsrDone, OtherDone
<1>5. /\ state' = [Entered EXCEPT !.GuestRip = vmcs.rip + 1, !.GuestRsp = vmcs.rsp,
                                 !.IsVmxoffExecuted = TRUE]
      /\ cpu' = [cpu EXCEPT !.regs = Clobbered, !.cr3 = vmcs.cr3]
  BY DEF VmxVmxoff
<1>6. TypeOK'
  <2>1. Entered \in [IsOnVmxRootMode : BOOLEAN, IncrementRip : BOOLEAN,
                    IsVmxoffExecuted : BOOLEAN, GuestRip : Nat, GuestRsp : Nat]
    BY DEF StepInv, TypeOK, Entered
  <2>2. state' \in [IsOnVmxRootMode : BOOLEAN, IncrementRip : BOOLEAN,
                   IsVmxoffExecuted : BOOLEAN, GuestRip : Nat, GuestRsp : Nat]
    <3>1. vmcs.rip \in Nat /\ vmcs.rsp \in Nat
      BY DEF StepInv, TypeOK
    <3>2. vmcs.rip + 1 \in Nat
      BY <3>1
    <3>. QED
      BY <1>5, <2>1, <3>1, <3>2
  <2>3. cpu' \in [regs : [GPR -> Value], rsp : Nat, rip : Nat,
                 rflags : SUBSET {"IF", "CF"}, cr3 : Value]
    BY <1>5, Constants DEF StepInv, TypeOK
  <2>. QED
    BY <1>1, <2>2, <2>3 DEF StepInv, TypeOK
<1>7. /\ state'.IsVmxoffExecuted = TRUE /\ state'.IncrementRip = TRUE
      /\ state'.GuestRip = before.rip + 1 /\ state'.GuestRsp = before.rsp
      /\ cpu'.cr3 = before.cr3
      /\ vmcs'.rsp = before.rsp /\ vmcs'.rip = before.rip
  BY <1>1, <1>5, AtHandler DEF StepInv, TypeOK, Entered
<1>8. DoneInv'
  <2>1. state'.IsVmxoffExecuted = Leaves'
    BY <1>3, <1>7
  <2>2. state'.IncrementRip = (insn'.op # "fetch")
    BY <1>1, <1>7
  <2>. QED
    BY <1>1, <1>3, <1>4, <1>7, <2>1, <2>2 DEF DoneInv
<1>9. ExitInv' /\ LaunchInv'
  BY <1>1, <1>2 DEF StepInv, ExitInv, LaunchInv
<1>. QED
  BY <1>1, <1>6, <1>8, <1>9 DEF StepInv

(* The end of VmxVmexitHandler: RIP moves on, unless the fetch is redone.  *)
LEMMA ResumeStep == StepInv /\ HvResumeToNextInstruction /\ FlagInv' => StepInv'
<1>. SUFFICES ASSUME StepInv, HvResumeToNextInstruction, FlagInv' PROVE StepInv'
  OBVIOUS
<1>1. /\ stage = "handled" /\ UNCHANGED <<cpu, vmx, frame, below, insn, exits, before>>
      /\ state' = [state EXCEPT !.IsOnVmxRootMode = FALSE]
  BY DEF HvResumeToNextInstruction
<1>2. /\ Done /\ vmcs.rsp = before.rsp /\ vmcs.rip = before.rip
      /\ state.IsVmxoffExecuted = Leaves /\ state.IncrementRip = (insn.op # "fetch")
  BY <1>1 DEF StepInv, DoneInv
<1>3. TypeOK'
  <2>1. vmcs' \in [rsp : Nat, rip : Nat, rflags : SUBSET {"IF", "CF"}, cr3 : Value]
    BY DEF HvResumeToNextInstruction, StepInv, TypeOK
  <2>2. state' \in [IsOnVmxRootMode : BOOLEAN, IncrementRip : BOOLEAN,
                   IsVmxoffExecuted : BOOLEAN, GuestRip : Nat, GuestRsp : Nat]
    BY <1>1 DEF StepInv, TypeOK
  <2>3. stage' \in {"vmxoff", "resume"}
    BY DEF HvResumeToNextInstruction, Goto
  <2>. QED
    BY <1>1, <2>1, <2>2, <2>3 DEF StepInv, TypeOK
<1>4. ExitInv' /\ LaunchInv'
  BY <1>1 DEF HvResumeToNextInstruction, Goto, StepInv, ExitInv, LaunchInv, FrameOK, Saved
<1>5. Done' /\ (Leaves' <=> Leaves)
  <2>1. vmcs'.cr3 = vmcs.cr3 /\ vmcs'.rflags = vmcs.rflags
    BY DEF HvResumeToNextInstruction, StepInv, TypeOK
  <2>. QED
    BY <1>1, <1>2, <2>1 DEF Done, CpuidDone, MovDone, RdmsrDone, OtherDone, Leaves,
                            Holds, Saved, Found
<1>6. DoneInv'
  <2>1. CASE Leaves
    <3>1. stage' = "vmxoff"
      BY <1>2, <2>1 DEF HvResumeToNextInstruction, Goto
    <3>2. /\ cpu.cr3 = before.cr3
          /\ state.GuestRip = before.rip + 1 /\ state.GuestRsp = before.rsp
      BY <1>1, <2>1 DEF StepInv, DoneInv
    <3>3. state'.GuestRip = state.GuestRip /\ state'.GuestRsp = state.GuestRsp
      BY <1>1 DEF StepInv, TypeOK
    <3>. QED
      BY <1>1, <1>5, <2>1, <3>1, <3>2, <3>3 DEF DoneInv
  <2>2. CASE ~Leaves
    <3>1. stage' = "resume"
      BY <1>2, <2>2 DEF HvResumeToNextInstruction, Goto
    <3>2. /\ vmcs'.rsp = vmcs.rsp
          /\ vmcs'.rip = IF insn.op = "fetch" THEN before.rip ELSE before.rip + 1
      BY <1>2, <2>2 DEF HvResumeToNextInstruction, StepInv, TypeOK
    <3>. QED
      BY <1>1, <1>2, <1>5, <2>2, <3>1, <3>2 DEF DoneInv
  <2>. QED
    BY <2>1, <2>2
<1>. QED
  BY <1>1, <1>3, <1>4, <1>6 DEF StepInv, HvResumeToNextInstruction, Goto

(* The pops find what the handlers have left in the slots.                 *)
LEMMA Popped ==
  ASSUME StepInv, stage = "resume" \/ stage = "return"
  PROVE  /\ PoppedRegs(Pops) = [r \in GPR |-> Saved(r)]
         /\ PoppedRegs(Pops \o <<"rsp">>) = [r \in GPR |-> Saved(r)]
         /\ PoppedFlags(Pops \o <<"rsp">>) = frame[17]
         /\ frame[17] \in Flags /\ \A r \in GPR : Saved(r) \in Value
<1>1. frame[17] \in Flags /\ \A r \in GPR : Saved(r) \in Value
  BY DEF StepInv, ExitInv, FrameOK
<1>2. PoppedRegs(Pops) = [r \in GPR |-> Saved(r)]
  BY PopsSlots DEF PoppedRegs, Saved
<1>3. PoppedRegs(Pops \o <<"rsp">>) = [r \in GPR |-> Saved(r)]
  BY VmxoffSlots DEF PoppedRegs, Saved
<1>4. PoppedFlags(Pops \o <<"rsp">>) = frame[17]
  BY VmxoffSlots DEF PoppedFlags
<1>. QED
  BY <1>1, <1>2, <1>3, <1>4

LEMMA VmresumeStep == StepInv /\ VmxVmresume /\ FlagInv' => StepInv'
<1>. SUFFICES ASSUME StepInv, VmxVmresume, FlagInv' PROVE StepInv'
  OBVIOUS
<1>1. /\ stage = "resume" /\ stage' = "guest"
      /\ cpu' = [regs |-> PoppedRegs(Pops), rsp |-> vmcs.rsp, rip |-> vmcs.rip,
                 rflags |-> vmcs.rflags, cr3 |-> vmcs.cr3]
      /\ UNCHANGED <<vmx, vmcs, state, frame, below, insn, exits, before>>
  BY DEF VmxVmresume, Goto
<1>2. PoppedRegs(Pops) \in [GPR -> Value]
  BY <1>1, Popped
<1>3. vmcs.rsp = StackTop
  BY <1>1 DEF StepInv, DoneInv, Sight
<1>4. TypeOK'
  BY <1>1, <1>2 DEF StepInv, TypeOK
<1>5. cpu'.rsp = StackTop
  BY <1>1, <1>3
<1>. QED
  BY <1>1, <1>4, <1>5 DEF StepInv, LaunchInv, ExitInv, DoneInv

(* The stack pointer goes into the slot above the flags.                   *)
LEMMA VmxoffHandlerStep == StepInv /\ AsmVmxoffHandler /\ FlagInv' => StepInv'
<1>. SUFFICES ASSUME StepInv, AsmVmxoffHandler, FlagInv' PROVE StepInv'
  OBVIOUS
<1>0. VmxoffSlot = 18
  BY DEF VmxoffSlot
<1>1. /\ stage = "vmxoff" /\ stage' = "return"
      /\ below' = [below EXCEPT ![state.GuestRsp - 1] = state.GuestRip]
      /\ frame' = [frame EXCEPT ![18] = state.GuestRsp - 1]
      /\ UNCHANGED <<cpu, vmx, vmcs, state, insn, exits, before>>
  BY <1>0 DEF AsmVmxoffHandler, Goto
<1>2. /\ Leaves /\ cpu.cr3 = before.cr3 /\ Done
      /\ state.GuestRip = before.rip + 1 /\ state.GuestRsp = before.rsp
      /\ before.rsp = 1 /\ before.rip \in Nat
  BY <1>1 DEF StepInv, DoneInv, Sight, StackTop
<1>3. below' \in [0..StackTop -> Nat] /\ below'[0] = before.rip + 1
  BY <1>1, <1>2 DEF StepInv, TypeOK, StackTop
<1>4. TypeOK'
  BY <1>1, <1>3 DEF StepInv, TypeOK
<1>5. IsFrame(frame) /\ frame[17] \in Flags /\ \A r \in GPR : Saved(r) \in Value
  BY <1>1 DEF StepInv, ExitInv, FrameOK
<1>6. /\ IsFrame(frame') /\ frame'[18] = before.rsp - 1
      /\ \A k \in 1..17 : frame'[k] = frame[k]
  <2>1. frame' = [k \in 1..18 |-> IF k = 18 THEN before.rsp - 1 ELSE frame[k]]
    BY <1>1, <1>2, <1>5 DEF IsFrame
  <2>. QED
    BY <2>1 DEF IsFrame
<1>7. \A r \in GPR : Saved(r)' = Saved(r)
  BY <1>6, Slots DEF Saved
<1>8. FrameOK'
  BY <1>5, <1>6, <1>7 DEF FrameOK
<1>9. Done' /\ Leaves'
  <2>1. /\ Leaves' /\ insn.op = "vmcall" /\ insn' = insn
        /\ vmcs'.cr3 = vmcs.cr3 /\ vmcs'.rflags = vmcs.rflags
    BY <1>1, <1>2 DEF Leaves
  <2>2. Holds({"rax"})'
    BY <1>1, <1>2, <1>7, <2>1 DEF Done, OtherDone, Holds, Found
  <2>. QED
    BY <1>1, <1>2, <2>1, <2>2 DEF Done, CpuidDone, MovDone, RdmsrDone, OtherDone
<1>10. DoneInv'
  <2>1. below'[before.rsp - 1] = before.rip + 1
    BY <1>2, <1>3
  <2>. QED
    BY <1>1, <1>2, <1>6, <1>9, <2>1 DEF DoneInv
<1>11. ExitInv' /\ LaunchInv'
  BY <1>1, <1>8 DEF StepInv, ExitInv, LaunchInv
<1>. QED
  BY <1>1, <1>4, <1>10, <1>11 DEF StepInv

(* Where the caller of VMCALL_VMXOFF goes on.                              *)
LEMMA Returned ==
  ASSUME StepInv, RestoreState
  PROVE  /\ cpu'.regs = [r \in GPR |-> Saved(r)] /\ cpu'.rflags = frame[17]
         /\ cpu'.rsp = before.rsp /\ cpu'.rip = before.rip + 1 /\ cpu'.cr3 = before.cr3
         /\ cpu' \in [regs : [GPR -> Value], rsp : Nat, rip : Nat,
                      rflags : SUBSET {"IF", "CF"}, cr3 : Value]
<1>1. /\ stage = "return"
      /\ cpu' = [cpu EXCEPT !.regs = PoppedRegs(Pops \o <<"rsp">>),
                            !.rflags = PoppedFlags(Pops \o <<"rsp">>),
                            !.rsp = frame[PoppedSlot(Pops \o <<"rsp">>, "rsp")] + 1,
                            !.rip = below[frame[PoppedSlot(Pops \o <<"rsp">>, "rsp")]]]
  BY DEF RestoreState
<1>2. /\ frame[PoppedSlot(Pops \o <<"rsp">>, "rsp")] = before.rsp - 1
      /\ below[before.rsp - 1] = before.rip + 1 /\ cpu.cr3 = before.cr3
      /\ before.rsp = 1 /\ before.rip \in Nat
  BY <1>1, VmxoffSlots DEF StepInv, DoneInv, Sight, StackTop
<1>3. cpu' = [cpu EXCEPT !.regs = [r \in GPR |-> Saved(r)], !.rflags = frame[17],
                         !.rsp = 1, !.rip = before.rip + 1]
  <2>1. (before.rsp - 1) + 1 = 1
    BY <1>2
  <2>. QED
    BY <1>1, <1>2, <2>1, Popped
<1>4. frame[17] \in SUBSET {"IF", "CF"} /\ [r \in GPR |-> Saved(r)] \in [GPR -> Value]
  BY <1>1, Popped DEF Flags
<1>5. /\ cpu' = [regs |-> [r \in GPR |-> Saved(r)], rsp |-> 1, rip |-> before.rip + 1,
                rflags |-> frame[17], cr3 |-> cpu.cr3]
      /\ cpu.cr3 \in Value
  BY <1>3 DEF StepInv, TypeOK
<1>6. /\ cpu'.regs = [r \in GPR |-> Saved(r)] /\ cpu'.rflags = frame[17]
      /\ cpu'.rsp = before.rsp /\ cpu'.rip = before.rip + 1 /\ cpu'.cr3 = before.cr3
  BY <1>2, <1>5
<1>7. cpu' \in [regs : [GPR -> Value], rsp : Nat, rip : Nat,
               rflags : SUBSET {"IF", "CF"}, cr3 : Value]
  <2>1. 1 \in Nat /\ before.rip + 1 \in Nat
    BY <1>2
  <2>. QED
    BY <1>4, <1>5, <2>1
<1>. QED
  BY <1>6, <1>7

LEMMA ReturnStep == StepInv /\ RestoreState /\ FlagInv' => StepInv'
<1>. SUFFICES ASSUME StepInv, RestoreState, FlagInv' PROVE StepInv'
  OBVIOUS
<1>1. stage' = "native" /\ UNCHANGED <<vmx, vmcs, state, frame, below, insn, exits, before>>
  BY DEF RestoreState, Goto
<1>2. TypeOK'
  BY <1>1, Returned DEF StepInv, TypeOK
<1>3. cpu'.rsp = StackTop
  BY Returned DEF StepInv, Sight
<1>. QED
  BY <1>1, <1>2, <1>3 DEF StepInv, LaunchInv, ExitInv, DoneInv

LEMMA StepInvStep == StepInv /\ [Next]_vars => StepInv'
<1>. SUFFICES ASSUME StepInv, [Next]_vars PROVE StepInv'
  OBVIOUS
<1>f. FlagInv'
  BY FlagStep DEF StepInv
<1>1. CASE UNCHANGED vars
  <2>. USE <1>1 DEF vars
  <2>1. TypeOK' = TypeOK /\ LaunchInv' = LaunchInv
    BY DEF TypeOK, LaunchInv
  <2>2. ExitInv' = ExitInv
    BY DEF ExitInv, FrameOK, Holds, Saved, Found
  <2>3. Done' = Done /\ Leaves' = Leaves
    BY DEF Done, CpuidDone, MovDone, RdmsrDone, OtherDone, Leaves, Holds, Saved, Found
  <2>4. DoneInv' = DoneInv
    BY <2>3 DEF DoneInv
  <2>. QED
    BY <1>f, <2>1, <2>2, <2>4 DEF StepInv
<1>2. CASE VmxVmexitHandler
  BY <1>2, <1>f, CpuidStep, CrStep, MsrReadStep, MsrWriteStep, FetchStep,
     VmxInstructionStep, VmcallStep, VmxoffStep DEF VmxVmexitHandler
<1>. QED
  BY <1>1, <1>2, <1>f, LaunchStep, VirtualizeStep, RestoreStep, ExitStep, PushStep,
     ResumeStep, VmresumeStep, VmxoffHandlerStep, ReturnStep DEF Next

(* Every variable stays in its type: what the handlers write into the      *)
(* frame, and what the pops, VMRESUME and ret take from it, are values of  *)
(* registers, flags and addresses, each where it belongs.                  *)
THEOREM Typing == Spec => []TypeOK
<1>1. StepInv => TypeOK
  BY DEF StepInv
<1>. QED
  BY <1>1, StepInit, StepInvStep, PTL DEF Spec

--------------------------------------------------------------------------
(* The refinement of GuestCpu                                              *)

(* What GuestCpu is given as its guest.                                    *)
Guest == IF stage \in {"guest", "native"} THEN Visible ELSE before

(* Which registers, and which of RFLAGS, CR3 and virtualized, the step     *)
(* behind an instruction has not kept.                                     *)
LEMMA CompletesIf ==
  ASSUME NEW registers, NEW fields,
         Guest'.rip = Guest.rip + 1, Guest'.rsp = Guest.rsp,
         \A r \in GPR \ registers : Guest'.regs[r] = Loaded(insn, Guest.regs)[r],
         "rflags" \in fields \/ Guest'.rflags = Guest.rflags,
         "cr3" \in fields \/ Guest'.cr3 = Guest.cr3,
         "virtualized" \in fields \/ Guest'.virtualized = Guest.virtualized
  PROVE  Cpu!Completes(insn, registers, fields)
<1>1. \A f \in {"rflags", "cr3", "virtualized"} \ fields : Guest'[f] = Guest[f]
  OBVIOUS
<1>. QED
  BY <1>1 DEF Cpu!Completes, Guest, Cpu!GPR, GPR, Cpu!Loaded, Loaded, Cpu!Keep, Keep,
              Cpu!Word, Word

(* The guest on its way back in: its frame, popped, and its VMCS.          *)
LEMMA Resumed ==
  ASSUME StepInv, VmxVmresume
  PROVE  /\ stage = "resume" /\ insn \in Instruction /\ Done
         /\ Guest = before /\ Guest.virtualized = TRUE /\ Guest.regs \in [GPR -> Value]
         /\ Guest'.regs = [r \in GPR |-> Saved(r)] /\ Guest'.rsp = Guest.rsp
         /\ Guest'.rip = IF insn.op = "fetch" THEN Guest.rip ELSE Guest.rip + 1
         /\ Guest'.rflags = vmcs.rflags /\ Guest'.cr3 = vmcs.cr3
         /\ Guest'.virtualized = TRUE
         /\ Guest' = [regs |-> Guest'.regs, rsp |-> Guest'.rsp, rip |-> Guest'.rip,
                      rflags |-> Guest'.rflags, cr3 |-> Guest'.cr3, virtualized |-> TRUE]
         /\ Guest = [regs |-> Guest.regs, rsp |-> Guest.rsp, rip |-> Guest.rip,
                     rflags |-> Guest.rflags, cr3 |-> Guest.cr3, virtualized |-> TRUE]
<1>1. /\ stage = "resume" /\ stage' = "guest" /\ before' = before
      /\ cpu' = [regs |-> PoppedRegs(Pops), rsp |-> vmcs.rsp, rip |-> vmcs.rip,
                 rflags |-> vmcs.rflags, cr3 |-> vmcs.cr3]
  BY DEF VmxVmresume, Goto
<1>2. Guest = before /\ Guest' = Visible'
  BY <1>1 DEF Guest
<1>3. /\ Done /\ vmcs.rsp = before.rsp
      /\ vmcs.rip = IF insn.op = "fetch" THEN before.rip ELSE before.rip + 1
      /\ before.virtualized /\ before \in Sight /\ insn \in Instruction
  BY <1>1 DEF StepInv, DoneInv, ExitInv
<1>4. PoppedRegs(Pops) = [r \in GPR |-> Saved(r)]
  BY <1>1, Popped
<1>5. Visible' = [regs |-> cpu'.regs, rsp |-> cpu'.rsp, rip |-> cpu'.rip,
                  rflags |-> cpu'.rflags, cr3 |-> cpu'.cr3, virtualized |-> TRUE]
  BY <1>1 DEF Visible
<1>6. /\ before.virtualized = TRUE /\ before.regs \in [GPR -> Value]
      /\ before = [regs |-> before.regs, rsp |-> before.rsp, rip |-> before.rip,
                   rflags |-> before.rflags, cr3 |-> before.cr3, virtualized |-> TRUE]
  BY <1>3 DEF Sight
<1>7. /\ Visible'.regs = [r \in GPR |-> Saved(r)] /\ Visible'.rsp = before.rsp
      /\ Visible'.rip = IF insn.op = "fetch" THEN before.rip ELSE before.rip + 1
      /\ Visible'.rflags = vmcs.rflags /\ Visible'.cr3 = vmcs.cr3
      /\ Visible'.virtualized = TRUE
  BY <1>1, <1>3, <1>4, <1>5
<1>8. Visible' = [regs |-> Visible'.regs, rsp |-> Visible'.rsp, rip |-> Visible'.rip,
                  rflags |-> Visible'.rflags, cr3 |-> Visible'.cr3, virtualized |-> TRUE]
  BY <1>5
<1>. QED
  BY <1>1, <1>2, <1>3, <1>6, <1>7, <1>8

(* GuestCpu means the same instructions.                                   *)
LEMMA SameTerms ==
  /\ Cpu!GPR = GPR /\ Cpu!Instruction = Instruction
  /\ \A l, h : Cpu!Word(l, h) = Word(l, h)
  /\ \A n : Cpu!Number(n) = Number(n)
  /\ \A v : Cpu!WithoutBit63(v) = WithoutBit63(v)
  /\ \A i, regs : Cpu!Loaded(i, regs) = Loaded(i, regs)
  /\ \A i, regs, rsp : Cpu!Operand(i, regs, rsp) = Operand(i, regs, rsp)
  /\ \A leaf, out : /\ Cpu!CpuidOutput(leaf, out) = CpuidOutput(leaf, out)
                    /\ Cpu!HypervisorPresent(leaf, out) = HypervisorPresent(leaf, out)
<1>1. \A l, h : Cpu!Word(l, h) = Word(l, h)
  BY DEF Cpu!Word, Word
<1>2. Cpu!GPR = GPR
  BY DEF Cpu!GPR, GPR
<1>3. Cpu!Keep = Keep /\ \A n : Cpu!Number(n) = Number(n)
  BY <1>1 DEF Cpu!Keep, Keep, Cpu!Number, Number
<1>4. Cpu!Leaf = Leaf /\ Cpu!VmcallNumber = VmcallNumber
  BY <1>1 DEF Cpu!Leaf, Leaf, Cpu!VmcallNumber, VmcallNumber
<1>5. Cpu!Instruction = Instruction
  BY <1>1, <1>3, <1>4 DEF Cpu!Instruction, Instruction, Cpu!Insn, Insn
<1>6. \A i, regs : Cpu!Loaded(i, regs) = Loaded(i, regs)
  BY <1>3 DEF Cpu!Loaded, Loaded
<1>7. \A i, regs, rsp : Cpu!Operand(i, regs, rsp) = Operand(i, regs, rsp)
  BY <1>1, <1>6 DEF Cpu!Operand, Operand, Cpu!Address, Address
<1>8. \A v : Cpu!WithoutBit63(v) = WithoutBit63(v)
  BY DEF Cpu!WithoutBit63, WithoutBit63
<1>9. \A leaf, out : /\ Cpu!CpuidOutput(leaf, out) = CpuidOutput(leaf, out)
                     /\ Cpu!HypervisorPresent(leaf, out) = HypervisorPresent(leaf, out)
  BY DEF Cpu!CpuidOutput, CpuidOutput, Cpu!HypervisorPresent, HypervisorPresent
<1>. QED
  BY <1>1, <1>2, <1>3, <1>5, <1>6, <1>7, <1>8, <1>9

(* VMRESUME completes the instruction that exited: one step of GuestCpu,   *)
(* by the instruction.                                                     *)
LEMMA ResumeRefines ==
  ASSUME StepInv, VmxVmresume
  PROVE  [Cpu!Next]_Guest
<1>. DEFINE L == Loaded(insn, Guest.regs)
<1>0. /\ insn \in Instruction /\ Done /\ Found = L
      /\ Guest'.regs = [r \in GPR |-> Saved(r)] /\ Guest'.rsp = Guest.rsp
      /\ Guest'.rflags = vmcs.rflags /\ Guest'.cr3 = vmcs.cr3
      /\ Guest' .virtualized = Guest.virtualized /\ Guest.virtualized = TRUE
      /\ before.cr3 = Guest.cr3 /\ before.rflags = Guest.rflags
      /\ before.regs = Guest.regs /\ before.rsp = Guest.rsp
  BY Resumed DEF Found
<1>n. ASSUME \/ Cpu!Cpuid(insn) \/ Cpu!MovToCr3(insn) \/ Cpu!MovFromCr3(insn)
             \/ Cpu!Rdmsr(insn) \/ Cpu!Skipped(insn) \/ Cpu!VmxInstruction(insn)
             \/ Cpu!Vmcall(insn) \/ Cpu!Refetch(insn)
      PROVE  Cpu!Next
  <2>1. insn \in Cpu!Instruction
    BY <1>0, SameTerms
  <2>2. (IF stage \in {"guest", "native"} THEN Visible ELSE before).virtualized
    BY <1>0 DEF Guest
  <2>. QED
    BY <1>n, <2>1, <2>2 DEF Cpu!Next
<1>k. ASSUME NEW registers, Holds(registers)
      PROVE  \A r \in GPR \ registers : Guest'.regs[r] = L[r]
  BY <1>0, <1>k DEF Holds
<1>g. \A r \in GPR : Guest'.regs[r] = Saved(r)
  BY <1>0
<1>r. {"rax", "rbx", "rcx", "rdx"} \subseteq GPR
  BY DEF GPR
<1>. HIDE DEF L
<1>i. insn.op # "fetch" => Guest'.rip = Guest.rip + 1
  BY Resumed
<1>1. CASE insn.op = "cpuid"
  <2>1. Cpu!Completes(insn, {"rax", "rbx", "rcx", "rdx"}, {})
    <3>1. Holds({"rax", "rbx", "rcx", "rdx"}) /\ vmcs.cr3 = before.cr3
            /\ vmcs.rflags = before.rflags
      BY <1>0, <1>1 DEF Done, CpuidDone, MovDone, OtherDone
    <3>2. \A r \in GPR \ {"rax", "rbx", "rcx", "rdx"} : Guest'.regs[r] = Loaded(insn, Guest.regs)[r]
      BY <1>k, <3>1 DEF L
    <3>. QED
      BY <1>0, <1>1, <1>i, <3>1, <3>2, CompletesIf
  <2>2. \A out \in {"rax", "rbx", "rcx", "rdx"} :
          Guest'.regs[out].lo =
            IF insn.rax = Word(<<"leaf", "1">>, "zero") /\ out = "rcx"
            THEN HypervisorPresent(insn.rax, out)
            ELSE IF insn.rax = Word(<<"leaf", "interface">>, "zero") /\ out = "rax"
            THEN <<"HVFS">>
            ELSE CpuidOutput(insn.rax, out)
    BY <1>0, <1>1, <1>g, <1>r DEF Done, CpuidDone
  <2>3. Cpu!Cpuid(insn)
    BY <1>1, <2>1, <2>2, SameTerms DEF Cpu!Cpuid, Guest
  <2>. QED
    BY <1>n, <2>3
<1>2. CASE insn.op = "to cr3"
  <2>1. /\ Holds({}) /\ vmcs.cr3 = WithoutBit63(Operand(insn, Guest.regs, Guest.rsp))
        /\ vmcs.rflags = before.rflags
    BY <1>0, <1>2 DEF Done, MovDone, OtherDone
  <2>2. \A r \in GPR \ {} : Guest'.regs[r] = Loaded(insn, Guest.regs)[r]
    BY <1>k, <2>1 DEF L
  <2>3. Cpu!Completes(insn, {}, {"cr3"})
    BY <1>0, <1>2, <1>i, <2>1, <2>2, CompletesIf
  <2>4. Guest'.cr3 = Cpu!WithoutBit63(Cpu!Operand(insn, Guest.regs, Guest.rsp))
    BY <1>0, <2>1, SameTerms
  <2>5. Cpu!MovToCr3(insn)
    BY <1>2, <2>3, <2>4 DEF Cpu!MovToCr3, Guest
  <2>. QED
    BY <1>n, <2>5
<1>3. CASE insn.op = "from cr3"
  <2>1. /\ Holds({insn.reg}) /\ Saved(insn.reg) = Guest.cr3 /\ insn.reg \in GPR
        /\ vmcs.rflags = before.rflags /\ vmcs.cr3 = before.cr3
    BY <1>0, <1>3, Instructions DEF Done, MovDone, OtherDone
  <2>2. \A r \in GPR \ {insn.reg} : Guest'.regs[r] = Loaded(insn, Guest.regs)[r]
    BY <1>k, <2>1 DEF L
  <2>3. Cpu!Completes(insn, {insn.reg}, {})
    BY <1>0, <1>3, <1>i, <2>1, <2>2, CompletesIf
  <2>4. Guest'.regs[insn.reg] = Guest.cr3
    BY <1>g, <2>1
  <2>5. Cpu!MovFromCr3(insn)
    BY <1>3, <2>3, <2>4 DEF Cpu!MovFromCr3, Guest
  <2>. QED
    BY <1>n, <2>5
<1>4. CASE insn.op = "rdmsr"
  <2>1. /\ Holds({"rax", "rdx"})
        /\ Saved("rax") = Word(<<"0">>, "zero") /\ Saved("rdx") = Word(<<"0">>, "zero")
        /\ vmcs.rflags = before.rflags /\ vmcs.cr3 = before.cr3
    BY <1>0, <1>4 DEF Done, RdmsrDone, MovDone, OtherDone
  <2>2. \A r \in GPR \ {"rax", "rdx"} : Guest'.regs[r] = Loaded(insn, Guest.regs)[r]
    BY <1>k, <2>1 DEF L
  <2>3. Cpu!Completes(insn, {"rax", "rdx"}, {})
    BY <1>0, <1>4, <1>i, <2>1, <2>2, CompletesIf
  <2>4. \A r \in {"rax", "rdx"} : Guest'.regs[r] = Cpu!Word(<<"0">>, "zero")
    BY <1>g, <1>r, <2>1, SameTerms
  <2>5. Cpu!Rdmsr(insn)
    BY <1>4, <2>3, <2>4 DEF Cpu!Rdmsr, Guest
  <2>. QED
    BY <1>n, <2>5
<1>5. CASE insn.op \in {"wrmsr", "other"}
  <2>1. Holds({}) /\ vmcs.rflags = before.rflags /\ vmcs.cr3 = before.cr3
    BY <1>0, <1>5 DEF Done, MovDone, OtherDone
  <2>2. \A r \in GPR \ {} : Guest'.regs[r] = Loaded(insn, Guest.regs)[r]
    BY <1>k, <2>1 DEF L
  <2>3. Cpu!Completes(insn, {}, {})
    BY <1>0, <1>5, <1>i, <2>1, <2>2, CompletesIf
  <2>4. Cpu!Skipped(insn)
    BY <1>5, <2>3 DEF Cpu!Skipped
  <2>. QED
    BY <1>n, <2>4
<1>6. CASE insn.op = "vmx"
  <2>1. /\ Holds({}) /\ vmcs.rflags = before.rflags \cup {"CF"}
        /\ vmcs.cr3 = before.cr3
    BY <1>0, <1>6 DEF Done, MovDone, OtherDone
  <2>2. \A r \in GPR \ {} : Guest'.regs[r] = Loaded(insn, Guest.regs)[r]
    BY <1>k, <2>1 DEF L
  <2>3. Cpu!Completes(insn, {}, {"rflags"})
    BY <1>0, <1>6, <1>i, <2>1, <2>2, CompletesIf
  <2>4. Guest'.rflags = Guest.rflags \cup {"CF"}
    BY <1>0, <2>1
  <2>5. Cpu!VmxInstruction(insn)
    BY <1>6, <2>3, <2>4 DEF Cpu!VmxInstruction, Guest
  <2>. QED
    BY <1>n, <2>5
<1>7. CASE insn.op = "vmcall"
  <2>1. Holds({"rax"}) /\ vmcs.rflags = before.rflags /\ vmcs.cr3 = before.cr3
    BY <1>0, <1>7 DEF Done, MovDone, OtherDone
  <2>2. \A r \in GPR \ {"rax"} : Guest'.regs[r] = Loaded(insn, Guest.regs)[r]
    BY <1>k, <2>1 DEF L
  <2>3. Cpu!Completes(insn, {"rax"}, {})
    BY <1>0, <1>7, <1>i, <2>1, <2>2, CompletesIf
  <2>4. insn.rcx # Cpu!Number("VMCALL_VMXOFF")
    <3>1. ~Leaves
      BY Resumed DEF StepInv, DoneInv
    <3>. QED
      BY <1>7, <3>1, SameTerms DEF Leaves
  <2>5. Cpu!Vmcall(insn)
    BY <1>7, <2>3, <2>4 DEF Cpu!Vmcall
  <2>. QED
    BY <1>n, <2>5
<1>8. CASE insn.op = "fetch"
  <2>1. Holds({}) /\ vmcs.rflags = before.rflags /\ vmcs.cr3 = before.cr3
    BY <1>0, <1>8 DEF Done, MovDone, OtherDone
  <2>2. L = Guest.regs /\ Guest.regs \in [GPR -> Value]
    BY <1>0, <1>8, Instructions, LoadedValues, Resumed DEF L
  <2>3. Guest'.regs = Guest.regs
    BY <1>0, <1>k, <2>1, <2>2
  <2>4. Guest'.rip = Guest.rip
    BY <1>8, Resumed
  <2>5. Guest' = Guest
    BY <1>0, <2>1, <2>3, <2>4, Resumed
  <2>. QED
    BY <2>5
<1>. QED
  BY <1>0, <1>1, <1>2, <1>3, <1>4, <1>5, <1>6, <1>7, <1>8, Instructions

(* What changes for that caller, field by field.                           *)
LEMMA BehindCall ==
  ASSUME NEW b \in Sight, NEW v \in BOOLEAN
  PROVE  [b EXCEPT !.rip = b.rip + 1, !.virtualized = v]
           = [regs |-> b.regs, rsp |-> b.rsp, rip |-> b.rip + 1, rflags |-> b.rflags,
              cr3 |-> b.cr3, virtualized |-> v]
<1> DEFINE n == b.rip + 1
           one == [b EXCEPT !.rip = n]
<1>n. n \in Nat
  BY DEF Sight
<1> HIDE DEF n
<1>1. one = [regs |-> b.regs, rsp |-> b.rsp, rip |-> n, rflags |-> b.rflags,
             cr3 |-> b.cr3, virtualized |-> b.virtualized] /\ one \in Sight
  BY <1>n, SMT DEF Sight
<1>2. [b EXCEPT !.rip = n, !.virtualized = v] = [one EXCEPT !.virtualized = v]
  BY <1>n, SMT DEF Sight
<1> HIDE DEF one
<1>3. [one EXCEPT !.virtualized = v]
        = [regs |-> one.regs, rsp |-> one.rsp, rip |-> one.rip, rflags |-> one.rflags,
              cr3 |-> one.cr3, virtualized |-> v]
  BY <1>1, SMT DEF Sight
<1>. QED
  BY <1>1, <1>2, <1>3, SMT DEF n

(* The caller of AsmVmxSaveState goes on behind its call.                  *)
LEMMA LaunchRefines ==
  ASSUME StepInv, AsmVmxRestoreState
  PROVE  [Cpu!Next]_Guest
<1>1. /\ stage \in {"restore", "restore in guest"} /\ stage' \in {"native", "guest"}
      /\ before' = before
  BY DEF AsmVmxRestoreState, Goto
<1>2. before.virtualized = FALSE /\ before \in Sight
  BY <1>1 DEF StepInv, LaunchInv, Sight
<1>3. /\ (IF stage \in {"guest", "native"} THEN Visible ELSE before) = before
      /\ (IF stage \in {"guest", "native"} THEN Visible ELSE before)' = Visible'
  BY <1>1
<1>v. PICK v \in BOOLEAN : v = (stage' = "guest")
  OBVIOUS
<1>4. Visible' = [regs |-> before.regs, rsp |-> before.rsp, rip |-> before.rip + 1,
                  rflags |-> before.rflags, cr3 |-> before.cr3, virtualized |-> v]
  BY <1>v, Restored DEF Visible
<1>5. Visible' = [before EXCEPT !.rip = before.rip + 1, !.virtualized = v]
  BY <1>2, <1>4, BehindCall
<1>6. Cpu!Launch
  BY <1>2, <1>3, <1>5 DEF Cpu!Launch
<1>. QED
  BY <1>6 DEF Cpu!Next

(* The caller of VMCALL_VMXOFF goes on behind it, outside the guest.       *)
LEMMA ReturnRefines ==
  ASSUME StepInv, RestoreState
  PROVE  [Cpu!Next]_Guest
<1>1. stage = "return" /\ stage' = "native" /\ before' = before
  BY DEF RestoreState, Goto
<1>2. /\ before.virtualized /\ insn \in Instruction /\ Leaves /\ Done
  BY <1>1 DEF StepInv, ExitInv, DoneInv
<1>3. Guest = before /\ Guest' = Visible'
  BY <1>1 DEF Guest
<1>4. Visible' = [regs |-> cpu'.regs, rsp |-> cpu'.rsp, rip |-> cpu'.rip,
                  rflags |-> cpu'.rflags, cr3 |-> cpu'.cr3, virtualized |-> FALSE]
  BY <1>1 DEF Visible
<1>5. /\ Guest'.regs = [r \in GPR |-> Saved(r)] /\ Guest'.rsp = Guest.rsp
      /\ Guest'.rip = Guest.rip + 1 /\ Guest'.cr3 = Guest.cr3
      /\ Guest'.virtualized = FALSE
  BY <1>3, <1>4, Returned
<1>6. Holds({"rax"}) /\ Found = Loaded(insn, Guest.regs)
  BY <1>2, <1>3 DEF Done, OtherDone, Leaves, Found
<1>7. \A r \in GPR \ {"rax"} : Guest'.regs[r] = Loaded(insn, Guest.regs)[r]
  BY <1>5, <1>6 DEF Holds
<1>8. Cpu!Completes(insn, {"rax"}, {"rflags", "virtualized"})
  BY <1>5, <1>7, CompletesIf
<1>9. Cpu!Vmxoff(insn)
  BY <1>2, <1>5, <1>8, SameTerms DEF Cpu!Vmxoff, Leaves, Guest
<1>10. (IF stage \in {"guest", "native"} THEN Visible ELSE before).virtualized
  BY <1>2, <1>3 DEF Guest
<1>. QED
  BY <1>2, <1>9, <1>10, SameTerms DEF Cpu!Next

(* Every other step is invisible.                                          *)
LEMMA RefinesStep == StepInv /\ [Next]_vars => [Cpu!Next]_Guest
<1>. SUFFICES ASSUME StepInv, [Next]_vars PROVE [Cpu!Next]_Guest
  OBVIOUS
<1>1. CASE UNCHANGED vars
  BY <1>1 DEF vars, Guest, Visible
<1>2. CASE AsmVmxSaveState
  BY <1>2 DEF AsmVmxSaveState, Goto, Guest
<1>3. CASE VmxVirtualizeCurrentSystem
  BY <1>3 DEF VmxVirtualizeCurrentSystem, Goto, Guest
<1>4. ASSUME NEW i \in Instruction, Exit(i) PROVE [Cpu!Next]_Guest
  BY <1>4 DEF Exit, Goto, Guest
<1>5. CASE AsmVmexitHandler
  BY <1>5 DEF AsmVmexitHandler, Goto, Guest
<1>6. CASE VmxVmexitHandler
  <2>1. stage = "handler" /\ stage' = "handled" /\ before' = before
    BY <1>6 DEF VmxVmexitHandler, HvHandleCpuid, HvHandleControlRegisterAccess,
       HvHandleMsrRead, HvHandleMsrWriteOrUnknown, EptHandlePageHookExit, VmxInstruction,
       VmxVmcallHandler, VmxVmxoff, Handles, Goto
  <2>. QED
    BY <2>1 DEF Guest
<1>7. CASE HvResumeToNextInstruction
  <2>1. stage = "handled" /\ stage' \in {"vmxoff", "resume"} /\ before' = before
    BY <1>7 DEF HvResumeToNextInstruction, Goto
  <2>. QED
    BY <2>1 DEF Guest
<1>8. CASE AsmVmxoffHandler
  BY <1>8 DEF AsmVmxoffHandler, Goto, Guest
<1>. QED
  BY <1>1, <1>2, <1>3, <1>4, <1>5, <1>6, <1>7, <1>8, LaunchRefines, ResumeRefines,
     ReturnRefines DEF Next

(* The hypervisor is what GuestCpu promises: between its last instruction  *)
(* and its next, the guest sees the one step that GuestCpu allows, whatever*)
(* the registers, the leaf, the CPUID results or the number of exits; and  *)
(* neither the launch nor VMXOFF is visible to the code that asks for it,  *)
(* but for the flags.                                                      *)
THEOREM RefinesGuestCpu == Spec => ImplementsGuestCpu
<1>1. Init => Cpu!Init
  <2>. SUFFICES ASSUME Init PROVE Cpu!Init
    OBVIOUS
  <2>1. (IF stage \in {"guest", "native"} THEN Visible ELSE before) = Visible
    BY DEF Init
  <2>2. Visible.regs = [r \in GPR |-> Own(r)] /\ Visible.virtualized = FALSE
    BY DEF Init, Visible
  <2>3. [r \in GPR |-> Own(r)] = [r \in Cpu!GPR |-> Cpu!Own(r)]
    BY SameTerms DEF Cpu!Own, Own
  <2>. QED
    BY <2>1, <2>2, <2>3 DEF Cpu!Init
<1>. QED
  BY <1>1, StepInit, StepInvStep, RefinesStep, PTL DEF Spec, ImplementsGuestCpu, Cpu!Spec, Guest
==========================================================================
