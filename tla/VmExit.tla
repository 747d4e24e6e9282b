------------------------------ MODULE VmExit ------------------------------
(***************************************************************************)
(* One core entering and leaving its guest: AsmVmxSaveState and            *)
(* AsmVmxRestoreState around VMLAUNCH, AsmVmexitHandler around             *)
(* VmxVmexitHandler on every exit, and AsmVmxoffHandler on the last one.   *)
(* Stacks are sequences of 8-byte slots, top first; stack pointers count   *)
(* slots.                                                                  *)
(***************************************************************************)
EXTENDS GuestInstructions, Sequences

CONSTANTS
  Negative,  \* <<leaf, register>> of CPUID outputs that have bit 31 set
  MaxExits   \* bound: exits and launches in a behaviour

ASSUME NegativeAssumption == Negative \subseteq STRING \X STRING
ASSUME MaxExitsAssumption == MaxExits \in Nat

VARIABLES
  stage,     \* where the core is: its guest, native code, or a step of ours
  cpu,       \* the processor's registers
  vmx,       \* the core is in VMX operation
  vmcs,      \* the guest-state area
  state,     \* GuestState[core]
  frame,     \* the registers pushed by AsmVmexitHandler or AsmVmxSaveState
  below,     \* the slots of the guest's stack, up to its stack pointer
  insn,      \* the instruction that exited
  exits,     \* exits and launches so far
  before     \* history: what the guest saw when it left

vars == <<stage, cpu, vmx, vmcs, state, frame, below, insn, exits, before>>

StackTop == 1

HostRsp == 0
HostRip == 0
HostCr3 == Word(<<"InitiateCr3">>, "zero")
Clobbered == [r \in GPR |-> Word(<<"host">>, "other")]

Zeroed == [IsOnVmxRootMode |-> FALSE, IncrementRip |-> FALSE,
           IsVmxoffExecuted |-> FALSE, GuestRip |-> 0, GuestRsp |-> 0]

(* What the code that runs on this core sees.                              *)
Visible == [regs |-> cpu.regs, rsp |-> cpu.rsp, rip |-> cpu.rip,
            rflags |-> cpu.rflags, cr3 |-> cpu.cr3, virtualized |-> stage = "guest"]

Init ==
  /\ stage = "native" /\ vmx = FALSE /\ exits = 0
  /\ cpu = [regs |-> [r \in GPR |-> Own(r)], rsp |-> StackTop, rip |-> 0,
            rflags |-> {"IF"}, cr3 |-> Word(<<"cr3">>, "zero")]
  /\ vmcs = [rsp |-> 0, rip |-> 0, rflags |-> {}, cr3 |-> HostCr3]
  /\ state = Zeroed
  /\ frame = <<>> /\ below = [address \in 0..StackTop |-> 0]
  /\ insn = Insn("other", "rax", Keep, Keep)
  /\ before = Visible

Goto(next) == stage' = next

--------------------------------------------------------------------------
(* The assembly frames                                                     *)

(* The struct that VmxVmexitHandler finds at the top of the stack.         *)
GUEST_REGS == <<"rax", "rcx", "rdx", "rbx", "rsp", "rbp", "rsi", "rdi",
                "r8", "r9", "r10", "r11", "r12", "r13", "r14", "r15">>

Pushes == <<"0", "rflags", "r15", "r14", "r13", "r12", "r11", "r10", "r9", "r8",
            "rdi", "rsi", "rbp", "rbp", "rbx", "rdx", "rcx", "rax">>

(* Mutant: the slot kept for RSP is popped once too little.                *)
PopsOneRbp == <<"rax", "rcx", "rdx", "rbx", "rbp", "rsi", "rdi",
                "r8", "r9", "r10", "r11", "r12", "r13", "r14", "r15", "rflags">>

Pops == <<"rax", "rcx", "rdx", "rbx", "rbp", "rbp", "rsi", "rdi",
          "r8", "r9", "r10", "r11", "r12", "r13", "r14", "r15", "rflags">>

Saves == <<"rflags", "rax", "rcx", "rdx", "rbx", "rbp", "rsi", "rdi",
           "r8", "r9", "r10", "r11", "r12", "r13", "r14", "r15">>

Restores == <<"r15", "r14", "r13", "r12", "r11", "r10", "r9", "r8",
              "rdi", "rsi", "rbp", "rbx", "rdx", "rcx", "rax", "rflags">>

(* The stack after the pushes of order, with the processor's registers.    *)
Pushed(order) ==
  LET Value(n) == IF n = "0" THEN 0 ELSE IF n = "rflags" THEN cpu.rflags ELSE cpu.regs[n]
  IN  [k \in 1..Len(order) |-> Value(order[Len(order) + 1 - k])]

(* The slot that the last pop into n reads.                                *)
PoppedSlot(order, n) ==
  CHOOSE k \in 1..Len(order) : order[k] = n /\ \A j \in (k+1)..Len(order) : order[j] # n

PoppedRegs(order) == [r \in GPR |-> frame[PoppedSlot(order, r)]]
PoppedFlags(order) == frame[PoppedSlot(order, "rflags")]

(* GuestRegs->r, and the frame with another value in it.                   *)
Slot(r) == CHOOSE k \in 1..Len(GUEST_REGS) : GUEST_REGS[k] = r
GuestRegs(r) == frame[Slot(r)]
Set(f, r, value) == [f EXCEPT ![Slot(r)] = value]

(* [rsp+088h] in AsmVmxoffHandler.                                         *)
VmxoffSlot == 136 \div 8 + 1

--------------------------------------------------------------------------
(* Launching the guest                                                     *)

(* Mutant: GuestState is that of the last open.                            *)
SaveStateNotZeroed ==
  /\ stage = "native" /\ ~vmx /\ exits < MaxExits
  /\ Goto("launch") /\ exits' = exits + 1
  /\ vmx' = TRUE /\ UNCHANGED state
  /\ frame' = Pushed(Saves) /\ before' = Visible
  /\ UNCHANGED <<cpu, vmcs, below, insn>>

(* A new open has zeroed GuestState and executed VMXON; the launch DPC     *)
(* calls AsmVmxSaveState.                                                  *)
AsmVmxSaveState ==
  /\ stage = "native" /\ ~vmx /\ exits < MaxExits
  /\ Goto("launch") /\ exits' = exits + 1
  /\ vmx' = TRUE /\ state' = Zeroed
  /\ frame' = Pushed(Saves) /\ before' = Visible
  /\ UNCHANGED <<cpu, vmcs, below, insn>>

(* VMLAUNCH starts the guest at AsmVmxRestoreState with the flags of       *)
(* VmxSetupVmcs; a VMCLEAR that failed has turned VMX off, a VMPTRLD has   *)
(* not, and AsmVmxSaveState jumps there itself.                            *)
VmxVirtualizeCurrentSystem ==
  /\ stage = "launch"
  /\ \/ Goto("restore in guest") /\ UNCHANGED vmx
     \/ Goto("restore") /\ vmx' \in BOOLEAN
  /\ \E carry \in SUBSET {"CF"} :
       cpu' = [cpu EXCEPT !.regs = Clobbered, !.rflags = {"IF"} \cup carry]
  /\ vmcs' = [vmcs EXCEPT !.cr3 = cpu.cr3, !.rflags = cpu'.rflags]
  /\ UNCHANGED <<state, frame, below, insn, exits, before>>

AsmVmxRestoreState ==
  /\ \/ stage = "restore" /\ Goto("native")
     \/ stage = "restore in guest" /\ Goto("guest")
  /\ cpu' = [cpu EXCEPT !.regs = PoppedRegs(Restores), !.rflags = PoppedFlags(Restores),
                        !.rip = @ + 1]
  /\ UNCHANGED <<vmx, vmcs, state, frame, below, insn, exits, before>>

--------------------------------------------------------------------------
(* A VM exit                                                               *)

(* The processor saves RIP, RSP, RFLAGS and CR3 and loads the host's; the  *)
(* flags of the host are clear.                                            *)
Exit(i) ==
  /\ stage = "guest" /\ exits < MaxExits
  /\ Goto("exit") /\ exits' = exits + 1 /\ insn' = i /\ before' = Visible
  /\ vmcs' = [rsp |-> cpu.rsp, rip |-> cpu.rip, rflags |-> cpu.rflags, cr3 |-> cpu.cr3]
  /\ cpu' = [regs |-> Loaded(i, cpu.regs), rsp |-> HostRsp, rip |-> HostRip,
             rflags |-> {}, cr3 |-> HostCr3]
  /\ UNCHANGED <<vmx, state, frame, below>>

AsmVmexitHandler ==
  /\ stage = "exit" /\ Goto("handler")
  /\ frame' = Pushed(Pushes)
  /\ UNCHANGED <<cpu, vmx, vmcs, state, below, insn, exits, before>>

Entered == [state EXCEPT !.IsOnVmxRootMode = TRUE, !.IncrementRip = TRUE]

(* What every case of VmxVmexitHandler has in common.                      *)
Handles(op) ==
  /\ stage = "handler" /\ insn.op = op /\ Goto("handled")
  /\ UNCHANGED <<below, insn, exits, before>>

(* A case that only writes to the saved registers.                         *)
Writes(newFrame) ==
  /\ frame' = newFrame
  /\ state' = Entered /\ cpu' = [cpu EXCEPT !.regs = Clobbered]
  /\ UNCHANGED <<vmx, vmcs>>

(* The four INT32 results of __cpuidex are sign-extended into the frame.   *)
HvHandleCpuid ==
  LET leaf == GuestRegs("rax")
      Output(out) ==
        IF leaf = Word(<<"leaf", "1">>, "zero") /\ out = "rcx"
        THEN Word(HypervisorPresent(leaf, out), "ones")
        ELSE IF leaf = Word(<<"leaf", "interface">>, "zero") /\ out = "rax"
        THEN Word(<<"HVFS">>, "zero")
        ELSE Word(CpuidOutput(leaf, out),
                  IF <<leaf.lo[2], out>> \in Negative THEN "ones" ELSE "zero")
  IN  /\ Handles("cpuid")
      /\ Writes(Set(Set(Set(Set(frame, "rax", Output("rax")), "rbx", Output("rbx")),
                        "rcx", Output("rcx")), "rdx", Output("rdx")))

(* MOV to and from CR3 on a slot of the frame; the slot of RSP, which does *)
(* not hold it, is given the guest's stack pointer first.                  *)
HvHandleControlRegisterAccess ==
  LET f == IF insn.reg = "rsp" THEN Set(frame, "rsp", Address(vmcs.rsp)) ELSE frame
  IN  \/ /\ Handles("to cr3")
         /\ vmcs' = [vmcs EXCEPT !.cr3 = WithoutBit63(f[Slot(insn.reg)])]
         /\ frame' = f
         /\ state' = Entered /\ cpu' = [cpu EXCEPT !.regs = Clobbered]
         /\ UNCHANGED vmx
      \/ /\ Handles("from cr3")
         /\ Writes(Set(f, insn.reg, vmcs.cr3))

HvHandleMsrRead ==
  /\ Handles("rdmsr")
  /\ Writes(LET content == Word(IF GuestRegs("rcx").lo = <<"msr", "outside">>
                                THEN <<"0">> ELSE GuestRegs("rcx").lo, "zero")
            IN  Set(Set(frame, "rax", content), "rdx", content))

(* HvHandleMsrWrite refuses an MSR outside the ranges; the default case    *)
(* has nothing to do.                                                      *)
HvHandleMsrWriteOrUnknown == (Handles("wrmsr") \/ Handles("other")) /\ Writes(frame)

(* The fetch of a hooked page (EptHook): redo the instruction.             *)
EptHandlePageHookExit ==
  /\ Handles("fetch")
  /\ state' = [Entered EXCEPT !.IncrementRip = FALSE]
  /\ cpu' = [cpu EXCEPT !.regs = Clobbered]
  /\ UNCHANGED <<vmx, vmcs, frame>>

(* Mutant: the wrong flag is raised.                                       *)
VmxInstructionSetsZF ==
  /\ Handles("vmx")
  /\ vmcs' = [vmcs EXCEPT !.rflags = @ \cup {"ZF"}]
  /\ state' = Entered /\ cpu' = [cpu EXCEPT !.regs = Clobbered]
  /\ UNCHANGED <<vmx, frame>>

VmxInstruction ==
  /\ Handles("vmx")
  /\ vmcs' = [vmcs EXCEPT !.rflags = @ \cup {"CF"}]
  /\ state' = Entered /\ cpu' = [cpu EXCEPT !.regs = Clobbered]
  /\ UNCHANGED <<vmx, frame>>

(* NTSTATUS is a signed 32-bit number, stored into RAX as a 64-bit one.    *)
Success == Word(<<"STATUS_SUCCESS">>, "zero")
Unsuccessful == Word(<<"STATUS_UNSUCCESSFUL">>, "ones")

VmxVmcallHandler ==
  LET Status == CASE GuestRegs("rcx") = Number("unsupported") -> {Unsuccessful}
                  [] GuestRegs("rcx") = Number("VMCALL_EXEC_HOOK_PAGE") -> {Success, Unsuccessful}
                  [] OTHER -> {Success}
  IN  /\ Handles("vmcall") /\ GuestRegs("rcx") # Number("VMCALL_VMXOFF")
      /\ \E status \in Status : Writes(Set(frame, "rax", status))

(* VMCALL_VMXOFF: back to the guest's CR3, remember where it goes on,      *)
(* raise the flag, VMXOFF.                                                 *)
VmxVmxoff ==
  /\ Handles("vmcall") /\ GuestRegs("rcx") = Number("VMCALL_VMXOFF")
  /\ frame' = Set(frame, "rax", Success)
  /\ cpu' = [cpu EXCEPT !.regs = Clobbered, !.cr3 = vmcs.cr3]
  /\ state' = [Entered EXCEPT !.GuestRip = vmcs.rip + 1, !.GuestRsp = vmcs.rsp,
                              !.IsVmxoffExecuted = TRUE]
  /\ vmx' = FALSE /\ UNCHANGED vmcs

VmxVmexitHandler ==
  \/ HvHandleCpuid \/ HvHandleControlRegisterAccess \/ HvHandleMsrRead
  \/ HvHandleMsrWriteOrUnknown \/ EptHandlePageHookExit \/ VmxInstruction
  \/ VmxVmcallHandler \/ VmxVmxoff

(* The end of VmxVmexitHandler; its result selects the way out.            *)
HvResumeToNextInstruction ==
  /\ stage = "handled"
  /\ vmcs' = IF ~state.IsVmxoffExecuted /\ state.IncrementRip
             THEN [vmcs EXCEPT !.rip = @ + 1] ELSE vmcs
  /\ state' = [state EXCEPT !.IsOnVmxRootMode = FALSE]
  /\ Goto(IF state.IsVmxoffExecuted THEN "vmxoff" ELSE "resume")
  /\ UNCHANGED <<cpu, vmx, frame, below, insn, exits, before>>

(* The pops of AsmVmexitHandler and VMRESUME.                              *)
VmxVmresume ==
  /\ stage = "resume" /\ Goto("guest")
  /\ cpu' = [regs |-> PoppedRegs(Pops), rsp |-> vmcs.rsp, rip |-> vmcs.rip,
             rflags |-> vmcs.rflags, cr3 |-> vmcs.cr3]
  /\ UNCHANGED <<vmx, vmcs, state, frame, below, insn, exits, before>>

(* The return address goes onto the guest's stack and the guest's stack    *)
(* pointer, one slot lower, into the slot that push 0 has reserved.        *)
AsmVmxoffHandler ==
  /\ stage = "vmxoff" /\ Goto("return")
  /\ below' = [below EXCEPT ![state.GuestRsp - 1] = state.GuestRip]
  /\ frame' = [frame EXCEPT ![VmxoffSlot] = state.GuestRsp - 1]
  /\ UNCHANGED <<cpu, vmx, vmcs, state, insn, exits, before>>

(* The pops of AsmVmxoffHandler, pop rsp and ret.                          *)
RestoreState ==
  LET order == Pops \o <<"rsp">>
      rsp   == frame[PoppedSlot(order, "rsp")]
  IN  /\ stage = "return" /\ Goto("native")
      /\ cpu' = [cpu EXCEPT !.regs = PoppedRegs(order), !.rflags = PoppedFlags(order),
                            !.rsp = rsp + 1, !.rip = below[rsp]]
      /\ UNCHANGED <<vmx, vmcs, state, frame, below, insn, exits, before>>

Next ==
  \/ AsmVmxSaveState \/ VmxVirtualizeCurrentSystem \/ AsmVmxRestoreState
  \/ \E i \in Instruction : Exit(i)
  \/ AsmVmexitHandler \/ VmxVmexitHandler \/ HvResumeToNextInstruction
  \/ VmxVmresume \/ AsmVmxoffHandler \/ RestoreState

Spec == Init /\ [][Next]_vars

(* The core executes.                                                      *)
FairSpec == Spec /\ WF_vars(Next)

--------------------------------------------------------------------------
(* Properties                                                              *)

Low == {<<r>> : r \in {"0", "keep", "InitiateCr3", "cr3", "host", "HVFS", "pcid",
                       "STATUS_SUCCESS", "STATUS_UNSUCCESSFUL"}}
         \cup ({"register"} \X GPR) \cup ({"leaf"} \X {"1", "interface", "other"})
         \cup ({"number"} \X VmcallNumber) \cup ({"msr"} \X {"outside"})
         \cup ({"stack"} \X Nat)
         \cup ({"cpuid"} \X {"1", "interface", "other"} \X GPR)
         \cup ({"cpuid"} \X {"1", "interface", "other"} \X GPR \X {"hypervisor"})

Value == [lo : Low, hi : High]

(* Type invariant.                                                         *)
TypeOK ==
  /\ stage \in {"native", "launch", "restore", "restore in guest", "guest", "exit",
               "handler", "handled", "resume", "vmxoff", "return"}
  /\ cpu \in [regs : [GPR -> Value], rsp : Nat, rip : Nat,
              rflags : SUBSET {"IF", "CF"}, cr3 : Value]
  /\ vmx \in BOOLEAN
  /\ vmcs \in [rsp : Nat, rip : Nat, rflags : SUBSET {"IF", "CF"}, cr3 : Value]
  /\ state \in [IsOnVmxRootMode : BOOLEAN, IncrementRip : BOOLEAN,
                IsVmxoffExecuted : BOOLEAN, GuestRip : Nat, GuestRsp : Nat]
  /\ below \in [0..StackTop -> Nat]
  /\ exits \in Nat

(* VMRESUME and every other step back into a guest are executed in VMX     *)
(* operation, the VMXOFF path outside it: IsVmxoffExecuted, which selects  *)
(* the path and is never lowered, agrees with the processor on every exit. *)
ResumeOnlyInVmx ==
  /\ stage \in {"restore in guest", "guest", "exit", "handler", "resume"} => vmx
  /\ stage \in {"vmxoff", "return"} => ~vmx

(* The hypervisor is what GuestCpu promises: between its last instruction  *)
(* and its next the guest, or the caller of AsmVmxSaveState and of         *)
(* VMCALL_VMXOFF, sees one step.                                           *)
Cpu == INSTANCE GuestCpu WITH
         guest <- IF stage \in {"guest", "native"} THEN Visible ELSE before

ImplementsGuestCpu == Cpu!Spec

(* "return to previous guest state" (VmxRoutines.c:385): after VMXOFF the  *)
(* caller goes on with the flags it had, interrupts enabled.               *)
VmxoffKeepsFlags ==
  [][stage = "return" => cpu'.rflags = before.rflags]_vars
==========================================================================
