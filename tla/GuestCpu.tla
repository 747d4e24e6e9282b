----------------------------- MODULE GuestCpu -----------------------------
(***************************************************************************)
(* What the hypervisor promises to the guest of one core: an instruction   *)
(* that exits is one step, which changes what the instruction is about and *)
(* nothing else; launching the guest and VMXOFF are invisible to the code  *)
(* that asks for them.                                                     *)
(***************************************************************************)
EXTENDS GuestInstructions

VARIABLE guest  \* what code on this core sees of its processor

Init ==
  /\ guest.regs = [r \in GPR |-> Own(r)]
  /\ ~guest.virtualized

(* Instruction i leaves these registers and these fields other than as the *)
(* loads of its operands left them, and the guest goes on behind it.       *)
Completes(i, registers, fields) ==
  /\ guest'.rip = guest.rip + 1 /\ guest'.rsp = guest.rsp
  /\ \A r \in GPR \ registers : guest'.regs[r] = Loaded(i, guest.regs)[r]
  /\ \A f \in {"rflags", "cr3", "virtualized"} \ fields : guest'[f] = guest[f]

(* Leaf 1 reports a hypervisor and the interface leaf names it, if the     *)
(* high half of RAX is clear; all else is what the processor says.         *)
Cpuid(i) ==
  /\ i.op = "cpuid"
  /\ Completes(i, {"rax", "rbx", "rcx", "rdx"}, {})
  /\ \A out \in {"rax", "rbx", "rcx", "rdx"} :
       guest'.regs[out].lo =
         IF i.rax = Word(<<"leaf", "1">>, "zero") /\ out = "rcx"
         THEN HypervisorPresent(i.rax, out)
         ELSE IF i.rax = Word(<<"leaf", "interface">>, "zero") /\ out = "rax"
         THEN <<"HVFS">>
         ELSE CpuidOutput(i.rax, out)

MovToCr3(i) ==
  /\ i.op = "to cr3"
  /\ Completes(i, {}, {"cr3"})
  /\ guest'.cr3 = WithoutBit63(Operand(i, guest.regs, guest.rsp))

MovFromCr3(i) ==
  /\ i.op = "from cr3"
  /\ Completes(i, {i.reg}, {})
  /\ guest'.regs[i.reg] = guest.cr3

(* An MSR the hypervisor does not know reads as zero, where the processor  *)
(* would raise #GP, and what is written to it is lost.                     *)
Rdmsr(i) ==
  /\ i.op = "rdmsr"
  /\ Completes(i, {"rax", "rdx"}, {})
  /\ \A r \in {"rax", "rdx"} : guest'.regs[r] = Word(<<"0">>, "zero")

(* These do nothing at all, not even what the processor would do.          *)
Skipped(i) == i.op \in {"wrmsr", "other"} /\ Completes(i, {}, {})

(* A VMX instruction tells the guest that it failed.                       *)
VmxInstruction(i) ==
  /\ i.op = "vmx"
  /\ Completes(i, {}, {"rflags"})
  /\ guest'.rflags = guest.rflags \cup {"CF"}

Vmcall(i) ==
  /\ i.op = "vmcall" /\ i.rcx # Number("VMCALL_VMXOFF")
  /\ Completes(i, {"rax"}, {})

(* After VMXOFF the caller goes on behind its VMCALL, but for its flags.   *)
Vmxoff(i) ==
  /\ i.op = "vmcall" /\ i.rcx = Number("VMCALL_VMXOFF")
  /\ Completes(i, {"rax"}, {"rflags", "virtualized"})
  /\ ~guest'.virtualized

(* A hooked page is made executable and the fetch is tried again.          *)
Refetch(i) == i.op = "fetch" /\ UNCHANGED guest

(* AsmVmxSaveState returns to its caller, in the guest or, after a failure,*)
(* outside it.                                                             *)
Launch ==
  /\ ~guest.virtualized
  /\ \E v \in BOOLEAN : guest' = [guest EXCEPT !.rip = @ + 1, !.virtualized = v]

Next ==
  \/ Launch
  \/ guest.virtualized /\ \E i \in Instruction :
       \/ Cpuid(i) \/ MovToCr3(i) \/ MovFromCr3(i) \/ Rdmsr(i) \/ Skipped(i)
       \/ VmxInstruction(i) \/ Vmcall(i) \/ Vmxoff(i) \/ Refetch(i)

Spec == Init /\ [][Next]_guest
==========================================================================
