------------------------ MODULE GuestInstructions ------------------------
(***************************************************************************)
(* What a guest may execute that leaves it for the hypervisor, and the     *)
(* values its registers hold.  A 64-bit value is a symbol for its low half *)
(* and what is in its high half, which decides the comparisons and the     *)
(* extensions of VmxVmexitHandler.                                         *)
(***************************************************************************)
EXTENDS Naturals

CONSTANT CrRegs  \* registers that guests use in MOV to and from CR3

GPR == {"rax", "rcx", "rdx", "rbx", "rbp", "rsi", "rdi",
        "r8", "r9", "r10", "r11", "r12", "r13", "r14", "r15"}

ASSUME CrRegsAssumption == CrRegs \subseteq GPR \cup {"rsp"}

High == {"zero", "ones", "bit63", "other"}

Word(low, high) == [lo |-> low, hi |-> high]

(* The value of register r when the behaviour starts, of the stack pointer.*)
Own(r) == Word(<<"register", r>>, "other")
Address(rsp) == Word(<<"stack", rsp>>, "other")

Keep == Word(<<"keep">>, "zero")

Leaf == {Word(<<"leaf", l>>, h) : l \in {"1", "interface", "other"}, h \in {"zero", "other"}}

VmcallNumber == {"VMCALL_TEST", "VMCALL_VMXOFF", "VMCALL_EXEC_HOOK_PAGE",
                 "VMCALL_INVEPT_SINGLE_CONTEXT", "VMCALL_INVEPT_ALL_CONTEXT",
                 "unsupported"}

Number(n) == Word(<<"number", n>>, "zero")

(* An instruction with the operands the guest loads for it.                *)
Insn(op, reg, rax, rcx) == [op |-> op, reg |-> reg, rax |-> rax, rcx |-> rcx]

(* RDMSR and WRMSR exit outside the two ranges of the (empty) MSR bitmap;  *)
(* "other" stands for INVD, XSETBV and all that VmxVmexitHandler does not  *)
(* know, "fetch" for an EPT violation it handles (EptHook has the others). *)
Instruction ==
  {Insn("cpuid", "rax", leaf, Keep) : leaf \in Leaf}
    \cup {Insn("to cr3", r, Keep, Keep) : r \in CrRegs}
    \cup {Insn("to cr3", "rax", Word(<<"pcid">>, "bit63"), Keep)}
    \cup {Insn("from cr3", r, Keep, Keep) : r \in CrRegs \ {"rsp"}}
    \cup {Insn(op, "rcx", Keep, Word(<<"msr", "outside">>, "zero")) : op \in {"rdmsr", "wrmsr"}}
    \cup {Insn("vmcall", "rcx", Keep, Number(n)) : n \in VmcallNumber}
    \cup {Insn(op, "rax", Keep, Keep) : op \in {"vmx", "other", "fetch"}}

(* The registers of a guest that is about to execute instruction i.        *)
Loaded(i, regs) ==
  [regs EXCEPT !.rax = IF i.rax = Keep THEN @ ELSE i.rax,
               !.rcx = IF i.rcx = Keep THEN @ ELSE i.rcx]

Operand(i, regs, rsp) ==
  IF i.reg = "rsp" THEN Address(rsp) ELSE Loaded(i, regs)[i.reg]

(* CR3 does not keep bit 63 of what is moved to it.                        *)
WithoutBit63(value) == IF value.hi = "bit63" THEN [value EXCEPT !.hi = "zero"] ELSE value

(* What CPUID puts into a register, before and after the hypervisor.       *)
CpuidOutput(leaf, out) == <<"cpuid", leaf.lo[2], out>>
HypervisorPresent(leaf, out) == <<"cpuid", leaf.lo[2], out, "hypervisor">>
==========================================================================
