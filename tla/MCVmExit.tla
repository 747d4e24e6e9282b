----------------------------- MODULE MCVmExit -----------------------------
(* A small instance of VmExit.                                             *)
EXTENDS VmExit_proofs

(* A register below RSP in GUEST_REGS, RSP, the two above it, the last.    *)
SomeRegs == {"rax", "rcx", "rsp", "rbp", "r15"}

(* Some outputs of CPUID have bit 31 set.                                  *)
SomeNegative == {<<"1", "rbx">>, <<"other", "rax">>, <<"other", "rdx">>}
==========================================================================
