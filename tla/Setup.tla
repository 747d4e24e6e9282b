------------------------------- MODULE Setup -------------------------------
(***************************************************************************)
(* Everything VMLAUNCH is given, from the first MTRR read to the close of  *)
(* the handle: VmxInitializer builds the page table and hooks in it,       *)
(* HvVmxInitialize prepares the MSR bitmaps and reads CR3, the launch      *)
(* broadcast fills the VMCSs, the hypervisor then hooks and handles        *)
(* violations from VMX root operation, HvTerminateVmx ends it.             *)
(***************************************************************************)
EXTENDS EptTables, MsrBitmap, VmcsSetup

vars == <<eptVars, msrVars, vmcsVars>>

Init == EptInit /\ MsrInit /\ VmcsInit

(* VmxInitializer and the loop of HvVmxInitialize, before CR3 is read; on  *)
(* a machine that fails the check every open returns here.                 *)
Prepare ==
  /\ handle = "closed" /\ InitiateCr3 = NULL /\ UNCHANGED vmcsVars
  /\ \/ /\ \/ EptCheckFeatures(machine) /\ (ReadVariableRange \/ CreateIdentityPageTable)
           \/ \E c, d \in Core, f \in Functions : EptPageHook(c, d, f)
        /\ UNCHANGED msrVars
     \/ /\ stage = "Built" /\ UNCHANGED eptVars
        /\ \E c \in Core, msr \in Msrs, r, w \in BOOLEAN : HvSetMsrBitmap(c, msr, r, w)

(* The broadcasts, which need what Prepare has built and end with it.      *)
Launch ==
  \/ /\ stage = "Built" /\ UNCHANGED <<eptVars, msrVars>>
     /\ \E c \in Core : ReadInitiateCr3(c) \/ VmxVirtualizeCurrentSystem(c)
  \/ LaunchDpcReturns /\ Launched /\ UNCHANGED msrVars

Terminate ==
  \/ DrvClose /\ UNCHANGED <<eptVars, msrVars>>
  \/ \E c \in Core : VmxVmxoff(c) /\ UNCHANGED <<eptVars, msrVars>>
  \/ TerminateDpcReturns /\ HvTerminateVmx /\ UNCHANGED msrVars

(* In VMX root operation: of the hook the core d that the VMCALL comes     *)
(* from, of a violation the one that fetched.                              *)
Handle ==
  /\ UNCHANGED <<msrVars, vmcsVars>>
  /\ \/ handle = "open" /\ \E c, d \in Core, f \in Functions :
                             mode[d] = "host" /\ EptPageHook(c, d, f)
     \/ (\E c \in Core : mode[c] = "host") /\ \E f \in Mapped : EptHandlePageHookExit(f)

(* The operating system and the processors.                                *)
Run ==
  /\ UNCHANGED <<eptVars, msrVars>>
  /\ \/ \E c \in Core : VmExit(c) \/ VmxVmresume(c)
     \/ \E c \in Core, p \in Process : ContextSwitch(c, p)
     \/ \E p \in Process : ProcessExit(p)

Next == Prepare \/ Launch \/ Terminate \/ Handle \/ Run

Spec == Init /\ [][Next]_vars

(* Type invariant.                                                         *)
TypeOK == EptTypeOK /\ MsrTypeOK /\ VmcsTypeOK
==========================================================================
