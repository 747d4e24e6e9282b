-------------------------- MODULE MCVmxLifecycle --------------------------
(* Small instances of VmxLifecycle: which failures a run lets happen.      *)
EXTENDS VmxLifecycle_proofs, TLC

(* Failures from which HvVmxInitialize returns before it has changed any   *)
(* core, and after which it has freed what it allocated.                   *)
CleanFaults == {"GuestState", "EptState", "Buffer"}

(* A machine may lack VMX or map the hooked page above 512GB.              *)
CleanLimits == {"NoVmx", "HighTarget"}

(* Every allocation or instruction failure of the code.                    *)
EveryFault == AllFaults

EveryLimit == AllLimits

NoFault == {}

VmcsFault == {"VmcsRegion"}

PtrldFault == {"Vmptrld"}

Symmetry == Permutations(Core)
==========================================================================
