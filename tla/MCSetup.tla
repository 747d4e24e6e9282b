------------------------------ MODULE MCSetup ------------------------------
(* A small machine for Setup: 8 frames below the limit and 16 that PhysMask *)
(* can name, 2 cores, 3 processes.  What varies is a union of four kinds of *)
(* behaviour: one has all MTRR sets and stops when the table is built, one  *)
(* the hooks, one the MSR bitmap requests, one the machines and processes.  *)
EXTENDS VmcsSetup_proofs, TLC

VARIABLE focus

(* Aligned ranges, as the MTRRs demand: 1, 2, 4 or 8 frames.               *)
Mtrr(base, size, type) ==
  [Valid |-> TRUE, PhysBase |-> base, PhysMask |-> 16 - size, Type |-> type]

Invalid == [Mtrr(0, 4, "UC") EXCEPT !.Valid = FALSE]

Ranges ==
  {Invalid} \cup
  {Mtrr(base, size, type) :
     <<base, size, type>> \in
       {r \in (0 .. 7) \X {1, 2, 4} \X {"UC", "WT", "WB", "WC"} : r[1] % r[2] = 0}}

FewRanges == {Mtrr(0, 8, "WB"), Mtrr(2, 2, "WT"), Mtrr(3, 1, "UC"), Invalid, Mtrr(4, 4, "WB")}

PlainMtrrs == <<Mtrr(4, 2, "WC"), Mtrr(6, 1, "UC")>>

SmallMtrrSets ==
  [1 .. 2 -> Ranges] \cup [1 .. 3 -> FewRanges] \cup {PlainMtrrs}

SomeFunctions == {0, 2, 3, 5, 12}

(* Quarters of 2 bytes: MSRs 0..15 and 32..47, and two outside.            *)
SomeMsrs == {0, 7, 8, 15, 16, 31, 32, 33, 47, 48}

--------------------------------------------------------------------------
Sel(index, rpl) == [index |-> index, TI |-> FALSE, RPL |-> rpl]

Desc(base, sign, S, G, access, next) ==
  [base |-> base, sign |-> sign, S |-> S, G |-> G, limit |-> 15, access |-> access, next |-> next]

(* The GDT of a 64-bit Windows: null, code, stack, user data, 32-bit FS,   *)
(* task state in two slots, and a local table; 8 bytes after a descriptor  *)
(* lies the next one.                                                      *)
Gdt(fsSign, nullNext) ==
  0  :> Desc("zeros", FALSE, FALSE, FALSE, "none", nullNext) @@
  2  :> Desc("zeros", FALSE, TRUE, FALSE, "code64", "code64") @@
  3  :> Desc("zeros", FALSE, TRUE, TRUE, "data", "data") @@
  5  :> Desc("zeros", FALSE, TRUE, TRUE, "userdata", "userdata") @@
  8  :> Desc("tss", FALSE, FALSE, FALSE, "tss", "kernel") @@
  10 :> Desc("teb", fsSign, TRUE, FALSE, "userdata", "garbage") @@
  12 :> Desc("ldt", TRUE, FALSE, FALSE, "ldt", "kernel")

Demanded(f) == IF f = "Primary" THEN {"CR3_LOAD_EXITING"}
               ELSE IF f = "Pin" THEN {"PIN_DEFAULT1"} ELSE {}

Instructions == {"RDTSCP", "INVPCID", "XSAVE_XRSTORS"}

EptFeatures == {"PageWalkLength4", "MemoryTypeWriteBack", "Pde2MbPages"}

Offered(f) == Demanded(f) \cup
  (CASE f = "Primary"   -> {"MSR_BITMAP", "SECONDARY_CONTROLS"}
     [] f = "Secondary" -> Instructions \cup {"EPT", "VPID"}
     [] f = "Pin"       -> {"NMI_EXITING"}
     [] OTHER           -> {"IA32E_MODE"})

Machine(ss, data, ldt, fsSign, nullNext, lacking) ==
  [selector |-> [s \in Segment |->
                   CASE s = "CS" -> Sel(2, 0) [] s = "SS" -> ss [] s = "FS" -> Sel(10, 3)
                     [] s = "LDTR" -> ldt [] s = "TR" -> Sel(8, 0) [] OTHER -> data],
   gdt |-> Gdt(fsSign, nullNext),
   FsBase |-> [low |-> "teb32", high |-> "zeros"],
   GsBase |-> [low |-> "pcr", high |-> "kernel"],
   MtrrEnable |-> "MTRR" \notin lacking,
   instructions |-> Instructions \ lacking,
   EptVpidCap |-> IF "SECONDARY_CONTROLS" \in lacking THEN {}
                  ELSE {"Invvpid"} \cup IF "EPT" \in lacking THEN {} ELSE EptFeatures \ lacking,
   capability |-> [f \in Control |-> [Low |-> Demanded(f),
                                      High |-> Offered(f) \ lacking]]]

LackingMachine(lacking) == Machine(Sel(3, 0), Sel(5, 3), Sel(0, 0), FALSE, "zeros", lacking)

(* Among them processors without EPT, some of its features or the MTRRs.   *)
SomeMachines ==
  {Machine(ss, data, ldt, fsSign, nullNext, lacking) :
     ss \in {Sel(3, 0), Sel(0, 0)}, data \in {Sel(5, 3), Sel(0, 0)},
     ldt \in {Sel(0, 0), Sel(12, 0)}, fsSign \in BOOLEAN,
     nullNext \in {"zeros", "garbage"}, lacking \in {{}, {"INVPCID", "XSAVE_XRSTORS"}}}
  \cup {LackingMachine(lacking) :
          lacking \in {{"EPT"}, {"Pde2MbPages"}, {"RDTSCP"}, {"MTRR"},
                       {"SECONDARY_CONTROLS", "EPT", "VPID"} \cup Instructions}}

PlainMachine == LackingMachine({})

(* The hypotheses of the theorems hold of these machines.                  *)
ASSUME RangesAssumption == ContiguousRanges
ASSUME MachinesAssumption ==
  \A m \in Machines : WindowsSegments(m) /\ Consistent(m) /\ Architectural(m)

--------------------------------------------------------------------------
MCInit ==
  /\ focus \in {"mtrr", "hook", "msr", "vmcs"}
  /\ mtrr \in IF focus = "mtrr" THEN MtrrSets ELSE {PlainMtrrs}
  /\ machine \in IF focus = "vmcs" THEN Machines ELSE {PlainMachine}
  /\ proc \in IF focus = "vmcs" THEN [Core -> Process] ELSE {[c \in Core |-> Client]}
  /\ Init

MCNext ==
  /\ Next /\ UNCHANGED focus
  /\ focus # "hook" => calls' = 0
  /\ focus # "msr" => asked' = 0
  /\ focus # "vmcs" => proc' = proc /\ alive' = alive
  /\ focus \in {"mtrr", "msr"} => handle' = "closed"

MCSpec == MCInit /\ [][MCNext]_<<vars, focus>>
==========================================================================
