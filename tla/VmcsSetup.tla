----------------------------- MODULE VmcsSetup -----------------------------
(***************************************************************************)
(* VmxSetupVmcs and what hangs on it: each core's VMCS is filled, in a DPC *)
(* that interrupted some process, from the segment registers and the GDT,  *)
(* the capability MSRs and the address space of the process that opened    *)
(* the device; the guest then runs, leaves through VM exits and comes      *)
(* back, the operating system switches processes under it, processes       *)
(* exit, and the close takes each core out of VMX operation again.         *)
(***************************************************************************)
EXTENDS Cores, Naturals

CONSTANTS
  Process,   \* processes, each with its page directory
  Client,    \* the process that opens and closes the device
  System,    \* the process that never exits
  Machines,  \* segment registers, GDT and capability MSRs a machine may have
  Granule    \* a segment limit in pages is scaled by this (4096)

ASSUME ProcessAssumption == /\ {Client, System} \subseteq Process /\ Client # System
                            /\ NULL \notin Process /\ Granule \in Nat \ {0}

DataSegment   == {"ES", "CS", "SS", "DS", "FS", "GS"}
SystemSegment == {"LDTR", "TR"}
Segment       == DataSegment \cup SystemSegment
HostSegment   == DataSegment \cup {"TR"}
Control       == {"Pin", "Primary", "Secondary", "Exit", "Entry"}

VARIABLES
  machine,      \* what this machine is, the same on all cores
  handle,       \* "closed", "opening", "open" or "closing"
  InitiateCr3,  \* the page directory read before the launch broadcast
  alive,        \* processes whose page directories exist
  proc,         \* the process each core runs, interrupted or not
  cr3,          \* the page directory each core uses
  seg,          \* the segment registers of each core, with their hidden parts
  mode,         \* "off", "guest", "host", or "failed": VMLAUNCH did not enter
  vmcs          \* the VMCS of each core

spaces   == <<InitiateCr3, alive, proc>>
vmcsVars == <<machine, handle, spaces, cr3, seg, mode, vmcs>>

--------------------------------------------------------------------------
(* Segment registers                                                       *)

NullSelector(s) == s.index = 0

(* What a machine's segment registers hold before anything is virtualized: *)
(* code and data have 32-bit bases, FS and GS those of their MSRs, system  *)
(* segments 64-bit ones; a register with a null selector is unusable.      *)
Loaded(m, s) ==
  LET sel == m.selector[s]
      d   == m.gdt[sel.index]
  IN  [selector |-> sel,
       unusable |-> NullSelector(sel),
       limit    |-> IF d.G THEN d.limit * Granule + Granule - 1 ELSE d.limit,
       access   |-> d.access,
       base     |-> CASE s = "FS" -> m.FsBase
                      [] s = "GS" -> m.GsBase
                      [] s \in SystemSegment -> [low |-> d.base, high |-> d.next]
                      [] OTHER -> [low |-> d.base, high |-> "zeros"]]

(* Mutant: the high half of a system segment's base is not read.           *)
HvGetSegmentDescriptor32(m, sel) ==
  LET d == m.gdt[sel.index]
  IN  [LIMIT |-> IF d.G THEN d.limit * Granule + Granule - 1 ELSE d.limit,
       ATTRIBUTES |-> d.access,
       BASE |-> [low |-> d.base, high |-> IF d.sign THEN "ones" ELSE "zeros"]]

(* BASE2 << 24 is an int, so a base with bit 31 set is sign-extended; a    *)
(* descriptor without the S bit, the null descriptor too, takes its high   *)
(* half from the 8 bytes that follow.  A selector into the LDT leaves the  *)
(* caller's zeros.                                                         *)
HvGetSegmentDescriptor(m, sel) ==
  LET d == m.gdt[sel.index]
  IN  IF sel.TI
      THEN [LIMIT |-> 0, ATTRIBUTES |-> "zeros", BASE |-> [low |-> "zeros", high |-> "zeros"]]
      ELSE [LIMIT |-> IF d.G THEN d.limit * Granule + Granule - 1 ELSE d.limit,
            ATTRIBUTES |-> d.access,
            BASE |-> [low |-> d.base,
                      high |-> IF ~d.S THEN d.next
                               ELSE IF d.sign THEN "ones" ELSE "zeros"]]

(* AsmGetEs to AsmGetTr.                                                   *)
AsmGetSelector(m, s) == m.selector[s]

(* The 0x10000 of the access rights marks a segment unusable; the test is  *)
(* for a selector that is 0, not for a null selector of any RPL.           *)
HvFillGuestSelectorData(m, s) ==
  LET sel == AsmGetSelector(m, s)
      d   == HvGetSegmentDescriptor(m, sel)
  IN  [selector |-> sel, limit |-> d.LIMIT, access |-> d.ATTRIBUTES, base |-> d.BASE,
       unusable |-> NullSelector(sel) /\ sel.RPL = 0 /\ ~sel.TI]

(* Mutant: GUEST_FS_BASE and GUEST_GS_BASE keep the GDT's bases.           *)
GuestSegmentsFromGdt(m) == [s \in Segment |-> HvFillGuestSelectorData(m, s)]

(* The FS and GS bases are written after, over those of the GDT.           *)
GuestSegments(m) ==
  [s \in Segment |->
     LET filled == HvFillGuestSelectorData(m, s)
     IN  CASE s = "FS" -> [filled EXCEPT !.base = m.FsBase]
           [] s = "GS" -> [filled EXCEPT !.base = m.GsBase]
           [] OTHER    -> filled]

(* Mutant: the host selectors are the guest's.                             *)
HostSelectorUnmasked(sel) == sel

(* & 0xF8: no RPL, no table indicator, and 5 bits of index.                *)
HostSelector(sel) == [index |-> sel.index % 32, TI |-> FALSE, RPL |-> 0]

HostSegments(m) ==
  [selector |-> [s \in HostSegment |-> HostSelector(AsmGetSelector(m, s))],
   TrBase   |-> HvGetSegmentDescriptor(m, AsmGetSelector(m, "TR")).BASE,
   FsBase   |-> m.FsBase,
   GsBase   |-> m.GsBase]

--------------------------------------------------------------------------
(* Controls                                                                *)

(* Mutant: only the bits that must be one are forced.                      *)
HvAdjustControlsLowOnly(ctl, cap) == ctl \cup cap.Low

(* What High does not allow is dropped without a word, what Low demands is *)
(* added.                                                                  *)
HvAdjustControls(ctl, cap) == (ctl \cap cap.High) \cup cap.Low

(* Mutant: the secondary controls are filled in and not activated.         *)
WantedInactive == [f \in Control |->
             CASE f = "Primary"   -> {"MSR_BITMAP"}
               [] f = "Secondary" -> {"RDTSCP", "EPT", "INVPCID", "XSAVE_XRSTORS"}
               [] f = "Pin"       -> {}
               [] OTHER           -> {"IA32E_MODE"}]

Wanted == [f \in Control |->
             CASE f = "Primary"   -> {"MSR_BITMAP", "SECONDARY_CONTROLS"}
               [] f = "Secondary" -> {"RDTSCP", "EPT", "INVPCID", "XSAVE_XRSTORS"}
               [] f = "Pin"       -> {}
               [] OTHER           -> {"IA32E_MODE"}]

Controls(m) == [f \in Control |-> HvAdjustControls(Wanted[f], m.capability[f])]

(* Mutant: the capabilities of EPT are not looked at.                      *)
EptCheckFeaturesMtrrOnly(m) == m.MtrrEnable

(* What VmxInitializer tests before it builds anything: where it is FALSE  *)
(* the open fails.  EptVpidCap is {} where the MSR does not exist, and the *)
(* read of it goes no further either.                                      *)
EptCheckFeatures(m) ==
  {"PageWalkLength4", "MemoryTypeWriteBack", "Pde2MbPages"} \subseteq m.EptVpidCap /\ m.MtrrEnable

--------------------------------------------------------------------------
(* VMLAUNCH                                                                *)

(* Mutant: HOST_CR3 is that of whatever process the DPC has interrupted.   *)
HostCr3OfDpc(c) == cr3[c]

HostCr3(c) == InitiateCr3

VmxSetupVmcs(c) ==
  [guest    |-> [seg |-> GuestSegments(machine), cr3 |-> cr3[c]],
   host     |-> [seg |-> HostSegments(machine), cr3 |-> HostCr3(c)],
   controls |-> Controls(machine)]

Canonical(base) == base.high \in {"zeros", "ones", "kernel"}

(* The checks of VM entry on what VmxSetupVmcs writes; access rights of 0  *)
(* say that a segment is not present.                                      *)
GuestStateValid(g) ==
  /\ \A s \in Segment : g[s].unusable \/ g[s].access # "none"
  /\ g["SS"].selector.RPL = g["CS"].selector.RPL
  /\ ~g["TR"].unusable /\ ~g["TR"].selector.TI
  /\ \A s \in {"TR", "FS", "GS"} : Canonical(g[s].base)
  /\ ~g["LDTR"].unusable => ~g["LDTR"].selector.TI /\ Canonical(g["LDTR"].base)
  /\ g["CS"].base.high = "zeros"
  /\ \A s \in {"SS", "DS", "ES"} : ~g[s].unusable => g[s].base.high = "zeros"

HostStateValid(h) ==
  /\ \A s \in HostSegment : h.selector[s].RPL = 0 /\ ~h.selector[s].TI
  /\ ~NullSelector(h.selector["CS"]) /\ ~NullSelector(h.selector["TR"])
  /\ Canonical(h.TrBase) /\ Canonical(h.FsBase) /\ Canonical(h.GsBase)

ControlsValid(v) ==
  \A f \in Control : /\ machine.capability[f].Low \subseteq v.controls[f]
                     /\ v.controls[f] \subseteq machine.capability[f].High

EntryAllowed(v) ==
  GuestStateValid(v.guest.seg) /\ HostStateValid(v.host.seg) /\ ControlsValid(v)

VmcsInit ==
  /\ machine \in Machines /\ handle = "closed" /\ InitiateCr3 = NULL
  /\ alive = Process
  /\ proc \in [Core -> Process] /\ cr3 = proc
  /\ seg = [c \in Core |-> [s \in Segment |-> Loaded(machine, s)]]
  /\ mode = [c \in Core |-> "off"]
  /\ vmcs = [c \in Core |-> NULL]

(* HvVmxInitialize reads CR3 in the thread of the client, on core c.  A     *)
(* behaviour opens the device once.                                         *)
ReadInitiateCr3(c) ==
  /\ handle = "closed" /\ InitiateCr3 = NULL /\ proc[c] = Client
  /\ handle' = "opening" /\ InitiateCr3' = cr3[c]
  /\ UNCHANGED <<machine, alive, proc, cr3, seg, mode, vmcs>>

(* The launch DPC on core c.                                               *)
VmxVirtualizeCurrentSystem(c) ==
  LET v == VmxSetupVmcs(c)
  IN  /\ handle = "opening" /\ mode[c] = "off"
      /\ vmcs' = [vmcs EXCEPT ![c] = v]
      /\ IF EntryAllowed(v)
         THEN /\ mode' = [mode EXCEPT ![c] = "guest"]
              /\ seg' = [seg EXCEPT ![c] = v.guest.seg]
              /\ cr3' = [cr3 EXCEPT ![c] = v.guest.cr3]
         ELSE /\ mode' = [mode EXCEPT ![c] = "failed"]
              /\ UNCHANGED <<seg, cr3>>
      /\ UNCHANGED <<machine, handle, spaces>>

LaunchDpcReturns ==
  /\ handle = "opening" /\ \A c \in Core : mode[c] \notin {"off", "failed"}
  /\ handle' = "open"
  /\ UNCHANGED <<machine, spaces, cr3, seg, mode, vmcs>>

--------------------------------------------------------------------------
(* Guests and exits                                                        *)

(* A VM exit saves the guest's registers and loads the host's.             *)
VmExit(c) ==
  /\ mode[c] = "guest" /\ mode' = [mode EXCEPT ![c] = "host"]
  /\ vmcs' = [vmcs EXCEPT ![c].guest = [seg |-> seg[c], cr3 |-> cr3[c]]]
  /\ cr3' = [cr3 EXCEPT ![c] = vmcs[c].host.cr3]
  /\ seg' = [seg EXCEPT ![c] = vmcs[c].host.seg]
  /\ UNCHANGED <<machine, handle, spaces>>

VmxVmresume(c) ==
  /\ mode[c] = "host" /\ mode' = [mode EXCEPT ![c] = "guest"]
  /\ cr3' = [cr3 EXCEPT ![c] = vmcs[c].guest.cr3]
  /\ seg' = [seg EXCEPT ![c] = vmcs[c].guest.seg]
  /\ UNCHANGED <<machine, handle, spaces, vmcs>>

(* The scheduler of the operating system, virtualized or not.              *)
ContextSwitch(c, p) ==
  /\ mode[c] \in {"off", "guest"} /\ p \in alive \ {proc[c]}
  /\ proc' = [proc EXCEPT ![c] = p]
  /\ cr3' = [cr3 EXCEPT ![c] = p]
  /\ UNCHANGED <<machine, handle, InitiateCr3, alive, seg, mode, vmcs>>

(* The last thread of p is gone and its directory is freed.  A process     *)
(* closes its handles before, and nobody has duplicated the client's.      *)
ProcessExit(p) ==
  /\ p \in alive \ {System} /\ \A c \in Core : proc[c] # p
  /\ p = Client => handle = "closed"
  /\ alive' = alive \ {p}
  /\ UNCHANGED <<machine, handle, InitiateCr3, proc, cr3, seg, mode, vmcs>>

DrvClose ==
  /\ handle = "open" /\ \E c \in Core : proc[c] = Client
  /\ handle' = "closing"
  /\ UNCHANGED <<machine, spaces, cr3, seg, mode, vmcs>>

(* Mutant: VMXOFF without writing back the guest's CR3.                    *)
VmxVmxoffKeepingCr3(c) ==
  /\ handle = "closing" /\ mode[c] = "host"
  /\ mode' = [mode EXCEPT ![c] = "off"]
  /\ UNCHANGED <<machine, handle, spaces, cr3, seg, vmcs>>

(* VmxVmxoff, in the exit of its VMCALL: CR3 is given back, the segment    *)
(* registers stay those of the host.                                       *)
VmxVmxoff(c) ==
  /\ handle = "closing" /\ mode[c] = "host"
  /\ mode' = [mode EXCEPT ![c] = "off"]
  /\ cr3' = [cr3 EXCEPT ![c] = vmcs[c].guest.cr3]
  /\ UNCHANGED <<machine, handle, spaces, seg, vmcs>>

TerminateDpcReturns ==
  /\ handle = "closing" /\ \A c \in Core : mode[c] = "off"
  /\ handle' = "closed"
  /\ UNCHANGED <<machine, spaces, cr3, seg, mode, vmcs>>

--------------------------------------------------------------------------
(* Properties                                                              *)

(* Type invariant.                                                         *)
VmcsTypeOK ==
  /\ handle \in {"closed", "opening", "open", "closing"}
  /\ InitiateCr3 \in Process \cup {NULL} /\ alive \subseteq Process
  /\ proc \in [Core -> Process] /\ cr3 \in [Core -> Process]
  /\ mode \in [Core -> {"off", "guest", "host", "failed"}]
  /\ \A c \in Core : /\ mode[c] # "off" => DOMAIN vmcs[c] = {"guest", "host", "controls"}
                     /\ mode[c] = "guest" => DOMAIN seg[c] = Segment

(* VM entry accepts what VmxSetupVmcs writes: null and user-mode selectors,*)
(* a TSS and an LDT in the upper half, an FS descriptor with bit 31 of its *)
(* base set, and controls the processor demands or does not have.          *)
LaunchAccepted == \A c \in Core : mode[c] # "failed"

(* The operating system does not notice the launch in its segments: those  *)
(* of a guest are the ones the core had, with bases, limits and rights.    *)
SegmentsSurviveLaunch ==
  \A c \in Core, s \in Segment : mode[c] = "guest" =>
    LET old == Loaded(machine, s)
    IN  /\ seg[c][s].selector = old.selector
        /\ seg[c][s].unusable = old.unusable
        /\ ~old.unusable => seg[c][s] = old

(* An exit never lands in a page directory that is gone: that of HOST_CR3  *)
(* exists for as long as the core may leave its guest, whichever process   *)
(* the launch DPC has interrupted and whichever have exited since.         *)
HostAddressSpaceLives ==
  \A c \in Core : mode[c] \in {"guest", "host"} => vmcs[c].host.cr3 \in alive

(* The running process has its own address space, in a guest and again     *)
(* after VMXOFF, although the exit before has loaded another one.          *)
ProcessKeepsItsSpace ==
  \A c \in Core : mode[c] \in {"off", "guest"} => cr3[c] = proc[c]

Active(v, control) == /\ "SECONDARY_CONTROLS" \in v.controls["Primary"]
                      /\ control \in v.controls["Secondary"]

(* No guest misses a control that HvAdjustControls has dropped without a   *)
(* word: it runs on the extended page table, for a processor that has none *)
(* does not come so far; and it can execute each instruction its processor *)
(* has, which CPUID goes on to report.                                     *)
DroppedControlsNotMissed ==
  \A c \in Core : mode[c] = "guest" =>
    \A control \in {"EPT"} \cup machine.instructions : Active(vmcs[c], control)
==========================================================================
