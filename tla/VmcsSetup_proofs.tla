-------------------------- MODULE VmcsSetup_proofs --------------------------
(***************************************************************************)
(* Theorems about what VmxSetupVmcs writes, for any number of processors   *)
(* and any machine with the segments of a 64-bit Windows and capabilities  *)
(* as the architecture has them; and the type invariant of Setup.          *)
(***************************************************************************)
EXTENDS EptTables_proofs

(* Selectors into a GDT of 32 descriptors; a null selector is 0; code and  *)
(* data have bases without bit 31, system descriptors no S bit and a       *)
(* canonical base, and what is loaded is present.                          *)
WindowsSegments(m) ==
  /\ \A s \in Segment : LET sel == m.selector[s]
                             d   == m.gdt[sel.index]
                         IN  /\ ~sel.TI /\ sel.index \in 0 .. 31
                             /\ NullSelector(sel) => sel.RPL = 0
                             /\ ~NullSelector(sel) =>
                                  /\ d.access # "none"
                                  /\ s \in {"ES", "CS", "SS", "DS"} => d.S /\ ~d.sign
                                  /\ s \in SystemSegment => ~d.S /\ Canonical([high |-> d.next])
  /\ ~NullSelector(m.selector["CS"]) /\ ~NullSelector(m.selector["TR"])
  /\ m.selector["SS"].RPL = m.selector["CS"].RPL
  /\ Canonical(m.FsBase) /\ Canonical(m.GsBase)

(* No control is demanded that is not allowed.                             *)
Consistent(m) == \A f \in Control : m.capability[f].Low \subseteq m.capability[f].High

(* What the architecture says of any processor, with EPT or without: the   *)
(* secondary controls are there if one of them can be set, features of EPT *)
(* are reported where it can be switched on, and an instruction that needs *)
(* a control comes with it.  The instructions are those this code knows.   *)
Architectural(m) ==
  /\ m.capability["Secondary"].High # {} =>
       "SECONDARY_CONTROLS" \in m.capability["Primary"].High
  /\ "PageWalkLength4" \in m.EptVpidCap => "EPT" \in m.capability["Secondary"].High
  /\ m.instructions \subseteq Wanted["Secondary"] \cap m.capability["Secondary"].High

--------------------------------------------------------------------------
(* A guest runs with what VmxSetupVmcs wrote, whatever exits there were.   *)
VmcsInv ==
  /\ machine \in Machines
  /\ mode \in [Core -> {"off", "guest", "host", "failed"}]
  /\ vmcs = [c \in Core |-> vmcs[c]] /\ seg = [c \in Core |-> seg[c]]
  /\ \A c \in Core :
       /\ mode[c] # "off" => vmcs[c] = [guest |-> vmcs[c].guest, host |-> vmcs[c].host,
                                        controls |-> Controls(machine)]
       /\ mode[c] = "guest" => seg[c] = GuestSegments(machine)
       /\ mode[c] = "host" => vmcs[c].guest.seg = GuestSegments(machine)
       /\ mode[c] = "failed" =>
            ~ /\ GuestStateValid(GuestSegments(machine))
              /\ HostStateValid(HostSegments(machine))
              /\ \A f \in Control : /\ machine.capability[f].Low \subseteq Controls(machine)[f]
                                    /\ Controls(machine)[f] \subseteq machine.capability[f].High

LEMMA VmcsInitInv == Init => VmcsInv
<1> SUFFICES ASSUME Init PROVE VmcsInv
  OBVIOUS
<1>1. /\ machine \in Machines /\ mode = [c \in Core |-> "off"]
      /\ vmcs = [c \in Core |-> NULL]
      /\ seg = [c \in Core |-> [s \in Segment |-> Loaded(machine, s)]]
  BY DEF Init, VmcsInit
<1>2. vmcs = [c \in Core |-> vmcs[c]] BY <1>1
<1>3. seg = [c \in Core |-> seg[c]] BY <1>1
<1> QED BY <1>1, <1>2, <1>3 DEF VmcsInv

LEMMA VmcsInvStep == VmcsInv /\ [VmcsStep]_vmcsVars => VmcsInv'
<1> SUFFICES ASSUME VmcsInv, [VmcsStep]_vmcsVars PROVE VmcsInv'
  OBVIOUS
<1> DEFINE G == GuestSegments(machine)
           K == Controls(machine)
           Bad == ~ /\ GuestStateValid(GuestSegments(machine))
                    /\ HostStateValid(HostSegments(machine))
                    /\ \A f \in Control :
                         /\ machine.capability[f].Low \subseteq Controls(machine)[f]
                         /\ Controls(machine)[f] \subseteq machine.capability[f].High
           Good(c, m, v, g) ==
             /\ m # "off" => v = [guest |-> v.guest, host |-> v.host, controls |-> K]
             /\ m = "guest" => g = G
             /\ m = "host" => v.guest.seg = G
             /\ m = "failed" => Bad
<1>1. machine' = machine
  BY DEF VmcsStep, vmcsVars, LaunchDpcReturns, DrvClose, TerminateDpcReturns, ReadInitiateCr3,
     VmxVirtualizeCurrentSystem, VmExit, VmxVmresume, VmxVmxoff, ContextSwitch, ProcessExit
<1>2. /\ machine \in Machines /\ mode \in [Core -> {"off", "guest", "host", "failed"}]
      /\ vmcs = [c \in Core |-> vmcs[c]] /\ seg = [c \in Core |-> seg[c]]
      /\ \A c \in Core : Good(c, mode[c], vmcs[c], seg[c])
  BY DEF VmcsInv
<1>3. /\ mode' \in [Core -> {"off", "guest", "host", "failed"}]
      /\ vmcs' = [c \in Core |-> vmcs'[c]] /\ seg' = [c \in Core |-> seg'[c]]
      /\ \A c \in Core : Good(c, mode'[c], vmcs'[c], seg'[c])
      => VmcsInv'
  <2>1. G = GuestSegments(machine') /\ K = Controls(machine') /\ (Bad <=> Bad')
    BY <1>1
  <2> QED BY <1>1, <1>2, <2>1 DEF VmcsInv
<1>4. ASSUME NEW c \in Core, VmxVirtualizeCurrentSystem(c) PROVE VmcsInv'
  <2> DEFINE v == VmxSetupVmcs(c)
  <2>1. /\ v = [guest |-> v.guest, host |-> v.host, controls |-> K] /\ v.guest.seg = G
        /\ v.host.seg = HostSegments(machine)
    BY DEF VmxSetupVmcs
  <2>2. ~EntryAllowed(v) => Bad
    BY <2>1 DEF EntryAllowed, ControlsValid
  <2>3. /\ vmcs' = [vmcs EXCEPT ![c] = v]
        /\ \/ mode' = [mode EXCEPT ![c] = "guest"] /\ seg' = [seg EXCEPT ![c] = v.guest.seg]
           \/ mode' = [mode EXCEPT ![c] = "failed"] /\ seg' = seg /\ Bad
    BY <1>4, <2>2 DEF VmxVirtualizeCurrentSystem
  <2> HIDE DEF v, G, K, Bad
  <2>4. Good(c, mode'[c], vmcs'[c], seg'[c]) BY <1>2, <2>1, <2>3
  <2>5. \A x \in Core \ {c} : mode'[x] = mode[x] /\ vmcs'[x] = vmcs[x] /\ seg'[x] = seg[x]
    BY <1>2, <2>3
  <2>6. /\ mode' \in [Core -> {"off", "guest", "host", "failed"}]
        /\ vmcs' = [x \in Core |-> vmcs'[x]] /\ seg' = [x \in Core |-> seg'[x]]
    BY <1>2, <2>3
  <2> QED BY <1>2, <1>3, <2>4, <2>5, <2>6
<1> HIDE DEF G, K, Bad
<1>5. ASSUME NEW c \in Core, VmExit(c) PROVE VmcsInv'
  <2>1. /\ mode[c] = "guest" /\ mode' = [mode EXCEPT ![c] = "host"]
        /\ vmcs' = [vmcs EXCEPT ![c].guest = [seg |-> seg[c], cr3 |-> cr3[c]]]
        /\ seg' = [seg EXCEPT ![c] = vmcs[c].host.seg]
    BY <1>5 DEF VmExit
  <2>2. vmcs'[c] = [guest |-> [seg |-> G, cr3 |-> cr3[c]], host |-> vmcs[c].host, controls |-> K]
    BY <1>2, <2>1
  <2>3. Good(c, mode'[c], vmcs'[c], seg'[c]) BY <1>2, <2>1, <2>2
  <2>4. \A x \in Core \ {c} : mode'[x] = mode[x] /\ vmcs'[x] = vmcs[x] /\ seg'[x] = seg[x]
    BY <1>2, <2>1
  <2>5. /\ mode' \in [Core -> {"off", "guest", "host", "failed"}]
        /\ vmcs' = [x \in Core |-> vmcs'[x]] /\ seg' = [x \in Core |-> seg'[x]]
    BY <1>2, <2>1
  <2> QED BY <1>2, <1>3, <2>3, <2>4, <2>5
<1>6. ASSUME NEW c \in Core, VmxVmresume(c) PROVE VmcsInv'
  BY <1>2, <1>3, <1>6 DEF VmxVmresume
<1>7. ASSUME NEW c \in Core, VmxVmxoff(c) PROVE VmcsInv'
  BY <1>2, <1>3, <1>7 DEF VmxVmxoff
<1>8. CASE UNCHANGED <<mode, vmcs, seg>>
  BY <1>2, <1>3, <1>8
<1> QED
  BY <1>4, <1>5, <1>6, <1>7, <1>8 DEF VmcsStep, vmcsVars, LaunchDpcReturns, DrvClose,
     TerminateDpcReturns, ReadInitiateCr3, ContextSwitch, ProcessExit

LEMMA VmcsInvariance == Spec => []VmcsInv
<1>1. VmcsInv /\ [Next]_vars => VmcsInv'
  BY Components, VmcsInvStep
<1> QED BY VmcsInitInv, <1>1, PTL DEF Spec

--------------------------------------------------------------------------
(* What HvFillGuestSelectorData reads from the GDT is what is loaded: a    *)
(* usable segment in full, of another its selector.                        *)
LEMMA GuestSegmentIs ==
  ASSUME NEW m, WindowsSegments(m), NEW s \in Segment
  PROVE  /\ GuestSegments(m)[s].selector = m.selector[s]
         /\ GuestSegments(m)[s].unusable = NullSelector(m.selector[s])
         /\ ~NullSelector(m.selector[s]) => GuestSegments(m)[s] = Loaded(m, s)
<1> DEFINE sel == m.selector[s]
           d   == m.gdt[sel.index]
           filled == HvFillGuestSelectorData(m, s)
           unusable == NullSelector(sel) /\ sel.RPL = 0 /\ ~sel.TI
           limit == IF d.G THEN d.limit * Granule + Granule - 1 ELSE d.limit
           high == IF ~d.S THEN d.next ELSE IF d.sign THEN "ones" ELSE "zeros"
<1>1. /\ ~sel.TI
      /\ NullSelector(sel) => sel.RPL = 0
  BY DEF WindowsSegments
<1>2. ~NullSelector(sel) =>
        /\ s \in {"ES", "CS", "SS", "DS"} => d.S /\ ~d.sign
        /\ s \in SystemSegment => ~d.S
  BY DEF WindowsSegments
<1>3. filled = [selector |-> sel, limit |-> limit, access |-> d.access,
                base |-> [low |-> d.base, high |-> high], unusable |-> unusable]
  BY <1>1 DEF HvFillGuestSelectorData, HvGetSegmentDescriptor, AsmGetSelector
<1>4. unusable = NullSelector(sel)
  BY <1>1 DEF NullSelector
<1> DEFINE base == CASE s = "FS" -> m.FsBase
                     [] s = "GS" -> m.GsBase
                     [] OTHER -> [low |-> d.base, high |-> high]
<1>5. GuestSegments(m)[s] = [selector |-> sel, limit |-> limit, access |-> d.access,
                             base |-> base, unusable |-> unusable]
  <2>1. GuestSegments(m)[s] = CASE s = "FS" -> [filled EXCEPT !.base = m.FsBase]
                                [] s = "GS" -> [filled EXCEPT !.base = m.GsBase]
                                [] OTHER    -> filled
    BY DEF GuestSegments
  <2> HIDE DEF limit, unusable, high, d, sel, filled
  <2>2. CASE s = "FS" BY <1>3, <2>1, <2>2
  <2>3. CASE s = "GS" BY <1>3, <2>1, <2>3
  <2>4. CASE s # "FS" /\ s # "GS" BY <1>3, <2>1, <2>4
  <2> QED BY <2>2, <2>3, <2>4
<1>6. ASSUME ~NullSelector(sel) PROVE GuestSegments(m)[s] = Loaded(m, s)
  <2>1. base = CASE s = "FS" -> m.FsBase
                 [] s = "GS" -> m.GsBase
                 [] s \in SystemSegment -> [low |-> d.base, high |-> d.next]
                 [] OTHER -> [low |-> d.base, high |-> "zeros"]
    BY <1>2, <1>6 DEF Segment, DataSegment, SystemSegment
  <2> HIDE DEF limit, unusable, base
  <2> QED BY <1>4, <1>5, <2>1 DEF Loaded, limit
<1> HIDE DEF unusable, base, limit, sel
<1> QED BY <1>4, <1>5, <1>6 DEF sel

(* The launch, the exits and the resumes leave the operating system its    *)
(* segments, on any machine with the segments of a 64-bit Windows.         *)
THEOREM SegmentsKept ==
  ASSUME \A m \in Machines : WindowsSegments(m)
  PROVE  Spec => []SegmentsSurviveLaunch
<1>1. ASSUME VmcsInv PROVE SegmentsSurviveLaunch
  <2> SUFFICES ASSUME NEW c \in Core, NEW s \in Segment, mode[c] = "guest"
               PROVE  LET old == Loaded(machine, s)
                      IN  /\ seg[c][s].selector = old.selector
                          /\ seg[c][s].unusable = old.unusable
                          /\ ~old.unusable => seg[c][s] = old
    BY DEF SegmentsSurviveLaunch
  <2>1. WindowsSegments(machine) /\ seg[c] = GuestSegments(machine) BY <1>1 DEF VmcsInv
  <2>2. /\ Loaded(machine, s).selector = machine.selector[s]
        /\ Loaded(machine, s).unusable = NullSelector(machine.selector[s])
    BY DEF Loaded
  <2> QED BY <2>1, <2>2, GuestSegmentIs
<1> QED BY VmcsInvariance, <1>1, PTL

(* HvAdjustControls gives controls that the processor takes.               *)
LEMMA ControlsTaken ==
  ASSUME NEW m, Consistent(m), NEW f \in Control
  PROVE  /\ m.capability[f].Low \subseteq Controls(m)[f]
         /\ Controls(m)[f] \subseteq m.capability[f].High
BY DEF Consistent, Controls, HvAdjustControls

LEMMA Tables ==
  ASSUME NEW m, WindowsSegments(m), NEW s \in Segment
  PROVE  LET sel == m.selector[s]
             d   == m.gdt[sel.index]
         IN  /\ ~sel.TI /\ sel.index \in 0 .. 31
             /\ Loaded(m, s).access = d.access
             /\ ~NullSelector(sel) => d.access # "none"
             /\ s \in {"ES", "CS", "SS", "DS"} => Loaded(m, s).base.high = "zeros"
             /\ s \in SystemSegment => Loaded(m, s).base.high = d.next
             /\ s \in SystemSegment /\ ~NullSelector(sel) =>
                  ~d.S /\ d.next \in {"zeros", "ones", "kernel"}
<1> DEFINE sel == m.selector[s]
           d   == m.gdt[sel.index]
<1>1. /\ ~sel.TI /\ sel.index \in 0 .. 31
      /\ ~NullSelector(sel) => d.access # "none"
  BY DEF WindowsSegments
<1>2. ~NullSelector(sel) =>
        (s \in SystemSegment => ~d.S /\ Canonical([high |-> d.next]))
  BY DEF WindowsSegments
<1>3. s \in {"ES", "CS", "SS", "DS"} => s \notin SystemSegment /\ s # "FS" /\ s # "GS"
  BY DEF SystemSegment
<1>4. s \in SystemSegment => s # "FS" /\ s # "GS"
  BY DEF SystemSegment
<1> DEFINE base == CASE s = "FS" -> m.FsBase
                     [] s = "GS" -> m.GsBase
                     [] s \in SystemSegment -> [low |-> d.base, high |-> d.next]
                     [] OTHER -> [low |-> d.base, high |-> "zeros"]
<1>5. Loaded(m, s).access = d.access /\ Loaded(m, s).base = base BY DEF Loaded
<1> HIDE DEF d
<1>6. s \in {"ES", "CS", "SS", "DS"} => base = [low |-> d.base, high |-> "zeros"] BY <1>3
<1>7. s \in SystemSegment => base = [low |-> d.base, high |-> d.next] BY <1>4
<1> HIDE DEF base, sel
<1>8. /\ s \in {"ES", "CS", "SS", "DS"} => Loaded(m, s).base.high = "zeros"
      /\ s \in SystemSegment => Loaded(m, s).base.high = d.next
  BY <1>5, <1>6, <1>7
<1>9. s \in SystemSegment /\ ~NullSelector(sel) => ~d.S /\ d.next \in {"zeros", "ones", "kernel"}
  BY <1>2 DEF Canonical
<1> QED BY <1>1, <1>5, <1>8, <1>9 DEF d, sel

LEMMA GuestTaken ==
  ASSUME NEW m, WindowsSegments(m) PROVE GuestStateValid(GuestSegments(m))
<1> DEFINE g == GuestSegments(m)
<1>1. ASSUME NEW s \in Segment
      PROVE  /\ g[s].selector = m.selector[s] /\ ~m.selector[s].TI
             /\ g[s].unusable <=> NullSelector(m.selector[s])
             /\ ~NullSelector(m.selector[s]) =>
                  g[s].base = Loaded(m, s).base /\ g[s].access # "none"
  <2>1. /\ ~m.selector[s].TI
        /\ ~NullSelector(m.selector[s]) => Loaded(m, s).access # "none"
    BY Tables
  <2>2. /\ g[s].selector = m.selector[s]
        /\ g[s].unusable = NullSelector(m.selector[s])
        /\ ~NullSelector(m.selector[s]) => g[s] = Loaded(m, s)
    BY GuestSegmentIs
  <2> QED BY <2>1, <2>2
<1>2. {"ES", "CS", "SS", "DS", "FS", "GS", "LDTR", "TR"} = Segment
  BY DEF Segment, DataSegment, SystemSegment
<1>3. Canonical(g["FS"].base) /\ Canonical(g["GS"].base)
  BY DEF GuestSegments, WindowsSegments, Segment, DataSegment, HvFillGuestSelectorData
<1>4. ASSUME NEW s \in {"LDTR", "TR"}, ~NullSelector(m.selector[s]) PROVE Canonical(g[s].base)
  <2>1. s \in Segment /\ s \in SystemSegment BY <1>2 DEF SystemSegment
  <2>2. g[s].base.high \in {"zeros", "ones", "kernel"} BY <1>1, <1>4, <2>1, Tables
  <2> QED BY <2>2 DEF Canonical
<1>5. ASSUME NEW s \in {"ES", "CS", "SS", "DS"}, ~NullSelector(m.selector[s])
      PROVE  g[s].base.high = "zeros"
  BY <1>1, <1>2, <1>5, Tables
<1>6. /\ ~NullSelector(m.selector["CS"]) /\ ~NullSelector(m.selector["TR"])
      /\ m.selector["SS"].RPL = m.selector["CS"].RPL
  BY DEF WindowsSegments
<1> HIDE DEF g
<1>7. /\ \A s \in Segment : g[s].unusable \/ g[s].access # "none"
      /\ g["SS"].selector.RPL = g["CS"].selector.RPL
      /\ ~g["TR"].unusable /\ ~g["TR"].selector.TI
      /\ g["CS"].base.high = "zeros"
      /\ \A s \in {"SS", "DS", "ES"} : ~g[s].unusable => g[s].base.high = "zeros"
  BY <1>1, <1>2, <1>5, <1>6
<1>8. /\ \A s \in {"TR", "FS", "GS"} : Canonical(g[s].base)
      /\ ~g["LDTR"].unusable => ~g["LDTR"].selector.TI /\ Canonical(g["LDTR"].base)
  BY <1>1, <1>2, <1>3, <1>4, <1>6
<1>9. GuestStateValid(g) BY <1>7, <1>8 DEF GuestStateValid
<1> QED BY <1>9 DEF g

LEMMA HostTaken ==
  ASSUME NEW m, WindowsSegments(m) PROVE HostStateValid(HostSegments(m))
<1> DEFINE h == HostSegments(m)
<1>1. ASSUME NEW s \in HostSegment
      PROVE  h.selector[s].index = m.selector[s].index % 32
             /\ ~h.selector[s].TI /\ h.selector[s].RPL = 0
  BY DEF HostSegments, HostSelector, AsmGetSelector
<1>2. \A s \in {"CS", "TR"} : s \in HostSegment /\ s \in Segment /\ ~NullSelector(m.selector[s])
  BY DEF HostSegment, Segment, DataSegment, SystemSegment, WindowsSegments
<1>3. ASSUME NEW s \in {"CS", "TR"} PROVE ~NullSelector(h.selector[s])
  <2>1. m.selector[s].index \in 0 .. 31 /\ m.selector[s].index # 0
    BY <1>2, Tables DEF NullSelector
  <2>2. m.selector[s].index % 32 = m.selector[s].index BY <2>1
  <2>3. h.selector[s].index = m.selector[s].index BY <1>1, <1>2, <2>2
  <2> QED BY <2>1, <2>3 DEF NullSelector
<1>4. Canonical(h.TrBase)
  <2> DEFINE sel == m.selector["TR"]
             d == m.gdt[sel.index]
  <2>1. "TR" \in Segment /\ "TR" \in SystemSegment /\ ~NullSelector(sel)
    BY <1>2 DEF SystemSegment
  <2>2. ~sel.TI /\ ~d.S /\ d.next \in {"zeros", "ones", "kernel"} BY <2>1, Tables
  <2>3. h.TrBase = HvGetSegmentDescriptor(m, sel).BASE BY DEF HostSegments, AsmGetSelector
  <2> HIDE DEF h, sel
  <2>4. h.TrBase.high = d.next BY <2>2, <2>3 DEF HvGetSegmentDescriptor
  <2> QED BY <2>2, <2>4 DEF Canonical
<1>5. Canonical(h.FsBase) /\ Canonical(h.GsBase)
  BY DEF HostSegments, WindowsSegments
<1> HIDE DEF h
<1>6. ~NullSelector(h.selector["CS"]) /\ ~NullSelector(h.selector["TR"]) BY <1>3
<1>7. HostStateValid(h)
  BY <1>1, <1>4, <1>5, <1>6 DEF HostStateValid
<1> QED BY <1>7 DEF h

(* VM entry refuses no VMCS that VmxSetupVmcs writes on such a machine.    *)
THEOREM NoLaunchFails ==
  ASSUME \A m \in Machines : WindowsSegments(m) /\ Consistent(m)
  PROVE  Spec => []LaunchAccepted
<1>1. ASSUME VmcsInv PROVE LaunchAccepted
  <2> SUFFICES ASSUME NEW c \in Core, mode[c] = "failed" PROVE FALSE
    BY DEF LaunchAccepted
  <2>1. WindowsSegments(machine) /\ Consistent(machine) BY <1>1 DEF VmcsInv
  <2>2. GuestStateValid(GuestSegments(machine)) /\ HostStateValid(HostSegments(machine))
    BY <2>1, GuestTaken, HostTaken
  <2>3. \A f \in Control : /\ machine.capability[f].Low \subseteq Controls(machine)[f]
                          /\ Controls(machine)[f] \subseteq machine.capability[f].High
    BY <2>1, ControlsTaken
  <2> QED BY <1>1, <2>2, <2>3 DEF VmcsInv
<1> QED BY VmcsInvariance, <1>1, PTL

(* A page table exists only where the check has passed, and a core is      *)
(* launched only where a page table exists.                                *)
CheckedInv ==
  /\ stage # "Mtrr" => EptCheckFeatures(machine)
  /\ \A c \in Core : mode[c] # "off" => stage # "Mtrr"

LEMMA CheckedStep ==
  VmcsInv /\ CheckedInv /\ [Next]_vars => CheckedInv'
<1> SUFFICES ASSUME VmcsInv, CheckedInv, [Next]_vars PROVE CheckedInv'
  OBVIOUS
<1>1. machine' = machine /\ mode \in [Core -> {"off", "guest", "host", "failed"}]
  BY Components DEF VmcsInv, VmcsStep, vmcsVars, LaunchDpcReturns, DrvClose, TerminateDpcReturns,
     ReadInitiateCr3, VmxVirtualizeCurrentSystem, VmExit, VmxVmresume, VmxVmxoff, ContextSwitch,
     ProcessExit
<1>2. stage' = stage \/ stage # "Mtrr" \/ EptCheckFeatures(machine)
  <2>1. CASE Prepare
    BY <2>1 DEF Prepare, EptPageHook, eptVars
  <2>2. CASE Launch \/ Terminate \/ Handle \/ Run \/ UNCHANGED vars
    BY <2>2 DEF Launch, Terminate, Handle, Run, vars, eptVars, Launched, HvTerminateVmx,
       EptPageHook, EptHandlePageHookExit
  <2> QED BY <2>1, <2>2 DEF Next
<1>3. stage' = "Mtrr" => stage = "Mtrr"
  BY Components DEF EptStep, eptVars, ReadVariableRange, CreateIdentityPageTable, Launched,
     HvTerminateVmx, EptPageHook, EptHandlePageHookExit
<1>4. ASSUME NEW c \in Core, mode[c] = "off", mode'[c] # "off" PROVE stage # "Mtrr"
  BY <1>1, <1>4 DEF Next, vars, Prepare, Launch, Terminate, Handle, Run, vmcsVars,
     LaunchDpcReturns, DrvClose, TerminateDpcReturns, ReadInitiateCr3,
     VmxVirtualizeCurrentSystem, VmExit, VmxVmresume, VmxVmxoff, ContextSwitch, ProcessExit
<1> QED BY <1>1, <1>2, <1>3, <1>4 DEF CheckedInv, EptCheckFeatures

(* Whatever a processor lacks, no guest runs that would miss it: one       *)
(* without EPT is turned away, the instructions of the others go on to     *)
(* work.                                                                   *)
THEOREM NothingMissed ==
  ASSUME \A m \in Machines : Architectural(m)
  PROVE  Spec => []DroppedControlsNotMissed
<1>1. ASSUME VmcsInv, CheckedInv PROVE DroppedControlsNotMissed
  <2> SUFFICES ASSUME NEW c \in Core, mode[c] = "guest",
                      NEW control \in {"EPT"} \cup machine.instructions
               PROVE  Active(vmcs[c], control)
    BY DEF DroppedControlsNotMissed
  <2>1. Architectural(machine) /\ vmcs[c].controls = Controls(machine) BY <1>1 DEF VmcsInv
  <2>2. EptCheckFeatures(machine) BY <1>1 DEF CheckedInv
  <2>3. control \in Wanted["Secondary"] \cap machine.capability["Secondary"].High
    BY <2>1, <2>2 DEF Architectural, EptCheckFeatures, Wanted, Control
  <2>4. "SECONDARY_CONTROLS" \in machine.capability["Primary"].High
    BY <2>1, <2>3 DEF Architectural
  <2>5. /\ control \in Controls(machine)["Secondary"]
        /\ "SECONDARY_CONTROLS" \in Controls(machine)["Primary"]
    BY <2>3, <2>4 DEF Controls, Control, HvAdjustControls, Wanted
  <2> QED BY <2>1, <2>5 DEF Active
<1>2. VmcsInv /\ [Next]_vars => VmcsInv' BY Components, VmcsInvStep
<1>3. Init => CheckedInv BY DEF Init, EptInit, VmcsInit, CheckedInv
<1> QED BY VmcsInitInv, <1>1, <1>2, <1>3, CheckedStep, PTL DEF Spec

--------------------------------------------------------------------------
(* The type invariant of Setup.                                            *)

(* What the other invariants leave open.                                   *)
RestInv ==
  /\ stage \in {"Mtrr", "Overrun", "Built", "Launched", "Closed"}
  /\ asked \in 0 .. MaxAsked
  /\ InitiateCr3 \in Process \cup {NULL}

LEMMA RestInit == Init => RestInv
BY QuarterAssumption DEF Init, EptInit, MsrInit, VmcsInit, RestInv

LEMMA RestStep == SpaceInv /\ RestInv /\ [Next]_vars => RestInv'
<1> SUFFICES ASSUME SpaceInv, RestInv, [Next]_vars PROVE RestInv'
  OBVIOUS
<1>1. [EptStep]_eptVars /\ [MsrStep]_msrVars /\ [VmcsStep]_vmcsVars BY Components
<1>2. stage' \in {"Mtrr", "Overrun", "Built", "Launched", "Closed"}
  BY <1>1 DEF RestInv, EptStep, eptVars, ReadVariableRange, CreateIdentityPageTable, Launched,
     HvTerminateVmx, EptPageHook, EptHandlePageHookExit
<1>3. asked' \in 0 .. MaxAsked
  BY <1>1, QuarterAssumption DEF RestInv, MsrStep, msrVars, HvSetMsrBitmap
<1>4. InitiateCr3' \in Process \cup {NULL}
  BY <1>1 DEF SpaceInv, RestInv, VmcsStep, vmcsVars, spaces, LaunchDpcReturns, DrvClose,
     TerminateDpcReturns, ReadInitiateCr3, VmxVirtualizeCurrentSystem, VmExit, VmxVmresume,
     VmxVmxoff, ContextSwitch, ProcessExit
<1> QED BY <1>2, <1>3, <1>4 DEF RestInv

(* Counts stay within their arrays and their bounds, buffers and frames    *)
(* are such, and a core that has left "off" has a filled VMCS.             *)
THEOREM SetupTyping == Spec => []TypeOK
<1>1. SpaceInv /\ RestInv /\ [Next]_vars => RestInv' BY RestStep
<1>2. StoredInv /\ [Next]_vars => StoredInv' BY Components, StoredInvStep
<1>3. BitmapInv /\ [Next]_vars => BitmapInv' BY Components, BitmapStep
<1>4. ASSUME RestInv, StoredInv, BufferInv, LinkInv, TableInv PROVE EptTypeOK
  <2>1. ASSUME NEW i \in 0 .. NumberOfEnabledMemoryRanges - 1
        PROVE  MemoryRanges[i].MemoryType \in MemoryType
    <3>1. PICK j \in 1 .. CurrentRegister : MemoryRanges[i] = Descriptor(mtrr[j])
      BY <1>4 DEF StoredInv
    <3>2. j \in 1 .. Len(mtrr) /\ mtrr \in Seq(VariableRange) BY <1>4 DEF StoredInv
    <3>3. mtrr[j] \in VariableRange BY <3>2
    <3> QED BY <3>1, <3>3 DEF Descriptor, VariableRange
  <2>2. DOMAIN PML2 = Index \X Index /\ DOMAIN split = Buffer BY <1>4 DEF TableInv
  <2> QED
    BY <1>4, <2>1, <2>2 DEF EptTypeOK, RestInv, StoredInv, BufferInv, LinkInv, TableInv
<1>5. BitmapInv /\ RestInv => MsrTypeOK BY DEF BitmapInv, RestInv, MsrTypeOK
<1>6. ASSUME SpaceInv, RestInv, VmcsInv PROVE VmcsTypeOK
  <2>1. ASSUME NEW c \in Core, mode[c] # "off"
        PROVE  DOMAIN vmcs[c] = {"guest", "host", "controls"}
    BY <1>6, <2>1 DEF VmcsInv
  <2>2. ASSUME NEW c \in Core, mode[c] = "guest" PROVE DOMAIN seg[c] = Segment
    BY <1>6, <2>2 DEF VmcsInv, GuestSegments
  <2>3. proc \in [Core -> Process] BY <1>6 DEF SpaceInv
  <2> QED BY <1>6, <2>1, <2>2, <2>3 DEF VmcsTypeOK, SpaceInv, RestInv
<1> QED
  BY SpaceInvariance, TableInvariance, VmcsInvariance, RestInit, StoredInit, BitmapInit,
     <1>1, <1>2, <1>3, <1>4, <1>5, <1>6, PTL DEF Spec, TypeOK
=============================================================================
