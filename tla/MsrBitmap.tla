----------------------------- MODULE MsrBitmap -----------------------------
(***************************************************************************)
(* The MSR bitmap of a core: VmxAllocateMsrBitmap clears it, and           *)
(* HvSetMsrBitmap sets bits in its four quarters with SetBit (Common.c),   *)
(* so that RDMSR or WRMSR of an MSR leaves the guest.  The driver ships    *)
(* with its one call of HvSetMsrBitmap commented out; here any core may    *)
(* ask for any MSR while the driver is being initialised.                  *)
(***************************************************************************)
EXTENDS Cores, Naturals

CONSTANTS
  Quarter,   \* bytes of the bitmap for one access to one range (1024)
  HighBase,  \* first MSR of the high range (C0000000H)
  Msrs,      \* the MSRs somebody may ask for, or access
  MaxAsked   \* bound: calls of HvSetMsrBitmap

ASSUME QuarterAssumption == Quarter \in Nat \ {0} /\ HighBase \in Nat /\ MaxAsked \in Nat
ASSUME RangeAssumption == HighBase >= 8 * Quarter /\ Msrs \subseteq Nat

VARIABLES
  bitmap,    \* the bits that are set in each byte of each core's bitmap
  detected,  \* history: the accesses each core was asked to detect
  asked      \* calls of HvSetMsrBitmap

msrVars == <<bitmap, detected, asked>>

Byte == 0 .. 4 * Quarter - 1

Access == {"read", "write"}

MsrInit == /\ bitmap = [c \in Core |-> [b \in Byte |-> {}]]
           /\ detected = [c \in Core |-> {}] /\ asked = 0

LowRange  == 0 .. 8 * Quarter - 1
HighRange == HighBase .. HighBase + 8 * Quarter - 1

(* Mutant: SetBit counts the bits of a byte from the other end, as GetBit. *)
SetBitFromTheLeft(map, addr, bit) ==
  [map EXCEPT ![addr + (bit \div 8)] = @ \cup {7 - (bit % 8)}]

(* SetBit with Set = TRUE; n counts from the lowest bit.                   *)
SetBit(map, addr, bit) ==
  [map EXCEPT ![addr + (bit \div 8)] = @ \cup {bit % 8}]

(* One access of HvSetMsrBitmap: which quarter, and which bit of it.       *)
SetAccess(map, msr, access, wanted) ==
  LET half == IF access = "read" THEN 0 ELSE 2 * Quarter
  IN  IF ~wanted THEN map
      ELSE IF msr \in LowRange THEN SetBit(map, half, msr)
      ELSE SetBit(map, half + Quarter, msr - HighBase)

(* An MSR of neither range is refused, as is a call that detects nothing.  *)
HvSetMsrBitmap(c, msr, ReadDetection, WriteDetection) ==
  /\ asked < MaxAsked /\ asked' = asked + 1
  /\ IF (ReadDetection \/ WriteDetection) /\ msr \in LowRange \cup HighRange
     THEN /\ bitmap' = [bitmap EXCEPT ![c] =
                          SetAccess(SetAccess(@, msr, "read", ReadDetection),
                                    msr, "write", WriteDetection)]
          /\ detected' = [detected EXCEPT ![c] = @ \cup
               {<<msr, a>> : a \in {x \in Access : IF x = "read" THEN ReadDetection
                                                   ELSE WriteDetection}}]
     ELSE UNCHANGED <<bitmap, detected>>

--------------------------------------------------------------------------
(* Properties                                                              *)

(* Type invariant.                                                         *)
MsrTypeOK == /\ bitmap \in [Core -> [Byte -> SUBSET (0 .. 7)]]
             /\ detected \in [Core -> SUBSET (Msrs \X Access)]
             /\ asked \in 0 .. MaxAsked

(* The processor: an MSR of neither range exits; otherwise bit n of the    *)
(* quarter for the access and the range decides, n being the MSR's low     *)
(* bits and bit 0 of a byte its lowest.                                    *)
AccessExits(map, msr, access) ==
  LET n      == IF msr \in HighRange THEN msr - HighBase ELSE msr
      region == (IF access = "write" THEN 2 ELSE 0) + (IF msr \in HighRange THEN 1 ELSE 0)
  IN  \/ msr \notin LowRange \cup HighRange
      \/ n % 8 \in map[region * Quarter + (n \div 8)]

(* Exactly the accesses that were asked for leave the guest, and those to  *)
(* MSRs outside both ranges, which the bitmap cannot name: no request      *)
(* reaches into another quarter, another byte or another core.             *)
ExactlyDetectedAccessesExit ==
  \A c \in Core, msr \in Msrs, a \in Access :
    AccessExits(bitmap[c], msr, a)
      <=> msr \notin LowRange \cup HighRange \/ <<msr, a>> \in detected[c]
==========================================================================
