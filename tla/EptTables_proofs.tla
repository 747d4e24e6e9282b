--------------------------- MODULE EptTables_proofs ---------------------------
(***************************************************************************)
(* Theorems about the page table that Setup builds, splits and hooks, for  *)
(* any size of a paging structure, any MTRRs and any hooks: what Walk      *)
(* finds, and how the table and DynamicSplitList agree.                    *)
(***************************************************************************)
EXTENDS Setup_proofs

--------------------------------------------------------------------------
(* Division by a number that is not known.                                 *)

LEMMA Division ==
  ASSUME NEW a \in Nat, NEW n \in Nat \ {0}
  PROVE  a = (a \div n) * n + (a % n) /\ a % n \in 0 .. n - 1 /\ a \div n \in Nat
<1>1. a \div n \in Nat /\ a % n \in 0 .. n - 1 OBVIOUS
<1>2. a = n * (a \div n) + (a % n) OBVIOUS
<1>3. n * (a \div n) = (a \div n) * n BY <1>1
<1> QED BY <1>1, <1>2, <1>3

LEMMA Quotient ==
  ASSUME NEW a \in Nat, NEW n \in Nat \ {0}, NEW q \in Nat, NEW r \in 0 .. n - 1,
         a = q * n + r
  PROVE  a \div n = q /\ a % n = r
OBVIOUS

LEMMA Within ==
  ASSUME NEW n \in Nat \ {0}, NEW m \in Nat, NEW s \in 0 .. m - 1, NEW r \in 0 .. n - 1
  PROVE  s * n + r \in 0 .. m * n - 1
<1> DEFINE x == s * n
           y == m * n
<1>1. s * n <= (m - 1) * n /\ s * n \in Nat OBVIOUS
<1>2. (m - 1) * n = m * n - n /\ m * n \in Nat OBVIOUS
<1>3. x \in Nat /\ y \in Nat /\ x <= y - n BY <1>1, <1>2
<1> HIDE DEF x, y
<1>4. x + r \in 0 .. y - 1 BY <1>3
<1> QED BY <1>4 DEF x, y

LEMMA Nested ==
  ASSUME NEW p \in Nat, NEW s \in Nat, NEW n \in Nat
  PROVE  (p * n + s) * n = p * (n * n) + s * n
<1>1. (p * n + s) * n = p * n * n + s * n OBVIOUS
<1> QED BY <1>1

--------------------------------------------------------------------------
(* The three indices of a frame and the frame of three indices.            *)

FrameAt(e, i) == (e[1] * Entries + e[2]) * Entries + i

(* Dividing twice by Entries is dividing by its square.                    *)
LEMMA Twice ==
  ASSUME NEW p \in Nat, NEW s \in Index, NEW r \in Index,
         NEW f \in Nat, f = (p * Entries + s) * Entries + r
  PROVE  f \div (Entries * Entries) = p
<1> DEFINE E == Entries
           n == E * E
           t == s * E + r
<1>1. E \in Nat \ {0} /\ s \in 0 .. E - 1 /\ r \in 0 .. E - 1 /\ s \in Nat /\ r \in Nat
  BY SizeAssumption DEF Index
<1>2. n \in Nat \ {0} BY <1>1
<1>3. t \in 0 .. n - 1 BY <1>1, Within
<1>4. f = p * n + t
  <2>1. f = (p * E + s) * E + r OBVIOUS
  <2>2. (p * E + s) * E = p * (E * E) + s * E BY <1>1, Nested
  <2>3. p * (E * E) \in Nat /\ s * E \in Nat BY <1>1
  <2> QED BY <1>1, <2>1, <2>2, <2>3
<1> HIDE DEF n, t
<1>5. f \div n = p BY <1>2, <1>3, <1>4, Quotient
<1> QED BY <1>5 DEF n

(* A frame below the limit is the one at its indices.                      *)
LEMMA Position ==
  ASSUME NEW f \in Mapped
  PROVE  /\ EntryOf(f) \in Index \X Index /\ PML1Index(f) \in Index
         /\ f = FrameAt(EntryOf(f), PML1Index(f))
         /\ f \in Nat /\ PML4Index(f) = 0
<1> DEFINE E == Entries
           q == f \div E
           r == f % E
           p == q \div E
           s == q % E
<1>1. E \in Nat \ {0} /\ f \in Nat /\ f < E * E * E BY SizeAssumption DEF Mapped
<1>2. q \in Nat /\ r \in 0 .. E - 1 /\ f = q * E + r BY <1>1, Division
<1>3. p \in Nat /\ s \in 0 .. E - 1 /\ q = p * E + s BY <1>1, <1>2, Division
<1>4. PML1Index(f) = r /\ PML2Index(f) = s BY DEF PML1Index, PML2Index
<1> HIDE DEF q, r, p, s
<1>5. q < E * E BY <1>1, <1>2
<1>6. p < E BY <1>1, <1>3, <1>5
<1>7. p \in Index /\ s \in Index /\ r \in Index BY <1>1, <1>2, <1>3, <1>6 DEF Index
<1>8. f = (p * E + s) * E + r BY <1>2, <1>3
<1>9. PML3Index(f) = p
  <2>1. f \div (E * E) = p BY <1>1, <1>3, <1>7, <1>8, Twice
  <2>2. p % E = p BY <1>1, <1>3, <1>6
  <2> QED BY <2>1, <2>2 DEF PML3Index
<1>10. PML4Index(f) = 0
  <2> DEFINE n == E * E * E
  <2>1. n \in Nat \ {0} /\ f \in 0 .. n - 1 BY <1>1
  <2>2. f = 0 * n + f BY <1>1, <2>1
  <2> HIDE DEF n
  <2>3. f \div n = 0 BY <1>1, <2>1, <2>2, Quotient
  <2> QED BY <2>3 DEF n, PML4Index
<1>11. EntryOf(f) = <<p, s>> BY <1>4, <1>9 DEF EntryOf
<1> QED BY <1>1, <1>4, <1>7, <1>8, <1>10, <1>11 DEF FrameAt

(* And the indices of the frame at some indices are these.                 *)
LEMMA AtPosition ==
  ASSUME NEW e \in Index \X Index, NEW i \in Index
  PROVE  /\ FrameAt(e, i) \in Mapped
         /\ EntryOf(FrameAt(e, i)) = e /\ PML1Index(FrameAt(e, i)) = i
<1> DEFINE E == Entries
           x == e[1]
           y == e[2]
           q == x * E + y
           f == q * E + i
<1>1. /\ x \in Index /\ y \in Index /\ e = <<x, y>> /\ x \in Nat /\ y \in Nat /\ i \in Nat
      /\ E \in Nat \ {0} /\ x < E /\ y < E /\ i < E
  BY SizeAssumption DEF Index
<1> HIDE DEF x, y
<1>2. q \in Nat /\ q \div E = x /\ q % E = y BY <1>1, Quotient
<1>3. q < E * E BY <1>1
<1> HIDE DEF q
<1>4. f \in Nat /\ f \div E = q /\ f % E = i BY <1>1, <1>2, Quotient
<1>5. f < E * E * E BY <1>1, <1>2, <1>3
<1> HIDE DEF f
<1>6. f \in Mapped BY <1>1, <1>4, <1>5 DEF Mapped
<1>7. PML1Index(f) = i /\ PML2Index(f) = y BY <1>2, <1>4 DEF PML1Index, PML2Index
<1>8. PML3Index(f) = x
  <2>1. f = (x * E + y) * E + i BY DEF f, q
  <2>2. f \div (E * E) = x BY <1>1, <1>4, <2>1, Twice
  <2>3. x % E = x BY <1>1
  <2> QED BY <2>2, <2>3 DEF PML3Index
<1>9. f = FrameAt(e, i) BY DEF FrameAt, f, q, x, y
<1> QED BY <1>1, <1>6, <1>7, <1>8, <1>9 DEF EntryOf

(* Only frames below the limit have no fourth index.                       *)
LEMMA Below ==
  ASSUME NEW f \in Nat, PML4Index(f) = 0 PROVE f \in Mapped
<1> DEFINE n == Entries * Entries * Entries
<1>1. n \in Nat \ {0} BY SizeAssumption
<1>2. f \div n = 0 BY DEF PML4Index
<1> HIDE DEF n
<1>3. f = (f \div n) * n + (f % n) /\ f % n < n BY <1>1, Division
<1>4. f < n BY <1>1, <1>2, <1>3
<1> QED BY <1>1, <1>4 DEF Mapped, n

--------------------------------------------------------------------------
(* The list of splits.                                                     *)

(* A buffer is numbered by the call that allocated it.  It is on offer on  *)
(* one core, or linked once, or lost; what is linked is live.              *)
LinkInv ==
  /\ calls \in 0 .. MaxHooks
  /\ \A i, j \in DOMAIN DynamicSplitList :
       i # j => DynamicSplitList[i] # DynamicSplitList[j]
  /\ \A b \in InList : b <= calls /\ \A c \in Core : PreAllocatedBuffer[c] # b
  /\ \A c \in Core : PreAllocatedBuffer[c] # NULL =>
       /\ PreAllocatedBuffer[c] <= calls /\ PreAllocatedBuffer[c] \in live
       /\ \A d \in Core \ {c} : PreAllocatedBuffer[d] # PreAllocatedBuffer[c]
  /\ stage # "Closed" => InList \subseteq live
  /\ stage \in {"Mtrr", "Overrun"} => DynamicSplitList = <<>> /\ hooked = {}

LEMMA LinkInit == Init => LinkInv
BY SizeAssumption DEF Init, EptInit, LinkInv, InList

Once(s)    == \A i, j \in DOMAIN s : i # j => s[i] # s[j]
Members(s) == {s[i] : i \in DOMAIN s}

(* A buffer in front of a list that does not have it.                      *)
LEMMA Prepended ==
  ASSUME NEW s \in Seq(Buffer), NEW b \in Buffer,
         Once(s), b \notin Members(s)
  PROVE  Once(<<b>> \o s) /\ Members(<<b>> \o s) = {b} \cup Members(s)
<1> DEFINE t == <<b>> \o s
<1>1. /\ DOMAIN t = 1 .. Len(s) + 1 /\ DOMAIN s = 1 .. Len(s) /\ Len(s) \in Nat /\ t[1] = b
      /\ \A i \in 2 .. Len(s) + 1 : t[i] = s[i - 1]
      /\ \A i \in 1 .. Len(s) : t[i + 1] = s[i]
  OBVIOUS
<1> USE DEF Once, Members
<1> HIDE DEF t
<1>2. ASSUME NEW i \in DOMAIN t, NEW j \in DOMAIN t, i # j PROVE t[i] # t[j]
  <2>1. CASE i = 1 BY <1>1, <1>2, <2>1
  <2>2. CASE j = 1 BY <1>1, <1>2, <2>2
  <2>3. CASE i # 1 /\ j # 1
    <3>1. i - 1 \in DOMAIN s /\ j - 1 \in DOMAIN s /\ i - 1 # j - 1
      BY <1>1, <1>2, <2>3
    <3>2. t[i] = s[i - 1] /\ t[j] = s[j - 1] BY <1>1, <2>3
    <3> QED BY <3>1, <3>2
  <2> QED BY <2>1, <2>2, <2>3
<1>3. {t[i] : i \in DOMAIN t} \subseteq {b} \cup {s[i] : i \in DOMAIN s}
  <2> SUFFICES ASSUME NEW i \in DOMAIN t, t[i] # b PROVE t[i] \in {s[j] : j \in DOMAIN s}
    OBVIOUS
  <2>1. i - 1 \in DOMAIN s /\ t[i] = s[i - 1] BY <1>1
  <2> QED BY <2>1
<1>4. {b} \cup {s[i] : i \in DOMAIN s} \subseteq {t[i] : i \in DOMAIN t}
  <2>1. 1 \in DOMAIN t BY <1>1
  <2>2. ASSUME NEW i \in DOMAIN s PROVE s[i] \in {t[j] : j \in DOMAIN t}
    <3>1. i + 1 \in DOMAIN t /\ t[i + 1] = s[i] BY <1>1
    <3> QED BY <3>1
  <2> QED BY <1>1, <2>1, <2>2
<1> QED BY <1>2, <1>3, <1>4 DEF t

(* The buffers on offer to a call of EptPageHook on core c that has found  *)
(* memory if it needed any.                                                *)
OnOffer(c) == IF PreAllocatedBuffer[c] = NULL
              THEN [PreAllocatedBuffer EXCEPT ![c] = calls + 1]
              ELSE PreAllocatedBuffer

(* A call of EptPageHook: no memory, no hook, a hook on a page that is     *)
(* split already, or a hook that splits.                                   *)
LEMMA HookCases ==
  ASSUME NEW c \in Core, NEW d \in Core, NEW f \in Functions, EptPageHook(c, d, f)
  PROVE  /\ HasTable /\ stage' = stage /\ calls < MaxHooks /\ calls' = calls + 1
         /\ UNCHANGED <<mtrr, mtrrMap>>
         /\ \/ UNCHANGED <<PML2, splits, hooked>>
            \/ /\ UNCHANGED <<PML2, split, DynamicSplitList, hooked>>
               /\ PreAllocatedBuffer' = OnOffer(c) /\ live' = live \cup {OnOffer(c)[c]}
            \/ /\ ~HookFails(d, f, OnOffer(c)) /\ HookSucceeds(d, f, OnOffer(c))
               /\ live' = live \cup {OnOffer(c)[c]}
BY DEF EptPageHook, OnOffer, HasTable

(* The buffers on offer are as distinct as before.                         *)
LEMMA OffersDistinct ==
  ASSUME BufferInv, LinkInv, NEW c \in Core, calls < MaxHooks
  PROVE  /\ OnOffer(c) \in [Core -> Buffer \cup {NULL}] /\ OnOffer(c)[c] \in Buffer
         /\ \A x \in Core : OnOffer(c)[x] # NULL =>
              /\ OnOffer(c)[x] <= calls + 1 /\ OnOffer(c)[x] \notin InList
              /\ OnOffer(c)[x] \in live \cup {OnOffer(c)[c]}
              /\ \A y \in Core \ {x} : OnOffer(c)[y] # OnOffer(c)[x]
<1>1. /\ PreAllocatedBuffer \in [Core -> Buffer \cup {NULL}] /\ calls \in 0 .. MaxHooks
      /\ InList \subseteq Buffer
  BY DEF BufferInv, LinkInv, InList
<1>2. /\ \A b \in InList : b <= calls
      /\ \A x \in Core : PreAllocatedBuffer[x] # NULL =>
           /\ PreAllocatedBuffer[x] <= calls /\ PreAllocatedBuffer[x] \in live
           /\ PreAllocatedBuffer[x] \notin InList
           /\ \A y \in Core \ {x} : PreAllocatedBuffer[y] # PreAllocatedBuffer[x]
  BY DEF LinkInv
<1>3. /\ calls + 1 \in Buffer /\ calls + 1 \notin InList
      /\ \A x \in Core : PreAllocatedBuffer[x] # calls + 1
  BY <1>1, <1>2, SizeAssumption, PointerAssumption DEF Buffer
<1>4. CASE PreAllocatedBuffer[c] = NULL
  <2>1. OnOffer(c) = [PreAllocatedBuffer EXCEPT ![c] = calls + 1]
    BY <1>4 DEF OnOffer
  <2>2. /\ OnOffer(c) \in [Core -> Buffer \cup {NULL}] /\ OnOffer(c)[c] = calls + 1
        /\ \A x \in Core \ {c} : OnOffer(c)[x] = PreAllocatedBuffer[x]
    BY <1>1, <1>3, <2>1
  <2>3. \A x \in Core : PreAllocatedBuffer[x] # NULL => PreAllocatedBuffer[x] <= calls + 1
    BY <1>1, <1>2 DEF Buffer
  <2> QED BY <1>1, <1>2, <1>3, <2>2, <2>3
<1>5. CASE PreAllocatedBuffer[c] # NULL
  BY <1>1, <1>2, <1>5 DEF OnOffer, Buffer
<1> QED BY <1>4, <1>5

LEMMA LinkStep == BufferInv /\ LinkInv /\ [EptStep]_eptVars => LinkInv'
<1> SUFFICES ASSUME BufferInv, LinkInv, [EptStep]_eptVars PROVE LinkInv'
  OBVIOUS
<1>1. CASE /\ UNCHANGED <<DynamicSplitList, PreAllocatedBuffer, calls, live>>
           /\ stage = "Closed" => stage' = "Closed"
           /\ stage' \in {"Mtrr", "Overrun"} => stage \in {"Mtrr", "Overrun"} /\ hooked' = hooked
  BY <1>1 DEF LinkInv, InList
<1>2. CASE HvTerminateVmx
  BY <1>2 DEF LinkInv, HvTerminateVmx, InList
<1>3. ASSUME NEW c \in Core, NEW d \in Core, NEW f \in Functions, EptPageHook(c, d, f)
      PROVE  LinkInv'
  <2> DEFINE pre == OnOffer(c)
  <2>1. /\ HasTable /\ stage' = stage /\ calls < MaxHooks /\ calls' = calls + 1
        /\ \/ UNCHANGED splits
           \/ UNCHANGED DynamicSplitList /\ PreAllocatedBuffer' = pre /\ live' = live \cup {pre[c]}
           \/ ~HookFails(d, f, pre) /\ HookSucceeds(d, f, pre) /\ live' = live \cup {pre[c]}
    BY <1>3, HookCases
  <2>2. /\ calls' \in 0 .. MaxHooks /\ stage \notin {"Mtrr", "Overrun", "Closed"}
        /\ InList \subseteq Buffer /\ DynamicSplitList \in Seq(Buffer)
        /\ \A b \in InList : b <= calls' /\ b \in live
        /\ \A i, j \in DOMAIN DynamicSplitList :
             i # j => DynamicSplitList[i] # DynamicSplitList[j]
    <3>1. /\ stage \notin {"Mtrr", "Overrun", "Closed"} /\ DynamicSplitList \in Seq(Buffer)
          /\ calls \in 0 .. MaxHooks /\ InList \subseteq live
          /\ \A b \in InList : b <= calls
          /\ \A i, j \in DOMAIN DynamicSplitList :
               i # j => DynamicSplitList[i] # DynamicSplitList[j]
      BY <2>1 DEF LinkInv, BufferInv, HasTable
    <3>2. InList \subseteq Buffer BY <3>1 DEF InList
    <3>3. \A b \in InList : b <= calls' BY <2>1, <3>1, <3>2, SizeAssumption DEF Buffer
    <3> QED BY <2>1, <3>1, <3>2, <3>3, SizeAssumption
  <2>3. /\ pre \in [Core -> Buffer \cup {NULL}] /\ pre[c] \in Buffer
        /\ \A x \in Core : pre[x] # NULL =>
             /\ pre[x] <= calls' /\ pre[x] \notin InList /\ pre[x] \in live \cup {pre[c]}
             /\ \A y \in Core \ {x} : pre[y] # pre[x]
    BY <2>1, OffersDistinct
  <2> HIDE DEF pre
  <2>4. CASE UNCHANGED splits
    <3>1. \A x \in Core : PreAllocatedBuffer[x] # NULL => PreAllocatedBuffer[x] <= calls'
      BY <2>1 DEF LinkInv, BufferInv, Buffer
    <3> QED BY <2>1, <2>2, <2>4, <3>1 DEF LinkInv, splits, InList
  <2>5. ASSUME UNCHANGED DynamicSplitList, live' = live \cup {pre[c]},
               PreAllocatedBuffer' = pre
        PROVE  LinkInv'
    BY <2>1, <2>2, <2>3, <2>5, PointerAssumption DEF LinkInv, InList
  <2>6. ASSUME ~HookFails(d, f, pre), HookSucceeds(d, f, pre), live' = live \cup {pre[c]}
        PROVE  LinkInv'
    <3>1. CASE ~PML2[EntryOf(f)].LargePage
      BY <2>5, <2>6, <3>1 DEF HookSucceeds
    <3>2. CASE PML2[EntryOf(f)].LargePage
      <4>1. pre[d] \in Buffer /\ pre[d] # NULL
        BY <2>3, <2>6, <3>2, PointerAssumption DEF HookFails
      <4>2. /\ DynamicSplitList' = <<pre[d]>> \o DynamicSplitList
            /\ PreAllocatedBuffer' = [pre EXCEPT ![d] = NULL]
        BY <2>6, <3>2 DEF HookSucceeds, Linked
      <4>3. /\ \A i, j \in DOMAIN DynamicSplitList' :
                 i # j => DynamicSplitList'[i] # DynamicSplitList'[j]
            /\ InList' = {pre[d]} \cup InList
        <5>1. Once(DynamicSplitList) /\ pre[d] \notin Members(DynamicSplitList)
          BY <2>2, <2>3, <4>1 DEF InList, Once, Members
        <5>2. Once(DynamicSplitList')
                /\ Members(DynamicSplitList') = {pre[d]} \cup Members(DynamicSplitList)
          BY <2>2, <4>1, <4>2, <5>1, Prepended
        <5> QED BY <5>2 DEF InList, Once, Members
      <4>4. /\ PreAllocatedBuffer'[d] = NULL
            /\ \A x \in Core \ {d} : PreAllocatedBuffer'[x] = pre[x]
        BY <2>3, <4>2
      <4>5. \A b \in InList' : b <= calls' /\ b \in live'
                               /\ \A x \in Core : PreAllocatedBuffer'[x] # b
        BY <2>2, <2>3, <2>6, <4>1, <4>3, <4>4, PointerAssumption
      <4>6. \A x \in Core : PreAllocatedBuffer'[x] # NULL =>
              /\ PreAllocatedBuffer'[x] <= calls' /\ PreAllocatedBuffer'[x] \in live'
              /\ \A y \in Core \ {x} : PreAllocatedBuffer'[y] # PreAllocatedBuffer'[x]
        BY <2>3, <2>6, <4>4
      <4> QED BY <2>1, <2>2, <4>3, <4>5, <4>6 DEF LinkInv
    <3> QED BY <3>1, <3>2
  <2> QED BY <2>1, <2>4, <2>5, <2>6
<1> QED
  BY <1>1, <1>2, <1>3 DEF EptStep, eptVars, splits, ReadVariableRange,
     CreateIdentityPageTable, Launched, EptHandlePageHookExit, HasTable

--------------------------------------------------------------------------
(* The page table.                                                         *)

Pfn(e) == e[1] * Entries + e[2]

(* What the split of entry e holds while the frames in h trap.             *)
SplitWith(e, h) ==
  [Entry |-> e,
   PML1  |-> [i \in Index |-> [PageFrameNumber |-> FrameAt(e, i),
                               ExecuteAccess |-> FrameAt(e, i) \notin h,
                               MemoryType |-> "UC"]]]

LargeAt(e) == /\ PML2[e] = EptSetupPML2Entry(Pfn(e))
              /\ \A i \in Index : FrameAt(e, i) \notin hooked

SplitAt(e) == \E b \in InList : /\ PML2[e] = PointerTo(b)
                                /\ split[b] = SplitWith(e, hooked)

(* Each entry is as it was built, with none of its frames hooked, or leads *)
(* to a linked buffer that maps the same frames and traps on the hooked    *)
(* ones; and each linked buffer is some entry's.                           *)
TableInv ==
  /\ hooked \subseteq Mapped
  /\ PML2 = [e \in Index \X Index |-> PML2[e]] /\ split = [b \in Buffer |-> split[b]]
  /\ HasTable =>
       /\ \A e \in Index \X Index : LargeAt(e) \/ SplitAt(e)
       /\ \A b \in InList : \E e \in Index \X Index : PML2[e] = PointerTo(b)

LEMMA TableInit == Init => TableInv
BY DEF Init, EptInit, TableInv, HasTable

(* A frame of another entry is another frame.                              *)
LEMMA OtherEntry ==
  ASSUME NEW e \in Index \X Index, NEW i \in Index, NEW f \in Mapped
  PROVE  FrameAt(e, i) = f <=> e = EntryOf(f) /\ i = PML1Index(f)
BY Position, AtPosition

(* Taking or giving one frame its execute access in a split.               *)
LEMMA Rehooked ==
  ASSUME NEW f \in Mapped, NEW h, NEW g, NEW x \in BOOLEAN,
         f \in g <=> ~x, \A y \in Mapped \ {f} : y \in g <=> y \in h
  PROVE  [SplitWith(EntryOf(f), h) EXCEPT !.PML1[PML1Index(f)].ExecuteAccess = x]
           = SplitWith(EntryOf(f), g)
<1> DEFINE e == EntryOf(f)
           j == PML1Index(f)
           P(k) == [i \in Index |-> [PageFrameNumber |-> FrameAt(e, i),
                                    ExecuteAccess |-> FrameAt(e, i) \notin k,
                                    MemoryType |-> "UC"]]
<1>1. e \in Index \X Index /\ j \in Index /\ FrameAt(e, j) = f BY Position
<1>2. \A i \in Index : FrameAt(e, i) \in Mapped /\ (i # j => FrameAt(e, i) # f)
  BY <1>1, AtPosition, OtherEntry
<1>3. [P(h) EXCEPT ![j].ExecuteAccess = x] = P(g)
  <2>1. \A i \in Index \ {j} : P(h)[i] = P(g)[i] BY <1>2
  <2>2. [P(h)[j] EXCEPT !.ExecuteAccess = x] = P(g)[j] BY <1>1
  <2>3. [P(h) EXCEPT ![j] = [@ EXCEPT !.ExecuteAccess = x]] = P(g)
    <3> DEFINE Q == [P(h) EXCEPT ![j] = [@ EXCEPT !.ExecuteAccess = x]]
    <3>1. Q = [i \in Index |-> Q[i]] OBVIOUS
    <3>2. \A i \in Index : Q[i] = P(g)[i] BY <1>1, <2>1, <2>2
    <3> QED BY <3>1, <3>2
  <2> QED BY <2>3
<1>4. \A k : SplitWith(e, k) = [Entry |-> e, PML1 |-> P(k)] BY DEF SplitWith
<1> HIDE DEF P, e, j
<1>5. [[Entry |-> e, PML1 |-> P(h)] EXCEPT !.PML1[j].ExecuteAccess = x]
        = [Entry |-> e, PML1 |-> [P(h) EXCEPT ![j].ExecuteAccess = x]]
  OBVIOUS
<1> QED BY <1>3, <1>4, <1>5 DEF e, j

(* Entry e of frame f is made to lead to buffer b, which maps the frames   *)
(* of e and traps on those now hooked; b was not in the list, or was that  *)
(* of e.                                                                   *)
LEMMA Resplit ==
  ASSUME TableInv, HasTable, NEW f \in Mapped, NEW b \in Buffer,
         UNCHANGED <<MemoryRanges, NumberOfEnabledMemoryRanges>>,
         \/ LargeAt(EntryOf(f)) /\ b \notin InList
         \/ PML2[EntryOf(f)] = PointerTo(b) /\ split[b].Entry = EntryOf(f) /\ b \in InList,
         PML2' = [PML2 EXCEPT ![EntryOf(f)] = PointerTo(b)],
         split' = [split EXCEPT ![b] = SplitWith(EntryOf(f), hooked')],
         InList' = InList \cup {b},
         hooked' \subseteq Mapped, \A g \in Mapped \ {f} : g \in hooked' <=> g \in hooked
  PROVE  TableInv'
<1> DEFINE e == EntryOf(f)
<1>1. e \in Index \X Index BY Position
<1>2. /\ \A x \in Index \X Index : PML2'[x] = IF x = e THEN PointerTo(b) ELSE PML2[x]
      /\ \A y \in Buffer : split'[y] = IF y = b THEN SplitWith(e, hooked') ELSE split[y]
      /\ PML2' = [x \in Index \X Index |-> PML2'[x]] /\ split' = [y \in Buffer |-> split'[y]]
  BY <1>1 DEF TableInv
<1>3. \A x \in (Index \X Index) \ {e}, i \in Index :
        FrameAt(x, i) \in Mapped /\ FrameAt(x, i) # f
  BY <1>1, AtPosition, OtherEntry
<1>4. \A x \in (Index \X Index) \ {e} : SplitWith(x, hooked') = SplitWith(x, hooked)
  <2> TAKE x \in (Index \X Index) \ {e}
  <2>1. \A i \in Index : FrameAt(x, i) \in hooked' <=> FrameAt(x, i) \in hooked
    BY <1>3
  <2> QED BY <2>1 DEF SplitWith
<1>6. ASSUME NEW x \in (Index \X Index) \ {e}, LargeAt(x) PROVE LargeAt(x)'
  <2>1. PML2'[x] = EptSetupPML2Entry(Pfn(x)) BY <1>2, <1>6 DEF LargeAt
  <2>2. EptSetupPML2Entry(Pfn(x))' = EptSetupPML2Entry(Pfn(x))
    BY DEF EptSetupPML2Entry, Touching, Pfn
  <2>3. \A i \in Index : FrameAt(x, i) \notin hooked' BY <1>3, <1>6 DEF LargeAt
  <2>4. \A i \in Index : FrameAt(x, i)' = FrameAt(x, i) BY DEF FrameAt
  <2> QED BY <2>1, <2>2, <2>3, <2>4 DEF LargeAt
<1>7. ASSUME NEW x \in (Index \X Index) \ {e}, SplitAt(x) PROVE SplitAt(x)'
  <2>1. PICK y \in InList : PML2[x] = PointerTo(y) /\ split[y] = SplitWith(x, hooked)
    BY <1>7 DEF SplitAt
  <2>2. y # b
    <3>1. CASE b \notin InList BY <2>1, <3>1
    <3>2. CASE split[b].Entry = e
      <4>1. split[y].Entry = x BY <2>1 DEF SplitWith
      <4> QED BY <3>2, <4>1
    <3> QED BY <3>1, <3>2
  <2>3. split'[y] = split[y] BY <2>2 DEF TableInv
  <2>4. /\ y \in InList' /\ PML2'[x] = PointerTo(y)
        /\ split'[y] = SplitWith(x, hooked')
    BY <1>2, <1>4, <2>1, <2>3
  <2> QED BY <2>4 DEF SplitAt, PointerTo, SplitWith, FrameAt
<1>8. SplitAt(e)'
  <2>1. b \in InList' /\ PML2'[e] = PointerTo(b) /\ split'[b] = SplitWith(e, hooked')
    BY <1>1, <1>2
  <2> QED BY <2>1 DEF SplitAt, PointerTo, SplitWith, FrameAt
<1>9. ASSUME NEW y \in InList' PROVE \E x \in Index \X Index : PML2'[x] = PointerTo(y)
  <2>1. CASE y = b BY <1>1, <1>2, <2>1
  <2>2. CASE y # b
    <3>1. PICK x \in Index \X Index : PML2[x] = PointerTo(y)
      BY <1>9, <2>2 DEF TableInv
    <3>2. x # e
      <4>1. CASE LargeAt(e)
        BY <3>1, <4>1 DEF LargeAt, EptSetupPML2Entry, LargeEntry, PointerTo
      <4>2. CASE PML2[e] = PointerTo(b) BY <2>2, <3>1, <4>2 DEF PointerTo
      <4> QED BY <4>1, <4>2
    <3> QED BY <1>2, <3>1, <3>2
  <2> QED BY <2>1, <2>2
<1>10. \A x \in Index \X Index : LargeAt(x)' \/ SplitAt(x)'
  BY <1>6, <1>7, <1>8 DEF TableInv
<1> HIDE DEF e
<1> QED BY <1>2, <1>9, <1>10 DEF TableInv, PointerTo

(* A hook that succeeds: entry and buffer.                                 *)
LEMMA HookTable ==
  ASSUME BufferInv, LinkInv, TableInv, HasTable,
         NEW d \in Core, NEW f \in Functions, NEW pre \in [Core -> Buffer \cup {NULL}],
         \A x \in Core : pre[x] # NULL => pre[x] \notin InList,
         ~HookFails(d, f, pre), HookSucceeds(d, f, pre),
         UNCHANGED <<MemoryRanges, NumberOfEnabledMemoryRanges>>
  PROVE  TableInv'
<1> DEFINE e == EntryOf(f)
           b == IF PML2[e].LargePage THEN pre[d] ELSE PML2[e].PageFrameNumber
<1>1. f \in Mapped
  <2>1. f \in Nat BY FrameAssumption, SizeAssumption DEF Frame
  <2>2. PML4Index(f) = 0
    <3>1. Entries * Entries * Entries \in Nat \ {0} BY SizeAssumption
    <3>2. PML4Index(f) \in Nat BY <2>1, <3>1, Division DEF PML4Index
    <3> QED BY <3>2 DEF HookFails
  <2> QED BY <2>1, <2>2, Below
<1>2. e \in Index \X Index BY <1>1, Position
<1>3. /\ PML2' = [PML2 EXCEPT ![e] = PointerTo(b)] /\ hooked' = hooked \cup {f}
      /\ split' = [split EXCEPT ![b] =
                     HookEntry(IF PML2[e].LargePage THEN SplitOf(e) ELSE split[b], f)]
      /\ DynamicSplitList' = IF PML2[e].LargePage THEN Linked(b) ELSE DynamicSplitList
  BY DEF HookSucceeds
<1>4. hooked' \subseteq Mapped /\ \A g \in Mapped \ {f} : g \in hooked' <=> g \in hooked
  BY <1>1, <1>3 DEF TableInv
<1>5. InList \subseteq Buffer BY DEF BufferInv, InList
<1>6. ASSUME NEW s, s = SplitWith(e, hooked) PROVE HookEntry(s, f) = SplitWith(e, hooked')
  BY <1>1, <1>3, <1>4, <1>6, Rehooked DEF HookEntry
<1>7. CASE LargeAt(e)
  <2>1. PML2[e].LargePage /\ PML2[e].PageFrameNumber = Pfn(e)
    BY <1>7 DEF LargeAt, EptSetupPML2Entry, LargeEntry
  <2>2. b = pre[d] /\ b \in Buffer /\ b \notin InList BY <2>1 DEF HookFails
  <2>3. SplitOf(e) = SplitWith(e, hooked)
    <3>1. \A i \in Index : FrameAt(e, i) \notin hooked BY <1>7 DEF LargeAt
    <3>2. \A i \in Index : PML2[e].PageFrameNumber * Entries + i = FrameAt(e, i)
      BY <2>1 DEF Pfn, FrameAt
    <3> QED BY <3>1, <3>2 DEF SplitOf, SplitWith
  <2>4. split' = [split EXCEPT ![b] = SplitWith(e, hooked')]
    BY <1>3, <1>6, <2>1, <2>3
  <2>5. InList' = InList \cup {b}
    <3>1. DynamicSplitList' = <<b>> \o DynamicSplitList BY <1>3, <2>1 DEF Linked
    <3>2. Once(DynamicSplitList) /\ b \notin Members(DynamicSplitList)
            /\ DynamicSplitList \in Seq(Buffer)
      BY <2>2 DEF LinkInv, BufferInv, Once, Members, InList
    <3>3. Members(DynamicSplitList') = {b} \cup Members(DynamicSplitList)
      BY <2>2, <3>1, <3>2, Prepended
    <3> QED BY <3>3 DEF InList, Members
  <2> HIDE DEF b
  <2> QED BY <1>1, <1>3, <1>4, <1>7, <2>2, <2>4, <2>5, Resplit
<1>8. CASE SplitAt(e)
  <2>1. PICK y \in InList : PML2[e] = PointerTo(y) /\ split[y] = SplitWith(e, hooked)
    BY <1>8 DEF SplitAt
  <2>2. ~PML2[e].LargePage /\ b = y /\ b \in Buffer BY <1>5, <2>1 DEF PointerTo
  <2>3. split[b].Entry = e BY <2>1, <2>2 DEF SplitWith
  <2>4. split' = [split EXCEPT ![b] = SplitWith(e, hooked')]
    BY <1>3, <1>6, <2>1, <2>2
  <2>5. InList' = InList \cup {b} BY <1>3, <2>1, <2>2 DEF InList
  <2> HIDE DEF b
  <2> QED BY <1>1, <1>3, <1>4, <2>1, <2>2, <2>3, <2>4, <2>5, Resplit
<1> QED BY <1>2, <1>7, <1>8 DEF TableInv

LEMMA TableStep == BufferInv /\ LinkInv /\ TableInv /\ [EptStep]_eptVars => TableInv'
<1> SUFFICES ASSUME BufferInv, LinkInv, TableInv, [EptStep]_eptVars PROVE TableInv'
  OBVIOUS
<1>1. CASE UNCHANGED <<PML2, split, hooked>> /\ ~HasTable'
  BY <1>1 DEF TableInv
<1>2. CASE /\ UNCHANGED <<PML2, split, hooked, DynamicSplitList,
                         MemoryRanges, NumberOfEnabledMemoryRanges>>
           /\ HasTable
  <2>1. InList' = InList /\ \A b : PointerTo(b)' = PointerTo(b)
    BY <1>2 DEF InList, PointerTo
  <2>2. ASSUME NEW e \in Index \X Index, LargeAt(e) PROVE LargeAt(e)'
    <3>1. EptSetupPML2Entry(Pfn(e))' = EptSetupPML2Entry(Pfn(e))
      BY <1>2 DEF EptSetupPML2Entry, Touching, Pfn
    <3>2. \A i \in Index : FrameAt(e, i)' = FrameAt(e, i) BY DEF FrameAt
    <3> QED BY <1>2, <2>2, <3>1, <3>2 DEF LargeAt
  <2>3. ASSUME NEW e \in Index \X Index, SplitAt(e) PROVE SplitAt(e)'
    <3>1. SplitWith(e, hooked)' = SplitWith(e, hooked)
      BY <1>2 DEF SplitWith, FrameAt
    <3> QED BY <1>2, <2>1, <2>3, <3>1 DEF SplitAt
  <2> QED BY <1>2, <2>1, <2>2, <2>3 DEF TableInv
<1>3. CASE CreateIdentityPageTable
  <2>1. /\ stage = "Mtrr" /\ UNCHANGED <<mtrrMap, split, DynamicSplitList, hooked>>
        /\ PML2' = [e \in Index \X Index |-> EptSetupPML2Entry(e[1] * Entries + e[2])]
    BY <1>3 DEF CreateIdentityPageTable, splits
  <2>2. hooked = {} /\ InList' = {} BY <2>1 DEF LinkInv, InList
  <2>3. ASSUME NEW e \in Index \X Index PROVE LargeAt(e)'
    <3>1. PML2'[e] = EptSetupPML2Entry(Pfn(e)) BY <2>1 DEF Pfn
    <3>2. EptSetupPML2Entry(Pfn(e))' = EptSetupPML2Entry(Pfn(e))
      BY <2>1 DEF EptSetupPML2Entry, Touching, Pfn, mtrrMap
    <3> QED BY <2>1, <2>2, <3>1, <3>2 DEF LargeAt
  <2>4. PML2' = [e \in Index \X Index |-> PML2'[e]]
    BY <2>1
  <2> QED BY <2>1, <2>2, <2>3, <2>4 DEF TableInv
<1>4. ASSUME NEW c \in Core, NEW d \in Core, NEW f \in Functions, EptPageHook(c, d, f)
      PROVE  TableInv'
  <2>1. /\ HasTable /\ calls < MaxHooks
        /\ UNCHANGED <<MemoryRanges, NumberOfEnabledMemoryRanges>>
        /\ \/ UNCHANGED <<PML2, split, DynamicSplitList, hooked>>
           \/ ~HookFails(d, f, OnOffer(c)) /\ HookSucceeds(d, f, OnOffer(c))
    BY <1>4, HookCases DEF splits, mtrrMap
  <2>2. /\ OnOffer(c) \in [Core -> Buffer \cup {NULL}]
        /\ \A x \in Core : OnOffer(c)[x] # NULL => OnOffer(c)[x] \notin InList
    BY <2>1, OffersDistinct
  <2> QED BY <1>2, <2>1, <2>2, HookTable
<1>5. ASSUME NEW f \in Mapped, EptHandlePageHookExit(f) PROVE TableInv'
  <2> DEFINE e == EntryOf(f)
             b == PML2[e].PageFrameNumber
  <2>1. /\ HasTable /\ ~Walk(f).ExecuteAccess
        /\ split' = [split EXCEPT ![b].PML1[PML1Index(f)].ExecuteAccess = TRUE]
        /\ hooked' = hooked \ {f}
        /\ UNCHANGED <<PML2, DynamicSplitList, MemoryRanges, NumberOfEnabledMemoryRanges>>
    BY <1>5 DEF EptHandlePageHookExit, mtrrMap
  <2>2. e \in Index \X Index BY Position
  <2>3. ~LargeAt(e)
    BY <2>1 DEF Walk, LargeAt, EptSetupPML2Entry, LargeEntry
  <2>4. PICK y \in InList : PML2[e] = PointerTo(y) /\ split[y] = SplitWith(e, hooked)
    BY <2>1, <2>2, <2>3 DEF TableInv, SplitAt
  <2>5. b = y /\ b \in Buffer /\ b \in InList BY <2>4 DEF PointerTo, BufferInv, InList
  <2>6. hooked' \subseteq Mapped /\ \A g \in Mapped \ {f} : g \in hooked' <=> g \in hooked
    BY <2>1 DEF TableInv
  <2>7. [split[b] EXCEPT !.PML1[PML1Index(f)].ExecuteAccess = TRUE] = SplitWith(e, hooked')
    <3>1. f \in hooked' <=> ~TRUE BY <2>1
    <3>2. [SplitWith(e, hooked) EXCEPT !.PML1[PML1Index(f)].ExecuteAccess = TRUE]
            = SplitWith(e, hooked')
      BY <2>6, <3>1, Rehooked
    <3> QED BY <2>4, <2>5, <3>2
  <2>8. split' = [split EXCEPT ![b] = SplitWith(e, hooked')]
    <3>1. split' = [split EXCEPT ![b] = [@ EXCEPT !.PML1[PML1Index(f)].ExecuteAccess = TRUE]]
      BY <2>1
    <3> QED BY <2>7, <3>1
  <2>9. split[b].Entry = e BY <2>4, <2>5 DEF SplitWith
  <2>10. PML2' = [PML2 EXCEPT ![e] = PointerTo(b)]
    BY <2>1, <2>2, <2>4, <2>5 DEF TableInv
  <2>11. InList' = InList \cup {b} BY <2>1, <2>5 DEF InList
  <2> HIDE DEF b
  <2> QED BY <2>1, <2>4, <2>5, <2>6, <2>8, <2>9, <2>10, <2>11, Resplit
<1> QED
  BY <1>1, <1>2, <1>3, <1>4, <1>5 DEF EptStep, eptVars, splits, mtrrMap, HasTable,
     ReadVariableRange, Launched, HvTerminateVmx

LEMMA TableInvariance == Spec => [](BufferInv /\ LinkInv /\ TableInv)
<1>1. BufferInv /\ LinkInv /\ TableInv /\ [Next]_vars => (BufferInv /\ LinkInv /\ TableInv)'
  BY Components, BufferStep, LinkStep, TableStep
<1> QED BY BufferInit, LinkInit, TableInit, <1>1, PTL DEF Spec

(* What the processor finds: every frame itself, and no execute access on  *)
(* the hooked ones.                                                        *)
LEMMA WalkIs ==
  ASSUME TableInv, HasTable, NEW f \in Mapped
  PROVE  /\ Walk(f).PageFrameNumber = f
         /\ Walk(f).ExecuteAccess = (f \notin hooked)
         /\ SplitAt(EntryOf(f)) => Walk(f).MemoryType = "UC"
<1> DEFINE e == EntryOf(f)
           i == PML1Index(f)
<1>1. e \in Index \X Index /\ i \in Index /\ FrameAt(e, i) = f BY Position
<1>2. CASE LargeAt(e)
  <2>1. PML2[e].LargePage /\ PML2[e].PageFrameNumber = Pfn(e)
    BY <1>2 DEF LargeAt, EptSetupPML2Entry, LargeEntry
  <2>2. f \notin hooked BY <1>1, <1>2 DEF LargeAt
  <2>3. ASSUME SplitAt(e) PROVE FALSE
    <3>1. PICK y \in InList : PML2[e] = PointerTo(y) BY <2>3 DEF SplitAt
    <3>2. ~PML2[e].LargePage BY <3>1 DEF PointerTo
    <3> QED BY <2>1, <3>2
  <2>4. Walk(f) = [PageFrameNumber |-> Pfn(e) * Entries + i, ExecuteAccess |-> TRUE,
                   MemoryType |-> PML2[e].MemoryType]
    BY <2>1 DEF Walk
  <2>5. Pfn(e) * Entries + i = f BY <1>1 DEF FrameAt, Pfn
  <2>6. Walk(f).PageFrameNumber = f BY <2>4, <2>5
  <2>7. Walk(f).ExecuteAccess = (f \notin hooked)
    <3>1. Walk(f).ExecuteAccess = TRUE BY <2>4
    <3>2. TRUE = (f \notin hooked) BY <2>2
    <3> QED BY <3>1, <3>2, Zenon
  <2> HIDE DEF e
  <2> QED BY <2>3, <2>6, <2>7 DEF e
<1>3. CASE SplitAt(e)
  <2>1. PICK y \in InList : PML2[e] = PointerTo(y) /\ split[y] = SplitWith(e, hooked)
    BY <1>3 DEF SplitAt
  <2>2. Walk(f) = SplitWith(e, hooked).PML1[i] BY <2>1 DEF Walk, PointerTo
  <2>3. Walk(f) = [PageFrameNumber |-> f, ExecuteAccess |-> f \notin hooked,
                   MemoryType |-> "UC"]
    BY <1>1, <2>2 DEF SplitWith
  <2> QED BY <2>3
<1> QED BY <1>1, <1>2, <1>3 DEF TableInv

(* Whatever is split, hooked and fetched, in whatever order and from       *)
(* whichever cores, a guest finds every frame below the limit where it     *)
(* was, for any number of entries in a paging structure.                   *)
THEOREM FramesStay == Spec => []IdentityMapped
<1>1. TableInv => IdentityMapped BY WalkIs DEF IdentityMapped
<1> QED BY TableInvariance, <1>1, PTL

(* EptPageHook takes execute access from the page it is asked to hook and  *)
(* from no other frame of its split; the violation gives it back; a hook   *)
(* that fails changes nobody.                                              *)
THEOREM HookedPagesTrap == Spec => []ExactlyHookedPagesTrap
<1>1. TableInv => ExactlyHookedPagesTrap BY WalkIs DEF ExactlyHookedPagesTrap
<1> QED BY TableInvariance, <1>1, PTL

(* EptSplitLargePage links each buffer once and gives it to one entry,     *)
(* and what EptPageHook still has on offer is in no entry: HvTerminateVmx  *)
(* can free the list without freeing a buffer twice.                       *)
THEOREM ListSound == Spec => []SplitListSound
<1>1. ASSUME LinkInv, TableInv, HasTable PROVE SplitListSound
  <2> DEFINE split2 == {d \in Index \X Index : ~PML2[d].LargePage}
  <2>1. \A i, j \in DOMAIN DynamicSplitList :
          i # j => DynamicSplitList[i] # DynamicSplitList[j]
    BY <1>1 DEF LinkInv
  <2>2. ASSUME NEW b \in InList
        PROVE  /\ b \in live /\ \A c \in Core : PreAllocatedBuffer[c] # b
               /\ PML2[split[b].Entry] = PointerTo(b)
               /\ b \in {PML2[e].PageFrameNumber : e \in split2}
    <3>1. b \in live /\ \A c \in Core : PreAllocatedBuffer[c] # b
      BY <1>1 DEF LinkInv, HasTable
    <3>2. PICK e \in Index \X Index : PML2[e] = PointerTo(b)
      BY <1>1 DEF TableInv
    <3>3. ~PML2[e].LargePage /\ PML2[e].PageFrameNumber = b BY <3>2 DEF PointerTo
    <3>4. ~LargeAt(e) BY <3>3 DEF LargeAt, EptSetupPML2Entry, LargeEntry
    <3>5. PICK y \in InList : PML2[e] = PointerTo(y) /\ split[y] = SplitWith(e, hooked)
      BY <1>1, <3>4 DEF TableInv, SplitAt
    <3>6. y = b BY <3>3, <3>5 DEF PointerTo
    <3>7. split[b].Entry = e BY <3>5, <3>6 DEF SplitWith
    <3> QED BY <3>1, <3>2, <3>3, <3>7
  <2>3. ASSUME NEW e \in split2 PROVE PML2[e].PageFrameNumber \in InList
    <3>1. ~LargeAt(e) BY DEF LargeAt, EptSetupPML2Entry, LargeEntry
    <3>2. PICK y \in InList : PML2[e] = PointerTo(y)
      BY <1>1, <3>1 DEF TableInv, SplitAt
    <3> QED BY <3>2 DEF PointerTo
  <2>4. InList = {PML2[e].PageFrameNumber : e \in split2} BY <2>2, <2>3
  <2> QED BY <2>1, <2>2, <2>4 DEF SplitListSound
<1>2. LinkInv /\ TableInv => SplitListSound BY <1>1 DEF SplitListSound
<1> QED BY TableInvariance, <1>2, PTL

--------------------------------------------------------------------------
(* The memory types.                                                       *)

(* A range as firmware programs it: the frames it covers by the            *)
(* processor's test on the bits are those from its base to the end that    *)
(* EptBuildMtrrMap computes from the lowest bit of its mask.               *)
Contiguous(r) ==
  /\ LowestBit(r.PhysMask) \in Nat \ {0}
  /\ \A f \in Frame :
       InRange(f, r) <=> f \in r.PhysBase .. r.PhysBase + LowestBit(r.PhysMask) - 1

ContiguousRanges ==
  \A ranges \in MtrrSets : \A i \in DOMAIN ranges : ranges[i].Valid => Contiguous(ranges[i])

Kept(j) == mtrr[j].Valid /\ mtrr[j].Type # "WB"

(* A set of slots below n has a last one.                                  *)
LastExists(n) == \A S \in SUBSET (0 .. n - 1) : S # {} => \E i \in S : \A j \in S : j <= i

(* The slots hold the descriptors of the ranges that have been read and    *)
(* are not write-back, and of no other; the table is built when all have   *)
(* been read.                                                              *)
StoredInv ==
  /\ mtrr \in MtrrSets /\ mtrr \in Seq(VariableRange)
  /\ CurrentRegister \in 0 .. Len(mtrr)
  /\ NumberOfEnabledMemoryRanges \in 0 .. RangeSlots
  /\ LastExists(NumberOfEnabledMemoryRanges)
  /\ MemoryRanges = [i \in 0 .. RangeSlots - 1 |-> MemoryRanges[i]]
  /\ \A i \in 0 .. NumberOfEnabledMemoryRanges - 1 :
       \E j \in 1 .. CurrentRegister : Kept(j) /\ MemoryRanges[i] = Descriptor(mtrr[j])
  /\ stage # "Overrun" =>
       \A j \in 1 .. CurrentRegister : Kept(j) =>
         \E i \in 0 .. NumberOfEnabledMemoryRanges - 1 : MemoryRanges[i] = Descriptor(mtrr[j])
  /\ HasTable => CurrentRegister = Len(mtrr)

LEMMA LastStep ==
  ASSUME NEW n \in Nat, LastExists(n) PROVE LastExists(n + 1)
<1> SUFFICES ASSUME NEW S \in SUBSET (0 .. n), S # {}
             PROVE  \E i \in S : \A j \in S : j <= i
  BY DEF LastExists
<1>1. CASE n \in S BY <1>1
<1>2. CASE n \notin S
  <2>1. S \in SUBSET (0 .. n - 1) BY <1>2
  <2> QED BY <2>1 DEF LastExists
<1> QED BY <1>1, <1>2

LEMMA StoredInit == Init => StoredInv
<1> SUFFICES ASSUME Init PROVE StoredInv
  OBVIOUS
<1>1. /\ mtrr \in MtrrSets /\ stage = "Mtrr" /\ CurrentRegister = 0
      /\ NumberOfEnabledMemoryRanges = 0
      /\ MemoryRanges = [i \in 0 .. RangeSlots - 1 |-> NULL]
  BY DEF Init, EptInit
<1>2. mtrr \in Seq(VariableRange) /\ Len(mtrr) \in Nat BY <1>1, MtrrAssumption
<1>3. 0 .. 0 - 1 = {} OBVIOUS
<1>4. LastExists(0) BY <1>3 DEF LastExists
<1>5. MemoryRanges = [i \in 0 .. RangeSlots - 1 |-> MemoryRanges[i]] BY <1>1
<1>6. ~HasTable BY <1>1 DEF HasTable
<1>7. 1 .. CurrentRegister = {} /\ 0 .. NumberOfEnabledMemoryRanges - 1 = {}
  BY <1>1
<1> QED BY <1>1, <1>2, <1>4, <1>5, <1>6, <1>7, SizeAssumption DEF StoredInv

LEMMA StoredInvStep == StoredInv /\ [EptStep]_eptVars => StoredInv'
<1> SUFFICES ASSUME StoredInv, [EptStep]_eptVars PROVE StoredInv'
  OBVIOUS
<1>1. CASE /\ UNCHANGED <<mtrr, mtrrMap>>
           /\ stage' = "Overrun" <=> stage = "Overrun"
           /\ HasTable' => HasTable \/ CurrentRegister = Len(mtrr)
  <2>1. UNCHANGED <<mtrr, CurrentRegister, MemoryRanges, NumberOfEnabledMemoryRanges>>
    BY <1>1 DEF mtrrMap
  <2>2. \A j : Kept(j)' = Kept(j) /\ Descriptor(mtrr[j])' = Descriptor(mtrr[j])
    BY <2>1 DEF Kept, Descriptor, LowestBit
  <2>3. LastExists(NumberOfEnabledMemoryRanges)' = LastExists(NumberOfEnabledMemoryRanges)
    BY <2>1 DEF LastExists
  <2> QED BY <1>1, <2>1, <2>2, <2>3 DEF StoredInv
<1>2. CASE ReadVariableRange
  <2> DEFINE k == CurrentRegister
             r == mtrr[k + 1]
             n == NumberOfEnabledMemoryRanges
  <2>1. /\ stage = "Mtrr" /\ k \in Nat /\ k < Len(mtrr) /\ mtrr \in Seq(VariableRange)
        /\ mtrr' = mtrr /\ CurrentRegister' = k + 1 /\ n \in 0 .. RangeSlots
        /\ stage' \in {"Mtrr", "Overrun"} /\ LastExists(n) /\ mtrr \in MtrrSets
    BY <1>2 DEF ReadVariableRange, StoredInv
  <2>2. \A j : Kept(j)' = Kept(j) /\ Descriptor(mtrr[j])' = Descriptor(mtrr[j])
    BY <2>1 DEF Kept, Descriptor, LowestBit
  <2>3. /\ MemoryRanges = [i \in 0 .. RangeSlots - 1 |-> MemoryRanges[i]]
        /\ \A i \in 0 .. n - 1 :
             \E j \in 1 .. k : Kept(j) /\ MemoryRanges[i] = Descriptor(mtrr[j])
        /\ \A j \in 1 .. k : Kept(j) =>
             \E i \in 0 .. n - 1 : MemoryRanges[i] = Descriptor(mtrr[j])
    BY <2>1 DEF StoredInv
  <2>4. k + 1 \in 0 .. Len(mtrr) /\ ~HasTable' BY <2>1 DEF HasTable
  <2>5. CASE UNCHANGED <<MemoryRanges, n>> /\ (stage' = "Overrun" \/ ~Kept(k + 1))
    <3>1. LastExists(n)' BY <2>1, <2>5 DEF LastExists
    <3>2. \A j \in 1 .. k : j \in 1 .. k + 1 BY <2>1
    <3>3. \A j \in 1 .. k + 1 : j \in 1 .. k \/ j = k + 1 BY <2>1
    <3> HIDE DEF k, n
    <3>4. /\ \A i \in 0 .. n' - 1 :
               \E j \in 1 .. k + 1 : Kept(j)' /\ MemoryRanges'[i] = Descriptor(mtrr[j])'
          /\ stage' # "Overrun" =>
               \A j \in 1 .. k + 1 : Kept(j)' =>
                 \E i \in 0 .. n' - 1 : MemoryRanges'[i] = Descriptor(mtrr[j])'
      BY <2>2, <2>3, <2>5, <3>2, <3>3
    <3> QED BY <2>1, <2>3, <2>4, <2>5, <3>1, <3>4 DEF StoredInv, k, n
  <2>6. CASE /\ r.Valid /\ n # RangeSlots /\ stage' = stage
             /\ MemoryRanges' = [MemoryRanges EXCEPT ![n] = Descriptor(r)]
             /\ n' = IF r.Type = "WB" THEN n ELSE n + 1
    <3>1. /\ n \in 0 .. RangeSlots - 1 /\ n' \in 0 .. RangeSlots
      BY <2>1, <2>6, SizeAssumption
    <3>2. /\ MemoryRanges'[n] = Descriptor(r)
          /\ \A i \in 0 .. n - 1 : MemoryRanges'[i] = MemoryRanges[i]
          /\ MemoryRanges' = [i \in 0 .. RangeSlots - 1 |-> MemoryRanges'[i]]
      <4> DEFINE D == Descriptor(r)
      <4>1. DOMAIN MemoryRanges = 0 .. RangeSlots - 1 BY <2>3
      <4>2. MemoryRanges' = [MemoryRanges EXCEPT ![n] = D] BY <2>6
      <4>3. n \in 0 .. RangeSlots - 1 /\ \A i \in 0 .. n - 1 : i \in 0 .. RangeSlots - 1 /\ i # n
        BY <3>1, SizeAssumption
      <4> HIDE DEF D, n
      <4>4. /\ MemoryRanges'[n] = D
            /\ \A i \in 0 .. n - 1 : MemoryRanges'[i] = MemoryRanges[i]
            /\ MemoryRanges' = [i \in 0 .. RangeSlots - 1 |-> MemoryRanges'[i]]
        BY <4>1, <4>2, <4>3
      <4> QED BY <4>4 DEF D, n
    <3>3. LastExists(n')
      <4>1. CASE n' = n BY <2>1, <4>1
      <4>2. CASE n' = n + 1
        <5>1. LastExists(n + 1) BY <2>1, LastStep
        <5> QED BY <4>2, <5>1
      <4> QED BY <2>6, <4>1, <4>2
    <3>4. LastExists(n)' BY <3>3 DEF LastExists
    <3>5. Kept(k + 1) <=> n' = n + 1 BY <2>1, <2>6 DEF Kept
    <3>6. n' = n \/ n' = n + 1 BY <2>6
    <3>7. /\ \A j \in 1 .. k + 1 : j \in 1 .. k \/ j = k + 1
          /\ \A j \in 1 .. k : j \in 1 .. k + 1
          /\ k + 1 \in 1 .. k + 1
      BY <2>1
    <3>8. /\ \A i \in 0 .. n' - 1 : i \in 0 .. n - 1 \/ (i = n /\ n' = n + 1)
          /\ \A i \in 0 .. n - 1 : i \in 0 .. n' - 1
          /\ n' = n + 1 => n \in 0 .. n' - 1
      BY <2>1, <3>6
    <3> HIDE DEF k, n
    <3>9. ASSUME NEW i \in 0 .. n' - 1
          PROVE  \E j \in 1 .. k + 1 : Kept(j)' /\ MemoryRanges'[i] = Descriptor(mtrr[j])'
      <4>1. CASE i \in 0 .. n - 1 BY <2>2, <2>3, <3>2, <3>7, <4>1
      <4>2. CASE i = n /\ n' = n + 1 BY <2>2, <3>2, <3>5, <3>7, <4>2
      <4> QED BY <3>8, <4>1, <4>2
    <3>10. ASSUME NEW j \in 1 .. k + 1, Kept(j)'
           PROVE  \E i \in 0 .. n' - 1 : MemoryRanges'[i] = Descriptor(mtrr[j])'
      <4>1. CASE j \in 1 .. k BY <2>2, <2>3, <3>2, <3>8, <3>10, <4>1
      <4>2. CASE j = k + 1 BY <2>2, <3>2, <3>5, <3>8, <3>10, <4>2
      <4> QED BY <3>7, <4>1, <4>2
    <3> QED BY <2>1, <2>4, <3>1, <3>2, <3>4, <3>9, <3>10 DEF StoredInv, k, n
  <2> QED BY <1>2, <2>5, <2>6 DEF ReadVariableRange, Kept
<1> QED
  BY <1>1, <1>2 DEF EptStep, eptVars, CreateIdentityPageTable, Launched,
     HvTerminateVmx, EptPageHook, EptHandlePageHookExit, HasTable

LEMMA TypesAre ==
  ASSUME NEW f \in Frame, mtrr \in Seq(VariableRange)
  PROVE  /\ TypesOf(f) \subseteq MemoryType /\ TypesOf(f) # {}
         /\ \A j \in DOMAIN mtrr : InRange(f, mtrr[j]) => mtrr[j].Type \in TypesOf(f)
         /\ \A t \in TypesOf(f) \ {"WB"} :
              \E j \in DOMAIN mtrr : InRange(f, mtrr[j]) /\ mtrr[j].Type = t
<1> DEFINE types == {mtrr[i].Type : i \in {j \in DOMAIN mtrr : InRange(f, mtrr[j])}}
<1>1. ASSUME NEW j \in DOMAIN mtrr PROVE mtrr[j].Type \in MemoryType
  <2>1. mtrr[j] \in VariableRange OBVIOUS
  <2> QED BY <2>1 DEF VariableRange
<1>2. types \subseteq MemoryType BY <1>1
<1>3. \A j \in DOMAIN mtrr : InRange(f, mtrr[j]) => mtrr[j].Type \in types
  OBVIOUS
<1>4. \A t \in types : \E j \in DOMAIN mtrr : InRange(f, mtrr[j]) /\ mtrr[j].Type = t
  OBVIOUS
<1>5. TypesOf(f) = IF types = {} THEN {"WB"} ELSE types BY DEF TypesOf
<1> HIDE DEF types
<1>6. CASE types = {} BY <1>3, <1>5, <1>6 DEF MemoryType
<1>7. CASE types # {} BY <1>2, <1>3, <1>4, <1>5, <1>7
<1> QED BY <1>6, <1>7

(* The type of a frame is one that some range gives it; uncacheable wins.  *)
LEMMA MtrrTypeIs ==
  ASSUME NEW f \in Frame, mtrr \in Seq(VariableRange)
  PROVE  /\ MtrrType(f) \in TypesOf(f)
         /\ "UC" \in TypesOf(f) => MtrrType(f) = "UC"
         /\ TypesOf(f) = {"WT", "WB"} => MtrrType(f) = "WT"
<1>1. TypesOf(f) # {} BY TypesAre
<1>2. CASE "UC" \in TypesOf(f)
  <2>1. MtrrType(f) = "UC" BY <1>2 DEF MtrrType
  <2>2. TypesOf(f) # {"WT", "WB"} BY <1>2
  <2> QED BY <1>2, <2>1, <2>2
<1>3. CASE TypesOf(f) = {"WT", "WB"}
  <2>1. "UC" \notin TypesOf(f) BY <1>3
  <2>2. MtrrType(f) = "WT" BY <1>3, <2>1 DEF MtrrType
  <2> QED BY <1>3, <2>1, <2>2
<1>4. CASE "UC" \notin TypesOf(f) /\ TypesOf(f) # {"WT", "WB"}
  <2>1. MtrrType(f) = CHOOSE t \in TypesOf(f) : TRUE BY <1>4 DEF MtrrType
  <2>2. (CHOOSE t \in TypesOf(f) : TRUE) \in TypesOf(f) BY <1>1, Zenon
  <2> QED BY <1>4, <2>1, <2>2
<1> QED BY <1>2, <1>3, <1>4

(* A slot touches a large page exactly when its range covers a frame of    *)
(* that page.                                                              *)
LEMMA TouchingCovers ==
  ASSUME StoredInv, ContiguousRanges, NEW e \in Index \X Index,
         NEW i \in 0 .. NumberOfEnabledMemoryRanges - 1, NEW j \in DOMAIN mtrr,
         Kept(j), MemoryRanges[i] = Descriptor(mtrr[j])
  PROVE  i \in Touching(Pfn(e)) <=> \E k \in Index : InRange(FrameAt(e, k), mtrr[j])
<1> DEFINE base == mtrr[j].PhysBase
           size == LowestBit(mtrr[j].PhysMask)
           first == Pfn(e) * Entries
<1>1. mtrr[j] \in VariableRange BY DEF StoredInv
<1>2. Contiguous(mtrr[j])
  BY DEF StoredInv, ContiguousRanges, Kept
<1>3. size \in Nat \ {0} BY <1>2 DEF Contiguous
<1>4. base \in Nat BY <1>1, SizeAssumption DEF VariableRange, Frame
<1>5. first \in Nat /\ Entries \in Nat \ {0}
  BY SizeAssumption DEF Pfn, Index
<1>6. \A k \in Index : InRange(FrameAt(e, k), mtrr[j]) <=> first + k \in base .. base + size - 1
  <2> TAKE k \in Index
  <2>1. FrameAt(e, k) \in Frame BY AtPosition, FrameAssumption
  <2>2. FrameAt(e, k) = first + k BY DEF FrameAt, Pfn
  <2> QED BY <1>2, <2>1, <2>2 DEF Contiguous
<1>7. i \in Touching(Pfn(e)) <=> first <= base + size - 1 /\ first + Entries - 1 >= base
  BY DEF Touching, Descriptor
<1> HIDE DEF base, size, first
<1>8. ASSUME first <= base + size - 1, first + Entries - 1 >= base
      PROVE  \E k \in Index : first + k \in base .. base + size - 1
  <2>1. CASE base <= first
    <3>1. 0 \in Index /\ first + 0 \in base .. base + size - 1
      BY <1>3, <1>4, <1>5, <1>8, <2>1 DEF Index
    <3> QED BY <3>1
  <2>2. CASE base > first
    <3>1. base - first \in Index /\ first + (base - first) \in base .. base + size - 1
      BY <1>3, <1>4, <1>5, <1>8, <2>2 DEF Index
    <3> QED BY <3>1
  <2> QED BY <1>4, <1>5, <2>1, <2>2
<1>9. ASSUME NEW k \in Index, first + k \in base .. base + size - 1
      PROVE  first <= base + size - 1 /\ first + Entries - 1 >= base
  BY <1>3, <1>4, <1>5, <1>9 DEF Index
<1> QED BY <1>6, <1>7, <1>8, <1>9

(* The types of a table, from those of the slots to those of the MTRRs.    *)
LEMMA TypesFollow ==
  ASSUME ContiguousRanges, TableInv, StoredInv, HasTable, DefinedOverlaps
  PROVE  MemoryTypesFollowMtrrs
<1> DEFINE N == 0 .. NumberOfEnabledMemoryRanges - 1
<1>1. mtrr \in Seq(VariableRange) /\ DOMAIN mtrr = 1 .. CurrentRegister
  BY DEF StoredInv
<1>2. /\ \A i \in N : \E j \in DOMAIN mtrr : Kept(j) /\ MemoryRanges[i] = Descriptor(mtrr[j])
      /\ \A j \in DOMAIN mtrr : Kept(j) => \E i \in N : MemoryRanges[i] = Descriptor(mtrr[j])
  BY <1>1 DEF StoredInv, HasTable
<1>3. Mapped \subseteq Frame BY FrameAssumption
<1>4. ASSUME NEW e \in Index \X Index, NEW k \in Index, NEW t \in TypesOf(FrameAt(e, k)), t # "WB"
      PROVE  \E i \in Touching(Pfn(e)) : MemoryRanges[i].MemoryType = t
  <2>1. FrameAt(e, k) \in Frame BY <1>3, AtPosition
  <2>2. PICK j \in DOMAIN mtrr : InRange(FrameAt(e, k), mtrr[j]) /\ mtrr[j].Type = t
    BY <1>1, <1>4, <2>1, TypesAre
  <2>3. Kept(j) BY <1>4, <2>2 DEF Kept, InRange
  <2>4. PICK i \in N : MemoryRanges[i] = Descriptor(mtrr[j]) BY <1>2, <2>3
  <2>5. i \in Touching(Pfn(e)) BY <2>2, <2>3, <2>4, TouchingCovers
  <2>6. MemoryRanges[i].MemoryType = t BY <2>2, <2>4 DEF Descriptor
  <2> QED BY <2>5, <2>6
<1>5. ASSUME NEW e \in Index \X Index, NEW i \in Touching(Pfn(e))
      PROVE  /\ MemoryRanges[i].MemoryType # "WB"
             /\ \E k \in Index : MemoryRanges[i].MemoryType \in TypesOf(FrameAt(e, k))
  <2>1. i \in N BY DEF Touching
  <2>2. PICK j \in DOMAIN mtrr : Kept(j) /\ MemoryRanges[i] = Descriptor(mtrr[j])
    BY <1>2, <2>1
  <2>3. MemoryRanges[i].MemoryType = mtrr[j].Type BY <2>2 DEF Descriptor
  <2>4. PICK k \in Index : InRange(FrameAt(e, k), mtrr[j])
    BY <2>1, <2>2, TouchingCovers
  <2>5. FrameAt(e, k) \in Frame BY <1>3, AtPosition
  <2>6. mtrr[j].Type \in TypesOf(FrameAt(e, k)) BY <1>1, <2>4, <2>5, TypesAre
  <2> QED BY <2>2, <2>3, <2>6 DEF Kept
<1>6. ASSUME NEW f \in Mapped, MtrrType(f) = "UC" PROVE Walk(f).MemoryType = "UC"
  <2> DEFINE e == EntryOf(f)
  <2>1. e \in Index \X Index /\ PML1Index(f) \in Index /\ f = FrameAt(e, PML1Index(f))
    BY Position
  <2>2. "UC" \in TypesOf(f) BY <1>1, <1>3, <1>6, MtrrTypeIs
  <2>3. PICK i \in Touching(Pfn(e)) : MemoryRanges[i].MemoryType = "UC"
    BY <1>4, <2>1, <2>2
  <2>4. EptSetupPML2Entry(Pfn(e)) = LargeEntry(Pfn(e), "UC")
    BY <2>3 DEF EptSetupPML2Entry
  <2>5. CASE LargeAt(e)
    <3>1. PML2[e] = LargeEntry(Pfn(e), "UC") BY <2>4, <2>5 DEF LargeAt
    <3>2. PML2[e].LargePage /\ PML2[e].MemoryType = "UC" BY <3>1 DEF LargeEntry
    <3> QED BY <3>2 DEF Walk
  <2>6. CASE SplitAt(e) BY <2>6, WalkIs
  <2> QED BY <2>1, <2>5, <2>6 DEF TableInv
<1>7. ASSUME NEW e \in Index \X Index, NEW t \in MemoryType, e # <<0, 0>>, PML2[e].LargePage,
             \A f \in FramesOf(e) : MtrrType(f) = t
      PROVE  PML2[e].MemoryType = t
  <2> DEFINE touching == Touching(Pfn(e))
             last     == CHOOSE i \in touching : \A j \in touching : j <= i
  <2>1. \A k \in Index : FrameAt(e, k) \in Frame /\ MtrrType(FrameAt(e, k)) = t
    BY <1>3, <1>7, AtPosition DEF FramesOf
  <2>2. \A k \in Index : t \in TypesOf(FrameAt(e, k)) BY <1>1, <2>1, MtrrTypeIs
  <2>3. LargeAt(e)
    <3>1. ASSUME SplitAt(e) PROVE FALSE BY <1>7, <3>1 DEF SplitAt, PointerTo
    <3> QED BY <3>1 DEF TableInv
  <2>4. PML2[e] = EptSetupPML2Entry(Pfn(e)) BY <2>3 DEF LargeAt
  <2>5. Pfn(e) # 0
    BY <1>7, SizeAssumption DEF Pfn, Index
  <2>6. CASE \E i \in touching : MemoryRanges[i].MemoryType = "UC"
    <3>1. PML2[e] = LargeEntry(Pfn(e), "UC") BY <2>4, <2>6 DEF EptSetupPML2Entry
    <3>2. PML2[e].MemoryType = "UC" BY <3>1 DEF LargeEntry
    <3>3. PICK k \in Index : "UC" \in TypesOf(FrameAt(e, k)) BY <1>5, <2>6
    <3>4. t = "UC" BY <1>1, <2>1, <3>3, MtrrTypeIs
    <3> QED BY <3>2, <3>4
  <2>7. CASE touching = {}
    <3>1. PML2[e] = LargeEntry(Pfn(e), "WB") BY <2>4, <2>5, <2>7 DEF EptSetupPML2Entry
    <3>2. PML2[e].MemoryType = "WB" BY <3>1 DEF LargeEntry
    <3>3. 0 \in Index BY SizeAssumption DEF Index
    <3>4. t = "WB" BY <1>4, <2>2, <2>7, <3>3
    <3> QED BY <3>2, <3>4
  <2>8. CASE touching # {} /\ \A i \in touching : MemoryRanges[i].MemoryType # "UC"
    <3> DEFINE T == MemoryRanges[last].MemoryType
    <3>1. PML2[e] = LargeEntry(Pfn(e), T) BY <2>4, <2>5, <2>8 DEF EptSetupPML2Entry
    <3>2. PML2[e].MemoryType = T BY <3>1 DEF LargeEntry
    <3>3. last \in touching
      <4>1. touching \in SUBSET N BY DEF Touching
      <4>2. \E i \in touching : \A j \in touching : j <= i
        BY <2>8, <4>1 DEF StoredInv, LastExists
      <4> HIDE DEF touching
      <4> QED BY <4>2
    <3> HIDE DEF touching, last
    <3>4. T # "UC" /\ T # "WB" BY <1>5, <2>8, <3>3 DEF touching
    <3>5. PICK k \in Index : T \in TypesOf(FrameAt(e, k)) BY <1>5, <3>3 DEF touching
    <3> DEFINE f == FrameAt(e, k)
    <3>6. f \in Frame /\ MtrrType(f) = t BY <2>1
    <3> HIDE DEF T, f
    <3>7. CASE "UC" \in TypesOf(f)
      <4>1. \E i \in touching : MemoryRanges[i].MemoryType = "UC"
        BY <1>4, <3>7 DEF f, touching
      <4> QED BY <2>8, <4>1
    <3>8. CASE TypesOf(f) = {"WT", "WB"}
      <4>1. T = "WT" BY <3>4, <3>5, <3>8 DEF f
      <4>2. t = "WT" BY <1>1, <3>6, <3>8, MtrrTypeIs
      <4> QED BY <3>2, <4>1, <4>2 DEF T
    <3>9. CASE Cardinality(TypesOf(f)) = 1
      <4>1. IsFiniteSet(TypesOf(f))
        <5>1. IsFiniteSet(MemoryType)
          <6>1. IsFiniteSet({"UC"}) BY FS_Singleton
          <6>2. IsFiniteSet({"UC"} \cup {"WC"}) BY <6>1, FS_AddElement
          <6>3. IsFiniteSet({"UC"} \cup {"WC"} \cup {"WT"}) BY <6>2, FS_AddElement
          <6>4. IsFiniteSet({"UC"} \cup {"WC"} \cup {"WT"} \cup {"WP"})
            BY <6>3, FS_AddElement
          <6>5. IsFiniteSet({"UC"} \cup {"WC"} \cup {"WT"} \cup {"WP"} \cup {"WB"})
            BY <6>4, FS_AddElement
          <6>6. MemoryType = {"UC"} \cup {"WC"} \cup {"WT"} \cup {"WP"} \cup {"WB"}
            BY DEF MemoryType
          <6> QED BY <6>5, <6>6
        <5>2. TypesOf(f) \subseteq MemoryType BY <1>1, <3>6, TypesAre
        <5> QED BY <5>1, <5>2, FS_Subset
      <4>2. PICK x : TypesOf(f) = {x} BY <3>9, <4>1, FS_Singleton
      <4>3. MtrrType(f) \in TypesOf(f) BY <1>1, <3>6, MtrrTypeIs
      <4>4. T = t BY <3>5, <3>6, <4>2, <4>3 DEF f
      <4> QED BY <3>2, <4>4 DEF T
    <3> QED BY <3>6, <3>7, <3>8, <3>9 DEF DefinedOverlaps
  <2> QED BY <2>6, <2>7, <2>8
<1> QED BY <1>6, <1>7 DEF MemoryTypesFollowMtrrs

(* Under the table every frame the MTRRs make uncacheable is uncacheable,  *)
(* split or not, and a large page of one type has that type: whatever the  *)
(* machine's ranges, in any number and order and however they overlap, as  *)
(* long as each one is contiguous, which EptBuildMtrrMap takes for granted.*)
THEOREM MemoryTypesKept ==
  ASSUME ContiguousRanges PROVE Spec => []MemoryTypesFollowMtrrs
<1>1. StoredInv /\ [Next]_vars => StoredInv'
  BY Components, StoredInvStep
<1>2. TableInv /\ StoredInv => MemoryTypesFollowMtrrs
  BY TypesFollow DEF MemoryTypesFollowMtrrs
<1> QED BY TableInvariance, StoredInit, <1>1, <1>2, PTL DEF Spec
==========================================================================
