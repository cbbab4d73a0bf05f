------------------------------ MODULE HeapProofs ------------------------------
(***************************************************************************)
(* Proofs about Heap and PageAllocator, for memory maps of any number of   *)
(* regions, wherever they lie and however they overlap.                    *)
(***************************************************************************)
EXTENDS Heap, FiniteSetTheorems, WellFoundedInduction, TLAPS

LEMMA Sizes ==
    /\ Word \in Nat /\ PageSize \in Nat /\ MaxTracked \in Nat /\ LowLimit \in Nat
    /\ KernelEnd \in Nat /\ InfoSize \in Nat
    /\ PageSize > 0 /\ LowLimit > 0 /\ InfoSize > 0
    /\ Word % PageSize = 0 /\ MaxTracked % PageSize = 0 /\ LowLimit % PageSize = 0
    /\ MaxTracked + PageSize < Word
    /\ LowLimit < KernelEnd /\ KernelEnd + PageSize <= MaxTracked
    /\ InfoSize <= PageSize
  BY SizesAssumption

-----------------------------------------------------------------------------
(* Rounding to pages                                                       *)

Whole(address) == \E k \in Nat : address = k * PageSize

LEMMA Quotient ==
    ASSUME NEW value \in Nat
    PROVE  /\ value \div PageSize \in Nat /\ value % PageSize \in 0 .. PageSize - 1
           /\ value = (value \div PageSize) * PageSize + (value % PageSize)
  BY Sizes

LEMMA Multiples ==
    ASSUME NEW a \in Nat, NEW b \in Nat
    PROVE  /\ a * PageSize \in Nat
           /\ a < b => a * PageSize + PageSize <= b * PageSize
           /\ a <= b => a * PageSize <= b * PageSize
  <1>1. a * PageSize \in Nat
    BY Sizes
  <1>2. ASSUME a <= b PROVE a * PageSize <= b * PageSize
    <2>1. b - a \in Nat /\ b = a + (b - a)
      BY <1>2
    <2>2. (b - a) * PageSize \in Nat
      BY <2>1, Sizes
    <2>. QED
      BY <2>1, <2>2, Sizes
  <1>3. ASSUME a < b PROVE a * PageSize + PageSize <= b * PageSize
    <2>1. b - a - 1 \in Nat /\ b = a + 1 + (b - a - 1)
      BY <1>3
    <2>2. (b - a - 1) * PageSize \in Nat
      BY <2>1, Sizes
    <2>. QED
      BY <2>1, <2>2, Sizes
  <1>. QED
    BY <1>1, <1>2, <1>3

LEMMA WholesApart ==
    ASSUME NEW a, NEW b, Whole(a), Whole(b), a < b
    PROVE  a + PageSize <= b
  <1>1. PICK i \in Nat : a = i * PageSize
    BY DEF Whole
  <1>2. PICK j \in Nat : b = j * PageSize
    BY DEF Whole
  <1>3. i < j
    <2>1. ~(j <= i)
      BY <1>1, <1>2, Multiples
    <2>. QED
      BY <2>1
  <1>. QED
    BY <1>1, <1>2, <1>3, Multiples

LEMMA SizesAreWhole ==
    /\ Whole(Word) /\ Whole(MaxTracked) /\ Whole(LowLimit)
    /\ MaxTracked + PageSize + PageSize <= Word
  <1>1. ASSUME NEW n \in Nat, n % PageSize = 0 PROVE Whole(n)
    <2>1. n \div PageSize \in Nat /\ n = (n \div PageSize) * PageSize + 0
      BY <1>1, Quotient
    <2>2. (n \div PageSize) * PageSize \in Nat
      BY <2>1, Multiples
    <2>3. n = (n \div PageSize) * PageSize
      BY <2>1, <2>2
    <2>. QED
      BY <2>1, <2>3 DEF Whole
  <1>2. Whole(Word) /\ Whole(MaxTracked) /\ Whole(LowLimit)
    BY <1>1, Sizes
  <1>3. Whole(MaxTracked + PageSize)
    <2>1. PICK k \in Nat : MaxTracked = k * PageSize
      BY <1>2 DEF Whole
    <2>2. k + 1 \in Nat /\ MaxTracked + PageSize = (k + 1) * PageSize
      BY <2>1, Sizes
    <2>. QED
      BY <2>2 DEF Whole
  <1>4. MaxTracked + PageSize + PageSize <= Word
    BY <1>2, <1>3, Sizes, WholesApart
  <1>. QED
    BY <1>2, <1>4

LEMMA AlignDownRounds ==
    ASSUME NEW value \in Nat
    PROVE  /\ AlignDown(value) \in Nat /\ Whole(AlignDown(value))
           /\ AlignDown(value) <= value /\ value < AlignDown(value) + PageSize
  <1>1. /\ value \div PageSize \in Nat /\ value % PageSize \in 0 .. PageSize - 1
        /\ value = (value \div PageSize) * PageSize + (value % PageSize)
    BY Quotient
  <1>2. (value \div PageSize) * PageSize \in Nat
    BY <1>1, Multiples
  <1>3. AlignDown(value) = (value \div PageSize) * PageSize
    BY <1>1, <1>2, Sizes DEF AlignDown
  <1>. QED
    BY <1>1, <1>2, <1>3, Sizes DEF Whole

LEMMA SmallModulus ==
    ASSUME NEW value \in Nat, value < Word
    PROVE  value % Word = value
  BY Sizes

LEMMA AlignUpRounds ==
    ASSUME NEW value \in Nat, value + PageSize <= Word
    PROVE  /\ AlignUp(value) \in Nat /\ Whole(AlignUp(value))
           /\ value <= AlignUp(value) /\ AlignUp(value) < value + PageSize
  <1>1. value + PageSize - 1 \in Nat /\ value + PageSize - 1 < Word
    BY Sizes
  <1>2. AlignUp(value) = AlignDown(value + PageSize - 1)
    BY <1>1, SmallModulus DEF AlignUp
  <1>. QED
    BY <1>1, <1>2, AlignDownRounds, Sizes

-----------------------------------------------------------------------------
(* Which pages are available and usable                                    *)

LEMMA PageFacts ==
    ASSUME NEW p \in Pages
    PROVE  /\ p \in Nat /\ p * PageSize \in Nat /\ Whole(p * PageSize)
           /\ p * PageSize + PageSize <= MaxTracked
  <1>1. MaxTracked \div PageSize \in Nat
        /\ MaxTracked = (MaxTracked \div PageSize) * PageSize
    BY Quotient, Sizes
  <1>2. p \in Nat /\ p < MaxTracked \div PageSize
    BY <1>1 DEF Pages
  <1>. QED
    BY <1>1, <1>2, Multiples DEF Whole

LEMMA BytesWithin ==
    ASSUME NEW first \in Nat, NEW length \in Nat, NEW start \in Nat, NEW size \in Nat,
           start <= first, first + length <= start + size
    PROVE  Bytes(first, length) \subseteq Bytes(start, size)
  BY DEF Bytes

LEMMA BytesDisjoint ==
    ASSUME NEW first \in Nat, NEW length \in Nat, NEW start \in Nat, NEW size \in Nat,
           first + length <= start \/ start + size <= first
    PROVE  Bytes(first, length) \cap Bytes(start, size) = {}
  BY DEF Bytes

(* hnm_pmm_mark_range_free marks only pages that lie in the range.         *)
LEMMA WholePagesLieInside ==
    ASSUME NEW base \in Nat, NEW length \in Nat, base + PageSize <= Word,
           NEW p \in WholePages(base, length)
    PROVE  PageBytes(p) \subseteq Bytes(base, length)
  <1>0. /\ p \in Pages /\ Before(AlignUp(base), p)
        /\ base + length >= Word \/ ~Before(AlignDown(base + length), p)
    BY DEF WholePages
  <1>1. /\ p * PageSize \in Nat /\ Whole(p * PageSize)
        /\ p * PageSize + PageSize <= MaxTracked
    BY <1>0, PageFacts
  <1>2. base <= p * PageSize
    BY <1>0, <1>1, AlignUpRounds DEF Before
  <1>3. p * PageSize + PageSize <= base + length
    <2>1. CASE base + length >= Word
      BY <1>1, <2>1, Sizes
    <2>2. CASE ~Before(AlignDown(base + length), p)
      <3>1. /\ AlignDown(base + length) \in Nat /\ Whole(AlignDown(base + length))
            /\ AlignDown(base + length) <= base + length
        BY AlignDownRounds
      <3>2. p * PageSize < AlignDown(base + length)
        BY <1>1, <2>2, <3>1 DEF Before
      <3>3. p * PageSize + PageSize <= AlignDown(base + length)
        BY <1>1, <3>1, <3>2, WholesApart
      <3>. QED
        BY <1>1, <3>1, <3>3, Sizes
    <2>. QED
      BY <1>0, <2>1, <2>2
  <1>. QED
    BY <1>1, <1>2, <1>3, BytesWithin, Sizes DEF PageBytes

(* hnm_pmm_mark_range_used leaves no page that is touched.                 *)
LEMMA UntouchedPagesLieOutside ==
    ASSUME NEW base \in Nat, NEW length \in Nat, length # 0,
           base + length + PageSize <= Word,
           NEW p \in Pages, p \notin TouchedPages(base, length)
    PROVE  PageBytes(p) \cap Bytes(base, length) = {}
  <1>1. /\ p * PageSize \in Nat /\ Whole(p * PageSize)
    BY PageFacts
  <1>2. \/ ~Before(AlignDown(base), p)
        \/ Before(AlignUp(base + length), p)
    BY Sizes DEF TouchedPages
  <1>3. CASE ~Before(AlignDown(base), p)
    <2>1. /\ AlignDown(base) \in Nat /\ Whole(AlignDown(base)) /\ AlignDown(base) <= base
      BY AlignDownRounds
    <2>2. p * PageSize < AlignDown(base)
      BY <1>1, <1>3, <2>1 DEF Before
    <2>3. p * PageSize + PageSize <= base
      BY <1>1, <2>1, <2>2, WholesApart, Sizes
    <2>. QED
      BY <1>1, <2>3, BytesDisjoint, Sizes DEF PageBytes
  <1>4. CASE Before(AlignUp(base + length), p)
    <2>1. base + length <= p * PageSize
      BY <1>1, <1>4, AlignUpRounds DEF Before
    <2>. QED
      BY <1>1, <2>1, BytesDisjoint, Sizes DEF PageBytes
  <1>. QED
    BY <1>2, <1>3, <1>4

LEMMA MachineIs ==
    ASSUME NEW m \in Machines
    PROVE  /\ m.info \in Nat /\ m.info + PageSize < Word
           /\ m.lower \in Nat /\ m.upper \in Nat /\ LowLimit + m.lower + m.upper < Word
           /\ IsFiniteSet(m.map) /\ m.map \in SUBSET Region
           /\ m.mapAt \in Nat /\ m.mapLength \in Nat
           /\ \A e \in m.map : e.available => e.base + PageSize <= Word \/ e.base >= Word
  <1>1. m \in Machine
    BY MachinesAssumption
  <1>2. m.info \in Nat /\ m.mapAt \in Nat /\ m.mapLength \in Nat
    BY <1>1, Sizes DEF Machine, Address
  <1>. QED
    BY <1>1, <1>2, MachinesAssumption DEF Machine

(* The low word of a length is at most the length.                         *)
LEMMA LowOfLength ==
    ASSUME NEW length \in Nat
    PROVE  Low(length) \in Nat /\ Low(length) <= length
  <1>1. /\ length \div Word \in Nat /\ length % Word \in Nat
        /\ length = (length \div Word) * Word + (length % Word)
    BY Sizes
  <1>2. (length \div Word) * Word \in Nat
    BY <1>1, Sizes
  <1>. QED
    BY <1>1, <1>2 DEF Low

LEMMA HighOfBase ==
    ASSUME NEW base \in Nat, High(base) = 0
    PROVE  base < Word
  <1>1. base % Word \in 0 .. Word - 1 /\ base = 0 * Word + (base % Word)
    BY Sizes DEF High
  <1>. QED
    BY <1>1, Sizes

LEMMA MarkedFreeIsAvailable ==
    ASSUME NEW m \in Machines, NEW p \in MarkedFree(m)
    PROVE  p \in Pages /\ Available(m, p)
  <1>1. CASE m.info # 0 /\ HasMap(m)
    <2>1. PICK e \in m.map :
            e.available /\ High(e.base) = 0 /\ p \in WholePages(e.base, Low(e.length))
      BY <1>1 DEF MarkedFree
    <2>2. e.base \in Nat /\ e.length \in Nat /\ e.base + PageSize <= Word
      <3>1. e \in Region
        BY MachineIs
      <3>2. e.base \in Nat /\ e.length \in Nat
        BY <3>1 DEF Region
      <3>3. ~(e.base >= Word)
        BY <2>1, <3>2, HighOfBase, Sizes
      <3>. QED
        BY <2>1, <3>2, <3>3, MachineIs
    <2>3. Low(e.length) \in Nat /\ Low(e.length) <= e.length
      BY <2>2, LowOfLength
    <2>4. PageBytes(p) \subseteq Bytes(e.base, Low(e.length))
      BY <2>1, <2>2, <2>3, WholePagesLieInside
    <2>5. Bytes(e.base, Low(e.length)) \subseteq Bytes(e.base, e.length)
      BY <2>2, <2>3, BytesWithin
    <2>6. p \in Pages
      BY <2>1 DEF WholePages
    <2>. QED
      BY <1>1, <2>1, <2>4, <2>5, <2>6 DEF Available
  <1>2. CASE m.info # 0 /\ ~HasMap(m)
    <2>1. p \in WholePages(LowLimit, m.upper)
      BY <1>2 DEF MarkedFree
    <2>2. LowLimit + PageSize <= Word /\ m.upper \in Nat
      BY Sizes, MachineIs
    <2>3. PageBytes(p) \subseteq Bytes(LowLimit, m.upper)
      BY <2>1, <2>2, WholePagesLieInside, Sizes
    <2>4. p \in Pages
      BY <2>1 DEF WholePages
    <2>. QED
      BY <1>2, <2>3, <2>4 DEF Available
  <1>3. m.info # 0
    BY DEF MarkedFree, HasMap
  <1>. QED
    BY <1>1, <1>2, <1>3

(* hnm_pmm_reserve_kernel_ranges keeps the whole of the kernel and the page *)
(* from the start of the boot loader's structure.                          *)
LEMMA UnreservedIsOutside ==
    ASSUME NEW m \in Machines, NEW p \in Pages, p \notin Reserved(m)
    PROVE  /\ PageBytes(p) \cap Bytes(0, KernelEnd) = {}
           /\ m.info # 0 => PageBytes(p) \cap Bytes(m.info, PageSize) = {}
  <1>1. PageBytes(p) \cap Bytes(0, KernelEnd) = {}
    <2>1. PageBytes(p) \cap Bytes(0, LowLimit) = {}
      <3>1. p \notin TouchedPages(0, LowLimit)
        BY DEF Reserved
      <3>. QED
        BY <3>1, UntouchedPagesLieOutside, Sizes
    <2>2. /\ AlignUp(KernelEnd) \in Nat /\ KernelEnd <= AlignUp(KernelEnd)
          /\ AlignUp(KernelEnd) < KernelEnd + PageSize
      BY AlignUpRounds, Sizes
    <2>3. PageBytes(p) \cap Bytes(LowLimit, AlignUp(KernelEnd) - LowLimit) = {}
      <3>1. p \notin TouchedPages(LowLimit, AlignUp(KernelEnd) - LowLimit)
        BY DEF Reserved
      <3>2. /\ AlignUp(KernelEnd) - LowLimit \in Nat
            /\ AlignUp(KernelEnd) - LowLimit # 0
            /\ LowLimit + (AlignUp(KernelEnd) - LowLimit) + PageSize <= Word
        BY <2>2, Sizes
      <3>. QED
        BY <3>1, <3>2, UntouchedPagesLieOutside, Sizes
    <2>4. Bytes(0, KernelEnd) \subseteq
            Bytes(0, LowLimit) \union Bytes(LowLimit, AlignUp(KernelEnd) - LowLimit)
      BY <2>2, Sizes DEF Bytes
    <2>. QED
      BY <2>1, <2>3, <2>4
  <1>2. ASSUME m.info # 0 PROVE PageBytes(p) \cap Bytes(m.info, PageSize) = {}
    <2>1. m.info \in Nat /\ m.info + PageSize < Word
      BY MachineIs
    <2>2. p \notin TouchedPages(m.info, PageSize)
      BY <1>2 DEF Reserved
    <2>3. CASE m.info + PageSize + PageSize <= Word
      BY <2>1, <2>2, <2>3, UntouchedPagesLieOutside, Sizes
    <2>4. CASE ~(m.info + PageSize + PageSize <= Word)
      <3>1. p * PageSize \in Nat /\ p * PageSize + PageSize <= MaxTracked
        BY PageFacts
      <3>2. p * PageSize + PageSize <= m.info
        BY <2>1, <2>4, <3>1, SizesAreWhole, Sizes
      <3>. QED
        BY <2>1, <3>1, <3>2, BytesDisjoint, Sizes DEF PageBytes
    <2>. QED
      BY <2>3, <2>4
  <1>. QED
    BY <1>1, <1>2

(* Every page that hnm_pmm_init leaves free is available and spared, and    *)
(* usable where the boot loader is tidy.  Page 0 is not among them.         *)
LEMMA BootFreeIsUsable ==
    ASSUME NEW m \in Machines, NEW p \in BootFree(m)
    PROVE  /\ p \in Pages /\ p # 0 /\ Available(m, p) /\ Spared(m, p)
           /\ Tidy(m) => Usable(m, p)
  <1>1. p \in MarkedFree(m) /\ p \notin Reserved(m)
    BY DEF BootFree
  <1>2. p \in Pages /\ Available(m, p)
    BY <1>1, MarkedFreeIsAvailable
  <1>3. /\ PageBytes(p) \cap Bytes(0, KernelEnd) = {}
        /\ m.info # 0 => PageBytes(p) \cap Bytes(m.info, PageSize) = {}
    BY <1>1, <1>2, UnreservedIsOutside
  <1>4. Spared(m, p)
    <2>1. Bytes(m.info, InfoSize) \subseteq Bytes(m.info, PageSize)
      <3>1. m.info \in Nat
        BY MachineIs
      <3>. QED
        BY <3>1, Sizes DEF Bytes
    <2>. QED
      BY <1>3, <2>1 DEF Spared
  <1>5. p # 0
    <2>1. SUFFICES ASSUME p = 0 PROVE FALSE
      OBVIOUS
    <2>2. 0 \in PageBytes(p) /\ 0 \in Bytes(0, KernelEnd)
      BY <2>1, Sizes DEF PageBytes, Bytes
    <2>. QED
      BY <1>3, <2>2
  <1>6. ASSUME Tidy(m), HasMap(m)
        PROVE  /\ PageBytes(p) \cap Bytes(m.mapAt, m.mapLength) = {}
               /\ \A e \in m.map : ~e.available => PageBytes(p) \cap Bytes(e.base, e.length) = {}
    <2>1. m.info # 0
      BY <1>6 DEF HasMap
    <2>2. Bytes(m.mapAt, m.mapLength) \subseteq Bytes(0, KernelEnd) \union Bytes(m.info, PageSize)
      BY <1>6 DEF Tidy
    <2>3. PICK a \in m.map : a.available /\ PageBytes(p) \subseteq Bytes(a.base, a.length)
      BY <1>2, <1>6 DEF Available
    <2>4. \A r \in m.map :
            ~r.available => Bytes(a.base, a.length) \cap Bytes(r.base, r.length) = {}
      BY <1>6, <2>3 DEF Tidy
    <2>. QED
      BY <1>3, <2>1, <2>2, <2>3, <2>4
  <1>. QED
    BY <1>2, <1>4, <1>5, <1>6 DEF Usable

-----------------------------------------------------------------------------
(* How many pages there are                                                *)

LEMMA Least ==
    ASSUME NEW S \in SUBSET Nat, S # {}
    PROVE  \E n \in S : \A k \in S : n <= k
  <1>. DEFINE R == {p \in Nat \X Nat : p[1] < p[2]}
  <1>1. IsWellFoundedOn(R, Nat)
    BY NatLessThanWellFounded DEF OpToRel
  <1>2. PICK n \in S : \A k \in S : <<k, n>> \notin R
    BY <1>1, WFMin
  <1>3. ASSUME NEW k \in S PROVE n <= k
    <2>1. ~(k < n)
      BY <1>2
    <2>. QED
      BY <2>1
  <1>. QED
    BY <1>3

LEMMA Greatest ==
    ASSUME NEW bound \in Nat, NEW S \in SUBSET (0 .. bound), S # {}
    PROVE  \E n \in S : \A k \in S : n >= k
  <1> DEFINE D == {bound - k : k \in S}
  <1>1. D \in SUBSET Nat /\ D # {}
    <2>1. \A k \in S : bound - k \in Nat
      OBVIOUS
    <2>2. PICK k \in S : TRUE
      OBVIOUS
    <2>3. bound - k \in D
      OBVIOUS
    <2>. QED
      BY <2>1, <2>3
  <1>2. PICK d \in D : \A k \in D : d <= k
    <2> HIDE DEF D
    <2>. QED
      BY <1>1, Least
  <1>3. PICK n \in S : d = bound - n
    OBVIOUS
  <1>4. ASSUME NEW k \in S PROVE n >= k
    <2>1. bound - k \in D
      OBVIOUS
    <2>2. d <= bound - k
      BY <1>2, <2>1
    <2>. QED
      BY <1>3, <2>2
  <1>. QED
    BY <1>4

LEMMA HighestIsNat ==
    ASSUME NEW m \in Machines
    PROVE  HighestAddress(m) \in Nat
  <1>1. CASE m.info # 0 /\ HasMap(m)
    <2> DEFINE S == {LowLimit} \union {RegionEnd(e) : e \in m.map}
    <2>1. S \in SUBSET (0 .. Word) /\ S # {}
      <3>1. ASSUME NEW e \in m.map PROVE RegionEnd(e) \in 0 .. Word
        <4>1. e.base \in Nat /\ e.length \in Nat
          BY MachineIs DEF Region
        <4>. QED
          BY <4>1, Sizes DEF RegionEnd
      <3>. QED
        BY <3>1, Sizes
    <2> HIDE DEF S
    <2>2. \E n \in S : \A k \in S : n >= k
      BY <2>1, Greatest, Sizes
    <2>3. Max(S) \in S
      BY <2>2 DEF Max
    <2>4. HighestAddress(m) = Max(S)
      BY <1>1 DEF HighestAddress, S
    <2>5. Max(S) \in 0 .. Word
      BY <2>1, <2>3
    <2>. QED
      BY <2>4, <2>5, Sizes
  <1>2. CASE m.info = 0
    BY <1>2, Sizes DEF HighestAddress, HasMap
  <1>3. CASE m.info # 0 /\ ~HasMap(m)
    BY <1>3, MachineIs, Sizes DEF HighestAddress
  <1>. QED
    BY <1>1, <1>2, <1>3

LEMMA TotalPagesType ==
    ASSUME NEW m \in Machines
    PROVE  /\ TotalPages(m) \in Nat
           /\ \A p \in Nat : p < TotalPages(m) => p \in Pages
  <1> DEFINE S == {HighestAddress(m), MaxTracked}
  <1> DEFINE last == Min(S)
  <1>1. HighestAddress(m) \in Nat
    BY HighestIsNat
  <1>2. \E n \in S : \A k \in S : n <= k
    BY <1>1, Sizes
  <1>3. last \in S /\ last <= MaxTracked
    BY <1>2 DEF Min
  <1>4. last \in Nat
    BY <1>1, <1>3, Sizes
  <1> HIDE DEF last
  <1>5. AlignUp(last) \in Nat /\ Whole(AlignUp(last)) /\ AlignUp(last) < last + PageSize
    BY <1>3, <1>4, AlignUpRounds, SizesAreWhole, Sizes
  <1>6. AlignUp(last) <= MaxTracked
    <2>1. ~(MaxTracked < AlignUp(last))
      BY <1>3, <1>4, <1>5, SizesAreWhole, WholesApart, Sizes
    <2>. QED
      BY <1>5, <2>1, Sizes
  <1>7. TotalPages(m) = AlignUp(last) \div PageSize
    BY DEF TotalPages, last
  <1>8. AlignUp(last) \div PageSize <= MaxTracked \div PageSize
    <2>1. /\ AlignUp(last) \div PageSize \in Nat /\ MaxTracked \div PageSize \in Nat
          /\ AlignUp(last) >= (AlignUp(last) \div PageSize) * PageSize
          /\ MaxTracked = (MaxTracked \div PageSize) * PageSize
          /\ (MaxTracked \div PageSize) * PageSize \in Nat
          /\ (AlignUp(last) \div PageSize) * PageSize \in Nat
      BY <1>5, Quotient, Multiples, Sizes
    <2>2. ~(MaxTracked \div PageSize < AlignUp(last) \div PageSize)
      BY <1>5, <1>6, <2>1, Multiples, Sizes
    <2>. QED
      BY <2>1, <2>2
  <1>9. TotalPages(m) \in Nat
    BY <1>5, <1>7, Quotient
  <1>. QED
    BY <1>7, <1>8, <1>9, Quotient, Sizes DEF Pages

-----------------------------------------------------------------------------
(* The pool of free pages                                                  *)

Total == TotalPages(machine)

\* Page 0 is never free: its address would pass for a null pointer.
Tracked == 1 .. Total - 1

PoolInv ==
    /\ machine \in Machines
    /\ free \subseteq Tracked
    /\ IsFiniteSet(free)
    /\ freePages = Cardinality(free)
    /\ usedPages \in Int /\ freePages + usedPages = Total
    /\ nextSearch \in 0 .. Total

LEMMA TrackedFacts ==
    ASSUME machine \in Machines
    PROVE  /\ Total \in Nat /\ Tracked \subseteq Pages /\ BootFree(machine) \subseteq Tracked
           /\ IsFiniteSet(Tracked) /\ Cardinality(Tracked) <= Total
  <1>1. Total \in Nat /\ \A p \in Nat : p < Total => p \in Pages
    BY TotalPagesType DEF Total
  <1>2. Tracked \subseteq Pages
    BY <1>1 DEF Tracked
  <1>3. ASSUME NEW p \in BootFree(machine) PROVE p \in Tracked
    <2>1. p \in Nat /\ p # 0
      BY BootFreeIsUsable, PageFacts
    <2>2. p < Total
      BY DEF BootFree, Total
    <2>. QED
      BY <1>1, <2>1, <2>2 DEF Tracked
  <1>4. /\ IsFiniteSet(Tracked)
        /\ Cardinality(Tracked) = IF 1 > Total - 1 THEN 0 ELSE Total - 1 - 1 + 1
    <2>1. Total - 1 \in Int
      BY <1>1
    <2>. QED
      BY <2>1, FS_Interval DEF Tracked
  <1>. QED
    BY <1>1, <1>2, <1>3, <1>4

LEMMA FreeFacts ==
    ASSUME PoolInv
    PROVE  /\ Total \in Nat /\ freePages \in Nat /\ usedPages \in Nat
           /\ free \subseteq 0 .. Total - 1
           /\ freePages = 0 <=> free = {}
  <1>1. /\ Total \in Nat /\ IsFiniteSet(Tracked) /\ Cardinality(Tracked) <= Total
    BY TrackedFacts DEF PoolInv
  <1>2. freePages \in Nat /\ (freePages = 0 <=> free = {})
    BY FS_CardinalityType, FS_EmptySet DEF PoolInv
  <1>3. /\ freePages <= Cardinality(Tracked)
        /\ Cardinality(Tracked) \in Nat
    BY <1>1, FS_Subset, FS_CardinalityType DEF PoolInv
  <1>4. usedPages \in Nat
    BY <1>1, <1>2, <1>3 DEF PoolInv
  <1>5. free \subseteq 0 .. Total - 1
    BY <1>1 DEF PoolInv, Tracked
  <1>. QED
    BY <1>1, <1>2, <1>4, <1>5

LEMMA InitPool == Init => PoolInv
  <1>1. ASSUME Init PROVE PoolInv
    <2>1. machine \in Machines /\ free = BootFree(machine) /\ freePages = Cardinality(free)
          /\ usedPages = Total - freePages /\ nextSearch = 0
      BY <1>1 DEF Init, PmmInit, Total
    <2>2. IsFiniteSet(free) /\ free \subseteq Tracked /\ Total \in Nat
      BY <2>1, TrackedFacts, FS_Subset
    <2>3. freePages \in Nat
      BY <2>1, <2>2, FS_CardinalityType
    <2>. QED
      BY <2>1, <2>2, <2>3 DEF PoolInv
  <1>. QED
    BY <1>1

LEMMA TakesKeepsPool ==
    ASSUME PoolInv, NEW p, Takes(p)
    PROVE  /\ PoolInv'
           /\ p \in free /\ p \in Tracked /\ free' = free \ {p} /\ UNCHANGED <<machine, astray>>
  <1>1. /\ p \in free /\ free' = free \ {p} /\ freePages' = freePages - 1
        /\ usedPages' = usedPages + 1 /\ nextSearch' = p + 1 /\ UNCHANGED <<machine, astray>>
    BY DEF Takes, FirstFree
  <1>2. IsFiniteSet(free') /\ Cardinality(free') = freePages - 1
    BY <1>1, FS_RemoveElement DEF PoolInv
  <1>3. UNCHANGED Total /\ UNCHANGED Tracked
    BY <1>1 DEF Total, Tracked
  <1>4. Total \in Nat /\ freePages \in Nat /\ p \in 0 .. Total - 1 /\ p \in Tracked
    BY <1>1, FreeFacts DEF PoolInv
  <1>. QED
    BY <1>1, <1>2, <1>3, <1>4 DEF PoolInv

LEMMA MarkFreeKeepsPool ==
    ASSUME PoolInv, NEW p \in Nat, p # 0, MarkFree(p), UNCHANGED <<machine, nextSearch>>
    PROVE  PoolInv' /\ free' = IF p \in Tracked THEN free \union {p} ELSE free
  <1>1. UNCHANGED Total /\ UNCHANGED Tracked
    BY DEF Total, Tracked
  <1>2. Total \in Nat /\ freePages \in Nat
    BY FreeFacts
  <1>3. p \in Tracked <=> p < Total
    BY <1>2 DEF Tracked
  <1>4. CASE p \in Tracked /\ p \notin free
    <2>1. /\ free' = free \union {p} /\ freePages' = freePages + 1
          /\ usedPages' = usedPages - 1
      BY <1>3, <1>4 DEF MarkFree, Total
    <2>2. IsFiniteSet(free') /\ Cardinality(free') = freePages + 1
      BY <1>4, <2>1, FS_AddElement DEF PoolInv
    <2>. QED
      BY <1>1, <1>2, <1>4, <2>1, <2>2 DEF PoolInv
  <1>5. CASE ~(p \in Tracked /\ p \notin free)
    <2>1. UNCHANGED <<free, freePages, usedPages>>
      BY <1>3, <1>5 DEF MarkFree, Total
    <2>. QED
      BY <1>1, <1>5, <2>1 DEF PoolInv
  <1>. QED
    BY <1>4, <1>5

(* The search of hnm_pmm_alloc_page comes past every page, and stops at the *)
(* first that is free.                                                     *)
LEMMA SearchFinds ==
    ASSUME PoolInv, free # {}
    PROVE  \E p \in Pages : FirstFree(p)
  <1>1. Total \in Nat /\ free \subseteq 0 .. Total - 1 /\ nextSearch \in 0 .. Total
    BY FreeFacts DEF PoolInv
  <1> DEFINE S == {k \in 0 .. Total - 1 : Scanned(k) \in free}
  <1>2. PICK p \in free : TRUE
    OBVIOUS
  <1>3. p \in Nat /\ p < Total /\ Total > 0
    BY <1>1, <1>2
  <1>4. S # {}
    <2>1. CASE nextSearch <= p
      <3>1. p - nextSearch \in 0 .. Total - 1 /\ nextSearch + (p - nextSearch) = p
        BY <1>1, <1>3, <2>1
      <3>2. p % Total = p
        BY <1>3, <1>1
      <3>3. Scanned(p - nextSearch) = p
        BY <3>1, <3>2 DEF Scanned, Total
      <3>. QED
        BY <1>2, <3>1, <3>3
    <2>2. CASE p < nextSearch
      <3>1. /\ p + Total - nextSearch \in 0 .. Total - 1
            /\ nextSearch + (p + Total - nextSearch) = p + Total
        BY <1>1, <1>3, <2>2
      <3>2. (p + Total) % Total = p
        BY <1>3, <1>1
      <3>3. Scanned(p + Total - nextSearch) = p
        BY <3>1, <3>2 DEF Scanned, Total
      <3>. QED
        BY <1>2, <3>1, <3>3
    <2>. QED
      BY <1>1, <1>3, <2>1, <2>2
  <1>5. S \in SUBSET Nat
    OBVIOUS
  <1>6. PICK k \in S : \A j \in S : k <= j
    <2> HIDE DEF S
    <2>. QED
      BY <1>4, <1>5, Least
  <1>7. k \in 0 .. Total - 1 /\ Scanned(k) \in free
    BY <1>6
  <1>8. \A j \in 0 .. k - 1 : Scanned(j) \notin free
    <2>1. ASSUME NEW j \in 0 .. k - 1 PROVE j \notin S
      <3>1. ~(k <= j)
        BY <1>5, <1>7, <2>1
      <3>. QED
        BY <1>6, <3>1
    <2>2. \A j \in 0 .. k - 1 : j \in 0 .. Total - 1
      BY <1>1, <1>7
    <2>. QED
      BY <2>1, <2>2
  <1>9. FirstFree(Scanned(k))
    BY <1>7, <1>8 DEF FirstFree, Total
  <1>10. Scanned(k) \in Pages
    BY <1>7, TrackedFacts DEF PoolInv
  <1>. QED
    BY <1>9, <1>10

LEMMA RefusalMeansFull ==
    ASSUME PoolInv
    PROVE  RefusesOnlyWhenFull
  <1>1. freePages = 0 <=> free = {}
    BY FreeFacts
  <1>2. free = {} => OutOfPages
    BY <1>1 DEF OutOfPages
  <1>3. free # {} => ~OutOfPages
    BY <1>1, SearchFinds DEF OutOfPages
  <1>. QED
    BY <1>2, <1>3 DEF RefusesOnlyWhenFull

-----------------------------------------------------------------------------
(* The heap's pages and blocks                                             *)

Mine == free \union held

\* Where the heap's pages may be: nobody else has them, or they went astray.
HeapPart == {p \in Tracked : p \in astray \/ p \in BootFree(machine) \ Mine}

(* A block lies in one page, behind an aligned offset.                      *)
LiesIn(b, p, offset) ==
    /\ b.address = p * PageSize + offset
    /\ offset % Alignment = 0 /\ offset + b.size <= PageSize

BlockOK(b) == \E p \in HeapPart, offset \in Nat : LiesIn(b, p, offset)

OwnInv ==
    /\ held \subseteq Tracked /\ astray \subseteq Tracked
    /\ Mine \ astray \subseteq BootFree(machine)
    /\ free \cap held \subseteq astray
    /\ heapPage = 0 \/ \E p \in HeapPart : heapPage = p * PageSize
    /\ \A b \in blocks : BlockOK(b)

(* Behind that offset of the page no block lies that was kept.             *)
Clear(page, offset) ==
    \A b \in Kept :
        b.address + b.size <= page + offset \/ b.address >= page + PageSize

BlockInv ==
    /\ heapPage \in Nat
    /\ heapOffset \in 0 .. PageSize /\ heapOffset % Alignment = 0
    /\ heapStats \in [pages : Nat, used : Nat, allocations : 0 .. MaxBlocks]
    /\ blocks \subseteq [address : Nat, size : Nat \ {0}] /\ IsFiniteSet(blocks)
    /\ roomless \in Nat
    /\ Kept = blocks => Cardinality(blocks) + roomless = heapStats.allocations
    /\ Clear(heapPage, heapOffset)
    /\ \A b, c \in Kept : b # c => Span(b) \cap Span(c) = {}

IInv == PoolInv /\ OwnInv /\ BlockInv

LEMMA AlignmentFacts ==
    /\ Alignment \in Nat /\ Alignment > 0 /\ Alignment <= PageSize
    /\ 0 % Alignment = 0 /\ PageSize % Alignment = 0
  <1>1. Alignment \in Nat /\ Alignment > 0 /\ 0 % Alignment = 0 /\ PageSize % Alignment = 0
    BY HeapAssumption
  <1>2. ASSUME PageSize < Alignment PROVE FALSE
    <2>1. PageSize % Alignment = PageSize
      BY <1>1, <1>2, Sizes
    <2>. QED
      BY <1>1, <2>1, Sizes
  <1>. QED
    BY <1>1, <1>2, Sizes

LEMMA AlignedCovers ==
    ASSUME NEW size \in Requests, size # 0
    PROVE  /\ size \in Nat /\ size > 0
           /\ Aligned(size) \in Nat /\ Aligned(size) % Alignment = 0
           /\ Wraps(size) => Aligned(size) = 0
           /\ ~Wraps(size) => size <= Aligned(size)
  <1>1. size \in Nat /\ size > 0 /\ size < Word
    BY HeapAssumption, Sizes DEF Address
  <1>2. CASE size + Alignment - 1 < Word
    <2> DEFINE s == size + Alignment - 1
    <2>1. s \in Nat /\ Aligned(size) = s - (s % Alignment)
      BY <1>1, <1>2, AlignmentFacts, SmallModulus DEF Aligned
    <2>2. /\ s % Alignment \in 0 .. Alignment - 1 /\ s \div Alignment \in Nat
          /\ s = (s \div Alignment) * Alignment + (s % Alignment)
      BY <2>1, AlignmentFacts
    <2>3. size <= Aligned(size) /\ Aligned(size) \in Nat
      BY <1>1, <2>1, <2>2, AlignmentFacts
    <2>4. Aligned(size) = (s \div Alignment) * Alignment
      <3>1. (s \div Alignment) * Alignment \in Nat
        BY <2>2, AlignmentFacts
      <3>. QED
        BY <2>1, <2>2, <3>1
    <2>5. ((s \div Alignment) * Alignment) % Alignment = 0
      BY <2>2, AlignmentFacts
    <2>6. ~Wraps(size)
      BY <1>1, <2>3 DEF Wraps
    <2>. QED
      BY <1>1, <2>3, <2>4, <2>5, <2>6
  <1>3. CASE size + Alignment - 1 >= Word
    <2> DEFINE s == size + Alignment - 1 - Word
    <2>1. s \in Nat /\ s < Alignment /\ s < Word /\ size + Alignment - 1 = s + Word
      BY <1>1, <1>3, AlignmentFacts, Sizes
    <2> HIDE DEF s
    <2>2. (s + Word) % Word = s
      BY <2>1, Sizes
    <2>3. s % Alignment = s
      BY <2>1, AlignmentFacts
    <2>4. Aligned(size) = 0
      BY <2>1, <2>2, <2>3 DEF Aligned
    <2>. QED
      BY <1>1, <2>4, AlignmentFacts DEF Wraps
  <1>. QED
    BY <1>1, <1>2, <1>3, AlignmentFacts, Sizes

LEMMA MultipleAligned == \A k \in Nat : (k * Alignment) % Alignment = 0
  BY AlignmentFacts

LEMMA AlignedDivides ==
    ASSUME NEW n \in Nat, n % Alignment = 0
    PROVE  n \div Alignment \in Nat /\ n = (n \div Alignment) * Alignment
  <1>1. /\ n \div Alignment \in Nat
        /\ n = (n \div Alignment) * Alignment + (n % Alignment)
    BY AlignmentFacts
  <1>2. (n \div Alignment) * Alignment \in Nat
    BY <1>1, AlignmentFacts
  <1>. QED
    BY <1>1, <1>2

LEMMA SumAligned ==
    ASSUME NEW a \in Nat, NEW b \in Nat, a % Alignment = 0, b % Alignment = 0
    PROVE  (a + b) % Alignment = 0
  <1>1. PICK i \in Nat : a = i * Alignment
    BY AlignedDivides
  <1>2. PICK j \in Nat : b = j * Alignment
    BY AlignedDivides
  <1>3. a + b = (i + j) * Alignment /\ i + j \in Nat
    BY <1>1, <1>2, AlignmentFacts
  <1>4. ((i + j) * Alignment) % Alignment = 0
    BY <1>3, MultipleAligned
  <1>. QED
    BY <1>3, <1>4

LEMMA PageStartAligned ==
    ASSUME NEW p \in Nat
    PROVE  (p * PageSize) % Alignment = 0
  <1>1. PICK q \in Nat : PageSize = q * Alignment
    BY AlignedDivides, AlignmentFacts, Sizes
  <1>2. p * PageSize = (p * q) * Alignment /\ p * q \in Nat
    BY <1>1, AlignmentFacts
  <1>3. ((p * q) * Alignment) % Alignment = 0
    BY <1>2, MultipleAligned
  <1>. QED
    BY <1>2, <1>3

(* The page of a block's address is the page that it was cut from.         *)
LEMMA PageOfBlock ==
    ASSUME NEW b, NEW p \in Nat, NEW offset \in Nat, LiesIn(b, p, offset),
           b.size \in Nat \ {0}
    PROVE  PageOf(b) = p
  <1>1. offset < PageSize /\ b.address = p * PageSize + offset
    BY Sizes DEF LiesIn
  <1>2. (p * PageSize + offset) \div PageSize = p
    <2>1. p * PageSize \in Nat
      BY Sizes
    <2> DEFINE d == (p * PageSize + offset) \div PageSize
    <2>2. /\ d \in Nat /\ d * PageSize \in Nat
          /\ d * PageSize <= p * PageSize + offset
          /\ p * PageSize + offset < d * PageSize + PageSize
      BY <2>1, Quotient, Multiples, Sizes
    <2> HIDE DEF d
    <2>3. ~(d < p) /\ ~(p < d)
      BY <1>1, <2>1, <2>2, Multiples, Sizes
    <2>4. d = p
      BY <2>2, <2>3
    <2>. QED
      BY <2>4 DEF d
  <1>. QED
    BY <1>1, <1>2 DEF PageOf

-----------------------------------------------------------------------------
(* The steps                                                               *)

(* A request without room gets the address behind the last block.          *)
LEMMA RoomlessKeepsBlocks ==
    ASSUME BlockInv, NEW p \in Nat, NEW offset \in Nat, NEW size \in Requests, size # 0,
           Wraps(size), NEW new \in {0, 1}, Cut(p * PageSize, offset, size, new),
           UNCHANGED astray, heapStats.allocations < MaxBlocks,
           offset % Alignment = 0, offset <= PageSize, Clear(p * PageSize, offset)
    PROVE  BlockInv'
  <1>1. Aligned(size) = 0
    BY AlignedCovers
  <1>2. /\ heapPage' = p * PageSize /\ heapOffset' = offset
        /\ heapStats' = [pages |-> heapStats.pages + new, used |-> heapStats.used + 0,
                         allocations |-> heapStats.allocations + 1]
        /\ roomless' = roomless + 1 /\ UNCHANGED blocks
    BY <1>1 DEF Cut, HandedOut
  <1>3. Kept' = Kept
    BY <1>2 DEF Kept
  <1>4. /\ heapStats \in [pages : Nat, used : Nat, allocations : 0 .. MaxBlocks]
        /\ MaxBlocks \in Nat /\ p * PageSize \in Nat
    BY HeapAssumption, Sizes DEF BlockInv
  <1>5. heapStats' \in [pages : Nat, used : Nat, allocations : 0 .. MaxBlocks]
    BY <1>2, <1>4
  <1>6. Clear(heapPage, heapOffset)'
    BY <1>2, <1>3 DEF Clear
  <1>7. Kept' = blocks' => Cardinality(blocks') + roomless' = heapStats'.allocations
    <2>1. SUFFICES ASSUME Kept = blocks
                   PROVE  Cardinality(blocks) + (roomless + 1) = heapStats.allocations + 1
      BY <1>2, <1>3
    <2>2. Cardinality(blocks) + roomless = heapStats.allocations
      BY <2>1 DEF BlockInv
    <2>3. Cardinality(blocks) \in Nat /\ roomless \in Nat
      BY FS_CardinalityType DEF BlockInv
    <2>. QED
      BY <2>2, <2>3
  <1>. QED
    BY <1>2, <1>3, <1>4, <1>5, <1>6, <1>7, Sizes DEF BlockInv, Span

LEMMA CutKeepsBlocks ==
    ASSUME BlockInv, NEW p \in Nat, NEW offset \in Nat, NEW size \in Requests, size # 0,
           ~Wraps(size), NEW new \in {0, 1}, Cut(p * PageSize, offset, size, new),
           UNCHANGED astray, heapStats.allocations < MaxBlocks,
           offset % Alignment = 0, offset + Aligned(size) <= PageSize,
           Clear(p * PageSize, offset)
    PROVE  BlockInv'
  <1> DEFINE page == p * PageSize
  <1> DEFINE block == [address |-> page + offset, size |-> size]
  <1>1. /\ size \in Nat /\ size > 0 /\ Aligned(size) \in Nat /\ size <= Aligned(size)
        /\ Aligned(size) % Alignment = 0
    BY AlignedCovers
  <1>2. page \in Nat
    BY Sizes
  <1>3. /\ heapPage' = page /\ heapOffset' = offset + Aligned(size)
        /\ heapStats' = [pages |-> heapStats.pages + new,
                         used |-> heapStats.used + Aligned(size),
                         allocations |-> heapStats.allocations + 1]
        /\ blocks' = blocks \union {block} /\ roomless' = roomless
    BY DEF Cut, HandedOut
  <1>4. \A b \in Kept :
          /\ b \in blocks /\ b.address \in Nat /\ b.size \in Nat
          /\ b.address + b.size <= page + offset \/ b.address >= page + PageSize
    BY DEF BlockInv, Clear, Kept
  <1> HIDE DEF page
  <1>5. /\ block \in [address : Nat, size : Nat \ {0}]
        /\ block.address = page + offset /\ block.size = size
    BY <1>1, <1>2
  <1>6. Kept' \subseteq Kept \union {block}
    BY <1>3 DEF Kept
  <1>7. \A b \in Kept : Span(b) \cap Span(block) = {}
    <2>1. SUFFICES ASSUME NEW b \in Kept PROVE Span(b) \cap Span(block) = {}
      OBVIOUS
    <2>2. /\ b.address + b.size <= page + offset \/ page + offset + size <= b.address
          /\ page + offset \in Nat
      BY <1>1, <1>2, <1>4, Sizes
    <2>3. Bytes(b.address, b.size) \cap Bytes(page + offset, size) = {}
      BY <1>1, <1>4, <2>2, BytesDisjoint
    <2>. QED
      BY <1>5, <2>3 DEF Span
  <1>8. Kept' = blocks' => Cardinality(blocks') + roomless' = heapStats'.allocations
    <2>1. SUFFICES ASSUME Kept' = blocks'
                   PROVE  Cardinality(blocks \union {block}) + roomless = heapStats.allocations + 1
      BY <1>3
    <2>2. Kept = blocks
      BY <1>3, <2>1 DEF Kept
    <2>3. block \notin blocks
      BY <1>1, <1>2, <1>4, <1>5, <2>2, Sizes
    <2>4. /\ Cardinality(blocks) + roomless = heapStats.allocations
          /\ IsFiniteSet(blocks) /\ roomless \in Nat
      BY <2>2 DEF BlockInv
    <2>5. /\ Cardinality(blocks \union {block}) = Cardinality(blocks) + 1
          /\ Cardinality(blocks) \in Nat
      BY <2>3, <2>4, FS_AddElement, FS_CardinalityType
    <2>. QED
      BY <2>4, <2>5
  <1>9. heapOffset' \in 0 .. PageSize /\ heapOffset' % Alignment = 0
    <2>1. (offset + Aligned(size)) % Alignment = 0
      BY <1>1, SumAligned
    <2>2. offset + Aligned(size) \in 0 .. PageSize
      BY <1>1, Sizes
    <2>. QED
      BY <1>3, <2>1, <2>2
  <1>10. heapStats' \in [pages : Nat, used : Nat, allocations : 0 .. MaxBlocks]
    <2>1. heapStats \in [pages : Nat, used : Nat, allocations : 0 .. MaxBlocks]
      BY DEF BlockInv
    <2>2. /\ heapStats.pages + new \in Nat
          /\ heapStats.used + Aligned(size) \in Nat
          /\ heapStats.allocations + 1 \in 0 .. MaxBlocks
      BY <1>1, <2>1, HeapAssumption
    <2>. QED
      BY <1>3, <2>2
  <1>11. Clear(heapPage, heapOffset)'
    <2>1. \A b \in Kept' :
            b.address + b.size <= heapPage' + heapOffset' \/ b.address >= heapPage' + PageSize
      BY <1>1, <1>2, <1>3, <1>4, <1>5, <1>6, Sizes
    <2>. QED
      BY <2>1 DEF Clear
  <1>12. \A b, c \in Kept' : b # c => Span(b) \cap Span(c) = {}
    BY <1>6, <1>7 DEF BlockInv
  <1>13. IsFiniteSet(blocks') /\ blocks' \subseteq [address : Nat, size : Nat \ {0}]
    BY <1>3, <1>5, FS_AddElement DEF BlockInv
  <1>. QED
    BY <1>2, <1>3, <1>8, <1>9, <1>10, <1>11, <1>12, <1>13 DEF BlockInv, Span

LEMMA OwnersKept ==
    ASSUME OwnInv, UNCHANGED <<machine, heapPage, blocks>>,
           astray \subseteq astray', astray' \subseteq Tracked, held' \subseteq Tracked,
           Mine' \subseteq Mine \union astray', free' \cap held' \subseteq astray'
    PROVE  OwnInv'
  <1>1. Tracked' = Tracked
    BY DEF Tracked, Total
  <1>2. HeapPart \subseteq HeapPart'
    BY <1>1 DEF HeapPart
  <1>3. Mine' \ astray' \subseteq BootFree(machine)
    BY DEF OwnInv
  <1>4. \A b \in blocks' : BlockOK(b)'
    BY <1>2 DEF OwnInv, BlockOK, LiesIn
  <1>. QED
    BY <1>1, <1>2, <1>3, <1>4 DEF OwnInv

LEMMA BlocksKept ==
    ASSUME BlockInv, UNCHANGED heapVars, astray \subseteq astray'
    PROVE  BlockInv'
  <1>1. /\ UNCHANGED <<heapPage, heapOffset, heapStats, blocks, roomless>>
        /\ Kept' \subseteq Kept /\ (Kept' = blocks' => Kept = blocks)
    BY DEF heapVars, Kept
  <1>. QED
    BY <1>1 DEF BlockInv, Clear, Span

LEMMA CutKeepsOwners ==
    ASSUME OwnInv, NEW p \in HeapPart', NEW offset \in Nat, NEW size, NEW new,
           Cut(p * PageSize, offset, size, new), UNCHANGED <<machine, astray>>,
           offset % Alignment = 0, ~Wraps(size) => offset + size <= PageSize,
           free' \subseteq free
    PROVE  OwnInv'
  <1> DEFINE block == [address |-> p * PageSize + offset, size |-> size]
  <1>1. /\ heapPage' = p * PageSize /\ UNCHANGED held
        /\ IF Wraps(size) THEN blocks' = blocks ELSE blocks' = blocks \union {block}
    BY DEF Cut, HandedOut
  <1>2. Tracked' = Tracked /\ HeapPart \subseteq HeapPart' /\ Mine' \subseteq Mine
    BY <1>1 DEF Tracked, Total, HeapPart, Mine
  <1>3. ASSUME NEW b \in blocks PROVE BlockOK(b)'
    BY <1>2 DEF OwnInv, BlockOK, LiesIn
  <1>4. ASSUME ~Wraps(size) PROVE BlockOK(block)'
    BY <1>4 DEF BlockOK, LiesIn
  <1>5. \A b \in blocks' : BlockOK(b)'
    BY <1>1, <1>3, <1>4
  <1>6. \E q \in HeapPart' : heapPage' = q * PageSize
    BY <1>1
  <1>. QED
    BY <1>1, <1>2, <1>5, <1>6 DEF OwnInv

(* A page that the heap takes has no block on it that was kept.            *)
LEMMA FreePageIsClear ==
    ASSUME OwnInv, BlockInv, PoolInv, NEW p \in free
    PROVE  Clear(p * PageSize, 0)
  <1>1. ASSUME NEW b \in Kept
        PROVE  b.address + b.size <= p * PageSize + 0 \/ b.address >= p * PageSize + PageSize
    <2>1. PICK q \in HeapPart, offset \in Nat : LiesIn(b, q, offset)
      BY DEF OwnInv, BlockOK, Kept
    <2>2. q \in Nat /\ p \in Nat /\ b.size \in Nat \ {0}
      BY <2>1, TrackedFacts, PageFacts DEF PoolInv, HeapPart, BlockInv, Kept
    <2>3. PageOf(b) = q
      BY <2>1, <2>2, PageOfBlock
    <2>4. q # p
      BY <2>1, <2>3 DEF Kept, HeapPart, Mine
    <2>5. /\ q * PageSize \in Nat /\ p * PageSize \in Nat
          /\ q < p => q * PageSize + PageSize <= p * PageSize
          /\ p < q => p * PageSize + PageSize <= q * PageSize
      BY <2>2, Multiples
    <2>6. b.address = q * PageSize + offset /\ offset + b.size <= PageSize
      BY <2>1 DEF LiesIn
    <2>. QED
      BY <2>2, <2>4, <2>5, <2>6, Sizes
  <1>. QED
    BY <1>1 DEF Clear

LEMMA CutKeeps ==
    ASSUME OwnInv, BlockInv, NEW p \in HeapPart', p \in Nat, NEW offset \in Nat,
           NEW size \in Requests, ~BadSize(size), heapStats.allocations < MaxBlocks,
           NEW new \in {0, 1}, Cut(p * PageSize, offset, size, new),
           UNCHANGED <<machine, astray>>, free' \subseteq free,
           offset % Alignment = 0, offset + Aligned(size) <= PageSize,
           Clear(p * PageSize, offset)
    PROVE  OwnInv' /\ BlockInv'
  <1>1. size # 0
    BY DEF BadSize
  <1>2. /\ size \in Nat /\ Aligned(size) \in Nat /\ (Wraps(size) => Aligned(size) = 0)
        /\ ~Wraps(size) => size <= Aligned(size)
    BY <1>1, AlignedCovers
  <1>3. (~Wraps(size) => offset + size <= PageSize) /\ offset <= PageSize
    BY <1>2, Sizes
  <1>4. OwnInv'
    BY <1>3, CutKeepsOwners
  <1>5. BlockInv'
    BY <1>1, <1>3, RoomlessKeepsBlocks, CutKeepsBlocks
  <1>. QED
    BY <1>4, <1>5

LEMMA KmallocKeeps ==
    ASSUME IInv, NEW size \in Requests, Kmalloc(size)
    PROVE  IInv'
  <1>0. /\ PoolInv /\ OwnInv /\ BlockInv
        /\ ~BadSize(size) /\ heapStats.allocations < MaxBlocks
    BY DEF IInv, Kmalloc
  <1>1. Aligned(size) \in Nat /\ Aligned(size) <= PageSize
    BY <1>0, AlignedCovers, Sizes DEF BadSize
  <1>2. CASE /\ ~NeedsPage(Aligned(size)) /\ Cut(heapPage, heapOffset, size, 0)
             /\ UNCHANGED <<machine, free, freePages, usedPages, nextSearch, astray>>
    <2>1. /\ heapPage # 0 /\ heapOffset \in Nat /\ heapOffset % Alignment = 0
          /\ heapOffset + Aligned(size) <= PageSize
      BY <1>0, <1>1, <1>2, Sizes DEF NeedsPage, BlockInv
    <2>2. PICK p \in HeapPart : heapPage = p * PageSize
      BY <1>0, <2>1 DEF OwnInv
    <2>3. p \in Nat /\ Clear(p * PageSize, heapOffset)
      BY <1>0, <2>2, TrackedFacts, PageFacts DEF PoolInv, HeapPart, BlockInv
    <2>4. UNCHANGED held /\ Cut(p * PageSize, heapOffset, size, 0)
      BY <1>2, <2>2 DEF Cut
    <2>5. p \in HeapPart'
      BY <1>2, <2>2, <2>4 DEF HeapPart, Mine, Tracked, Total
    <2>6. OwnInv' /\ BlockInv'
      BY <1>0, <1>2, <2>1, <2>3, <2>4, <2>5, CutKeeps
    <2>7. PoolInv'
      BY <1>0, <1>2 DEF PoolInv, Total, Tracked
    <2>. QED
      BY <2>6, <2>7 DEF IInv
  <1>3. CASE \E p \in Pages : Takes(p) /\ Cut(p * PageSize, 0, size, 1)
    <2>1. PICK p \in Pages : Takes(p) /\ Cut(p * PageSize, 0, size, 1)
      BY <1>3
    <2>2. /\ PoolInv' /\ p \in free /\ p \in Tracked /\ free' = free \ {p}
          /\ UNCHANGED <<machine, astray>>
      BY <1>0, <2>1, TakesKeepsPool
    <2>3. p \in Nat /\ UNCHANGED held
      BY <2>1, PageFacts DEF Cut
    <2>4. p \in HeapPart'
      BY <1>0, <2>2, <2>3 DEF HeapPart, Mine, OwnInv, Tracked, Total
    <2>5. Clear(p * PageSize, 0)
      BY <1>0, <2>2, FreePageIsClear
    <2>6. 0 % Alignment = 0 /\ 0 + Aligned(size) <= PageSize
      BY <1>1, AlignmentFacts
    <2>7. OwnInv' /\ BlockInv'
      BY <1>0, <2>1, <2>2, <2>3, <2>4, <2>5, <2>6, CutKeeps
    <2>. QED
      BY <2>2, <2>7 DEF IInv
  <1>. QED
    BY <1>2, <1>3 DEF Kmalloc

LEMMA AllocPageKeeps ==
    ASSUME IInv, AllocPage, UNCHANGED heapVars
    PROVE  IInv' /\ Mine' = Mine /\ UNCHANGED <<machine, astray>>
  <1>0. PoolInv /\ OwnInv /\ BlockInv
    BY DEF IInv
  <1>1. PICK p \in Pages : Takes(p) /\ held' = held \union {p}
    BY DEF AllocPage
  <1>2. /\ PoolInv' /\ p \in free /\ p \in Tracked /\ free' = free \ {p}
        /\ UNCHANGED <<machine, astray>>
    BY <1>0, <1>1, TakesKeepsPool
  <1>3. /\ Mine' = Mine /\ held' \subseteq Tracked /\ free' \cap held' \subseteq astray'
    BY <1>0, <1>1, <1>2 DEF Mine, OwnInv
  <1>4. OwnInv'
    BY <1>0, <1>2, <1>3, OwnersKept DEF heapVars, OwnInv
  <1>. QED
    BY <1>0, <1>2, <1>3, <1>4, BlocksKept DEF IInv

LEMMA FreePageIs ==
    ASSUME PoolInv, NEW address \in Nat, FreePage(address)
    PROVE  /\ PoolInv' /\ UNCHANGED machine
           /\ \/ Refused(address) /\ free' = free
              \/ /\ ~Refused(address)
                 /\ free' = IF address \div PageSize \in Tracked
                            THEN free \union {address \div PageSize} ELSE free
  <1>0. UNCHANGED <<machine, nextSearch>>
    BY DEF FreePage
  <1>1. CASE Refused(address)
    BY <1>0, <1>1 DEF FreePage, PoolInv, Total, Tracked
  <1>2. CASE ~Refused(address)
    <2> DEFINE p == address \div PageSize
    <2>1. p \in Nat /\ p # 0
      BY <1>2, Quotient, Sizes DEF Refused
    <2>2. MarkFree(p)
      BY <1>2 DEF FreePage
    <2> HIDE DEF p
    <2>3. PoolInv' /\ free' = IF p \in Tracked THEN free \union {p} ELSE free
      BY <1>0, <2>1, <2>2, MarkFreeKeepsPool
    <2>. QED
      BY <1>0, <1>2, <2>3 DEF p
  <1>. QED
    BY <1>1, <1>2

LEMMA GiveBackKeeps ==
    ASSUME IInv, NEW p \in held, GiveBack(p), UNCHANGED heapVars
    PROVE  IInv' /\ Mine' = Mine /\ UNCHANGED <<machine, astray>>
  <1>0. PoolInv /\ OwnInv /\ BlockInv
    BY DEF IInv
  <1>1. p \in Tracked /\ p \in Pages /\ p \in Nat /\ p # 0 /\ p * PageSize \in Nat
    <2>1. p \in Tracked /\ p \in Pages
      BY <1>0, TrackedFacts DEF PoolInv, OwnInv
    <2>. QED
      BY <2>1, PageFacts DEF Tracked
  <1>2. (p * PageSize) \div PageSize = p /\ ~Refused(p * PageSize)
    <2>1. /\ (p * PageSize) \div PageSize = p /\ (p * PageSize) % PageSize = 0
          /\ p * PageSize # 0
      BY <1>1, Sizes
    <2>. QED
      BY <2>1 DEF Refused
  <1>3. /\ PoolInv' /\ UNCHANGED <<machine, astray>>
        /\ free' = free \union {p} /\ held' = held \ {p}
    BY <1>0, <1>1, <1>2, FreePageIs DEF GiveBack
  <1>4. Mine' = Mine /\ held' \subseteq Tracked /\ free' \cap held' \subseteq astray'
    BY <1>0, <1>3 DEF Mine, OwnInv
  <1>5. OwnInv'
    BY <1>0, <1>3, <1>4, OwnersKept DEF heapVars, OwnInv
  <1>. QED
    BY <1>0, <1>3, <1>4, <1>5, BlocksKept DEF IInv

LEMMA GiveBackStrayKeeps ==
    ASSUME IInv, NEW address \in Pointers, GiveBackStray(address), UNCHANGED heapVars
    PROVE  IInv' /\ Mine \subseteq Mine' /\ astray \subseteq astray' /\ UNCHANGED machine
  <1>0. PoolInv /\ OwnInv /\ BlockInv
    BY DEF IInv
  <1>1. address \in Nat
    BY HeapAssumption, Sizes DEF Address
  <1>2. PoolInv' /\ UNCHANGED machine /\ free \subseteq free'
    BY <1>0, <1>1, FreePageIs DEF GiveBackStray
  <1>3. astray' = astray \union (free' \ free) /\ held' = held
    BY DEF GiveBackStray
  <1>4. free' \subseteq Tracked
    BY <1>2 DEF PoolInv, Tracked, Total
  <1>5. /\ astray \subseteq astray' /\ astray' \subseteq Tracked /\ held' \subseteq Tracked
        /\ Mine' \subseteq Mine \union astray' /\ free' \cap held' \subseteq astray'
    BY <1>0, <1>3, <1>4 DEF OwnInv, Mine
  <1>6. OwnInv'
    BY <1>0, <1>2, <1>5, OwnersKept DEF heapVars
  <1>7. Mine \subseteq Mine'
    BY <1>2, <1>3 DEF Mine
  <1>. QED
    BY <1>0, <1>2, <1>5, <1>6, <1>7, BlocksKept DEF IInv

LEMMA InitEstablishes == Init => IInv
  <1>1. ASSUME Init PROVE IInv
    <2>1. PoolInv
      BY <1>1, InitPool
    <2>2. OwnInv
      BY <1>1, <2>1, TrackedFacts DEF Init, PmmInit, HeapInit, OwnInv, Mine, PoolInv
    <2>3. BlockInv
      BY <1>1, AlignmentFacts, HeapAssumption, Sizes, FS_EmptySet
      DEF Init, HeapInit, BlockInv, Clear, Kept
    <2>. QED
      BY <2>1, <2>2, <2>3 DEF IInv
  <1>. QED
    BY <1>1

LEMMA NextKeeps == IInv /\ [Next]_vars => IInv'
  <1>1. ASSUME IInv, UNCHANGED vars PROVE IInv'
    <2>0. PoolInv /\ OwnInv /\ BlockInv
      BY <1>1 DEF IInv
    <2>1. UNCHANGED <<machine, free, freePages, usedPages, nextSearch, held, astray, heapVars>>
      BY <1>1 DEF vars, pmmVars
    <2>2. PoolInv'
      BY <2>0, <2>1 DEF PoolInv, Total, Tracked
    <2>3. OwnInv'
      BY <2>0, <2>1, OwnersKept DEF OwnInv, Mine, heapVars
    <2>. QED
      BY <2>0, <2>1, <2>2, <2>3, BlocksKept DEF IInv
  <1>2. ASSUME IInv, NEW size \in Requests, Kmalloc(size) \/ KmallocFails(size) PROVE IInv'
    BY <1>1, <1>2, KmallocKeeps DEF KmallocFails
  <1>. QED
    BY <1>1, <1>2, AllocPageKeeps, GiveBackKeeps, GiveBackStrayKeeps DEF Next, Kfree

LEMMA Invariance == Spec => []IInv
  BY InitEstablishes, NextKeeps, PTL DEF Spec

-----------------------------------------------------------------------------
(* What follows from the invariant                                         *)

LEMMA BlockPlace ==
    ASSUME IInv, NEW b \in blocks
    PROVE  \E p \in HeapPart, offset \in Nat :
             LiesIn(b, p, offset) /\ PageOf(b) = p /\ p \in Pages
  <1>1. PICK p \in HeapPart, offset \in Nat : LiesIn(b, p, offset)
    BY DEF IInv, OwnInv, BlockOK
  <1>2. p \in Pages
    BY TrackedFacts DEF IInv, PoolInv, HeapPart
  <1>3. b.size \in Nat \ {0}
    BY DEF IInv, BlockInv
  <1>4. PageOf(b) = p
    BY <1>1, <1>2, <1>3, PageFacts, PageOfBlock
  <1>. QED
    BY <1>1, <1>2, <1>4

LEMMA PageNumber ==
    ASSUME NEW p \in Nat
    PROVE  (p * PageSize) \div PageSize = p
  BY Sizes

LEMMA HeapPagesAre ==
    ASSUME IInv
    PROVE  HeapPages \subseteq HeapPart
  <1>1. \A b \in blocks : PageOf(b) \in HeapPart
    BY BlockPlace
  <1>2. ASSUME heapPage # 0 PROVE heapPage \div PageSize \in HeapPart
    <2>1. PICK p \in HeapPart : heapPage = p * PageSize
      BY <1>2 DEF IInv, OwnInv
    <2>2. p \in Nat
      BY <2>1, TrackedFacts, PageFacts DEF IInv, PoolInv, HeapPart
    <2>. QED
      BY <2>1, <2>2, PageNumber
  <1>. QED
    BY <1>1, <1>2 DEF HeapPages

LEMMA PagesAreBootFree ==
    ASSUME IInv
    PROVE  /\ Offered \subseteq BootFree(machine)
           /\ HeapPages \cap Mine \subseteq astray
  BY HeapPagesAre DEF IInv, OwnInv, Offered, Mine, HeapPart

(* The counters of free and used pages agree with the bitmap, whatever is   *)
(* handed out, refused or given back, also by callers it was not given to. *)
THEOREM CountersRight == Spec => []CountersAgree
  <1>1. IInv => CountersAgree
    BY DEF IInv, PoolInv, Total, CountersAgree
  <1>. QED
    BY <1>1, Invariance, PTL

(* No page is handed out, by the page allocator or under a block, that is   *)
(* not whole in one available region, or that has the kernel or the boot    *)
(* loader's structure on it, for every memory map that is assumed.  If the  *)
(* boot loader is tidy the memory map and the reserved regions are spared   *)
(* as well; the code does not look after them itself.                      *)
THEOREM HandsOutAvailable == Spec => []HandedOutIsAvailable
  <1>1. ASSUME IInv PROVE HandedOutIsAvailable
    <2>1. machine \in Machines
      BY <1>1 DEF IInv, PoolInv
    <2>. QED
      BY <1>1, <2>1, PagesAreBootFree, BootFreeIsUsable DEF HandedOutIsAvailable
  <1>. QED
    BY <1>1, Invariance, PTL

(* No page is at the same time free, a caller's and the heap's, unless it   *)
(* was given back by somebody that it did not belong to.                   *)
THEOREM PagesHaveOneOwner == Spec => []OneOwner
  <1>1. IInv => OneOwner
    BY PagesAreBootFree DEF IInv, OwnInv, OneOwner, Mine
  <1>. QED
    BY <1>1, Invariance, PTL

(* The blocks of the heap are aligned and within their pages, and those     *)
(* whose page nobody else gave back are disjoint.                          *)
THEOREM BlocksKeepApart == Spec => []BlocksApart
  <1>1. ASSUME IInv PROVE BlocksApart
    <2>1. ASSUME NEW b \in blocks
          PROVE  b.address % Alignment = 0 /\ Span(b) \subseteq PageBytes(PageOf(b))
      <3>1. PICK p \in Pages, offset \in Nat : LiesIn(b, p, offset) /\ PageOf(b) = p
        BY <1>1, BlockPlace
      <3>2. p \in Nat /\ p * PageSize \in Nat
        BY PageFacts
      <3>3. b.address % Alignment = 0
        BY <3>1, <3>2, PageStartAligned, SumAligned DEF LiesIn
      <3>4. b.size \in Nat /\ b.address = p * PageSize + offset /\ offset + b.size <= PageSize
        BY <1>1, <3>1 DEF LiesIn, IInv, BlockInv
      <3>5. Span(b) \subseteq PageBytes(p)
        BY <3>2, <3>4, BytesWithin, Sizes DEF Span, PageBytes
      <3>. QED
        BY <3>1, <3>3, <3>5
    <2>. QED
      BY <1>1, <2>1 DEF IInv, BlockInv, BlocksApart
  <1>. QED
    BY <1>1, Invariance, PTL

(* hnm_pmm_alloc_page gives up only when no page is free.                   *)
THEOREM RefusesLate == Spec => []RefusesOnlyWhenFull
  <1>1. IInv => RefusesOnlyWhenFull
    BY RefusalMeansFull DEF IInv
  <1>. QED
    BY <1>1, Invariance, PTL

(* Addresses stay below 2^32, counters do not run below zero, offsets stay  *)
(* in their page.                                                          *)
THEOREM TypeCorrect == Spec => []TypeOK
  <1>1. ASSUME IInv PROVE TypeOK
    <2>0. PoolInv /\ OwnInv /\ BlockInv /\ Tracked \subseteq Pages
      BY <1>1, TrackedFacts DEF IInv, PoolInv
    <2>1. /\ machine \in Machines
          /\ free \subseteq Pages /\ held \subseteq Pages /\ astray \subseteq Pages
          /\ freePages \in Nat /\ usedPages \in Nat /\ nextSearch \in Nat
      BY <2>0, FreeFacts DEF PoolInv, OwnInv
    <2>2. heapPage \in Address
      <3>1. CASE heapPage = 0
        BY <3>1, Sizes DEF Address
      <3>2. CASE \E p \in HeapPart : heapPage = p * PageSize
        <4>1. PICK p \in Pages : heapPage = p * PageSize
          BY <2>0, <3>2 DEF HeapPart
        <4>. QED
          BY <4>1, PageFacts, Sizes DEF Address
      <3>. QED
        BY <2>0, <3>1, <3>2 DEF OwnInv
    <2>3. ASSUME NEW b \in blocks
          PROVE  b \in [address : Address, size : 1 .. PageSize]
      <3>1. PICK p \in Pages, offset \in Nat : LiesIn(b, p, offset)
        BY <1>1, BlockPlace
      <3>2. b \in [address : Nat, size : Nat \ {0}]
        BY <2>0 DEF BlockInv
      <3>3. b.address \in Address /\ b.size \in 1 .. PageSize
        <4>1. p * PageSize \in Nat /\ p * PageSize + PageSize <= MaxTracked
          BY PageFacts
        <4>2. b.address = p * PageSize + offset /\ offset + b.size <= PageSize
          BY <3>1 DEF LiesIn
        <4>. QED
          BY <3>2, <4>1, <4>2, Sizes DEF Address
      <3>. QED
        BY <3>2, <3>3
    <2>. QED
      BY <2>0, <2>1, <2>2, <2>3 DEF BlockInv, TypeOK
  <1>. QED
    BY <1>1, Invariance, PTL

-----------------------------------------------------------------------------
(* Where the pages are                                                     *)

BlockPages == {PageOf(b) : b \in blocks}

(* Once something was cut from the current page there is a block on it, so  *)
(* that it still counts as the heap's when it is left.                     *)
CurrentIsUsed ==
    heapPage # 0 /\ heapOffset # 0 => heapPage \div PageSize \in BlockPages

LostInv == NoPageIsLost /\ CurrentIsUsed

(* A cut from page p makes p the current page, and no page of the heap is   *)
(* forgotten.                                                              *)
LEMMA CutAddsPage ==
    ASSUME NEW p \in Nat, p # 0, NEW offset \in Nat, NEW size \in Requests, size # 0,
           NEW new \in {0, 1}, Cut(p * PageSize, offset, size, new),
           offset % Alignment = 0, offset + Aligned(size) <= PageSize,
           HeapPages \subseteq BlockPages \union {p},
           offset # 0 => p \in BlockPages
    PROVE  /\ HeapPages' = HeapPages \union {p} /\ CurrentIsUsed'
           /\ heapStats'.pages = heapStats.pages + new /\ UNCHANGED held
  <1> DEFINE block == [address |-> p * PageSize + offset, size |-> size]
  <1>1. /\ heapPage' = p * PageSize /\ heapOffset' = offset + Aligned(size)
        /\ heapStats'.pages = heapStats.pages + new /\ UNCHANGED held
        /\ blocks' = IF Wraps(size) THEN blocks ELSE blocks \union {block}
    BY DEF Cut, HandedOut
  <1>2. /\ size \in Nat \ {0} /\ Aligned(size) \in Nat
        /\ Wraps(size) => Aligned(size) = 0
        /\ ~Wraps(size) => size <= Aligned(size)
    BY AlignedCovers
  <1>3. ASSUME ~Wraps(size) PROVE PageOf(block) = p
    <2>1. offset + size <= PageSize
      BY <1>2, <1>3, Sizes
    <2>2. LiesIn(block, p, offset) /\ block.size \in Nat \ {0}
      BY <1>2, <2>1 DEF LiesIn
    <2> HIDE DEF block
    <2>. QED
      BY <1>3, <2>2, PageOfBlock
  <1> HIDE DEF block
  <1>4. BlockPages' = IF Wraps(size) THEN BlockPages ELSE BlockPages \union {p}
    <2>1. CASE Wraps(size)
      BY <1>1, <2>1 DEF BlockPages
    <2>2. CASE ~Wraps(size)
      BY <1>1, <1>3, <2>2 DEF BlockPages, PageOf
    <2>. QED
      BY <2>1, <2>2
  <1>5. heapPage' # 0 /\ heapPage' \div PageSize = p
    <2>1. p * PageSize # 0
      BY Sizes
    <2>. QED
      BY <1>1, <2>1, PageNumber
  <1>6. HeapPages' = BlockPages' \union {p}
    BY <1>5 DEF HeapPages, BlockPages
  <1>7. BlockPages \subseteq HeapPages
    BY DEF HeapPages, BlockPages
  <1>8. HeapPages' = HeapPages \union {p}
    BY <1>4, <1>6, <1>7
  <1>9. CurrentIsUsed'
    <2>1. CASE Wraps(size)
      BY <1>1, <1>2, <1>4, <1>5, <2>1 DEF CurrentIsUsed
    <2>2. CASE ~Wraps(size)
      BY <1>4, <1>5, <2>2 DEF CurrentIsUsed
    <2>. QED
      BY <2>1, <2>2
  <1>. QED
    BY <1>1, <1>8, <1>9

LEMMA KmallocLosesNoPage ==
    ASSUME IInv, LostInv, NEW size \in Requests, Kmalloc(size)
    PROVE  LostInv'
  <1>0. /\ PoolInv /\ OwnInv /\ BlockInv /\ NoPageIsLost /\ CurrentIsUsed
        /\ ~BadSize(size) /\ size # 0
    BY DEF IInv, LostInv, Kmalloc, BadSize
  <1>1. Aligned(size) \in Nat /\ Aligned(size) <= PageSize
    BY <1>0, AlignedCovers, Sizes DEF BadSize
  <1>2. CASE /\ ~NeedsPage(Aligned(size)) /\ Cut(heapPage, heapOffset, size, 0)
             /\ UNCHANGED <<machine, free, freePages, usedPages, nextSearch, astray>>
    <2>1. /\ heapPage # 0 /\ heapOffset \in Nat /\ heapOffset % Alignment = 0
          /\ heapOffset + Aligned(size) <= PageSize
      BY <1>0, <1>1, <1>2, Sizes DEF NeedsPage, BlockInv
    <2>2. PICK p \in HeapPart : heapPage = p * PageSize
      BY <1>0, <2>1 DEF OwnInv
    <2>3. p \in Nat /\ p # 0
      BY <1>0, <2>2, TrackedFacts, PageFacts DEF PoolInv, HeapPart, Tracked
    <2>4. heapPage \div PageSize = p
      BY <2>2, <2>3, PageNumber
    <2>5. HeapPages = BlockPages \union {p} /\ (heapOffset # 0 => p \in BlockPages)
      BY <1>0, <2>1, <2>4 DEF HeapPages, BlockPages, CurrentIsUsed
    <2>6. Cut(p * PageSize, heapOffset, size, 0)
      BY <1>2, <2>2
    <2>7. /\ HeapPages' = HeapPages \union {p} /\ CurrentIsUsed'
          /\ heapStats'.pages = heapStats.pages + 0 /\ UNCHANGED held
      BY <1>0, <2>1, <2>3, <2>5, <2>6, CutAddsPage
    <2>8. HeapPages' = HeapPages /\ heapStats'.pages = heapStats.pages
      BY <1>0, <2>5, <2>7 DEF BlockInv
    <2>. QED
      BY <1>0, <1>2, <2>7, <2>8 DEF NoPageIsLost, LostInv
  <1>3. CASE \E p \in Pages : NeedsPage(Aligned(size)) /\ Takes(p) /\ Cut(p * PageSize, 0, size, 1)
    <2>1. PICK p \in Pages : Takes(p) /\ Cut(p * PageSize, 0, size, 1)
      BY <1>3
    <2>2. /\ p \in free /\ p \in Tracked /\ free' = free \ {p} /\ UNCHANGED <<machine, astray>>
      BY <1>0, <2>1, TakesKeepsPool
    <2>3. p \in Nat /\ p # 0
      BY <2>1, <2>2, PageFacts DEF Tracked
    <2>4. heapPage # 0 => heapOffset # 0
      BY <1>0, <1>1, <1>3, Sizes DEF NeedsPage, BlockInv
    <2>5. HeapPages \subseteq BlockPages \union {p}
      BY <1>0, <2>4 DEF HeapPages, BlockPages, CurrentIsUsed
    <2>6. 0 % Alignment = 0 /\ 0 + Aligned(size) <= PageSize
      BY <1>1, AlignmentFacts
    <2>7. /\ HeapPages' = HeapPages \union {p} /\ CurrentIsUsed'
          /\ heapStats'.pages = heapStats.pages + 1 /\ UNCHANGED held
      BY <1>0, <2>1, <2>3, <2>5, <2>6, CutAddsPage
    <2>8. ASSUME astray = {} PROVE Cardinality(HeapPages') = heapStats'.pages
      <3>1. p \notin HeapPages
        BY <2>2, <2>8, PagesAreBootFree DEF Mine
      <3>2. IsFiniteSet(HeapPages)
        BY <1>0, HeapPagesAre, TrackedFacts, FS_Subset DEF PoolInv, HeapPart
      <3>3. Cardinality(HeapPages \union {p}) = Cardinality(HeapPages) + 1
        BY <3>1, <3>2, FS_AddElement
      <3>. QED
        BY <1>0, <2>7, <2>8, <3>3 DEF NoPageIsLost
    <2>9. BootFree(machine') \subseteq free' \union held' \union HeapPages'
      BY <1>0, <2>2, <2>7 DEF NoPageIsLost
    <2>. QED
      BY <2>2, <2>7, <2>8, <2>9 DEF NoPageIsLost, LostInv
  <1>. QED
    BY <1>2, <1>3 DEF Kmalloc

(* A page that moves between the bitmap and its holder stays with the two. *)
LEMMA MovesLoseNoPage ==
    ASSUME LostInv, Mine \subseteq Mine', astray \subseteq astray', UNCHANGED <<machine, heapVars>>
    PROVE  LostInv'
  <1>1. /\ HeapPages' = HeapPages /\ BlockPages' = BlockPages
        /\ UNCHANGED <<heapStats, heapPage, heapOffset>>
    BY DEF heapVars, HeapPages, PageOf, BlockPages
  <1>2. BootFree(machine') \subseteq free' \union held' \union HeapPages'
    BY <1>1 DEF LostInv, NoPageIsLost, Mine
  <1>3. astray' = {} => astray = {}
    OBVIOUS
  <1>. QED
    BY <1>1, <1>2, <1>3 DEF LostInv, NoPageIsLost, CurrentIsUsed

(* No sequence of allocations, refusals and give-backs makes the kernel    *)
(* lose a page: what the bitmap calls used is reserved, held by a caller   *)
(* or the heap's, and the heap's own page count is right as long as nobody  *)
(* gave back what was not his.                                             *)
THEOREM PagesAreAccountedFor == Spec => []NoPageIsLost
  <1>1. ASSUME Init PROVE LostInv
    <2>1. /\ free = BootFree(machine) /\ held = {} /\ blocks = {} /\ heapStats.pages = 0
          /\ heapPage = 0
      BY <1>1 DEF Init, PmmInit, HeapInit
    <2>2. HeapPages = {}
      BY <2>1 DEF HeapPages
    <2>. QED
      BY <2>1, <2>2, FS_EmptySet DEF LostInv, NoPageIsLost, CurrentIsUsed
  <1>2. ASSUME IInv, LostInv, [Next]_vars PROVE LostInv'
    <2>1. CASE UNCHANGED vars
      BY <1>2, <2>1, MovesLoseNoPage DEF vars, pmmVars, Mine
    <2>2. ASSUME NEW size \in Requests, Kmalloc(size) \/ KmallocFails(size)
          PROVE  LostInv'
      BY <1>2, <2>1, <2>2, KmallocLosesNoPage DEF KmallocFails
    <2>3. CASE AllocPage /\ UNCHANGED heapVars
      BY <1>2, <2>3, AllocPageKeeps, MovesLoseNoPage
    <2>4. ASSUME NEW p \in held, GiveBack(p), UNCHANGED heapVars PROVE LostInv'
      BY <1>2, <2>4, GiveBackKeeps, MovesLoseNoPage
    <2>5. ASSUME NEW address \in Pointers, GiveBackStray(address), UNCHANGED heapVars
          PROVE  LostInv'
      BY <1>2, <2>5, GiveBackStrayKeeps, MovesLoseNoPage
    <2>. QED
      BY <1>2, <2>1, <2>2, <2>3, <2>4, <2>5 DEF Next, Kfree
  <1>3. LostInv => NoPageIsLost
    BY DEF LostInv
  <1>. QED
    BY <1>1, <1>2, <1>3, Invariance, PTL DEF Spec
=============================================================================
