--------------------------- MODULE IdleCoverProofs ---------------------------
(***************************************************************************)
(* In IdleWalk, what was mapped during the whole walk is counted: nothing  *)
(* of it lies between the parser of a report and the module's cursor, nor  *)
(* between the reader's address and f_pos (CoverInv).                      *)
(***************************************************************************)
EXTENDS IdleWalkProofs

-----------------------------------------------------------------------------
(* What was mapped all along is counted.                                   *)

\* Two slots share no address, and a guest PMD of one slot rounded up to its end
\* does not reach pages of a slot that is mapped elsewhere in the guest.
SlotsApart ==
  \A l \in Layouts : l.mode = "kvm" => \A s, t \in l.slots : s # t =>
    \A a \in Within(s), b \in Within(t) :
      /\ a # b
      /\ a < b /\ s.start - s.gpa # t.start - t.gpa =>
           PmdOf(a - (s.start - s.gpa)) # PmdOf(b - (s.start - s.gpa))

\* The page table maps an address.
Present(a) ==
  /\ a \in DOMAIN pte /\ PmdOf(a) \in DOMAIN pmd
  /\ \/ pud[PudOf(a)] = "present"
     \/ /\ pud[PudOf(a)] = "table"
        /\ \/ pmd[PmdOf(a)] \in {"idle", "accessed"}
           \/ pmd[PmdOf(a)] = "table" /\ pte[a] # "none"

\* An address of a VMA that is walked.
Walked(a) == \E i \in DOMAIN vmas : a \in Within(vmas[i]) /\ ~test_walk_skips(vmas[i])

\* What was there all along is there: in a VMA that was loaded, in the page table, and
\* in a slot or a VMA of today.
Stay ==
  /\ DOMAIN pte \subseteq Nat /\ vmas \in {layout.vmas, layout.later}
  /\ \A a \in stable :
       /\ a \in Nat /\ layout.va_start <= a /\ a < layout.va_end
       /\ \E i \in DOMAIN layout.vmas : is_anonymous(layout.vmas[i]) /\ a \in Within(layout.vmas[i])
       /\ Kvm => /\ layout.root
                 /\ \E s \in layout.slots : a \in Within(s)
                 /\ \A s \in layout.slots : a \in Within(s) => Present(a - (s.start - s.gpa))
       /\ ~Kvm => Present(a) /\ Walked(a)

\* What was there all along and was not taken for a duplicate; what is counted, or was
\* reported in front of another VMA.
Missing == stable \ skipped
Done    == CountedPages \cup cut

\* None of a set of pages is between two addresses; all in front of one are done.
Free(U, from, to) == \A a \in U : ~(from <= a /\ a < to)
Covered(U, to)    == \A a \in U : a < to => a \in Done

\* Behind the first items of a report, addresses and holes pass over no page of a set,
\* and the other runs begin where their pages do.
Gapless(U, items, from, at) ==
  \A k \in from .. Len(items) - 1 :
    LET item == items[k + 1] IN
    IF item.type \in {"SET_HVA"} \cup HoleTypes
      THEN Free(U, IF k = 0 THEN at ELSE Upto(items, k).va, Upto(items, k + 1).va)
      ELSE k # 0 /\ Upto(items, k).va % pagetype_size(item.type) = 0

\* Where the parser of the report stands.
Here == IF eic.out \o eic.kpie = <<>> THEN va ELSE eic.next_hva

\* The walk stays in a slot, or in the range of the read.
InSlot ==
  IF Kvm THEN \E s \in layout.slots :
               /\ eic.gpa_to_hva = s.start - s.gpa /\ w.stop = s.end - eic.gpa_to_hva
               /\ w.va_end = s.end /\ s.start <= w.cur + eic.gpa_to_hva
  ELSE w.stop = w.end /\ w.va_end = w.end

\* During a read: the report, the cursor and the address at which the next turn starts
\* pass over nothing that is missing.
KernelCover ==
  /\ Covered(Missing, va) /\ Free(Missing, va, pos)
  /\ Gapless(Missing, eic.out \o eic.kpie, 0, va)
  /\ pc # "copy" => ~NoRoom(eic)
  /\ pc = "range" => Free(Missing, Here, w.start) /\ (~Kvm => eic.restart_gpa <= w.start)
  /\ pc \in {"pages", "ptes"} =>
       /\ ~eic.full /\ InSlot /\ Free(Missing, Here, w.cur + eic.gpa_to_hva)
       /\ ~Kvm => Free(Missing, Here, eic.restart_gpa)
  /\ pc = "ptes" =>
       w.pte_end <= w.stop /\ (PmdOf(w.cur) \in DOMAIN pmd => pmd[PmdOf(w.cur)] = "table")
  /\ pc = "copy" =>
       /\ Free(Missing, Here, eic.restart_gpa + eic.gpa_to_hva)
       /\ eic.pie_read = 0 => Free(Missing, Here, w.va_end)

\* While the report is parsed: what is missing is not in front of the parser, and the
\* rest of the report passes over nothing of it.
ParseCover ==
  /\ Covered(Missing, va) /\ Gapless(Missing, eic.out, parsed, va)
  /\ parsed = Len(eic.out) /\ va < end => Free(Missing, va, pos)

\* The pages of the first VMAs are done.
VmasCovered(n) ==
  \A a \in Missing : (\E i \in 1 .. n : a \in Within(layout.vmas[i])) => a \in Done

\* Between the reads: what is in front of the cursor or in a VMA that was passed is done.
UserCover ==
  /\ pc = "start" => vmai = 1 /\ next_va = 0
  /\ pc = "vma" => Covered(Missing, next_va) /\ VmasCovered(vmai - 1)
  /\ pc = "loop" => Covered(Missing, va) /\ (va < end => Free(Missing, va, pos))
  /\ pc \in AtVma => end = Least(layout.vmas[vmai].end, layout.va_end) /\ VmasCovered(vmai - 1)
  /\ pc = "done" /\ ~io_error => Missing \subseteq Done

CoverInv == Stay /\ UserCover /\ (pc \in InTheKernel => KernelCover) /\ (pc = "parse" => ParseCover)

\* The VMAs of a layout are in order.
LEMMA VmasOrdered ==
  ASSUME NEW l \in Layouts, NEW v \in {l.vmas, l.later}, NEW i \in DOMAIN v
  PROVE  /\ v \in Seq(VmaType) /\ i \in 1 .. Len(v)
         /\ v[i].start \in Nat /\ v[i].end \in Nat /\ v[i].start < v[i].end /\ v[i].end <= TaskSize
         /\ \A j \in DOMAIN v : j < i => v[j].end <= v[i].start
         /\ \A j \in DOMAIN v : i < j => v[i].end <= v[j].start
  <1>1. v \in Seq(VmaType)
    BY LayoutsAssumption
  <1>2. DOMAIN v = 1 .. Len(v) /\ Len(v) \in Nat /\ v[i] \in VmaType
    BY <1>1
  <1>3. \A k \in 1 .. Len(v) : v[k].start < v[k].end /\ \A j \in 1 .. k - 1 : v[j].end <= v[k].start
    BY LayoutsAssumption
  <1>4. \A j \in DOMAIN v : j < i => v[j].end <= v[i].start
    BY <1>2, <1>3
  <1>5. \A j \in DOMAIN v : i < j => v[i].end <= v[j].start
    BY <1>2, <1>3
  <1>6. v[i].start \in Nat /\ v[i].end \in 0 .. TaskSize
    BY <1>2 DEF VmaType
  <1> QED
    BY <1>1, <1>2, <1>3, <1>4, <1>5, <1>6, WalkAssumption

\* A slot's addresses.
LEMMA SlotTypes ==
  ASSUME layout \in Layouts, NEW s \in layout.slots
  PROVE  s.start \in Nat /\ s.end \in Nat /\ s.gpa \in Nat /\ s.end <= TaskSize
  BY LayoutTypes, WalkAssumption DEF SlotType

\* An address is in the PMD it belongs to.
LEMMA InPmd ==
  ASSUME NEW a \in Nat
  PROVE  a \in PagesOfPmd(PmdOf(a))
  <1>1. PmdPages \in Nat \ {0}
    BY StreamAssumption
  <1>2. RoundDown(a, PmdPages) + PmdPages = (PmdOf(a) + 1) * PmdPages
    BY <1>1, PageEnd DEF PmdOf
  <1>3. RoundDown(a, PmdPages) = PmdPages * (a \div PmdPages)
    BY <1>1, PageEnd
  <1>4. RoundDown(a, PmdPages) \in Nat /\ RoundDown(a, PmdPages) <= a /\ a < RoundDown(a, PmdPages) + PmdPages
    BY <1>1, Rounds
  <1>5. PmdOf(a) * PmdPages = RoundDown(a, PmdPages)
    <2>1. PmdOf(a) \in Nat /\ RoundDown(a, PmdPages) = PmdPages * PmdOf(a)
      BY <1>1, <1>3, PageEnd DEF PmdOf
    <2>2. \A q \in Nat, s \in Nat : q * s = s * q
      OBVIOUS
    <2> QED
      BY <1>1, <2>1, <2>2
  <1> DEFINE low == PmdOf(a) * PmdPages
             top == (PmdOf(a) + 1) * PmdPages
  <1>6. low \in Int /\ top \in Int /\ low <= a /\ a < top
    BY <1>1, <1>2, <1>4, <1>5
  <1>7. PagesOfPmd(PmdOf(a)) = low .. top - 1
    BY DEF PagesOfPmd
  <1> HIDE DEF low, top
  <1>8. a \in low .. top - 1
    BY <1>6
  <1> QED
    BY <1>7, <1>8

\* The walk starts with what is there.
LEMMA InitStays ==
  ASSUME Init, SlotsApart
  PROVE  Stay
  <1>1. /\ layout \in Layouts /\ vmas = layout.vmas /\ pud = layout.pud /\ pmd = layout.pmd
        /\ pte = layout.pte /\ stable = Wanted(layout)
    BY Zenon DEF Init
  <1> DEFINE l == layout
             mapped == {a \in DOMAIN l.pte : PresentIn(l, a)}
             backed == IF l.mode = "mm" THEN mapped
                       ELSE {x[2].start + (x[1] - x[2].gpa) : x \in
                               {y \in mapped \X l.slots : y[1] - y[2].gpa \in 0 .. y[2].end - y[2].start - 1}}
             seen == UNION {Within(l.vmas[i]) : i \in {j \in DOMAIN l.vmas : is_anonymous(l.vmas[j])}}
  <1>2. stable = IF l.has_mm /\ (l.mode = "mm" \/ l.root)
                   THEN backed \cap seen \cap (l.va_start .. l.va_end - 1) ELSE {}
    BY <1>1, Zenon DEF Wanted
  <1>3. /\ DOMAIN l.pte \subseteq Nat /\ l.va_start \in Nat /\ l.va_end \in Nat
        /\ \A a \in DOMAIN l.pte : a \div PmdPages \in DOMAIN l.pmd
        /\ l.mode \in {"mm", "kvm"}
    BY <1>1, LayoutsAssumption
  <1>4. \A a \in mapped : a \in Nat /\ Present(a)
    BY <1>1, <1>3 DEF Present, PresentIn, PmdOf
  <1> HIDE DEF mapped
  <1>5. ASSUME NEW a \in stable
        PROVE  /\ a \in Nat /\ layout.va_start <= a /\ a < layout.va_end
               /\ \E i \in DOMAIN layout.vmas : is_anonymous(layout.vmas[i]) /\ a \in Within(layout.vmas[i])
               /\ Kvm => /\ layout.root
                         /\ \E s \in layout.slots : a \in Within(s)
                         /\ \A s \in layout.slots : a \in Within(s) => Present(a - (s.start - s.gpa))
               /\ ~Kvm => Present(a) /\ Walked(a)
    <2>1. /\ l.mode = "mm" \/ l.root
          /\ a \in backed /\ a \in seen /\ a \in l.va_start .. l.va_end - 1
      BY <1>2, Zenon
    <2>2. a \in Nat /\ l.va_start <= a /\ a < l.va_end
      BY <1>3, <2>1
    <2>3. PICK i \in DOMAIN l.vmas : is_anonymous(l.vmas[i]) /\ a \in Within(l.vmas[i])
      BY <2>1
    <2>4. ASSUME Kvm
          PROVE  /\ layout.root
                 /\ \E s \in layout.slots : a \in Within(s)
                 /\ \A s \in layout.slots : a \in Within(s) => Present(a - (s.start - s.gpa))
      <3>1. l.mode = "kvm"
        BY <2>4 DEF Kvm
      <3>2. a \in {x[2].start + (x[1] - x[2].gpa) : x \in
                    {y \in mapped \X l.slots : y[1] - y[2].gpa \in 0 .. y[2].end - y[2].start - 1}}
        BY <2>1, <3>1
      <3>3. PICK p \in mapped, t \in l.slots :
              a = t.start + (p - t.gpa) /\ p - t.gpa \in 0 .. t.end - t.start - 1
        BY <3>2
      <3>4. t.start \in Nat /\ t.end \in Nat /\ t.gpa \in Nat /\ p \in Nat /\ Present(p)
        BY <1>1, <1>4, <3>3, SlotTypes
      <3>5. a \in Within(t) /\ a - (t.start - t.gpa) = p
        BY <3>3, <3>4 DEF Within
      <3>6. ASSUME NEW s \in layout.slots, a \in Within(s) PROVE s = t
        <4> SUFFICES ASSUME s # t PROVE FALSE
          OBVIOUS
        <4>1. \A x \in Within(s), y \in Within(t) : x # y
          BY <1>1, <3>1, <3>3, <3>6 DEF SlotsApart
        <4> QED
          BY <3>5, <3>6, <4>1
      <3>7. layout.root
        BY <2>1, <3>1
      <3> QED
        BY <3>4, <3>5, <3>6, <3>7
    <2>5. ASSUME ~Kvm PROVE Present(a) /\ Walked(a)
      <3>1. l.mode = "mm"
        BY <1>3, <2>5 DEF Kvm
      <3>2. Present(a)
        BY <1>4, <2>1, <3>1
      <3>3. ~test_walk_skips(vmas[i])
        BY <1>1, <2>3 DEF is_anonymous, test_walk_skips
      <3> QED
        BY <1>1, <2>3, <3>2, <3>3 DEF Walked
    <2> QED
      BY <2>2, <2>3, <2>4, <2>5
  <1> QED
    BY <1>1, <1>3, <1>5 DEF Stay

\* Two states of an entry are the same, or both those of a page.
SameEntry(x, y) == x = y \/ {x, y} \subseteq {"idle", "accessed"}

\* Only accessed bits change in the page table.
OnlyAccessed ==
  /\ UNCHANGED pud
  /\ DOMAIN pte' = DOMAIN pte /\ \A a \in DOMAIN pte : SameEntry(pte[a], pte'[a])
  /\ DOMAIN pmd' = DOMAIN pmd /\ \A i \in DOMAIN pmd : SameEntry(pmd[i], pmd'[i])

\* The entry of the page table behind an address.
Backs(x, a) ==
  IF Kvm THEN \E s \in layout.slots : a \in Within(s) /\ x = a - (s.start - s.gpa) ELSE x = a

\* What is mapped stays mapped when accessed bits change.
LEMMA AccessedPresent ==
  ASSUME OnlyAccessed, NEW x, Present(x)
  PROVE  Present(x)'
  <1>1. x \in DOMAIN pte' /\ PmdOf(x) \in DOMAIN pmd'
    BY DEF Present, OnlyAccessed
  <1>2. SameEntry(pte[x], pte'[x]) /\ SameEntry(pmd[PmdOf(x)], pmd'[PmdOf(x)])
    BY DEF Present, OnlyAccessed
  <1>3. pud' = pud
    BY DEF OnlyAccessed
  <1> QED
    BY <1>1, <1>2, <1>3 DEF Present, SameEntry, PudOf, PmdOf

\* What stays: pages whose entries stay.
LEMMA StayFrame ==
  ASSUME Stay, UNCHANGED layout, DOMAIN pte' = DOMAIN pte, stable' \subseteq stable,
         vmas' \in {layout.vmas, layout.later},
         \A a \in stable' : ~Kvm /\ Walked(a) => Walked(a)',
         \A a \in stable' : \A x : Backs(x, a) /\ Present(x) => Present(x)'
  PROVE  Stay'
  <1>1. ASSUME NEW a \in stable'
        PROVE  /\ a \in Nat /\ layout'.va_start <= a /\ a < layout'.va_end
               /\ \E i \in DOMAIN layout'.vmas : is_anonymous(layout'.vmas[i]) /\ a \in Within(layout'.vmas[i])
               /\ Kvm' => /\ layout'.root
                          /\ \E s \in layout'.slots : a \in Within(s)
                          /\ \A s \in layout'.slots : a \in Within(s) => Present(a - (s.start - s.gpa))'
               /\ ~Kvm' => Present(a)' /\ Walked(a)'
    <2>1. /\ a \in Nat /\ layout.va_start <= a /\ a < layout.va_end
          /\ \E i \in DOMAIN layout.vmas : is_anonymous(layout.vmas[i]) /\ a \in Within(layout.vmas[i])
          /\ Kvm => /\ layout.root
                    /\ \E s \in layout.slots : a \in Within(s)
                    /\ \A s \in layout.slots : a \in Within(s) => Present(a - (s.start - s.gpa))
          /\ ~Kvm => Present(a) /\ Walked(a)
      BY Zenon DEF Stay
    <2>2. Kvm' = Kvm /\ layout' = layout
      BY DEF Kvm
    <2>3. ASSUME ~Kvm PROVE Present(a)' /\ Walked(a)'
      <3>1. Backs(a, a)
        BY <2>3 DEF Backs
      <3> QED
        BY <2>1, <2>3, <3>1, Zenon
    <2>4. ASSUME Kvm, NEW s \in layout.slots, a \in Within(s)
          PROVE  Present(a - (s.start - s.gpa))'
      <3> DEFINE x == a - (s.start - s.gpa)
      <3>1. Backs(x, a)
        BY <2>4 DEF Backs
      <3>2. Present(x)
        BY <2>1, <2>4
      <3> HIDE DEF x
      <3> QED
        BY <3>1, <3>2, Zenon DEF x
    <2> QED
      BY <2>1, <2>2, <2>3, <2>4, Zenon
  <1>2. DOMAIN pte' \subseteq Nat /\ vmas' \in {layout'.vmas, layout'.later}
    BY DEF Stay
  <1> QED
    BY <1>1, <1>2, Zenon DEF Stay

\* Nothing changes in the page table.
LEMMA SameTable ==
  ASSUME UNCHANGED <<pud, pmd, pte>>
  PROVE  OnlyAccessed
  BY DEF OnlyAccessed, SameEntry

\* One PMD more is idle (AddHuge).
LEMMA PmdAccessed ==
  ASSUME UNCHANGED <<pud, pte>>, pmd \in [DOMAIN pmd -> PmdStates], NEW e, NEW b,
         AddPmd(e, w.cur, b)
  PROVE  OnlyAccessed
  <1>1. CASE UNCHANGED pmd
    BY <1>1, SameTable
  <1>2. CASE AddHuge(e, w.cur, b)
    <2> PICK i : i = PmdOf(w.cur)
      OBVIOUS
    <2>1. pmd' = [pmd EXCEPT ![i] = "idle"] /\ pmd[i] \in {"idle", "accessed"}
      BY <1>2 DEF AddHuge
    <2>2. DOMAIN pmd' = DOMAIN pmd /\ \A j \in DOMAIN pmd : SameEntry(pmd[j], pmd'[j])
      BY <2>1 DEF SameEntry
    <2> QED
      BY <2>2 DEF OnlyAccessed, SameEntry
  <1> QED
    BY <1>1, <1>2 DEF AddPmd, EnterPtes, AddHole

\* The page walk clears accessed bits and changes nothing else of the process.
LEMMA WalkAccesses ==
  ASSUME Inv, KvmPages \/ AddPte \/ MmPassOver \/ MmPudEntry \/ MmPmdEntry
  PROVE  OnlyAccessed /\ UNCHANGED <<layout, vmas, stable>>
  <1>1. pmd \in [DOMAIN pmd -> PmdStates] /\ pte \in [DOMAIN pte -> PteStates]
    BY DEF Inv, TypeInv
  <1>2. CASE KvmPages
    <2>1. UNCHANGED <<layout, vmas, stable, pud, pte>>
      BY <1>2 DEF KvmPages, histVars
    <2>2. UNCHANGED pmd \/ AddPmd(eic, w.cur, PmdEnd(w.cur, w.stop))
      BY <1>2, Zenon DEF KvmPages
    <2> QED
      BY <1>1, <2>1, <2>2, SameTable, PmdAccessed
  <1>3. CASE AddPte
    <2>1. UNCHANGED <<layout, vmas, stable, pud, pmd>>
      BY <1>3 DEF AddPte, histVars
    <2>2. \/ UNCHANGED pte
          \/ pte[w.cur] = "accessed" /\ pte' = [pte EXCEPT ![w.cur] = "idle"]
      BY <1>3 DEF AddPte
    <2> PICK c : c = w.cur
      OBVIOUS
    <2>3. \/ UNCHANGED pte
          \/ pte[c] = "accessed" /\ pte' = [pte EXCEPT ![c] = "idle"]
      BY <2>2
    <2>4. DOMAIN pte' = DOMAIN pte /\ \A a \in DOMAIN pte : SameEntry(pte[a], pte'[a])
      BY <1>1, <2>3 DEF SameEntry
    <2> QED
      BY <2>1, <2>4 DEF OnlyAccessed, SameEntry
  <1>4. CASE MmPassOver
    BY <1>4, SameTable DEF MmPassOver, tableVars, histVars
  <1>5. CASE MmPudEntry
    BY <1>5, SameTable DEF MmPudEntry, tableVars
  <1>6. CASE MmPmdEntry
    <2>1. UNCHANGED <<layout, vmas, stable, pud, pte>>
      BY <1>6 DEF MmPmdEntry
    <2>2. \/ UNCHANGED pmd
          \/ AddPmd([eic EXCEPT !.last_va = w.cur], w.cur,
                    PmdEnd(w.cur, Least(w.stop, vmas[FindVma(w.cur)].end)))
      BY <1>6, Zenon DEF MmPmdEntry
    <2> QED
      BY <1>1, <2>1, <2>2, SameTable, PmdAccessed
  <1> QED
    BY <1>2, <1>3, <1>4, <1>5, <1>6

\* The process accesses pages (Touch).
LEMMA TouchAccesses ==
  ASSUME Inv, Touch
  PROVE  OnlyAccessed /\ UNCHANGED <<layout, vmas, stable>>
  <1>1. pmd \in [DOMAIN pmd -> PmdStates] /\ pte \in [DOMAIN pte -> PteStates]
    BY DEF Inv, TypeInv
  <1>2. UNCHANGED <<layout, vmas, stable, pud>>
    BY DEF Touch, histVars
  <1>3. \/ UNCHANGED pmd /\ \E a \in DOMAIN pte : pte[a] = "idle" /\ pte' = [pte EXCEPT ![a] = "accessed"]
        \/ UNCHANGED pte /\ \E i \in DOMAIN pmd : pmd[i] = "idle" /\ pmd' = [pmd EXCEPT ![i] = "accessed"]
    BY DEF Touch
  <1>4. DOMAIN pte' = DOMAIN pte /\ \A a \in DOMAIN pte : SameEntry(pte[a], pte'[a])
    BY <1>1, <1>3 DEF SameEntry
  <1>5. DOMAIN pmd' = DOMAIN pmd /\ \A i \in DOMAIN pmd : SameEntry(pmd[i], pmd'[i])
    BY <1>1, <1>3 DEF SameEntry
  <1> QED
    BY <1>2, <1>4, <1>5 DEF OnlyAccessed

\* What stays when only accessed bits change.
LEMMA AccessedStays ==
  ASSUME Stay, OnlyAccessed, UNCHANGED <<layout, vmas, stable>>
  PROVE  Stay'
  <1>1. DOMAIN pte' = DOMAIN pte /\ stable' \subseteq stable
    BY DEF OnlyAccessed
  <1>2. vmas' \in {layout.vmas, layout.later}
    BY DEF Stay
  <1>3. \A a \in stable' : Walked(a) => Walked(a)'
    BY DEF Walked
  <1>4. \A a \in stable' : \A x : Backs(x, a) /\ Present(x) => Present(x)'
    BY AccessedPresent, Zenon
  <1> QED
    BY <1>1, <1>2, <1>3, <1>4, StayFrame, Zenon

\* A PMD that is mapped anew takes its pages from those that stay (Remap).
LEMMA RemapStays ==
  ASSUME Inv, Stay, Remap
  PROVE  Stay'
  <1>1. /\ pte \in [DOMAIN pte -> PteStates] /\ pmd \in [DOMAIN pmd -> PmdStates] /\ layout \in Layouts
    BY DEF Inv, TypeInv
  <1>2. PICK i \in DOMAIN pmd, y \in PmdStates, z \in PteStates :
          /\ pmd' = [pmd EXCEPT ![i] = y]
          /\ pte' = [a \in DOMAIN pte |-> IF PmdOf(a) = i THEN z ELSE pte[a]]
          /\ stable' = stable \ Hvas(PagesOfPmd(i))
    BY <1>1 DEF Remap, PmdStates, PteStates
  <1>3. UNCHANGED <<layout, vmas, pud>>
    BY DEF Remap
  <1>4. DOMAIN pte' = DOMAIN pte /\ stable' \subseteq stable
    BY <1>2
  <1>5. ASSUME NEW x \in DOMAIN pte, Present(x), PmdOf(x) # i
        PROVE  Present(x)'
    <2>1. x \in DOMAIN pte' /\ PmdOf(x) \in DOMAIN pmd' /\ pte'[x] = pte[x] /\ pmd'[PmdOf(x)] = pmd[PmdOf(x)]
      BY <1>2, <1>5 DEF Present
    <2> QED
      BY <1>3, <1>5, <2>1 DEF Present, PudOf, PmdOf
  <1>6. ASSUME NEW a \in stable', NEW x, Backs(x, a), Present(x)
        PROVE  Present(x)'
    <2>1. x \in DOMAIN pte /\ x \in Nat /\ a \in Nat
      BY <1>4, <1>6 DEF Present, Stay
    <2>2. x \in PagesOfPmd(PmdOf(x))
      BY <2>1, InPmd
    <2>3. a \in Hvas(PagesOfPmd(PmdOf(x)))
      <3> PICK G : G = PagesOfPmd(PmdOf(x))
        OBVIOUS
      <3>0. x \in G
        BY <2>2
      <3>1. ASSUME ~Kvm PROVE a \in Hvas(G)
        BY <1>6, <3>0, <3>1 DEF Hvas, Backs
      <3>2. ASSUME Kvm PROVE a \in Hvas(G)
        <4>1. PICK s \in layout.slots : a \in Within(s) /\ x = a - (s.start - s.gpa)
          BY <1>6, <3>2 DEF Backs
        <4>2. s.start \in Nat /\ s.end \in Nat /\ s.gpa \in Nat
          BY <1>1, SlotTypes
        <4>3. x \in s.gpa .. s.gpa + (s.end - s.start) - 1 /\ a = x + (s.start - s.gpa)
          BY <2>1, <4>1, <4>2 DEF Within
        <4>4. <<x, s>> \in {p \in G \X layout.slots :
                              p[1] \in p[2].gpa .. p[2].gpa + (p[2].end - p[2].start) - 1}
          BY <3>0, <4>3
        <4>5. a \in HvasOf(G)
          BY <4>3, <4>4 DEF HvasOf
        <4> QED
          BY <3>2, <4>5 DEF Hvas
      <3> QED
        BY <3>1, <3>2
    <2>4. PmdOf(x) # i
      BY <1>2, <1>6, <2>3
    <2> QED
      BY <1>5, <1>6, <2>1, <2>4
  <1>7. \A a \in stable' : Walked(a) => Walked(a)'
    BY <1>3 DEF Walked
  <1>8. vmas' \in {layout.vmas, layout.later}
    BY <1>3 DEF Stay
  <1> QED
    BY <1>3, <1>4, <1>6, <1>7, <1>8, StayFrame, Zenon

\* Other VMAs hold the pages of a process that were in one (mmap_sem is free).
LEMMA ChangeStays ==
  ASSUME Inv, Stay, ChangeVmas
  PROVE  Stay'
  <1>1. UNCHANGED <<layout, pud, pmd, pte, stable>> /\ vmas' = layout.later /\ vmas = layout.vmas
    BY DEF ChangeVmas, histVars, Stay
  <1>2. layout \in Layouts
    BY DEF Inv, TypeInv
  <1> DEFINE l == layout
  <1>3. ASSUME NEW a \in stable', ~Kvm, Walked(a) PROVE Walked(a)'
    <2>1. PICK i \in DOMAIN l.vmas : a \in Within(l.vmas[i]) /\ ~test_walk_skips(l.vmas[i])
      BY <1>1, <1>3 DEF Walked
    <2>2. i \in 1 .. Len(l.vmas) /\ l.vmas[i].kind # "shared" /\ l.mode = "mm"
          /\ a \in l.vmas[i].start .. l.vmas[i].end - 1
      BY <1>2, <1>3, <2>1, LayoutsAssumption, VmasOrdered DEF test_walk_skips, Within, Kvm
    <2>3. PICK j \in 1 .. Len(l.later) : l.later[j].kind # "shared" /\ l.later[j].start <= a /\ a < l.later[j].end
      BY <1>2, <2>2, LayoutsAssumption
    <2>4. j \in DOMAIN l.later /\ l.later[j].start \in Nat /\ l.later[j].end \in Nat
      <3> PICK v : v = l.later
        OBVIOUS
      <3>1. v \in Seq(VmaType) /\ j \in 1 .. Len(v)
        BY <1>2, <2>3, LayoutsAssumption
      <3>2. j \in DOMAIN v /\ v[j] \in VmaType
        BY <3>1
      <3> QED
        BY <3>2, WalkAssumption DEF VmaType
    <2>5. a \in Nat
      BY <1>1 DEF Stay
    <2> QED
      BY <1>1, <2>3, <2>4, <2>5 DEF Walked, Within, test_walk_skips
  <1>4. \A a \in stable' : \A x : Backs(x, a) /\ Present(x) => Present(x)'
    BY <1>1, SameTable, AccessedPresent, Zenon
  <1> QED
    BY <1>1, <1>3, <1>4, StayFrame

\* What stays, stays.
LEMMA NextStays ==
  ASSUME Inv, Stay, [Next]_vars
  PROVE  Stay' /\ stable' \subseteq stable
  <1>1. CASE KvmPages \/ AddPte \/ MmPassOver \/ MmPudEntry \/ MmPmdEntry
    BY <1>1, WalkAccesses, AccessedStays
  <1>2. CASE Touch
    BY <1>2, TouchAccesses, AccessedStays
  <1>3. CASE Remap
    BY <1>3, RemapStays DEF Remap
  <1>4. CASE ChangeVmas
    BY <1>4, ChangeStays DEF ChangeVmas, histVars
  <1>5. CASE UNCHANGED <<layout, vmas, pud, pmd, pte, stable>>
    BY <1>5, SameTable, AccessedStays
  <1>6. CASE Walk \/ WalkVma \/ VmaDone \/ ReadFails \/ ReadStart \/ Parse \/ ReadDone
    BY <1>5, <1>6 DEF Walk, WalkVma, VmaDone, ReadFails, ReadStart, Parse, ReadDone, tableVars, histVars
  <1>7. CASE MmRange \/ KvmRange \/ Copy \/ Finished \/ UNCHANGED vars
    BY <1>5, <1>7 DEF MmRange, KvmRange, Copy, Finished, vars, tableVars, histVars
  <1> QED
    BY <1>1, <1>2, <1>3, <1>4, <1>6, <1>7 DEF Next, UserNext, KernelNext

\* Items that pass over addresses.
Moves(type) == type \in {"SET_HVA"} \cup HoleTypes

\* What holds between two addresses holds between three.
LEMMA FreeBoth ==
  ASSUME NEW U, U \subseteq Nat, NEW x \in Int, NEW y \in Int, NEW z \in Int, Free(U, x, y), Free(U, y, z)
  PROVE  Free(U, x, z)
  BY DEF Free

\* Of fewer pages.
LEMMA FreeFewer ==
  ASSUME NEW U, NEW V, V \subseteq U
  PROVE  /\ \A x, y : Free(U, x, y) => Free(V, x, y)
         /\ \A items, from, at : Gapless(U, items, from, at) => Gapless(V, items, from, at)
  <1>1. \A x, y : Free(U, x, y) => Free(V, x, y)
    BY DEF Free
  <1>2. ASSUME NEW items, NEW from, NEW at, Gapless(U, items, from, at)
        PROVE  Gapless(V, items, from, at)
    BY <1>1, <1>2, Zenon DEF Gapless
  <1> QED
    BY <1>1, <1>2

\* One more item in a report.
LEMMA GaplessAppend ==
  ASSUME NEW items \in Seq(Items), NEW item \in Items, NEW U, NEW at, Gapless(U, items, 0, at),
         LET p == parse_idlepages(items, 0, 2 * TaskSize)
             q == parse_idlepages(Append(items, item), 0, 2 * TaskSize) IN
         IF Moves(item.type) THEN Free(U, IF items = <<>> THEN at ELSE p.va, q.va)
         ELSE items # <<>> /\ p.va % pagetype_size(item.type) = 0
  PROVE  Gapless(U, Append(items, item), 0, at)
  <1> DEFINE more == Append(items, item)
             Holds(list, k) == LET it == list[k + 1] IN
               IF it.type \in {"SET_HVA"} \cup HoleTypes
                 THEN Free(U, IF k = 0 THEN at ELSE Upto(list, k).va, Upto(list, k + 1).va)
                 ELSE k # 0 /\ Upto(list, k).va % pagetype_size(it.type) = 0
  <1>1. /\ \A k \in 0 .. Len(items) : Upto(more, k) = Upto(items, k)
        /\ Upto(items, Len(items)) = parse_idlepages(items, 0, 2 * TaskSize)
        /\ more \in Seq(Items) /\ Len(more) = Len(items) + 1 /\ Len(items) \in Nat
        /\ \A k \in 1 .. Len(items) : more[k] = items[k]
        /\ more[Len(items) + 1] = item
    BY FirstItems
  <1>2. Upto(more, Len(items) + 1) = parse_idlepages(more, 0, 2 * TaskSize)
    BY <1>1, FirstItems
  <1>3. items = <<>> <=> Len(items) = 0
    OBVIOUS
  <1>4. \A k \in 0 .. Len(items) - 1 : Holds(items, k)
    BY Zenon DEF Gapless
  <1> HIDE DEF more
  <1>5. ASSUME NEW k \in 0 .. Len(more) - 1
        PROVE  Holds(more, k)
    <2>1. CASE k = Len(items)
      <3>1. more[k + 1] = item /\ Upto(more, k) = parse_idlepages(items, 0, 2 * TaskSize)
            /\ Upto(more, k + 1) = parse_idlepages(more, 0, 2 * TaskSize)
        BY <1>1, <1>2, <2>1
      <3>2. k = 0 <=> items = <<>>
        BY <1>3, <2>1
      <3> QED
        BY <3>1, <3>2, Zenon DEF more, Moves
    <2>2. CASE k # Len(items)
      <3>1. k \in 0 .. Len(items) - 1 /\ k \in 0 .. Len(items) /\ k + 1 \in 0 .. Len(items) /\ k + 1 \in 1 .. Len(items)
        BY <1>1, <2>2
      <3>2. more[k + 1] = items[k + 1] /\ Upto(more, k) = Upto(items, k) /\ Upto(more, k + 1) = Upto(items, k + 1)
        BY <1>1, <3>1
      <3>3. Holds(items, k)
        BY <1>4, <3>1
      <3> QED
        BY <3>2, <3>3
    <2> QED
      BY <2>1, <2>2
  <1> QED
    BY <1>5, Zenon DEF Gapless, more

\* A report without its last item.
LEMMA GaplessFront ==
  ASSUME NEW items \in Seq(Items), NEW item \in Items, NEW U, NEW at,
         Gapless(U, Append(items, item), 0, at)
  PROVE  /\ Gapless(U, items, 0, at)
         /\ LET p == parse_idlepages(items, 0, 2 * TaskSize)
                q == parse_idlepages(Append(items, item), 0, 2 * TaskSize) IN
            IF Moves(item.type) THEN Free(U, IF items = <<>> THEN at ELSE p.va, q.va)
            ELSE items # <<>> /\ p.va % pagetype_size(item.type) = 0
  <1> DEFINE more == Append(items, item)
             Holds(list, k) == LET it == list[k + 1] IN
               IF it.type \in {"SET_HVA"} \cup HoleTypes
                 THEN Free(U, IF k = 0 THEN at ELSE Upto(list, k).va, Upto(list, k + 1).va)
                 ELSE k # 0 /\ Upto(list, k).va % pagetype_size(it.type) = 0
  <1>1. /\ \A k \in 0 .. Len(items) : Upto(more, k) = Upto(items, k)
        /\ Upto(items, Len(items)) = parse_idlepages(items, 0, 2 * TaskSize)
        /\ more \in Seq(Items) /\ Len(more) = Len(items) + 1 /\ Len(items) \in Nat
        /\ \A k \in 1 .. Len(items) : more[k] = items[k]
        /\ more[Len(items) + 1] = item
    BY FirstItems
  <1>2. Upto(more, Len(items) + 1) = parse_idlepages(more, 0, 2 * TaskSize)
    BY <1>1, FirstItems
  <1>3. items = <<>> <=> Len(items) = 0
    OBVIOUS
  <1>4. \A k \in 0 .. Len(more) - 1 : Holds(more, k)
    BY Zenon DEF Gapless
  <1> HIDE DEF more
  <1>5. ASSUME NEW k \in 0 .. Len(items) - 1
        PROVE  Holds(items, k)
    <2>1. k \in 0 .. Len(more) - 1 /\ k \in 0 .. Len(items) /\ k + 1 \in 0 .. Len(items) /\ k + 1 \in 1 .. Len(items)
      BY <1>1
    <2>2. more[k + 1] = items[k + 1] /\ Upto(more, k) = Upto(items, k) /\ Upto(more, k + 1) = Upto(items, k + 1)
      BY <1>1, <2>1
    <2>3. Holds(more, k)
      BY <1>4, <2>1
    <2> QED
      BY <2>2, <2>3
  <1>6. Gapless(U, items, 0, at)
    BY <1>5, Zenon DEF Gapless
  <1>7. LET p == parse_idlepages(items, 0, 2 * TaskSize)
            q == parse_idlepages(more, 0, 2 * TaskSize) IN
        IF Moves(item.type) THEN Free(U, IF items = <<>> THEN at ELSE p.va, q.va)
        ELSE items # <<>> /\ p.va % pagetype_size(item.type) = 0
    <2> PICK k : k = Len(items)
      OBVIOUS
    <2>1. k \in 0 .. Len(more) - 1
      BY <1>1
    <2>2. Holds(more, k)
      BY <1>4, <2>1
    <2>3. more[k + 1] = item /\ Upto(more, k) = parse_idlepages(items, 0, 2 * TaskSize)
          /\ Upto(more, k + 1) = parse_idlepages(more, 0, 2 * TaskSize)
      BY <1>1, <1>2
    <2>4. k = 0 <=> items = <<>>
      BY <1>3
    <2> QED
      BY <2>2, <2>3, <2>4, Zenon DEF Moves
  <1> QED
    BY <1>6, <1>7 DEF more

\* A run that is one page longer begins where it began; a hole passes over one page more.
LEMMA GaplessLonger ==
  ASSUME NEW front \in Seq(Items), NEW type \in PageTypes, NEW n \in 1 .. MaxRun, n < MaxRun,
         NEW U, U \subseteq Nat, NEW at \in Nat,
         Gapless(U, Append(front, Run(type, n)), 0, at),
         type \in HoleTypes =>
           Free(U, parse_idlepages(Append(front, Run(type, n)), 0, 2 * TaskSize).va,
                   parse_idlepages(Append(front, Run(type, n + 1)), 0, 2 * TaskSize).va)
  PROVE  Gapless(U, Append(front, Run(type, n + 1)), 0, at)
  <1> DEFINE p == parse_idlepages(front, 0, 2 * TaskSize)
             s == parse_idlepages(Append(front, Run(type, n)), 0, 2 * TaskSize)
             l == parse_idlepages(Append(front, Run(type, n + 1)), 0, 2 * TaskSize)
  <1>1. n + 1 \in 1 .. MaxRun
    BY StreamAssumption
  <1>2. /\ Run(type, n) \in Items /\ Run(type, n + 1) \in Items /\ type # "SET_HVA"
        /\ Run(type, n).type = type /\ Run(type, n + 1).type = type
    BY <1>1, RunItem DEF Run
  <1>3. /\ Gapless(U, front, 0, at)
        /\ IF Moves(type) THEN Free(U, IF front = <<>> THEN at ELSE p.va, s.va)
           ELSE front # <<>> /\ p.va % pagetype_size(type) = 0
    BY <1>2, GaplessFront, Zenon
  <1>4. Append(front, Run(type, n)) \in Seq(Items) /\ Append(front, Run(type, n + 1)) \in Seq(Items)
    BY <1>2
  <1>5. 2 * TaskSize \in Nat
    BY WalkAssumption
  <1>6. p.va \in Nat /\ s.va \in Nat /\ l.va \in Nat
    BY <1>4, <1>5, ReadType DEF Parsers
  <1> DEFINE o == IF front = <<>> THEN at ELSE p.va
  <1>7. o \in Nat
    BY <1>6
  <1>8. Moves(type) => Free(U, s.va, l.va)
    BY <1>2 DEF Moves
  <1> HIDE DEF p, s, l, o
  <1>9. ASSUME Moves(type) PROVE Free(U, o, l.va)
    <2> PICK x \in Nat, y \in Nat, z \in Nat : x = o /\ y = s.va /\ z = l.va
      BY <1>6, <1>7
    <2>1. Free(U, x, y)
      BY <1>3, <1>9, Zenon DEF o
    <2>2. Free(U, y, z)
      BY <1>8, <1>9
    <2>3. x \in Int /\ y \in Int /\ z \in Int
      OBVIOUS
    <2>4. Free(U, x, z)
      BY <2>1, <2>2, <2>3, FreeBoth, Zenon
    <2> QED
      BY <2>4
  <1>10. IF Moves(type) THEN Free(U, o, l.va) ELSE front # <<>> /\ p.va % pagetype_size(type) = 0
    BY <1>3, <1>9
  <1> QED
    BY <1>2, <1>3, <1>10, GaplessAppend, Zenon DEF o, p, l

\* A page more in a report.
LEMMA GaplessGrown ==
  ASSUME NEW items \in Seq(Items), NEW more \in Seq(Items), NEW type \in PageTypes,
         NEW here \in Nat, here = parse_idlepages(items, 0, 2 * TaskSize).va,
         parse_idlepages(items, 0, 2 * TaskSize).late = {},
         NEW at \in Nat, Grown(items, more, here, at, type),
         parse_idlepages(more, 0, 2 * TaskSize).va = at + pagetype_size(type),
         NEW U, U \subseteq Nat, NEW va0 \in Nat, Gapless(U, items, 0, va0),
         Free(U, IF items = <<>> THEN va0 ELSE here, at),
         IF type \in HoleTypes THEN Free(U, at, at + pagetype_size(type)) ELSE at % pagetype_size(type) = 0
  PROVE  Gapless(U, more, 0, va0)
  <1> DEFINE size == pagetype_size(type)
  <1>0. 1 \in 1 .. MaxRun
    BY StreamAssumption
  <1>1. Run(type, 1) \in Items /\ type # "SET_HVA" /\ Run(type, 1).type = type
    BY <1>0, RunItem DEF Run
  <1>2. SetHva(at) \in Items /\ SetHva(at).type = "SET_HVA"
    BY DEF Items, SetHva
  <1>3. CASE more = Append(items, Run(type, 1)) /\ items # <<>> /\ at = here
    BY <1>1, <1>3, GaplessAppend, Zenon DEF Moves
  <1>4. CASE more = Append(Append(items, SetHva(at)), Run(type, 1))
    <2> DEFINE mid == Append(items, SetHva(at))
               p == parse_idlepages(items, 0, 2 * TaskSize)
               q == parse_idlepages(mid, 0, 2 * TaskSize)
    <2>1. 2 * TaskSize \in Nat
      BY WalkAssumption
    <2>2. p \in Parsers
      BY <2>1, ReadType
    <2>3. q = ParseItem(p, SetHva(at), 2 * TaskSize)
      BY <1>2, ParseAppend
    <2>4. q.va = at
      BY <2>1, <2>2, <2>3, ParserMoves
    <2>5. mid \in Seq(Items) /\ mid # <<>>
      BY <1>2
    <2>6. Moves("SET_HVA")
      BY DEF Moves
    <2>7. Gapless(U, mid, 0, va0)
      BY <1>2, <2>4, <2>6, GaplessAppend, Zenon
    <2>8. more = Append(mid, Run(type, 1))
      BY <1>4
    <2>9. IF Moves(type) THEN Free(U, q.va, at + size) ELSE q.va % size = 0
      BY <1>1, <2>4 DEF Moves
    <2> HIDE DEF mid
    <2> QED
      BY <1>1, <2>5, <2>7, <2>8, <2>9, GaplessAppend, Zenon
  <1>5. CASE /\ at = here
             /\ \E front \in Seq(Items), n \in 1 .. MaxRun :
                  items = Append(front, Run(type, n)) /\ more = Append(front, Run(type, n + 1)) /\ n < MaxRun
    <2> PICK front \in Seq(Items), n \in 1 .. MaxRun :
                  items = Append(front, Run(type, n)) /\ more = Append(front, Run(type, n + 1)) /\ n < MaxRun
      BY <1>5
    <2> QED
      BY <1>5, GaplessLonger, Zenon
  <1> QED
    BY <1>3, <1>4, <1>5 DEF Grown

\* The VMA that is found is the first that ends above the address (find_vma).
LEMMA FoundFirst ==
  ASSUME vmas \in Seq(VmaType), NEW at \in Nat
  PROVE  /\ FindVma(at) = 0 => \A j \in DOMAIN vmas : vmas[j].end <= at
         /\ FindVma(at) # 0 => /\ FindVma(at) \in DOMAIN vmas
                               /\ \A j \in DOMAIN vmas : vmas[j].end > at => FindVma(at) <= j
  <1> DEFINE ends == {i \in DOMAIN vmas : vmas[i].end > at}
  <1>1. FindVma(at) = IF ends = {} THEN 0 ELSE LowestOf(ends)
    BY Zenon DEF FindVma
  <1>2. ends \subseteq Nat /\ \A j \in DOMAIN vmas : vmas[j].end > at <=> j \in ends
    OBVIOUS
  <1>3. DOMAIN vmas = 1 .. Len(vmas) /\ Len(vmas) \in Nat
    OBVIOUS
  <1>4. \A j \in DOMAIN vmas : vmas[j].end \in Nat
    <2> TAKE j \in DOMAIN vmas
    <2>1. vmas[j] \in VmaType
      OBVIOUS
    <2> QED
      BY <2>1, WalkAssumption DEF VmaType
  <1>5. ends # {} => LowestOf(ends) \in ends /\ LowestOf(ends) \in DOMAIN vmas
                     /\ \A j \in ends : LowestOf(ends) <= j
    <2>1. ends \subseteq DOMAIN vmas
      OBVIOUS
    <2> HIDE DEF ends
    <2> QED
      BY <1>2, <2>1, LowestIsOne, Zenon
  <1>6. ends \subseteq 1 .. Len(vmas)
    BY <1>3
  <1> HIDE DEF ends
  <1>7. CASE ends = {}
    BY <1>1, <1>2, <1>3, <1>4, <1>7
  <1>8. CASE ends # {}
    <2>1. FindVma(at) = LowestOf(ends) /\ FindVma(at) # 0
      BY <1>1, <1>5, <1>6, <1>8
    <2> QED
      BY <1>2, <1>5, <1>8, <2>1, Zenon
  <1> QED
    BY <1>7, <1>8

\* An address behind another, in a VMA, is not in front of the VMA found there.
LEMMA InFound ==
  ASSUME vmas \in Seq(VmaType), layout \in Layouts, vmas \in {layout.vmas, layout.later},
         NEW at \in Nat, NEW a \in Nat, at <= a, NEW j \in DOMAIN vmas, a \in Within(vmas[j])
  PROVE  LET i == FindVma(at) IN
         /\ i # 0 /\ i \in DOMAIN vmas /\ a >= vmas[i].start
         /\ a < vmas[i].end => i = j
  <1> PICK i : i = FindVma(at)
    OBVIOUS
  <1>1. /\ i = 0 => \A k \in DOMAIN vmas : vmas[k].end <= at
        /\ i # 0 => i \in DOMAIN vmas /\ \A k \in DOMAIN vmas : vmas[k].end > at => i <= k
    BY FoundFirst
  <1>2. /\ DOMAIN vmas = 1 .. Len(vmas) /\ Len(vmas) \in Nat
        /\ \A k \in DOMAIN vmas : vmas[k].start \in Nat /\ vmas[k].end \in Nat /\ vmas[k].start < vmas[k].end
        /\ \A k \in DOMAIN vmas : \A m \in DOMAIN vmas : k < m => vmas[k].end <= vmas[m].start
    BY VmasOrdered
  <1>3. vmas[j].start <= a /\ a < vmas[j].end
    BY <1>2 DEF Within
  <1>4. i # 0 /\ i \in DOMAIN vmas /\ i <= j
    BY <1>1, <1>2, <1>3
  <1>5. i # j => vmas[i].end <= vmas[j].start
    BY <1>2, <1>4
  <1> QED
    BY <1>2, <1>3, <1>4, <1>5

\* Addresses up to the end of a page are in the page.
LEMMA BelowEnd ==
  ASSUME NEW a \in Nat, NEW s \in Nat \ {0}, NEW x \in Nat, a <= x, x < RoundDown(a, s) + s
  PROVE  x \div s = a \div s
  <1>1. RoundDown(a, s) \in Nat
    BY Rounds
  <1> PICK r \in Nat : r = RoundDown(a, s)
    BY <1>1
  <1>2. x <= r + s /\ x # r + s /\ x >= a
    OBVIOUS
  <1>3. x <= RoundDown(a, s) + s /\ x # RoundDown(a, s) + s
    BY <1>2
  <1> QED
    BY <1>2, <1>3, NearPage, Zenon

\* Within a PUD or a PMD (PudEnd, PmdEnd).
LEMMA SamePage ==
  ASSUME NEW a \in Nat, NEW x \in Nat, a <= x
  PROVE  /\ x < RoundDown(a, PudPages) + PudPages => PudOf(x) = PudOf(a)
         /\ x < RoundDown(a, PmdPages) + PmdPages => PmdOf(x) = PmdOf(a) /\ PudOf(x) = PudOf(a)
  <1>1. PudPages \in Nat \ {0} /\ PmdPages \in Nat \ {0}
    BY StreamAssumption
  <1>2. RoundDown(a, PudPages) \in Nat /\ RoundDown(a, PmdPages) \in Nat
    BY <1>1, Rounds
  <1>3. x < RoundDown(a, PudPages) + PudPages => PudOf(x) = PudOf(a)
    <2> PICK s \in Nat \ {0} : s = PudPages
      BY <1>1
    <2>1. RoundDown(a, s) \in Nat
      BY <1>2
    <2>2. ASSUME x < RoundDown(a, s) + s PROVE x \div s = a \div s
      BY <2>2, BelowEnd
    <2> QED
      BY <2>2 DEF PudOf
  <1>4. x < RoundDown(a, PmdPages) + PmdPages => PmdOf(x) = PmdOf(a)
    <2> PICK s \in Nat \ {0} : s = PmdPages
      BY <1>1
    <2>1. RoundDown(a, s) \in Nat
      BY <1>2
    <2>2. ASSUME x < RoundDown(a, s) + s PROVE x \div s = a \div s
      BY <2>2, BelowEnd
    <2> QED
      BY <2>2 DEF PmdOf
  <1>5. PmdOf(x) = PmdOf(a) => PudOf(x) = PudOf(a)
    BY SamePud
  <1> QED
    BY <1>3, <1>4, <1>5

\* Addresses in front of the end of a page within a range.
LEMMA InFrontOfEnd ==
  ASSUME NEW a \in Nat, NEW b \in Nat, b > a, NEW x \in Nat, a <= x
  PROVE  /\ x < PudEnd(a, b) => PudOf(x) = PudOf(a) /\ x < b
         /\ x < PmdEnd(a, b) => PmdOf(x) = PmdOf(a) /\ PudOf(x) = PudOf(a) /\ x < b
  <1>1. PmdPages \in Nat \ {0} /\ PudPages \in Nat \ {0}
    BY StreamAssumption
  <1>2. RoundDown(a, PmdPages) + PmdPages = (PmdOf(a) + 1) * PmdPages
    BY <1>1, PageEnd DEF PmdOf
  <1>3. /\ PudEnd(a, b) \in Nat /\ PudEnd(a, b) <= b /\ PudEnd(a, b) <= RoundDown(a, PudPages) + PudPages
        /\ PmdEnd(a, b) \in Nat /\ PmdEnd(a, b) <= b /\ PmdEnd(a, b) <= RoundDown(a, PmdPages) + PmdPages
    BY <1>2, EndBounds
  <1>4. RoundDown(a, PudPages) \in Nat /\ RoundDown(a, PmdPages) \in Nat
    BY <1>1, Rounds
  <1> PICK p \in Nat, q \in Nat : p = RoundDown(a, PudPages) /\ q = RoundDown(a, PmdPages)
    BY <1>4
  <1> PICK c \in Nat, d \in Nat : c = PudEnd(a, b) /\ d = PmdEnd(a, b)
    BY <1>3
  <1>5. /\ x < c => x < p + PudPages /\ x < b
        /\ x < d => x < q + PmdPages /\ x < b
    BY <1>1, <1>3
  <1> QED
    BY <1>5, SamePage

\* A page of a process is not passed over (mm_idle_test_walk, walk_page_range).
LEMMA PassedFree ==
  ASSUME Inv, CursorInv, Stay, pc \in {"pages", "ptes"}, w.cur < w.stop, ~Kvm, NEW next \in PassedOver(w.cur)
  PROVE  Free(stable, w.cur, next)
  <1> PICK at : at = w.cur
    OBVIOUS
  <1> PICK i : i = FindVma(at)
    OBVIOUS
  <1> DEFINE b == Least(w.stop, vmas[i].end)
  <1>1. at \in Nat /\ w.stop \in Nat /\ at < w.stop /\ vmas \in Seq(VmaType) /\ layout \in Layouts
    BY InPages DEF CursorInv, Ranges, Inv, TypeInv
  <1>2. DOMAIN pte \subseteq Nat /\ vmas \in {layout.vmas, layout.later}
    BY DEF Stay
  <1>3. SUFFICES ASSUME NEW a \in stable, at <= a, a < next PROVE FALSE
    BY DEF Free
  <1>4. a \in Nat /\ Present(a) /\ Walked(a)
    BY DEF Stay
  <1>5. PICK j \in DOMAIN vmas : a \in Within(vmas[j]) /\ ~test_walk_skips(vmas[j])
    BY <1>4 DEF Walked
  <1>6. i # 0 /\ i \in DOMAIN vmas /\ a >= vmas[i].start /\ (a < vmas[i].end => i = j)
    BY <1>1, <1>2, <1>3, <1>4, <1>5, InFound
  <1>7. vmas[i].start \in Nat /\ vmas[i].end \in Nat /\ vmas[i].end > at
    BY <1>1, <1>6, FoundEnd
  <1>8. b \in Nat /\ b > at /\ b <= vmas[i].end /\ b <= w.stop
    BY <1>1, <1>7 DEF Least
  <1>9. \/ at < vmas[i].start /\ next = Least(w.stop, vmas[i].start)
        \/ test_walk_skips(vmas[i]) /\ next = b
        \/ pud[PudOf(at)] = "none" /\ next = PudEnd(at, b)
        \/ pud[PudOf(at)] = "table" /\ pmd[PmdOf(at)] = "none" /\ next = PmdEnd(at, b)
    BY <1>6 DEF PassedOver
  <1> HIDE DEF b
  <1>10. CASE next = Least(w.stop, vmas[i].start)
    BY <1>1, <1>3, <1>4, <1>6, <1>7, <1>10 DEF Least
  <1>11. CASE test_walk_skips(vmas[i]) /\ next = b
    BY <1>3, <1>4, <1>5, <1>6, <1>7, <1>8, <1>11
  <1>12. CASE pud[PudOf(at)] = "none" /\ next = PudEnd(at, b)
    <2>1. PudOf(a) = PudOf(at)
      BY <1>1, <1>3, <1>4, <1>8, <1>12, InFrontOfEnd
    <2> QED
      BY <1>4, <1>12, <2>1 DEF Present
  <1>13. CASE pud[PudOf(at)] = "table" /\ pmd[PmdOf(at)] = "none" /\ next = PmdEnd(at, b)
    <2>1. PudOf(a) = PudOf(at) /\ PmdOf(a) = PmdOf(at)
      BY <1>1, <1>3, <1>4, <1>8, <1>13, InFrontOfEnd
    <2> QED
      BY <1>4, <1>13, <2>1 DEF Present
  <1> QED
    BY <1>9, <1>10, <1>11, <1>12, <1>13

\* The slot that is walked.
LEMMA TheSlot ==
  ASSUME Inv, Stay, InSlot, Kvm, w.cur \in Nat
  PROVE  \E s \in layout.slots :
           /\ eic.gpa_to_hva = s.start - s.gpa /\ w.stop = s.end - eic.gpa_to_hva /\ w.va_end = s.end
           /\ s.start <= w.cur + eic.gpa_to_hva
           /\ s.start \in Nat /\ s.end \in Nat /\ s.gpa \in Nat /\ eic.gpa_to_hva \in Int
           /\ w.stop + eic.gpa_to_hva = s.end
           /\ \A a \in stable : w.cur + eic.gpa_to_hva <= a /\ a < s.end =>
                a \in Within(s) /\ Present(a - eic.gpa_to_hva) /\ a - eic.gpa_to_hva \in Nat
                /\ a - eic.gpa_to_hva >= w.cur
  <1>1. PICK s \in layout.slots :
          /\ eic.gpa_to_hva = s.start - s.gpa /\ w.stop = s.end - eic.gpa_to_hva
          /\ w.va_end = s.end /\ s.start <= w.cur + eic.gpa_to_hva
    BY DEF InSlot
  <1>2. s.start \in Nat /\ s.end \in Nat /\ s.gpa \in Nat
    BY SlotTypes DEF Inv, TypeInv
  <1> PICK g \in Int : g = eic.gpa_to_hva
    BY <1>1, <1>2
  <1>3. ASSUME NEW a \in stable, w.cur + g <= a, a < s.end
        PROVE  a \in Within(s) /\ Present(a - g) /\ a - g \in Nat /\ a - g >= w.cur
    <2>1. a \in Nat
      BY DEF Stay
    <2>2. a \in Within(s)
      BY <1>1, <1>2, <1>3, <2>1 DEF Within
    <2>3. Present(a - (s.start - s.gpa))
      BY <2>2, Zenon DEF Stay
    <2>4. s.start - s.gpa = g
      BY <1>1
    <2>5. Present(a - g)
      BY <2>3, <2>4
    <2> QED
      BY <1>3, <2>1, <2>2, <2>5
  <1> QED
    BY <1>1, <1>2, <1>3

\* Nothing of a guest is under an empty PUD (ept_page_range).
LEMMA EmptyPudFree ==
  ASSUME Inv, CursorInv, Stay, InSlot, pc \in {"pages", "ptes"}, w.cur < w.stop, Kvm, pud[PudOf(w.cur)] = "none"
  PROVE  Free(stable, w.cur + eic.gpa_to_hva, PudEnd(w.cur, w.stop) + eic.gpa_to_hva)
  <1> PICK at, g, stop : at = w.cur /\ g = eic.gpa_to_hva /\ stop = w.stop
    OBVIOUS
  <1>1. at \in Nat /\ stop \in Nat /\ at < stop /\ g \in Int
    BY InPages DEF CursorInv, Ranges
  <1>2. SUFFICES ASSUME NEW a \in stable, at + g <= a, a < PudEnd(at, stop) + g PROVE FALSE
    BY DEF Free
  <1>3. a \in Nat
    BY DEF Stay
  <1>4. PudEnd(at, stop) \in Nat /\ PudEnd(at, stop) <= stop
    BY <1>1, EndBounds
  <1>5. PICK s \in layout.slots : s.end \in Nat /\ stop + g = s.end
          /\ (at + g <= a /\ a < s.end => Present(a - g) /\ a - g \in Nat /\ a - g >= at)
    BY <1>1, TheSlot
  <1>6. a < s.end
    BY <1>1, <1>2, <1>3, <1>4, <1>5
  <1> PICK x : x = a - g
    OBVIOUS
  <1>7. Present(x) /\ x \in Nat /\ x >= at /\ x < PudEnd(at, stop)
    BY <1>1, <1>2, <1>3, <1>4, <1>5, <1>6
  <1>8. PudOf(x) = PudOf(at)
    BY <1>1, <1>7, InFrontOfEnd
  <1> QED
    BY <1>7, <1>8 DEF Present

\* A hole at the cursor, and what its page is rounded up to, maps nothing that stays
\* (eic_add_page).
LEMMA HoleFree ==
  ASSUME SlotsApart, Inv, CursorInv, Stay, InSlot, pc \in {"pages", "ptes"}, w.cur < w.stop,
         pud[PudOf(w.cur)] = "table", NEW type,
         \/ type = "PTE_HOLE" /\ pte[w.cur] = "none"
              /\ (PmdOf(w.cur) \in DOMAIN pmd => pmd[PmdOf(w.cur)] = "table")
         \/ type = "PMD_HOLE" /\ pmd[PmdOf(w.cur)] \in {"none", "swapped"}
  PROVE  LET size == pagetype_size(type) IN
         Free(stable, w.cur + eic.gpa_to_hva, RoundDown(w.cur, size) + size + eic.gpa_to_hva)
  <1> PICK at, g, stop, size : at = w.cur /\ g = eic.gpa_to_hva /\ stop = w.stop /\ size = pagetype_size(type)
    OBVIOUS
  <1>1. at \in Nat /\ stop \in Nat /\ at < stop /\ g \in Int /\ (~Kvm => g = 0) /\ layout \in Layouts
    BY InPages DEF Inv, TypeInv
  <1>2. SUFFICES ASSUME NEW a \in stable, at + g <= a, a < RoundDown(at, size) + size + g PROVE FALSE
    BY DEF Free
  <1>3. a \in Nat /\ PmdPages \in Nat \ {0}
    BY StreamAssumption DEF Stay
  <1>4. \/ type = "PTE_HOLE" /\ size = 1
        \/ type = "PMD_HOLE" /\ size = PmdPages
    BY TypeSizes DEF PteTypes, PmdTypes
  <1>5. RoundDown(at, size) \in Nat /\ size \in Nat \ {0} /\ (size = 1 => RoundDown(at, size) = at)
    <2>1. CASE size = 1
      BY <1>1, <2>1, SmallPage
    <2>2. CASE size = PmdPages
      BY <1>1, <1>3, <2>2, Rounds, SmallPage
    <2> QED
      BY <1>4, <2>1, <2>2
  <1>6. a - g \in Nat /\ a - g >= at /\ a - g < RoundDown(at, size) + size
    BY <1>1, <1>2, <1>3, <1>5
  <1> PICK x \in Nat : x = a - g
    BY <1>6
  <1>7. ~Present(x)
    <2>1. CASE type = "PTE_HOLE"
      <3>1. x = at
        BY <1>1, <1>4, <1>5, <1>6, <2>1
      <3> QED
        BY <2>1, <3>1 DEF Present
    <2>2. CASE type = "PMD_HOLE"
      <3>1. PmdOf(x) = PmdOf(at) /\ PudOf(x) = PudOf(at)
        BY <1>1, <1>4, <1>6, <2>2, SamePage
      <3> QED
        BY <2>2, <3>1 DEF Present
    <2> QED
      BY <2>1, <2>2
  <1>8. CASE ~Kvm
    <2>1. x = a
      BY <1>1, <1>3, <1>8
    <2>2. Present(a)
      BY <1>8 DEF Stay
    <2> QED
      BY <1>7, <2>1, <2>2
  <1>9. CASE Kvm
    <2>1. PICK s \in layout.slots :
            /\ g = s.start - s.gpa /\ s.start <= at + g /\ stop + g = s.end
            /\ s.start \in Nat /\ s.end \in Nat /\ s.gpa \in Nat
            /\ (at + g <= a /\ a < s.end => Present(a - g))
      BY <1>1, <1>9, TheSlot
    <2>2. ~(a < s.end)
      BY <1>2, <1>7, <2>1
    <2>3. PICK t \in layout.slots : a \in Within(t)
      BY <1>9 DEF Stay
    <2>4. Present(a - (t.start - t.gpa))
      BY <1>9, <2>3, Zenon DEF Stay
    <2>5. s # t /\ s.start - s.gpa # t.start - t.gpa
      <3>1. s # t
        BY <1>3, <2>1, <2>2, <2>3 DEF Within
      <3>2. s.start - s.gpa # t.start - t.gpa
        BY <1>7, <2>1, <2>4
      <3> QED
        BY <3>1, <3>2
    <2> PICK c \in Int : c = at + g
      BY <1>1
    <2>6. c \in Within(s) /\ c < a
      BY <1>1, <1>2, <1>3, <2>1, <2>2 DEF Within
    <2>7. layout.mode = "kvm"
      BY <1>9 DEF Kvm
    <2>8. PmdOf(c - (s.start - s.gpa)) # PmdOf(a - (s.start - s.gpa))
      BY <1>1, <2>3, <2>5, <2>6, <2>7 DEF SlotsApart
    <2>9. PmdOf(at) # PmdOf(x)
      <3>1. c - (s.start - s.gpa) = at /\ a - (s.start - s.gpa) = x
        BY <1>1, <1>3, <2>1
      <3> QED
        BY <2>8, <3>1
    <2>10. CASE size = 1
      <3>1. x = at
        BY <1>1, <1>5, <1>6, <2>10
      <3> QED
        BY <2>9, <3>1
    <2>11. CASE size = PmdPages
      BY <1>1, <1>6, <2>9, <2>11, SamePage
    <2> QED
      BY <1>4, <2>10, <2>11
  <1> QED
    BY <1>8, <1>9

\* The page walk leaves alone what is counted; pages can only be skipped.
LEMMA WalkKeeps ==
  ASSUME Inv, KvmPages \/ AddPte \/ MmPassOver \/ MmPudEntry \/ MmPmdEntry
  PROVE  /\ UNCHANGED <<layout, userVars, pos, stable, cut>> /\ Done' = Done /\ Missing' \subseteq Missing
         /\ w'.start = w.start /\ w'.va_end = w.va_end /\ w'.stop = w.stop /\ w'.end = w.end
  <1>1. w \in Cursors
    BY DEF Inv, TypeInv
  <1>2. UNCHANGED <<layout, pos, stable, cut>> /\ skipped \subseteq skipped'
    <2>1. CASE KvmPages
      BY <2>1 DEF KvmPages, histVars
    <2>2. CASE AddPte
      BY <2>2 DEF AddPte, histVars
    <2>3. CASE MmPassOver
      BY <2>3 DEF MmPassOver, histVars
    <2>4. CASE MmPudEntry
      BY <2>4 DEF MmPudEntry
    <2>5. CASE MmPmdEntry
      <3>1. skipped' = skipped \/ \E b : skipped' = skipped \cup b
        BY <2>5, Zenon DEF MmPmdEntry
      <3> QED
        BY <2>5, <3>1 DEF MmPmdEntry
    <2> QED
      BY <2>1, <2>2, <2>3, <2>4, <2>5
  <1>3. UNCHANGED userVars /\ w'.start = w.start /\ w'.va_end = w.va_end /\ w'.stop = w.stop /\ w'.end = w.end
    BY <1>1, WalkUser
  <1>4. Done' = Done
    BY <1>2, <1>3 DEF Done, CountedPages, userVars
  <1>5. Missing' \subseteq Missing
    BY <1>2 DEF Missing
  <1> QED
    BY <1>2, <1>3, <1>4, <1>5

\* The walk goes into the pages of a PMD (ept_pmd_range, mm_idle_pmd_entry).
LEMMA EntersPtes ==
  ASSUME w \in Cursors, NEW e, NEW b, AddPmd(e, w.cur, b), pc' = "ptes"
  PROVE  /\ w'.pte_end = b /\ w'.cur = w.cur /\ w'.stop = w.stop
         /\ pmd' = pmd /\ pmd[PmdOf(w.cur)] = "table"
  <1> PICK a : a = w.cur
    OBVIOUS
  <1>1. AddPmd(e, a, b)
    OBVIOUS
  <1>2. ~AddHuge(e, a, b) /\ ~AddHole(e, a, b)
    BY DEF AddHuge, AddHole, GoOn
  <1>3. pmd[PmdOf(a)] = "table" /\ w' = [w EXCEPT !.pte_end = b] /\ pmd' = pmd
    BY <1>1, <1>2, Zenon DEF AddPmd, EnterPtes
  <1> QED
    BY <1>3 DEF Cursors

\* The entries that are walked are those of a PMD of small pages, in the range.
LEMMA PtesKeep ==
  ASSUME Inv, CursorInv, KvmPages \/ AddPte \/ MmPassOver \/ MmPudEntry \/ MmPmdEntry, pc' = "ptes",
         pc = "ptes" =>
           w.pte_end <= w.stop /\ (PmdOf(w.cur) \in DOMAIN pmd => pmd[PmdOf(w.cur)] = "table")
  PROVE  w'.pte_end <= w'.stop /\ (PmdOf(w'.cur) \in DOMAIN pmd' => pmd'[PmdOf(w'.cur)] = "table")
  <1>1. w \in Cursors
    BY DEF Inv, TypeInv
  <1>2. CASE AddPte
    <2>1. pc = "ptes" /\ pmd' = pmd
      BY <1>2 DEF AddPte
    <2>2. w' = [w EXCEPT !.cur = @ + 1] /\ w.cur + 1 < w.pte_end
      BY <1>2 DEF AddPte, GoOn
    <2>3. w'.cur = w.cur + 1 /\ w'.pte_end = w.pte_end /\ w'.stop = w.stop
      BY <1>1, <2>2 DEF Cursors
    <2>4. w.cur \in Nat /\ w.pte_end \in Int /\ w.stop \in Int
      BY <1>1, <2>1, InPages DEF Cursors
    <2>5. w.pte_end <= (PmdOf(w.cur) + 1) * PmdPages
      BY <2>1 DEF CursorInv, Ranges, EntriesTo
    <2>6. PmdOf(w.cur + 1) = PmdOf(w.cur)
      <3> PICK a \in Nat : a = w.cur
        BY <2>4
      <3>1. PmdPages \in Nat \ {0}
        BY StreamAssumption
      <3>2. RoundDown(a, PmdPages) + PmdPages = (PmdOf(a) + 1) * PmdPages /\ RoundDown(a, PmdPages) \in Nat
        BY <3>1, PageEnd, Rounds DEF PmdOf
      <3> PICK r \in Nat : r = RoundDown(a, PmdPages)
        BY <3>2
      <3> PICK e \in Int : e = w.pte_end
        BY <2>4
      <3>3. a + 1 < r + PmdPages
        <4>1. e <= r + PmdPages /\ a + 1 < e
          BY <2>2, <2>5, <3>2
        <4> QED
          BY <3>1, <4>1
      <3> QED
        BY <3>3, SamePage
    <2> QED
      BY <2>1, <2>3, <2>6
  <1>3. CASE KvmPages
    <2>1. pc = "pages"
      BY <1>3 DEF KvmPages
    <2>2. AddPmd(eic, w.cur, PmdEnd(w.cur, w.stop))
      BY <1>3 DEF KvmPages, GoOn
    <2>3. PmdEnd(w.cur, w.stop) <= w.stop
      BY <2>1, InPages, EndBounds DEF CursorInv, Ranges
    <2> QED
      BY <1>1, <2>2, <2>3, EntersPtes
  <1>4. CASE MmPmdEntry
    <2>1. pc = "pages" /\ ~Kvm /\ PassedOver(w.cur) = {}
      BY <1>4 DEF MmPmdEntry
    <2> DEFINE b0 == Least(w.stop, vmas[FindVma(w.cur)].end)
    <2>2. AddPmd([eic EXCEPT !.last_va = w.cur], w.cur, PmdEnd(w.cur, b0))
      BY <1>4 DEF MmPmdEntry, GoOn
    <2>3. b0 \in Nat /\ b0 > w.cur /\ b0 <= w.stop
      BY <2>1, InVma
    <2> HIDE DEF b0
    <2>4. w.cur \in Nat /\ w.stop \in Nat
      BY <2>1, InPages
    <2>5. PmdEnd(w.cur, b0) <= b0 /\ PmdEnd(w.cur, b0) \in Nat
      BY <2>3, <2>4, EndBounds
    <2>6. PmdEnd(w.cur, b0) <= w.stop
      BY <2>3, <2>4, <2>5
    <2> QED
      BY <1>1, <2>2, <2>6, EntersPtes
  <1>5. CASE MmPassOver
    BY <1>5 DEF MmPassOver, GoOn
  <1>6. CASE MmPudEntry
    BY <1>6 DEF MmPudEntry
  <1> QED
    BY <1>2, <1>3, <1>4, <1>5, <1>6

\* The cursor does not leave the slot or the range.
LEMMA InSlotKept ==
  ASSUME Inv, CursorInv, Walks, InSlot, w'.cur \in Int, Kvm => w'.cur >= w.cur,
         w'.va_end = w.va_end, w'.stop = w.stop, w'.end = w.end
  PROVE  InSlot'
  <1>1. pc \in {"pages", "ptes"} /\ eic'.gpa_to_hva = eic.gpa_to_hva /\ layout' = layout
    BY DEF Walks
  <1>2. (Kvm' <=> Kvm) /\ w.cur \in Nat /\ eic.gpa_to_hva \in Int
    BY <1>1, InPages DEF Kvm
  <1>3. CASE ~Kvm
    BY <1>2, <1>3 DEF InSlot
  <1>4. CASE Kvm
    <2>1. PICK s \in layout.slots :
            /\ eic.gpa_to_hva = s.start - s.gpa /\ w.stop = s.end - eic.gpa_to_hva
            /\ w.va_end = s.end /\ s.start <= w.cur + eic.gpa_to_hva
      BY <1>4 DEF InSlot
    <2>2. s.start \in Nat
      BY SlotTypes DEF Inv, TypeInv
    <2>3. s.start <= w'.cur + eic'.gpa_to_hva
      BY <1>1, <1>2, <1>4, <2>1, <2>2
    <2> QED
      BY <1>1, <1>2, <1>4, <2>1, <2>3 DEF InSlot
  <1> QED
    BY <1>3, <1>4

\* What stays covered when nothing more is missing.
LEMMA FewerMissing ==
  ASSUME Missing' \subseteq Missing, Done \subseteq Done', layout' = layout
  PROVE  /\ \A to : Covered(Missing, to) => Covered(Missing, to)'
         /\ \A n : VmasCovered(n) => VmasCovered(n)'
  <1>1. ASSUME NEW to, Covered(Missing, to) PROVE \A a \in Missing' : a < to => a \in Done'
    BY <1>1 DEF Covered
  <1>2. ASSUME NEW n, VmasCovered(n)
        PROVE  \A a \in Missing' : (\E i \in 1 .. n : a \in Within(layout'.vmas[i])) => a \in Done'
    BY <1>2 DEF VmasCovered
  <1> QED
    BY <1>1, <1>2 DEF Covered, VmasCovered

\* What is missing is a set of addresses.
LEMMA MissingType ==
  ASSUME Stay
  PROVE  Missing \subseteq Nat
  BY DEF Stay, Missing

\* What the proofs about the kernel's steps find.
LEMMA InCover ==
  ASSUME Inv, CoverInv, pc \in InTheKernel
  PROVE  /\ Stay /\ UserCover /\ KernelCover /\ Missing \subseteq Nat
         /\ eic.out \o eic.kpie \in Seq(Items) /\ eic.next_hva \in Nat /\ va \in Nat /\ Here \in Nat
         /\ eic.gpa_to_hva \in Int /\ eic.restart_gpa \in Nat /\ w \in Cursors
         /\ w.cur \in Int /\ w.stop \in Int /\ w.va_end \in Nat /\ w.start \in Int
  <1>1. Stay /\ UserCover /\ KernelCover
    BY DEF CoverInv
  <1>2. eic \in ControlBlocks /\ w \in Cursors /\ va \in Nat
    BY DEF Inv, TypeInv
  <1>3. Here \in Nat
    BY <1>2 DEF Here, ControlBlocks
  <1>4. eic.out \o eic.kpie \in Seq(Items)
    BY <1>2, ReportType
  <1> QED
    BY <1>1, <1>2, <1>3, <1>4, MissingType DEF ControlBlocks, Cursors

\* A step of the page walk leaves alone what the reader knows.
LEMMA WalkFrameCover ==
  ASSUME Inv, CoverInv, Stay', Walks, UNCHANGED <<userVars, pos>>,
         Done' = Done, Missing' \subseteq Missing,
         NEW U, U = Missing', Gapless(U, eic'.out \o eic'.kpie, 0, va),
         pc' # "copy" => ~NoRoom(eic'),
         NEW here, here = Here',
         pc' \in {"pages", "ptes"} =>
           /\ ~eic'.full /\ InSlot' /\ Free(U, here, w'.cur + eic.gpa_to_hva)
           /\ ~Kvm => Free(U, here, eic'.restart_gpa),
         pc' = "ptes" =>
           w'.pte_end <= w'.stop /\ (PmdOf(w'.cur) \in DOMAIN pmd' => pmd'[PmdOf(w'.cur)] = "table"),
         pc' = "copy" =>
           /\ Free(U, here, eic'.restart_gpa + eic.gpa_to_hva)
           /\ eic'.pie_read = 0 => Free(U, here, w'.va_end)
  PROVE  CoverInv'
  <1>1. /\ pc \in {"pages", "ptes"} /\ pc' \in {"pages", "ptes", "copy"}
        /\ eic'.gpa_to_hva = eic.gpa_to_hva /\ layout' = layout
    BY DEF Walks
  <1>2. pc \in InTheKernel /\ pc \in AtVma /\ pc' \notin {"start", "vma", "loop", "done", "parse", "range"}
    BY <1>1 DEF InTheKernel, AtVma
  <1>3. UserCover /\ KernelCover
    BY <1>2 DEF CoverInv
  <1>4. UNCHANGED <<va, end, vmai, io_error, next_va, parsed>> /\ pos' = pos
    BY DEF userVars
  <1>5. (\A to : Covered(Missing, to) => Covered(Missing, to)') /\ (\A n : VmasCovered(n) => VmasCovered(n)')
    BY <1>1, FewerMissing, Zenon
  <1>6. UserCover'
    <2>1. end = Least(layout.vmas[vmai].end, layout.va_end) /\ VmasCovered(vmai - 1)
      BY <1>2, <1>3 DEF UserCover
    <2>2. VmasCovered(vmai - 1)'
      <3>1. PICK n : n = vmai - 1
        OBVIOUS
      <3>2. \A a \in Missing : (\E i \in 1 .. n : a \in Within(layout.vmas[i])) => a \in Done
        BY <2>1, <3>1 DEF VmasCovered
      <3>3. \A a \in Missing' : (\E i \in 1 .. n : a \in Within(layout'.vmas[i])) => a \in Done'
        BY <1>1, <3>2
      <3> QED
        BY <1>4, <3>1, <3>3 DEF VmasCovered
    <2>3. end' = Least(layout'.vmas[vmai'].end, layout'.va_end)
      BY <1>1, <1>4, <2>1
    <2> QED
      BY <1>2, <2>2, <2>3 DEF UserCover
  <1>7. KernelCover'
    <2>1. Covered(Missing', va') /\ Free(Missing', va', pos')
      <3>1. Covered(Missing, va) /\ Free(Missing, va, pos)
        BY <1>3 DEF KernelCover
      <3>2. \A a \in Missing' : a < va => a \in Done'
        BY <3>1 DEF Covered
      <3> QED
        BY <1>4, <3>1, <3>2, FreeFewer DEF Covered
    <2>2. Covered(Missing, va)' <=> Covered(Missing', va')
      BY DEF Covered
    <2>3. (Kvm' <=> Kvm) /\ eic'.gpa_to_hva = eic.gpa_to_hva
      BY <1>1 DEF Kvm
    <2>4. pc' \in {"pages", "ptes"} =>
            /\ ~eic'.full /\ InSlot' /\ Free(Missing', Here', w'.cur + eic'.gpa_to_hva)
            /\ ~Kvm' => Free(Missing', Here', eic'.restart_gpa)
      BY <2>3
    <2>5. pc' = "copy" =>
           /\ Free(Missing', Here', eic'.restart_gpa + eic'.gpa_to_hva)
           /\ eic'.pie_read = 0 => Free(Missing', Here', w'.va_end)
      BY <2>3
    <2>6. Gapless(Missing', eic'.out \o eic'.kpie, 0, va')
      BY <1>4
    <2> QED
      BY <1>2, <2>1, <2>2, <2>4, <2>5, <2>6 DEF KernelCover
  <1> QED
    BY <1>2, <1>6, <1>7 DEF CoverInv

\* Where the range ends for the process.
LEMMA StopIsEnd ==
  ASSUME Inv, InSlot, w.stop \in Int, w.va_end \in Nat, eic.gpa_to_hva \in Int, ~Kvm => eic.gpa_to_hva = 0
  PROVE  w.stop + eic.gpa_to_hva = w.va_end
  <1>1. CASE ~Kvm
    BY <1>1 DEF InSlot
  <1>2. CASE Kvm
    <2>1. PICK s \in layout.slots : w.stop = s.end - eic.gpa_to_hva /\ w.va_end = s.end
      BY <1>2 DEF InSlot
    <2>2. s.end \in Nat
      BY SlotTypes DEF Inv, TypeInv
    <2> QED
      BY <2>1, <2>2
  <1> QED
    BY <1>1, <1>2

\* A walk that goes on is in front of the end of its range.
LEMMA CursorInFront ==
  ASSUME Inv, CursorInv, CoverInv, pc \in {"pages", "ptes"}
  PROVE  /\ pc \in InTheKernel /\ w.cur < w.stop /\ w.cur \in Nat /\ w.stop \in Nat /\ InSlot
         /\ eic.gpa_to_hva \in Int /\ (~Kvm => eic.gpa_to_hva = 0) /\ layout \in Layouts
         /\ ~eic.full /\ Free(Missing, Here, w.cur + eic.gpa_to_hva) /\ ~NoRoom(eic)
         /\ ~Kvm => Free(Missing, Here, eic.restart_gpa)
         /\ Gapless(Missing, eic.out \o eic.kpie, 0, va)
         /\ w.stop + eic.gpa_to_hva = w.va_end
         /\ pc = "ptes" =>
              w.pte_end <= w.stop /\ (PmdOf(w.cur) \in DOMAIN pmd => pmd[PmdOf(w.cur)] = "table")
  <1>1. pc \in InTheKernel /\ w.cur \in Nat /\ w.stop \in Nat /\ eic.gpa_to_hva \in Int
        /\ (~Kvm => eic.gpa_to_hva = 0) /\ w.pte_end \in Int /\ w.va_end \in Nat
    BY InPages DEF Cursors
  <1>2. KernelCover
    BY <1>1 DEF CoverInv
  <1>3. w.cur < w.stop
    <2>1. CASE pc = "pages"
      BY <2>1 DEF CursorInv, Ranges
    <2>2. CASE pc = "ptes"
      <3>1. w.cur < w.pte_end /\ w.pte_end <= w.stop
        BY <1>2, <2>2 DEF CursorInv, Ranges, EntriesTo, KernelCover
      <3> QED
        BY <1>1, <3>1
    <2> QED
      BY <2>1, <2>2
  <1>4. layout \in Layouts
    BY DEF Inv, TypeInv
  <1>5. /\ InSlot /\ ~eic.full /\ Free(Missing, Here, w.cur + eic.gpa_to_hva) /\ ~NoRoom(eic)
        /\ ~Kvm => Free(Missing, Here, eic.restart_gpa)
        /\ Gapless(Missing, eic.out \o eic.kpie, 0, va)
        /\ pc = "ptes" =>
             w.pte_end <= w.stop /\ (PmdOf(w.cur) \in DOMAIN pmd => pmd[PmdOf(w.cur)] = "table")
    BY <1>2 DEF KernelCover
  <1>6. w.stop + eic.gpa_to_hva = w.va_end
    BY <1>1, <1>5, StopIsEnd
  <1> QED
    BY <1>1, <1>3, <1>4, <1>5, <1>6

\* The cursor passes over nothing that is missing.
LEMMA PassesFree ==
  ASSUME Inv, CursorInv, CoverInv, Walks, stable' = stable, skipped \subseteq skipped',
         w'.cur \in Int, pc' # "ptes", PassesOver
  PROVE  Free(Missing', w.cur + eic.gpa_to_hva, w'.cur + eic.gpa_to_hva)
  <1>1. pc \in {"pages", "ptes"} /\ Stay
    BY DEF Walks, CoverInv
  <1>2. /\ w.cur < w.stop /\ w.cur \in Nat /\ InSlot
        /\ eic.gpa_to_hva \in Int /\ (~Kvm => eic.gpa_to_hva = 0)
    BY <1>1, CursorInFront
  <1>3. Missing' \subseteq stable
    BY DEF Missing
  <1>4. CASE ~Kvm /\ w'.cur \in PassedOver(w.cur)
    <2> PICK next : next = w'.cur
      OBVIOUS
    <2>1. Free(stable, w.cur, next)
      BY <1>1, <1>2, <1>4, PassedFree
    <2>2. next \in Int
      OBVIOUS
    <2>3. w.cur + eic.gpa_to_hva = w.cur /\ next + eic.gpa_to_hva = next
      BY <1>2, <1>4, <2>2
    <2> QED
      BY <1>3, <2>1, <2>3, FreeFewer
  <1>5. CASE ~Kvm /\ w.cur .. w'.cur - 1 \subseteq skipped'
    <2> SUFFICES ASSUME NEW a \in Missing', w.cur + eic.gpa_to_hva <= a, a < w'.cur + eic.gpa_to_hva
                 PROVE  FALSE
      BY DEF Free
    <2>2. a \in Nat /\ a \notin skipped'
      BY <1>1, <1>3 DEF Stay, Missing
    <2> QED
      BY <1>2, <1>5, <2>2
  <1>6. CASE Kvm /\ pud[PudOf(w.cur)] = "none" /\ w'.cur = PudEnd(w.cur, w.stop)
    <2>1. Free(stable, w.cur + eic.gpa_to_hva, w'.cur + eic.gpa_to_hva)
      BY <1>1, <1>2, <1>6, EmptyPudFree
    <2> QED
      BY <1>3, <2>1, FreeFewer
  <1> QED
    BY <1>4, <1>5, <1>6 DEF PassesOver

\* A step of the page walk that finds nothing passes over nothing that is missing.
LEMMA NothingCovers ==
  ASSUME Inv, Inv', CursorInv, CoverInv, Stay', Walks,
         KvmPages \/ AddPte \/ MmPassOver \/ MmPudEntry \/ MmPmdEntry, Nothing
  PROVE  CoverInv'
  <1>1. pc \in {"pages", "ptes"} /\ pc' \in {"pages", "ptes", "copy"} /\ (Kvm' <=> Kvm)
    BY DEF Walks, Kvm
  <1>2. /\ pc \in InTheKernel /\ w.cur < w.stop /\ w.cur \in Nat /\ w.stop \in Nat /\ InSlot
        /\ eic.gpa_to_hva \in Int /\ (~Kvm => eic.gpa_to_hva = 0)
        /\ ~eic.full /\ Free(Missing, Here, w.cur + eic.gpa_to_hva) /\ ~NoRoom(eic)
        /\ ~Kvm => Free(Missing, Here, eic.restart_gpa)
        /\ Gapless(Missing, eic.out \o eic.kpie, 0, va)
        /\ w.stop + eic.gpa_to_hva = w.va_end
    BY <1>1, CursorInFront
  <1>3. Missing \subseteq Nat /\ Here \in Nat /\ eic.restart_gpa \in Nat /\ w.va_end \in Nat
    BY <1>2, InCover
  <1>4. w'.cur \in Int
    BY DEF Inv, TypeInv, Cursors
  <1>5. /\ UNCHANGED <<layout, userVars, pos, stable, cut>> /\ Done' = Done /\ Missing' \subseteq Missing
        /\ w'.start = w.start /\ w'.va_end = w.va_end /\ w'.stop = w.stop /\ w'.end = w.end
    BY WalkKeeps
  <1>6. skipped \subseteq skipped'
    <2>1. CASE MmPmdEntry
      <3>1. skipped' = skipped \/ \E b : skipped' = skipped \cup b
        BY <2>1, Zenon DEF MmPmdEntry
      <3> QED
        BY <3>1
    <2>2. CASE MmPudEntry
      BY <2>2 DEF MmPudEntry
    <2> QED
      BY <2>1, <2>2 DEF KvmPages, AddPte, MmPassOver, histVars
  <1>7. /\ eic'.out = eic.out /\ eic'.kpie = eic.kpie /\ eic'.next_hva = eic.next_hva
        /\ eic'.full = eic.full /\ Onward /\ PassesOver /\ eic'.pie_read_max = eic.pie_read_max
    BY DEF Nothing
  <1>8. Here' = Here
    BY <1>5, <1>7 DEF Here, userVars
  <1> PICK U : U = Missing'
    OBVIOUS
  <1> PICK here \in Nat : here = Here
    BY <1>3
  <1> PICK g \in Int : g = eic.gpa_to_hva
    BY <1>2
  <1> PICK a \in Nat, b \in Int, stop \in Nat : a = w.cur /\ b = w'.cur /\ stop = w.stop
    BY <1>2, <1>4
  <1> PICK r \in Nat : r = eic.restart_gpa
    BY <1>3
  <1>9. U \subseteq Nat /\ U \subseteq Missing
    BY <1>3, <1>5
  <1>10. Free(U, here, a + g) /\ (~Kvm => Free(U, here, r)) /\ Gapless(U, eic.out \o eic.kpie, 0, va)
    BY <1>2, <1>9, FreeFewer
  <1>11. pc' # "ptes" => Free(U, a + g, b + g)
    BY <1>4, <1>5, <1>6, <1>7, PassesFree
  <1>12. pc' # "ptes" => Free(U, here, b + g)
    <2> PICK x \in Int, y \in Int : x = a + g /\ y = b + g
      OBVIOUS
    <2>1. Free(U, here, x) /\ (pc' # "ptes" => Free(U, x, y))
      BY <1>10, <1>11
    <2>2. pc' # "ptes" => Free(U, here, y)
      BY <1>9, <2>1 DEF Free
    <2> QED
      BY <2>2
  <1>13. ~NoRoom(eic')
    BY <1>2, <1>7 DEF NoRoom
  <1>14. pc' \in {"pages", "ptes"} => b >= a
    BY <1>7 DEF Onward
  <1>15. pc' \in {"pages", "ptes"} => InSlot'
    BY <1>2, <1>4, <1>5, <1>14, InSlotKept
  <1>16. pc' = "ptes" => b = a /\ eic'.restart_gpa = r
    BY <1>7 DEF Onward, PassesOver
  <1>17. pc' # "ptes" => eic'.restart_gpa = IF Kvm THEN b ELSE r
    BY <1>7 DEF PassesOver
  <1>18. pc' \in {"pages", "ptes"} =>
           /\ ~eic'.full /\ InSlot' /\ Free(U, here, b + g)
           /\ ~Kvm => Free(U, here, eic'.restart_gpa)
    BY <1>1, <1>2, <1>7, <1>10, <1>12, <1>15, <1>16, <1>17
  <1>19. pc' = "copy" =>
           /\ Free(U, here, eic'.restart_gpa + g)
           /\ Free(U, here, w'.va_end)
    <2> SUFFICES ASSUME pc' = "copy"
                 PROVE  Free(U, here, eic'.restart_gpa + g) /\ Free(U, here, w'.va_end)
      OBVIOUS
    <2>1. Free(U, here, eic'.restart_gpa + g)
      <3>1. CASE Kvm
        BY <1>12, <1>17, <3>1
      <3>2. CASE ~Kvm
        <4>1. g = 0 /\ r + g = r
          BY <1>2, <3>2
        <4> QED
          BY <1>10, <1>17, <3>2, <4>1
      <3> QED
        BY <3>1, <3>2
    <2>2. w'.va_end = stop + g
      BY <1>2, <1>5
    <2>3. CASE b >= stop
      <3> PICK x \in Int, y \in Int : x = stop + g /\ y = b + g
        OBVIOUS
      <3>1. x <= y /\ Free(U, here, y)
        BY <1>12, <2>3
      <3>2. Free(U, here, x)
        BY <1>9, <3>1 DEF Free
      <3> QED
        BY <2>1, <2>2, <3>2
    <2>4. CASE ~Kvm /\ a .. stop - 1 \subseteq skipped'
      <3>1. g = 0
        BY <1>2, <2>4
      <3>2. Free(U, a + g, stop + g)
        <4> SUFFICES ASSUME NEW x \in U, a + g <= x, x < stop + g PROVE FALSE
          BY DEF Free
        <4>1. x \in Nat /\ x \notin skipped'
          BY <1>9 DEF Missing
        <4> QED
          BY <2>4, <3>1, <4>1
      <3> PICK x \in Int, y \in Int : x = stop + g /\ y = a + g
        OBVIOUS
      <3>3. Free(U, here, y) /\ Free(U, y, x)
        BY <1>10, <3>2
      <3>4. Free(U, here, x)
        BY <1>9, <3>3 DEF Free
      <3> QED
        BY <2>1, <2>2, <3>4
    <2> QED
      BY <1>7, <2>3, <2>4 DEF PassesOver
  <1>20. pc' = "ptes" =>
         w'.pte_end <= w'.stop /\ (PmdOf(w'.cur) \in DOMAIN pmd' => pmd'[PmdOf(w'.cur)] = "table")
    <2>1. pc = "ptes" =>
           w.pte_end <= w.stop /\ (PmdOf(w.cur) \in DOMAIN pmd => pmd[PmdOf(w.cur)] = "table")
      BY <1>1, CursorInFront
    <2> QED
      BY <2>1, PtesKeep
  <1>21. Gapless(U, eic'.out \o eic'.kpie, 0, va)
    BY <1>7, <1>10
  <1>22. here = Here' /\ UNCHANGED <<userVars, pos>>
    BY <1>5, <1>8
  <1> QED
    BY <1>5, <1>13, <1>18, <1>19, <1>20, <1>21, <1>22, WalkFrameCover

\* A large page is aligned where it is reported, a small one is anyway.
LEMMA FoundAligned ==
  ASSUME HugePagesAligned, NEW type \in PageTypes, type \in PteTypes \cup HoleTypes \/ LargePage(type),
         NEW at \in Nat, at = RoundDown(w.cur, pagetype_size(type)) + eic.gpa_to_hva
  PROVE  type \in HoleTypes \/ at % pagetype_size(type) = 0
  <1>1. CASE type \in PteTypes
    <2>1. pagetype_size(type) = 1
      BY <1>1, TypeSizes
    <2> QED
      BY <2>1, SmallPage
  <1>2. CASE LargePage(type)
    <2>1. CASE type = "PUD_PRESENT"
      <3>1. pagetype_size(type) = PudPages /\ type \notin PmdTypes
        BY <2>1, TypeSizes DEF PmdTypes
      <3> QED
        BY <1>2, <3>1 DEF LargePage, HugePagesAligned
    <2>2. CASE type \in PmdTypes
      <3>1. pagetype_size(type) = PmdPages /\ type # "PUD_PRESENT"
        BY <2>2, TypeSizes DEF PmdTypes
      <3> QED
        BY <1>2, <3>1 DEF LargePage, HugePagesAligned
    <2> QED
      BY <1>2, <2>1, <2>2 DEF LargePage
  <1> QED
    BY <1>1, <1>2

\* A step of the page walk that finds a hole: up to the end of its page nothing is
\* missing.
LEMMA HoleStepFree ==
  ASSUME SlotsApart, Inv, CursorInv, CoverInv, Walks, stable' = stable,
         NEW type \in HoleTypes, Finds(type)
  PROVE  LET size == pagetype_size(type) IN
         Free(Missing', w.cur + eic.gpa_to_hva, RoundDown(w.cur, size) + size + eic.gpa_to_hva)
  <1>1. pc \in {"pages", "ptes"} /\ Stay
    BY DEF Walks, CoverInv
  <1>2. /\ w.cur < w.stop /\ InSlot
        /\ pc = "ptes" => (PmdOf(w.cur) \in DOMAIN pmd => pmd[PmdOf(w.cur)] = "table")
    BY <1>1, CursorInFront
  <1>3. HoleAt(type) /\ (type \in PmdTypes => pud[PudOf(w.cur)] = "table")
    BY Zenon DEF Finds
  <1>4. pud[PudOf(w.cur)] = "table"
    <2>1. CASE type = "PMD_HOLE"
      BY <1>3, <2>1 DEF PmdTypes
    <2>2. CASE type = "PTE_HOLE"
      <3>1. pc = "ptes"
        BY <1>3, <2>2 DEF HoleAt
      <3> QED
        BY <3>1 DEF CursorInv, Ranges, EntriesTo
    <2> QED
      BY <2>1, <2>2 DEF HoleTypes
  <1>5. \/ type = "PTE_HOLE" /\ pte[w.cur] = "none"
             /\ (PmdOf(w.cur) \in DOMAIN pmd => pmd[PmdOf(w.cur)] = "table")
        \/ type = "PMD_HOLE" /\ pmd[PmdOf(w.cur)] \in {"none", "swapped"}
    BY <1>2, <1>3 DEF HoleAt
  <1> PICK size : size = pagetype_size(type)
    OBVIOUS
  <1>6. Free(stable, w.cur + eic.gpa_to_hva, RoundDown(w.cur, size) + size + eic.gpa_to_hva)
    BY <1>1, <1>2, <1>4, <1>5, HoleFree
  <1>7. Missing' \subseteq stable
    BY DEF Missing
  <1> QED
    BY <1>6, <1>7, FreeFewer

\* A page more in a report.
LEMMA FoundGapless ==
  ASSUME NEW e \in ControlBlocks, NEW f \in ControlBlocks, Agrees(e), NEW type \in PageTypes, NEW at \in Nat,
         Grown(e.out \o e.kpie, f.out \o f.kpie, Report(e).va, at, type),
         Report(f).va = at + pagetype_size(type),
         NEW U, U \subseteq Nat, NEW va0 \in Nat, Gapless(U, e.out \o e.kpie, 0, va0),
         Free(U, IF e.out \o e.kpie = <<>> THEN va0 ELSE e.next_hva, at),
         IF type \in HoleTypes THEN Free(U, at, at + pagetype_size(type)) ELSE at % pagetype_size(type) = 0
  PROVE  Gapless(U, f.out \o f.kpie, 0, va0)
  <1>1. e.out \o e.kpie \in Seq(Items) /\ f.out \o f.kpie \in Seq(Items)
    BY ReportType
  <1>2. PICK items, more : items = e.out \o e.kpie /\ more = f.out \o f.kpie
    OBVIOUS
  <1>3. PICK next : next = e.next_hva
    OBVIOUS
  <1>4. items \in Seq(Items) /\ more \in Seq(Items) /\ next \in Nat
    BY <1>1, <1>2, <1>3 DEF ControlBlocks
  <1>5. /\ next = parse_idlepages(items, 0, 2 * TaskSize).va
        /\ parse_idlepages(items, 0, 2 * TaskSize).late = {}
        /\ Grown(items, more, next, at, type)
        /\ parse_idlepages(more, 0, 2 * TaskSize).va = at + pagetype_size(type)
    BY <1>2, <1>3 DEF Agrees, Report
  <1>6. Gapless(U, items, 0, va0) /\ Free(U, IF items = <<>> THEN va0 ELSE next, at)
    BY <1>2, <1>3
  <1>7. Gapless(U, more, 0, va0)
    BY <1>4, <1>5, <1>6, GaplessGrown, Zenon
  <1> QED
    BY <1>2, <1>7

\* A step of the page walk that finds a page, reported or not, passes over nothing
\* that is missing.
LEMMA FindsCovers ==
  ASSUME SlotsApart, HugePagesAligned, Inv, Inv', CursorInv, CoverInv, Stay', Walks,
         KvmPages \/ AddPte \/ MmPassOver \/ MmPudEntry \/ MmPmdEntry,
         NEW type \in PageTypes, Finds(type)
  PROVE  CoverInv'
  <1>1. pc \in {"pages", "ptes"} /\ pc' \in {"pages", "ptes", "copy"} /\ (Kvm' <=> Kvm)
        /\ (pc' # "copy" /\ ~eic.full => ~eic'.full)
    BY DEF Walks, Kvm
  <1>2. /\ pc \in InTheKernel /\ w.cur < w.stop /\ w.cur \in Nat /\ w.stop \in Nat /\ InSlot
        /\ eic.gpa_to_hva \in Int /\ (~Kvm => eic.gpa_to_hva = 0)
        /\ ~eic.full /\ Free(Missing, Here, w.cur + eic.gpa_to_hva) /\ ~NoRoom(eic)
        /\ Gapless(Missing, eic.out \o eic.kpie, 0, va)
        /\ w.stop + eic.gpa_to_hva = w.va_end
    BY <1>1, CursorInFront
  <1>3. /\ Missing \subseteq Nat /\ Here \in Nat /\ w.va_end \in Nat /\ va \in Nat
        /\ eic.out \o eic.kpie \in Seq(Items) /\ eic.next_hva \in Nat
    BY <1>2, InCover
  <1>4. w'.cur \in Int /\ eic' \in ControlBlocks
    BY DEF Inv, TypeInv, Cursors
  <1>5. /\ UNCHANGED <<layout, userVars, pos, stable, cut>> /\ Done' = Done /\ Missing' \subseteq Missing
        /\ w'.start = w.start /\ w'.va_end = w.va_end /\ w'.stop = w.stop /\ w'.end = w.end
    BY WalkKeeps
  <1> PICK U : U = Missing'
    OBVIOUS
  <1> PICK here \in Nat : here = Here
    BY <1>3
  <1> PICK g \in Int : g = eic.gpa_to_hva
    BY <1>2
  <1> PICK a \in Nat, b \in Int, stop \in Nat : a = w.cur /\ b = w'.cur /\ stop = w.stop
    BY <1>2, <1>4
  <1> PICK size \in Nat \ {0} : size = pagetype_size(type)
    BY PageSizes
  <1>6. RoundDown(a, size) \in Nat /\ RoundDown(a, size) <= a /\ a < RoundDown(a, size) + size
    BY Rounds
  <1> PICK down \in Nat : down = RoundDown(a, size)
    BY <1>6
  <1> PICK at \in Nat : at = down + g
    BY <1>1, InPages, ReportedAt DEF Mapped
  <1> PICK top \in Int : top = down + size + g
    OBVIOUS
  <1>7. a < down + size /\ down <= a /\ top = at + size /\ top \in Nat /\ a + g < top /\ at <= a + g
    BY <1>6
  <1>8. /\ pc' # "copy" => Ahead(size)
        /\ ~eic'.full => b <= down + size
        /\ type \in PteTypes \cup HoleTypes \/ LargePage(type)
        /\ type \in HoleTypes => HoleAt(type)
        /\ eic'.pie_read_max = eic.pie_read_max
    BY Zenon DEF Finds
  <1>9. \/ /\ eic'.out = eic.out /\ eic'.kpie = eic.kpie
           /\ eic'.next_hva = eic.next_hva /\ eic'.pie_read = eic.pie_read
           /\ \/ type \in HoleTypes /\ eic'.restart_gpa = down + size /\ eic'.full = eic.full
              \/ eic'.full = TRUE /\ eic'.restart_gpa = a /\ (eic.pie_read # 0 \/ NoRoom(eic))
        \/ /\ eic'.next_hva = at + size /\ Report(eic').va = eic'.next_hva
           /\ eic'.pie_read # 0 /\ eic'.full = eic.full
           /\ eic'.restart_gpa = down + size
           /\ type \in HoleTypes => down = a
           /\ eic'.out \o eic'.kpie # <<>>
           /\ Grown(eic.out \o eic.kpie, eic'.out \o eic'.kpie, Report(eic).va, at, type)
    <2>1. Adds(eic, eic', a, type)
      BY Zenon DEF Finds
    <2> QED
      BY <2>1, Zenon DEF Adds
  <1>10. U \subseteq Nat /\ U \subseteq Missing
    BY <1>3, <1>5
  <1>11. Free(U, here, a + g) /\ Gapless(U, eic.out \o eic.kpie, 0, va)
    BY <1>2, <1>10, FreeFewer
  <1>12. type \in HoleTypes => Free(U, a + g, top)
    BY <1>5, HoleStepFree
  <1>13. ~NoRoom(eic')
    BY <1>2, <1>8 DEF NoRoom
  <1>14. pc' # "copy" /\ Kvm => b >= a
    BY <1>7, <1>8 DEF Ahead
  <1>15. pc' # "copy" => InSlot'
    BY <1>2, <1>4, <1>5, <1>14, InSlotKept
  <1>16. pc' = "ptes" =>
         w'.pte_end <= w'.stop /\ (PmdOf(w'.cur) \in DOMAIN pmd' => pmd'[PmdOf(w'.cur)] = "table")
    <2>1. pc = "ptes" =>
           w.pte_end <= w.stop /\ (PmdOf(w.cur) \in DOMAIN pmd => pmd[PmdOf(w.cur)] = "table")
      BY <1>1, CursorInFront
    <2> QED
      BY <2>1, PtesKeep
  <1>17. UNCHANGED <<userVars, pos>> /\ va' = va
    BY <1>5 DEF userVars
  <1>18. CASE /\ eic'.out = eic.out /\ eic'.kpie = eic.kpie
              /\ eic'.next_hva = eic.next_hva /\ eic'.pie_read = eic.pie_read
              /\ type \in HoleTypes /\ eic'.restart_gpa = down + size /\ eic'.full = eic.full
    <2>1. here = Here' /\ Gapless(U, eic'.out \o eic'.kpie, 0, va)
      BY <1>11, <1>17, <1>18 DEF Here
    <2>2. Free(U, here, top)
      BY <1>7, <1>10, <1>11, <1>12, <1>18 DEF Free
    <2>3. b + g <= top
      BY <1>2, <1>8, <1>18
    <2>4. pc' \in {"pages", "ptes"} =>
            /\ ~eic'.full /\ InSlot' /\ Free(U, here, b + g)
            /\ ~Kvm => Free(U, here, eic'.restart_gpa)
      <3>1. Free(U, here, b + g)
        BY <1>10, <2>2, <2>3 DEF Free
      <3>2. ~Kvm => eic'.restart_gpa = top
        BY <1>2, <1>18
      <3> QED
        BY <1>2, <1>15, <1>18, <2>2, <3>1, <3>2
    <2>5. pc' = "copy" => Free(U, here, eic'.restart_gpa + g) /\ Free(U, here, w'.va_end)
      <3>1. eic'.restart_gpa + g = top
        BY <1>18
      <3>2. pc' = "copy" => b >= stop
        BY <1>2, <1>8, <1>18 DEF HoleAt
      <3>3. w'.va_end = stop + g
        BY <1>2, <1>5
      <3>4. pc' = "copy" => stop + g <= top
        BY <2>3, <3>2
      <3>5. pc' = "copy" => Free(U, here, stop + g)
        BY <1>10, <2>2, <3>4 DEF Free
      <3> QED
        BY <2>2, <3>1, <3>3, <3>5
    <2> QED
      BY <1>5, <1>13, <1>16, <1>17, <2>1, <2>4, <2>5, WalkFrameCover
  <1>19. CASE /\ eic'.out = eic.out /\ eic'.kpie = eic.kpie
              /\ eic'.next_hva = eic.next_hva /\ eic'.pie_read = eic.pie_read
              /\ eic'.full = TRUE /\ eic'.restart_gpa = a /\ (eic.pie_read # 0 \/ NoRoom(eic))
    <2>1. here = Here' /\ Gapless(U, eic'.out \o eic'.kpie, 0, va)
      BY <1>11, <1>17, <1>19 DEF Here
    <2>2. pc' = "copy"
      BY <1>1, <1>2, <1>19
    <2>3. Free(U, here, eic'.restart_gpa + g) /\ eic'.pie_read # 0
      BY <1>2, <1>11, <1>19
    <2> QED
      BY <1>5, <1>17, <2>1, <2>2, <2>3, WalkFrameCover
  <1>20. CASE /\ eic'.next_hva = at + size /\ Report(eic').va = eic'.next_hva
              /\ eic'.pie_read # 0 /\ eic'.full = eic.full
              /\ eic'.restart_gpa = down + size
              /\ type \in HoleTypes => down = a
              /\ eic'.out \o eic'.kpie # <<>>
              /\ Grown(eic.out \o eic.kpie, eic'.out \o eic'.kpie, Report(eic).va, at, type)
    <2>20. /\ eic'.next_hva = at + size /\ eic'.pie_read # 0 /\ eic'.full = eic.full
           /\ eic'.restart_gpa = down + size /\ (type \in HoleTypes => down = a)
      BY <1>20, Zenon
    <2>1. top = Here'
      BY <1>7, <1>20 DEF Here
    <2>2. Agrees(eic) /\ eic \in ControlBlocks
      BY <1>1, InPages
    <2>3. Report(eic').va = at + pagetype_size(type)
      BY <1>20
    <2>4. here = IF eic.out \o eic.kpie = <<>> THEN va ELSE eic.next_hva
      BY DEF Here
    <2>5. Free(U, here, at)
      BY <1>7, <1>10, <1>11 DEF Free
    <2>7. IF type \in HoleTypes THEN Free(U, at, at + pagetype_size(type)) ELSE at % pagetype_size(type) = 0
      <3>1. CASE type \in HoleTypes
        BY <1>7, <1>12, <2>20, <3>1
      <3>2. CASE type \notin HoleTypes
        BY <1>8, <3>2, FoundAligned
      <3> QED
        BY <3>1, <3>2
    <2>8. Free(U, IF eic.out \o eic.kpie = <<>> THEN va ELSE eic.next_hva, at)
      BY <2>4, <2>5
    <2>6. Grown(eic.out \o eic.kpie, eic'.out \o eic'.kpie, Report(eic).va, at, type)
      BY <1>20, Zenon
    <2>21. at \in Nat /\ Gapless(U, eic.out \o eic.kpie, 0, va)
      BY <1>11
    <2>9. Gapless(U, eic'.out \o eic'.kpie, 0, va)
      BY <1>3, <1>4, <1>10, <2>2, <2>3, <2>6, <2>7, <2>8, <2>21, FoundGapless, Zenon
    <2>10. pc' \in {"pages", "ptes"} =>
            /\ ~eic'.full /\ InSlot' /\ Free(U, top, b + g)
            /\ ~Kvm => Free(U, top, eic'.restart_gpa)
      <3>1. b + g <= top
        BY <1>2, <1>8, <2>20
      <3>2. Free(U, top, b + g)
        BY <1>10, <3>1 DEF Free
      <3>3. ~Kvm => Free(U, top, eic'.restart_gpa)
        <4>1. ~Kvm => eic'.restart_gpa = top
          BY <1>2, <2>20
        <4> QED
          BY <1>10, <4>1 DEF Free
      <3> QED
        BY <1>2, <1>15, <2>20, <3>2, <3>3
    <2>11. Free(U, top, eic'.restart_gpa + g) /\ eic'.pie_read # 0
      <3>1. eic'.restart_gpa + g = top
        BY <2>20
      <3>2. Free(U, top, top)
        BY <1>10, <2>20 DEF Free
      <3>3. Free(U, top, eic'.restart_gpa + g)
        BY <3>1, <3>2, Zenon
      <3> QED
        BY <2>20, <3>3
    <2> QED
      BY <1>5, <1>13, <1>16, <1>17, <2>1, <2>9, <2>10, <2>11, WalkFrameCover
  <1> QED
    BY <1>9, <1>18, <1>19, <1>20

\* Every step of the page walk.
LEMMA WalkCovers ==
  ASSUME SlotsApart, HugePagesAligned, Inv, Inv', CursorInv, CoverInv, Stay',
         KvmPages \/ AddPte \/ MmPassOver \/ MmPudEntry \/ MmPmdEntry
  PROVE  CoverInv'
  <1>1. Walks /\ PageStep
    BY StepWalks, WalkTogether
  <1>2. CASE Nothing
    BY <1>1, <1>2, NothingCovers
  <1>3. CASE \E type \in PageTypes : Finds(type)
    BY <1>1, <1>3, FindsCovers
  <1> QED
    BY <1>1, <1>2, <1>3 DEF PageStep

\* A turn that starts: what is missing lies behind where it starts.
LEMMA TurnCovers ==
  ASSUME Inv, Inv', CoverInv, Stay', pc = "range",
         UNCHANGED <<layout, userVars, pos, stable, skipped, cut>>,
         pc' \in {"copy", "pages"}, eic'.out = eic.out, eic'.kpie = eic.kpie,
         eic'.next_hva = eic.next_hva, eic'.pie_read_max = eic.pie_read_max,
         pc' = "pages" =>
           /\ ~eic'.full /\ InSlot' /\ w'.cur + eic'.gpa_to_hva = w.start
           /\ ~Kvm => eic'.restart_gpa <= w.start,
         pc' = "copy" =>
           /\ Free(Missing, w.start, eic'.restart_gpa + eic'.gpa_to_hva)
           /\ Free(Missing, w.start, w'.va_end)
  PROVE  CoverInv'
  <1>1. pc \in InTheKernel /\ pc \in AtVma /\ pc' \notin {"start", "vma", "loop", "done", "parse", "range", "ptes"}
    BY DEF InTheKernel, AtVma
  <1>2. /\ UserCover /\ KernelCover /\ Missing \subseteq Nat /\ Here \in Nat /\ w.start \in Int
    BY <1>1, InCover
  <1>3. eic'.gpa_to_hva \in Int /\ eic'.restart_gpa \in Nat /\ w'.va_end \in Nat
    BY DEF Inv, TypeInv, ControlBlocks, Cursors
  <1>4. UNCHANGED <<va, end, vmai, io_error, next_va, parsed, refs>> /\ pos' = pos /\ layout' = layout
    BY DEF userVars
  <1>5. Missing' = Missing /\ Done' = Done /\ Here' = Here
    BY <1>4 DEF Missing, Done, CountedPages, Here
  <1>6. /\ Free(Missing, Here, w.start) /\ Covered(Missing, va) /\ Free(Missing, va, pos)
        /\ Gapless(Missing, eic.out \o eic.kpie, 0, va) /\ ~NoRoom(eic)
    BY <1>2 DEF KernelCover
  <1>7. UserCover'
    <2>1. end = Least(layout.vmas[vmai].end, layout.va_end) /\ VmasCovered(vmai - 1)
      BY <1>1, <1>2 DEF UserCover
    <2>2. VmasCovered(vmai - 1)'
      BY <1>4, <1>5, <2>1 DEF VmasCovered
    <2> QED
      BY <1>1, <1>4, <2>1, <2>2 DEF UserCover
  <1> PICK here \in Nat, s \in Int : here = Here /\ s = w.start
    BY <1>2
  <1> PICK U : U = Missing
    OBVIOUS
  <1>8. U \subseteq Nat /\ Free(U, here, s)
    BY <1>2, <1>6
  <1>9. pc' = "pages" => /\ Free(U, here, w'.cur + eic'.gpa_to_hva)
                         /\ ~Kvm => Free(U, here, eic'.restart_gpa)
    <2>1. pc' = "pages" => Free(U, here, w'.cur + eic'.gpa_to_hva)
      BY <1>8
    <2>2. pc' = "pages" /\ ~Kvm => Free(U, here, eic'.restart_gpa)
      <3> PICK y \in Nat : y = eic'.restart_gpa
        BY <1>3
      <3>1. pc' = "pages" /\ ~Kvm => y <= s
        OBVIOUS
      <3>2. y <= s => Free(U, here, y)
        BY <1>8 DEF Free
      <3> QED
        BY <3>1, <3>2
    <2> QED
      BY <2>1, <2>2
  <1>10. pc' = "copy" => /\ Free(U, here, eic'.restart_gpa + eic'.gpa_to_hva)
                         /\ Free(U, here, w'.va_end)
    <2> PICK y \in Int, z \in Nat : y = eic'.restart_gpa + eic'.gpa_to_hva /\ z = w'.va_end
      BY <1>3
    <2>1. pc' = "copy" => Free(U, s, y) /\ Free(U, s, z)
      OBVIOUS
    <2>2. \A x \in Int : Free(U, s, x) => Free(U, here, x)
      BY <1>8 DEF Free
    <2> QED
      BY <2>1, <2>2
  <1>11. NoRoom(eic') <=> NoRoom(eic)
    BY DEF NoRoom
  <1>12. Covered(Missing, va)' <=> Covered(Missing, va)
    BY <1>4, <1>5 DEF Covered
  <1>13. eic'.out \o eic'.kpie = eic.out \o eic.kpie /\ (Kvm' <=> Kvm)
    BY <1>4 DEF Kvm
  <1>14. KernelCover'
    <2>1. Covered(Missing, va)' /\ Free(Missing', va', pos') /\ ~NoRoom(eic')
      BY <1>4, <1>5, <1>6, <1>11, <1>12
    <2>2. Gapless(Missing', eic'.out \o eic'.kpie, 0, va')
      BY <1>4, <1>5, <1>6, <1>13
    <2>3. pc' = "pages" =>
           /\ ~eic'.full /\ InSlot' /\ Free(Missing', Here', w'.cur + eic'.gpa_to_hva)
           /\ ~Kvm' => Free(Missing', Here', eic'.restart_gpa)
      BY <1>5, <1>9, <1>13
    <2>4. pc' = "copy" => /\ Free(Missing', Here', eic'.restart_gpa + eic'.gpa_to_hva)
                          /\ Free(Missing', Here', w'.va_end)
      BY <1>5, <1>10
    <2> QED
      BY <1>1, <2>1, <2>2, <2>3, <2>4 DEF KernelCover
  <1> QED
    BY <1>1, <1>7, <1>14 DEF CoverInv

\* The search for a VMA passes over nothing that is missing (mm_idle_walk_range).
LEMMA MmRangeCovers ==
  ASSUME Inv, Inv', CursorInv, CoverInv, Stay', MmRange
  PROVE  CoverInv'
  <1>1. /\ pc = "range" /\ ~Kvm /\ UNCHANGED <<layout, userVars, pos, stable, skipped, cut>>
    BY DEF MmRange, histVars
  <1>2. /\ eic \in ControlBlocks /\ w \in Cursors /\ w.start \in Nat /\ eic.gpa_to_hva = 0
        /\ vmas \in Seq(VmaType) /\ layout \in Layouts
    BY <1>1 DEF Inv, TypeInv
  <1>3. Stay /\ KernelCover
    BY <1>1 DEF CoverInv, InTheKernel
  <1> PICK at \in Nat : at = w.start
    BY <1>2
  <1> PICK i : i = FindVma(at)
    OBVIOUS
  <1>4. vmas \in {layout.vmas, layout.later}
    BY <1>3 DEF Stay
  <1>5. ASSUME NEW a \in Missing, at <= a
        PROVE  i # 0 /\ a >= vmas[i].start
    <2>1. a \in Nat /\ Walked(a)
      BY <1>1, <1>3 DEF Stay, Missing
    <2>2. PICK j \in DOMAIN vmas : a \in Within(vmas[j])
      BY <2>1 DEF Walked
    <2> QED
      BY <1>2, <1>4, <1>5, <2>1, <2>2, InFound
  <1>6. /\ ~Kvm => eic.restart_gpa <= w.start
    BY <1>1, <1>3 DEF KernelCover
  <1>7. \/ i = 0 /\ ToCopy(Restart(TaskSize), w.end)
        \/ i # 0 /\ vmas[i].start >= w.end /\ ToCopy(Restart(vmas[i].start), w.end)
        \/ i # 0 /\ vmas[i].start < w.end
           /\ ToPages([eic EXCEPT !.full = FALSE], w.start, w.end, w.end)
    BY Zenon DEF MmRange
  <1>8. CASE i = 0 /\ ToCopy(Restart(TaskSize), w.end)
    <2>1. pc' = "copy" /\ eic' = [eic EXCEPT !.restart_gpa = TaskSize, !.full = FALSE]
      BY <1>8 DEF ToCopy, Restart
    <2>2. /\ eic'.out = eic.out /\ eic'.kpie = eic.kpie
          /\ eic'.next_hva = eic.next_hva /\ eic'.pie_read_max = eic.pie_read_max
      BY <1>2, <2>1 DEF ControlBlocks
    <2>3. \A y : Free(Missing, at, y)
      BY <1>5, <1>8 DEF Free
    <2> QED
      BY <1>1, <2>1, <2>2, <2>3, TurnCovers
  <1>9. CASE i # 0 /\ vmas[i].start >= w.end /\ ToCopy(Restart(vmas[i].start), w.end)
    <2> PICK t \in Nat : t = vmas[i].start
      BY <1>2, <1>9, FoundEnd
    <2>1. pc' = "copy" /\ eic' = [eic EXCEPT !.restart_gpa = t, !.full = FALSE]
          /\ w' = [w EXCEPT !.va_end = w.end]
      BY <1>9 DEF ToCopy, Restart
    <2>2. /\ eic'.out = eic.out /\ eic'.kpie = eic.kpie
          /\ eic'.next_hva = eic.next_hva /\ eic'.pie_read_max = eic.pie_read_max
          /\ eic'.restart_gpa = t /\ eic'.gpa_to_hva = 0
      BY <1>2, <2>1 DEF ControlBlocks
    <2>3. w'.va_end = w.end /\ w.end <= t /\ w.end \in Nat
      BY <1>2, <1>9, <2>1 DEF Cursors
    <2>4. \A y \in Int : y <= t => Free(Missing, at, y)
      <3>1. \A a \in Missing : at <= a => a \in Nat /\ a >= t
        BY <1>3, <1>5 DEF Stay, Missing
      <3> QED
        BY <3>1 DEF Free
    <2>5. Free(Missing, at, t) /\ Free(Missing, at, w'.va_end) /\ t + 0 = t
      BY <2>3, <2>4
    <2> QED
      BY <1>1, <2>1, <2>2, <2>5, TurnCovers
  <1>10. CASE ToPages([eic EXCEPT !.full = FALSE], w.start, w.end, w.end)
    <2>1. pc' = "pages" /\ eic' = [eic EXCEPT !.full = FALSE]
          /\ w' = [w EXCEPT !.cur = at, !.stop = w.end, !.va_end = w.end]
      BY <1>10 DEF ToPages
    <2>2. /\ eic'.out = eic.out /\ eic'.kpie = eic.kpie /\ eic'.full = FALSE
          /\ eic'.next_hva = eic.next_hva /\ eic'.pie_read_max = eic.pie_read_max
          /\ eic'.restart_gpa = eic.restart_gpa /\ eic'.gpa_to_hva = 0
      BY <1>2, <2>1 DEF ControlBlocks
    <2>3. w'.cur = at /\ w'.stop = w.end /\ w'.va_end = w.end /\ w'.end = w.end
      BY <1>2, <2>1 DEF Cursors
    <2>4. ~Kvm'
      BY <1>1 DEF Kvm
    <2>5. InSlot'
      BY <2>3, <2>4 DEF InSlot
    <2>6. w'.cur + eic'.gpa_to_hva = w.start
      BY <2>2, <2>3
    <2> QED
      BY <1>1, <1>6, <2>1, <2>2, <2>5, <2>6, TurnCovers
  <1> QED
    BY <1>7, <1>8, <1>9, <1>10

\* The search for a slot passes over nothing that is missing (ept_idle_find_gpa).
LEMMA KvmRangeCovers ==
  ASSUME Inv, Inv', CursorInv, CoverInv, Stay', KvmRange
  PROVE  CoverInv'
  <1>1. /\ pc = "range" /\ Kvm /\ UNCHANGED <<layout, userVars, pos, stable, skipped, cut>>
    BY DEF KvmRange, histVars
  <1>2. /\ eic \in ControlBlocks /\ w \in Cursors /\ w.start \in Int /\ layout \in Layouts
    BY <1>1 DEF Inv, TypeInv, Cursors
  <1>3. Stay
    BY <1>1 DEF CoverInv
  <1> PICK at \in Int : at = w.start
    BY <1>2
  <1> DEFINE noSlot == [Restart(TaskSize) EXCEPT !.gpa_to_hva = 0]
             low == LowestOf(Above(at))
  <1>4. ASSUME NEW a \in Missing, at <= a
        PROVE  \/ \E s \in Slot(at) : a \in Within(s)
               \/ Above(at) # {} /\ a >= low
    <2>1. a \in Nat
      BY <1>3 DEF Stay, Missing
    <2>2. PICK s \in layout.slots : a \in Within(s)
      BY <1>1, <1>3 DEF Stay, Missing
    <2>3. s.start \in Nat /\ s.end \in Nat
      BY <1>2, <2>2, SlotTypes
    <2>4. s.start <= a /\ a < s.end
      BY <2>1, <2>2, <2>3 DEF Within
    <2>5. CASE s.start <= at
      <3>1. s \in Slot(at)
        BY <1>4, <2>1, <2>3, <2>4, <2>5 DEF Slot, Within
      <3> QED
        BY <2>2, <3>1
    <2>6. CASE s.start > at
      <3>1. s.start \in Above(at)
        BY <2>6 DEF Above
      <3>2. Above(at) \subseteq Nat
        BY <1>2, SlotTypes DEF Above
      <3> PICK S : S = Above(at)
        OBVIOUS
      <3>3. S \subseteq Nat /\ S # {}
        BY <3>1, <3>2
      <3>4. LowestOf(S) \in S /\ \A y \in S : LowestOf(S) <= y
        BY <3>3, LowestIsOne, Zenon
      <3> PICK m : m = LowestOf(S)
        OBVIOUS
      <3>5. m \in Nat /\ m <= s.start /\ m = low
        BY <3>1, <3>3, <3>4
      <3> HIDE DEF low
      <3>6. a >= low
        BY <2>1, <2>3, <2>4, <3>5
      <3> QED
        BY <3>1, <3>6
    <2> QED
      BY <2>3, <2>5, <2>6
  <1>5. \/ Slot(at) = {} /\ Above(at) = {} /\ ToCopy(noSlot, w.end)
        \/ /\ Slot(at) = {} /\ Above(at) # {}
           /\ ToCopy([noSlot EXCEPT !.restart_gpa = low], low)
        \/ \E s \in Slot(at) :
             LET e == [eic EXCEPT !.gpa_to_hva = s.start - s.gpa, !.full = FALSE] IN
             IF layout.root
               THEN ToPages(e, w.start - e.gpa_to_hva, s.end - e.gpa_to_hva, s.end)
               ELSE ToCopy(e, s.end)
    BY Zenon DEF KvmRange
  <1>6. CASE Slot(at) = {} /\ Above(at) = {} /\ ToCopy(noSlot, w.end)
    <2>1. pc' = "copy" /\ eic' = noSlot
      BY <1>6 DEF ToCopy
    <2>2. /\ eic'.out = eic.out /\ eic'.kpie = eic.kpie
          /\ eic'.next_hva = eic.next_hva /\ eic'.pie_read_max = eic.pie_read_max
      BY <1>2, <2>1 DEF ControlBlocks, Restart
    <2>3. \A y : Free(Missing, at, y)
      BY <1>4, <1>6 DEF Free
    <2> QED
      BY <1>1, <2>1, <2>2, <2>3, TurnCovers
  <1>7. CASE /\ Slot(at) = {} /\ Above(at) # {}
             /\ ToCopy([noSlot EXCEPT !.restart_gpa = low], low)
    <2>1. Above(at) \subseteq Nat
      BY <1>2, SlotTypes DEF Above
    <2> PICK S : S = Above(at)
      OBVIOUS
    <2>2. LowestOf(S) \in S
      BY <1>7, <2>1, LowestIsOne, Zenon
    <2> PICK m \in Nat : m = low
      BY <2>1, <2>2
    <2>3. \A a \in Missing : at <= a => a >= m
      BY <1>4, <1>7
    <2>4. pc' = "copy" /\ eic' = [noSlot EXCEPT !.restart_gpa = low] /\ w' = [w EXCEPT !.va_end = low]
      BY <1>7, Zenon DEF ToCopy
    <2> HIDE DEF low
    <2>5. /\ eic'.out = eic.out /\ eic'.kpie = eic.kpie
          /\ eic'.next_hva = eic.next_hva /\ eic'.pie_read_max = eic.pie_read_max
          /\ eic'.restart_gpa = m /\ eic'.gpa_to_hva = 0
      BY <1>2, <2>4 DEF ControlBlocks, Restart
    <2>6. w'.va_end = m
      BY <1>2, <2>4 DEF Cursors
    <2>7. Free(Missing, at, m)
      <3>1. Missing \subseteq Nat
        BY <1>3, MissingType
      <3> QED
        BY <2>3, <3>1 DEF Free
    <2>8. m + 0 = m
      OBVIOUS
    <2> QED
      BY <1>1, <2>4, <2>5, <2>6, <2>7, <2>8, TurnCovers
  <1>8. ASSUME NEW s \in Slot(at),
             LET e == [eic EXCEPT !.gpa_to_hva = s.start - s.gpa, !.full = FALSE] IN
             IF layout.root
               THEN ToPages(e, w.start - e.gpa_to_hva, s.end - e.gpa_to_hva, s.end)
               ELSE ToCopy(e, s.end)
        PROVE  CoverInv'
    <2>1. s \in layout.slots /\ at \in Within(s)
      BY DEF Slot
    <2>2. s.start \in Nat /\ s.end \in Nat /\ s.gpa \in Nat
      BY <1>2, <2>1, SlotTypes
    <2> PICK g \in Int : g = s.start - s.gpa
      BY <2>2
    <2>3. PICK e : e = [eic EXCEPT !.gpa_to_hva = g, !.full = FALSE]
      OBVIOUS
    <2>4. /\ e.out = eic.out /\ e.kpie = eic.kpie /\ e.next_hva = eic.next_hva
          /\ e.pie_read_max = eic.pie_read_max /\ e.gpa_to_hva = g /\ e.full = FALSE
      BY <1>2, <2>3 DEF ControlBlocks
    <2>5. /\ layout.root => ToPages(e, at - g, s.end - g, s.end)
          /\ ~layout.root => ToCopy(e, s.end)
      BY <1>8, <2>3, <2>4
    <2>6. CASE layout.root
      <3>1. pc' = "pages" /\ eic' = e
            /\ w' = [w EXCEPT !.cur = at - g, !.stop = s.end - g, !.va_end = s.end]
        BY <2>5, <2>6, Zenon DEF ToPages
      <3>2. w'.cur = at - g /\ w'.stop = s.end - g /\ w'.va_end = s.end
        BY <1>2, <3>1 DEF Cursors
      <3>3. w'.cur + eic'.gpa_to_hva = at
        BY <2>4, <3>1, <3>2
      <3>4. Kvm' /\ layout' = layout
        BY <1>1 DEF Kvm
      <3>5. s.start <= at
        BY <2>1, <2>2 DEF Within
      <3>6. InSlot'
        BY <2>1, <2>4, <3>1, <3>2, <3>3, <3>4, <3>5 DEF InSlot
      <3> QED
        BY <1>1, <2>4, <3>1, <3>3, <3>6, TurnCovers
    <2>7. CASE ~layout.root
      <3>1. pc' = "copy" /\ eic' = e
        BY <2>5, <2>7, Zenon DEF ToCopy
      <3>2. Missing = {}
        BY <1>1, <1>3, <2>7 DEF Stay, Missing
      <3>3. \A y : Free(Missing, at, y)
        BY <3>2 DEF Free
      <3> QED
        BY <1>1, <2>4, <3>1, <3>3, TurnCovers
    <2> QED
      BY <2>6, <2>7
  <1> QED
    BY <1>5, <1>6, <1>7, <1>8

\* What reaches the reader passes over no more than the kernel has (ept_idle_copy_user).
LEMMA CopiedGapless ==
  ASSUME NEW items \in Seq(Items), NEW s \in Nat, NEW U, NEW at, Gapless(U, items, 0, at),
         parse_idlepages(Append(items, SetHva(s)), 0, 2 * TaskSize).va = s,
         Free(U, IF items = <<>> THEN at ELSE parse_idlepages(items, 0, 2 * TaskSize).va, s)
  PROVE  Gapless(U, Append(items, SetHva(s)), 0, at)
  <1>1. SetHva(s) \in Items /\ SetHva(s).type = "SET_HVA"
    BY DEF SetHva, Items
  <1>2. Moves("SET_HVA")
    BY DEF Moves
  <1> QED
    BY <1>1, <1>2, GaplessAppend, Zenon

\* A report that ends with an address is not empty.
LEMMA AppendedMore ==
  ASSUME NEW items \in Seq(Items), NEW item
  PROVE  Append(items, item) # <<>>
  <1>1. Len(Append(items, item)) = Len(items) + 1 /\ Len(items) \in Nat /\ Len(<<>>) = 0
    OBVIOUS
  <1> QED
    BY <1>1

\* A copy passes over nothing that is missing: not in the report, nor where the next
\* turn starts.
LEMMA CopyCovers ==
  ASSUME Inv, Inv', CursorInv, OrderInv, CoverInv, Stay', Copy
  PROVE  CoverInv'
  <1> DEFINE start == eic.restart_gpa + eic.gpa_to_hva
             r == ept_idle_copy_user(eic, start, w.va_end)
             over == r.stop \/ start >= w.end
             items == eic.out \o eic.kpie
  <1>1. /\ pc = "copy" /\ eic' = r.eic /\ w' = [w EXCEPT !.start = start]
        /\ pc' = (IF over THEN "parse" ELSE "range")
        /\ pos' = (IF over /\ r.eic.bytes_copied > 0 THEN r.eic.next_hva ELSE pos)
        /\ UNCHANGED <<userVars, layout, histVars>>
    BY Zenon DEF Copy
  <1>2. pc \in InTheKernel /\ pc \in AtVma
    BY <1>1 DEF InTheKernel, AtVma
  <1>3. /\ eic.gpa_to_hva \in Int /\ eic.restart_gpa \in Nat /\ Fit(eic)
        /\ w \in Cursors /\ w.va_end \in Nat /\ w.end \in Nat /\ w.start \in Int
    BY <1>2, InKernel
  <1>4. start \in Int /\ Agrees(eic)
    BY <1>2, <1>3 DEF CursorInv, Together
  <1>5. /\ UserCover /\ KernelCover /\ Missing \subseteq Nat
        /\ items \in Seq(Items) /\ eic.next_hva \in Nat /\ va \in Nat /\ Here \in Nat
    BY <1>2, InCover
  <1>6. /\ \/ r.eic.out = items /\ r.eic.next_hva = eic.next_hva
           \/ \E s \in Nat : /\ s >= w.va_end /\ s > eic.next_hva /\ r.eic.next_hva = s
                             /\ r.eic.out = Append(items, SetHva(s))
                             /\ (s = start \/ (eic.pie_read = 0 /\ s = w.va_end))
        /\ ~r.stop => /\ r.eic.kpie = <<>> /\ eic.pie_read # 0
                      /\ r.eic.restart_gpa = eic.restart_gpa /\ ~NoRoom(r.eic)
    <2>1. PICK from \in Int, at \in Nat : from = start /\ at = w.va_end
      BY <1>3, <1>4
    <2>2. LET q == ept_idle_copy_user(eic, from, at) IN
         /\ \/ q.eic.out = eic.out \o eic.kpie /\ q.eic.next_hva = eic.next_hva
            \/ \E s \in Nat : /\ s >= at /\ s > eic.next_hva /\ q.eic.next_hva = s
                              /\ q.eic.out = Append(eic.out \o eic.kpie, SetHva(s))
                              /\ (s = from \/ (eic.pie_read = 0 /\ s = at))
         /\ ~q.stop => /\ q.eic.kpie = <<>> /\ eic.pie_read # 0
                       /\ q.eic.restart_gpa = eic.restart_gpa /\ ~NoRoom(q.eic)
      BY <1>3, CopyItems
    <2> QED
      BY <2>1, <2>2, Zenon
  <1>7. /\ parse_idlepages(r.eic.out, 0, 2 * TaskSize).va = r.eic.next_hva
        /\ r.stop \in BOOLEAN /\ r.eic.gpa_to_hva = eic.gpa_to_hva /\ r.eic.bytes_copied = BytesOf(r.eic.out)
    <2>1. PICK from \in Int, at \in Nat : from = start /\ at = w.va_end
      BY <1>3, <1>4
    <2>2. Fit(eic) /\ Agrees(eic)
      BY <1>3, <1>4
    <2>3. LET r1 == ept_idle_copy_user(eic, from, at)
              p1 == parse_idlepages(r1.eic.out, 0, 2 * TaskSize)
             IN  /\ p1.va = r1.eic.next_hva /\ p1.refs = Report(eic).refs /\ p1.late = {}
                 /\ ~r1.stop => Agrees(r1.eic) /\ r1.eic.pie_read = 0 /\ Report(r1.eic).refs = Report(eic).refs
      BY <2>2, CopyReports, SMTT(30)
    <2>4. /\ r.stop \in BOOLEAN /\ r.eic.gpa_to_hva = eic.gpa_to_hva /\ r.eic.bytes_copied = BytesOf(r.eic.out)
      BY <1>3, <1>4, CopyFits, Zenon
    <2> QED
      BY <2>1, <2>3, <2>4, Zenon
  <1>8. parse_idlepages(items, 0, 2 * TaskSize).va = eic.next_hva
    BY <1>4, Zenon DEF Agrees, Report
  <1>9. Here = IF items = <<>> THEN va ELSE eic.next_hva
    BY Zenon DEF Here
  <1> HIDE DEF r, items
  <1>10. w'.start = start /\ pc' \in {"parse", "range"} /\ (pc' = "range" => ~r.stop)
    BY <1>1, <1>3 DEF Cursors
  <1>11. UNCHANGED <<va, end, vmai, io_error, next_va, parsed, refs, stable, skipped, cut, layout>>
    BY <1>1 DEF userVars, histVars
  <1>12. Missing' = Missing /\ Done' = Done
    BY <1>11 DEF Missing, Done, CountedPages
  <1>13. UserCover'
    <2>1. end = Least(layout.vmas[vmai].end, layout.va_end) /\ VmasCovered(vmai - 1)
      BY <1>2, <1>5 DEF UserCover
    <2>2. VmasCovered(vmai - 1)'
      BY <1>11, <1>12, <2>1 DEF VmasCovered
    <2>3. pc' \notin {"start", "vma", "loop", "done"}
      BY <1>10
    <2> QED
      BY <1>11, <2>1, <2>2, <2>3 DEF UserCover
  <1>14. /\ Covered(Missing, va) /\ Free(Missing, va, pos) /\ Gapless(Missing, items, 0, va)
         /\ Free(Missing, Here, start) /\ (eic.pie_read = 0 => Free(Missing, Here, w.va_end))
    BY <1>1, <1>5 DEF KernelCover, items
  <1>15. Covered(Missing, va)'
    BY <1>11, <1>12, <1>14 DEF Covered
  <1> HIDE DEF start
  <1>16. Gapless(Missing, r.eic.out, 0, va)
    <2>1. CASE r.eic.out = items
      BY <1>14, <2>1
    <2>2. ASSUME NEW s \in Nat, r.eic.next_hva = s, r.eic.out = Append(items, SetHva(s)),
                 s = start \/ (eic.pie_read = 0 /\ s = w.va_end)
          PROVE  Gapless(Missing, Append(items, SetHva(s)), 0, va)
      <3>1. Free(Missing, Here, s)
        BY <1>14, <2>2, Zenon
      <3>2. parse_idlepages(Append(items, SetHva(s)), 0, 2 * TaskSize).va = s
        BY <1>7, <2>2, Zenon
      <3>3. Free(Missing, IF items = <<>> THEN va ELSE parse_idlepages(items, 0, 2 * TaskSize).va, s)
        BY <1>8, <1>9, <3>1, Zenon
      <3> QED
        BY <1>5, <1>14, <3>2, <3>3, CopiedGapless, Zenon DEF items
    <2> QED
      BY <1>6, <2>1, <2>2, Zenon
  <1>17. CASE pc' = "range"
    <2>1. ~r.stop /\ eic'.kpie = <<>> /\ eic.pie_read # 0 /\ eic'.restart_gpa = eic.restart_gpa /\ ~NoRoom(eic')
      BY <1>1, <1>6, <1>10, <1>17, Zenon
    <2>2. eic'.out \o eic'.kpie = eic'.out
      <3>1. eic'.out \in Seq(Items)
        BY DEF Inv, TypeInv, ControlBlocks
      <3> QED
        BY <2>1, <3>1
    <2>3. Free(Missing, Here', start)
      <3>1. Here' = IF eic'.out = <<>> THEN va ELSE eic'.next_hva
        BY <1>11, <2>2, Zenon DEF Here
      <3>2. CASE r.eic.out = items /\ r.eic.next_hva = eic.next_hva
        <4>1. Here' = Here
          BY <1>1, <1>9, <3>1, <3>2, Zenon
        <4> QED
          BY <1>14, <4>1, Zenon
      <3>3. ASSUME NEW s \in Nat, r.eic.next_hva = s, r.eic.out = Append(items, SetHva(s)), s = start
            PROVE  Free(Missing, Here', start)
        <4>1. Here' = s
          BY <1>1, <1>5, <3>1, <3>3, AppendedMore, Zenon DEF items
        <4>2. \A x \in Nat, a \in Nat : ~(x <= a /\ a < x)
          OBVIOUS
        <4>3. Free(Missing, s, s)
          BY <1>5, <4>2 DEF Free
        <4> QED
          BY <3>3, <4>1, <4>3, Zenon
      <3> QED
        BY <1>6, <2>1, <3>2, <3>3, Zenon
    <2>4. ~Kvm' => eic'.restart_gpa <= w'.start
      <3>1. ~Kvm => eic.gpa_to_hva = 0
        BY DEF Inv, TypeInv
      <3> QED
        BY <1>3, <1>10, <1>11, <2>1, <3>1 DEF Kvm, start
    <2>5. pos' = pos
      <3>1. ~over
        BY <1>1, <1>17
      <3> QED
        BY <1>1, <3>1
    <2>6. Gapless(Missing', eic'.out \o eic'.kpie, 0, va')
      BY <1>1, <1>11, <1>12, <1>16, <2>2
    <2>7. Free(Missing', Here', w'.start) /\ Free(Missing', va', pos')
      BY <1>10, <1>11, <1>12, <1>14, <2>3, <2>5
    <2>8. KernelCover'
      BY <1>15, <1>17, <2>1, <2>4, <2>6, <2>7 DEF KernelCover
    <2> QED
      BY <1>13, <1>17, <2>8 DEF CoverInv
  <1>18. CASE pc' = "parse"
    <2>1. parsed' = 0
      <3>1. parsed = 0
        BY <1>2 DEF OrderInv, KernelOrder
      <3> QED
        BY <1>11, <3>1
    <2>2. Gapless(Missing', eic'.out, parsed', va')
      BY <1>1, <1>11, <1>12, <1>16, <2>1
    <2>3. ASSUME parsed' = Len(eic'.out) PROVE Free(Missing', va', pos')
      <3>1. eic'.out \in Seq(Items)
        BY DEF Inv, TypeInv, ControlBlocks
      <3>2. eic'.out = <<>>
        BY <2>1, <2>3, <3>1
      <3>3. r.eic.bytes_copied = 0
        BY <1>1, <1>7, <3>2, NoBytes
      <3>4. pos' = pos
        BY <1>1, <3>3
      <3> QED
        BY <1>11, <1>12, <1>14, <3>4
    <2>4. ParseCover'
      BY <1>15, <2>2, <2>3 DEF ParseCover
    <2> QED
      BY <1>13, <1>18, <2>4 DEF CoverInv, InTheKernel
  <1> QED
    BY <1>10, <1>17, <1>18

\* A report without items passes over nothing.
LEMMA GaplessNothing ==
  ASSUME NEW U, NEW at
  PROVE  Gapless(U, <<>>, 0, at)
  <1>1. Len(<<>>) = 0 /\ \A k \in 0 .. 0 - 1 : FALSE
    OBVIOUS
  <1> QED
    BY <1>1 DEF Gapless

\* A read starts where nothing is missing in front of it.
LEMMA ReadStartCovers ==
  ASSUME Inv, CoverInv, Stay', ReadStart
  PROVE  CoverInv'
  <1> DEFINE size == ReadSize
             e0 == setup_ept_idle_ctrl(size)
             e1 == init_ept_idle_ctrl_buffer(e0)
  <1>1. /\ pc = "loop" /\ va < end /\ UNCHANGED <<layout, vmai, va, end, next_va, io_error, refs, histVars>>
        /\ eic' = e1 /\ pc' = (IF NoRoom(e1) THEN "parse" ELSE "range")
        /\ pos' = Most(va, pos) /\ parsed' = 0
        /\ w' = [w EXCEPT !.start = pos', !.end = pos' + size * PagesPerByte]
    BY Zenon DEF ReadStart
  <1>2. /\ size \in Nat /\ va \in Nat /\ end \in Nat /\ pos \in Nat /\ w \in Cursors
    BY <1>1, ReadSizes DEF Inv, TypeInv
  <1> HIDE DEF size
  <1>3. <<>> \in Seq(Items) /\ BytesOf(<<>>) = 0
    BY NoBytes
  <1>4. /\ e0 \in ControlBlocks /\ e0.bytes_copied = 0 /\ e0.out = <<>> /\ e0.buf_size = size
        /\ e0.restart_gpa = 0
    BY <1>2, <1>3 DEF setup_ept_idle_ctrl, ControlBlocks
  <1> HIDE DEF e0
  <1>5. e0.bytes_copied = BytesOf(e0.out) /\ e0.bytes_copied <= e0.buf_size
    BY <1>2, <1>3, <1>4
  <1>6. e1.kpie = <<>> /\ e1.out = e0.out /\ e1.restart_gpa = e0.restart_gpa
    BY <1>4, <1>5, BufferInit, Zenon
  <1> HIDE DEF e1
  <1>7. eic'.out = <<>> /\ eic'.out \o eic'.kpie = <<>> /\ eic'.restart_gpa = 0
    BY <1>1, <1>4, <1>6
  <1>8. Missing' = Missing /\ Done' = Done /\ Missing \subseteq Nat /\ UserCover
    BY <1>1, MissingType DEF Missing, Done, CountedPages, histVars, CoverInv
  <1>9. Covered(Missing, va) /\ Free(Missing, va, pos)
    BY <1>1, <1>8 DEF UserCover
  <1>10. Covered(Missing, va)'
    BY <1>1, <1>8, <1>9 DEF Covered
  <1>11. Free(Missing', va', pos') /\ pos' \in Nat
    <2>1. Free(Missing, va, va)
      BY <1>2, <1>8 DEF Free
    <2>2. pos' = va \/ pos' = pos
      BY <1>1 DEF Most
    <2> QED
      BY <1>1, <1>2, <1>8, <1>9, <2>1, <2>2
  <1>12. pc' \in {"parse", "range"} /\ (pc' = "range" => ~NoRoom(eic'))
    BY <1>1
  <1>13. UserCover'
    <2>1. end = Least(layout.vmas[vmai].end, layout.va_end) /\ VmasCovered(vmai - 1)
      BY <1>1, <1>8 DEF UserCover, AtVma
    <2>2. VmasCovered(vmai - 1)'
      BY <1>1, <1>8, <2>1 DEF VmasCovered
    <2> QED
      BY <1>1, <1>12, <2>1, <2>2 DEF UserCover
  <1>14. CASE pc' = "range"
    <2>1. Here' = va'
      BY <1>7 DEF Here
    <2>2. w'.start = pos'
      BY <1>1, <1>2 DEF Cursors
    <2>3. eic'.restart_gpa <= w'.start
      BY <1>7, <1>11, <2>2
    <2>4. Gapless(Missing', eic'.out \o eic'.kpie, 0, va')
      BY <1>7, GaplessNothing
    <2>5. KernelCover'
      BY <1>10, <1>11, <1>12, <1>14, <2>1, <2>2, <2>3, <2>4 DEF KernelCover
    <2> QED
      BY <1>13, <1>14, <2>5 DEF CoverInv
  <1>15. CASE pc' = "parse"
    <2>1. Gapless(Missing', eic'.out, parsed', va')
      BY <1>1, <1>7, GaplessNothing
    <2>2. ParseCover'
      BY <1>10, <1>11, <2>1 DEF ParseCover
    <2> QED
      BY <1>13, <1>15, <2>2 DEF CoverInv, InTheKernel
  <1> QED
    BY <1>12, <1>14, <1>15

\* The page of a run that an offset is in, and its number.
LEMMA PageOfRun ==
  ASSUME NEW s \in Nat \ {0}, NEW n \in Nat, NEW x \in Nat, NEW y \in Nat, x < s * n, x < y
  PROVE  /\ (y + s - 1) \div s \in Nat
         /\ \E i \in 1 .. Least(n, (y + s - 1) \div s) :
              (i - 1) * s \in Nat /\ (i - 1) * s <= x /\ x < (i - 1) * s + s
  <1> PICK q \in Nat : q = x \div s
    BY Division
  <1>1. s * q \in Nat /\ s * q <= x /\ x < s * q + s
    <2>1. x = s * q + (x % s) /\ x % s \in 0 .. s - 1
      BY Division
    <2>2. PICK t \in Nat : t = s * q
      OBVIOUS
    <2> QED
      BY <2>1, <2>2
  <1>2. q < n
    <2> SUFFICES ASSUME q >= n PROVE FALSE
      OBVIOUS
    <2>1. PICK d \in Nat : q = n + d
      <3>1. q - n \in Nat /\ q = n + (q - n)
        OBVIOUS
      <3> QED
        BY <3>1
    <2>2. s * (n + d) = s * n + s * d /\ s * n \in Nat /\ s * d \in Nat
      OBVIOUS
    <2> QED
      BY <1>1, <2>1, <2>2
  <1>3. PICK z \in Nat : z = y + s - 1
    OBVIOUS
  <1>4. (q + 1) * s = s * q + s
    OBVIOUS
  <1>5. z >= (q + 1) * s
    BY <1>1, <1>3, <1>4
  <1>6. q + 1 \in Nat /\ q + 1 - 1 = q /\ q * s = s * q
    OBVIOUS
  <1>7. z \div s \in Nat /\ z \div s >= q + 1
    BY <1>5, <1>6, AtLeastDivided
  <1>8. q + 1 \in 1 .. Least(n, z \div s)
    BY <1>2, <1>7 DEF Least
  <1>9. (q + 1 - 1) * s \in Nat /\ (q + 1 - 1) * s <= x /\ x < (q + 1 - 1) * s + s
    BY <1>1, <1>6
  <1> QED
    BY <1>3, <1>7, <1>8, <1>9

\* A run that is aligned counts every page of it in front of the end (inc_page_refs).
LEMMA RunCountsAll ==
  ASSUME NEW type \in PageTypes, NEW n \in Nat, NEW at \in Nat, NEW to \in Nat,
         at % pagetype_size(type) = 0,
         NEW a \in Nat, at <= a, a < to, a < at + pagetype_size(type) * n
  PROVE  \E i \in DOMAIN inc_page_refs(type, n, at, to) : a \in PagesOf(inc_page_refs(type, n, at, to)[i])
  <1> DEFINE size == pagetype_size(type)
             room == (to - at + size - 1) \div size
             page(i) == [type |-> type, va |-> at + (i - 1) * size]
             run == [i \in 1 .. Least(n, room) |-> page(i)]
  <1>1. size \in Nat \ {0}
    BY PageSizes
  <1>2. inc_page_refs(type, n, at, to) = run
    <2>1. inc_page_refs(type, n, at, to) = IF at % size # 0 THEN <<>> ELSE run
      BY Zenon DEF inc_page_refs
    <2> QED
      BY <2>1
  <1>3. PICK s \in Nat \ {0}, x \in Nat, y \in Nat : s = size /\ x = a - at /\ y = to - at
    BY <1>1
  <1>4. x < s * n /\ x < y
    <2>1. s * n \in Nat
      OBVIOUS
    <2> QED
      BY <1>3, <2>1
  <1>5. PICK i \in 1 .. Least(n, (y + s - 1) \div s) :
          (i - 1) * s \in Nat /\ (i - 1) * s <= x /\ x < (i - 1) * s + s
    BY <1>4, PageOfRun
  <1>6. i \in DOMAIN run /\ run[i] = page(i)
    BY <1>3, <1>5
  <1>7. a \in PagesOf(page(i))
    <2> PICK d \in Nat : d = (i - 1) * s
      BY <1>5
    <2>1. page(i) = [type |-> type, va |-> at + d]
      BY <1>3
    <2>2. PagesOf(page(i)) = at + d .. at + d + s - 1
      BY <1>3, <2>1 DEF PagesOf
    <2> HIDE DEF page
    <2>3. a \in at + d .. at + d + s - 1
      BY <1>3, <1>5
    <2> QED
      BY <2>2, <2>3
  <1> HIDE DEF run
  <1> QED
    BY <1>2, <1>6, <1>7

\* The pages of a list.
PagesIn(list) == UNION {PagesOf(list[i]) : i \in DOMAIN list}

\* What is counted stays counted, and the pages of a list that joins are.
LEMMA CountedMore ==
  ASSUME NEW mine \in Seq(Counted), NEW new \in Seq(Counted)
  PROVE  PagesIn(mine) \subseteq PagesIn(mine \o new) /\ PagesIn(new) \subseteq PagesIn(mine \o new)
  <1>1. PICK more : more = mine \o new
    OBVIOUS
  <1>2. /\ more \in Seq(Counted) /\ Len(more) = Len(mine) + Len(new)
        /\ \A i \in 1 .. Len(mine) : more[i] = mine[i]
        /\ \A i \in 1 .. Len(new) : more[Len(mine) + i] = new[i]
    BY <1>1, Parts
  <1>3. DOMAIN mine = 1 .. Len(mine) /\ DOMAIN new = 1 .. Len(new) /\ DOMAIN more = 1 .. Len(more)
        /\ Len(mine) \in Nat /\ Len(new) \in Nat
    BY <1>2
  <1>4. \A i \in DOMAIN mine : i \in DOMAIN more /\ more[i] = mine[i]
    BY <1>2, <1>3
  <1>5. \A i \in DOMAIN new : \E j \in DOMAIN more : more[j] = new[i]
    <2> SUFFICES ASSUME NEW i \in DOMAIN new PROVE \E j \in DOMAIN more : more[j] = new[i]
      OBVIOUS
    <2>1. Len(mine) + i \in DOMAIN more
      BY <1>2, <1>3
    <2> QED
      BY <1>2, <1>3, <2>1
  <1>6. PagesIn(mine) \subseteq PagesIn(more)
    BY <1>4 DEF PagesIn
  <1>7. PagesIn(new) \subseteq PagesIn(more)
    BY <1>5 DEF PagesIn
  <1> QED
    BY <1>1, <1>6, <1>7

\* An item is parsed: what is passed over is done.
LEMMA ParsedCovers ==
  ASSUME Inv, CoverInv, Stay', pc = "parse",
         UNCHANGED <<pc, layout, vmai, end, next_va, io_error, pos, eic, stable, skipped>>,
         Done \subseteq Done', parsed' \in Nat, va' \in Nat, parsed < parsed',
         \A a \in Missing : va <= a /\ a < va' => a \in Done',
         parsed' = Len(eic.out) /\ va' < end => Free(Missing, va', pos)
  PROVE  CoverInv'
  <1>1. UserCover /\ ParseCover /\ Missing \subseteq Nat /\ va \in Nat /\ parsed \in Nat /\ eic.out \in Seq(Items)
    BY MissingType DEF CoverInv, Inv, TypeInv, ControlBlocks
  <1>2. Missing' = Missing
    BY DEF Missing
  <1>3. (\A to : Covered(Missing, to) => Covered(Missing, to)') /\ (\A n : VmasCovered(n) => VmasCovered(n)')
    BY <1>2, FewerMissing, Zenon
  <1>4. UserCover'
    <2>1. end = Least(layout.vmas[vmai].end, layout.va_end) /\ VmasCovered(vmai - 1)
      BY <1>1 DEF UserCover, AtVma
    <2>2. VmasCovered(vmai - 1)'
      <3>1. PICK n : n = vmai - 1
        OBVIOUS
      <3>2. \A a \in Missing : (\E i \in 1 .. n : a \in Within(layout.vmas[i])) => a \in Done
        BY <2>1, <3>1 DEF VmasCovered
      <3>3. \A a \in Missing' : (\E i \in 1 .. n : a \in Within(layout'.vmas[i])) => a \in Done'
        BY <1>2, <3>2
      <3> QED
        BY <3>1, <3>3 DEF VmasCovered
    <2> QED
      BY <2>1, <2>2 DEF UserCover
  <1>5. Covered(Missing, va)'
    <2>1. \A a \in Missing : a < va => a \in Done
      BY <1>1 DEF ParseCover, Covered
    <2>2. \A a \in Missing : a < va' => a \in Done'
      BY <1>1, <2>1
    <2> QED
      BY <1>2, <2>2 DEF Covered
  <1>6. Gapless(Missing', eic'.out, parsed', va')
    <2> PICK items \in Seq(Items), i \in Nat, j \in Nat : items = eic.out /\ i = parsed /\ j = parsed'
      BY <1>1
    <2> PICK U : U = Missing
      OBVIOUS
    <2>1. Gapless(U, items, i, va)
      BY <1>1 DEF ParseCover
    <2> DEFINE Holds(k, at) == LET item == items[k + 1] IN
                 IF item.type \in {"SET_HVA"} \cup HoleTypes
                   THEN Free(U, IF k = 0 THEN at ELSE Upto(items, k).va, Upto(items, k + 1).va)
                   ELSE k # 0 /\ Upto(items, k).va % pagetype_size(item.type) = 0
    <2>2. \A k \in i .. Len(items) - 1 : Holds(k, va)
      BY <2>1, Zenon DEF Gapless
    <2>3. ASSUME NEW k \in j .. Len(items) - 1 PROVE Holds(k, va')
      <3>1. k \in i .. Len(items) - 1 /\ k # 0
        OBVIOUS
      <3>2. Holds(k, va)
        BY <2>2, <3>1
      <3> QED
        BY <3>1, <3>2, Zenon
    <2>4. Gapless(U, items, j, va')
      BY <2>3, Zenon DEF Gapless
    <2> QED
      BY <1>2, <2>4
  <1>7. ParseCover'
    BY <1>2, <1>5, <1>6 DEF ParseCover
  <1> QED
    BY <1>4, <1>7 DEF CoverInv, InTheKernel

\* The item that is parsed next, and where the parser of the report stands.
LEMMA NextItem ==
  ASSUME Inv, CursorInv, OrderInv, CoverInv, pc = "parse", parsed < Len(eic.out)
  PROVE  LET x == eic.out[parsed + 1]
             u == Upto(eic.out, parsed)
             v == Upto(eic.out, parsed + 1) IN
         /\ x \in Items /\ u \in Parsers /\ u.late = {} /\ v \in Parsers /\ v = ParseItem(u, x, 2 * TaskSize)
         /\ parsed # 0 => va = u.va
         /\ Moves(x.type) => Free(Missing, va, v.va)
         /\ x.type # "SET_HVA" => parsed # 0
         /\ ~Moves(x.type) => va % pagetype_size(x.type) = 0
         /\ parsed + 1 = Len(eic.out) => v.va = pos
  <1>1. /\ ParseOrder /\ eic.out \in Seq(Items) /\ parsed \in Nat
        /\ Upto(eic.out, Len(eic.out)) = Decoded
        /\ \A k \in 0 .. Len(eic.out) : Upto(eic.out, k) \in Parsers
    BY ParseTypes
  <1>2. PICK items \in Seq(Items), k \in Nat : items = eic.out /\ k = parsed
    BY <1>1
  <1>3. /\ k \in 0 .. Len(items) /\ k + 1 \in 0 .. Len(items) /\ k < Len(items) /\ Len(items) \in 0 .. Len(items)
        /\ k \in k .. Len(items) - 1
    BY <1>2
  <1>4. PICK x \in Items, u \in Parsers, v \in Parsers :
          x = items[k + 1] /\ u = Upto(items, k) /\ v = Upto(items, k + 1)
    <2>1. items[k + 1] \in Items
      BY <1>3
    <2> QED
      BY <1>1, <1>2, <1>3, <2>1
  <1>5. v = ParseItem(u, x, 2 * TaskSize)
    BY <1>3, <1>4, UptoNext
  <1>6. u.late = {}
    <2>1. Upto(items, Len(items)).late = {}
      BY <1>1, <1>2 DEF ParseOrder
    <2> QED
      BY <1>3, <1>4, <2>1, UptoBegins
  <1>7. k # 0 => va = u.va
    BY <1>1, <1>2, <1>3, <1>4 DEF ParseOrder
  <1>8. IF Moves(x.type) THEN Free(Missing, IF k = 0 THEN va ELSE u.va, v.va)
        ELSE k # 0 /\ u.va % pagetype_size(x.type) = 0
    <2>1. Gapless(Missing, items, k, va)
      BY <1>2 DEF CoverInv, ParseCover
    <2> DEFINE Holds(j) == LET item == items[j + 1] IN
                 IF item.type \in {"SET_HVA"} \cup HoleTypes
                   THEN Free(Missing, IF j = 0 THEN va ELSE Upto(items, j).va, Upto(items, j + 1).va)
                   ELSE j # 0 /\ Upto(items, j).va % pagetype_size(item.type) = 0
    <2>2. \A j \in k .. Len(items) - 1 : Holds(j)
      BY <2>1, Zenon DEF Gapless
    <2>3. Holds(k)
      BY <1>3, <2>2
    <2> QED
      BY <1>4, <2>3, Zenon DEF Moves
  <1>9. Moves(x.type) => Free(Missing, va, v.va)
    BY <1>7, <1>8
  <1>10. x.type # "SET_HVA" => k # 0
    <2>1. RunsSettle(items, k, refs)
      BY <1>1, <1>2 DEF ParseOrder
    <2> QED
      BY <1>3, <1>4, <2>1 DEF RunsSettle
  <1>11. ~Moves(x.type) => va % pagetype_size(x.type) = 0
    BY <1>7, <1>8
  <1>12. k + 1 = Len(items) => v.va = pos
    <2>1. items # <<>>
      BY <1>3
    <2>2. Decoded.va = pos
      BY <1>2, <2>1 DEF CursorInv, Together
    <2> QED
      BY <1>1, <1>2, <1>4, <2>2
  <1> QED
    BY <1>2, <1>4, <1>5, <1>6, <1>7, <1>9, <1>10, <1>11, <1>12

\* The parser passes over nothing that is missing, and counts the pages of a run up to
\* the end of the VMA (parse_idlepages, inc_page_refs).
LEMMA ParseCovers ==
  ASSUME Inv, CursorInv, OrderInv, CoverInv, Stay', Parse
  PROVE  CoverInv'
  <1> DEFINE p0 == [va |-> va, refs |-> refs, late |-> {}]
             x0 == eic.out[parsed + 1]
             p == ParseItem(p0, x0, end)
  <1>1. /\ pc = "parse" /\ parsed < Len(eic.out) /\ va' = p.va /\ refs' = p.refs
        /\ parsed' = (IF p.late = {} THEN parsed + 1 ELSE Len(eic.out))
        /\ cut' = (IF x0.type = "SET_HVA" THEN cut ELSE cut \cup (Most(va, end) .. p.va - 1))
        /\ UNCHANGED <<pc, layout, vmai, end, next_va, io_error, pos, eic, stable, skipped>>
    BY Zenon DEF Parse
  <1>2. /\ refs \in Seq(Counted) /\ eic.out \in Seq(Items)
        /\ va \in Nat /\ end \in Nat /\ pos \in Nat /\ parsed \in Nat /\ end <= TaskSize
    BY <1>1, ParseTypes
  <1>3. PICK x \in Items, u \in Parsers, v \in Parsers :
         /\ x = x0 /\ u = Upto(eic.out, parsed) /\ v = Upto(eic.out, parsed + 1)
         /\ u.late = {} /\ v = ParseItem(u, x, 2 * TaskSize)
         /\ parsed # 0 => va = u.va
         /\ Moves(x.type) => Free(Missing, va, v.va)
         /\ x.type # "SET_HVA" => parsed # 0
         /\ ~Moves(x.type) => va % pagetype_size(x.type) = 0
         /\ parsed + 1 = Len(eic.out) => v.va = pos
    BY <1>1, NextItem, Zenon
  <1>4. p0 \in Parsers /\ p0.va = va /\ p0.refs = refs /\ p0.late = {}
    BY <1>2 DEF Parsers
  <1>5. p = ParseItem(p0, x, end)
    BY <1>3
  <1> HIDE DEF p0, p, x0
  <1>6. 2 * TaskSize \in Nat /\ end <= 2 * TaskSize
    BY <1>2, WalkAssumption
  <1>7. Missing \subseteq Nat
    BY MissingType DEF CoverInv
  <1>8. CASE \E at \in Nat : x = SetHva(at)
    <2>1. PICK at \in Nat : x = SetHva(at)
      BY <1>8
    <2>2. x.type = "SET_HVA" /\ Moves(x.type)
      BY <2>1 DEF SetHva, Moves
    <2>3. p.va = at /\ p.refs = refs /\ p.late = {}
      <3>1. PICK q0 \in Parsers, to \in Nat : q0 = p0 /\ to = end
        BY <1>2, <1>4
      <3>2. LET q == ParseItem(q0, SetHva(at), to) IN q.va = at /\ q.refs = q0.refs /\ q.late = {}
        BY <1>4, <3>1, ParserMoves
      <3> QED
        BY <1>4, <1>5, <2>1, <3>1, <3>2
    <2>4. v.va = at
      BY <1>3, <1>6, <2>1, ParserMoves
    <2>5. Free(Missing, va, at)
      BY <1>3, <2>2, <2>4
    <2>6. va' = at /\ refs' = refs /\ parsed' = parsed + 1 /\ cut' = cut
      BY <1>1, <1>3, <2>2, <2>3
    <2>7. Done' = Done
      BY <2>6 DEF Done, CountedPages
    <2>8. \A a \in Missing : va <= a /\ a < va' => a \in Done'
      BY <2>5, <2>6 DEF Free
    <2>9. parsed' = Len(eic.out) => Free(Missing, va', pos)
      <3>1. parsed' = Len(eic.out) => va' = pos
        BY <1>3, <2>4, <2>6
      <3>2. Free(Missing, pos, pos)
        BY <1>2, <1>7 DEF Free
      <3> QED
        BY <3>1, <3>2
    <2>10. parsed' \in Nat /\ parsed < parsed' /\ va' \in Nat
      BY <1>2, <2>6
    <2> QED
      BY <1>1, <2>7, <2>8, <2>9, <2>10, ParsedCovers
  <1>9. CASE \E type \in PageTypes, n \in 1 .. MaxRun : x = Run(type, n)
    <2>1. PICK type \in PageTypes, n \in 1 .. MaxRun : x = Run(type, n)
      BY <1>9
    <2>2. n \in Nat /\ x.type = type /\ x.type # "SET_HVA"
      BY <2>1, StreamAssumption DEF Run, PageTypes, PteTypes, PmdTypes
    <2>3. parsed # 0 /\ va = u.va
      BY <1>3, <2>2
    <2>4. cut \subseteq cut' /\ \A a \in Nat : Most(va, end) <= a /\ a < p.va /\ p.va \in Nat => a \in cut'
      <3>1. cut' = cut \cup (Most(va, end) .. p.va - 1)
        BY <1>1, <1>3, <2>2
      <3> PICK m \in Nat : m = Most(va, end)
        BY <1>2 DEF Most
      <3> QED
        BY <3>1
    <2>5. CASE va >= end
      <3>1. p.late # {} /\ p.va = va /\ p.refs = refs
        <4>1. x.type # "SET_HVA" /\ p0.va >= end
          BY <1>4, <2>2, <2>5
        <4>2. p = [p0 EXCEPT !.late = {p0.va}]
          BY <1>4, <1>5, <4>1 DEF ParseItem
        <4> QED
          BY <1>4, <4>2 DEF Parsers
      <3>2. parsed' = Len(eic.out) /\ va' = va /\ refs' = refs /\ parsed' \in Nat
        BY <1>1, <1>2, <3>1
      <3>3. Done \subseteq Done'
        BY <2>4, <3>2 DEF Done, CountedPages
      <3>4. \A a \in Missing : ~(va <= a /\ a < va')
        BY <1>2, <1>7, <3>2
      <3>5. ~(va' < end) /\ va' \in Nat /\ parsed < parsed'
        BY <1>1, <1>2, <2>5, <3>2
      <3> QED
        BY <1>1, <3>2, <3>3, <3>4, <3>5, ParsedCovers
    <2>6. CASE va < end
      <3> DEFINE new == inc_page_refs(type, n, va, end)
                 step == pagetype_size(type) * n
      <3>1. va < 2 * TaskSize
        BY <1>2, <1>6, <2>6
      <3>2. new \in Seq(Counted)
        BY <1>2, <2>2, <2>6, RunList
      <3>3. /\ p.late = {} /\ p.va = va + step
            /\ p.refs = IF type \in HoleTypes THEN refs ELSE refs \o new
        <4>1. p0.va < end
          BY <1>4, <2>6
        <4>2. LET q == ParseItem(p0, Run(type, n), end) IN
              /\ q.late = {} /\ q.va = p0.va + step
              /\ q.refs = IF type \in HoleTypes THEN p0.refs
                          ELSE p0.refs \o inc_page_refs(type, n, p0.va, end)
          BY <1>2, <1>4, <2>2, <4>1, ParserMoves
        <4> QED
          BY <1>4, <1>5, <2>1, <4>2
      <3>4. v.va = va + step
        <4>1. u.va < 2 * TaskSize
          BY <2>3, <3>1
        <4>2. LET q == ParseItem(u, Run(type, n), 2 * TaskSize) IN q.va = u.va + step
          BY <1>3, <1>6, <2>2, <4>1, ParserMoves
        <4> QED
          BY <1>3, <2>1, <2>3, <4>2
      <3>5. step \in Nat
        <4>1. pagetype_size(type) \in Nat
          BY PageSizes
        <4> QED
          BY <2>2, <4>1
      <3>6. ~Moves(type) => va % pagetype_size(type) = 0
        BY <1>3, <2>2
      <3>7. \A a \in Nat : va % pagetype_size(type) = 0 /\ va <= a /\ a < end /\ a < va + step =>
              \E i \in DOMAIN new : a \in PagesOf(new[i])
        BY <1>2, <2>2, RunCountsAll
      <3> HIDE DEF new, step
      <3>8. va' = va + step /\ parsed' = parsed + 1 /\ refs' = IF type \in HoleTypes THEN refs ELSE refs \o new
        BY <1>1, <3>3
      <3>9. CountedPages \subseteq CountedPages' /\ (type \notin HoleTypes => PagesIn(new) \subseteq CountedPages')
        <4>1. CountedPages = PagesIn(refs) /\ CountedPages' = PagesIn(refs')
          BY DEF CountedPages, PagesIn
        <4>2. CASE type \in HoleTypes
          BY <3>8, <4>1, <4>2
        <4>3. CASE type \notin HoleTypes
          <5>1. refs' = refs \o new
            BY <3>8, <4>3
          <5>2. PagesIn(refs) \subseteq PagesIn(refs \o new) /\ PagesIn(new) \subseteq PagesIn(refs \o new)
            BY <1>2, <3>2, CountedMore
          <5> QED
            BY <4>1, <5>1, <5>2
        <4> QED
          BY <4>2, <4>3
      <3>10. Done \subseteq Done' /\ CountedPages' \subseteq Done' /\ cut' \subseteq Done'
        BY <2>4, <3>9 DEF Done
      <3>11. \A a \in Missing : va <= a /\ a < va' => a \in Done'
        <4>1. CASE type \in HoleTypes
          <5>1. Free(Missing, va, v.va)
            BY <1>3, <2>2, <4>1 DEF Moves
          <5> QED
            BY <3>4, <3>8, <5>1 DEF Free
        <4>2. CASE type \notin HoleTypes
          <5> SUFFICES ASSUME NEW a \in Missing, va <= a, a < va' PROVE a \in Done'
            OBVIOUS
          <5>1. a \in Nat
            BY <1>7
          <5>2. va % pagetype_size(type) = 0
            BY <2>2, <3>6, <4>2 DEF Moves
          <5>3. CASE a < end
            <6>1. PICK i \in DOMAIN new : a \in PagesOf(new[i])
              BY <3>7, <3>8, <5>1, <5>2, <5>3
            <6>2. a \in PagesIn(new)
              BY <6>1 DEF PagesIn
            <6> QED
              BY <3>9, <3>10, <4>2, <6>2
          <5>4. CASE a >= end
            <6>1. Most(va, end) <= a
              BY <1>2, <5>1, <5>4 DEF Most
            <6>2. a < p.va /\ p.va \in Nat
              BY <1>2, <3>3, <3>5, <3>8
            <6> QED
              BY <2>4, <3>10, <5>1, <6>1, <6>2
          <5> QED
            BY <1>2, <5>1, <5>3, <5>4
        <4> QED
          BY <4>1, <4>2
      <3>12. parsed' = Len(eic.out) => Free(Missing, va', pos)
        <4>1. parsed' = Len(eic.out) => va' = pos
          BY <1>3, <3>4, <3>8
        <4>2. Free(Missing, pos, pos)
          BY <1>2, <1>7 DEF Free
        <4> QED
          BY <4>1, <4>2
      <3>13. parsed' \in Nat /\ parsed < parsed' /\ va' \in Nat
        BY <1>2, <3>5, <3>8
      <3> QED
        BY <1>1, <3>10, <3>11, <3>12, <3>13, ParsedCovers
    <2> QED
      BY <1>2, <2>5, <2>6
  <1> QED
    BY <1>3, <1>8, <1>9, ItemKinds

\* What is missing is in a VMA that was loaded, and the VMAs are in order.
LEMMA MissingIn ==
  ASSUME Inv, Stay, NEW a \in Missing
  PROVE  /\ a \in Nat /\ layout.va_start <= a /\ a < layout.va_end
         /\ \E i \in 1 .. Len(layout.vmas) :
              /\ is_anonymous(layout.vmas[i]) /\ a \in Within(layout.vmas[i])
              /\ layout.vmas[i].start <= a /\ a < layout.vmas[i].end
              /\ \A j \in 1 .. Len(layout.vmas) :
                   /\ j < i => layout.vmas[j].end <= a
                   /\ i < j => a < layout.vmas[j].start
  <1>1. a \in Nat /\ layout.va_start <= a /\ a < layout.va_end /\ layout \in Layouts
    BY DEF Stay, Missing, Inv, TypeInv
  <1>2. PICK i \in DOMAIN layout.vmas : is_anonymous(layout.vmas[i]) /\ a \in Within(layout.vmas[i])
    BY DEF Stay, Missing
  <1>3. PICK v : v = layout.vmas
    OBVIOUS
  <1>4. /\ i \in 1 .. Len(v) /\ DOMAIN v = 1 .. Len(v)
        /\ v[i].start \in Nat /\ v[i].end \in Nat
        /\ \A j \in DOMAIN v : j < i => v[j].end <= v[i].start
        /\ \A j \in DOMAIN v : i < j => v[i].end <= v[j].start
    BY <1>1, <1>2, <1>3, VmasOrdered
  <1>5. v[i].start <= a /\ a < v[i].end
    BY <1>1, <1>2, <1>3, <1>4 DEF Within
  <1>6. \A j \in 1 .. Len(v) : v[j].start \in Nat /\ v[j].end \in Nat
    BY <1>1, <1>3, <1>4, VmasOrdered
  <1>7. \A j \in 1 .. Len(v) : (j < i => v[j].end <= a) /\ (i < j => a < v[j].start)
    BY <1>1, <1>4, <1>5, <1>6
  <1> QED
    BY <1>1, <1>2, <1>3, <1>4, <1>5, <1>7

\* The VMAs in front of one are covered if that one is done too.
LEMMA OneVmaMore ==
  ASSUME vmai \in Nat, VmasCovered(vmai - 1), \A a \in Missing : a \in Within(layout.vmas[vmai]) => a \in Done
  PROVE  VmasCovered(vmai)
  <1> SUFFICES ASSUME NEW a \in Missing, NEW i \in 1 .. vmai, a \in Within(layout.vmas[i]) PROVE a \in Done
    BY DEF VmasCovered
  <1>1. CASE i = vmai
    BY <1>1
  <1>2. CASE i # vmai
    <2>1. i \in 1 .. vmai - 1
      BY <1>2
    <2> QED
      BY <2>1 DEF VmasCovered
  <1> QED
    BY <1>1, <1>2

\* What is missing in front of a VMA is in one that was passed.
LEMMA MissingBefore ==
  ASSUME Inv, Stay, VmasCovered(vmai - 1), vmai \in 1 .. Len(layout.vmas),
         NEW a \in Missing, a < layout.vmas[vmai].start
  PROVE  a \in Done
  <1>1. PICK i \in 1 .. Len(layout.vmas) :
          /\ a \in Within(layout.vmas[i]) /\ layout.vmas[i].start <= a
          /\ \A j \in 1 .. Len(layout.vmas) : j < i => layout.vmas[j].end <= a
    BY MissingIn
  <1>2. PICK v : v = layout.vmas[vmai]
    OBVIOUS
  <1>3. v.start \in Nat /\ v.end \in Nat /\ v.start < v.end
    <2>1. PICK u : u = layout.vmas
      OBVIOUS
    <2>2. layout \in Layouts /\ u \in Seq(VmaType)
      BY <2>1, LayoutTypes DEF Inv, TypeInv
    <2>3. vmai \in DOMAIN u
      BY <2>1, <2>2
    <2> QED
      BY <1>2, <2>1, <2>2, <2>3, VmasOrdered
  <1>4. a \in Nat
    BY MissingIn
  <1>5. i # vmai
    BY <1>1, <1>2, <1>3, <1>4
  <1>6. ~(vmai < i)
    BY <1>1, <1>2, <1>3, <1>4
  <1>7. i \in 1 .. vmai - 1
    BY <1>1, <1>5, <1>6
  <1> QED
    BY <1>1, <1>7 DEF VmasCovered

\* The VMAs that are passed over or left have nothing missing, and a read starts behind
\* what is done (walk, walk_vma).
LEMMA WalkVmaCovers ==
  ASSUME Inv, CoverInv, Stay', WalkVma
  PROVE  CoverInv'
  <1> DEFINE v == layout.vmas[vmai]
  <1>1. /\ pc = "vma" /\ UNCHANGED <<layout, next_va, io_error, refs, histVars>>
        /\ \/ /\ (IF vmai > Len(layout.vmas) THEN TRUE ELSE StopsAtVma(v))
              /\ pc' = "done"
           \/ /\ vmai <= Len(layout.vmas) /\ PassesVma(v) /\ vmai' = vmai + 1 /\ pc' = pc
           \/ /\ vmai <= Len(layout.vmas) /\ ~PassesVma(v) /\ ~StopsAtVma(v)
              /\ va' = Most(Most(v.start, next_va), layout.va_start)
              /\ end' = Least(v.end, layout.va_end)
              /\ pos' = va' /\ pc' = "loop" /\ UNCHANGED vmai
    BY Zenon DEF WalkVma
  <1>2. Missing' = Missing /\ Done' = Done
    BY <1>1 DEF Missing, Done, CountedPages, histVars
  <1>3. Stay /\ Covered(Missing, next_va) /\ VmasCovered(vmai - 1)
    BY <1>1 DEF CoverInv, UserCover
  <1>4. /\ layout.vmas \in Seq(VmaType) /\ layout.va_start \in Nat /\ layout.va_end \in Nat
        /\ vmai \in 1 .. Len(layout.vmas) + 1 /\ next_va \in Nat /\ vmai \in Nat /\ Len(layout.vmas) \in Nat
    BY LayoutTypes DEF Inv, TypeInv
  <1>5. \A a \in Missing : a < next_va => a \in Done
    BY <1>3 DEF Covered
  <1>6. \A a \in Missing, i \in 1 .. vmai - 1 : a \in Within(layout.vmas[i]) => a \in Done
    BY <1>3 DEF VmasCovered
  <1>7. ASSUME vmai <= Len(layout.vmas)
        PROVE  vmai \in 1 .. Len(layout.vmas) /\ v.start \in Nat /\ v.end \in Nat
    <2>1. v \in VmaType
      BY <1>4, <1>7
    <2> QED
      BY <1>4, <1>7, <2>1, WalkAssumption DEF VmaType
  <1>8. CASE (IF vmai > Len(layout.vmas) THEN TRUE ELSE StopsAtVma(v)) /\ pc' = "done"
    <2>1. ASSUME NEW a \in Missing PROVE a \in Done
      <3>1. a \in Nat /\ a < layout.va_end
        BY <1>3, MissingIn
      <3>2. PICK i \in 1 .. Len(layout.vmas) :
              /\ a \in Within(layout.vmas[i])
              /\ layout.vmas[i].start <= a /\ a < layout.vmas[i].end
              /\ \A j \in 1 .. Len(layout.vmas) : i < j => a < layout.vmas[j].start
              /\ \A j \in 1 .. Len(layout.vmas) : j < i => layout.vmas[j].end <= a
        BY <1>3, MissingIn
      <3>3. CASE i \in 1 .. vmai - 1
        BY <1>6, <3>2, <3>3
      <3>4. CASE i \notin 1 .. vmai - 1
        <4>1. vmai \in 1 .. Len(layout.vmas)
          BY <1>4, <3>4
        <4>2. v.start >= layout.va_end /\ v.start \in Nat
          <5>1. ~(vmai > Len(layout.vmas))
            BY <1>4, <4>1
          <5>2. StopsAtVma(v)
            BY <1>8, <5>1, Zenon
          <5> QED
            BY <1>4, <1>7, <4>1, <5>2 DEF StopsAtVma
        <4>3. a < v.start
          BY <1>4, <3>1, <4>2
        <4> QED
          BY <1>3, <4>1, <4>3, MissingBefore
      <3> QED
        BY <3>3, <3>4
    <2> QED
      BY <1>2, <1>8, <2>1 DEF CoverInv, UserCover, InTheKernel, AtVma
  <1>9. CASE vmai <= Len(layout.vmas) /\ PassesVma(v) /\ vmai' = vmai + 1 /\ pc' = pc
    <2>1. ASSUME NEW a \in Missing, a \in Within(v) PROVE a \in Done
      <3>1. a \in Nat /\ layout.va_start <= a
        BY <1>3, MissingIn
      <3>2. v.start <= a /\ a < v.end
        BY <1>7, <1>9, <2>1, <3>1 DEF Within
      <3>3. CASE v.end <= next_va
        <4>1. a < next_va
          BY <1>4, <1>7, <1>9, <3>1, <3>2, <3>3
        <4> QED
          BY <1>5, <4>1
      <3>4. CASE v.end <= layout.va_start
        BY <1>4, <1>7, <1>9, <3>1, <3>2, <3>4
      <3>5. CASE ~is_anonymous(v)
        <4>1. PICK i \in 1 .. Len(layout.vmas) :
              /\ is_anonymous(layout.vmas[i])
              /\ \A j \in 1 .. Len(layout.vmas) :
                   /\ j < i => layout.vmas[j].end <= a
                   /\ i < j => a < layout.vmas[j].start
          BY <1>3, MissingIn
        <4>2. vmai # i
          BY <3>5, <4>1
        <4>3. vmai < i \/ i < vmai
          BY <1>4, <4>2
        <4>4. v.end <= a \/ a < v.start
          BY <1>7, <1>9, <4>1, <4>3
        <4> QED
          BY <1>7, <1>9, <3>1, <3>2, <4>4
      <3> QED
        BY <1>9, <3>3, <3>4, <3>5 DEF PassesVma
    <2>2. VmasCovered(vmai)
      BY <1>3, <1>4, <2>1, OneVmaMore
    <2>3. VmasCovered(vmai - 1)'
      <3>1. vmai' - 1 = vmai
        BY <1>4, <1>9
      <3>2. \A a \in Missing' : (\E i \in 1 .. vmai' - 1 : a \in Within(layout'.vmas[i])) => a \in Done'
        BY <1>1, <1>2, <2>2, <3>1 DEF VmasCovered
      <3> QED
        BY <3>2 DEF VmasCovered
    <2>4. Covered(Missing, next_va)'
      BY <1>1, <1>2, <1>3 DEF Covered
    <2>5. pc' = "vma"
      BY <1>1, <1>9
    <2>6. UserCover'
      BY <2>3, <2>4, <2>5 DEF UserCover, AtVma
    <2> QED
      BY <2>5, <2>6 DEF CoverInv, InTheKernel
  <1>10. CASE /\ vmai <= Len(layout.vmas) /\ ~PassesVma(v) /\ ~StopsAtVma(v)
              /\ va' = Most(Most(v.start, next_va), layout.va_start)
              /\ end' = Least(v.end, layout.va_end)
              /\ pos' = va' /\ pc' = "loop" /\ UNCHANGED vmai
    <2>1. ASSUME NEW a \in Missing, a < va' PROVE a \in Done
      <3>1. a \in Nat /\ layout.va_start <= a
        BY <1>3, MissingIn
      <3>2. PICK s \in Nat : s = v.start
        BY <1>7, <1>10
      <3>3. a < next_va \/ a < s
        BY <1>4, <1>10, <2>1, <3>1, <3>2 DEF Most
      <3>4. a < v.start => a \in Done
        BY <1>3, <1>7, <1>10, MissingBefore
      <3> QED
        BY <1>5, <3>2, <3>3, <3>4
    <2>2. Covered(Missing, va)'
      BY <1>2, <2>1 DEF Covered
    <2>3. va' \in Nat
      <3>1. PICK s \in Nat : s = v.start
        BY <1>7, <1>10
      <3> QED
        BY <1>4, <1>10, <3>1 DEF Most
    <2>4. Free(Missing, va, pos)'
      <3>1. \A a \in Missing : a \in Nat
        BY <1>3, MissingIn
      <3>2. \A a \in Missing' : ~(va' <= a /\ a < va')
        BY <1>2, <2>3, <3>1
      <3> QED
        BY <1>10, <3>2 DEF Free
    <2>5. VmasCovered(vmai - 1)'
      BY <1>1, <1>2, <1>3, <1>10 DEF VmasCovered
    <2>6. (end = Least(layout.vmas[vmai].end, layout.va_end))'
      BY <1>1, <1>10
    <2>7. UserCover'
      BY <1>10, <2>2, <2>4, <2>5, <2>6 DEF UserCover
    <2> QED
      BY <1>10, <2>7 DEF CoverInv, InTheKernel
  <1> QED
    BY Zenon, <1>1, <1>8, <1>9, <1>10

\* The other steps between the reads (walk, walk_vma, parse_idlepages).
LEMMA UserCovers ==
  ASSUME Inv, OrderInv, CoverInv, Stay', Walk \/ VmaDone \/ ReadFails \/ ReadDone
  PROVE  CoverInv'
  <1>1. UNCHANGED <<layout, va, end, refs, histVars>>
    BY DEF Walk, VmaDone, ReadFails, ReadDone, userVars
  <1>2. Missing' = Missing /\ Done' = Done
    BY <1>1 DEF Missing, Done, CountedPages, histVars
  <1>3. UserCover /\ Stay
    BY DEF CoverInv
  <1>4. vmai \in Nat
    BY LayoutTypes DEF Inv, TypeInv
  <1>5. CASE Walk
    <2>1. pc = "start" /\ vmai = 1 /\ next_va = 0
      BY <1>3, <1>5 DEF Walk, UserCover
    <2>2. vmai' = vmai /\ next_va' = next_va /\ (pc' = "vma" \/ (pc' = "done" /\ io_error'))
      BY <1>5 DEF Walk
    <2>3. Covered(Missing, next_va)'
      <3>1. \A a \in Missing' : ~(a < next_va')
        BY <1>2, <1>3, <2>1, <2>2, MissingIn
      <3> QED
        BY <3>1 DEF Covered
    <2>4. VmasCovered(vmai - 1)'
      BY <2>1, <2>2 DEF VmasCovered
    <2>5. UserCover'
      BY <2>2, <2>3, <2>4 DEF UserCover, AtVma
    <2> QED
      BY <2>2, <2>5 DEF CoverInv, InTheKernel
  <1>6. CASE VmaDone
    <2>1. pc = "loop" /\ va >= end /\ next_va' = va /\ vmai' = vmai + 1 /\ pc' = "vma"
      BY <1>6 DEF VmaDone
    <2>2. /\ Covered(Missing, va) /\ VmasCovered(vmai - 1)
          /\ end = Least(layout.vmas[vmai].end, layout.va_end)
      BY <1>3, <2>1 DEF UserCover, AtVma
    <2>3. va \in Nat /\ end \in Nat /\ vmai \in 1 .. Len(layout.vmas)
      BY <2>1 DEF Inv, TypeInv, AtVma
    <2>4. ASSUME NEW a \in Missing, a \in Within(layout.vmas[vmai]) PROVE a \in Done
      <3>1. a \in Nat /\ a < layout.va_end
        BY <1>3, MissingIn
      <3>2. PICK v \in VmaType : v = layout.vmas[vmai]
        <4>1. PICK u : u = layout.vmas
          OBVIOUS
        <4>2. u \in Seq(VmaType) /\ vmai \in 1 .. Len(u)
          <5>1. layout.vmas \in Seq(VmaType)
            BY LayoutTypes DEF Inv, TypeInv
          <5> QED
            BY <2>3, <4>1, <5>1
        <4>3. u[vmai] \in VmaType
          BY <4>2
        <4> QED
          BY <4>1, <4>3
      <3>3. v.start \in Nat /\ v.end \in Nat /\ layout.va_end \in Nat
        <4>1. layout.va_end \in Nat
          BY LayoutTypes DEF Inv, TypeInv
        <4> QED
          BY <3>2, <4>1, WalkAssumption DEF VmaType
      <3>4. a < v.end
        BY <2>4, <3>1, <3>2, <3>3 DEF Within
      <3>5. a < va
        BY <2>1, <2>2, <2>3, <3>1, <3>2, <3>3, <3>4 DEF Least
      <3> QED
        BY <2>2, <3>5 DEF Covered
    <2>5. VmasCovered(vmai)
      BY <1>4, <2>2, <2>4, OneVmaMore
    <2>6. VmasCovered(vmai - 1)'
      <3>1. vmai' - 1 = vmai
        BY <1>4, <2>1
      <3>2. \A a \in Missing' : (\E i \in 1 .. vmai' - 1 : a \in Within(layout'.vmas[i])) => a \in Done'
        BY <1>1, <1>2, <2>5, <3>1 DEF VmasCovered
      <3> QED
        BY <3>2 DEF VmasCovered
    <2>7. Covered(Missing, next_va)'
      BY <1>2, <2>1, <2>2 DEF Covered
    <2>8. UserCover'
      BY <2>1, <2>6, <2>7 DEF UserCover, AtVma
    <2> QED
      BY <2>1, <2>8 DEF CoverInv, InTheKernel
  <1>7. CASE ReadFails
    <2>1. io_error' /\ pc' = "done"
      BY <1>7 DEF ReadFails
    <2> QED
      BY <2>1 DEF CoverInv, UserCover, InTheKernel, AtVma
  <1>8. CASE ReadDone
    <2>1. pc = "parse" /\ pc' = "loop" /\ parsed >= Len(eic.out) /\ UNCHANGED <<userVars, pos>>
      BY <1>8 DEF ReadDone
    <2>2. vmai' = vmai /\ va' = va /\ end' = end
      BY <2>1 DEF userVars
    <2>3. ParseCover /\ ParseOrder
      BY <2>1 DEF CoverInv, OrderInv
    <2>4. parsed = Len(eic.out)
      <3>1. parsed \in Nat /\ eic.out \in Seq(Items)
        BY DEF Inv, TypeInv, ControlBlocks
      <3>2. parsed <= Len(eic.out)
        BY <2>3 DEF ParseOrder
      <3> QED
        BY <2>1, <3>1, <3>2
    <2>5. Covered(Missing, va) /\ (va < end => Free(Missing, va, pos))
      BY <2>3, <2>4 DEF ParseCover
    <2>6. Covered(Missing, va)' /\ (va < end => Free(Missing, va, pos))'
      BY <1>2, <2>1, <2>2, <2>5 DEF Covered
    <2>7. end = Least(layout.vmas[vmai].end, layout.va_end) /\ VmasCovered(vmai - 1)
      BY <1>3, <2>1 DEF UserCover, AtVma
    <2>8. (end = Least(layout.vmas[vmai].end, layout.va_end))' /\ VmasCovered(vmai - 1)'
      BY <1>1, <1>2, <2>2, <2>7 DEF VmasCovered
    <2>9. UserCover'
      BY <2>1, <2>6, <2>8 DEF UserCover
    <2> QED
      BY <2>1, <2>9 DEF CoverInv, InTheKernel
  <1> QED
    BY <1>5, <1>6, <1>7, <1>8

\* The PMD whose entries are read stays one of small pages.
LEMMA TableStays ==
  ASSUME Inv, Touch \/ Remap \/ ChangeVmas \/ UNCHANGED vars, pc = "ptes",
         PmdOf(w.cur) \in DOMAIN pmd => pmd[PmdOf(w.cur)] = "table"
  PROVE  PmdOf(w.cur) \in DOMAIN pmd' => pmd'[PmdOf(w.cur)] = "table"
  <1> PICK c : c = PmdOf(w.cur)
    OBVIOUS
  <1>1. pmd \in [DOMAIN pmd -> PmdStates]
    BY DEF Inv, TypeInv
  <1>2. CASE Touch
    <2>1. UNCHANGED pmd \/ \E i \in DOMAIN pmd : pmd[i] = "idle" /\ pmd' = [pmd EXCEPT ![i] = "accessed"]
      BY <1>2 DEF Touch
    <2>2. c \in DOMAIN pmd' => pmd'[c] = "table"
      BY <1>1, <2>1
    <2> QED
      BY <2>2
  <1>3. CASE Remap
    <2>1. \E i \in DOMAIN pmd, y \in PmdStates : c # i /\ pmd' = [pmd EXCEPT ![i] = y]
      BY <1>1, <1>3 DEF Remap, PmdStates
    <2>2. c \in DOMAIN pmd' => pmd'[c] = "table"
      BY <1>1, <2>1
    <2> QED
      BY <2>2
  <1>4. CASE ChangeVmas \/ UNCHANGED vars
    BY <1>4 DEF ChangeVmas, vars, tableVars
  <1> QED
    BY <1>2, <1>3, <1>4

\* What the process does makes nothing more missing.
LEMMA ProcessCovers ==
  ASSUME Inv, CursorInv, CoverInv, Stay', stable' \subseteq stable,
         Touch \/ Remap \/ ChangeVmas \/ UNCHANGED vars
  PROVE  CoverInv'
  <1>1. UNCHANGED <<layout, pc, pos, eic, w>>
    BY ProcessTogether
  <1>2. UNCHANGED userVars /\ skipped' = skipped /\ cut' = cut
    BY DEF Touch, Remap, ChangeVmas, vars, histVars
  <1>3. UNCHANGED <<vmai, va, end, next_va, parsed, io_error, refs>>
    BY <1>2 DEF userVars
  <1>4. Missing' \subseteq Missing /\ Done' = Done
    BY <1>2, <1>3 DEF Missing, Done, CountedPages
  <1>5. /\ Covered(Missing, va) => Covered(Missing, va)'
        /\ Covered(Missing, next_va) => Covered(Missing, next_va)'
        /\ VmasCovered(vmai - 1) => VmasCovered(vmai - 1)'
    <2>1. ASSUME NEW x, Covered(Missing, x) PROVE \A a \in Missing' : a < x => a \in Done'
      BY <1>4, <2>1 DEF Covered
    <2>2. VmasCovered(vmai - 1) =>
            \A a \in Missing' : (\E i \in 1 .. vmai - 1 : a \in Within(layout.vmas[i])) => a \in Done'
      BY <1>4 DEF VmasCovered
    <2>3. Covered(Missing, va) => Covered(Missing, va)'
      BY <1>3, <2>1 DEF Covered
    <2>4. Covered(Missing, next_va) => Covered(Missing, next_va)'
      BY <1>3, <2>1 DEF Covered
    <2>5. VmasCovered(vmai - 1) => VmasCovered(vmai - 1)'
      BY <1>1, <1>3, <2>2 DEF VmasCovered
    <2> QED
      BY <2>3, <2>4, <2>5
  <1>6. /\ \A x, y : Free(Missing, x, y) => Free(Missing', x, y)
        /\ \A items, from, at : Gapless(Missing, items, from, at) => Gapless(Missing', items, from, at)
    BY <1>4, FreeFewer, Zenon
  <1>7. UserCover'
    <2>1. UserCover
      BY DEF CoverInv
    <2>2. /\ pc = "start" => vmai' = 1 /\ next_va' = 0
          /\ pc = "vma" => Covered(Missing, next_va)' /\ VmasCovered(vmai - 1)'
      BY <1>3, <1>5, <2>1 DEF UserCover
    <2>3. pc = "loop" => Covered(Missing, va)' /\ (va' < end' => Free(Missing', va', pos'))
      BY <1>1, <1>3, <1>5, <1>6, <2>1 DEF UserCover
    <2>4. pc \in AtVma => (end = Least(layout.vmas[vmai].end, layout.va_end))' /\ VmasCovered(vmai - 1)'
      BY <1>1, <1>3, <1>5, <2>1 DEF UserCover
    <2>5. pc = "done" /\ ~io_error' => Missing' \subseteq Done'
      BY <1>3, <1>4, <2>1 DEF UserCover
    <2> QED
      BY <1>1, <2>2, <2>3, <2>4, <2>5 DEF UserCover
  <1>8. ASSUME pc \in InTheKernel PROVE KernelCover'
    <2>1. KernelCover
      BY <1>8 DEF CoverInv
    <2>2. (Kvm' <=> Kvm) /\ Here' = Here
      BY <1>1, <1>3 DEF Kvm, Here
    <2>3. Covered(Missing, va)' /\ Free(Missing', va', pos') /\ Gapless(Missing', eic'.out \o eic'.kpie, 0, va')
      BY <1>1, <1>3, <1>5, <1>6, <2>1 DEF KernelCover
    <2>4. pc # "copy" => ~NoRoom(eic)'
      BY <1>1, <2>1 DEF KernelCover
    <2>5. pc = "range" => Free(Missing', Here, w.start) /\ (~Kvm => eic.restart_gpa <= w.start)
      BY <1>6, <2>1 DEF KernelCover
    <2>6. pc \in {"pages", "ptes"} =>
            /\ ~eic.full /\ InSlot /\ Free(Missing', Here, w.cur + eic.gpa_to_hva)
            /\ ~Kvm => Free(Missing', Here, eic.restart_gpa)
      BY <1>6, <2>1 DEF KernelCover
    <2>7. InSlot' <=> InSlot
      BY <1>1, <2>2 DEF InSlot
    <2>8. pc = "ptes" =>
            w.pte_end <= w.stop /\ (PmdOf(w.cur) \in DOMAIN pmd' => pmd'[PmdOf(w.cur)] = "table")
      BY <2>1, TableStays DEF KernelCover
    <2>9. pc = "copy" =>
            /\ Free(Missing', Here, eic.restart_gpa + eic.gpa_to_hva)
            /\ eic.pie_read = 0 => Free(Missing', Here, w.va_end)
      BY <1>6, <2>1 DEF KernelCover
    <2> QED
      BY <1>1, <2>2, <2>3, <2>4, <2>5, <2>6, <2>7, <2>8, <2>9 DEF KernelCover
  <1>9. ASSUME pc = "parse" PROVE ParseCover'
    <2>1. ParseCover
      BY <1>9 DEF CoverInv
    <2>2. Covered(Missing, va)' /\ Gapless(Missing', eic'.out, parsed', va')
      BY <1>1, <1>3, <1>5, <1>6, <2>1 DEF ParseCover
    <2>3. parsed' = Len(eic'.out) /\ va' < end' => Free(Missing', va', pos')
      BY <1>1, <1>3, <1>6, <2>1 DEF ParseCover
    <2> QED
      BY <2>2, <2>3 DEF ParseCover
  <1> QED
    BY <1>1, <1>7, <1>8, <1>9 DEF CoverInv

\* Every step keeps what is missing ahead of the walk.
LEMMA NextCovers ==
  SlotsApart /\ HugePagesAligned /\ Inv /\ Inv' /\ CursorInv /\ OrderInv /\ CoverInv /\ [Next]_vars
    => CoverInv'
  <1> SUFFICES ASSUME SlotsApart, HugePagesAligned, Inv, Inv', CursorInv, OrderInv, CoverInv, [Next]_vars
               PROVE  CoverInv'
    OBVIOUS
  <1>1. Stay' /\ stable' \subseteq stable
    BY NextStays DEF CoverInv
  <1>2. CASE Walk \/ VmaDone \/ ReadFails \/ ReadDone
    BY <1>1, <1>2, UserCovers
  <1>3. CASE WalkVma
    BY <1>1, <1>3, WalkVmaCovers
  <1>4. CASE ReadStart
    BY <1>1, <1>4, ReadStartCovers
  <1>5. CASE Parse
    BY <1>1, <1>5, ParseCovers
  <1>6. CASE MmRange
    BY <1>1, <1>6, MmRangeCovers
  <1>7. CASE KvmRange
    BY <1>1, <1>7, KvmRangeCovers
  <1>8. CASE KvmPages \/ AddPte \/ MmPassOver \/ MmPudEntry \/ MmPmdEntry
    BY <1>1, <1>8, WalkCovers
  <1>9. CASE Copy
    BY <1>1, <1>9, CopyCovers
  <1>10. CASE Touch \/ Remap \/ ChangeVmas \/ UNCHANGED vars
    BY <1>1, <1>10, ProcessCovers
  <1> QED
    BY <1>2, <1>3, <1>4, <1>5, <1>6, <1>7, <1>8, <1>9, <1>10, Zenon DEF Next, UserNext, KernelNext, Finished

\* A page mapped during the whole walk is counted when the walk ends without an error,
\* unless the module took its PMD for a duplicate or its run began in the VMA before
\* (mm_idle_pmd_entry, inc_page_refs): no full buffer, restart, hole, slot or VMA boundary
\* loses another one. Of a guest it takes huge pages aligned as in CountedInOrderHolds, and
\* slots that do not meet inside one PMD of the guest.
THEOREM CountsWhatIsThereHolds ==
  ASSUME SlotsApart
  PROVE  Spec /\ []GuestPagesAligned => []CountsWhatIsThere
  <1>1. Init => Inv /\ CursorInv /\ OrderInv /\ CoverInv
    <2> SUFFICES ASSUME Init PROVE Inv /\ CursorInv /\ OrderInv /\ CoverInv
      OBVIOUS
    <2>1. Inv /\ CursorInv /\ OrderInv
      BY InitOrders
    <2>2. pc = "start" /\ vmai = 1 /\ next_va = 0
      BY DEF Init
    <2>3. UserCover
      BY <2>2 DEF UserCover, AtVma
    <2> QED
      BY <2>1, <2>2, <2>3, InitStays DEF CoverInv, InTheKernel
  <1>2. Inv /\ CursorInv /\ OrderInv /\ CoverInv /\ GuestPagesAligned /\ [Next]_vars
          => Inv' /\ CursorInv' /\ OrderInv' /\ CoverInv'
    BY NextInv, NextTogether, PagesAligned, NextOrders, NextCovers, Zenon
  <1>3. CoverInv => CountsWhatIsThere
    BY DEF CoverInv, UserCover, CountsWhatIsThere, Missing, Done
  <1> QED
    BY <1>1, <1>2, <1>3, PTL DEF Spec

==============================================================================
