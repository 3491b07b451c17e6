------------------------------ MODULE IdleWalk ------------------------------
(***************************************************************************)
(* One walk of sys-refs over a process (ProcIdlePages::walk, walk_vma) and *)
(* the reads of /proc/idle_pages it makes (ept_idle.c and the page walk of *)
(* ept_idle_native_pagewalk.c).  For a KVM guest the module walks the      *)
(* nested page table behind each memory slot, for any other process the    *)
(* page table of its VMAs.                                                 *)
(*                                                                         *)
(* A page table entry says whether the page was accessed since the bit was *)
(* last cleared, and the walk clears it.  One step of the kernel is one    *)
(* entry, or what is passed over without one.  Meanwhile the process runs: *)
(* pages are touched, PMDs split, collapsed and unmapped, and VMAs change  *)
(* unless the walk holds mmap_sem.                                         *)
(***************************************************************************)
EXTENDS IdleStream, FiniteSets

CONSTANTS
  Layouts,       \* processes and options to start with, see LayoutsAssumption
  PagesPerByte,  \* a read of n bytes covers n << (3 + PAGE_SHIFT) addresses
  ReadBufSize,   \* READ_BUF_SIZE
  TaskSize,      \* TASK_SIZE
  MaxTouches,    \* bound: accesses by the process during the walk
  MaxRemaps      \* bound: changes of its mappings during the walk

UserBufMin   == (AddrBytes + 2) * 2   \* EPT_IDLE_BUF_MIN of ProcIdlePages.h
KernelBufMin == AddrBytes * 2 + 3     \* EPT_IDLE_BUF_MIN of ept_idle.h

PteStates == {"none", "idle", "accessed"}
PmdStates == {"none", "swapped", "idle", "accessed", "table"}
PudStates == {"none", "present", "table"}

\* Both are mappings of the process: they end at TASK_SIZE at the latest.
VmaType  == [start : Nat, end : 0 .. TaskSize, kind : {"anon", "private", "shared"}]
SlotType == [start : Nat, end : 0 .. TaskSize, gpa : Nat]

\* has_mm: the ioctl found the process; cpu, root: the checks of its vcpu.  The
\* memory of a guest is mapped above the first PUD, where the sum of a rounded
\* guest address and gpa_to_hva does not wrap around.  VMAs are in order, and what
\* a process has in walked VMAs stays in such: VMAs grow, merge and split.
ASSUME LayoutsAssumption ==
  \A l \in Layouts :
    /\ l.mode \in {"mm", "kvm"} /\ {l.has_mm, l.cpu, l.root, l.mlocked} \subseteq BOOLEAN
    /\ l.min_read \in UserBufMin .. ReadBufSize
    /\ l.vmas \in Seq(VmaType) /\ l.later \in Seq(VmaType)
    /\ l.slots \subseteq SlotType /\ \A s \in l.slots : s.start >= PudPages
    /\ \A v \in {l.vmas, l.later} : \A i \in 1 .. Len(v) :
         v[i].start < v[i].end /\ \A j \in 1 .. i - 1 : v[j].end <= v[i].start
    /\ l.mode = "mm" => \A i \in 1 .. Len(l.vmas) : \A a \in l.vmas[i].start .. l.vmas[i].end - 1 :
         l.vmas[i].kind # "shared" =>
           \E j \in 1 .. Len(l.later) : l.later[j].kind # "shared" /\ l.later[j].start <= a /\ a < l.later[j].end
    /\ l.va_start \in Nat /\ l.va_end \in Nat /\ l.va_start <= l.va_end /\ l.va_end <= TaskSize
    /\ l.pud \in [DOMAIN l.pud -> PudStates] /\ l.pmd \in [DOMAIN l.pmd -> PmdStates]
    /\ l.pte \in [DOMAIN l.pte -> PteStates] /\ DOMAIN l.pte \subseteq Nat
    /\ \A a \in DOMAIN l.pte : a \div PudPages \in DOMAIN l.pud /\ a \div PmdPages \in DOMAIN l.pmd

ASSUME WalkAssumption ==
  /\ PagesPerByte \in Nat \ {0} /\ MaxTouches \in Nat /\ MaxRemaps \in Nat
  /\ ReadBufSize \in Nat /\ TaskSize \in Nat

VARIABLES
  layout,                       \* what Init chose
  vmas, pud, pmd, pte,          \* the process: VMAs in order, page table
  pc,                           \* where the walk is
  vmai, va, end, next_va,       \* walk_vma(): the VMA, its cursor, where the next may start
  pos,                          \* f_pos of idle_fd
  parsed,                       \* items of the report parsed so far
  io_error, refs, late,         \* outcome, pages counted, addresses ignored as late
  eic, w,                       \* the kernel's control block and loop variables
  stable, skipped,              \* history: pages present all along; pages ignored as duplicates
  cut,                          \* history: what runs that began in a VMA had behind its end
  cleared, fulls,               \* history of this read: bits cleared, turns ended by a full buffer
  touches, remaps               \* history: steps of the process so far

tableVars == <<vmas, pud, pmd, pte>>
userVars  == <<vmai, va, end, next_va, parsed, io_error, refs, late>>
histVars  == <<stable, skipped, cut>>
envVars   == <<touches, remaps>>
vars == <<layout, tableVars, pc, userVars, pos, eic, w, histVars, cleared, fulls, envVars>>

Kvm == layout.mode = "kvm"

-----------------------------------------------------------------------------
(* VMAs, memory slots and what the process has mapped.                     *)

\* ProcMaps::is_anonymous() of the kinds of VMA that matter here.
is_anonymous(vma) == vma.kind \in {"anon", "private"}

\* mm_idle_test_walk(): a file mapping is walked if it is private and writable.
test_walk_skips(vma) == vma.kind = "shared"

LowestOf(S) == CHOOSE x \in S : \A y \in S : x <= y

Within(r) == r.start .. r.end - 1

\* find_vma(): the first VMA that ends above the address, if there is one.
FindVma(at) ==
  LET ends == {i \in DOMAIN vmas : vmas[i].end > at}
  IN IF ends = {} THEN 0 ELSE LowestOf(ends)

Slot(hva)  == {s \in layout.slots : hva \in Within(s)}
Above(hva) == {s.start : s \in {t \in layout.slots : t.start > hva}}
HvasOf(gpas) == {x[1] + (x[2].start - x[2].gpa) : x \in
                   {y \in gpas \X layout.slots : y[1] \in y[2].gpa .. y[2].gpa + (y[2].end - y[2].start) - 1}}
Hvas(entries) == IF Kvm THEN HvasOf(entries) ELSE entries

PudOf(a) == a \div PudPages
PmdOf(a) == a \div PmdPages
PagesOfPmd(i) == i * PmdPages .. (i + 1) * PmdPages - 1

PresentIn(l, a) ==
  \/ l.pud[PudOf(a)] = "present"
  \/ /\ l.pud[PudOf(a)] = "table"
     /\ \/ l.pmd[PmdOf(a)] \in {"idle", "accessed"}
        \/ l.pmd[PmdOf(a)] = "table" /\ l.pte[a] # "none"

\* What a walk of the layout has to find.
Wanted(l) ==
  LET mapped == {a \in DOMAIN l.pte : PresentIn(l, a)}
      backed == IF l.mode = "mm" THEN mapped
                ELSE {x[2].start + (x[1] - x[2].gpa) : x \in
                        {y \in mapped \X l.slots : y[1] - y[2].gpa \in 0 .. y[2].end - y[2].start - 1}}
      seen   == UNION {Within(l.vmas[i]) : i \in {j \in DOMAIN l.vmas : is_anonymous(l.vmas[j])}}
  IN IF l.has_mm /\ (l.mode = "mm" \/ l.root)
       THEN backed \cap seen \cap (l.va_start .. l.va_end - 1) ELSE {}

-----------------------------------------------------------------------------
Init ==
  /\ layout \in Layouts
  /\ vmas = layout.vmas /\ pud = layout.pud /\ pmd = layout.pmd /\ pte = layout.pte
  /\ pc = "start" /\ vmai = 1 /\ va = 0 /\ end = 0 /\ next_va = 0 /\ parsed = 0 /\ pos = 0
  /\ io_error = FALSE /\ refs = <<>> /\ late = {}
  /\ eic = setup_ept_idle_ctrl(0)
  /\ w = [start |-> 0, end |-> 0, va_end |-> 0, cur |-> 0, stop |-> 0, pte_end |-> 0]
  /\ stable = Wanted(layout) /\ skipped = {} /\ cut = {}
  /\ cleared = {} /\ fulls = 0 /\ touches = 0 /\ remaps = 0

-----------------------------------------------------------------------------
(* The user side.                                                          *)

\* walk(): processes placed in DRAM are not walked; no VMAs, no process.
Walk ==
  /\ pc = "start"
  /\ io_error' = (layout.mlocked \/ layout.vmas = <<>>)
  /\ pc' = IF io_error' THEN "done" ELSE "vma"
  /\ UNCHANGED <<layout, tableVars, vmai, va, end, next_va, parsed, refs, late, pos, eic, w,
                 histVars, cleared, fulls, envVars>>

\* The guards of walk_vma() before its first seek, in their order.
PassesVma(v) ==
  \/ v.end <= next_va \/ v.end <= layout.va_start
  \/ v.start < layout.va_end /\ ~is_anonymous(v)

StopsAtVma(v) == ~(v.end <= next_va \/ v.end <= layout.va_start) /\ v.start >= layout.va_end

Most(a, b) == IF a > b THEN a ELSE b

\* The VMAs were loaded before the walk; the process may have changed them.
WalkVma ==
  /\ pc = "vma"
  /\ LET v == layout.vmas[vmai] IN
     \/ /\ IF vmai > Len(layout.vmas) THEN TRUE ELSE StopsAtVma(v)
        /\ pc' = "done"
        /\ UNCHANGED <<vmai, va, end, pos>>
     \/ /\ vmai <= Len(layout.vmas) /\ PassesVma(v)
        /\ vmai' = vmai + 1
        /\ UNCHANGED <<pc, va, end, pos>>
     \/ /\ vmai <= Len(layout.vmas) /\ ~PassesVma(v) /\ ~StopsAtVma(v)
        /\ va' = Most(Most(v.start, next_va), layout.va_start)
        /\ end' = Least(v.end, layout.va_end)
        /\ pos' = va'
        /\ pc' = "loop"
        /\ UNCHANGED vmai
  /\ UNCHANGED <<layout, tableVars, next_va, parsed, io_error, refs, late, eic, w,
                 histVars, cleared, fulls, envVars>>

\* The loop of walk_vma() is over: the next VMA starts behind what was read.
VmaDone ==
  /\ pc = "loop" /\ va >= end
  /\ next_va' = va /\ vmai' = vmai + 1 /\ pc' = "vma"
  /\ UNCHANGED <<layout, tableVars, va, end, parsed, io_error, refs, late, pos, eic, w,
                 histVars, cleared, fulls, envVars>>

ReadSize ==
  Least(Most((end - va + PagesPerByte - 1) \div PagesPerByte, layout.min_read), ReadBufSize)

\* No mm, a buffer too small, or a guest whose CPU has no accessed bits.
Refused(size) == ~layout.has_mm \/ size < KernelBufMin \/ (Kvm /\ ~layout.cpu)

ReadFails ==
  /\ pc = "loop" /\ va < end /\ Refused(ReadSize)
  /\ pos' = Most(va, pos)
  /\ io_error' = TRUE /\ pc' = "done"
  /\ UNCHANGED <<layout, tableVars, vmai, va, end, next_va, parsed, refs, late, eic, w,
                 histVars, cleared, fulls, envVars>>

\* ept_idle_read(), mm_idle_read(): set up the control block and the range.
ReadStart ==
  /\ pc = "loop" /\ va < end /\ ~Refused(ReadSize)
  /\ LET e == init_ept_idle_ctrl_buffer(setup_ept_idle_ctrl(ReadSize)) IN
     /\ eic' = e
     /\ pc' = IF NoRoom(e) THEN "parse" ELSE "range"
  /\ pos' = Most(va, pos)
  /\ w' = [w EXCEPT !.start = pos', !.end = pos' + ReadSize * PagesPerByte]
  /\ parsed' = 0 /\ cleared' = {} /\ fulls' = 0
  /\ UNCHANGED <<layout, tableVars, vmai, va, end, next_va, io_error, refs, late,
                 histVars, envVars>>

\* parse_idlepages(): one item of what the read copied is counted, in the VMA
\* that asked for it; an address behind the VMA ends the parse. The cursor is
\* behind a run that the end of the VMA cuts short.
Parse ==
  /\ pc = "parse" /\ parsed < Len(eic.out)
  /\ LET item == eic.out[parsed + 1]
         p == ParseItem([va |-> va, refs |-> refs, late |-> {}], item, end) IN
     /\ va' = p.va /\ refs' = p.refs /\ late' = late \cup p.late
     /\ parsed' = IF p.late = {} THEN parsed + 1 ELSE Len(eic.out)
     /\ cut' = IF item.type = "SET_HVA" THEN cut ELSE cut \cup (Most(va, end) .. p.va - 1)
  /\ UNCHANGED <<layout, tableVars, pc, vmai, end, next_va, io_error, pos, eic, w,
                 stable, skipped, cleared, fulls, envVars>>

ReadDone ==
  /\ pc = "parse" /\ parsed >= Len(eic.out)
  /\ pc' = "loop"
  /\ UNCHANGED <<layout, tableVars, userVars, pos, eic, w, histVars, cleared, fulls, envVars>>

-----------------------------------------------------------------------------
(* The kernel side: one turn of the loop of ept_idle_walk_hva_range() or   *)
(* mm_idle_walk_range() finds a range, walks it and copies the result.     *)

Restart(at) == [eic EXCEPT !.restart_gpa = at, !.full = FALSE]

ToPages(e, cur, stop, va_end) ==
  /\ eic' = e /\ pc' = "pages"
  /\ w' = [w EXCEPT !.cur = cur, !.stop = stop, !.va_end = va_end]

ToCopy(e, va_end) ==
  /\ eic' = e /\ pc' = "copy"
  /\ w' = [w EXCEPT !.va_end = va_end]

\* A VMA begins in the range; if not, the cursor moves to the next VMA or to the end.
MmRange ==
  /\ pc = "range" /\ ~Kvm
  /\ LET i == FindVma(w.start) IN
     \/ i = 0 /\ ToCopy(Restart(TaskSize), w.end)
     \/ i # 0 /\ vmas[i].start >= w.end /\ ToCopy(Restart(vmas[i].start), w.end)
     \/ i # 0 /\ vmas[i].start < w.end
        /\ ToPages([eic EXCEPT !.full = FALSE], w.start, w.end, w.end)
  /\ UNCHANGED <<layout, tableVars, userVars, pos, histVars, cleared, fulls, envVars>>

\* ept_idle_find_gpa(): the slot that holds the address, else the nearest above.
\* A slot is walked to its end, also behind the end of the read.
KvmRange ==
  /\ pc = "range" /\ Kvm
  /\ LET noSlot == [Restart(TaskSize) EXCEPT !.gpa_to_hva = 0] IN
     \/ Slot(w.start) = {} /\ Above(w.start) = {} /\ ToCopy(noSlot, w.end)
     \/ /\ Slot(w.start) = {} /\ Above(w.start) # {}
        /\ ToCopy([noSlot EXCEPT !.restart_gpa = LowestOf(Above(w.start))], LowestOf(Above(w.start)))
     \/ \E s \in Slot(w.start) :
          LET e == [eic EXCEPT !.gpa_to_hva = s.start - s.gpa, !.full = FALSE] IN
          IF layout.root
            THEN ToPages(e, w.start - e.gpa_to_hva, s.end - e.gpa_to_hva, s.end)
            ELSE ToCopy(e, s.end)
  /\ UNCHANGED <<layout, tableVars, userVars, pos, histVars, cleared, fulls, envVars>>

PudEnd(a, b) == Least((PudOf(a) + 1) * PudPages, b)
PmdEnd(a, b) == Least((PmdOf(a) + 1) * PmdPages, b)

\* Fault: the error of eic_add_page() does not end the walk.
FaultGoOn(next, over) ==
  w' = [w EXCEPT !.cur = next] /\ pc' = IF next >= w.stop THEN "copy" ELSE "pages"

\* The walk goes on at "next" unless the range ends there or the buffer is full.
GoOn(next, over) ==
  /\ w' = [w EXCEPT !.cur = next]
  /\ pc' = IF over \/ next >= w.stop THEN "copy" ELSE "pages"

PteType(a) ==
  CASE pte[a] = "none" -> "PTE_HOLE" [] pte[a] = "idle" -> "PTE_IDLE" [] OTHER -> "PTE_ACCESSED"

\* A PMD of small pages: ept_pte_range(), mm_idle_pte_range() up to b.
EnterPtes(e, a, b) ==
  /\ pmd[PmdOf(a)] = "table"
  /\ eic' = e
  /\ w' = [w EXCEPT !.pte_end = b]
  /\ pc' = "ptes"
  /\ UNCHANGED <<pmd, cleared>>

AddHuge(e, a, b) ==
  /\ pmd[PmdOf(a)] \in {"idle", "accessed"}
  /\ LET hot == pmd[PmdOf(a)] = "accessed" IN
     /\ eic' = eic_add_page(e, a, b, IF hot THEN "PMD_ACCESSED" ELSE "PMD_IDLE")
     /\ cleared' = IF hot THEN cleared \cup {[type |-> "PMD_ACCESSED",
                                  va |-> RoundDown(a, PmdPages) + eic.gpa_to_hva]}
                   ELSE cleared
  /\ pmd' = [pmd EXCEPT ![PmdOf(a)] = "idle"]
  /\ GoOn(b, eic'.full)

AddHole(e, a, b) ==
  /\ pmd[PmdOf(a)] \in {"none", "swapped"}
  /\ eic' = eic_add_page(e, a, b, "PMD_HOLE")
  /\ GoOn(b, eic'.full)
  /\ UNCHANGED <<pmd, cleared>>

AddPmd(e, a, b) == EnterPtes(e, a, b) \/ AddHuge(e, a, b) \/ AddHole(e, a, b)

\* One page: its bit is tested and cleared before eic_add_page() may fail.
AddPte ==
  /\ pc = "ptes"
  /\ eic' = eic_add_page(eic, w.cur, w.cur + 1, PteType(w.cur))
  /\ IF pte[w.cur] = "accessed"
       THEN /\ pte' = [pte EXCEPT ![w.cur] = "idle"]
            /\ cleared' = cleared \cup {[type |-> "PTE_ACCESSED", va |-> w.cur + eic.gpa_to_hva]}
       ELSE UNCHANGED <<pte, cleared>>
  /\ IF w.cur + 1 < w.pte_end /\ ~eic'.full
       THEN w' = [w EXCEPT !.cur = @ + 1] /\ UNCHANGED pc
       ELSE GoOn(w.pte_end, eic'.full)
  /\ UNCHANGED <<layout, vmas, pud, pmd, userVars, pos, histVars, fulls, envVars>>

\* ept_page_range() down to ept_pmd_range(): a hole moves the cursor.
KvmPages ==
  /\ pc = "pages" /\ Kvm
  /\ LET a == w.cur
         big == PudEnd(a, w.stop) IN
     \/ /\ pud[PudOf(a)] = "none"
        /\ eic' = [eic EXCEPT !.restart_gpa = big]
        /\ GoOn(big, FALSE) /\ UNCHANGED <<pmd, cleared>>
     \/ /\ pud[PudOf(a)] = "present"
        /\ eic' = eic_add_page(eic, a, big, "PUD_PRESENT")
        /\ GoOn(big, eic'.full) /\ UNCHANGED <<pmd, cleared>>
     \/ pud[PudOf(a)] = "table" /\ AddPmd(eic, a, PmdEnd(a, w.stop))
  /\ UNCHANGED <<layout, vmas, pud, pte, userVars, pos, histVars, fulls, envVars>>

\* Where the page walk goes on after addresses for which it calls nothing:
\* outside VMAs, in VMAs not walked, under an empty PUD or PMD.
PassedOver(a) ==
  LET i == FindVma(a)
      b == Least(w.stop, vmas[i].end) IN
  CASE i = 0 -> {w.stop}
    [] i # 0 /\ a < vmas[i].start -> {Least(w.stop, vmas[i].start)}
    [] i # 0 /\ a >= vmas[i].start /\ test_walk_skips(vmas[i]) -> {b}
    [] OTHER -> IF pud[PudOf(a)] = "none" THEN {PudEnd(a, b)}
                ELSE IF pud[PudOf(a)] = "table" /\ pmd[PmdOf(a)] = "none" THEN {PmdEnd(a, b)}
                ELSE {}

MmPassOver ==
  /\ pc = "pages" /\ ~Kvm
  /\ \E next \in PassedOver(w.cur) : GoOn(next, FALSE)
  /\ UNCHANGED <<layout, tableVars, userVars, pos, eic, histVars, cleared, fulls, envVars>>

\* mm_idle_pud_entry(): reports a PUD once and always ends the walk.
MmPudEntry ==
  /\ pc = "pages" /\ ~Kvm /\ PassedOver(w.cur) = {}
  /\ LET a == w.cur
         b == PudEnd(a, Least(w.stop, vmas[FindVma(a)].end)) IN
     /\ pud[PudOf(a)] = "present"
     /\ IF PudOf(a) # PudOf(eic.last_va)
          THEN /\ eic' = [eic_add_page(eic, a, b, "PUD_PRESENT") EXCEPT !.last_va = a]
               /\ UNCHANGED skipped
          ELSE /\ skipped' = skipped \cup (a .. w.stop - 1)
               /\ UNCHANGED eic
  /\ pc' = "copy"
  /\ UNCHANGED <<layout, tableVars, userVars, pos, w, stable, cut, cleared, fulls, envVars>>

\* mm_idle_pmd_entry(): the PMD of last_va counts as done, whatever is left of it.
MmPmdEntry ==
  /\ pc = "pages" /\ ~Kvm /\ PassedOver(w.cur) = {} /\ pud[PudOf(w.cur)] = "table"
  /\ LET a == w.cur
         b == PmdEnd(a, Least(w.stop, vmas[FindVma(a)].end)) IN
     \/ /\ PmdOf(a) = PmdOf(eic.last_va)
        /\ skipped' = skipped \cup (a .. b - 1)
        /\ GoOn(b, FALSE) /\ UNCHANGED <<eic, pmd, cleared>>
     \/ /\ PmdOf(a) # PmdOf(eic.last_va)
        /\ AddPmd([eic EXCEPT !.last_va = a], a, b) /\ UNCHANGED skipped
  /\ UNCHANGED <<layout, vmas, pud, pte, userVars, pos, stable, cut, fulls, envVars>>

\* One turn ends: copy, and go on behind what was walked unless told to stop.
Copy ==
  /\ pc = "copy"
  /\ LET start == eic.restart_gpa + eic.gpa_to_hva
         r == ept_idle_copy_user(eic, start, w.va_end)
         over == r.stop \/ start >= w.end IN
     /\ eic' = r.eic
     /\ w' = [w EXCEPT !.start = start]
     /\ pc' = IF over THEN "parse" ELSE "range"
     /\ pos' = IF over /\ r.eic.bytes_copied > 0 THEN r.eic.next_hva ELSE pos
     /\ fulls' = IF eic.full THEN fulls + 1 ELSE fulls
  /\ UNCHANGED <<layout, tableVars, userVars, histVars, cleared, envVars>>

-----------------------------------------------------------------------------
(* The process during the walk.                                            *)

Running == pc # "done"

\* mm_idle_walk_range() holds mmap_sem for reading; an EPT walk holds nothing.
Unlocked == Running /\ (Kvm \/ pc \notin {"pages", "ptes"})

Touch ==
  /\ Running /\ touches < MaxTouches
  /\ \/ \E a \in DOMAIN pte :
          /\ pud[PudOf(a)] = "table" /\ pmd[PmdOf(a)] = "table" /\ pte[a] = "idle"
          /\ pte' = [pte EXCEPT ![a] = "accessed"] /\ UNCHANGED pmd
     \/ \E i \in DOMAIN pmd :
          /\ pud[PudOf(i * PmdPages)] = "table" /\ pmd[i] = "idle"
          /\ pmd' = [pmd EXCEPT ![i] = "accessed"] /\ UNCHANGED pte
  /\ touches' = touches + 1
  /\ UNCHANGED <<layout, vmas, pud, pc, userVars, pos, eic, w, histVars, cleared, fulls, remaps>>

\* May the whole PMD be one huge page?
OneMapping(i) ==
  IF Kvm THEN \E s \in layout.slots : HvasOf(PagesOfPmd(i)) \subseteq Within(s)
                                     /\ Cardinality(HvasOf(PagesOfPmd(i))) = PmdPages
  ELSE \E j \in DOMAIN vmas : vmas[j].kind = "anon" /\ PagesOfPmd(i) \subseteq Within(vmas[j])

\* A PMD is unmapped, split into pages, or its pages collapse into a huge one,
\* but not while its entries are being read: interrupts are off meanwhile.
Remap ==
  /\ remaps < MaxRemaps
  /\ \E i \in DOMAIN pmd :
     /\ pud[PudOf(i * PmdPages)] = "table" /\ ~(pc = "ptes" /\ PmdOf(w.cur) = i)
     /\ \/ Running /\ pmd[i] # "none"
           /\ pmd' = [pmd EXCEPT ![i] = "none"]
           /\ pte' = [a \in DOMAIN pte |-> IF PmdOf(a) = i THEN "none" ELSE pte[a]]
        \/ Running /\ pmd[i] \in {"idle", "accessed"}
           /\ pmd' = [pmd EXCEPT ![i] = "table"]
           /\ pte' = [a \in DOMAIN pte |-> IF PmdOf(a) = i THEN pmd[i] ELSE pte[a]]
        \/ Unlocked /\ pmd[i] = "table" /\ OneMapping(i)
           /\ pmd' = [pmd EXCEPT ![i] = "idle"]
           /\ pte' = [a \in DOMAIN pte |-> IF PmdOf(a) = i THEN "none" ELSE pte[a]]
     /\ stable' = stable \ Hvas(PagesOfPmd(i))
  /\ remaps' = remaps + 1
  /\ UNCHANGED <<layout, vmas, pud, pc, userVars, pos, eic, w, skipped, cut, cleared, fulls, touches>>

\* VMAs grow, merge and split after sys-refs has loaded them.
ChangeVmas ==
  /\ Unlocked /\ vmas # layout.later /\ remaps < MaxRemaps
  /\ vmas' = layout.later
  /\ remaps' = remaps + 1
  /\ UNCHANGED <<layout, pud, pmd, pte, pc, userVars, pos, eic, w, histVars, cleared, fulls, touches>>

Finished == pc = "done" /\ UNCHANGED vars

UserNext   == Walk \/ WalkVma \/ VmaDone \/ ReadFails \/ ReadStart \/ Parse \/ ReadDone
KernelNext == MmRange \/ KvmRange \/ KvmPages \/ AddPte \/ MmPassOver \/ MmPudEntry \/ MmPmdEntry \/ Copy

Next == UserNext \/ KernelNext \/ Touch \/ Remap \/ ChangeVmas \/ Finished

\* The thread that walks keeps running; nothing is asked of the process.
Spec == Init /\ [][Next]_vars /\ WF_vars(UserNext \/ KernelNext)

-----------------------------------------------------------------------------
(* Properties.                                                             *)

Items == [type : {"SET_HVA"}, arg : Nat] \cup [type : PageTypes, arg : 1 .. MaxRun]

\* The bytes packed by eic_add_page(): a run never exceeds the four bits of
\* its length, an address is never negative.
TypeOK ==
  /\ \A i \in 1 .. Len(eic.kpie) : eic.kpie[i] \in Items
  /\ pc \in {"start", "vma", "loop", "range", "pages", "ptes", "copy", "parse", "done"}
  /\ pte \in [DOMAIN pte -> PteStates] /\ pmd \in [DOMAIN pmd -> PmdStates]
  /\ vmai \in 1 .. Len(layout.vmas) + 1 /\ {va, end, next_va, pos} \subseteq Nat

\* init_ept_idle_ctrl_buffer() and eic_add_page() share the room of two
\* buffers between runs, addresses and the SET_HVA ept_idle_copy_user() adds
\* last: neither the kernel's buffer nor the reader's is ever overrun.
Packed ==
  IF pc = "copy" THEN WithTailHole(eic, eic.restart_gpa + eic.gpa_to_hva, w.va_end) ELSE eic

BuffersFit ==
  /\ Packed.pie_read = BytesOf(Packed.kpie) /\ eic.bytes_copied = BytesOf(eic.out)
  /\ Packed.pie_read <= KBufSize
  /\ eic.bytes_copied <= eic.buf_size
  /\ pc \in {"pages", "ptes", "copy"} => eic.bytes_copied + Packed.pie_read <= eic.buf_size

Decoded == parse_idlepages(eic.out, 0, 2 * TaskSize)

\* "align kernel/user vision of cursor position" (ept_idle.c:165): after a
\* read the parser of the report stands where the kernel left f_pos.
CursorsAgree ==
  pc = "parse" /\ eic.out # <<>> => Decoded.va = pos

\* What AddrSequence relies on: within one walk the pages of a size are
\* counted in increasing order, none of them twice, over all reads and VMAs.
CountedInOrder ==
  \A i, j \in 1 .. Len(refs) :
    i < j /\ pagetype_size(refs[i].type) = pagetype_size(refs[j].type) => refs[i].va < refs[j].va

CountedPages == UNION {PagesOf(refs[i]) : i \in DOMAIN refs}

\* A page mapped during the whole walk is counted, through full buffers,
\* restarts, holes, slots and VMA boundaries, unless the module took its PMD
\* for a duplicate or its run began in the VMA before.
CountsWhatIsThere ==
  pc = "done" /\ ~io_error => stable \subseteq CountedPages \cup skipped \cup cut

\* Testing a page clears its accessed bit before it is known to fit: each
\* time the buffer fills up one access may go unreported, never more.
LosesOnePerFullBuffer ==
  pc = "parse" =>
    LET reported == Decoded.refs
    IN Cardinality(cleared \ {reported[i] : i \in DOMAIN reported}) <= fulls

\* Every read moves the cursor and every walk comes to an end.
WalkEnds == <>(pc = "done")

=============================================================================
