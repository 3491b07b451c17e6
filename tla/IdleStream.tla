----------------------------- MODULE IdleStream -----------------------------
(***************************************************************************)
(* The report of /proc/idle_pages: how the kernel module packs what it     *)
(* finds in a page table into a small buffer (eic_add_page,                *)
(* init_ept_idle_ctrl_buffer and ept_idle_copy_user of ept_idle.c) and how *)
(* sys-refs unpacks it (ProcIdlePages::parse_idlepages, inc_page_refs).    *)
(*                                                                         *)
(* Addresses count pages of 4 KB.  An item of the report is a SET_HVA      *)
(* command with its address (1 + AddrBytes bytes) or a run of up to MaxRun *)
(* pages of one type (one byte).                                           *)
(***************************************************************************)
EXTENDS Integers, Sequences

CONSTANTS
  PmdPages,    \* pages under a PMD (2 MB)
  PudPages,    \* pages under a PUD (1 GB)
  AddrBytes,   \* sizeof(uint64_t)
  MaxRun,      \* 0xF: the largest run one byte can hold
  KBufSize     \* EPT_IDLE_KBUF_SIZE: bytes the kernel packs before a copy

ASSUME StreamAssumption ==
  /\ PmdPages \in Nat \ {0} /\ AddrBytes \in Nat \ {0} /\ MaxRun \in Nat \ {0}
  /\ KBufSize \in Nat
  /\ PudPages \in Nat \ {0} /\ PudPages % PmdPages = 0

-----------------------------------------------------------------------------
(* Types of pages.  The SCAN_* flags are never set by open_file(), so the  *)
(* DIRTY and IDLE_PTES types do not occur.                                 *)

PteTypes  == {"PTE_ACCESSED", "PTE_IDLE", "PTE_HOLE"}
PmdTypes  == {"PMD_ACCESSED", "PMD_IDLE", "PMD_HOLE"}
PageTypes == PteTypes \cup PmdTypes \cup {"PUD_PRESENT"}
HoleTypes == {"PTE_HOLE", "PMD_HOLE"}
AccessedTypes == {"PTE_ACCESSED", "PMD_ACCESSED"}

pagetype_size(type) ==
  CASE type \in PteTypes -> 1 [] type \in PmdTypes -> PmdPages [] OTHER -> PudPages

RoundDown(a, n) == a - (a % n)
RoundUp(a, n)   == RoundDown(a + n - 1, n)

SetHva(va)   == [type |-> "SET_HVA", arg |-> va]
Run(type, n) == [type |-> type, arg |-> n]
Bytes(item)  == IF item.type = "SET_HVA" THEN AddrBytes + 1 ELSE 1

-----------------------------------------------------------------------------
(* The kernel side: struct ept_idle_ctrl.  "out" is what reached the user  *)
(* buffer, "full" the error of the last eic_add_page().                    *)

setup_ept_idle_ctrl(size) ==
  [kpie |-> <<>>, pie_read |-> 0, pie_read_max |-> 0, buf_size |-> size,
   bytes_copied |-> 0, next_hva |-> 0, gpa_to_hva |-> 0, restart_gpa |-> 0,
   last_va |-> 0, full |-> FALSE, out |-> <<>>]

Least(a, b) == IF a < b THEN a ELSE b

\* Fault: no room is kept for the last SET_HVA.
FaultInitBuffer(e) ==
  [e EXCEPT !.kpie = <<>>, !.pie_read = 0,
            !.pie_read_max = Least(KBufSize, e.buf_size - e.bytes_copied)]

\* The buffer is emptied, with room kept for one SET_HVA at the end.
init_ept_idle_ctrl_buffer(e) ==
  [e EXCEPT !.kpie = <<>>, !.pie_read = 0,
            !.pie_read_max = Least(KBufSize, e.buf_size - e.bytes_copied) - (AddrBytes + 1)]

\* EPT_IDLE_KBUF_FULL: not even one address and one run would fit.
NoRoom(e) == e.pie_read_max <= AddrBytes + 2

eic_report_addr(e, va) ==
  [e EXCEPT !.kpie = Append(@, SetHva(va)), !.pie_read = @ + AddrBytes + 1]

\* Fault: the walk would restart behind the page that found no room.
FaultKbufFull(e, addr) == [e EXCEPT !.full = TRUE, !.restart_gpa = addr + 1]

KbufFull(e, addr) == [e EXCEPT !.full = TRUE, !.restart_gpa = addr]

\* Fault: the restart address is left behind.
FaultAdvance(e, next) == [e EXCEPT !.next_hva = next + e.gpa_to_hva]

Advance(e, next) ==
  [e EXCEPT !.next_hva = next + e.gpa_to_hva, !.restart_gpa = next]

NewItem(e, next, type) ==
  [Advance(e, next) EXCEPT !.kpie = Append(e.kpie, Run(type, 1)),
                           !.pie_read = e.pie_read + 1]

AddApart(e, addr, next, type) ==
  IF type \in HoleTypes THEN [e EXCEPT !.restart_gpa = next]
  ELSE IF e.pie_read + AddrBytes + 2 >= e.pie_read_max THEN KbufFull(e, addr)
  ELSE NewItem(eic_report_addr(e, RoundDown(addr, pagetype_size(type)) + e.gpa_to_hva),
               next, type)

\* Fault: a run is incremented past the four bits of its length.
FaultAddNext(e, addr, next, type) ==
  LET n == Len(e.kpie) IN
  IF e.kpie[n].type = type
    THEN [Advance(e, next) EXCEPT !.kpie = [e.kpie EXCEPT ![n] = Run(type, e.kpie[n].arg + 1)]]
  ELSE IF e.pie_read >= e.pie_read_max THEN KbufFull(e, addr)
  ELSE NewItem(e, next, type)

AddNext(e, addr, next, type) ==
  LET n == Len(e.kpie) IN
  IF e.kpie[n].type = type /\ e.kpie[n].arg < MaxRun
    THEN [Advance(e, next) EXCEPT !.kpie = [e.kpie EXCEPT ![n] = Run(type, e.kpie[n].arg + 1)]]
  ELSE IF e.pie_read >= e.pie_read_max THEN KbufFull(e, addr)
  ELSE NewItem(e, next, type)

\* Fault: next is not rounded to the size of the page.
FaultAddPage(e, addr, next, type) ==
  IF e.pie_read = 0 \/ addr + e.gpa_to_hva # e.next_hva
    THEN AddApart(e, addr, next, type)
    ELSE AddNext(e, addr, next, type)

\* The type at addr, up to next, joins the report unless it is full.
eic_add_page(e, addr, next, type) ==
  LET upto == RoundUp(next, pagetype_size(type)) IN
  IF e.pie_read = 0 \/ addr + e.gpa_to_hva # e.next_hva
    THEN AddApart(e, addr, upto, type)
    ELSE AddNext(e, addr, upto, type)

BytesOf(items) ==
  LET upto[i \in 0 .. Len(items)] == IF i = 0 THEN 0 ELSE upto[i - 1] + Bytes(items[i])
  IN upto[Len(items)]

\* Fault: nothing is reported for a range without pages.
FaultTailHole(e, start, end) == e

\* A buffer without a page moves the cursor over the hole that was walked.
WithTailHole(e, start, end) ==
  LET s == IF e.pie_read = 0 /\ start < end THEN end ELSE start IN
  IF s >= end /\ s > e.next_hva
    THEN [eic_report_addr(e, s) EXCEPT !.next_hva = s]
    ELSE e

CopyOut(e) ==
  [e EXCEPT !.out = @ \o e.kpie, !.bytes_copied = @ + e.pie_read]

\* What was packed goes to the user; "stop" is a return other than 0.
ept_idle_copy_user(e, start, end) ==
  LET tailed == WithTailHole(e, start, end)
      copied == CopyOut(tailed)
      again  == init_ept_idle_ctrl_buffer(copied) IN
  IF tailed.pie_read = 0 THEN [eic |-> e, stop |-> TRUE]
  ELSE IF e.pie_read = 0 \/ copied.bytes_copied >= copied.buf_size
    THEN [eic |-> copied, stop |-> TRUE]
  ELSE [eic |-> again, stop |-> NoRoom(again)]

-----------------------------------------------------------------------------
(* The user side.  A page counted is [type, va].                           *)

\* A run is counted page by page up to the end of the VMA, unless unaligned.
inc_page_refs(type, nr, va, end) ==
  LET size == pagetype_size(type) IN
  IF (va % size) # 0 THEN <<>>
  ELSE LET room == (end - va + size - 1) \div size
       IN [i \in 1 .. Least(nr, room) |-> [type |-> type, va |-> va + (i - 1) * size]]

\* The types are those that the module packs.  At any other, which it never writes, the
\* parser would not advance (ProcIdlePages.cc:397-401).
ParseItem(p, item, end) ==
  IF p.late # {} THEN p
  ELSE IF item.type = "SET_HVA" THEN [p EXCEPT !.va = item.arg]
  ELSE IF p.va >= end THEN [p EXCEPT !.late = {p.va}]
  ELSE [p EXCEPT !.va = @ + pagetype_size(item.type) * item.arg,
                 !.refs = IF item.type \in HoleTypes THEN @
                          ELSE @ \o inc_page_refs(item.type, item.arg, p.va, end)]

\* late: where the parser met an address at or after the end and gave up.
parse_idlepages(items, va, end) ==
  LET after[i \in 0 .. Len(items)] ==
        IF i = 0 THEN [va |-> va, refs |-> <<>>, late |-> {}]
        ELSE ParseItem(after[i - 1], items[i], end)
  IN after[Len(items)]

PagesOf(ref) == ref.va .. ref.va + pagetype_size(ref.type) - 1

=============================================================================
