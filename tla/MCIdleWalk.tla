----------------------------- MODULE MCIdleWalk -----------------------------
(* Twelve pages, two to a PMD and four to a PUD, in processes and guests   *)
(* that meet full buffers, holes and VMA boundaries.                         *)
EXTENDS IdleWalk

Vma(s, e, k) == [start |-> s, end |-> e, kind |-> k]

MCBase ==
  [mode |-> "mm", has_mm |-> TRUE, cpu |-> TRUE, root |-> TRUE, mlocked |-> FALSE,
   min_read |-> 6, va_start |-> 0, va_end |-> 20, slots |-> {},
   vmas |-> <<>>, later |-> <<>>,
   pud |-> [i \in 0..5 |-> "table"], pmd |-> [i \in 0..9 |-> "table"],
   pte |-> [a \in 0..19 |-> IF a < 4 \/ a > 15 THEN "none" ELSE IF a % 3 = 0 THEN "accessed" ELSE "idle"]]

\* Two VMAs meet inside a PMD; huge pages; a hole; the second grows into it.
MCShared ==
  [MCBase EXCEPT !.vmas  = <<Vma(4, 9, "anon"), Vma(9, 12, "private"), Vma(14, 16, "anon")>>,
                 !.later = <<Vma(4, 9, "anon"), Vma(9, 16, "private")>>,
                 !.pmd[3] = "accessed", !.pmd[5] = "swapped", !.pmd[6] = "none", !.pmd[7] = "idle"]

\* A large page met with a full buffer, swapped pages, a range to stay in.
MCLarge ==
  [MCBase EXCEPT !.vmas  = <<Vma(4, 7, "anon"), Vma(8, 16, "anon")>>,
                 !.later = <<Vma(4, 7, "anon"), Vma(8, 16, "anon")>>,
                 !.pud[2] = "present", !.pmd[6] = "swapped", !.pmd[7] = "idle",
                 !.va_start = 5, !.va_end = 15, !.min_read = 14]

\* A hole up to the end of a read, then a file, which is not walked.
MCFile ==
  [MCBase EXCEPT !.vmas  = <<Vma(4, 8, "anon"), Vma(13, 14, "shared"), Vma(14, 16, "anon")>>,
                 !.later = <<Vma(4, 9, "anon"), Vma(13, 14, "shared"), Vma(14, 16, "anon")>>,
                 !.pud[1] = "present", !.pmd[7] = "idle", !.min_read = 9]

\* One large VMA and a reader with a large buffer: several copies per read.
MCSingle ==
  [MCBase EXCEPT !.vmas = <<Vma(4, 16, "anon")>>, !.later = <<Vma(4, 10, "anon"), Vma(10, 16, "anon")>>,
                 !.pud[2] = "none", !.min_read = 14]

\* Two VMAs meet between two PMDs: a run of idle pages goes on from one to the other.
MCMeet ==
  [MCBase EXCEPT !.vmas  = <<Vma(5, 8, "anon"), Vma(8, 12, "private")>>,
                 !.later = <<Vma(5, 8, "anon"), Vma(8, 12, "private")>>,
                 !.pte = [a \in 0..19 |-> IF a < 4 \/ a > 15 THEN "none" ELSE "idle"], !.min_read = 9]

\* Two slots of a guest with a gap, mapped below where the process sees them.
MCGuest ==
  [MCBase EXCEPT !.mode = "kvm", !.vmas = <<Vma(4, 16, "anon")>>, !.later = <<Vma(4, 16, "anon")>>,
                 !.slots = {[start |-> 4, end |-> 10, gpa |-> 0], [start |-> 12, end |-> 16, gpa |-> 8]},
                 !.pte = [a \in 0..19 |-> IF a > 11 THEN "none" ELSE IF a % 2 = 0 THEN "accessed" ELSE "idle"],
                 !.pud[1] = "none", !.pmd[5] = "idle"]

MCGuestLarge ==
  [MCGuest EXCEPT !.slots = {[start |-> 4, end |-> 16, gpa |-> 0]}, !.pud[1] = "present",
                  !.pmd[5] = "swapped", !.min_read = 14]

MCBroken ==
  {[MCShared EXCEPT !.has_mm = FALSE], [MCShared EXCEPT !.mlocked = TRUE],
   [MCGuest EXCEPT !.cpu = FALSE], [MCGuest EXCEPT !.root = FALSE]}

MCLayouts == {MCShared, MCLarge, MCFile, MCSingle, MCMeet, MCGuest, MCGuestLarge} \cup MCBroken
=============================================================================
