------------------------- MODULE AddressRangeFilter -------------------------
(***************************************************************************)
(* AddressRangeFilter (AddressRangeFilter.cc): address ranges of processes *)
(* kept apart in one ordered map, rmap, from <<pid, start>> to size.  A    *)
(* new range is joined with the ranges that it overlaps or touches.        *)
(* Iterators are keys of the map, or END.                                  *)
(***************************************************************************)
EXTENDS Integers, FiniteSets

CONSTANT END  \* rmap.end()

ASSUME FilterAssumption == END \notin Nat \X Nat

Before(k, l) == k[1] < l[1] \/ (k[1] = l[1] /\ k[2] < l[2])

FirstKey(keys) == IF keys = {} THEN END ELSE CHOOSE k \in keys : \A l \in keys \ {k} : Before(k, l)
LastKey(keys) == IF keys = {} THEN END ELSE CHOOSE k \in keys : \A l \in keys \ {k} : Before(l, k)

upper_bound(rmap, k) == FirstKey({l \in DOMAIN rmap : Before(k, l)})

EndOf(rmap, it) == it[2] + rmap[it]

\* The range that holds addr; without one, the range of the process below
\* addr; and the next range.  Decrementing begin() gives end() or begin()
\* again: either way nothing is found.
search_range(rmap, pid, addr) ==
  LET k    == <<pid, addr>>
      it   == LastKey({l \in DOMAIN rmap : ~Before(k, l)})
      mine == IF it = END THEN FALSE ELSE it[1] = pid
      in   == IF mine THEN addr < EndOf(rmap, it) ELSE FALSE
  IN [it    |-> IF in THEN it ELSE END,
      lower |-> IF mine /\ ~in THEN it ELSE END,
      upper |-> upper_bound(rmap, k)]

search_address(rmap, pid, addr) == search_range(rmap, pid, addr).it # END

\* insert() does not replace the range of a key that is there.
insert_new_range(rmap, pid, start, size) ==
  [k \in DOMAIN rmap \cup {<<pid, start>>} |-> IF k \in DOMAIN rmap THEN rmap[k] ELSE size]

\* From rm_start, else the first range, up to rm_end: ranges of the process
\* inside the new one are erased, and rm_end itself if the loop gets there.
remove_ranges(rmap, rm_start, rm_end, pid, new_start, new_end) ==
  LET begin   == IF rm_start = END THEN FirstKey(DOMAIN rmap) ELSE rm_start
      onwards == {k \in DOMAIN rmap : ~Before(k, begin)}
      visited == {k \in onwards : IF rm_end = END THEN TRUE ELSE Before(k, rm_end)}
      inside  == {k \in visited : k[1] = pid /\ new_start <= k[2] /\ new_end >= EndOf(rmap, k)}
  IN [k \in DOMAIN rmap \ (inside \cup ({rm_end} \cap onwards)) |-> rmap[k]]

\* Fault: the end of the new range is looked for one address too far, so that a
\* range in front of which one address is free is joined.
FaultInsertRange(rmap, pid, start, size) ==
  LET low       == search_range(rmap, pid, start)
      new_start == IF low.it = END THEN start ELSE low.it[2]
      high      == search_range(rmap, pid, start + size)
      new_end   == IF high.it = END THEN start + size ELSE EndOf(rmap, high.it)
  IN insert_new_range(remove_ranges(rmap, low.it, END, pid, new_start, new_end),
                      pid, new_start, new_end - new_start)

insert_range(rmap, pid, start, size) ==
  LET low     == search_range(rmap, pid, start)
      joins   == IF low.lower = END THEN FALSE ELSE EndOf(rmap, low.lower) = start
      rm_start == IF low.it # END THEN low.it
                  ELSE IF joins THEN low.lower
                  ELSE IF low.lower # END THEN upper_bound(rmap, low.lower) ELSE END
      new_start == IF low.it # END \/ joins THEN rm_start[2] ELSE start
      high    == search_range(rmap, pid, start + size - 1)
      rm_end  == IF high.it = END /\ high.upper = <<pid, start + size>> THEN high.upper ELSE high.it
      new_end == IF rm_end = END THEN start + size ELSE EndOf(rmap, rm_end)
  IN insert_new_range(remove_ranges(rmap, rm_start, rm_end, pid, new_start, new_end),
                      pid, new_start, new_end - new_start)

-----------------------------------------------------------------------------
AddressesOf(pid, start, size) == {pid} \X (start .. start + size - 1)

Covered(rmap) == UNION {AddressesOf(k[1], k[2], rmap[k]) : k \in DOMAIN rmap}

\* What the merging is for: no two ranges of a process overlap or touch.
Apart(rmap) ==
  \A k, l \in DOMAIN rmap : k[1] = l[1] /\ k[2] < l[2] => EndOf(rmap, k) < l[2]

=============================================================================
