------------------------------ MODULE RefCounts ------------------------------
(***************************************************************************)
(* What an AddrSequence promises its callers: a table from page addresses  *)
(* to a reference count and a NUMA node.  The first walk records           *)
(* addresses, in increasing order; every later walk counts the addresses   *)
(* that are there and leaves the table's domain alone (the contract of     *)
(* inc_payload(), AddrSequence.h:80-90).  Reading returns every entry      *)
(* once, in increasing order of addresses.                                 *)
(*                                                                         *)
(* Nothing here knows of clusters, deltas, buffers or iterators.           *)
(***************************************************************************)
EXTENDS Integers

CONSTANTS Addrs,        \* the addresses a caller may present
          Nids,         \* what locating a page may answer: a node, or < 0
          None,         \* no update in progress, nothing read yet
          EndOfSequence \* the answer of a read past the last entry

VARIABLES table,    \* recorded address -> [refs, nid]
          walks,    \* walks begun so far
          pending,  \* the update in progress, or None
          got       \* the entry the last read returned, or how it ended

tableVars == <<table, walks, pending, got>>

InAppendPeriod == walks < 2

NoNid == -1

Request == [op : {"inc", "set"}, addr : Addrs, arg : {0, 1}]
             \cup [op : {"nid"}, addr : Addrs, arg : Nids]

\* The entry an update leaves behind.
Updated(e, c) ==
  CASE c.op = "inc" -> IF c.arg = 0 THEN e ELSE [e EXCEPT !.refs = @ + 1]
    [] c.op = "set" -> [e EXCEPT !.refs = c.arg]
    [] c.op = "nid" -> [e EXCEPT !.nid = c.arg]

Least(S) == CHOOSE a \in S : \A b \in S : a <= b

Init ==
  /\ table = <<>>
  /\ walks = 0
  /\ pending = None
  /\ got = None

BeginWalk ==
  /\ pending = None
  /\ walks' = walks + 1
  /\ UNCHANGED <<table, pending, got>>

\* The first walk: an address beyond all recorded ones may be added.  Any other
\* is refused, and so is one for which there is no memory: the table stays.
Record(a, n) ==
  /\ InAppendPeriod /\ pending = None
  /\ \A b \in DOMAIN table : b < a
  /\ table' = [b \in DOMAIN table \cup {a} |->
                 IF b = a THEN [refs |-> n, nid |-> NoNid] ELSE table[b]]
  /\ UNCHANGED <<walks, pending, got>>

\* Counts and payloads are updated in later walks only, nodes in the first only.
Allowed(op) == (op = "nid") <=> InAppendPeriod

Ask ==
  /\ pending = None
  /\ pending' \in Request /\ Allowed(pending'.op)
  /\ UNCHANGED <<table, walks, got>>

\* An update reaches its entry if there is one, wherever it is in the table.
Answer ==
  /\ pending # None
  /\ table' = IF pending.addr \in DOMAIN table
                THEN [table EXCEPT ![pending.addr] = Updated(@, pending)]
                ELSE table
  /\ pending' = None
  /\ UNCHANGED <<walks, got>>

\* The entry with the least address in S, or the end of the sequence.
Read(S) ==
  got' = IF S = {} THEN EndOfSequence
         ELSE LET a == Least(S)
              IN  [addr |-> a, refs |-> table[a].refs, nid |-> table[a].nid]

ReadFirst ==
  /\ Read(DOMAIN table)
  /\ UNCHANGED <<table, walks, pending>>

ReadNext ==
  /\ got \notin {None, EndOfSequence}
  /\ Read({a \in DOMAIN table : a > got.addr})
  /\ UNCHANGED <<table, walks, pending>>

Next ==
  \/ BeginWalk
  \/ \E a \in Addrs, n \in {0, 1} : Record(a, n)
  \/ Ask
  \/ Answer
  \/ ReadFirst
  \/ ReadNext

Spec == Init /\ [][Next]_tableVars
==============================================================================
