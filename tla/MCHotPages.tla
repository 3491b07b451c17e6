----------------------------- MODULE MCHotPages -----------------------------
(* Three items of two processes, each of two pages: one collides with each *)
(* of the others in one row of the sketch.  A PMEM node has no DRAM node.  *)
EXTENDS HotPages, TLC

Key(p, a) == [pid |-> p, addr |-> a]
MCKeys == {Key(1, 0), Key(1, 1), Key(2, 0)}

MCHashOf ==
  <<(Key(1, 0) :> 0) @@ (Key(1, 1) :> 8) @@ (Key(2, 0) :> 3),
    (Key(1, 0) :> 1) @@ (Key(1, 1) :> 2) @@ (Key(2, 0) :> 9)>>

MCNodeType == [n \in 0 .. 3 |-> IF n \in {1, 2} THEN "PMEM" ELSE "DRAM"]
MCPromote  == (1 :> 0) @@ (2 :> -1)
MCHomes    == [p \in {<<1, 0>>, <<1, 1>>, <<1, 2>>, <<1, 3>>, <<2, 0>>, <<2, 1>>} |->
                 CASE p = <<2, 1>> -> 0 [] p = <<1, 3>> -> -2 [] OTHER -> 1]
MCRecordsOf == <<MCKeys, {Key(2, 0), Skid, Other}>>
MCDramReads == {[c \in 1 .. 2 |-> [local |-> 0, remote |-> 0]], <<[local |-> 2, remote |-> 0], [local |-> 1, remote |-> 4]>>}
MCNodeOf == <<0, 3>>
MCUsed   == [n \in 0 .. 3 |-> IF n = 3 THEN 0 ELSE 2]
MCConfigured == {<<1, 2, 1>>, <<2, 1, 1>>}
=============================================================================
