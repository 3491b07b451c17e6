--------------------------- MODULE MCMigrateParam ---------------------------
(* A small instance of MigrateParam: two ranges, pages of 4 and of 8 KB.     *)
(* The first cell has two pages or none for every reference count on either  *)
(* kind of memory, the others have pages of a few reference counts.          *)
EXTENDS MigrateParam

At(n, pages) == [m \in 0..NrWalks |-> IF m = n THEN pages ELSE 0]
Two == [0..NrWalks -> {0, 2}]
None == At(0, 0)
Hot == At(NrWalks, 2)
Warm == At(1, 1)

MCPageKb == <<4, 8>>
MCPercents == {0, 30, 50}

MCInputs ==
  {InputOf(<<h, k, Warm, None>>, <<g, None, l, None>>, p) :
     h \in Two, g \in Two, k \in {None, Warm, Hot}, l \in {None, Warm, Hot}, p \in MCPercents}

\* The second range has no histogram.
MCFailed ==
  {InputOf(<<h, None, None, None>>, <<g, None, None, None>>, 50) : h \in Two, g \in Two}

=============================================================================
