------------------------- MODULE MigratePagesProofs -------------------------
(***************************************************************************)
(* Proofs about MigratePages and the nodes it migrates between: for every  *)
(* number of nodes, every sequence of files and every number of reloads,   *)
(* and for every table, batch size and answer of move_pages(2).            *)
(***************************************************************************)
EXTENDS MigratePages, SequenceTheorems, FiniteSetTheorems, WellFoundedInduction, TLAPS

-----------------------------------------------------------------------------
(* Proofs by induction: the theorems of the library take the formula as an *)
(* operator, here it is the set of the numbers that satisfy it.            *)

LessOnNat == {pair \in Nat \X Nat : pair[1] < pair[2]}

\* Every set of natural numbers has a least element.
LEMMA LessWellFounded == IsWellFoundedOn(LessOnNat, Nat)
  BY NatLessThanWellFounded, Zenon DEF OpToRel, LessOnNat

\* A set that holds 0 and the successor of each of its numbers holds them all.
LEMMA SetInduction ==
  ASSUME NEW S, 0 \in S, \A n \in Nat : n \in S => n + 1 \in S
  PROVE  \A n \in Nat : n \in S
  <1> DEFINE T == Nat \ S
  <1>1. \A x, y \in Nat : y < x => <<y, x>> \in LessOnNat
    BY DEF LessOnNat
  <1> SUFFICES ASSUME T # {} PROVE FALSE
    OBVIOUS
  <1>2. \E x \in T : \A y \in T : <<y, x>> \notin LessOnNat
    <2>1. T \subseteq Nat
      OBVIOUS
    <2> HIDE DEF T
    <2> QED
      BY LessWellFounded, WFMin, <2>1, Zenon
  <1>3. PICK x \in T : \A y \in T : <<y, x>> \notin LessOnNat
    BY <1>2
  <1>4. x \in Nat /\ x # 0 /\ x \notin S
    OBVIOUS
  <1>5. x - 1 \in Nat /\ x - 1 < x
    BY <1>4
  <1>6. x - 1 \in S
    BY <1>1, <1>3, <1>4, <1>5
  <1> QED
    BY <1>4, <1>5, <1>6

-----------------------------------------------------------------------------
\* A sequence that was appended to begins as before.
LEMMA Appended ==
  ASSUME NEW S, NEW s \in Seq(S), NEW t \in Seq(S)
  PROVE  /\ s \o t = <<>> => s = <<>>
         /\ \A j \in DOMAIN s : j \in DOMAIN (s \o t) /\ (s \o t)[j] = s[j]
         /\ \A j \in DOMAIN (s \o t), i \in DOMAIN s : j <= i => j \in DOMAIN s
  <1>1. s \o t \in Seq(S) /\ Len(s \o t) = Len(s) + Len(t)
    BY ConcatProperties
  <1>2. /\ DOMAIN s = 1 .. Len(s) /\ Len(s) \in Nat /\ Len(t) \in Nat
        /\ DOMAIN (s \o t) = 1 .. Len(s \o t)
    BY <1>1, LenProperties
  <1>3. \A j \in 1 .. Len(s) + Len(t) : (s \o t)[j] = IF j <= Len(s) THEN s[j] ELSE t[j - Len(s)]
    BY ConcatProperties
  <1>4. ASSUME s \o t = <<>> PROVE s = <<>>
    <2>1. Len(s \o t) = 0
      BY <1>4, EmptySeq
    <2>2. Len(s) = 0
      BY <1>1, <1>2, <2>1
    <2> QED
      BY <2>2, EmptySeq
  <1>5. \A j \in DOMAIN s : j \in DOMAIN (s \o t) /\ (s \o t)[j] = s[j]
    BY <1>1, <1>2, <1>3
  <1>6. \A j \in DOMAIN (s \o t), i \in DOMAIN s : j <= i => j \in DOMAIN s
    BY <1>1, <1>2
  <1> QED
    BY <1>4, <1>5, <1>6

-----------------------------------------------------------------------------
(* Types of the nodes and of what they are made from.                      *)

NodesTyped ==
  /\ heap \in [Cells -> NodeObject]
  /\ node_map \in [Ids -> Cells \cup {NULL}]
  /\ hw.entries \in Seq(NumaHWConfigEntry)
  /\ hw.lists = NoLists \/ hw.lists.types \in [Ids -> NodeTypes]
  /\ setup \in [stage : {"create", "link", "ready", "crashed"}, i : Nat \ {0}]

\* What nodes are created from has types, from each source.
LEMMA ToCreateType ==
  ASSUME NodesTyped
  PROVE  /\ Len(ToCreate) \in Nat /\ DOMAIN ToCreate = 1 .. Len(ToCreate)
         /\ \A i \in DOMAIN ToCreate : ToCreate[i].type \in NodeTypes
  <1>1. CASE Source = "v1"
    <2>1. hw.lists.types \in [Ids -> NodeTypes]
      BY <1>1 DEF NodesTyped, Source, SourceOf
    <2>2. ToCreate = [i \in 1 .. NrNodes |-> [id |-> i - 1, type |-> hw.lists.types[i - 1]]]
      BY <1>1 DEF ToCreate
    <2>3. NrNodes \in Nat /\ \A i \in 1 .. NrNodes : i - 1 \in Ids
      BY NodesAssumption DEF Ids
    <2>4. Len(ToCreate) = NrNodes /\ DOMAIN ToCreate = 1 .. NrNodes
      BY <2>2, <2>3
    <2> QED
      BY <2>1, <2>2, <2>3, <2>4
  <1>2. CASE Source # "v1"
    <2>1. ToCreate \in Seq(NumaHWConfigEntry)
      BY <1>2, NodesAssumption DEF NodesTyped, ToCreate
    <2>2. \A i \in 1 .. Len(ToCreate) : ToCreate[i] \in NumaHWConfigEntry
      BY <2>1, ElementOfSeq
    <2>3. Len(ToCreate) \in Nat /\ DOMAIN ToCreate = 1 .. Len(ToCreate)
      BY <2>1, LenProperties
    <2> QED
      BY <2>2, <2>3 DEF NumaHWConfigEntry
  <1> QED
    BY <1>1, <1>2

\* Nodes keep their types, whatever the lists point to.
LEMMA NumaNextTyped ==
  ASSUME NodesTyped, NumaNext
  PROVE  NodesTyped'
  <1> USE DEF confVars, listVars
  <1>1. CASE Reload
    <2>1. PICK f \in Files : hw' = reparse(f)
      BY <1>1 DEF Reload
    <2>2. hw'.entries \in Seq(NumaHWConfigEntry)
      BY <2>1, NodesAssumption DEF reparse, NodesTyped
    <2>3. hw'.lists = NoLists \/ hw'.lists.types \in [Ids -> NodeTypes]
      BY <2>1, NodesAssumption DEF reparse, NodesTyped
    <2> QED
      BY <1>1, <2>2, <2>3 DEF Reload, NodesTyped
  <1>2. CASE CreateNode
    <2> DEFINE e == ToCreate[setup.i]
    <2>0. UNCHANGED hw /\ setup' \in [stage : {"create", "link", "ready", "crashed"}, i : Nat \ {0}]
      BY <1>2 DEF CreateNode, NewNode, Skip, Go, NodesTyped
    <2>1. e.type \in NodeTypes
      <3>1. setup.i \in DOMAIN ToCreate
        BY <1>2, ToCreateType DEF CreateNode, NodesTyped
      <3> QED
        BY <3>1, ToCreateType
    <2>2. CASE e.id \in Ids /\ NewNode(e)
      <3>1. PICK c \in Cells : /\ heap' = [heap EXCEPT ![c] = [Unused EXCEPT !.id = e.id, !.type = e.type]]
                               /\ node_map' = [node_map EXCEPT ![e.id] = c]
        BY <2>2 DEF NewNode
      <3>2. [Unused EXCEPT !.id = e.id, !.type = e.type] \in NodeObject
        BY <2>1, <2>2 DEF Unused, NodeObject
      <3> QED
        BY <2>0, <2>2, <3>1, <3>2 DEF NodesTyped
    <2>3. CASE UNCHANGED <<heap, node_map>>
      BY <2>0, <2>3 DEF NodesTyped
    <2> QED
      BY <1>2, <2>2, <2>3 DEF CreateNode
  <1>3. CASE SetDefaults
    <2>1. \A c \in Cells : heap'[c] \in NodeObject
      <3>1. SUFFICES ASSUME NEW c \in Cells PROVE heap'[c] \in NodeObject
        OBVIOUS
      <3>2. /\ heap[c] \in NodeObject
            /\ heap'[c] = [heap[c] EXCEPT
                             !.promote_target = IF c \in Range(dram_nodes) THEN c ELSE @,
                             !.demote_target  = IF c \in Range(pmem_nodes) THEN c ELSE @]
        BY <1>3 DEF SetDefaults, NodesTyped
      <3> QED
        BY <3>2 DEF NodeObject
    <2>2. heap' \in [Cells -> NodeObject]
      <3>1. heap' = [c \in Cells |-> heap'[c]]
        BY <1>3 DEF SetDefaults
      <3> QED
        BY <2>1, <3>1
    <2> QED
      <3>1. UNCHANGED <<node_map, hw>>
        BY <1>3 DEF SetDefaults
      <3>2. setup' = [stage |-> "link", i |-> 1]
        BY <1>3 DEF SetDefaults, Go
      <3>3. setup' \in [stage : {"create", "link", "ready", "crashed"}, i : Nat \ {0}]
        BY <3>2
      <3> QED
        BY <2>2, <3>1, <3>3 DEF NodesTyped
  <1>4. CASE LinkNode
    <2> DEFINE l == ToLink[setup.i]
    <2>0. /\ UNCHANGED <<hw, node_map>>
          /\ setup' \in [stage : {"create", "link", "ready", "crashed"}, i : Nat \ {0}]
      BY <1>4 DEF LinkNode, Skip, Go, NodesTyped
    <2>1. CASE /\ l.id \in Ids /\ l.peer \in Ids /\ node_map[l.id] # NULL
               /\ heap' = set_peer_node(node_map[l.id], node_map[l.peer])
      <3>1. node_map[l.id] \in Cells /\ node_map[l.peer] \in Cells \cup {NULL}
        BY <2>1 DEF NodesTyped
      <3>2. PICK c, q, n : c = node_map[l.id] /\ q = node_map[l.peer] /\ n = heap[c]
        OBVIOUS
      <3>3. heap \in [Cells -> NodeObject] /\ n \in NodeObject /\ q \in Cells \cup {NULL}
        BY <3>1, <3>2 DEF NodesTyped
      <3>4. PICK m : m = CASE n.type = "DRAM" -> [n EXCEPT !.demote_target = q]
                           [] n.type = "PMEM" -> [n EXCEPT !.promote_target = q]
                           [] OTHER -> n
        OBVIOUS
      <3>5. m \in {[n EXCEPT !.demote_target = q], [n EXCEPT !.promote_target = q], n}
        BY <3>4
      <3>6. m \in NodeObject
        BY <3>3, <3>5 DEF NodeObject
      <3>7. heap' = [heap EXCEPT ![c] = m]
        BY <2>1, <3>2, <3>4 DEF set_peer_node
      <3>8. heap' \in [Cells -> NodeObject]
        BY <3>3, <3>6, <3>7
      <3> QED
        BY <2>0, <3>8 DEF NodesTyped
    <2>2. CASE UNCHANGED heap
      BY <2>0, <2>2 DEF NodesTyped
    <2> QED
      BY <1>4, <2>1, <2>2 DEF LinkNode
  <1>5. CASE InitCpuMap
    BY <1>5 DEF InitCpuMap, NodesTyped, Go
  <1> QED
    BY <1>1, <1>2, <1>3, <1>4, <1>5 DEF NumaNext

-----------------------------------------------------------------------------
(* Peers.                                                                  *)

Creates(e) == e.type # "END" /\ e.id \in Ids
Aborts(e)  == ~Creates(e) /\ ~(Source = "v2" /\ (e.type = "END" \/ e.id < 0))

\* Collection creates this node, at entry i or later.
Reached(nid, i) ==
  \E j \in DOMAIN ToCreate :
    /\ j >= i /\ Creates(ToCreate[j]) /\ ToCreate[j].id = nid
    /\ \A k \in DOMAIN ToCreate : k >= i /\ k <= j => ~Aborts(ToCreate[k])

Fresh(c)  == heap[c].promote_target = NULL /\ heap[c].demote_target = NULL
Linked(c) == {heap[c].promote_target, heap[c].demote_target} \subseteq Live \cup {NULL}

\* Nodes are still taken from where they were first, entries or sysfs.
SameSource == Source = first /\ Source # "v1"

\* Every node that is owned has its id and is one that a collection creates, again and
\* again: while nodes are created its pointers were reset or will be, and then they
\* name owned nodes.
Peers ==
  /\ first = "v2" => hw.entries # <<>>
  /\ SameSource =>
       /\ setup.stage = "create" =>
            \A k \in DOMAIN ToCreate : k < setup.i => ~Aborts(ToCreate[k])
       /\ \A nid \in Ids : node_map[nid] # NULL =>
            /\ heap[node_map[nid]].id = nid
            /\ Reached(nid, 1)
            /\ setup.stage = "create" => Fresh(node_map[nid]) \/ Reached(nid, setup.i)
            /\ setup.stage \in {"link", "ready"} => Linked(node_map[nid])

\* The nodes that are owned.
LEMMA LiveNodes ==
  ASSUME NodesTyped
  PROVE  \A c : c \in Live <=> c # NULL /\ \E nid \in Ids : node_map[nid] = c
  BY DEF Live, Range, NodesTyped

\* A reload leaves a source it came to for another one only for ever.
LEMMA ReloadPeers ==
  ASSUME NodesTyped, Peers, Reload
  PROVE  Peers'
  <1> USE DEF listVars
  <1>1. PICK f \in Files : hw' = reparse(f)
    BY DEF Reload
  <1>2. /\ setup.stage = "ready" /\ setup' = [stage |-> "create", i |-> 1]
        /\ UNCHANGED <<heap, node_map, first>>
    BY DEF Reload
  <1>3. f.entries \in Seq(NumaHWConfigEntry) /\ hw.entries \in Seq(NumaHWConfigEntry)
    BY NodesAssumption DEF NodesTyped
  <1>4. /\ hw'.entries = hw.entries \o f.entries
        /\ hw'.lists = NoLists => hw.lists = NoLists
    BY <1>1 DEF reparse
  <1>5. hw'.entries = <<>> => hw.entries = <<>>
    BY <1>3, <1>4, Appended
  <1>6. first' = "v2" => hw'.entries # <<>>
    BY <1>2, <1>5 DEF Peers
  <1>7. ASSUME SameSource'
        PROVE  /\ SameSource /\ Source' = Source
               /\ \A j \in DOMAIN ToCreate : j \in DOMAIN ToCreate' /\ ToCreate'[j] = ToCreate[j]
               /\ \A j \in DOMAIN ToCreate', i \in DOMAIN ToCreate : j <= i => j \in DOMAIN ToCreate
    <2>1. hw'.lists = NoLists /\ hw.lists = NoLists
      BY <1>4, <1>7 DEF SameSource, Source, SourceOf
    <2>2. CASE hw'.entries # <<>>
      <3>1. Source' = "v2" /\ first = "v2"
        BY <1>2, <1>7, <2>1, <2>2 DEF SameSource, Source, SourceOf
      <3>2. hw.entries # <<>>
        BY <3>1 DEF Peers
      <3>3. Source = "v2"
        BY <2>1, <3>2 DEF Source, SourceOf
      <3>4. ToCreate = hw.entries /\ ToCreate' = hw.entries \o f.entries
        BY <1>4, <3>1, <3>3 DEF ToCreate
      <3>5. /\ \A j \in DOMAIN ToCreate : j \in DOMAIN ToCreate' /\ ToCreate'[j] = ToCreate[j]
            /\ \A j \in DOMAIN ToCreate', i \in DOMAIN ToCreate : j <= i => j \in DOMAIN ToCreate
        BY <1>3, <3>4, Appended
      <3> QED
        BY <3>1, <3>3, <3>5 DEF SameSource
    <2>3. CASE hw'.entries = <<>>
      <3>1. hw.entries = <<>>
        BY <1>5, <2>3
      <3>2. Source' = "sysfs" /\ Source = "sysfs"
        BY <2>1, <2>3, <3>1 DEF Source, SourceOf
      <3>3. ToCreate = Sysfs /\ ToCreate' = Sysfs
        BY <3>2 DEF ToCreate
      <3> QED
        BY <1>2, <1>7, <3>2, <3>3, NodesAssumption DEF SameSource
    <2> QED
      BY <2>2, <2>3
  <1>8. ASSUME SameSource', NEW nid \in Ids, node_map'[nid] # NULL
        PROVE  heap'[node_map'[nid]].id = nid /\ Reached(nid, 1)'
    <2>1. heap[node_map[nid]].id = nid /\ Reached(nid, 1)
      BY <1>2, <1>7, <1>8 DEF Peers
    <2>2. \A e : (Creates(e)' <=> Creates(e)) /\ (Aborts(e)' <=> Aborts(e))
      BY <1>7, <1>8 DEF Creates, Aborts
    <2>3. PICK j \in DOMAIN ToCreate :
            /\ j >= 1 /\ Creates(ToCreate[j]) /\ ToCreate[j].id = nid
            /\ \A k \in DOMAIN ToCreate : k >= 1 /\ k <= j => ~Aborts(ToCreate[k])
      BY <2>1 DEF Reached
    <2>4. \A k \in DOMAIN ToCreate' : k >= 1 /\ k <= j => ~Aborts(ToCreate'[k])
      BY <1>7, <1>8, <2>3
    <2>5. j \in DOMAIN ToCreate' /\ ToCreate'[j] = ToCreate[j]
      BY <1>7, <1>8
    <2>6. Reached(nid, 1)'
      BY <2>2, <2>3, <2>4, <2>5 DEF Reached, Creates, Aborts
    <2> QED
      BY <1>2, <2>1, <2>6
  <1>9. \A k \in DOMAIN ToCreate' : ~(k < setup'.i)
    <2>1. NodesTyped'
      BY NumaNextTyped DEF NumaNext
    <2>2. DOMAIN ToCreate' = 1 .. Len(ToCreate') /\ Len(ToCreate') \in Nat
      BY <2>1, ToCreateType
    <2> QED
      BY <1>2, <2>2
  <1> QED
    BY <1>2, <1>6, <1>8, <1>9 DEF Peers

\* A step that reads the configuration, and so goes on with the same entries.
LEMMA SameConf ==
  ASSUME UNCHANGED confVars
  PROVE  /\ ToCreate' = ToCreate /\ Source' = Source /\ (SameSource' <=> SameSource)
         /\ \A e : (Creates(e)' <=> Creates(e)) /\ (Aborts(e)' <=> Aborts(e))
         /\ \A nid, i : Reached(nid, i)' <=> Reached(nid, i)
         /\ first' = first /\ hw' = hw
  <1>1. UNCHANGED <<hw, first>>
    BY DEF confVars
  <1>2. ToCreate' = ToCreate /\ Source' = Source /\ (SameSource' <=> SameSource)
    BY <1>1 DEF ToCreate, Source, SourceOf, SameSource
  <1>3. \A e : (Creates(e)' <=> Creates(e)) /\ (Aborts(e)' <=> Aborts(e))
    BY <1>2 DEF Creates, Aborts
  <1>4. \A nid, i : Reached(nid, i)' <=> Reached(nid, i)
    BY <1>2, <1>3 DEF Reached, Creates, Aborts
  <1> QED
    BY <1>1, <1>2, <1>3, <1>4

\* A node that comes later than an entry that creates another one, or none, still comes.
LEMMA ReachedLater ==
  ASSUME NodesTyped, NEW nid \in Ids, NEW i \in Nat, Reached(nid, i),
         i \in DOMAIN ToCreate => ~(Creates(ToCreate[i]) /\ ToCreate[i].id = nid)
  PROVE  Reached(nid, i + 1)
  <1>1. PICK j \in DOMAIN ToCreate :
          /\ j >= i /\ Creates(ToCreate[j]) /\ ToCreate[j].id = nid
          /\ \A k \in DOMAIN ToCreate : k >= i /\ k <= j => ~Aborts(ToCreate[k])
    BY DEF Reached
  <1>2. j # i
    BY <1>1
  <1>3. \A k \in DOMAIN ToCreate : k \in Nat
    BY ToCreateType
  <1>4. j >= i + 1 /\ \A k \in DOMAIN ToCreate : k >= i + 1 => k >= i
    BY <1>1, <1>2, <1>3
  <1> QED
    BY <1>1, <1>4 DEF Reached

\* A node is created, an entry is left out, or collection ends early.
LEMMA CreateNodePeers ==
  ASSUME NodesTyped, Peers, CreateNode
  PROVE  Peers'
  <1> DEFINE e == ToCreate[setup.i]
  <1>0. /\ setup.stage = "create" /\ UNCHANGED confVars /\ setup.i \in Nat \ {0}
        /\ setup.i \in DOMAIN ToCreate
    BY ToCreateType DEF CreateNode, NodesTyped
  <1>a. \A k \in DOMAIN ToCreate : k \in Nat
    BY ToCreateType
  <1>b. first' = "v2" => hw'.entries # <<>>
    BY <1>0, SameConf DEF Peers
  <1>c. SUFFICES ASSUME SameSource PROVE Peers'
    BY <1>0, <1>b, SameConf DEF Peers
  <1>1. CASE Creates(e) /\ NewNode(e)
    <2>1. PICK c \in Cells \ Live :
            /\ heap' = [heap EXCEPT ![c] = [Unused EXCEPT !.id = e.id, !.type = e.type]]
            /\ node_map' = [node_map EXCEPT ![e.id] = c]
      BY <1>1 DEF NewNode
    <2>2. setup' = [setup EXCEPT !.i = @ + 1] /\ e.id \in Ids
      BY <1>1 DEF NewNode, Skip, Creates
    <2>3. setup'.stage = "create" /\ setup'.i = setup.i + 1
      BY <1>0, <2>2 DEF NodesTyped
    <2>4. ~Aborts(e)
      BY <1>1 DEF Aborts
    <2>5. \A k \in DOMAIN ToCreate : k < setup.i + 1 => ~Aborts(ToCreate[k])
      BY <1>0, <1>a, <1>c, <2>4 DEF Peers
    <2>6. Reached(e.id, 1)
      BY <1>0, <1>1, <1>a, <2>5 DEF Reached
    <2>7. ASSUME NEW nid \in Ids, node_map'[nid] # NULL
          PROVE  /\ heap'[node_map'[nid]].id = nid
                 /\ Reached(nid, 1)
                 /\ Fresh(node_map[nid])' \/ Reached(nid, setup.i + 1)
      <3>1. CASE nid = e.id
        <4>1. node_map'[nid] = c /\ heap'[c] = [Unused EXCEPT !.id = e.id, !.type = e.type]
          BY <2>1, <2>2, <3>1 DEF NodesTyped
        <4>2. heap'[c].id = nid /\ heap'[c].promote_target = NULL /\ heap'[c].demote_target = NULL
          BY <3>1, <4>1 DEF Unused
        <4> QED
          BY <2>6, <3>1, <4>1, <4>2 DEF Fresh
      <3>2. CASE nid # e.id
        <4>1. node_map'[nid] = node_map[nid]
          BY <2>1, <3>2 DEF NodesTyped
        <4>2. node_map[nid] \in Live
          BY <2>7, <4>1, LiveNodes
        <4>3. heap'[node_map[nid]] = heap[node_map[nid]]
          BY <2>1, <2>7, <4>1, <4>2 DEF NodesTyped
        <4>4. /\ heap[node_map[nid]].id = nid /\ Reached(nid, 1)
              /\ Fresh(node_map[nid]) \/ Reached(nid, setup.i)
          BY <1>0, <1>c, <2>7, <4>1 DEF Peers
        <4>5. Reached(nid, setup.i) => Reached(nid, setup.i + 1)
          BY <1>0, <3>2, ReachedLater
        <4> QED
          BY <4>1, <4>3, <4>4, <4>5 DEF Fresh
      <3> QED
        BY <3>1, <3>2
    <2> QED
      BY <1>0, <1>b, <2>3, <2>5, <2>7, SameConf DEF Peers
  <1>2. CASE ~Creates(e) /\ UNCHANGED <<heap, node_map>>
    <2>0. \A nid \in Ids : node_map[nid] # NULL =>
            /\ heap[node_map[nid]].id = nid /\ Reached(nid, 1)
            /\ Fresh(node_map[nid]) \/ Reached(nid, setup.i)
      BY <1>0, <1>c DEF Peers
    <2>1. CASE ~Aborts(e) /\ Skip
      <3>1. setup'.stage = "create" /\ setup'.i = setup.i + 1
        BY <1>0, <2>1 DEF Skip, NodesTyped
      <3>2. \A k \in DOMAIN ToCreate : k < setup.i + 1 => ~Aborts(ToCreate[k])
        BY <1>0, <1>a, <1>c, <2>1 DEF Peers
      <3>3. \A nid \in Ids : Reached(nid, setup.i) => Reached(nid, setup.i + 1)
        BY <1>0, <1>2, ReachedLater
      <3>4. \A nid \in Ids : Fresh(node_map[nid])' <=> Fresh(node_map[nid])
        BY <1>2 DEF Fresh
      <3> QED
        BY <1>0, <1>2, <1>b, <2>0, <3>1, <3>2, <3>3, <3>4, SameConf DEF Peers
    <2>2. CASE Aborts(e) /\ Go("ready")
      <3>1. setup'.stage = "ready"
        BY <2>2 DEF Go
      <3>2. \A nid \in Ids : ~Reached(nid, setup.i)
        BY <1>0, <1>a, <2>2 DEF Reached
      <3>3. \A nid \in Ids : node_map[nid] # NULL => Linked(node_map[nid])'
        BY <1>2, <2>0, <3>2 DEF Fresh, Linked
      <3> QED
        BY <1>0, <1>2, <1>b, <2>0, <3>1, <3>3, SameConf DEF Peers
    <2> QED
      BY <1>2, <1>c, <2>1, <2>2 DEF CreateNode, Aborts, Creates, SameSource
  <1> QED
    BY <1>1, <1>2 DEF CreateNode, Creates

\* Defaults point a node to itself.
LEMMA SetDefaultsPeers ==
  ASSUME NodesTyped, Peers, SetDefaults
  PROVE  Peers'
  <1>0. /\ setup.stage = "create" /\ setup.i > Len(ToCreate) /\ setup'.stage = "link"
        /\ UNCHANGED confVars /\ node_map' = node_map
    BY DEF SetDefaults, Go
  <1>b. first' = "v2" => hw'.entries # <<>>
    BY <1>0, SameConf DEF Peers
  <1>c. SUFFICES ASSUME SameSource PROVE Peers'
    BY <1>0, <1>b, SameConf DEF Peers
  <1>1. \A nid \in Ids : ~Reached(nid, setup.i)
    BY <1>0, ToCreateType DEF Reached, NodesTyped
  <1>2. ASSUME NEW nid \in Ids, node_map[nid] # NULL
        PROVE  /\ heap'[node_map[nid]].id = nid /\ Reached(nid, 1)
               /\ Linked(node_map[nid])'
    <2> DEFINE c == node_map[nid]
    <2>1. heap[c].id = nid /\ Reached(nid, 1) /\ Fresh(c)
      BY <1>0, <1>1, <1>2, <1>c DEF Peers
    <2>2. c \in Cells /\ heap[c] \in NodeObject
      BY <1>2 DEF NodesTyped
    <2>3. heap'[c] = [heap[c] EXCEPT
                        !.promote_target = IF c \in Range(dram_nodes) THEN c ELSE @,
                        !.demote_target  = IF c \in Range(pmem_nodes) THEN c ELSE @]
      BY <2>2 DEF SetDefaults
    <2>4. /\ heap'[c].id = heap[c].id
          /\ heap'[c].promote_target \in {c, NULL} /\ heap'[c].demote_target \in {c, NULL}
      BY <2>1, <2>2, <2>3 DEF NodeObject, Fresh
    <2>5. c \in Live /\ Live' = Live
      BY <1>0, <1>2, LiveNodes DEF Live
    <2> QED
      BY <1>0, <2>1, <2>4, <2>5 DEF Linked
  <1> QED
    BY <1>0, <1>2, <1>b, SameConf DEF Peers

\* A node is linked to one that is owned, or to none.
LEMMA LinkNodePeers ==
  ASSUME NodesTyped, Peers, LinkNode
  PROVE  Peers'
  <1>0. /\ setup.stage = "link" /\ UNCHANGED confVars /\ node_map' = node_map
        /\ setup'.stage \in {"link", "crashed"}
    BY DEF LinkNode, Skip, Go, NodesTyped
  <1>b. first' = "v2" => hw'.entries # <<>>
    BY <1>0, SameConf DEF Peers
  <1>c. SUFFICES ASSUME SameSource PROVE Peers'
    BY <1>0, <1>b, SameConf DEF Peers
  <1>1. \A nid \in Ids : node_map[nid] # NULL =>
          heap[node_map[nid]].id = nid /\ Reached(nid, 1) /\ Linked(node_map[nid])
    BY <1>0, <1>c DEF Peers
  <1>2. Live' = Live
    BY <1>0 DEF Live
  <1>3. CASE UNCHANGED heap
    BY <1>0, <1>1, <1>2, <1>3, <1>b, SameConf DEF Peers, Linked
  <1>4. CASE heap' # heap
    <2>1. PICK l : /\ l.id \in Ids /\ l.peer \in Ids /\ node_map[l.id] # NULL
                   /\ heap' = set_peer_node(node_map[l.id], node_map[l.peer])
      BY <1>4 DEF LinkNode
    <2> DEFINE c == node_map[l.id]
               peer == node_map[l.peer]
    <2>2. c \in Cells /\ heap[c] \in NodeObject
      BY <2>1 DEF NodesTyped
    <2>3. peer \in Live \cup {NULL}
      BY <2>1, LiveNodes
    <2>4. /\ heap'[c].id = heap[c].id
          /\ heap'[c].promote_target \in {heap[c].promote_target, peer}
          /\ heap'[c].demote_target \in {heap[c].demote_target, peer}
      <3>1. heap'[c] = CASE heap[c].type = "DRAM" -> [heap[c] EXCEPT !.demote_target = peer]
                         [] heap[c].type = "PMEM" -> [heap[c] EXCEPT !.promote_target = peer]
                         [] OTHER -> heap[c]
        BY <2>1, <2>2 DEF set_peer_node, NodesTyped
      <3> HIDE DEF c, peer
      <3> QED
        BY <2>2, <3>1 DEF NodeObject
    <2>5. \A d \in Cells \ {c} : heap'[d] = heap[d]
      BY <2>1 DEF set_peer_node, NodesTyped
    <2>6. ASSUME NEW nid \in Ids, node_map[nid] # NULL
          PROVE  heap'[node_map[nid]].id = nid /\ Linked(node_map[nid])'
      <3>1. CASE node_map[nid] = c
        <4> HIDE DEF peer
        <4> QED
          BY <1>0, <1>1, <1>2, <2>3, <2>4, <2>6, <3>1 DEF Linked
      <3>2. CASE node_map[nid] # c
        <4>1. heap'[node_map[nid]] = heap[node_map[nid]]
          BY <2>5, <2>6, <3>2 DEF NodesTyped
        <4> QED
          BY <1>0, <1>1, <1>2, <2>6, <4>1 DEF Linked
      <3> QED
        BY <3>1, <3>2
    <2> QED
      BY <1>0, <1>1, <2>6, <1>b, SameConf DEF Peers
  <1> QED
    BY <1>3, <1>4

\* The end of a collection moves no node.
LEMMA InitCpuMapPeers ==
  ASSUME NodesTyped, Peers, InitCpuMap
  PROVE  Peers'
  <1>0. /\ setup.stage = "link" /\ UNCHANGED confVars /\ UNCHANGED <<heap, node_map>>
        /\ setup'.stage \in {"ready", "crashed"}
    BY DEF InitCpuMap, Go
  <1>1. \A nid \in Ids : Linked(node_map[nid])' <=> Linked(node_map[nid])
    BY <1>0 DEF Linked, Live
  <1> QED
    BY <1>0, <1>1, SameConf DEF Peers

-----------------------------------------------------------------------------
(* The program.                                                            *)

\* At the start there is no node.
LEMMA InitPeers == Init => NodesTyped /\ Peers
  <1> SUFFICES ASSUME NumaInit PROVE NodesTyped /\ Peers
    BY DEF Init
  <1>1. hw.entries \in Seq(NumaHWConfigEntry) /\ (hw.lists = NoLists \/ hw.lists.types \in [Ids -> NodeTypes])
    BY NodesAssumption DEF NumaInit
  <1>2. Unused \in NodeObject
    BY NodesAssumption DEF Unused, NodeObject, NodeTypes, Ids
  <1>3. NodesTyped
    BY <1>1, <1>2 DEF NumaInit, NodesTyped
  <1>4. first = "v2" => hw.entries # <<>>
    BY DEF NumaInit, SourceOf
  <1>5. \A k \in DOMAIN ToCreate : ~(k < setup.i)
    BY <1>3, ToCreateType DEF NumaInit
  <1> QED
    BY <1>3, <1>4, <1>5 DEF NumaInit, Peers

\* Nodes change while they are collected only.
LEMMA NextPeers == NodesTyped /\ Peers /\ [Next]_vars => NodesTyped' /\ Peers'
  <1> SUFFICES ASSUME NodesTyped, Peers, [Next]_vars PROVE NodesTyped' /\ Peers'
    OBVIOUS
  <1>1. CASE NumaNext
    <2>1. NodesTyped'
      BY <1>1, NumaNextTyped
    <2>2. Peers'
      BY <1>1, ReloadPeers, CreateNodePeers, SetDefaultsPeers, LinkNodePeers, InitCpuMapPeers
      DEF NumaNext
    <2> QED
      BY <2>1, <2>2
  <1>2. CASE UNCHANGED numaVars
    <2>1. UNCHANGED <<heap, node_map, setup>> /\ UNCHANGED confVars
      BY <1>2 DEF numaVars
    <2>2. \A c : (Fresh(c)' <=> Fresh(c)) /\ (Linked(c)' <=> Linked(c))
      BY <2>1 DEF Fresh, Linked, Live
    <2>3. Peers'
      BY <2>1, <2>2, SameConf DEF Peers
    <2>4. NodesTyped'
      BY <2>1, SameConf DEF NodesTyped
    <2> QED
      BY <2>3, <2>4
  <1>3. NumaNext \/ UNCHANGED numaVars
    BY DEF Next, CollectNodes, BeginPeriod, ProgressiveProfile, Migrate, MigrateNothing, SkipType,
           PlanType, MoveTurn, BatchesDone, Drift, vars
  <1> QED
    BY <1>1, <1>2, <1>3

\* A reload frees every node and makes it again (NumaNodeCollection::create_node), while
\* nodes point to each other: migration never finds a peer that was freed.
THEOREM PeersOwned == Spec => []PeersAlive
  <1>1. Spec => [](NodesTyped /\ Peers)
    BY InitPeers, NextPeers, PTL DEF Spec
  <1>2. NodesTyped /\ Peers => PeersAlive
    <2> SUFFICES ASSUME NodesTyped, Peers, setup.stage = "ready", Source = first, Source # "v1",
                        NEW nid \in Ids, is_valid_nid(nid)
                 PROVE  /\ heap[node_map[nid]].id = nid
                        /\ get_peer_node(node_map[nid]) \in Live \cup {NULL}
      BY DEF PeersAlive
    <2>1. node_map[nid] # NULL
      BY DEF is_valid_nid
    <2>2. heap[node_map[nid]].id = nid /\ Linked(node_map[nid])
      BY <2>1 DEF Peers, SameSource
    <2> QED
      BY <2>2 DEF Linked, get_peer_node
  <1> QED
    BY <1>1, <1>2, PTL

-----------------------------------------------------------------------------
(* What nodes get from the file.                                           *)

Links(e) == e.id \in Ids /\ e.peer \in Ids

\* Entry j is the last before i that creates its node, or that links it.
LastCreate(j, i) ==
  /\ j \in DOMAIN hw.entries /\ j < i /\ Creates(hw.entries[j])
  /\ \A k \in DOMAIN hw.entries :
       j < k /\ k < i => ~(Creates(hw.entries[k]) /\ hw.entries[k].id = hw.entries[j].id)

LastLink(j, i) ==
  /\ j \in DOMAIN hw.entries /\ j < i /\ Links(hw.entries[j])
  /\ \A k \in DOMAIN hw.entries :
       j < k /\ k < i => ~(Links(hw.entries[k]) /\ hw.entries[k].id = hw.entries[j].id)

\* The nodes have the types, and the peers, that the entries before i give them.
TypedBefore(i) ==
  \A j \in DOMAIN hw.entries : LastCreate(j, i) =>
    /\ node_map[hw.entries[j].id] # NULL
    /\ heap[node_map[hw.entries[j].id]].type = hw.entries[j].type

LinkedBefore(i) ==
  \A j \in DOMAIN hw.entries : LastLink(j, i) =>
    /\ node_map[hw.entries[j].id] # NULL
    /\ get_peer_node(node_map[hw.entries[j].id]) = node_map[hw.entries[j].peer]

\* The file that was read last is the end of what was read.
FileLast ==
  /\ file.entries \in Seq(NumaHWConfigEntry)
  /\ Len(file.entries) <= Len(hw.entries)
  /\ \A j \in DOMAIN file.entries :
       hw.entries[j + (Len(hw.entries) - Len(file.entries))] = file.entries[j]

\* An owned node has its id, and so is owned once, and a type.
NodeKinds ==
  \A nid \in Ids : node_map[nid] # NULL =>
    heap[node_map[nid]].id = nid /\ heap[node_map[nid]].type # "END"

\* No entry makes the collection of the entries end early.
AllIds == Source = "v2" /\ \A i \in DOMAIN hw.entries : hw.entries[i].id < NrNodes

AfterAll == Len(hw.entries) + 1

Follows ==
  /\ FileLast /\ NodeKinds
  /\ AllIds =>
       /\ setup.stage = "create" => TypedBefore(setup.i)
       /\ setup.stage \in {"link", "ready"} => TypedBefore(AfterAll)
       /\ setup.stage = "link" => LinkedBefore(setup.i)
       /\ setup.stage = "ready" => LinkedBefore(AfterAll)

\* The entries, by their numbers.
LEMMA EntryTypes ==
  ASSUME NodesTyped
  PROVE  /\ Len(hw.entries) \in Nat /\ DOMAIN hw.entries = 1 .. Len(hw.entries)
         /\ \A j \in DOMAIN hw.entries : hw.entries[j] \in NumaHWConfigEntry
  <1>1. hw.entries \in Seq(NumaHWConfigEntry)
    BY DEF NodesTyped
  <1>2. \A j \in 1 .. Len(hw.entries) : hw.entries[j] \in NumaHWConfigEntry
    BY <1>1, ElementOfSeq
  <1> QED
    BY <1>1, <1>2, LenProperties

\* A step that goes on with the same entries.
LEMMA SameEntries ==
  ASSUME UNCHANGED confVars
  PROVE  /\ (AllIds' <=> AllIds) /\ (FileLast' <=> FileLast) /\ AfterAll' = AfterAll
         /\ \A j, i : (LastCreate(j, i)' <=> LastCreate(j, i)) /\ (LastLink(j, i)' <=> LastLink(j, i))
  <1>1. UNCHANGED <<hw, file>>
    BY DEF confVars
  <1> QED
    BY <1>1, SameConf DEF AllIds, FileLast, AfterAll, LastCreate, LastLink, Creates, Links

\* Reading a file again puts its entries behind all others.
LEMMA ReloadFollows ==
  ASSUME NodesTyped, Follows, Reload
  PROVE  Follows'
  <1> USE DEF listVars
  <1>1. file' \in Files /\ hw' = reparse(file') /\ UNCHANGED <<heap, node_map>>
        /\ setup' = [stage |-> "create", i |-> 1]
    BY DEF Reload
  <1>2. file'.entries \in Seq(NumaHWConfigEntry) /\ hw.entries \in Seq(NumaHWConfigEntry)
    BY <1>1, NodesAssumption DEF NodesTyped
  <1>3. hw'.entries = hw.entries \o file'.entries
    BY <1>1 DEF reparse
  <1> DEFINE old == hw.entries
             new == file'.entries
             all == hw'.entries
  <1>4. /\ Len(all) = Len(old) + Len(new) /\ Len(old) \in Nat /\ Len(new) \in Nat
        /\ DOMAIN new = 1 .. Len(new)
        /\ \A j \in 1 .. Len(old) + Len(new) : all[j] = IF j <= Len(old) THEN old[j] ELSE new[j - Len(old)]
    <2> HIDE DEF old, new, all
    <2>1. old \in Seq(NumaHWConfigEntry) /\ new \in Seq(NumaHWConfigEntry) /\ all = old \o new
      BY <1>2, <1>3 DEF old, new, all
    <2> QED
      BY <2>1, ConcatProperties, LenProperties
  <1>5. FileLast'
    <2> HIDE DEF old, new, all
    <2>1. Len(new) <= Len(all)
      BY <1>4
    <2>2. ASSUME NEW j \in DOMAIN new PROVE all[j + (Len(all) - Len(new))] = new[j]
      <3>1. Len(all) - Len(new) = Len(old) /\ j \in 1 .. Len(new)
        BY <1>4
      <3>2. j + Len(old) \in 1 .. Len(old) + Len(new) /\ ~(j + Len(old) <= Len(old))
            /\ (j + Len(old)) - Len(old) = j
        BY <1>4, <3>1
      <3> QED
        BY <1>4, <3>1, <3>2
    <2> QED
      BY <1>2, <2>1, <2>2 DEF FileLast, old, new, all
  <1>6. NodeKinds'
    BY <1>1 DEF Follows, NodeKinds
  <1>7. TypedBefore(setup.i)'
    <2>1. DOMAIN hw'.entries = 1 .. Len(hw'.entries) /\ Len(hw'.entries) \in Nat
      BY NumaNextTyped, EntryTypes DEF NumaNext
    <2>2. \A j \in DOMAIN hw'.entries : ~(j < setup'.i)
      BY <1>1, <2>1
    <2> QED
      BY <2>2 DEF TypedBefore, LastCreate
  <1> QED
    BY <1>1, <1>5, <1>6, <1>7 DEF Follows

\* A new node has the type of its entry; the others keep theirs.
LEMMA NewNodeFollows ==
  ASSUME NodesTyped, Follows, CreateNode, NEW e, e = ToCreate[setup.i], Creates(e), NewNode(e)
  PROVE  Follows'
  <1>1. PICK c \in Cells \ Live :
          /\ heap' = [heap EXCEPT ![c] = [Unused EXCEPT !.id = e.id, !.type = e.type]]
          /\ node_map' = [node_map EXCEPT ![e.id] = c]
    BY DEF NewNode
  <1>2. /\ UNCHANGED confVars /\ setup.stage = "create" /\ setup.i \in Nat \ {0}
        /\ e.id \in Ids /\ e.type # "END" /\ setup' = [setup EXCEPT !.i = @ + 1]
    BY DEF CreateNode, NewNode, Skip, Creates, NodesTyped
  <1>3. setup'.stage = "create" /\ setup'.i = setup.i + 1
    BY <1>2 DEF NodesTyped
  <1>4. /\ node_map'[e.id] = c /\ c \in Cells /\ c # NULL
        /\ heap'[c].id = e.id /\ heap'[c].type = e.type
    <2>1. heap'[c] = [Unused EXCEPT !.id = e.id, !.type = e.type] /\ node_map'[e.id] = c
      BY <1>1, <1>2 DEF NodesTyped
    <2> QED
      BY <1>1, <2>1, NodesAssumption DEF Unused
  <1>5. ASSUME NEW nid \in Ids, nid # e.id
        PROVE  /\ node_map'[nid] = node_map[nid]
               /\ node_map[nid] # NULL => heap'[node_map[nid]] = heap[node_map[nid]]
    <2>1. node_map'[nid] = node_map[nid]
      BY <1>1, <1>5 DEF NodesTyped
    <2>2. ASSUME node_map[nid] # NULL PROVE heap'[node_map[nid]] = heap[node_map[nid]]
      <3>1. node_map[nid] \in Live /\ node_map[nid] \in Cells
        BY <2>2, LiveNodes DEF NodesTyped
      <3> QED
        BY <1>1, <3>1 DEF NodesTyped
    <2> QED
      BY <2>1, <2>2
  <1>6. NodeKinds'
    BY <1>2, <1>4, <1>5 DEF Follows, NodeKinds
  <1>7. ASSUME AllIds PROVE TypedBefore(setup.i)'
    <2>1. ToCreate = hw.entries /\ e = hw.entries[setup.i] /\ UNCHANGED hw
      BY <1>2, <1>7 DEF AllIds, ToCreate, confVars
    <2>2. TypedBefore(setup.i)
      BY <1>2, <1>7 DEF Follows
    <2>3. ASSUME NEW j \in DOMAIN hw.entries, LastCreate(j, setup.i + 1)
          PROVE  /\ node_map'[hw.entries[j].id] # NULL
                 /\ heap'[node_map'[hw.entries[j].id]].type = hw.entries[j].type
      <3>1. j \in Nat /\ setup.i \in Nat /\ hw.entries[j].id \in Ids
        BY <1>2, <2>3, EntryTypes DEF LastCreate, Creates
      <3>2. CASE hw.entries[j].id = e.id
        <4>1. j = setup.i
          <5>1. setup.i \in DOMAIN hw.entries
            BY <1>2, <2>1, EntryTypes DEF CreateNode
          <5>2. ~(j < setup.i /\ setup.i < setup.i + 1)
            BY <2>1, <2>3, <3>2, <5>1 DEF LastCreate
          <5> QED
            BY <2>3, <3>1, <5>2 DEF LastCreate
        <4> QED
          BY <1>4, <2>1, <3>2, <4>1
      <3>3. CASE hw.entries[j].id # e.id
        <4>1. j < setup.i
          <5>1. j # setup.i /\ j < setup.i + 1
            BY <2>1, <2>3, <3>3 DEF LastCreate
          <5> QED
            BY <3>1, <5>1
        <4>2. \A k \in DOMAIN hw.entries : j < k /\ k < setup.i => k < setup.i + 1
          BY <3>1, EntryTypes
        <4>3. LastCreate(j, setup.i)
          BY <2>3, <4>1, <4>2 DEF LastCreate
        <4> QED
          BY <1>5, <2>2, <3>1, <3>3, <4>3 DEF TypedBefore
      <3> QED
        BY <3>2, <3>3
    <2> QED
      BY <1>2, <1>3, <2>1, <2>3, SameEntries DEF TypedBefore
  <1> QED
    BY <1>2, <1>3, <1>6, <1>7, SameEntries DEF Follows

\* Entries that create no node are passed over.
LEMMA CreateNodeFollows ==
  ASSUME NodesTyped, Follows, CreateNode
  PROVE  Follows'
  <1> DEFINE e == ToCreate[setup.i]
  <1>0. /\ setup.stage = "create" /\ UNCHANGED confVars /\ setup.i \in Nat \ {0}
        /\ setup.i \in DOMAIN ToCreate
    BY ToCreateType DEF CreateNode, NodesTyped
  <1>1. CASE Creates(e) /\ NewNode(e)
    BY <1>1, NewNodeFollows
  <1>2. CASE ~Creates(e) /\ UNCHANGED <<heap, node_map>>
    <2>1. NodeKinds'
      BY <1>2 DEF Follows, NodeKinds
    <2>2. ASSUME AllIds PROVE setup'.stage = "create" /\ TypedBefore(setup.i)'
      <3>1. ToCreate = hw.entries /\ UNCHANGED hw /\ Source = "v2"
        BY <1>0, <2>2 DEF AllIds, ToCreate, confVars
      <3>2. e \in NumaHWConfigEntry /\ e.id < NrNodes
        BY <1>0, <2>2, <3>1, EntryTypes DEF AllIds
      <3>3. e.type = "END" \/ e.id < 0
        BY <1>2, <3>2, NodesAssumption DEF Creates, Ids, NumaHWConfigEntry
      <3>4. Skip
        BY <1>2, <3>1, <3>3 DEF CreateNode, Creates
      <3>5. setup'.stage = "create" /\ setup'.i = setup.i + 1
        BY <1>0, <3>4 DEF Skip, NodesTyped
      <3>6. ASSUME NEW j \in DOMAIN hw.entries, LastCreate(j, setup.i + 1) PROVE LastCreate(j, setup.i)
        <4>1. j \in Nat /\ j # setup.i /\ j < setup.i + 1
          BY <1>2, <3>1, <3>6, EntryTypes DEF LastCreate
        <4>2. j < setup.i
          BY <1>0, <4>1
        <4>3. \A k \in DOMAIN hw.entries : j < k /\ k < setup.i => k < setup.i + 1
          BY <1>0, EntryTypes
        <4> QED
          BY <3>6, <4>2, <4>3 DEF LastCreate
      <3>7. TypedBefore(setup.i)
        BY <1>0, <2>2 DEF Follows
      <3> QED
        BY <1>0, <1>2, <3>1, <3>5, <3>6, <3>7, SameEntries DEF TypedBefore
    <2> QED
      BY <1>0, <2>1, <2>2, SameEntries DEF Follows
  <1> QED
    BY <1>1, <1>2 DEF CreateNode, Creates

\* Defaults change neither types nor ids.
LEMMA SetDefaultsFollows ==
  ASSUME NodesTyped, Follows, SetDefaults
  PROVE  Follows'
  <1>0. /\ setup.stage = "create" /\ setup.i > Len(ToCreate) /\ setup' = [stage |-> "link", i |-> 1]
        /\ UNCHANGED confVars /\ node_map' = node_map
    BY DEF SetDefaults, Go
  <1>1. ASSUME NEW c \in Cells PROVE heap'[c].id = heap[c].id /\ heap'[c].type = heap[c].type
    <2>1. heap[c] \in NodeObject
      BY DEF NodesTyped
    <2>2. heap'[c] = [heap[c] EXCEPT
                        !.promote_target = IF c \in Range(dram_nodes) THEN c ELSE @,
                        !.demote_target  = IF c \in Range(pmem_nodes) THEN c ELSE @]
      BY DEF SetDefaults
    <2> QED
      BY <2>1, <2>2 DEF NodeObject
  <1>2. \A nid \in Ids : node_map[nid] # NULL => node_map[nid] \in Cells
    BY DEF NodesTyped
  <1>3. NodeKinds'
    BY <1>0, <1>1, <1>2 DEF Follows, NodeKinds
  <1>4. ASSUME AllIds PROVE TypedBefore(AfterAll)' /\ LinkedBefore(setup.i)'
    <2>1. ToCreate = hw.entries /\ UNCHANGED hw
      BY <1>0, <1>4 DEF AllIds, ToCreate, confVars
    <2>2. TypedBefore(setup.i) /\ setup.i \in Nat /\ setup.i > Len(hw.entries)
      BY <1>0, <1>4, <2>1 DEF Follows, NodesTyped
    <2>3. ASSUME NEW j \in DOMAIN hw.entries, LastCreate(j, AfterAll) PROVE LastCreate(j, setup.i)
      <3>1. \A k \in DOMAIN hw.entries : k < setup.i /\ k < AfterAll
        BY <2>2, EntryTypes DEF AfterAll
      <3> QED
        BY <2>3, <3>1 DEF LastCreate
    <2>4. \A j \in DOMAIN hw.entries : LastCreate(j, AfterAll) => hw.entries[j].id \in Ids
      BY DEF LastCreate, Creates
    <2>5. TypedBefore(AfterAll)'
      BY <1>0, <1>1, <1>2, <2>1, <2>2, <2>3, <2>4, SameEntries DEF TypedBefore
    <2>6. \A j \in DOMAIN hw.entries : ~(j < 1)
      BY EntryTypes
    <2>7. LinkedBefore(setup.i)'
      BY <1>0, <2>1, <2>6 DEF LinkedBefore, LastLink
    <2> QED
      BY <2>5, <2>7
  <1> QED
    BY <1>0, <1>3, <1>4, SameEntries DEF Follows

\* A link gives a node its peer; the others keep theirs.
LEMMA LinkFollows ==
  ASSUME NodesTyped, Follows, LinkNode, NEW l, l = ToLink[setup.i], Links(l), node_map[l.id] # NULL,
         heap' = set_peer_node(node_map[l.id], node_map[l.peer]), Skip
  PROVE  Follows'
  <1> DEFINE c == node_map[l.id]
             peer == node_map[l.peer]
  <1>0. /\ setup.stage = "link" /\ UNCHANGED confVars /\ node_map' = node_map /\ setup.i \in Nat \ {0}
        /\ setup'.stage = "link" /\ setup'.i = setup.i + 1 /\ l.id \in Ids /\ l.peer \in Ids
    BY DEF LinkNode, Skip, NodesTyped, Links
  <1>1. c \in Cells /\ heap[c] \in NodeObject /\ heap[c].type # "END"
    BY <1>0 DEF NodesTyped, Follows, NodeKinds
  <1>2. heap'[c].id = heap[c].id /\ heap'[c].type = heap[c].type /\ get_peer_node(c)' = peer
    <2>1. heap'[c] = CASE heap[c].type = "DRAM" -> [heap[c] EXCEPT !.demote_target = peer]
                       [] heap[c].type = "PMEM" -> [heap[c] EXCEPT !.promote_target = peer]
                       [] OTHER -> heap[c]
      BY <1>1 DEF set_peer_node, NodesTyped
    <2>2. heap[c].type \in {"DRAM", "PMEM"}
      BY <1>1 DEF NodeObject, NodeTypes
    <2>3. node_map'[l.id] = c
      BY <1>0
    <2> HIDE DEF c, peer
    <2>4. /\ heap'[c].id = heap[c].id /\ heap'[c].type = heap[c].type
          /\ heap[c].type = "DRAM" => heap'[c].demote_target = peer
          /\ heap[c].type = "PMEM" => heap'[c].promote_target = peer
      BY <1>1, <2>1, <2>2 DEF NodeObject
    <2> QED
      BY <2>2, <2>3, <2>4 DEF get_peer_node, c
  <1>3. ASSUME NEW nid \in Ids, node_map[nid] # NULL, nid # l.id
        PROVE  heap'[node_map[nid]] = heap[node_map[nid]]
    <2>1. node_map[nid] # c /\ node_map[nid] \in Cells
      BY <1>0, <1>3 DEF Follows, NodeKinds, NodesTyped
    <2> QED
      BY <2>1 DEF set_peer_node, NodesTyped
  <1>4. \A nid \in Ids : node_map[nid] # NULL =>
          heap'[node_map[nid]].id = heap[node_map[nid]].id
          /\ heap'[node_map[nid]].type = heap[node_map[nid]].type
    BY <1>0, <1>2, <1>3
  <1>5. NodeKinds'
    BY <1>0, <1>4 DEF Follows, NodeKinds
  <1>6. ASSUME AllIds PROVE TypedBefore(AfterAll)'
    <2>1. TypedBefore(AfterAll) /\ UNCHANGED hw
      BY <1>0, <1>6 DEF Follows, confVars
    <2>2. /\ \A j, i : LastCreate(j, i)' <=> LastCreate(j, i)
          /\ AfterAll' = AfterAll /\ hw' = hw /\ node_map' = node_map
      BY <1>0, <2>1, SameEntries
    <2>3. SUFFICES ASSUME NEW j \in DOMAIN hw.entries, LastCreate(j, AfterAll)
                   PROVE  /\ node_map[hw.entries[j].id] # NULL
                          /\ heap'[node_map[hw.entries[j].id]].type = hw.entries[j].type
      BY <2>2 DEF TypedBefore
    <2>4. /\ node_map[hw.entries[j].id] # NULL
          /\ heap[node_map[hw.entries[j].id]].type = hw.entries[j].type
      BY <2>1, <2>3 DEF TypedBefore
    <2>5. hw.entries[j].id \in Ids
      BY <2>3 DEF LastCreate, Creates
    <2> QED
      BY <1>4, <2>4, <2>5
  <1>7. ASSUME AllIds PROVE LinkedBefore(setup.i)'
    <2>1. ToLink = hw.entries /\ l = hw.entries[setup.i] /\ UNCHANGED hw
      BY <1>0, <1>7 DEF AllIds, ToLink, confVars
    <2>2. LinkedBefore(setup.i)
      BY <1>0, <1>7 DEF Follows
    <2>3. ASSUME NEW j \in DOMAIN hw.entries, LastLink(j, setup.i + 1)
          PROVE  /\ node_map[hw.entries[j].id] # NULL
                 /\ get_peer_node(node_map[hw.entries[j].id])' = node_map[hw.entries[j].peer]
      <3>1. j \in Nat /\ setup.i \in Nat /\ hw.entries[j].id \in Ids
        BY <1>0, <2>3, EntryTypes DEF LastLink, Links
      <3>2. CASE hw.entries[j].id = l.id
        <4>1. j = setup.i
          <5>1. setup.i \in DOMAIN hw.entries
            BY <1>0, <2>1, EntryTypes DEF LinkNode
          <5>2. ~(j < setup.i /\ setup.i < setup.i + 1)
            BY <2>1, <2>3, <3>2, <5>1 DEF LastLink
          <5> QED
            BY <2>3, <3>1, <5>2 DEF LastLink
        <4> QED
          BY <1>0, <1>2, <2>1, <3>2, <4>1
      <3>3. CASE hw.entries[j].id # l.id
        <4>1. j < setup.i
          <5>1. j # setup.i /\ j < setup.i + 1
            BY <2>1, <2>3, <3>3 DEF LastLink
          <5> QED
            BY <3>1, <5>1
        <4>2. \A k \in DOMAIN hw.entries : j < k /\ k < setup.i => k < setup.i + 1
          BY <3>1, EntryTypes
        <4>3. LastLink(j, setup.i)
          BY <2>3, <4>1, <4>2 DEF LastLink
        <4>4. /\ node_map[hw.entries[j].id] # NULL
              /\ get_peer_node(node_map[hw.entries[j].id]) = node_map[hw.entries[j].peer]
          BY <2>2, <4>3 DEF LinkedBefore
        <4>5. heap'[node_map[hw.entries[j].id]] = heap[node_map[hw.entries[j].id]]
          BY <1>3, <3>1, <3>3, <4>4
        <4> QED
          BY <1>0, <2>1, <4>4, <4>5 DEF get_peer_node
      <3> QED
        BY <3>2, <3>3
    <2> QED
      BY <1>0, <2>1, <2>3, SameEntries DEF LinkedBefore
  <1> QED
    BY <1>0, <1>5, <1>6, <1>7, SameEntries DEF Follows

\* Entries without an id or a peer link nothing, and an exit leaves nothing to follow.
LEMMA LinkNodeFollows ==
  ASSUME NodesTyped, Follows, LinkNode
  PROVE  Follows'
  <1> DEFINE l == ToLink[setup.i]
  <1>0. /\ setup.stage = "link" /\ UNCHANGED confVars /\ node_map' = node_map /\ setup.i \in Nat \ {0}
        /\ setup'.stage \in {"link", "crashed"}
    BY DEF LinkNode, Skip, Go, NodesTyped
  <1>1. CASE /\ Links(l) /\ node_map[l.id] # NULL
             /\ heap' = set_peer_node(node_map[l.id], node_map[l.peer]) /\ Skip
    BY <1>1, LinkFollows
  <1>2. CASE UNCHANGED heap /\ setup'.stage = "crashed"
    BY <1>0, <1>2, SameEntries DEF Follows, NodeKinds
  <1>3. CASE ~Links(l) /\ UNCHANGED heap /\ Skip
    <2>1. setup'.stage = "link" /\ setup'.i = setup.i + 1
      BY <1>0, <1>3 DEF Skip, NodesTyped
    <2>2. NodeKinds'
      BY <1>0, <1>3 DEF Follows, NodeKinds
    <2>3. ASSUME AllIds PROVE TypedBefore(AfterAll)' /\ LinkedBefore(setup.i)'
      <3>1. ToLink = hw.entries /\ UNCHANGED hw
        BY <1>0, <2>3 DEF AllIds, ToLink, confVars
      <3>2. TypedBefore(AfterAll) /\ LinkedBefore(setup.i)
        BY <1>0, <2>3 DEF Follows
      <3>3. ASSUME NEW j \in DOMAIN hw.entries, LastLink(j, setup.i + 1) PROVE LastLink(j, setup.i)
        <4>1. j \in Nat /\ j # setup.i /\ j < setup.i + 1
          BY <1>3, <3>1, <3>3, EntryTypes DEF LastLink
        <4>2. j < setup.i
          BY <1>0, <4>1
        <4>3. \A k \in DOMAIN hw.entries : j < k /\ k < setup.i => k < setup.i + 1
          BY <1>0, EntryTypes
        <4> QED
          BY <3>3, <4>2, <4>3 DEF LastLink
      <3>4. TypedBefore(AfterAll)'
        BY <1>0, <1>3, <3>1, <3>2, SameEntries DEF TypedBefore
      <3>5. LinkedBefore(setup.i)'
        BY <1>0, <1>3, <2>1, <3>1, <3>2, <3>3, SameEntries DEF LinkedBefore, get_peer_node
      <3> QED
        BY <3>4, <3>5
    <2> QED
      BY <1>0, <2>1, <2>2, <2>3, SameEntries DEF Follows
  <1> QED
    BY <1>1, <1>2, <1>3 DEF LinkNode, Go, Links

\* The end of a collection: all entries were applied.
LEMMA InitCpuMapFollows ==
  ASSUME NodesTyped, Follows, InitCpuMap
  PROVE  Follows'
  <1>0. /\ setup.stage = "link" /\ setup.i > Len(ToLink) /\ setup.i \in Nat
        /\ UNCHANGED confVars /\ UNCHANGED <<heap, node_map>>
        /\ setup'.stage \in {"ready", "crashed"}
    BY DEF InitCpuMap, Go, NodesTyped
  <1>1. ASSUME AllIds PROVE TypedBefore(AfterAll)' /\ LinkedBefore(AfterAll)'
    <2>1. ToLink = hw.entries /\ UNCHANGED hw
      BY <1>0, <1>1 DEF AllIds, ToLink, confVars
    <2>2. TypedBefore(AfterAll) /\ LinkedBefore(setup.i)
      BY <1>0, <1>1 DEF Follows
    <2>3. ASSUME NEW j \in DOMAIN hw.entries, LastLink(j, AfterAll) PROVE LastLink(j, setup.i)
      <3>1. \A k \in DOMAIN hw.entries : k < setup.i /\ k < AfterAll
        BY <1>0, <2>1, EntryTypes DEF AfterAll
      <3> QED
        BY <2>3, <3>1 DEF LastLink
    <2>4. TypedBefore(AfterAll)'
      BY <1>0, <2>1, <2>2, SameEntries DEF TypedBefore
    <2>5. LinkedBefore(AfterAll)'
      BY <1>0, <2>1, <2>2, <2>3, SameEntries DEF LinkedBefore, get_peer_node
    <2> QED
      BY <2>4, <2>5
  <1> QED
    BY <1>0, <1>1, SameEntries DEF Follows, NodeKinds

\* The first file is all that was read.
LEMMA InitFollows == Init => Follows
  <1> SUFFICES ASSUME NumaInit PROVE Follows
    BY DEF Init
  <1>1. file.entries \in Seq(NumaHWConfigEntry) /\ hw.entries = file.entries
    BY NodesAssumption DEF NumaInit
  <1>2. Len(file.entries) \in Nat /\ DOMAIN file.entries = 1 .. Len(file.entries)
    BY <1>1, LenProperties
  <1>3. \A j \in DOMAIN file.entries : j + (Len(file.entries) - Len(file.entries)) = j /\ ~(j < 1)
    BY <1>2
  <1>4. FileLast
    BY <1>1, <1>2, <1>3 DEF FileLast
  <1>5. setup = [stage |-> "create", i |-> 1] /\ \A nid \in Ids : node_map[nid] = NULL
    BY DEF NumaInit
  <1> QED
    BY <1>1, <1>3, <1>4, <1>5 DEF Follows, NodeKinds, TypedBefore, LastCreate

\* Files are followed while nodes are collected.
LEMMA NextFollows == NodesTyped /\ Follows /\ [Next]_vars => Follows'
  <1> SUFFICES ASSUME NodesTyped, Follows, [Next]_vars PROVE Follows'
    OBVIOUS
  <1>1. CASE NumaNext
    BY <1>1, ReloadFollows, CreateNodeFollows, SetDefaultsFollows, LinkNodeFollows, InitCpuMapFollows
    DEF NumaNext
  <1>2. CASE UNCHANGED numaVars
    <2>1. UNCHANGED <<heap, node_map, setup, hw>> /\ UNCHANGED confVars
      BY <1>2 DEF numaVars, confVars
    <2>2. \A i : (TypedBefore(i)' <=> TypedBefore(i)) /\ (LinkedBefore(i)' <=> LinkedBefore(i))
      BY <2>1, SameEntries DEF TypedBefore, LinkedBefore, get_peer_node
    <2> QED
      BY <2>1, <2>2, SameEntries DEF Follows, NodeKinds
  <1>3. NumaNext \/ UNCHANGED numaVars
    BY DEF Next, CollectNodes, BeginPeriod, ProgressiveProfile, Migrate, MigrateNothing, SkipType,
           PlanType, MoveTurn, BatchesDone, Drift, vars
  <1> QED
    BY <1>1, <1>2, <1>3

\* Among some of the numbers 1 .. n there is a last.
LEMMA LastNumber ==
  ASSUME NEW n \in Nat, NEW S, S \subseteq 1 .. n, S # {}
  PROVE  \E i \in S : \A j \in S : j <= i
  <1> DEFINE T == {m \in Nat : S \subseteq 1 .. m => \E i \in S : \A j \in S : j <= i}
  <1>1. 0 \in T
    <2>1. 1 .. 0 = {}
      OBVIOUS
    <2> QED
      BY <2>1
  <1>2. ASSUME NEW m \in Nat, m \in T PROVE m + 1 \in T
    <2> SUFFICES ASSUME S \subseteq 1 .. m + 1 PROVE \E i \in S : \A j \in S : j <= i
      OBVIOUS
    <2>1. CASE m + 1 \in S
      BY <2>1
    <2>2. CASE m + 1 \notin S
      BY <1>2, <2>2
    <2> QED
      BY <2>1, <2>2
  <1> HIDE DEF T
  <1>3. n \in T
    BY <1>1, <1>2, SetInduction
  <1> QED
    BY <1>3 DEF T

\* reparse() appends the entries of a file to those of all files read before: the nodes
\* still end with the type and the peer that the last file gives them, after any reloads.
THEOREM FileFollowed == Spec => []NodesFollowFile
  <1>1. Spec => [](NodesTyped /\ Peers /\ Follows)
    BY InitPeers, NextPeers, InitFollows, NextFollows, PTL DEF Spec
  <1>2. NodesTyped /\ Follows => NodesFollowFile
    <2> SUFFICES ASSUME NodesTyped, Follows, setup.stage = "ready", AllIds, NEW nid \in Ids
                 PROVE  LET t == LastOf(nid, LAMBDA e : e.type # "END")
                            p == LastOf(nid, LAMBDA e : e.peer \in Ids) IN
                        /\ t # 0 => heap[node_map[nid]].type = file.entries[t].type
                        /\ p # 0 => get_peer_node(node_map[nid]) = node_map[file.entries[p].peer]
      BY DEF NodesFollowFile, AllIds
    <2> DEFINE n == Len(file.entries)
               before == Len(hw.entries) - Len(file.entries)
               typed == {i \in DOMAIN file.entries : file.entries[i].id = nid /\ file.entries[i].type # "END"}
               linked == {i \in DOMAIN file.entries : file.entries[i].id = nid /\ file.entries[i].peer \in Ids}
               t == CHOOSE i \in typed : \A j \in typed : j <= i
               p == CHOOSE i \in linked : \A j \in linked : j <= i
    <2>1. /\ n \in Nat /\ DOMAIN file.entries = 1 .. n /\ n <= Len(hw.entries)
          /\ \A j \in DOMAIN file.entries : hw.entries[j + before] = file.entries[j]
      BY LenProperties DEF Follows, FileLast
    <2>2. before \in Nat /\ Len(hw.entries) \in Nat /\ DOMAIN hw.entries = 1 .. Len(hw.entries)
          /\ Len(hw.entries) = n + before
      BY <2>1, EntryTypes
    <2> HIDE DEF n, before
    <2>3. \A j \in 1 .. n : j + before \in DOMAIN hw.entries /\ j + before < AfterAll
      BY <2>1, <2>2 DEF AfterAll
    <2>4. \A k \in DOMAIN hw.entries, j \in 1 .. n :
            j + before < k => k - before \in 1 .. n /\ (k - before) + before = k /\ ~(k - before <= j)
      BY <2>1, <2>2
    <2>5. TypedBefore(AfterAll) /\ LinkedBefore(AfterAll)
      BY DEF Follows
    <2>6. ASSUME typed # {} PROVE heap[node_map[nid]].type = file.entries[t].type
      <3>1. typed \subseteq 1 .. n
        BY <2>1
      <3>2. \E i \in typed : \A j \in typed : j <= i
        <4> HIDE DEF typed
        <4> QED
          BY <2>1, <2>6, <3>1, LastNumber
      <3>3. t \in typed /\ \A j \in typed : j <= t
        BY <3>2, Zenon
      <3> HIDE DEF t
      <3>4. t \in 1 .. n /\ hw.entries[t + before] = file.entries[t] /\ file.entries[t].id = nid
        BY <2>1, <3>1, <3>3
      <3>5. ASSUME NEW k \in DOMAIN hw.entries, t + before < k, Creates(hw.entries[k]), hw.entries[k].id = nid
            PROVE  FALSE
        <4>1. k - before \in 1 .. n /\ (k - before) + before = k /\ ~(k - before <= t)
          BY <2>4, <3>4, <3>5
        <4>2. file.entries[k - before] = hw.entries[k]
          BY <2>1, <4>1
        <4>3. k - before \in typed
          BY <2>1, <3>5, <4>1, <4>2 DEF Creates
        <4> QED
          BY <3>3, <4>1, <4>3
      <3>6. LastCreate(t + before, AfterAll)
        BY <2>3, <3>3, <3>4, <3>5 DEF LastCreate, Creates
      <3> QED
        BY <2>3, <2>5, <3>4, <3>6 DEF TypedBefore
    <2>7. ASSUME linked # {} PROVE get_peer_node(node_map[nid]) = node_map[file.entries[p].peer]
      <3>1. linked \subseteq 1 .. n
        BY <2>1
      <3>2. \E i \in linked : \A j \in linked : j <= i
        <4> HIDE DEF linked
        <4> QED
          BY <2>1, <2>7, <3>1, LastNumber
      <3>3. p \in linked /\ \A j \in linked : j <= p
        BY <3>2, Zenon
      <3> HIDE DEF p
      <3>4. p \in 1 .. n /\ hw.entries[p + before] = file.entries[p] /\ file.entries[p].id = nid
        BY <2>1, <3>1, <3>3
      <3>5. ASSUME NEW k \in DOMAIN hw.entries, p + before < k, Links(hw.entries[k]), hw.entries[k].id = nid
            PROVE  FALSE
        <4>1. k - before \in 1 .. n /\ (k - before) + before = k /\ ~(k - before <= p)
          BY <2>4, <3>4, <3>5
        <4>2. file.entries[k - before] = hw.entries[k]
          BY <2>1, <4>1
        <4>3. k - before \in linked
          BY <2>1, <3>5, <4>1, <4>2 DEF Links
        <4> QED
          BY <3>3, <4>1, <4>3
      <3>6. LastLink(p + before, AfterAll)
        BY <2>3, <3>3, <3>4, <3>5 DEF LastLink, Links
      <3> QED
        BY <2>3, <2>5, <3>4, <3>6 DEF LinkedBefore
    <2>8. /\ LastOf(nid, LAMBDA e : e.type # "END") = IF typed = {} THEN 0 ELSE t
          /\ LastOf(nid, LAMBDA e : e.peer \in Ids) = IF linked = {} THEN 0 ELSE p
      BY DEF LastOf
    <2> HIDE DEF typed, linked, t, p
    <2> QED
      BY <2>6, <2>7, <2>8
  <1> QED
    BY <1>1, <1>2, PTL

-----------------------------------------------------------------------------
(* Sums over the counts of a map: SumOver() does not depend on the order   *)
(* in which it takes them.                                                 *)

\* The recursive function of a fold that adds f up over the subsets of S.
AddsUp(g, f, S) ==
  g = [s \in SUBSET S |-> IF s = {} THEN 0
                          ELSE LET x == CHOOSE x \in s : TRUE IN f[x] + g[s \ {x}]]

\* The element that a sum takes from a set.
Taken(T) == CHOOSE y \in T : TRUE

\* What a set adds up to, with the element that is taken from it.
LEMMA TakesOne ==
  ASSUME NEW g, NEW f, NEW S, AddsUp(g, f, S), NEW T \in SUBSET S, T # {}
  PROVE  g[T] = f[Taken(T)] + g[T \ {Taken(T)}]
  <1>1. g[T] = IF T = {} THEN 0 ELSE LET x == CHOOSE x \in T : TRUE IN f[x] + g[T \ {x}]
    BY SMT DEF AddsUp
  <1> QED
    BY <1>1, SMT DEF Taken

\* One element less.
LEMMA OneLess ==
  ASSUME NEW T, IsFiniteSet(T), NEW x \in T
  PROVE  /\ IsFiniteSet(T \ {x}) /\ Cardinality(T) \in Nat
         /\ Cardinality(T \ {x}) = Cardinality(T) - 1
  BY FS_RemoveElement, FS_CardinalityType

\* The function exists.
LEMMA AddsUpExists ==
  ASSUME NEW f, NEW S, IsFiniteSet(S)
  PROVE  \E g : AddsUp(g, f, S)
  <1> DEFINE Small(n) == {s \in SUBSET S : Cardinality(s) <= n}
             Is(g, n) == g = [s \in Small(n) |-> IF s = {} THEN 0
                                ELSE LET x == CHOOSE x \in s : TRUE IN f[x] + g[s \ {x}]]
             N == {n \in Nat : \E g : Is(g, n)}
  <1>0. \A s \in SUBSET S : /\ IsFiniteSet(s) /\ Cardinality(s) \in Nat
                            /\ s # {} => Cardinality(s) # 0
    BY FS_Subset, FS_CardinalityType, FS_EmptySet
  <1>1. 0 \in N
    <2>1. \A s \in Small(0) : s = {}
      BY <1>0
    <2>2. Is([s \in Small(0) |-> 0], 0)
      BY <2>1
    <2> QED
      BY <2>2
  <1>2. ASSUME NEW n \in Nat, n \in N PROVE n + 1 \in N
    <2>1. PICK h : Is(h, n)
      BY <1>2
    <2> DEFINE Val(s) == IF s = {} THEN 0 ELSE LET x == CHOOSE x \in s : TRUE IN f[x] + h[s \ {x}]
               g == [s \in Small(n + 1) |-> Val(s)]
    <2>2. \A s \in Small(n) : h[s] = Val(s)
      BY <2>1
    <2>3. \A s \in Small(n) : s \in Small(n + 1) /\ g[s] = h[s]
      BY <2>2, <1>0
    <2>4. \A s \in Small(n + 1) : s # {} => s \ {CHOOSE x \in s : TRUE} \in Small(n)
      <3> SUFFICES ASSUME NEW s \in Small(n + 1), s # {}
                   PROVE  s \ {CHOOSE x \in s : TRUE} \in Small(n)
        OBVIOUS
      <3>1. PICK x : x = CHOOSE y \in s : TRUE
        OBVIOUS
      <3>2. x \in s
        BY <3>1
      <3>3. Cardinality(s \ {x}) = Cardinality(s) - 1 /\ Cardinality(s) \in Nat
        BY <3>2, <1>0, OneLess
      <3> QED
        BY <3>1, <3>3
    <2>5. \A s \in Small(n + 1) : g[s] = IF s = {} THEN 0
                                 ELSE LET x == CHOOSE x \in s : TRUE IN f[x] + g[s \ {x}]
      <3> SUFFICES ASSUME NEW s \in Small(n + 1), s # {}
                   PROVE  g[s] = LET x == CHOOSE x \in s : TRUE IN f[x] + g[s \ {x}]
        OBVIOUS
      <3>1. g[s \ {CHOOSE x \in s : TRUE}] = h[s \ {CHOOSE x \in s : TRUE}]
        BY <2>3, <2>4
      <3>2. g[s] = Val(s)
        OBVIOUS
      <3> HIDE DEF g
      <3> QED
        BY <3>1, <3>2
    <2>6. g = [s \in Small(n + 1) |-> g[s]]
      OBVIOUS
    <2> HIDE DEF g
    <2>7. Is(g, n + 1)
      BY <2>5, <2>6
    <2> HIDE DEF Is
    <2> QED
      BY <2>7
  <1>3. Cardinality(S) \in N
    <2>1. Cardinality(S) \in Nat
      BY FS_CardinalityType
    <2> HIDE DEF N
    <2> QED
      BY <1>1, <1>2, <2>1, SetInduction
  <1>4. Small(Cardinality(S)) = SUBSET S
    BY FS_Subset
  <1> HIDE DEF Small
  <1> QED
    BY <1>3, <1>4 DEF AddsUp

\* A sum of numbers, with any of its elements taken first.
AnyFirst(g, f, S) ==
  \A T \in SUBSET S : g[T] \in Int /\ \A x \in T : g[T] = f[x] + g[T \ {x}]

NumbersOn(f, S) == \A x \in S : f[x] \in Int

\* Any element may be taken first.
LEMMA AddsUpAny ==
  ASSUME NEW f, NEW S, IsFiniteSet(S), NEW g, AddsUp(g, f, S), NumbersOn(f, S)
  PROVE  AnyFirst(g, f, S)
  <1> DEFINE Any(T) == g[T] \in Int /\ \A x \in T : g[T] = f[x] + g[T \ {x}]
             N == {n \in Nat : \A T \in SUBSET S : Cardinality(T) <= n => Any(T)}
  <1>0. \A T \in SUBSET S : /\ IsFiniteSet(T) /\ Cardinality(T) \in Nat
                            /\ Cardinality(T) = 0 <=> T = {}
    BY FS_Subset, FS_CardinalityType, FS_EmptySet
  <1>1. g[{}] = 0
    BY DEF AddsUp
  <1>2. 0 \in N
    BY <1>0, <1>1
  <1>3. ASSUME NEW n \in Nat, n \in N PROVE n + 1 \in N
    <2>0. \A T \in SUBSET S : Cardinality(T) <= n => Any(T)
      BY <1>3
    <2> SUFFICES ASSUME NEW T \in SUBSET S, Cardinality(T) = n + 1
                 PROVE  Any(T)
      <3> HIDE DEF Any
      <3> QED
        BY <1>0, <2>0
    <2>1. T # {} /\ IsFiniteSet(T)
      BY <1>0
    <2>2. PICK c : c = Taken(T)
      OBVIOUS
    <2>3. c \in T /\ f[c] \in Int
      BY <2>1, <2>2 DEF NumbersOn, Taken
    <2>4. g[T] = f[c] + g[T \ {c}]
      BY <2>1, <2>2, TakesOne
    <2>5. \A x \in T : /\ Cardinality(T \ {x}) = n
                       /\ T \ {x} \in SUBSET S
      BY <2>1, OneLess
    <2>6. \A x \in T : g[T \ {x}] \in Int /\ \A y \in T \ {x} : g[T \ {x}] = f[y] + g[(T \ {x}) \ {y}]
      BY <2>0, <2>5
    <2>7. g[T] \in Int
      <3>1. g[T \ {c}] \in Int
        BY <2>3, <2>6
      <3> QED
        BY <2>3, <2>4, <3>1
    <2>8. ASSUME NEW x \in T PROVE g[T] = f[x] + g[T \ {x}]
      <3>1. CASE x = c
        BY <2>4, <3>1
      <3>2. CASE x # c
        <4>1. x \in T \ {c} /\ c \in T \ {x} /\ (T \ {c}) \ {x} = (T \ {x}) \ {c}
          BY <2>3, <3>2
        <4>2. g[T \ {c}] = f[x] + g[(T \ {c}) \ {x}]
          BY <2>3, <2>6, <4>1
        <4>3. g[T \ {x}] = f[c] + g[(T \ {c}) \ {x}]
          BY <2>6, <4>1
        <4>4. g[(T \ {c}) \ {x}] \in Int
          <5>1. PICK R : R = (T \ {c}) \ {x}
            OBVIOUS
          <5>2. R \in SUBSET S /\ Cardinality(R) <= n
            <6>1. IsFiniteSet(T \ {c}) /\ Cardinality(T \ {c}) = n
              BY <2>1, <2>3, <2>5, OneLess
            <6>2. Cardinality(R) = n - 1
              BY <4>1, <5>1, <6>1, OneLess
            <6> QED
              BY <5>1, <6>2
          <5> QED
            BY <2>0, <5>1, <5>2
        <4>5. f[x] \in Int
          BY DEF NumbersOn
        <4> QED
          BY <2>3, <2>4, <4>2, <4>3, <4>4, <4>5
      <3> QED
        BY <3>1, <3>2
    <2> QED
      BY <2>7, <2>8
  <1>4. ASSUME NEW T \in SUBSET S
        PROVE  Any(T)
    <2>1. Cardinality(T) \in Nat
      BY <1>0
    <2> HIDE DEF N
    <2>2. Cardinality(T) \in N
      BY <1>2, <1>3, <2>1, SetInduction
    <2> HIDE DEF Any
    <2> QED
      BY <2>1, <2>2 DEF N
  <1> QED
    BY <1>4 DEF AnyFirst

\* SumOver() is such a sum.
LEMMA SumOverIs ==
  ASSUME NEW f, IsFiniteSet(DOMAIN f)
  PROVE  \E g : AddsUp(g, f, DOMAIN f) /\ SumOver(f) = g[DOMAIN f]
  <1> DEFINE Is(g) == g = [s \in SUBSET (DOMAIN f) |-> IF s = {} THEN 0
                             ELSE LET x == CHOOSE x \in s : TRUE IN f[x] + g[s \ {x}]]
             h == CHOOSE g : Is(g)
  <1>1. Is(h)
    <2>1. \E g : Is(g)
      <3>1. \E g : AddsUp(g, f, DOMAIN f)
        BY AddsUpExists
      <3> QED
        BY <3>1, Zenon DEF AddsUp
    <2> QED
      BY <2>1, Zenon
  <1>2. SumOver(f) = h[DOMAIN f]
    BY Zenon DEF SumOver, FoldFunction, FoldFunctionOnSet, MapThenFoldSet
  <1> HIDE DEF h
  <1> QED
    BY <1>1, <1>2 DEF AddsUp

\* Sums of the same numbers are the same.
LEMMA AddsUpSame ==
  ASSUME NEW f, NEW S, IsFiniteSet(S), NEW g, AddsUp(g, f, S),
         NEW e, NEW R, NEW h, AddsUp(h, e, R),
         NEW U, U \subseteq S, U \subseteq R, \A x \in U : f[x] = e[x]
  PROVE  g[U] = h[U]
  <1> DEFINE N == {n \in Nat : \A T \in SUBSET U : Cardinality(T) <= n => g[T] = h[T]}
  <1>0. \A T \in SUBSET U : /\ IsFiniteSet(T) /\ Cardinality(T) \in Nat
                            /\ Cardinality(T) = 0 <=> T = {}
    BY FS_Subset, FS_CardinalityType, FS_EmptySet
  <1>1. g[{}] = 0 /\ h[{}] = 0
    BY DEF AddsUp
  <1>2. 0 \in N
    BY <1>0, <1>1
  <1>3. ASSUME NEW n \in Nat, n \in N PROVE n + 1 \in N
    <2> SUFFICES ASSUME NEW T \in SUBSET U, Cardinality(T) = n + 1 PROVE g[T] = h[T]
      BY <1>0, <1>3
    <2>1. T # {} /\ IsFiniteSet(T)
      BY <1>0
    <2>2. PICK c : c = Taken(T)
      OBVIOUS
    <2>3. c \in T
      BY <2>1, <2>2 DEF Taken
    <2>4. g[T] = f[c] + g[T \ {c}] /\ h[T] = e[c] + h[T \ {c}]
      <3>1. T \in SUBSET S /\ T \in SUBSET R
        OBVIOUS
      <3>2. g[T] = f[c] + g[T \ {c}]
        BY <2>1, <2>2, <3>1, TakesOne
      <3>3. h[T] = e[c] + h[T \ {c}]
        BY <2>1, <2>2, <3>1, TakesOne
      <3> QED
        BY <3>2, <3>3
    <2>5. Cardinality(T \ {c}) = n /\ T \ {c} \in SUBSET U
      BY <2>1, <2>3, OneLess
    <2>6. g[T \ {c}] = h[T \ {c}]
      BY <1>3, <2>5
    <2> QED
      BY <2>3, <2>4, <2>6
  <1> HIDE DEF N
  <1>4. Cardinality(U) \in N
    BY <1>0, <1>2, <1>3, SetInduction
  <1> QED
    BY <1>0, <1>4 DEF N

\* Functions of the same numbers add up to the same.
LEMMA SumOverSame ==
  ASSUME NEW f, IsFiniteSet(DOMAIN f), NEW e, DOMAIN e = DOMAIN f, \A x \in DOMAIN f : f[x] = e[x]
  PROVE  SumOver(f) = SumOver(e)
  <1>1. PICK g : AddsUp(g, f, DOMAIN f) /\ SumOver(f) = g[DOMAIN f]
    BY SumOverIs
  <1>2. IsFiniteSet(DOMAIN e)
    OBVIOUS
  <1>3. PICK h : AddsUp(h, e, DOMAIN e) /\ SumOver(e) = h[DOMAIN e]
    BY <1>2, SumOverIs
  <1>4. PICK D : D = DOMAIN f
    OBVIOUS
  <1>5. g[D] = h[D]
    BY <1>1, <1>3, <1>4, AddsUpSame
  <1> QED
    BY <1>1, <1>3, <1>4, <1>5

\* add_count(): the map keeps what it has, and the sum grows by n.
LEMMA CountAdds ==
  ASSUME NEW map, IsFiniteSet(DOMAIN map), \A k \in DOMAIN map : map[k] \in Int, NEW key, NEW n \in Int
  PROVE  LET more == add_count(map, key, n) IN
         /\ DOMAIN more = DOMAIN map \cup {key} /\ IsFiniteSet(DOMAIN more)
         /\ \A k \in DOMAIN more : more[k] \in Int
         /\ SumOver(map) \in Int /\ SumOver(more) = SumOver(map) + n
  <1> DEFINE more == add_count(map, key, n)
  <1>1. /\ DOMAIN more = DOMAIN map \cup {key}
        /\ \A k \in DOMAIN map \ {key} : more[k] = map[k]
        /\ more[key] = (IF key \in DOMAIN map THEN map[key] ELSE 0) + n
        /\ \A k \in DOMAIN more : more[k] \in Int
    BY DEF add_count
  <1> HIDE DEF more
  <1>2. IsFiniteSet(DOMAIN more)
    BY <1>1, FS_AddElement
  <1>3. PICK g : AddsUp(g, map, DOMAIN map) /\ SumOver(map) = g[DOMAIN map]
    BY SumOverIs
  <1>4. PICK h : AddsUp(h, more, DOMAIN more) /\ SumOver(more) = h[DOMAIN more]
    BY <1>2, SumOverIs
  <1>5. PICK D : D = DOMAIN map
    OBVIOUS
  <1>6. PICK E : E = DOMAIN more
    OBVIOUS
  <1>7. PICK U : U = D \ {key}
    OBVIOUS
  <1>8. U \subseteq D /\ U \subseteq E /\ \A x \in U : map[x] = more[x]
    BY <1>1, <1>5, <1>6, <1>7
  <1>9. g[U] = h[U]
    BY <1>3, <1>4, <1>5, <1>6, <1>8, AddsUpSame
  <1>10. /\ \A T \in SUBSET D : g[T] \in Int /\ \A x \in T : g[T] = map[x] + g[T \ {x}]
         /\ \A T \in SUBSET E : h[T] \in Int /\ \A x \in T : h[T] = more[x] + h[T \ {x}]
    <2>1. /\ IsFiniteSet(D) /\ AddsUp(g, map, D) /\ NumbersOn(map, D)
          /\ IsFiniteSet(E) /\ AddsUp(h, more, E) /\ NumbersOn(more, E)
      BY <1>1, <1>2, <1>3, <1>4, <1>5, <1>6 DEF NumbersOn
    <2>2. AnyFirst(g, map, D) /\ AnyFirst(h, more, E)
      BY <2>1, AddsUpAny
    <2> QED
      BY <2>2 DEF AnyFirst
  <1>11. E \ {key} = U /\ key \in E
    BY <1>1, <1>5, <1>6, <1>7
  <1>12. h[E] = more[key] + g[U] /\ g[D] \in Int /\ g[U] \in Int
    <2>1. h[E] = more[key] + h[E \ {key}]
      BY <1>10, <1>11
    <2> QED
      BY <1>8, <1>9, <1>10, <1>11, <2>1
  <1>13. h[E] = g[D] + n
    <2>1. CASE key \in D
      <3>1. g[D] = map[key] + g[U] /\ map[key] \in Int
        BY <1>5, <1>7, <1>10, <2>1
      <3> QED
        BY <1>1, <1>5, <1>12, <2>1, <3>1
    <2>2. CASE key \notin D
      <3>1. U = D
        BY <1>7, <2>2
      <3>2. h[E] = (0 + n) + g[D]
        BY <1>1, <1>5, <1>12, <2>2, <3>1
      <3> QED
        BY <1>12, <3>2
    <2> QED
      BY <2>1, <2>2
  <1>14. SumOver(map) = g[D] /\ SumOver(more) = h[E]
    BY <1>3, <1>4, <1>5, <1>6
  <1> QED
    BY <1>1, <1>2, <1>12, <1>13, <1>14 DEF more

-----------------------------------------------------------------------------
(* MoveStats: what a batch adds to the statistics.                         *)

\* Every node fits the field of its key and is told from an error.
NodesFitKey == NrNodes <= 128

\* What status_after_move holds.
Answers == Ids \cup (DefaultFailed .. -1)

\* get_moved_bytes() counts the key.
IsMoved(key) == LET u == unbox_movestate(key) IN is_page_moved(u.from, u.to, u.result)

\* box_movestate() keeps what is_page_moved() asks for.
LEMMA Unboxed ==
  ASSUME NodesFitKey, NEW from \in Ids, NEW target \in Ids, NEW result \in Answers
  PROVE  LET key == box_movestate(from, target, result) IN
         key \in Int /\ (IsMoved(key) <=> result = target /\ from # target)
  <1>1. /\ from \in Int /\ 0 <= from /\ from <= 127
        /\ target \in Int /\ 0 <= target /\ target <= 127
        /\ result \in Int /\ -128 <= result /\ result <= 127
    BY NodesAssumption DEF NodesFitKey, Ids, Answers, DefaultFailed
  <1> DEFINE key == box_movestate(from, target, result)
  <1>2. key = from + target * 256 + result * 65536 /\ key \in Int
    BY <1>1 DEF box_movestate
  <1> HIDE DEF key
  <1>3. key % 256 = from /\ key \div 256 = target + result * 256
    BY <1>1, <1>2
  <1>4. (target + result * 256) % 256 = target
    BY <1>1
  <1>5. key \div 65536 = result
    BY <1>1, <1>2
  <1>6. result % 256 = IF result < 0 THEN result + 256 ELSE result
    BY <1>1
  <1>7. SignedChar(key) = from
    BY <1>1, <1>3 DEF SignedChar
  <1>8. SignedChar(key \div 256) = target
    BY <1>1, <1>3, <1>4 DEF SignedChar
  <1>9. SignedChar(key \div 65536) = result
    BY <1>1, <1>5, <1>6 DEF SignedChar
  <1>10. IsMoved(key) <=> from >= 0 /\ from # target /\ target = result
    BY <1>7, <1>8, <1>9 DEF IsMoved, unbox_movestate, is_page_moved
  <1> QED
    BY <1>1, <1>2, <1>10 DEF key

\* The statistics of one kind say the same in kilobytes and in boxed counts.
Agree(s) ==
  /\ s.move_kb \in Int /\ s.to_move_kb \in Int
  /\ IsFiniteSet(DOMAIN s.move_page_status)
  /\ \A k \in DOMAIN s.move_page_status : s.move_page_status[k] \in Int
  /\ get_moved_bytes(s) = s.move_kb
  /\ SumOver(s.move_page_status) = s.to_move_kb

\* The counts of what moved.
MovedKeys(map) == {k \in DOMAIN map : IsMoved(k)}
MovedOf(map)   == [k \in MovedKeys(map) |-> map[k]]

\* get_moved_bytes() adds them up.
LEMMA MovedBytes ==
  ASSUME NEW s
  PROVE  get_moved_bytes(s) = SumOver(MovedOf(s.move_page_status))
  BY Zenon DEF get_moved_bytes, MovedOf, MovedKeys, IsMoved

\* The boxed counts of what moved grow by the counts of what moved.
LEMMA MovedAdds ==
  ASSUME NEW map, IsFiniteSet(DOMAIN map), \A k \in DOMAIN map : map[k] \in Int,
         NEW key, NEW n \in Int
  PROVE  /\ SumOver(MovedOf(map)) \in Int
         /\ SumOver(MovedOf(add_count(map, key, n)))
              = SumOver(MovedOf(map)) + IF IsMoved(key) THEN n ELSE 0
  <1>1. PICK part : part = MovedOf(map)
    OBVIOUS
  <1>2. PICK more : more = add_count(map, key, n)
    OBVIOUS
  <1>3. PICK moved : moved = MovedOf(more)
    OBVIOUS
  <1>4. /\ DOMAIN more = DOMAIN map \cup {key}
        /\ \A k \in DOMAIN more : more[k] = (IF k \in DOMAIN map THEN map[k] ELSE 0) + (IF k = key THEN n ELSE 0)
    BY <1>2 DEF add_count
  <1>5. /\ DOMAIN part = MovedKeys(map) /\ \A k \in DOMAIN part : part[k] = map[k] /\ part[k] \in Int
        /\ MovedKeys(map) \subseteq DOMAIN map
    BY <1>1 DEF MovedOf, MovedKeys
  <1>6. /\ DOMAIN moved = MovedKeys(more) /\ \A k \in DOMAIN moved : moved[k] = more[k]
        /\ MovedKeys(more) \subseteq DOMAIN more
    BY <1>3 DEF MovedOf, MovedKeys
  <1>7. IsFiniteSet(DOMAIN part)
    BY <1>5, FS_Subset
  <1>8. SumOver(part) \in Int /\ SumOver(add_count(part, key, n)) = SumOver(part) + n
    BY <1>5, <1>7, CountAdds
  <1>9. CASE IsMoved(key)
    <2>1. PICK plus : plus = add_count(part, key, n)
      OBVIOUS
    <2>2. /\ DOMAIN plus = MovedKeys(map) \cup {key}
          /\ \A k \in DOMAIN plus : plus[k] = (IF k \in DOMAIN part THEN part[k] ELSE 0) + (IF k = key THEN n ELSE 0)
      BY <1>5, <2>1 DEF add_count
    <2>3. MovedKeys(more) = MovedKeys(map) \cup {key}
      BY <1>4, <1>9 DEF MovedKeys
    <2>4. \A k \in MovedKeys(more) : k \in DOMAIN map <=> k \in MovedKeys(map)
      BY DEF MovedKeys
    <2>5. IsFiniteSet(DOMAIN plus)
      BY <1>5, <1>7, <2>2, FS_AddElement
    <2>6. DOMAIN moved = DOMAIN plus /\ \A k \in DOMAIN plus : plus[k] = moved[k]
      BY <1>4, <1>5, <1>6, <2>2, <2>3, <2>4
    <2>7. SumOver(plus) = SumOver(moved)
      BY <2>5, <2>6, SumOverSame
    <2> QED
      BY <1>1, <1>2, <1>3, <1>8, <1>9, <2>1, <2>7
  <1>10. CASE ~IsMoved(key)
    <2>1. MovedKeys(more) = MovedKeys(map) /\ key \notin MovedKeys(map)
      BY <1>4, <1>10 DEF MovedKeys
    <2>2. DOMAIN moved = DOMAIN part /\ \A k \in DOMAIN part : part[k] = moved[k]
      <3>1. \A k \in DOMAIN part : k \in DOMAIN map /\ k # key /\ map[k] \in Int
        BY <1>5, <2>1
      <3> QED
        BY <1>4, <1>5, <1>6, <2>1, <3>1
    <2>3. SumOver(part) = SumOver(moved)
      BY <1>7, <2>2, SumOverSame
    <2> QED
      BY <1>1, <1>2, <1>3, <1>8, <1>10, <2>3
  <1> QED
    BY <1>9, <1>10

\* save_migrate_states() for one answer.
Saving(before, kb, from, target, result) ==
  LET moved == result = target /\ from # target IN
  [to_move_kb |-> before.to_move_kb + kb,
   move_kb |-> before.move_kb + (IF moved THEN kb ELSE 0),
   skip_kb |-> before.skip_kb + (IF moved THEN 0 ELSE kb),
   move_page_status |-> add_count(before.move_page_status, box_movestate(from, target, result), kb)]

\* One answer more, and the statistics agree.
LEMMA SavingAgrees ==
  ASSUME NodesFitKey, NEW s, Agree(s), NEW kb \in Nat,
         NEW from \in Ids, NEW target \in Ids, NEW result \in Answers
  PROVE  /\ Agree(Saving(s, kb, from, target, result))
         /\ Saving(s, kb, from, target, result).move_kb
              = s.move_kb + IF result = target /\ from # target THEN kb ELSE 0
  <1>1. PICK map : map = s.move_page_status
    OBVIOUS
  <1>2. PICK key : key = box_movestate(from, target, result)
    OBVIOUS
  <1>3. PICK more : more = add_count(map, key, kb)
    OBVIOUS
  <1>4. PICK e : e = Saving(s, kb, from, target, result)
    OBVIOUS
  <1>5. /\ e.to_move_kb = s.to_move_kb + kb /\ e.move_page_status = more
        /\ e.move_kb = s.move_kb + IF result = target /\ from # target THEN kb ELSE 0
    BY <1>1, <1>2, <1>3, <1>4 DEF Saving
  <1>6. IsFiniteSet(DOMAIN map) /\ \A k \in DOMAIN map : map[k] \in Int
    BY <1>1 DEF Agree
  <1>7. /\ IsFiniteSet(DOMAIN more) /\ \A k \in DOMAIN more : more[k] \in Int
        /\ SumOver(more) = SumOver(map) + kb
    <2>1. /\ IsFiniteSet(DOMAIN add_count(map, key, kb))
          /\ \A k \in DOMAIN add_count(map, key, kb) : add_count(map, key, kb)[k] \in Int
          /\ SumOver(add_count(map, key, kb)) = SumOver(map) + kb
      <3>1. kb \in Int
        OBVIOUS
      <3> QED
        BY <1>6, <3>1, CountAdds
    <2> QED
      BY <1>3, <2>1
  <1>8. SumOver(MovedOf(more)) = SumOver(MovedOf(map)) + IF IsMoved(key) THEN kb ELSE 0
    BY <1>3, <1>6, MovedAdds
  <1>9. IsMoved(key) <=> result = target /\ from # target
    BY <1>2, Unboxed
  <1>10. SumOver(MovedOf(map)) = s.move_kb /\ SumOver(map) = s.to_move_kb /\ s.move_kb \in Int /\ s.to_move_kb \in Int
    BY <1>1, MovedBytes DEF Agree
  <1>11. get_moved_bytes(e) = SumOver(MovedOf(more))
    BY <1>5, MovedBytes
  <1>12. get_moved_bytes(e) = e.move_kb /\ SumOver(more) = e.to_move_kb
         /\ e.move_kb \in Int /\ e.to_move_kb \in Int
    BY <1>5, <1>7, <1>8, <1>9, <1>10, <1>11
  <1>13. Agree(e)
    BY <1>5, <1>7, <1>12 DEF Agree
  <1> QED
    BY <1>4, <1>5, <1>13

\* The answers up to n by which a page moved.
MovedTo(n, from, target, result) == {i \in 1 .. n : result[i] = target[i] /\ from[i] # target[i]}

\* The recursive function of SavedStates().
SavesTo(f, n, s, kb, from, target, result) ==
  f = [i \in 0 .. n |-> IF i = 0 THEN s ELSE Saving(f[i - 1], kb, from[i], target[i], result[i])]

\* The function exists, whatever the answers.
LEMMA SavesExist ==
  ASSUME NEW s, NEW kb, NEW from, NEW target, NEW result, NEW n \in Nat
  PROVE  \E f : SavesTo(f, n, s, kb, from, target, result)
  <1> DEFINE One(before, i) == Saving(before, kb, from[i], target[i], result[i])
             Is(f, k) == f = [i \in 0 .. k |-> IF i = 0 THEN s ELSE One(f[i - 1], i)]
             S == {k \in Nat : \E f : Is(f, k)}
  <1> HIDE DEF One
  <1>1. 0 \in S
    <2>1. Is([i \in 0 .. 0 |-> s], 0)
      OBVIOUS
    <2> QED
      BY <2>1
  <1>2. ASSUME NEW k \in Nat, k \in S PROVE k + 1 \in S
    <2>1. PICK f : Is(f, k)
      BY <1>2
    <2> DEFINE g == [i \in 0 .. (k + 1) |-> IF i <= k THEN f[i] ELSE One(f[k], k + 1)]
    <2>2. \A i \in 0 .. k : f[i] = IF i = 0 THEN s ELSE One(f[i - 1], i)
      BY <2>1
    <2>3. \A i \in 0 .. (k + 1) : g[i] = IF i = 0 THEN s ELSE One(g[i - 1], i)
      <3> SUFFICES ASSUME NEW i \in 0 .. (k + 1)
                   PROVE  g[i] = IF i = 0 THEN s ELSE One(g[i - 1], i)
        OBVIOUS
      <3>1. CASE i <= k
        BY <2>2, <3>1
      <3>2. CASE i = k + 1
        BY <3>2
      <3> QED
        BY <3>1, <3>2
    <2>4. g = [i \in 0 .. (k + 1) |-> g[i]]
      OBVIOUS
    <2> HIDE DEF g
    <2>5. Is(g, k + 1)
      BY <2>3, <2>4
    <2> QED
      BY <2>5
  <1> HIDE DEF S
  <1>3. n \in S
    BY <1>1, <1>2, SetInduction
  <1> QED
    BY <1>3 DEF S, One, SavesTo

\* SavedStates() is its last element.
LEMMA SavedIs ==
  ASSUME NEW s, NEW kb, NEW from, NEW target, NEW result, Len(result) \in Nat
  PROVE  \E f : /\ SavesTo(f, Len(result), s, kb, from, target, result)
                /\ SavedStates(s, kb, from, target, result) = f[Len(result)]
  <1> DEFINE Is(f) == SavesTo(f, Len(result), s, kb, from, target, result)
             f0 == CHOOSE f : Is(f)
  <1>1. Is(f0)
    <2>1. \E f : Is(f)
      BY SavesExist
    <2> QED
      BY <2>1, Zenon
  <1>2. SavedStates(s, kb, from, target, result) = f0[Len(result)]
    BY Zenon DEF SavedStates, SavesTo, Saving
  <1> HIDE DEF f0
  <1> QED
    BY <1>1, <1>2

\* save_migrate_states(): the statistics keep agreeing, and what is added as
\* moved is what the answers say.
LEMMA SavedAgrees ==
  ASSUME NodesFitKey, NEW s, Agree(s), NEW kb \in Nat, NEW from, NEW target, NEW result,
         Len(result) \in Nat,
         \A i \in 1 .. Len(result) : from[i] \in Ids /\ target[i] \in Ids /\ result[i] \in Answers
  PROVE  /\ Agree(SavedStates(s, kb, from, target, result))
         /\ SavedStates(s, kb, from, target, result).move_kb
              = s.move_kb + kb * Cardinality(MovedTo(Len(result), from, target, result))
  <1>1. PICK n \in Nat : n = Len(result)
    OBVIOUS
  <1>2. PICK f : SavesTo(f, n, s, kb, from, target, result) /\ SavedStates(s, kb, from, target, result) = f[n]
    <2>1. \E f : /\ SavesTo(f, Len(result), s, kb, from, target, result)
                 /\ SavedStates(s, kb, from, target, result) = f[Len(result)]
      BY SavedIs
    <2> QED
      BY <1>1, <2>1
  <1> DEFINE Moved(k) == MovedTo(k, from, target, result)
             S == {k \in Nat : k <= n => /\ Agree(f[k]) /\ IsFiniteSet(Moved(k))
                                         /\ f[k].move_kb = s.move_kb + kb * Cardinality(Moved(k))}
  <1>3. 0 \in S
    <2>1. f[0] = s /\ Moved(0) = {}
      BY <1>2 DEF SavesTo, MovedTo
    <2>2. Cardinality(Moved(0)) = 0 /\ IsFiniteSet(Moved(0)) /\ s.move_kb \in Int
      BY <2>1, FS_EmptySet DEF Agree
    <2>3. kb * 0 = 0
      OBVIOUS
    <2> HIDE DEF Moved
    <2> QED
      BY <2>1, <2>2, <2>3
  <1>4. ASSUME NEW k \in Nat, k \in S PROVE k + 1 \in S
    <2> SUFFICES ASSUME k + 1 <= n
                 PROVE  /\ Agree(f[k + 1]) /\ IsFiniteSet(Moved(k + 1))
                        /\ f[k + 1].move_kb = s.move_kb + kb * Cardinality(Moved(k + 1))
      OBVIOUS
    <2>1. Agree(f[k]) /\ IsFiniteSet(Moved(k)) /\ f[k].move_kb = s.move_kb + kb * Cardinality(Moved(k))
      BY <1>4
    <2>2. PICK i : i = k + 1
      OBVIOUS
    <2>3. from[i] \in Ids /\ target[i] \in Ids /\ result[i] \in Answers
      BY <1>1, <2>2
    <2>4. f[i] = Saving(f[k], kb, from[i], target[i], result[i])
      <3>1. i \in 0 .. n /\ i # 0 /\ i - 1 = k
        BY <2>2
      <3>2. f[i] = Saving(f[i - 1], kb, from[i], target[i], result[i])
        BY <1>2, <3>1, Zenon DEF SavesTo
      <3> QED
        BY <3>1, <3>2
    <2>5. Agree(f[i]) /\ f[i].move_kb = f[k].move_kb + IF result[i] = target[i] /\ from[i] # target[i] THEN kb ELSE 0
      <3>1. PICK b : b = f[k]
        OBVIOUS
      <3>2. PICK u \in Ids : u = from[i]
        BY <2>3
      <3>3. PICK v \in Ids : v = target[i]
        BY <2>3
      <3>4. PICK r \in Answers : r = result[i]
        BY <2>3
      <3>5. /\ Agree(Saving(b, kb, u, v, r))
            /\ Saving(b, kb, u, v, r).move_kb = b.move_kb + IF r = v /\ u # v THEN kb ELSE 0
        BY <2>1, <3>1, SavingAgrees
      <3> QED
        BY <2>4, <3>1, <3>2, <3>3, <3>4, <3>5
    <2>6. PICK c : c = Cardinality(Moved(k))
      OBVIOUS
    <2>7. c \in Nat /\ s.move_kb \in Int /\ kb * c \in Int /\ kb * (c + 1) = kb * c + kb
      BY <2>1, <2>6, FS_CardinalityType DEF Agree
    <2>8. CASE result[i] = target[i] /\ from[i] # target[i]
      <3>1. Moved(k + 1) = Moved(k) \cup {i} /\ i \notin Moved(k)
        BY <2>2, <2>8 DEF MovedTo
      <3> HIDE DEF Moved
      <3>2. Cardinality(Moved(k + 1)) = c + 1 /\ IsFiniteSet(Moved(k + 1))
        BY <2>1, <2>6, <3>1, FS_AddElement
      <3> QED
        BY <2>1, <2>2, <2>5, <2>6, <2>7, <2>8, <3>2
    <2>9. CASE ~(result[i] = target[i] /\ from[i] # target[i])
      <3>1. Moved(k + 1) = Moved(k)
        BY <2>2, <2>9 DEF MovedTo
      <3> HIDE DEF Moved
      <3> QED
        BY <2>1, <2>2, <2>5, <2>6, <2>7, <2>9, <3>1 DEF Agree
    <2> QED
      BY <2>8, <2>9
  <1> HIDE DEF S
  <1>5. n \in S
    BY <1>3, <1>4, SetInduction
  <1> QED
    BY <1>1, <1>2, <1>5 DEF S

-----------------------------------------------------------------------------
(* Types of what is migrated.                                              *)

\* An entry of the table, located or not.
EntryType == [page : Pages, refs : Nat, nid : Ids \cup {-1}]

\* Every address has the node it comes from and the node it is to go to.
Plans ==
  {p \in [addr : Seq(Pages), from : Seq(Ids), to : Seq(Ids)] :
     Len(p.addr) = Len(p.from) /\ Len(p.addr) = Len(p.to)}

\* Tables, plans and answers.
MovesTyped ==
  /\ nodes \in Seq(Cells)
  /\ where \in [Pages -> Ids]
  /\ pc \in {"period", "profile", "migrate", "type", "batch"}
  /\ type \in PageTypes /\ kind \in Kinds /\ pass \in {1, 2} /\ at \in Nat
  /\ table \in [PageTypes -> Seq(EntryType)]
  /\ plan \in [Kinds -> Plans]
  /\ status_after_move \in [Kinds -> Seq(Answers)]

\* get_peer_node(): a peer is a node with an id, if there is one.
LEMMA PeerIds ==
  ASSUME NodesTyped, NEW nid \in Ids, is_valid_nid(nid)
  PROVE  LET peer == get_peer_node(node_map[nid]) IN peer # NULL => heap[peer].id \in Ids
  <1>1. node_map[nid] \in Cells /\ heap \in [Cells -> NodeObject]
    BY DEF NodesTyped, is_valid_nid
  <1>2. heap[node_map[nid]] \in NodeObject
    BY <1>1
  <1>3. get_peer_node(node_map[nid]) \in Cells \cup {NULL}
    BY <1>2 DEF get_peer_node, NodeObject
  <1>4. \A c \in Cells : heap[c].id \in Ids
    BY <1>1 DEF NodeObject
  <1> QED
    BY <1>3, <1>4

\* save_migrate_parameter(): address, node and target are added together.
LEMMA SavedTyped ==
  ASSUME NodesTyped, NEW p \in Plans, NEW e \in EntryType, is_valid_nid(e.nid)
  PROVE  Saved(p, e) \in Plans
  <1>1. e.nid \in Ids /\ e.page \in Pages
    BY DEF is_valid_nid, EntryType
  <1>2. PICK peer : peer = get_peer_node(node_map[e.nid])
    OBVIOUS
  <1>3. CASE peer = NULL
    BY <1>2, <1>3 DEF Saved
  <1>4. CASE peer # NULL
    <2>1. heap[peer].id \in Ids
      <3>1. PICK n \in Ids : n = e.nid
        BY <1>1
      <3> QED
        BY <1>2, <1>4, <3>1, PeerIds
    <2>2. PICK a, f, t : a = p.addr /\ f = p.from /\ t = p.to
      OBVIOUS
    <2>3. a \in Seq(Pages) /\ f \in Seq(Ids) /\ t \in Seq(Ids) /\ Len(a) = Len(f) /\ Len(a) = Len(t)
      BY <2>2 DEF Plans
    <2>4. PICK id \in Ids : id = heap[peer].id
      BY <2>1
    <2>5. Saved(p, e) = [addr |-> Append(a, e.page), from |-> Append(f, e.nid), to |-> Append(t, id)]
      BY <1>2, <1>4, <2>2, <2>4 DEF Saved
    <2>6. /\ Append(a, e.page) \in Seq(Pages) /\ Len(Append(a, e.page)) = Len(a) + 1
          /\ Append(f, e.nid) \in Seq(Ids) /\ Len(Append(f, e.nid)) = Len(f) + 1
          /\ Append(t, id) \in Seq(Ids) /\ Len(Append(t, id)) = Len(t) + 1
      <3>1. \A S, q, x : q \in Seq(S) /\ x \in S =>
              Append(q, x) \in Seq(S) /\ Len(Append(q, x)) = Len(q) + 1
        BY AppendProperties
      <3> QED
        BY <1>1, <2>3, <3>1, Zenon
    <2> QED
      BY <2>3, <2>5, <2>6 DEF Plans
  <1> QED
    BY <1>3, <1>4

\* An entry of the table joins a plan, or none.
LEMMA EntryTyped ==
  ASSUME NodesTyped, NEW s, s.plan \in [Kinds -> Plans], NEW e \in EntryType
  PROVE  PlanEntry(s, e).plan \in [Kinds -> Plans]
  <1>1. CASE ~is_valid_nid(e.nid)
    BY <1>1 DEF PlanEntry
  <1>2. CASE is_valid_nid(e.nid)
    <2>1. PICK q \in [Kinds -> Plans] : q = s.plan
      OBVIOUS
    <2>2. HOT \in Kinds /\ COLD \in Kinds
      BY DEF Kinds
    <2>3. Saved(q[HOT], e) \in Plans /\ Saved(q[COLD], e) \in Plans
      <3>1. PICK h \in Plans, c \in Plans : h = q[HOT] /\ c = q[COLD]
        BY <2>2
      <3>2. Saved(h, e) \in Plans /\ Saved(c, e) \in Plans
        BY <1>2, SavedTyped
      <3> QED
        BY <3>1, <3>2
    <2>4. /\ [q EXCEPT ![HOT] = Saved(q[HOT], e)] \in [Kinds -> Plans]
          /\ [q EXCEPT ![COLD] = Saved(q[COLD], e)] \in [Kinds -> Plans]
      BY <2>2, <2>3
    <2>5. PlanEntry(s, e).plan \in {q, [q EXCEPT ![HOT] = Saved(q[HOT], e)], [q EXCEPT ![COLD] = Saved(q[COLD], e)]}
      BY <1>2, <2>1, Zenon DEF PlanEntry
    <2> QED
      BY <2>4, <2>5
  <1> QED
    BY <1>1, <1>2

\* promote_and_demote() over the whole table.
LEMMA PlanOfTyped ==
  ASSUME NodesTyped, table \in [PageTypes -> Seq(EntryType)], NEW y \in PageTypes
  PROVE  PlanOf(y).plan \in [Kinds -> Plans]
  <1> DEFINE first0 == [param |-> param[y], plan |-> [k \in Kinds |-> NoPlan]]
             One(s, i) == PlanEntry(s, table[y][i])
             Is(f, k) == f = [i \in 0 .. k |-> IF i = 0 THEN first0 ELSE One(f[i - 1], i)]
             n == Len(table[y])
             f0 == CHOOSE f : Is(f, n)
  <1>1. PlanOf(y) = f0[n]
    BY Zenon DEF PlanOf
  <1>2. table[y] \in Seq(EntryType)
    OBVIOUS
  <1>3. n \in Nat /\ \A i \in 1 .. n : table[y][i] \in EntryType
    BY <1>2
  <1>4. first0.plan \in [Kinds -> Plans]
    <2>1. NoPlan \in Plans
      BY DEF NoPlan, Plans
    <2> QED
      BY <2>1
  <1>5. \A s, i : s.plan \in [Kinds -> Plans] /\ i \in 1 .. n => One(s, i).plan \in [Kinds -> Plans]
    <2> SUFFICES ASSUME NEW s, NEW i \in 1 .. n, s.plan \in [Kinds -> Plans]
                 PROVE  One(s, i).plan \in [Kinds -> Plans]
      OBVIOUS
    <2>1. PICK e \in EntryType : e = table[y][i]
      BY <1>3
    <2> QED
      BY <2>1, EntryTyped
  <1> HIDE DEF One, first0, n
  <1> DEFINE S == {k \in Nat : \E f : Is(f, k)}
  <1>6. 0 \in S
    <2>1. Is([i \in 0 .. 0 |-> first0], 0)
      OBVIOUS
    <2> QED
      BY <2>1
  <1>7. ASSUME NEW k \in Nat, k \in S PROVE k + 1 \in S
    <2>1. PICK f : Is(f, k)
      BY <1>7
    <2> DEFINE g == [i \in 0 .. (k + 1) |-> IF i <= k THEN f[i] ELSE One(f[k], k + 1)]
    <2>2. \A i \in 0 .. k : f[i] = IF i = 0 THEN first0 ELSE One(f[i - 1], i)
      BY <2>1
    <2>3. \A i \in 0 .. (k + 1) : g[i] = IF i = 0 THEN first0 ELSE One(g[i - 1], i)
      <3> SUFFICES ASSUME NEW i \in 0 .. (k + 1)
                   PROVE  g[i] = IF i = 0 THEN first0 ELSE One(g[i - 1], i)
        OBVIOUS
      <3>1. CASE i <= k
        BY <2>2, <3>1
      <3>2. CASE i = k + 1
        BY <3>2
      <3> QED
        BY <3>1, <3>2
    <2>4. g = [i \in 0 .. (k + 1) |-> g[i]]
      OBVIOUS
    <2> HIDE DEF g
    <2>5. Is(g, k + 1)
      BY <2>3, <2>4
    <2> QED
      BY <2>5
  <1>8. Is(f0, n)
    <2> HIDE DEF S, f0
    <2>1. n \in S
      BY <1>3, <1>6, <1>7, SetInduction
    <2>2. \E f : Is(f, n)
      BY <2>1 DEF S
    <2> HIDE DEF Is
    <2> QED
      BY <2>2, Zenon DEF f0
  <1> HIDE DEF f0, S
  <1> DEFINE T == {k \in Nat : k <= n => f0[k].plan \in [Kinds -> Plans]}
  <1>9. 0 \in T
    BY <1>3, <1>4, <1>8
  <1>10. ASSUME NEW k \in Nat, k \in T PROVE k + 1 \in T
    <2> SUFFICES ASSUME k + 1 <= n PROVE f0[k + 1].plan \in [Kinds -> Plans]
      OBVIOUS
    <2>1. k + 1 \in 1 .. n /\ k + 1 \in 0 .. n /\ k + 1 # 0 /\ (k + 1) - 1 = k
      BY <1>3
    <2>2. f0[k].plan \in [Kinds -> Plans]
      <3>1. k <= n
        BY <1>3
      <3> QED
        BY <1>10, <3>1
    <2>3. f0[k + 1] = One(f0[(k + 1) - 1], k + 1)
      BY <1>8, <2>1, Zenon
    <2> QED
      BY <1>5, <2>1, <2>2, <2>3
  <1> HIDE DEF T
  <1>11. n \in T
    BY <1>3, <1>9, <1>10, SetInduction
  <1> QED
    BY <1>1, <1>3, <1>11 DEF T

-----------------------------------------------------------------------------
(* One batch.                                                              *)

\* A function of the numbers up to n is a sequence.
LEMMA AsSequence ==
  ASSUME NEW S, NEW n \in Nat, NEW s, s = [i \in 1 .. n |-> s[i]], \A i \in 1 .. n : s[i] \in S
  PROVE  s \in Seq(S) /\ Len(s) = n /\ DOMAIN s = 1 .. n
  OBVIOUS

\* The part of a sequence that starts after k.
LEMMA Part ==
  ASSUME NEW S, NEW s \in Seq(S), NEW k \in Nat, NEW n \in Nat, k + n <= Len(s)
  PROVE  SubSeq(s, k + 1, k + n) \in Seq(S) /\ Len(SubSeq(s, k + 1, k + n)) = n
  <1>1. PICK from, to : from = k + 1 /\ to = k + n
    OBVIOUS
  <1>2. from \in Int /\ to \in Int /\ \A i \in from .. to : s[i] \in S
    <2>1. \A i \in from .. to : i \in 1 .. Len(s)
      BY <1>1
    <2> QED
      BY <1>1, <2>1, ElementOfSeq
  <1>3. /\ SubSeq(s, from, to) \in Seq(S)
        /\ Len(SubSeq(s, from, to)) = IF from <= to THEN to - from + 1 ELSE 0
    BY <1>2, SubSeqProperties
  <1>4. (IF from <= to THEN to - from + 1 ELSE 0) = n
    BY <1>1
  <1> QED
    BY <1>1, <1>3, <1>4

\* A batch has an address, a node it comes from, one it goes to and an old answer each.
LEMMA BatchTyped ==
  ASSUME MovesTyped, at < Len(plan[kind].addr)
  PROVE  /\ BatchSize \in Nat
         /\ Batch(plan[kind].addr) \in Seq(Pages) /\ Len(Batch(plan[kind].addr)) = BatchSize
         /\ Batch(From) \in Seq(Ids) /\ Len(Batch(From)) = BatchSize
         /\ Batch(Target) \in Seq(Ids) /\ Len(Batch(Target)) = BatchSize
         /\ Resized(status_after_move[kind], BatchSize) \in Seq(Answers)
         /\ Len(Resized(status_after_move[kind], BatchSize)) = BatchSize
  <1>1. plan[kind] \in Plans /\ status_after_move[kind] \in Seq(Answers) /\ at \in Nat
    BY DEF MovesTyped
  <1>2. PICK a, f, t : a = plan[kind].addr /\ f = plan[kind].from /\ t = plan[kind].to
    OBVIOUS
  <1>3. a \in Seq(Pages) /\ f \in Seq(Ids) /\ t \in Seq(Ids) /\ Len(a) = Len(f) /\ Len(a) = Len(t)
    BY <1>1, <1>2 DEF Plans
  <1>4. BatchOf[type] \in Nat \ {0} /\ Len(a) \in Nat
    BY <1>3, MigrateAssumption DEF MovesTyped
  <1>5. PICK n : n = BatchSize
    OBVIOUS
  <1>6. n \in Nat /\ at + n <= Len(a)
    BY <1>1, <1>2, <1>4, <1>5 DEF BatchSize, Least
  <1>7. \A s : Batch(s) = SubSeq(s, at + 1, at + n)
    BY <1>5 DEF Batch
  <1>8. From \in {f, t} /\ Target \in {f, t}
    BY <1>2 DEF From, Target
  <1>9. /\ Batch(a) \in Seq(Pages) /\ Len(Batch(a)) = n
        /\ Batch(f) \in Seq(Ids) /\ Len(Batch(f)) = n
        /\ Batch(t) \in Seq(Ids) /\ Len(Batch(t)) = n
    <2>1. ASSUME NEW S, NEW s \in Seq(S), Len(s) = Len(a)
          PROVE  Batch(s) \in Seq(S) /\ Len(Batch(s)) = n
      <3>1. PICK k : k = at
        OBVIOUS
      <3>2. k \in Nat /\ k + n <= Len(s)
        BY <1>1, <1>6, <2>1, <3>1
      <3>3. Batch(s) = SubSeq(s, k + 1, k + n)
        BY <1>7, <3>1
      <3>4. SubSeq(s, k + 1, k + n) \in Seq(S) /\ Len(SubSeq(s, k + 1, k + n)) = n
        BY <1>6, <3>2, Part
      <3> QED
        BY <3>3, <3>4
    <2>2. Batch(a) \in Seq(Pages) /\ Len(Batch(a)) = n
      BY <1>3, <2>1
    <2>3. Batch(f) \in Seq(Ids) /\ Len(Batch(f)) = n
      BY <1>3, <2>1
    <2>4. Batch(t) \in Seq(Ids) /\ Len(Batch(t)) = n
      BY <1>3, <2>1
    <2> QED
      BY <2>2, <2>3, <2>4
  <1>10. Batch(From) \in {Batch(f), Batch(t)} /\ Batch(Target) \in {Batch(f), Batch(t)}
    BY <1>8
  <1>11. PICK old \in Seq(Answers) : old = status_after_move[kind]
    BY <1>1
  <1>12. PICK r : r = Resized(old, n)
    OBVIOUS
  <1>13. r = [i \in 1 .. n |-> r[i]] /\ \A i \in 1 .. n : r[i] \in Answers
    <2>1. DefaultFailed \in Answers
      BY DEF Answers, DefaultFailed
    <2>2. \A i \in DOMAIN old : old[i] \in Answers
      OBVIOUS
    <2> QED
      BY <1>12, <2>1, <2>2 DEF Resized
  <1>14. r \in Seq(Answers) /\ Len(r) = n
    BY <1>6, <1>13, AsSequence
  <1> QED
    BY <1>2, <1>5, <1>6, <1>9, <1>10, <1>11, <1>12, <1>14

\* move_pages(): an answer for each page, which says whether the page is where it was to
\* go unless the call, or the query after it, gave none.
LEMMA MoveAnswers ==
  ASSUME where \in [Pages -> Ids], NEW addrs \in Seq(Pages), NEW targets \in Seq(Ids),
         Len(targets) = Len(addrs), NEW before \in Seq(Answers), Len(before) = Len(addrs),
         MoveBatch(addrs, targets, before)
  PROVE  /\ where' \in [Pages -> Ids]
         /\ \E r \in Seq(Answers) :
              /\ Len(r) = Len(addrs) /\ status_after_move' = [status_after_move EXCEPT ![kind] = r]
              /\ unanswered' \in {unanswered, unanswered \cup {kind}}
              /\ kind \notin unanswered' =>
                   \A i \in 1 .. Len(addrs) : r[i] = targets[i] <=> where'[addrs[i]] = targets[i]
  <1>1. PICK n \in Nat : n = Len(addrs)
    OBVIOUS
  <1>2. /\ DOMAIN addrs = 1 .. n /\ \A i \in 1 .. n : addrs[i] \in Pages
        /\ DOMAIN targets = 1 .. n /\ \A i \in 1 .. n : targets[i] \in Ids
    BY <1>1
  <1> DEFINE answers == [i \in DOMAIN addrs |-> IF where'[addrs[i]] = targets[i] THEN targets[i] ELSE -16]
             asked == [i \in DOMAIN addrs |-> where'[addrs[i]]]
  <1>3. PICK moving \in SUBSET Range(addrs) :
          /\ where' = [p \in Pages |-> IF p \in moving
                         THEN targets[CHOOSE i \in DOMAIN addrs : addrs[i] = p] ELSE where[p]]
          /\ \/ status_after_move' = [status_after_move EXCEPT ![kind] = answers]
                /\ UNCHANGED unanswered
             \/ \E s \in {before, asked} :
                  /\ status_after_move' = [status_after_move EXCEPT ![kind] = s]
                  /\ unanswered' = IF s = before THEN unanswered \cup {kind} ELSE unanswered
             \/ /\ moving = {}
                /\ status_after_move' = [status_after_move EXCEPT ![kind] = before]
                /\ unanswered' = unanswered \cup {kind}
    BY Zenon DEF MoveBatch, Relocated
  <1>4. where' \in [Pages -> Ids]
    <2>1. \A p \in moving : (CHOOSE i \in DOMAIN addrs : addrs[i] = p) \in 1 .. n
      BY <1>2 DEF Range
    <2>2. \A p \in moving : targets[CHOOSE i \in DOMAIN addrs : addrs[i] = p] \in Ids
      BY <1>2, <2>1
    <2> QED
      BY <1>3, <2>2
  <1>5. \A i \in 1 .. n : where'[addrs[i]] \in Ids
    BY <1>2, <1>4
  <1>6. /\ answers \in Seq(Answers) /\ Len(answers) = n
        /\ \A i \in 1 .. n : answers[i] = targets[i] <=> where'[addrs[i]] = targets[i]
    <2>1. answers = [i \in 1 .. n |-> IF where'[addrs[i]] = targets[i] THEN targets[i] ELSE -16]
      BY <1>2
    <2>2. -16 \in Answers /\ \A x \in Ids : x \in Answers /\ x # -16
      BY NodesAssumption DEF Answers, DefaultFailed, Ids
    <2>3. answers = [i \in 1 .. n |-> answers[i]] /\ \A i \in 1 .. n : answers[i] \in Answers
      BY <1>2, <2>1, <2>2
    <2>4. \A i \in 1 .. n : answers[i] = targets[i] <=> where'[addrs[i]] = targets[i]
      BY <1>2, <2>1, <2>2
    <2> HIDE DEF answers
    <2> QED
      BY <2>3, <2>4, AsSequence
  <1>7. /\ asked \in Seq(Answers) /\ Len(asked) = n
        /\ \A i \in 1 .. n : asked[i] = where'[addrs[i]]
    <2>1. asked = [i \in 1 .. n |-> asked[i]] /\ \A i \in 1 .. n : asked[i] = where'[addrs[i]] /\ asked[i] \in Answers
      BY <1>2, <1>5 DEF Answers
    <2> HIDE DEF asked
    <2> QED
      BY <2>1, AsSequence
  <1> HIDE DEF answers, asked
  <1> DEFINE Answered(r) ==
               /\ Len(r) = Len(addrs) /\ status_after_move' = [status_after_move EXCEPT ![kind] = r]
               /\ unanswered' \in {unanswered, unanswered \cup {kind}}
               /\ kind \notin unanswered' =>
                    \A i \in 1 .. Len(addrs) : r[i] = targets[i] <=> where'[addrs[i]] = targets[i]
  <1>8. CASE status_after_move' = [status_after_move EXCEPT ![kind] = answers] /\ UNCHANGED unanswered
    BY <1>1, <1>4, <1>6, <1>8
  <1>9. ASSUME NEW s \in {before, asked},
               status_after_move' = [status_after_move EXCEPT ![kind] = s],
               unanswered' = IF s = before THEN unanswered \cup {kind} ELSE unanswered
        PROVE  \E r \in Seq(Answers) : Answered(r)
    <2>1. CASE s = before
      <3>1. Answered(before)
        BY <1>9, <2>1
      <3> HIDE DEF Answered
      <3> QED
        BY <3>1
    <2>2. CASE s # before
      <3>1. Answered(asked)
        BY <1>1, <1>7, <1>9, <2>2
      <3> HIDE DEF Answered
      <3> QED
        BY <1>7, <3>1
    <2> QED
      BY <2>1, <2>2
  <1>10. CASE /\ status_after_move' = [status_after_move EXCEPT ![kind] = before]
              /\ unanswered' = unanswered \cup {kind}
    <2>1. Answered(before)
      BY <1>10
    <2> HIDE DEF Answered
    <2> QED
      BY <1>4, <2>1 DEF Answered
  <1> QED
    BY <1>3, <1>4, <1>8, <1>9, <1>10, Zenon

-----------------------------------------------------------------------------
(* The statistics.                                                         *)

\* What was counted as moved is what the boxed counts say, what arrived unless a call
\* gave no answers, and what the throttler was charged.
Accounts ==
  /\ stats = [k \in Kinds |-> stats[k]] /\ \A k \in Kinds : Agree(stats[k])
  /\ arrived \in [Kinds -> Int] /\ \A k \in Kinds : k \notin unanswered => stats[k].move_kb = arrived[k]
  /\ charged = stats[COLD].move_kb + stats[HOT].move_kb

\* Statistics that start again.
LEMMA NoneAgree == Agree(NoStats)
  <1>1. PICK none : none = NoStats.move_page_status
    OBVIOUS
  <1>2. none = <<>> /\ DOMAIN none = {} /\ IsFiniteSet(DOMAIN none)
    BY <1>1, FS_EmptySet DEF NoStats
  <1>3. PICK m : m = MovedOf(none)
    OBVIOUS
  <1>4. DOMAIN m = {} /\ IsFiniteSet(DOMAIN m)
    BY <1>2, <1>3, FS_EmptySet DEF MovedOf, MovedKeys
  <1>5. ASSUME NEW f, DOMAIN f = {}, IsFiniteSet(DOMAIN f) PROVE SumOver(f) = 0
    <2>1. PICK g : AddsUp(g, f, DOMAIN f) /\ SumOver(f) = g[DOMAIN f]
      BY <1>5, SumOverIs
    <2> QED
      BY <1>5, <2>1 DEF AddsUp
  <1>6. SumOver(none) = 0 /\ SumOver(m) = 0
    BY <1>2, <1>4, <1>5
  <1>7. get_moved_bytes(NoStats) = 0
    BY <1>1, <1>3, <1>6, MovedBytes
  <1> QED
    BY <1>1, <1>2, <1>6, <1>7 DEF Agree, NoStats

\* Nothing is planned or counted at first.
LEMMA InitMoves == Init => MovesTyped /\ Accounts
  <1> SUFFICES ASSUME Init PROVE MovesTyped /\ Accounts
    OBVIOUS
  <1>1. nodes \in Seq(Cells)
    BY DEF Init, NumaInit
  <1>2. NoPlan \in Plans
    BY DEF NoPlan, Plans
  <1>3. where \in [Pages -> Ids]
    BY MigrateAssumption DEF Init
  <1>4. MovesTyped
    BY <1>1, <1>2, <1>3 DEF Init, MovesTyped, PageTypes, Kinds
  <1>5. stats = [k \in Kinds |-> NoStats] /\ arrived = [k \in Kinds |-> 0] /\ charged = 0
    BY DEF Init
  <1>6. COLD \in Kinds /\ HOT \in Kinds /\ NoStats.move_kb = 0
    BY DEF Kinds, NoStats
  <1> QED
    BY <1>4, <1>5, <1>6, NoneAgree DEF Accounts

\* The nodes that collect() lists.
LEMMA NodesListed ==
  ASSUME NodesTyped, nodes \in Seq(Cells), NumaNext
  PROVE  nodes' \in Seq(Cells)
  <1>1. CASE UNCHANGED nodes
    BY <1>1
  <1>2. ASSUME NEW c \in Cells, nodes' = Append(nodes, c) PROVE nodes' \in Seq(Cells)
    BY <1>2, AppendProperties
  <1>3. UNCHANGED nodes \/ \E c \in Cells : nodes' = Append(nodes, c)
    BY DEF NumaNext, Reload, CreateNode, NewNode, SetDefaults, LinkNode, InitCpuMap, listVars
  <1> QED
    BY <1>1, <1>2, <1>3

\* A turn that moves a batch keeps the types.
LEMMA BatchMoves ==
  ASSUME MovesTyped, MoveTurn, at < Len(plan[kind].addr)
  PROVE  where' \in [Pages -> Ids] /\ status_after_move' \in [Kinds -> Seq(Answers)]
  <1>1. PICK addrs \in Seq(Pages) : addrs = Batch(plan[kind].addr)
    BY BatchTyped
  <1>2. PICK to \in Seq(Ids) : to = Batch(Target)
    BY BatchTyped
  <1>3. PICK before \in Seq(Answers) : before = Resized(status_after_move[kind], BatchSize)
    BY BatchTyped
  <1>4. Len(to) = Len(addrs) /\ Len(before) = Len(addrs)
    BY <1>1, <1>2, <1>3, BatchTyped
  <1>5. MoveBatch(addrs, to, before)
    BY <1>1, <1>2, <1>3, Zenon DEF MoveTurn
  <1>6. kind \in Kinds /\ where \in [Pages -> Ids] /\ status_after_move \in [Kinds -> Seq(Answers)]
    BY DEF MovesTyped
  <1>7. PICK r \in Seq(Answers) : status_after_move' = [status_after_move EXCEPT ![kind] = r]
    BY <1>4, <1>5, <1>6, MoveAnswers
  <1>8. where' \in [Pages -> Ids]
    BY <1>4, <1>5, <1>6, MoveAnswers
  <1> QED
    BY <1>6, <1>7, <1>8

\* The accounts after it.
LEMMA BatchCounts ==
  ASSUME NodesFitKey, MovesTyped, Accounts, MoveTurn, at < Len(plan[kind].addr)
  PROVE  Accounts'
  <1>1. PICK addrs \in Seq(Pages) : addrs = Batch(plan[kind].addr)
    BY BatchTyped
  <1>2. PICK from \in Seq(Ids) : from = Batch(From)
    BY BatchTyped
  <1>3. PICK to \in Seq(Ids) : to = Batch(Target)
    BY BatchTyped
  <1>4. PICK before \in Seq(Answers) : before = Resized(status_after_move[kind], BatchSize)
    BY BatchTyped
  <1>5. PICK kb \in Nat : kb = KbOf[type]
    BY MigrateAssumption DEF MovesTyped
  <1>6. Len(from) = Len(addrs) /\ Len(to) = Len(addrs) /\ Len(before) = Len(addrs)
    BY <1>1, <1>2, <1>3, <1>4, BatchTyped
  <1>7. /\ MoveBatch(addrs, to, before)
        /\ stats' = [stats EXCEPT ![kind] = SavedStates(stats[kind], kb, from, to, status_after_move'[kind])]
        /\ arrived' = [arrived EXCEPT ![kind] = arrived[kind] + kb *
             Cardinality({i \in DOMAIN addrs : from[i] # to[i] /\ where'[addrs[i]] = to[i]})]
        /\ charged' = charged + (stats'[kind].move_kb - stats[kind].move_kb)
    BY <1>1, <1>2, <1>3, <1>4, <1>5, Zenon DEF MoveTurn
  <1>8. kind \in Kinds /\ where \in [Pages -> Ids] /\ status_after_move \in [Kinds -> Seq(Answers)]
    BY DEF MovesTyped
  <1>9. where' \in [Pages -> Ids]
    BY <1>6, <1>7, <1>8, MoveAnswers
  <1>10. PICK r \in Seq(Answers) :
           /\ Len(r) = Len(addrs) /\ status_after_move' = [status_after_move EXCEPT ![kind] = r]
           /\ unanswered' \in {unanswered, unanswered \cup {kind}}
           /\ kind \notin unanswered' =>
                \A i \in 1 .. Len(addrs) : r[i] = to[i] <=> where'[addrs[i]] = to[i]
    BY <1>6, <1>7, <1>8, MoveAnswers
  <1>11. status_after_move' \in [Kinds -> Seq(Answers)] /\ status_after_move'[kind] = r
    BY <1>8, <1>10
  <1>12. PICK s : s = stats[kind]
    OBVIOUS
  <1>13. PICK e : e = SavedStates(s, kb, from, to, r)
    OBVIOUS
  <1>14. PICK n \in Nat : n = Len(r)
    OBVIOUS
  <1>15. Agree(e) /\ e.move_kb = s.move_kb + kb * Cardinality(MovedTo(n, from, to, r))
    <2>1. \A i \in 1 .. Len(r) : from[i] \in Ids /\ to[i] \in Ids /\ r[i] \in Answers
      BY <1>6, <1>10
    <2>2. Agree(s) /\ Len(r) \in Nat
      BY <1>8, <1>12, <1>14 DEF Accounts
    <2> QED
      BY <1>13, <1>14, <2>1, <2>2, SavedAgrees
  <1>16. stats' = [stats EXCEPT ![kind] = e]
    BY <1>7, <1>11, <1>12, <1>13
  <1>17. DOMAIN stats = Kinds /\ stats'[kind] = e /\ \A k \in Kinds \ {kind} : stats'[k] = stats[k]
    BY <1>8, <1>16 DEF Accounts
  <1>18. stats' = [k \in Kinds |-> stats'[k]]
    BY <1>16, <1>17
  <1>19. \A k \in Kinds : Agree(stats'[k])
    BY <1>15, <1>17 DEF Accounts
  <1>20. kind \notin unanswered' =>
           {i \in DOMAIN addrs : from[i] # to[i] /\ where'[addrs[i]] = to[i]} = MovedTo(n, from, to, r)
    BY <1>10, <1>14 DEF MovedTo
  <1>21. /\ arrived[kind] \in Int /\ DOMAIN arrived = Kinds /\ s.move_kb \in Int /\ e.move_kb \in Int
         /\ kind \notin unanswered => s.move_kb = arrived[kind]
    BY <1>8, <1>12, <1>15 DEF Accounts, Agree
  <1>22. PICK here : here = {i \in DOMAIN addrs : from[i] # to[i] /\ where'[addrs[i]] = to[i]}
    OBVIOUS
  <1>23. Cardinality(here) \in Nat
    <2>1. IsFiniteSet(1 .. n) /\ here \subseteq 1 .. n
      <3>1. 1 \in Int /\ n \in Int /\ DOMAIN addrs = 1 .. n
        BY <1>10, <1>14
      <3>2. IsFiniteSet(1 .. n)
        BY <3>1, FS_Interval
      <3> QED
        BY <1>22, <3>1, <3>2
    <2> QED
      BY <2>1, FS_Subset, FS_CardinalityType
  <1>24. arrived' \in [Kinds -> Int] /\ \A k \in Kinds : k \notin unanswered' => stats'[k].move_kb = arrived'[k]
    <2>1. arrived[kind] + kb * Cardinality(here) \in Int
      BY <1>21, <1>23
    <2>2. arrived' = [arrived EXCEPT ![kind] = arrived[kind] + kb * Cardinality(here)]
      BY <1>7, <1>22
    <2>3. arrived' \in [Kinds -> Int]
      BY <2>1, <2>2, <1>8 DEF Accounts
    <2>4. kind \notin unanswered' => stats'[kind].move_kb = arrived'[kind]
      <3> SUFFICES ASSUME kind \notin unanswered' PROVE stats'[kind].move_kb = arrived'[kind]
        OBVIOUS
      <3>1. kind \notin unanswered
        BY <1>10
      <3>2. e.move_kb = s.move_kb + kb * Cardinality(here)
        BY <1>15, <1>20, <1>22
      <3> QED
        BY <1>8, <1>17, <1>21, <2>2, <3>1, <3>2
    <2>5. ASSUME NEW k \in Kinds, k # kind, k \notin unanswered' PROVE stats'[k].move_kb = arrived'[k]
      <3>1. k \notin unanswered
        BY <1>10, <2>5
      <3>2. stats[k].move_kb = arrived[k]
        BY <3>1 DEF Accounts
      <3> QED
        BY <1>17, <1>21, <2>2, <2>5, <3>2
    <2> QED
      BY <2>3, <2>4, <2>5
  <1>25. charged' = stats'[COLD].move_kb + stats'[HOT].move_kb
    <2>1. \A k \in Kinds : stats[k].move_kb \in Int /\ stats'[k].move_kb \in Int
      BY <1>19 DEF Accounts, Agree
    <2>2. COLD \in Kinds /\ HOT \in Kinds /\ COLD # HOT /\ Kinds = {COLD, HOT}
      BY DEF Kinds, COLD, HOT
    <2>3. charged = stats[COLD].move_kb + stats[HOT].move_kb
      BY DEF Accounts
    <2>4. CASE kind = COLD
      <3>1. stats'[HOT] = stats[HOT]
        BY <1>17, <2>2, <2>4
      <3> QED
        BY <1>7, <2>1, <2>2, <2>3, <2>4, <3>1
    <2>5. CASE kind = HOT
      <3>1. stats'[COLD] = stats[COLD]
        BY <1>17, <2>2, <2>5
      <3> QED
        BY <1>7, <2>1, <2>2, <2>3, <2>5, <3>1
    <2> QED
      BY <1>8, <2>2, <2>4, <2>5
  <1> QED
    BY <1>18, <1>19, <1>24, <1>25 DEF Accounts

-----------------------------------------------------------------------------
(* All steps.                                                              *)

\* The next page size, or the end of the range.
LEMMA NextTypeTyped ==
  ASSUME NextType, type \in PageTypes
  PROVE  type' \in PageTypes /\ pc' \in {"type", "profile", "period"}
  BY DEF NextType, NextRange, PageTypes

\* Tables, plans, answers and places keep their types.
LEMMA NextMoves == NodesTyped /\ MovesTyped /\ [Next]_vars => MovesTyped'
  <1> SUFFICES ASSUME NodesTyped, MovesTyped, [Next]_vars PROVE MovesTyped'
    OBVIOUS
  <1> USE DEF planVars, callVars
  <1>1. CASE CollectNodes
    <2>1. nodes' \in Seq(Cells)
      BY <1>1, NodesListed DEF CollectNodes, MovesTyped
    <2> QED
      BY <1>1, <2>1 DEF CollectNodes, MovesTyped
  <1>2. CASE BeginPeriod
    <2>1. UNCHANGED nodes
      BY <1>2 DEF BeginPeriod, numaVars, listVars
    <2> DEFINE LocatedTable(t, lost) ==
                 [y \in PageTypes |-> [i \in DOMAIN t[y] |->
                    [page |-> t[y][i].page, refs |-> t[y][i].refs,
                     nid |-> IF t[y][i].page \in lost THEN -1 ELSE where[t[y][i].page]]]]
    <2>0. PICK t \in Tables : \E lost : table' = LocatedTable(t, lost)
      BY <1>2 DEF BeginPeriod
    <2>2. PICK lost : table' = LocatedTable(t, lost)
      BY <2>0
    <2>3. ASSUME NEW y \in PageTypes PROVE table'[y] \in Seq(EntryType)
      <3>1. t[y] \in Seq([page : Pages, refs : Nat])
        BY MigrateAssumption
      <3>2. PICK n \in Nat : n = Len(t[y]) /\ DOMAIN t[y] = 1 .. n
        BY <3>1
      <3>3. \A i \in 1 .. n : t[y][i] \in [page : Pages, refs : Nat]
        <4>1. PICK s \in Seq([page : Pages, refs : Nat]) : s = t[y]
          BY <3>1
        <4>2. \A i \in 1 .. Len(s) : s[i] \in [page : Pages, refs : Nat]
          BY ElementOfSeq
        <4> QED
          BY <3>2, <4>1, <4>2
      <3>4. \A i \in 1 .. n : where[t[y][i].page] \in Ids
        BY <3>3 DEF MovesTyped
      <3>5. table'[y] = [i \in 1 .. n |->
               [page |-> t[y][i].page, refs |-> t[y][i].refs,
                nid |-> IF t[y][i].page \in lost THEN -1 ELSE where[t[y][i].page]]]
        BY <2>2, <3>2
      <3>6. \A i \in 1 .. n : table'[y][i] \in EntryType
        <4> SUFFICES ASSUME NEW i \in 1 .. n PROVE table'[y][i] \in EntryType
          OBVIOUS
        <4>1. table'[y][i] = [page |-> t[y][i].page, refs |-> t[y][i].refs,
                 nid |-> IF t[y][i].page \in lost THEN -1 ELSE where[t[y][i].page]]
          BY <3>5
        <4>2. PICK p \in Pages, c \in Nat, w \in Ids :
                p = t[y][i].page /\ c = t[y][i].refs /\ w = where[t[y][i].page]
          BY <3>3, <3>4
        <4>3. table'[y][i] = [page |-> p, refs |-> c, nid |-> IF p \in lost THEN -1 ELSE w]
          BY <4>1, <4>2
        <4> QED
          BY <4>3 DEF EntryType
      <3>7. table'[y] = [i \in 1 .. n |-> table'[y][i]]
        BY <3>5
      <3> QED
        BY <3>6, <3>7, AsSequence
    <2>4. table' \in [PageTypes -> Seq(EntryType)]
      <3>1. table' = [y \in PageTypes |-> table'[y]]
        BY <2>2
      <3> QED
        BY <2>3, <3>1
    <2>5. status_after_move' \in [Kinds -> Seq(Answers)]
      BY <1>2 DEF BeginPeriod
    <2>6. pc' \in {"profile", "migrate"} /\ UNCHANGED <<where, type, plan, pass, at, kind>>
      BY <1>2 DEF BeginPeriod
    <2> QED
      BY <2>1, <2>4, <2>5, <2>6 DEF MovesTyped
  <1>3. CASE ProgressiveProfile
    BY <1>3 DEF ProgressiveProfile, numaVars, listVars, MovesTyped
  <1>4. CASE Migrate
    BY <1>4 DEF Migrate, numaVars, listVars, MovesTyped, PageTypes
  <1>5. CASE MigrateNothing
    BY <1>5 DEF MigrateNothing, NextRange, numaVars, listVars, MovesTyped
  <1>6. CASE SkipType
    <2>1. type' \in PageTypes /\ pc' \in {"type", "profile", "period"}
      BY <1>6, NextTypeTyped DEF SkipType, MovesTyped
    <2> QED
      BY <1>6, <2>1 DEF SkipType, numaVars, listVars, MovesTyped
  <1>7. CASE PlanType
    <2>1. plan' \in [Kinds -> Plans]
      BY <1>7, PlanOfTyped DEF PlanType, MovesTyped
    <2>2. type' \in PageTypes /\ pc' \in {"type", "profile", "period", "batch"}
      BY <1>7, NextTypeTyped DEF PlanType, MovesTyped
    <2>3. pass' = 1 /\ at' = 0 /\ kind' \in Kinds
      BY <1>7 DEF PlanType, Kinds
    <2>4. UNCHANGED <<nodes, where, table, status_after_move>>
      BY <1>7 DEF PlanType, numaVars, listVars
    <2> QED
      BY <2>1, <2>2, <2>3, <2>4 DEF MovesTyped
  <1>8. CASE MoveTurn
    <2>1. where' \in [Pages -> Ids] /\ status_after_move' \in [Kinds -> Seq(Answers)]
      <3>1. CASE at < Len(plan[kind].addr)
        BY <1>8, <3>1, BatchMoves
      <3>2. CASE ~(at < Len(plan[kind].addr))
        BY <1>8, <3>2 DEF MoveTurn, MovesTyped
      <3> QED
        BY <3>1, <3>2
    <2>2. kind' \in Kinds /\ at' \in Nat
      <3>1. BatchOf[type] \in Nat /\ at \in Nat
        BY MigrateAssumption DEF MovesTyped
      <3> QED
        BY <1>8, <3>1 DEF MoveTurn, Kinds
    <2>3. UNCHANGED <<nodes, pc, type, pass, table, plan>>
      BY <1>8 DEF MoveTurn, numaVars, listVars
    <2> QED
      BY <2>1, <2>2, <2>3 DEF MovesTyped
  <1>9. CASE BatchesDone
    <2>1. type' \in PageTypes /\ pc' \in {"type", "profile", "period", "batch"}
      BY <1>9, NextTypeTyped DEF BatchesDone, MovesTyped
    <2>2. pass' \in {1, 2} /\ at' \in Nat
      BY <1>9 DEF BatchesDone, MovesTyped
    <2>3. UNCHANGED <<nodes, where, table, plan, kind, status_after_move>>
      BY <1>9 DEF BatchesDone, numaVars, listVars
    <2> QED
      BY <2>1, <2>2, <2>3 DEF MovesTyped
  <1>10. CASE Drift
    <2>1. where' \in [Pages -> Ids]
      BY <1>10 DEF Drift, MovesTyped
    <2> QED
      BY <1>10, <2>1 DEF Drift, numaVars, listVars, MovesTyped
  <1>11. CASE UNCHANGED vars
    BY <1>11 DEF vars, numaVars, listVars, MovesTyped
  <1> QED
    BY <1>1, <1>2, <1>3, <1>4, <1>5, <1>6, <1>7, <1>8, <1>9, <1>10, <1>11 DEF Next

\* The accounts agree after every step.
LEMMA NextAccounts == NodesFitKey /\ MovesTyped /\ Accounts /\ [Next]_vars => Accounts'
  <1> SUFFICES ASSUME NodesFitKey, MovesTyped, Accounts, [Next]_vars PROVE Accounts'
    OBVIOUS
  <1>1. CASE MoveTurn
    <2>1. CASE at < Len(plan[kind].addr)
      BY <1>1, <2>1, BatchCounts
    <2>2. CASE ~(at < Len(plan[kind].addr))
      <3>1. UNCHANGED <<stats, arrived, unanswered>>
        BY <1>1, <2>2 DEF MoveTurn
      <3>2. charged' = charged + (stats'[kind].move_kb - stats[kind].move_kb)
        BY <1>1 DEF MoveTurn
      <3>3. \A k \in Kinds : stats[k].move_kb \in Int
        BY DEF Accounts, Agree
      <3>4. kind \in Kinds /\ COLD \in Kinds /\ HOT \in Kinds
        BY DEF MovesTyped, Kinds
      <3>5. charged' = charged
        <4>1. charged \in Int
          BY <3>3, <3>4 DEF Accounts
        <4> QED
          BY <3>1, <3>2, <3>3, <3>4, <4>1
      <3> QED
        BY <3>1, <3>5 DEF Accounts, Agree
    <2> QED
      BY <2>1, <2>2
  <1>2. CASE Migrate
    <2>1. /\ stats' = [k \in Kinds |-> NoStats] /\ arrived' = [k \in Kinds |-> 0] /\ charged' = 0
      BY <1>2 DEF Migrate
    <2>2. COLD \in Kinds /\ HOT \in Kinds /\ NoStats.move_kb = 0
      BY DEF Kinds, NoStats
    <2> QED
      BY <2>1, <2>2, NoneAgree DEF Accounts
  <1>3. CASE UNCHANGED <<stats, arrived, unanswered, charged>>
    BY <1>3 DEF Accounts, Agree
  <1>4. MoveTurn \/ Migrate \/ UNCHANGED <<stats, arrived, unanswered, charged>>
    BY DEF Next, CollectNodes, BeginPeriod, ProgressiveProfile, MigrateNothing, SkipType,
           PlanType, BatchesDone, Drift, vars, callVars
  <1> QED
    BY <1>1, <1>2, <1>3, <1>4

\* promote_and_demote(), save_migrate_parameter() and do_interleave_move_pages(): for
\* any tables, parameters, batch sizes and answers of move_pages(2), every address has a
\* node it comes from and one it is moved to, and every answer is a node or an error.
THEOREM TypeCorrect == Spec => []TypeOK
  <1>1. Spec => [](NodesTyped /\ Peers /\ MovesTyped)
    BY InitPeers, NextPeers, InitMoves, NextMoves, PTL DEF Spec
  <1>2. NodesTyped /\ MovesTyped => TypeOK
    <2> SUFFICES ASSUME NodesTyped, MovesTyped PROVE TypeOK
      OBVIOUS
    <2>1. NumaTypeOK
      <3>1. Range(nodes) \subseteq Cells
        BY DEF MovesTyped, Range
      <3> QED
        BY <3>1 DEF NodesTyped, NumaTypeOK
    <2>2. ASSUME NEW k \in Kinds
          PROVE  /\ Len(plan[k].addr) = Len(plan[k].from) /\ Len(plan[k].addr) = Len(plan[k].to)
                 /\ Range(status_after_move[k]) \subseteq Ids \cup (DefaultFailed .. -1)
      <3>1. plan[k] \in Plans /\ status_after_move[k] \in Seq(Answers)
        BY DEF MovesTyped
      <3>2. Range(status_after_move[k]) \subseteq Answers
        BY <3>1 DEF Range
      <3> QED
        BY <3>1, <3>2 DEF Plans, Answers
    <2> QED
      BY <2>1, <2>2 DEF TypeOK, MovesTyped
  <1> QED
    BY <1>1, <1>2, PTL

\* save_migrate_states() and MoveStats::get_moved_bytes() (EPTMigrate.cc, MovePages.cc):
\* with node ids that fit the key, whatever pages move, answers fail or others move pages
\* meanwhile, the kilobytes counted as moved are those of the pages that arrived, the boxed
\* counts say the same, and the throttler is charged for both kinds.
THEOREM CountsExact == NodesFitKey => (Spec => []CountsWhatArrived)
  <1> SUFFICES ASSUME NodesFitKey PROVE Spec => []CountsWhatArrived
    OBVIOUS
  <1>1. Init => NodesTyped /\ Peers /\ MovesTyped /\ Accounts
    BY InitPeers, InitMoves
  <1>2. NodesTyped /\ Peers /\ MovesTyped /\ Accounts /\ [Next]_vars
          => NodesTyped' /\ Peers' /\ MovesTyped' /\ Accounts'
    BY NextPeers, NextMoves, NextAccounts
  <1>3. Accounts => CountsWhatArrived
    BY DEF Accounts, Agree, CountsWhatArrived
  <1> QED
    BY <1>1, <1>2, <1>3, PTL DEF Spec

=============================================================================
