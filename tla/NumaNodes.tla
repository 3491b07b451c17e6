----------------------------- MODULE NumaNodes -----------------------------
(***************************************************************************)
(* NumaNodeCollection (Numa.cc): the nodes of the machine, whether they    *)
(* are DRAM or PMEM, and the peer to which pages of each are migrated.     *)
(* They are collected when sys-refs starts and again by every reload, from *)
(* the lists of options (v1), else from the numa_nodes entries (v2), else  *)
(* from sysfs.                                                             *)
(*                                                                         *)
(* A NumaNode is the memory cell it lives in.  node_map owns the nodes: an *)
(* id that is created again frees the node it had, while nodes, dram_nodes *)
(* and pmem_nodes only grow, and so keep cells that are free or that now   *)
(* hold another node.  A cell keeps its last content until it is reused.   *)
(***************************************************************************)
EXTENDS Integers, Sequences, FiniteSets, Functions

CONSTANTS
  NrNodes,   \* nr_possible_node_
  Cells,     \* memory for NumaNode objects
  NULL, NoLists,
  Files,     \* what the configuration file may hold: [lists, entries]
  Sysfs,     \* one [id, type, peer] per possible node
  MaxReloads \* bound: reloads

Ids   == 0 .. NrNodes - 1
NodeTypes == {"DRAM", "PMEM", "END"}

\* An entry of numa_nodes or sysfs, with -1 for what it does not say.
NumaHWConfigEntry == [id : Int, type : NodeTypes, peer : Int]

\* More cells than nodes: a node is allocated before the one it replaces is freed.
ASSUME NodesAssumption ==
  /\ NrNodes \in Nat \ {0} /\ MaxReloads \in Nat /\ NULL \notin Cells
  /\ IsFiniteSet(Cells) /\ Cardinality(Cells) > NrNodes
  /\ \A f \in Files : /\ f.entries \in Seq(NumaHWConfigEntry)
                      /\ f.lists = NoLists \/ f.lists.types \in [Ids -> NodeTypes]
  /\ Sysfs \in Seq(NumaHWConfigEntry) /\ Len(Sysfs) = NrNodes

VARIABLES
  heap, node_map, nodes, dram_nodes, pmem_nodes,  \* the collection
  hw,        \* numa_hw_config (lists) and numa_hw_config_v2 (entries)
  file,      \* the file last parsed
  setup,     \* stage of collect() and the entry or link it is at
  first, reloads  \* history: where the nodes were first taken from; reloads

listVars == <<nodes, dram_nodes, pmem_nodes>>
confVars == <<hw, file, first, reloads>>
numaVars == <<heap, node_map, listVars, confVars, setup>>

Live == Range(node_map) \ {NULL}

is_pmem(c) == heap[c].type = "PMEM"

get_peer_node(c) ==
  CASE heap[c].type = "DRAM" -> heap[c].demote_target
    [] heap[c].type = "PMEM" -> heap[c].promote_target
    [] OTHER -> NULL

is_valid_nid(nid) == IF nid \in Ids THEN node_map[nid] # NULL ELSE FALSE

-----------------------------------------------------------------------------
(* The configuration.                                                      *)

\* Fault: the numa_nodes entries of the file replace those parsed before.
FaultReparse(f) ==
  [lists |-> IF f.lists = NoLists THEN hw.lists ELSE f.lists, entries |-> f.entries]

\* reparse(): an absent option keeps its value, numa_nodes entries are appended.
reparse(f) ==
  [lists |-> IF f.lists = NoLists THEN hw.lists ELSE f.lists, entries |-> hw.entries \o f.entries]

SourceOf(conf) ==
  IF conf.lists # NoLists THEN "v1" ELSE IF conf.entries # <<>> THEN "v2" ELSE "sysfs"
Source == SourceOf(hw)

\* What create_node() is called with: an unlisted id has no type.
ToCreate ==
  CASE Source = "v1" -> [i \in 1 .. NrNodes |-> [id |-> i - 1, type |-> hw.lists.types[i - 1]]]
    [] Source = "v2" -> hw.entries
    [] OTHER -> Sysfs

\* What set_peer_node() is called with.
ToLink ==
  CASE Source = "v1" -> hw.lists.links
    [] Source = "v2" -> hw.entries
    [] OTHER -> Sysfs

-----------------------------------------------------------------------------
Unused == [id |-> 0, type |-> "END", promote_target |-> NULL, demote_target |-> NULL]

NumaInit ==
  /\ heap = [c \in Cells |-> Unused]
  /\ node_map = [i \in Ids |-> NULL]
  /\ nodes = <<>> /\ dram_nodes = <<>> /\ pmem_nodes = <<>>
  /\ file \in Files /\ hw = [lists |-> file.lists, entries |-> file.entries]
  /\ setup = [stage |-> "create", i |-> 1]
  /\ first = SourceOf(hw) /\ reloads = 0

\* reload_conf(): apply_option() collects even if the file could not be read.
Reload ==
  /\ setup.stage = "ready" /\ reloads < MaxReloads
  /\ file' \in Files
  /\ hw' = reparse(file')
  /\ reloads' = reloads + 1
  /\ setup' = [stage |-> "create", i |-> 1]
  /\ UNCHANGED <<heap, node_map, listVars, first>>

Skip == setup' = [setup EXCEPT !.i = @ + 1]
Go(stage) == setup' = [stage |-> stage, i |-> 1]

\* create_node() with a type and a valid id: the node it replaces is freed.
NewNode(e) ==
  \E c \in Cells \ Live :
    /\ heap' = [heap EXCEPT ![c] = [Unused EXCEPT !.id = e.id, !.type = e.type]]
    /\ node_map' = [node_map EXCEPT ![e.id] = c]
    /\ nodes' = Append(nodes, c)
    /\ dram_nodes' = IF e.type = "DRAM" THEN Append(dram_nodes, c) ELSE dram_nodes
    /\ pmem_nodes' = IF e.type = "PMEM" THEN Append(pmem_nodes, c) ELSE pmem_nodes
    /\ Skip

\* v1 and v2 go on after an entry without a type, v2 also after one without an
\* id; sysfs gives up, as v2 does for an id too large.
CreateNode ==
  /\ setup.stage = "create" /\ setup.i <= Len(ToCreate)
  /\ LET e == ToCreate[setup.i] IN
     \/ e.type # "END" /\ e.id \in Ids /\ NewNode(e)
     \/ /\ e.type = "END" \/ e.id \notin Ids
        /\ IF Source = "v1" \/ (Source = "v2" /\ (e.type = "END" \/ e.id < 0))
             THEN Skip ELSE Go("ready")
        /\ UNCHANGED <<heap, node_map, listVars>>
  /\ UNCHANGED confVars

\* set_default_target_node() writes through the lists, whatever they point to.
SetDefaults ==
  /\ setup.stage = "create" /\ setup.i > Len(ToCreate)
  /\ heap' = [c \in Cells |->
       [heap[c] EXCEPT !.promote_target = IF c \in Range(dram_nodes) THEN c ELSE @,
                       !.demote_target  = IF c \in Range(pmem_nodes) THEN c ELSE @]]
  /\ Go("link")
  /\ UNCHANGED <<node_map, listVars, confVars>>

\* Fault: DRAM nodes promote to their peer.
FaultPeer(c, peer) == [heap EXCEPT ![c].promote_target = peer]

set_peer_node(c, peer) ==
  [heap EXCEPT ![c] = CASE @.type = "DRAM" -> [@ EXCEPT !.demote_target = peer]
                        [] @.type = "PMEM" -> [@ EXCEPT !.promote_target = peer]
                        [] OTHER -> @]

\* Entries without an id or a peer are left out and set_target_node() ignores
\* ids out of range; for v1 the loop exits.  Nobody looks whether the node exists.
LinkNode ==
  /\ setup.stage = "link" /\ setup.i <= Len(ToLink)
  /\ LET l == ToLink[setup.i] IN
     \/ /\ l.id \in Ids /\ l.peer \in Ids
        /\ IF node_map[l.id] = NULL THEN Go("crashed") /\ UNCHANGED heap
           ELSE heap' = set_peer_node(node_map[l.id], node_map[l.peer]) /\ Skip
     \/ /\ l.id \notin Ids \/ l.peer \notin Ids
        /\ IF Source = "v1" THEN Go("crashed") ELSE Skip
        /\ UNCHANGED heap
  /\ UNCHANGED <<node_map, listVars, confVars>>

\* init_cpu_map() and dump() read every node listed; one that was freed may
\* hold any id, and numa_node_to_cpus() then ends the program.
InitCpuMap ==
  /\ setup.stage = "link" /\ setup.i > Len(ToLink)
  /\ \/ Go("ready")
     \/ ~(Range(nodes) \subseteq Live) /\ Go("crashed")
  /\ UNCHANGED <<heap, node_map, listVars, confVars>>

NumaNext == Reload \/ CreateNode \/ SetDefaults \/ LinkNode \/ InitCpuMap

-----------------------------------------------------------------------------
(* Properties.                                                             *)

NodeObject == [id : Ids, type : NodeTypes, promote_target : Cells \cup {NULL},
               demote_target : Cells \cup {NULL}]

NumaTypeOK ==
  /\ heap \in [Cells -> NodeObject]
  /\ node_map \in [Ids -> Cells \cup {NULL}]
  /\ Range(nodes) \subseteq Cells /\ setup.stage \in {"create", "link", "ready", "crashed"}

\* node_map_ frees nodes while others keep pointers to them (Numa.cc:263).
\* Once collected, the peer of every node that migration looks up is itself
\* owned by node_map_, and every object is found under its own id.  A list
\* of options that loses a node, or another source that does not know it,
\* leaves that node behind with its old peer: this is stated for the sources
\* that cannot, the appended numa_nodes entries and sysfs.
PeersAlive ==
  setup.stage = "ready" /\ Source = first /\ Source # "v1" =>
    \A nid \in Ids : is_valid_nid(nid) =>
      /\ heap[node_map[nid]].id = nid
      /\ get_peer_node(node_map[nid]) \in Live \cup {NULL}

LastOf(nid, P(_)) ==
  LET at == {i \in DOMAIN file.entries : file.entries[i].id = nid /\ P(file.entries[i])}
  IN IF at = {} THEN 0 ELSE CHOOSE i \in at : \A j \in at : j <= i

\* reparse() appends (OptionParser.cc:169), so old entries are applied again
\* before those of the file: a node still ends with the type and the peer
\* that the file last read gives it.
NodesFollowFile ==
  setup.stage = "ready" /\ Source = "v2" /\ (\A i \in DOMAIN hw.entries : hw.entries[i].id < NrNodes) =>
    \A nid \in Ids :
      LET t == LastOf(nid, LAMBDA e : e.type # "END")
          p == LastOf(nid, LAMBDA e : e.peer \in Ids) IN
      /\ t # 0 => heap[node_map[nid]].type = file.entries[t].type
      /\ p # 0 => get_peer_node(node_map[nid]) = node_map[file.entries[p].peer]

\* "map from node id to NumaNode*, and memory manager" (Numa.h:124): the lists
\* of nodes name nodes the map manages, each of them once.
ListsManaged ==
  setup.stage = "ready" =>
    /\ Range(nodes) \subseteq Live
    /\ Cardinality(Range(dram_nodes)) = Len(dram_nodes)
    /\ \A c \in Range(dram_nodes) : heap[c].type = "DRAM"

=============================================================================
