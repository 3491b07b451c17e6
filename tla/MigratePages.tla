---------------------------- MODULE MigratePages ----------------------------
(***************************************************************************)
(* One range migrates its pages (EPTMigrate::migrate, promote_and_demote,  *)
(* do_interleave_move_pages; MovePages): pages are selected by the node    *)
(* recorded for them and their references, and batches of cold and hot     *)
(* pages alternate through move_pages(2), whose answers are accounted.     *)
(* The nodes are those of NumaNodes, which reloads collect again between   *)
(* periods; during a period pages may be moved by others.                  *)
(*                                                                         *)
(* move_pages(2) is external: it answers 0 with a status per page, a       *)
(* positive number when some pages were moved and no status was stored, or *)
(* fails without doing anything.                                           *)
(***************************************************************************)
EXTENDS NumaNodes

CONSTANTS
  Tables,      \* page tables of a range: type -> sequence of [page, refs]
  Homes,       \* where the pages are at first
  Params,      \* what calc_migrate_parameter() may set: type -> parameters
  BatchOf,     \* pagetype_batchsize
  KbOf,        \* KB of a page of each type
  NrWalks,     \* nr_walks
  MaxPeriods,  \* bound: periods
  MaxDrifts    \* bound: pages moved by others

COLD == 1
HOT  == 2
Kinds == {COLD, HOT}
PageTypes == {"PTE", "PMD"}
DefaultFailed == -128

Pages == DOMAIN Homes

ASSUME MigrateAssumption ==
  /\ Homes \in [Pages -> Ids]
  /\ Tables \subseteq [PageTypes -> Seq([page : Pages, refs : Nat])]
  /\ BatchOf \in [PageTypes -> Nat \ {0}] /\ KbOf \in [PageTypes -> Nat \ {0}]
  /\ {NrWalks, MaxPeriods, MaxDrifts} \subseteq Nat

VARIABLES
  where,        \* the node that holds each page
  pc,
  table,        \* type -> entries [page, refs, nid] of the range
  param,        \* type -> migrate_parameter
  profile,      \* option.progressive_profile and the refs count it is at
  type, plan,   \* type being migrated; addresses, from and target nodes by kind
  pass, at, kind,        \* of do_interleave_move_pages()
  status_after_move,     \* kind -> the migrator's answers
  stats, charged,        \* kind -> page_migrate_stats; KB this migration charged the throttler
  arrived, unanswered,   \* history: KB moved as planned; kinds of which a call gave no answers
  periods, drifts        \* history

planVars == <<table, param, profile, type, plan>>
callVars == <<status_after_move, stats, charged, arrived, unanswered>>
vars == <<numaVars, where, pc, planVars, pass, at, kind, callVars, periods, drifts>>

-----------------------------------------------------------------------------
(* MoveStats.                                                              *)

NoStats == [to_move_kb |-> 0, skip_kb |-> 0, move_kb |-> 0, move_page_status |-> <<>>]

SignedChar(n) == LET b == n % 256 IN IF b > 127 THEN b - 256 ELSE b

\* Fault: the fields of the key overlap.
FaultBox(status, target_node, result) == status + target_node * 256 + result * 512

box_movestate(status, target_node, result) == status + target_node * 256 + result * 65536

unbox_movestate(key) ==
  [from |-> SignedChar(key), to |-> SignedChar(key \div 256), result |-> SignedChar(key \div 65536)]

is_page_moved(from, to, result) == from >= 0 /\ from # to /\ to = result

add_count(map, key, n) ==
  [k \in DOMAIN map \cup {key} |-> (IF k \in DOMAIN map THEN map[k] ELSE 0) + (IF k = key THEN n ELSE 0)]

\* save_migrate_states() for the answers 1 .. i of a batch.
SavedStates(s, kb, from, target, result) ==
  LET saved[i \in 0 .. Len(result)] ==
        IF i = 0 THEN s
        ELSE LET moved == result[i] = target[i] /\ from[i] # target[i]
                 before == saved[i - 1] IN
             [to_move_kb |-> before.to_move_kb + kb,
              move_kb |-> before.move_kb + (IF moved THEN kb ELSE 0),
              skip_kb |-> before.skip_kb + (IF moved THEN 0 ELSE kb),
              move_page_status |->
                add_count(before.move_page_status, box_movestate(from[i], target[i], result[i]), kb)]
  IN saved[Len(result)]

SumOver(f) == FoldFunction(+, 0, f)

get_moved_bytes(s) ==
  SumOver([k \in {key \in DOMAIN s.move_page_status :
                    LET u == unbox_movestate(key) IN is_page_moved(u.from, u.to, u.result)} |->
             s.move_page_status[k]])

-----------------------------------------------------------------------------
NoPlan == [addr |-> <<>>, from |-> <<>>, to |-> <<>>]

\* No cell is selected: init_migration_parameter().
NoParam == [hot_threshold |-> NrWalks + 1, hot_threshold_max |-> NrWalks + 1, promote_remain |-> 0,
            cold_threshold |-> -1, cold_threshold_min |-> -1, demote_remain |-> 0, enabled |-> FALSE]

Init ==
  /\ NumaInit
  /\ where = Homes
  /\ pc = "period"
  /\ table = [t \in PageTypes |-> <<>>] /\ param = [t \in PageTypes |-> NoParam]
  /\ profile = [on |-> FALSE, refs |-> 0]
  /\ type = "PTE" /\ plan = [k \in Kinds |-> NoPlan]
  /\ pass = 1 /\ at = 0 /\ kind = COLD
  /\ status_after_move = [k \in Kinds |-> <<>>] /\ stats = [k \in Kinds |-> NoStats]
  /\ charged = 0 /\ arrived = [k \in Kinds |-> 0] /\ unanswered = {}
  /\ periods = 0 /\ drifts = 0

\* collect() makes new ranges; after the scans pages are located, but a query may fail.
BeginPeriod ==
  /\ pc = "period" /\ setup.stage = "ready" /\ periods < MaxPeriods
  /\ periods' = periods + 1
  /\ status_after_move' = [k \in Kinds |-> <<>>]
  /\ \E t \in Tables : \E lost \in {{}, {t.PTE[1].page}} :
       table' = [y \in PageTypes |-> [i \in DOMAIN t[y] |->
                   [page |-> t[y][i].page, refs |-> t[y][i].refs,
                    nid |-> IF t[y][i].page \in lost THEN -1 ELSE where[t[y][i].page]]]]
  /\ \/ \E q \in Params : param' = q /\ profile' = [on |-> FALSE, refs |-> 0]
     \/ profile' = [on |-> TRUE, refs |-> 0] /\ UNCHANGED param
  /\ pc' = IF profile'.on THEN "profile" ELSE "migrate"
  /\ UNCHANGED <<numaVars, where, type, plan, pass, at, kind, stats, charged, arrived, unanswered, drifts>>

InDram(e) == IF is_valid_nid(e.nid) THEN ~is_pmem(node_map[e.nid]) ELSE FALSE

\* calc_progressive_profile_parameter(REF_LOC_DRAM, i) for each count in turn.
ProfileParam(y) ==
  LET n == Cardinality({i \in DOMAIN table[y] : InDram(table[y][i]) /\ table[y][i].refs = profile.refs})
  IN [NoParam EXCEPT !.demote_remain = n, !.cold_threshold = profile.refs,
                     !.cold_threshold_min = profile.refs, !.enabled = TRUE]

ProgressiveProfile ==
  /\ pc = "profile"
  /\ \/ profile.refs >= NrWalks /\ pc' = "period" /\ UNCHANGED <<param, profile>>
     \/ /\ profile.refs < NrWalks
        /\ param' = [y \in PageTypes |-> ProfileParam(y)]
        /\ profile' = [profile EXCEPT !.refs = @ + 1]
        /\ pc' = "migrate"
  /\ UNCHANGED <<numaVars, where, table, type, plan, pass, at, kind, callVars, periods, drifts>>

NextRange == pc' = IF profile.on THEN "profile" ELSE "period"

\* migrate(): the statistics of both kinds start again, the answers stay.
Migrate ==
  /\ pc = "migrate"
  /\ stats' = [k \in Kinds |-> NoStats] /\ arrived' = [k \in Kinds |-> 0]
  /\ unanswered' = {} /\ charged' = 0
  /\ type' = "PTE" /\ pc' = "type"
  /\ UNCHANGED <<numaVars, where, table, param, profile, plan, pass, at, kind, status_after_move,
                 periods, drifts>>

\* migrate() of a range whose policy is PLACEMENT_DRAM; a range has one or
\* the other policy, left open here.
MigrateNothing ==
  /\ pc = "migrate" /\ NextRange
  /\ UNCHANGED <<numaVars, where, planVars, pass, at, kind, callVars, periods, drifts>>

NextType ==
  IF type = "PTE" THEN type' = "PMD" /\ pc' = "type"
  ELSE type' = type /\ NextRange

SkipType ==
  /\ pc = "type" /\ ~param[type].enabled
  /\ NextType
  /\ UNCHANGED <<numaVars, where, table, param, profile, plan, pass, at, kind, callVars, periods, drifts>>

\* Fault: a page of a node without a peer is saved without a target.
FaultSaved(p, e) ==
  LET peer == get_peer_node(node_map[e.nid]) IN
  IF peer = NULL THEN [p EXCEPT !.addr = Append(@, e.page), !.from = Append(@, e.nid)]
  ELSE [addr |-> Append(p.addr, e.page), from |-> Append(p.from, e.nid), to |-> Append(p.to, heap[peer].id)]

\* save_migrate_parameter(): a node without a peer is left alone.
Saved(p, e) ==
  LET peer == get_peer_node(node_map[e.nid]) IN
  IF peer = NULL THEN p
  ELSE [addr |-> Append(p.addr, e.page), from |-> Append(p.from, e.nid), to |-> Append(p.to, heap[peer].id)]

\* One entry of promote_and_demote(); what remains at the threshold is used up
\* by every page there, also when nothing remains.
PlanEntry(s, e) ==
  LET q == s.param IN
  IF ~is_valid_nid(e.nid) THEN s
  ELSE IF is_pmem(node_map[e.nid])
    THEN [param |-> [q EXCEPT !.promote_remain = IF e.refs = q.hot_threshold THEN @ - 1 ELSE @],
          plan  |-> IF \/ e.refs = q.hot_threshold /\ q.promote_remain > 0
                       \/ e.refs > q.hot_threshold /\ e.refs <= q.hot_threshold_max
                    THEN [s.plan EXCEPT ![HOT] = Saved(@, e)] ELSE s.plan]
    ELSE [param |-> [q EXCEPT !.demote_remain = IF e.refs = q.cold_threshold THEN @ - 1 ELSE @],
          plan  |-> IF \/ e.refs = q.cold_threshold /\ q.demote_remain > 0
                       \/ e.refs < q.cold_threshold /\ e.refs >= q.cold_threshold_min
                    THEN [s.plan EXCEPT ![COLD] = Saved(@, e)] ELSE s.plan]

PlanOf(y) ==
  LET planned[i \in 0 .. Len(table[y])] ==
        IF i = 0 THEN [param |-> param[y], plan |-> [k \in Kinds |-> NoPlan]]
        ELSE PlanEntry(planned[i - 1], table[y][i])
  IN planned[Len(table[y])]

PlanType ==
  /\ pc = "type" /\ param[type].enabled
  /\ LET p == PlanOf(type) IN
     /\ param' = [param EXCEPT ![type] = p.param]
     /\ plan' = p.plan
     /\ IF \A k \in Kinds : p.plan[k].addr = <<>>
          THEN NextType
          ELSE pc' = "batch" /\ UNCHANGED type
  /\ pass' = 1 /\ at' = 0 /\ kind' = COLD
  /\ UNCHANGED <<numaVars, where, table, profile, callVars, periods, drifts>>

-----------------------------------------------------------------------------
(* do_interleave_move_pages(): cold and hot batches in turn.               *)

Least(a, b) == IF a < b THEN a ELSE b
Most(a, b)  == IF a > b THEN a ELSE b

\* status_after_move.resize(size, default_failed): old answers stay.
Resized(s, size) == [i \in 1 .. size |-> IF i \in DOMAIN s THEN s[i] ELSE DefaultFailed]

BatchSize == Least(BatchOf[type], Len(plan[kind].addr) - at)
Batch(s)  == SubSeq(s, at + 1, at + BatchSize)

\* The second pass of a progressive profile swaps from and target.
From   == IF pass = 1 THEN plan[kind].from ELSE plan[kind].to
Target == IF pass = 1 THEN plan[kind].to ELSE plan[kind].from

\* The query after ret > 0, which may fail itself.
Relocated(addrs, before) == {before, [i \in DOMAIN addrs |-> where'[addrs[i]]]}

\* move_pages(addrs, target, size): the pages that moved and the answers left.
MoveBatch(addrs, targets, before) ==
  \E moving \in SUBSET Range(addrs) :
    /\ where' = [p \in Pages |-> IF p \in moving
                   THEN targets[CHOOSE i \in DOMAIN addrs : addrs[i] = p] ELSE where[p]]
    /\ LET answers == [i \in DOMAIN addrs |-> IF where'[addrs[i]] = targets[i] THEN targets[i] ELSE -16]
       IN \/ status_after_move' = [status_after_move EXCEPT ![kind] = answers]
             /\ UNCHANGED unanswered
          \/ \E s \in Relocated(addrs, before) :
               /\ status_after_move' = [status_after_move EXCEPT ![kind] = s]
               /\ unanswered' = IF s = before THEN unanswered \cup {kind} ELSE unanswered
          \/ /\ moving = {}
             /\ status_after_move' = [status_after_move EXCEPT ![kind] = before]
             /\ unanswered' = unanswered \cup {kind}

\* One turn of the inner loop: a batch if any is left, then the throttler.
MoveTurn ==
  /\ pc = "batch" /\ at < Most(Len(plan[COLD].addr), Len(plan[HOT].addr))
  /\ IF at < Len(plan[kind].addr)
       THEN LET addrs == Batch(plan[kind].addr)
                from  == Batch(From)
                to    == Batch(Target) IN
            /\ MoveBatch(addrs, to, Resized(status_after_move[kind], BatchSize))
            /\ stats' = [stats EXCEPT ![kind] =
                           SavedStates(@, KbOf[type], from, to, status_after_move'[kind])]
            /\ arrived' = [arrived EXCEPT ![kind] = @ + KbOf[type] *
                 Cardinality({i \in DOMAIN addrs : from[i] # to[i] /\ where'[addrs[i]] = to[i]})]
       ELSE UNCHANGED <<where, status_after_move, stats, arrived, unanswered>>
  /\ charged' = charged + (stats'[kind].move_kb - stats[kind].move_kb)
  /\ IF kind = COLD THEN kind' = HOT /\ UNCHANGED at
     ELSE kind' = COLD /\ at' = at + BatchOf[type]
  /\ UNCHANGED <<numaVars, pc, planVars, pass, periods, drifts>>

\* All batches are done: a profile moves everything back, once.
BatchesDone ==
  /\ pc = "batch" /\ at >= Most(Len(plan[COLD].addr), Len(plan[HOT].addr))
  /\ IF profile.on /\ pass = 1
       THEN pass' = 2 /\ at' = 0 /\ UNCHANGED <<type, pc>>
       ELSE NextType /\ UNCHANGED <<pass, at>>
  /\ UNCHANGED <<numaVars, where, table, param, profile, plan, kind, callVars, periods, drifts>>

\* Another range, the kernel or the process itself moves a page.
Drift ==
  /\ pc \in {"migrate", "type", "batch"} /\ drifts < MaxDrifts
  /\ \E p \in Pages, n \in {i \in Ids : is_valid_nid(i)} :
       n # where[p] /\ where' = [where EXCEPT ![p] = n]
  /\ drifts' = drifts + 1
  /\ UNCHANGED <<numaVars, pc, planVars, pass, at, kind, callVars, periods>>

\* Nodes are collected before the loop and, if asked to, between periods (not
\* after the last one of the bound, when no range would see them).
CollectNodes ==
  /\ pc = "period" /\ periods < MaxPeriods /\ NumaNext
  /\ UNCHANGED <<where, pc, planVars, pass, at, kind, callVars, periods, drifts>>

Next ==
  \/ CollectNodes \/ BeginPeriod \/ ProgressiveProfile \/ Migrate \/ MigrateNothing \/ SkipType \/ PlanType
  \/ MoveTurn \/ BatchesDone \/ Drift

Spec == Init /\ [][Next]_vars

-----------------------------------------------------------------------------
(* Properties.                                                             *)

TypeOK ==
  /\ NumaTypeOK
  /\ where \in [Pages -> Ids]
  /\ pc \in {"period", "profile", "migrate", "type", "batch"}
  /\ \A k \in Kinds : /\ Len(plan[k].addr) = Len(plan[k].from) /\ Len(plan[k].addr) = Len(plan[k].to)
                      /\ Range(status_after_move[k]) \subseteq Ids \cup (DefaultFailed .. -1)

\* move_pages() of MovePages.cc asks again where the pages are when the call
\* stored no status ("leave status array untouched but the pages actually
\* moved", MovePages.cc:186): as long as every call or the query after it
\* answered, the KB reported as moved are those that reached their target, over
\* batches of both kinds and sizes, and the boxed counts say the same.
CountsWhatArrived ==
  \A k \in Kinds :
    /\ k \notin unanswered => stats[k].move_kb = arrived[k]
    /\ get_moved_bytes(stats[k]) = stats[k].move_kb
    /\ stats[k].to_move_kb = SumOver(stats[k].move_page_status)
    /\ charged = stats[COLD].move_kb + stats[HOT].move_kb

=============================================================================
