------------------------------ MODULE Lineage -------------------------------
(***************************************************************************)
(* Which records of a session's history are the conversation that goes on  *)
(* (src/src/context/branch/lineage.rs).  A history is the sequence of      *)
(* delivered events; each names its parent.  Resolution picks the one leaf *)
(* the conversation continues from and traces it to its root, or refuses.  *)
(*                                                                         *)
(* An event is [agent, branch, id, parent, role, kind, call, response]:    *)
(* the last two are the tool call it makes or answers and the provider     *)
(* response it is a fragment of.  Events carry their ids, and calls and    *)
(* results theirs; ids are numbers, ordered as the index orders its keys.  *)
(***************************************************************************)
EXTENDS Integers, Sequences, FiniteSets, FiniteSetsExt, Functions

CONSTANTS NoUuid, NoCall, NoResponse, NoBranch, NoAgent

NoTarget == [agent |-> NoAgent, branch |-> NoBranch, id |-> NoUuid]
Unresolved == [resolved |-> FALSE, leaf |-> NoUuid, events |-> <<>>,
               truncated |-> FALSE, epoch |-> 0]

Key(e) == <<e.agent, e.branch, e.id>>

InScope(e, target) ==
    /\ target.agent # NoAgent => e.agent = target.agent
    /\ target.branch # NoBranch => e.branch = target.branch

\* A system message without a tool payload: no conversation continues from it.
CarriesNoConversation(e) == e.role = "system" /\ e.kind = "message"

\* A result whose parent is the invocation it answers.
AnswersOwnCall(result, call) ==
    /\ result.kind = "result" /\ call.kind = "invocation"
    /\ result.call # NoCall /\ result.call = call.call

-----------------------------------------------------------------------------
(* The index: definitions by key, conflicts, parents, severed boundaries.  *)

Delivered(h, k) == {i \in DOMAIN h : h[i].id # NoUuid /\ Key(h[i]) = k}
KeysOf(h) == {Key(h[i]) : i \in {j \in DOMAIN h : h[j].id # NoUuid}}
Defined(h) == [k \in KeysOf(h) |-> h[Min(Delivered(h, k))]]

\* Identical redelivery is not another definition.
Conflicts(h) ==
    {k \in KeysOf(h) : \E i, j \in Delivered(h, k) : h[i] # h[j]}

\* The events a parent link may name: the one of the same branch, else those
\* of the same agent; several are ambiguous.
Claimed(def, e) ==
    LET own == <<e.agent, e.branch, e.parent>>
    IN  CASE e.parent = NoUuid -> {}
          [] e.parent # NoUuid /\ own \in DOMAIN def -> {own}
          [] OTHER -> {k \in DOMAIN def : k[1] = e.agent /\ k[3] = e.parent}

Unambiguous(keys) == IF Cardinality(keys) = 1 THEN keys ELSE {}

Ancestors(par, k) ==
    LET up[n \in 0 .. Cardinality(DOMAIN par)] ==
          IF n = 0 THEN {k} ELSE UNION {par[j] : j \in up[n - 1]}
    IN  UNION {up[n] : n \in 1 .. Cardinality(DOMAIN par)}

\* A compaction boundary whose parent descends from it is a root.
Severed(def, par) ==
    {k \in DOMAIN def : def[k].kind = "compaction" /\ k \in Ancestors(par, k)}

\* The resolved graph of a history: its claims, less those of the severed.
Graph(def, par, cut) ==
    [def |-> def, par |-> par, cut |-> cut,
     ambiguous |-> {k \in DOMAIN def \ cut : Cardinality(Claimed(def, def[k])) > 1},
     up |-> [k \in DOMAIN def |-> Ancestors(par, k)],
     kids |-> [k \in DOMAIN def |-> {j \in DOMAIN def : k \in par[j]}]]
Without(claims, cut) == [k \in DOMAIN claims |-> IF k \in cut THEN {} ELSE claims[k]]
Linked(def, claims, cut) == Graph(def, Without(claims, cut), cut)
Claims(def) == [k \in DOMAIN def |-> Unambiguous(Claimed(def, def[k]))]
LinkedBy(def, claims) == Linked(def, claims, Severed(def, claims))
IndexOf(def) == LinkedBy(def, Claims(def))
Index(h) == IndexOf(Defined(h))

Descendants(g, k) == {j \in DOMAIN g.def : k \in g.up[j]}

\* An event that claims a parent the history does not hold.
Orphan(g, k) == g.def[k].parent # NoUuid /\ g.par[k] = {} /\ k \notin g.ambiguous

-----------------------------------------------------------------------------
(* The leaves the conversation may continue from.                          *)

\* System-message dead ends, pruned repeatedly: what only notices hang from.
Notices(g) ==
    {k \in DOMAIN g.def :
       /\ k \notin g.up[k]
       /\ \A j \in Descendants(g, k) \cup {k} : CarriesNoConversation(g.def[j])}

\* What is left below k.
Left(g, pruned, k) == g.kids[k] \ pruned

\* A result beside its own call, while the call goes on through another child;
\* taken one by one, in the order of their keys.
SideResults(g, pruned) ==
    LET candidates == {k \in DOMAIN g.def \ pruned :
                         /\ Left(g, pruned, k) = {}
                         /\ \E p \in g.par[k] : AnswersOwnCall(g.def[k], g.def[p])}
        under(p) == candidates \cap g.kids[p]
        before(p, k) == {j \in under(p) : j[3] < k[3]}
    IN  {k \in candidates : \E p \in g.par[k] :
           Cardinality(Left(g, pruned, p)) - Cardinality(before(p, k))
             > Cardinality(under(p))}

\* A result whose call precedes the window.
StrandedResults(g, pruned) ==
    {k \in DOMAIN g.def \ pruned :
       Left(g, pruned, k) = {} /\ g.def[k].kind = "result" /\ Orphan(g, k)}

\* batch: what the subtree at head, below a call of a response, holds.
Batch(g, head, response, own) ==
    LET tree == Descendants(g, head) \cup {head}
        ofResponse(e) == e.role = "assistant" /\ e.kind \in {"invocation", "message"}
                         /\ e.response = response
        fits(e) == ofResponse(e) \/ e.kind = "result" \/ CarriesNoConversation(e)
        calls == {g.def[k].call : k \in {j \in tree : ofResponse(g.def[j]) /\ g.def[j].kind = "invocation"}}
        answers == {g.def[k].call : k \in {j \in tree : g.def[j].kind = "result"}}
    IN  CASE \E k \in tree : ~fits(g.def[k]) -> "beyond"
          [] calls \subseteq answers /\ answers \subseteq calls \cup {own} -> "answered"
          [] OTHER -> "incomplete"

\* Answered batches of a response that goes on through another child.
AnsweredSideBatches(g, fork) ==
    LET call == g.def[fork]
        batch(k) == Batch(g, k, call.response, call.call)
        goesOn == \E k \in g.kids[fork] :
                    /\ batch(k) = "beyond"
                    /\ \/ g.def[k].response = call.response
                       \/ AnswersOwnCall(g.def[k], call)
    IN  IF /\ call.response # NoResponse /\ call.kind = "invocation"
           /\ Cardinality(g.kids[fork]) > 1 /\ goesOn
        THEN {k \in g.kids[fork] : batch(k) = "answered"}
        ELSE {}

\* substantive_leaves: what is left without the notices and results beside the
\* conversation, the stranded results and the answered batches.  An orphan is
\* taken from no parent's count.
Aside(g, notices) == notices \cup SideResults(g, notices)
LeavesWithout(g, target, aside, heads) ==
    LET pruned == aside \cup StrandedResults(g, aside) \cup heads
                  \cup UNION {Descendants(g, k) : k \in heads}
    IN  {k \in DOMAIN g.def \ pruned :
           InScope(g.def[k], target) /\ g.kids[k] \ (aside \cup heads) = {}}
SubstantiveLeaves(g, target) ==
    LeavesWithout(g, target, Aside(g, Notices(g)),
                  UNION {AnsweredSideBatches(g, k) : k \in DOMAIN g.def})

\* after_unlinked_compaction: the one leaf below the last boundary that claims
\* a parent nobody wrote, when every other leaf was written before it.
AfterUnlinkedCompaction(g, h, leaves) ==
    LET breaks == {i \in DOMAIN h : h[i].kind = "compaction" /\ h[i].id # NoUuid
                                    /\ Orphan(g, Key(h[i]))}
        at == Max(breaks)
        boundary == Key(h[at])
        below == {k \in leaves : k = boundary \/ boundary \in g.up[k]}
        before(k) == Min(Delivered(h, k)) < at
    IN  IF breaks # {} /\ Cardinality(below) = 1 /\ \A k \in leaves \ below : before(k)
        THEN below ELSE {}

\* select: the leaf, as a set of one key, or of none where it is refused.
SelectNewest(g, h, leaves) == {CHOOSE k \in leaves : \A j \in leaves :
                                 Min(Delivered(h, j)) <= Min(Delivered(h, k))}
SelectAmong(g, h, leaves) == AfterUnlinkedCompaction(g, h, leaves)
SelectLeaf(g, h, leaves, real) ==
    CASE leaves = {} -> {}
      [] Cardinality(leaves) = 1 -> leaves
      [] Cardinality(leaves) > 1 /\ Cardinality(real) = 1 -> real
      [] OTHER -> SelectAmong(g, h, real)
SelectIn(g, h, target, scope) ==
    CASE target.id # NoUuid -> Unambiguous({k \in scope : k[3] = target.id})
      [] target.id = NoUuid /\ Conflicts(h) \cap scope # {} -> {}
      [] OTHER -> SelectLeaf(g, h, {k \in scope : g.kids[k] = {}}, SubstantiveLeaves(g, target))
Select(g, h, target) == SelectIn(g, h, target, {k \in DOMAIN g.def : InScope(g.def[k], target)})

-----------------------------------------------------------------------------
(* trace and resolve.                                                      *)

\* The chain from the leaf to its root.
Chain(g, leaf) ==
    LET line[n \in 1 .. Cardinality(g.up[leaf]) + 1] ==
          IF n = 1 THEN <<leaf>>
          ELSE LET parents == g.par[line[n - 1][1]]
               IN  IF parents = {} THEN line[n - 1]
                   ELSE <<CHOOSE p \in parents : TRUE>> \o line[n - 1]
    IN  line[Cardinality(g.up[leaf]) + 1]

\* A lineage is refused for a conflict, a cycle, an ambiguous parent, a bare id
\* it would hold twice, or a record of another branch than the one asked for.
Traceable(g, h, leaf, target) ==
    LET line == g.up[leaf] \cup {leaf}
    IN  /\ line \cap Conflicts(h) = {}
        /\ \A k \in line : k \notin g.up[k]
        /\ line \cap g.ambiguous = {}
        /\ \A j, k \in line : j[3] = k[3] => j = k
        /\ \A k \in line : target.branch # NoBranch /\ g.def[k].branch # NoBranch
                             => g.def[k].branch = target.branch

Trace(g, line) ==
    [resolved |-> TRUE, leaf |-> line[Len(line)][3],
     events |-> [i \in DOMAIN line |-> line[i][3]],
     truncated |-> Orphan(g, line[1]),
     epoch |-> Cardinality({i \in DOMAIN line : g.def[line[i]].kind = "compaction"})]
TraceFrom(g, h, target, leaf) ==
    IF Traceable(g, h, leaf, target) THEN Trace(g, Chain(g, leaf)) ELSE Unresolved
ResolveIn(g, h, target, chosen) ==
    IF h = <<>> \/ chosen = {} THEN Unresolved
    ELSE TraceFrom(g, h, target, CHOOSE k \in chosen : TRUE)
ResolveGraph(g, h, target) == ResolveIn(g, h, target, Select(g, h, target))
Resolve(h, target) == ResolveGraph(Index(h), h, target)
=============================================================================
