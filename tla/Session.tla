------------------------------ MODULE Session -------------------------------
(***************************************************************************)
(* A session's history as its harness delivers it: conversation turns,     *)
(* tool calls and results, notices, compaction boundaries, forks, records  *)
(* delivered twice, and boundaries that name a record written after them.  *)
(* Lineage must find the conversation in every such history, or refuse.    *)
(***************************************************************************)
EXTENDS Lineage, TLC

CONSTANTS MaxEvents,  \* bound: delivered records
          Kinds,      \* the kinds of record delivered
          Responses   \* provider responses a record may be a fragment of

VARIABLE h

Ids == {h[i].id : i \in DOMAIN h}
Missing == MaxEvents + 2
RoleOf == [prompt |-> "user", reply |-> "assistant", invocation |-> "assistant",
           result |-> "tool", notice |-> "system", compaction |-> "system"]
KindOf(k) == IF k \in {"prompt", "reply", "notice"} THEN "message" ELSE k

\* A record may hang from any record before it, from none, or from one outside
\* the window; a boundary may name a record still to come.
Parents(k) ==
    Ids \cup {NoUuid} \cup (IF k \in {"result", "compaction"} THEN {Missing} ELSE {})
        \cup (IF k = "compaction" THEN {Cardinality(Ids) + 2} ELSE {})
Calls(k, id) ==
    CASE k = "invocation" -> {id}
      [] k = "result" -> {h[i].call : i \in {j \in DOMAIN h : h[j].kind = "invocation"}} \cup {Missing}
      [] OTHER -> {NoCall}
Fragments(k) == IF k \in {"reply", "invocation"} THEN Responses ELSE {NoResponse}

\* A record that a boundary named before it was written is the tail of the
\* segment rewritten below that boundary.
Rewritten(id, p) ==
    \A i \in DOMAIN h : h[i].parent = id =>
      /\ p \in Ids
      /\ (p = h[i].id \/ Key(h[i]) \in Index(h).up[<<NoAgent, NoBranch, p>>])

SessionInit == h = <<>>

Deliver ==
    /\ Len(h) < MaxEvents
    /\ LET id == Cardinality(Ids) + 1
       IN  \E k \in Kinds : \E p \in Parents(k), c \in Calls(k, id), r \in Fragments(k) :
             /\ Rewritten(id, p)
             /\ h' = Append(h, [agent |-> NoAgent, branch |-> NoBranch, id |-> id, parent |-> p,
                                role |-> RoleOf[k], kind |-> KindOf(k), call |-> c, response |-> r])

\* A record is delivered a second time.
Redeliver ==
    /\ Len(h) < MaxEvents
    /\ \E i \in DOMAIN h : h' = Append(h, h[i])

SessionNext == Deliver \/ Redeliver
SessionSpec == SessionInit /\ [][SessionNext]_h

-----------------------------------------------------------------------------
(* Properties.                                                             *)

Outcome(hist) == Resolve(hist, NoTarget)
Line(r) == {r.events[i] : i \in DOMAIN r.events}

\* The unlinked compaction boundaries of a history, by position.
BreaksIn(g, hist) == {i \in DOMAIN hist : hist[i].kind = "compaction" /\ Orphan(g, Key(hist[i]))}
Breaks(hist) == BreaksIn(Index(hist), hist)

\* No prompt of the user is left out of a lineage that was resolved, other than
\* one written before a compaction boundary that lost its parent: two prompts
\* on two forks are refused and never guessed between (select).
NoPromptLeftOut(r, breaks) ==
    r.resolved =>
      \A i \in DOMAIN h :
        ( h[i].role = "user" /\ h[i].id \notin Line(r) )
        => \E b \in breaks : Min({j \in DOMAIN h : h[j].id = h[i].id}) < b

\* Where a history has no such boundary, what is resolved does not depend on
\* the order records were delivered in, nor on records delivered twice.
OrderDoesNotMatter(r, breaks) ==
    breaks = {} => Outcome([i \in DOMAIN h |-> h[Len(h) + 1 - i]]) = r

\* What is resolved is the whole conversation, however it was delivered.
WholeIn(r, breaks) == NoPromptLeftOut(r, breaks) /\ OrderDoesNotMatter(r, breaks)
ConversationWhole == WholeIn(Outcome(h), Breaks(h))
=============================================================================
