------------------------------ MODULE Feedback ------------------------------
(***************************************************************************)
(* Explicit feedback on recorded rankings (src/src/storage/ledger.rs):     *)
(* single verdicts, paired corrections, revisions, removals and delivery   *)
(* acknowledgements, each one transaction fenced by the stamp its process  *)
(* read when it opened the ledger, beside prunes and clears.               *)
(*                                                                         *)
(* A user names a skill by its stable id or by the name it is invoked by;  *)
(* the event's retained roster snapshot says what that meant at the time.  *)
(***************************************************************************)
EXTENDS Naturals, FiniteSets

CONSTANTS Users,        \* processes that submit feedback
          Events,       \* ranking events
          Skills,       \* stable skill ids
          Names,        \* invocation names
          Keys,         \* verified delivery keys
          Unranked, NoSnapshot, NoKey, NoName, NoGroup, NoVersion,
          MaxVersion,   \* bound: revisions of one label
          MaxGeneration \* bound: writes

VARIABLES
    event,    \* ranking_events: snapshot, candidates and delivery of each
    judged,   \* judgments, by event and skill
    proposed, \* feedback_proposals: the absent alternatives suggested
    gen,      \* store_meta.data_generation
    stamp,    \* the stamp each user's process opened the ledger under
    groups    \* correction groups given out

feedbackVars == <<event, judged, proposed, gen, stamp, groups>>

References == Skills \cup Names
Shut == [gen |-> 0, open |-> FALSE]

FeedbackInit ==
    /\ event = [e \in Events |-> Unranked]
    /\ judged = <<>>
    /\ proposed = {}
    /\ gen = 1
    /\ stamp = [u \in Users |-> Shut]
    /\ groups = 0

-----------------------------------------------------------------------------
(* What a reference names.                                                 *)

Members(e) == event[e].snapshot.members
InSnapshot(e, s) == event[e].snapshot # NoSnapshot /\ \E m \in Members(e) : m.id = s

\* match_reference_in_members: the skills a reference may name; several are an
\* ambiguity, none an absence.  A stable id names itself.
MatchReference(members, ref) ==
    IF \E m \in members : m.id = ref THEN {ref}
    ELSE {m.id : m \in {n \in members : n.name = ref}}

\* resolve_event_skill_reference: a candidate of the event first, then its
\* snapshot, which must be complete for a name.
ResolveReference(e, ref) ==
    CASE ref \in event[e].candidates -> {ref}
      [] ref \notin event[e].candidates /\ event[e].snapshot # NoSnapshot
         /\ (event[e].snapshot.complete \/ InSnapshot(e, ref)) ->
           MatchReference(Members(e), ref)
      [] OTHER -> {}

\* A paired correction keeps an unmatched reference as it is.
MatchOrKeep(e, ref) ==
    LET found == MatchReference(Members(e), ref) IN IF found = {} THEN {ref} ELSE found

-----------------------------------------------------------------------------
(* Transactions.                                                           *)

\* open_blocking: a process reads the stamp it will write under.
Open(u) ==
    /\ ~stamp[u].open
    /\ stamp' = [stamp EXCEPT ![u] = [gen |-> gen, open |-> TRUE]]
    /\ UNCHANGED <<event, judged, proposed, gen, groups>>

\* check_stamp
StampHolds(u) == stamp[u].open /\ stamp[u].gen = gen

Close(u) == stamp' = [stamp EXCEPT ![u] = Shut]
Advance == gen < MaxGeneration /\ gen' = gen + 1

\* A transaction that fails, on its stamp or on a refusal, writes nothing.
Refuse(u) ==
    /\ stamp[u].open
    /\ Close(u)
    /\ UNCHANGED <<event, judged, proposed, gen, groups>>

\* The user may name the version the label must have; a label that is not
\* there has none to disagree with.
VersionHolds(k, expected) ==
    k \in DOMAIN judged /\ expected # NoVersion => judged[k].version = expected

\* An existing label is revised and keeps its id; a new one starts at one.
Labelled(k, label, group) ==
    [label |-> label, group |-> group,
     version |-> IF k \in DOMAIN judged THEN judged[k].version + 1 ELSE 1]
Relabel(labels) == [k \in DOMAIN judged \cup DOMAIN labels |->
                      IF k \in DOMAIN labels THEN labels[k] ELSE judged[k]]
InBound(labels) == \A k \in DOMAIN labels : labels[k].version <= MaxVersion

\* record_single_feedback
Single(u, e, ref, label, expected) ==
    /\ StampHolds(u)
    /\ event[e] # Unranked
    /\ \E s \in ResolveReference(e, ref) :
         LET labels == [k \in {<<e, s>>} |-> Labelled(k, label, NoGroup)]
         IN  /\ ResolveReference(e, ref) = {s}
             /\ VersionHolds(<<e, s>>, expected)
             /\ InBound(labels)
             /\ judged' = Relabel(labels)
    /\ Advance
    /\ Close(u)
    /\ UNCHANGED <<event, proposed, groups>>

\* record_paired_correction, up to the choice of its outcome: both references
\* resolve before anything is written, and they name two skills of which the
\* first is of this event.
PairResolves(u, e, ref, alt, s, t) ==
    /\ StampHolds(u)
    /\ event[e] # Unranked
    /\ ref # alt
    /\ event[e].snapshot # NoSnapshot /\ event[e].snapshot.complete
    /\ MatchOrKeep(e, ref) = {s} /\ MatchOrKeep(e, alt) = {t}
    /\ s # t
    /\ InSnapshot(e, s) \/ s \in event[e].candidates

Eligible(e, t) == \E m \in Members(e) : m.id = t /\ m.eligible

\* Both labels, in one transaction and one group.
PairLabels(e, s, t, group) ==
    [k \in {<<e, s>>, <<e, t>>} |->
       Labelled(k, IF k = <<e, s>> THEN "harmful" ELSE "useful", group)]
PairEligibleAny(e, t) == InSnapshot(e, t)
PairEligible(e, t) == Eligible(e, t)
Paired(u, e, ref, alt, expected) ==
    \E s, t \in Skills :
      /\ PairResolves(u, e, ref, alt, s, t)
      /\ PairEligible(e, t)
      /\ LET labels == PairLabels(e, s, t, groups + 1)
         IN  /\ VersionHolds(<<e, s>>, expected) /\ VersionHolds(<<e, t>>, expected)
             /\ InBound(labels)
             /\ judged' = Relabel(labels)
             /\ groups' = groups + 1
             /\ Advance
             /\ Close(u)
             /\ UNCHANGED <<event, proposed>>

\* The alternative was not in the roster then: a proposal and no label.  This
\* write does not advance the generation.
Propose(u, e, ref, alt) ==
    \E s \in Skills, t \in References :
      /\ PairResolves(u, e, ref, alt, s, t)
      /\ ~InSnapshot(e, t)
      /\ proposed' = proposed \cup {t}
      /\ Close(u)
      /\ UNCHANGED <<event, judged, gen, groups>>

\* revise_judgment and remove_judgment, by judgment id.
Revise(u, k, label) ==
    /\ StampHolds(u)
    /\ k \in DOMAIN judged
    /\ LET labels == [j \in {k} |-> Labelled(j, label, NoGroup)]
       IN  InBound(labels) /\ judged' = Relabel(labels)
    /\ Advance
    /\ Close(u)
    /\ UNCHANGED <<event, proposed, groups>>

Remove(u, k) ==
    /\ StampHolds(u)
    /\ k \in DOMAIN judged
    /\ judged' = [j \in DOMAIN judged \ {k} |-> judged[j]]
    /\ Advance
    /\ Close(u)
    /\ UNCHANGED <<event, proposed, groups>>

\* record_acknowledgment: a key belongs to one event; the same key again for
\* its event changes nothing.
KeyFree(e, key) == key \notin {event[f].key : f \in {g \in Events \ {e} : event[g] # Unranked}}
Acknowledge(u, e, key) ==
    /\ StampHolds(u)
    /\ event[e] # Unranked
    /\ KeyFree(e, key)
    /\ \/ /\ event[e].key # key
          /\ event' = [event EXCEPT ![e].key = key, ![e].exposure = "acknowledged"]
          /\ Advance
       \/ event[e].key = key /\ UNCHANGED <<event, gen>>
    /\ Close(u)
    /\ UNCHANGED <<judged, proposed, groups>>

-----------------------------------------------------------------------------
(* What the rest of the program does to the same rows.                     *)

Rosters ==
    {NoSnapshot} \cup
    UNION {{[complete |-> c, members |-> {[id |-> s, name |-> n[s], eligible |-> s \in el] : s \in in}] :
              c \in BOOLEAN, el \in SUBSET in, n \in [in -> Names \cup {NoName}]} :
           in \in SUBSET Skills}

\* record_ranking, as Recording models it: an event with its snapshot and its
\* candidates.  It leaves the generation.
Rank(e) ==
    /\ event[e] = Unranked
    /\ \E r \in Rosters, c \in SUBSET Skills :
         event' = [event EXCEPT ![e] = [snapshot |-> r, candidates |-> c,
                                        key |-> NoKey, exposure |-> "emitted"]]
    /\ UNCHANGED <<judged, proposed, gen, stamp, groups>>

\* prune_apply removes an event with its labels; proposals stay.
PruneEvent(e) ==
    /\ event[e] # Unranked
    /\ event' = [event EXCEPT ![e] = Unranked]
    /\ judged' = [k \in {j \in DOMAIN judged : j[1] # e} |-> judged[k]]
    /\ Advance
    /\ UNCHANGED <<proposed, stamp, groups>>

\* clear_apply removes everything.
ClearEvents ==
    /\ event' = [e \in Events |-> Unranked]
    /\ judged' = <<>>
    /\ proposed' = {}
    /\ Advance
    /\ UNCHANGED <<stamp, groups>>

Labels == {"harmful", "useful", "neutral"}
Versions == {NoVersion} \cup 1 .. MaxVersion

Submit(u) ==
    \/ \E e \in Events, r \in References, v \in Versions :
         Single(u, e, r, "useful", v)
    \/ \E e \in Events, r, a \in References, v \in Versions : Paired(u, e, r, a, v)
    \/ \E e \in Events, r, a \in References : Propose(u, e, r, a)
    \/ \E k \in DOMAIN judged : Revise(u, k, "neutral") \/ Remove(u, k)
    \/ \E e \in Events, key \in Keys : Acknowledge(u, e, key)

FeedbackNext ==
    \/ \E u \in Users : Open(u) \/ Submit(u) \/ Refuse(u)
    \/ \E e \in Events : Rank(e) \/ PruneEvent(e)
    \/ ClearEvents

FeedbackSpec == FeedbackInit /\ [][FeedbackNext]_feedbackVars

-----------------------------------------------------------------------------
(* Properties.                                                             *)

\* A correction is both its labels or neither: no submission, refusal, prune or
\* clear leaves a harmful label of a group whose useful one was never written
\* (record_paired_correction, "a failed alternate lookup cannot leave an
\* unintended standalone negative label").
CorrectionIsWhole ==
    [][\A k \in DOMAIN judged' :
         ( judged'[k].group # NoGroup /\ judged'[k].label = "harmful"
           /\ (k \notin DOMAIN judged \/ judged'[k] # judged[k]) )
         => \E j \in DOMAIN judged' :
              j[1] = k[1] /\ j # k /\ judged'[j].group = judged'[k].group
              /\ judged'[j].label = "useful" /\ Eligible(j[1], j[2])]_feedbackVars

=============================================================================
