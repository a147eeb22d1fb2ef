------------------------------- MODULE Replay -------------------------------
(***************************************************************************)
(* The offline replay of a saved case (src/src/replay.rs and               *)
(* src/src/replay/frozen.rs), beside the ranking that saved it.  A case    *)
(* holds the decision, the provider's recorded answers, the scoring        *)
(* profile, who was locally eligible and the learned adjustments; replay   *)
(* recomputes a decision from it, under the recorded policy or another.    *)
(* Replay is a second implementation of the decision stages.               *)
(***************************************************************************)
EXTENDS Rank

CONSTANTS Overrides   \* policies a replay is asked for: [gate, fits, w_fit, w_prior, top]

\* An option the override leaves as recorded.
Keep == -1
Scoring == {"gate", "fits", "w_fit", "w_prior", "top"}
Recorded == [k \in Scoring |-> Keep]

-----------------------------------------------------------------------------
(* The saved case (capture in rank_once, save in execute_pipeline_supplied)*)

\* What becomes of each answer: missing, or received.
WideAnswer == IF inv.wide = "none" THEN "missing" ELSE "received"
RerankAnswer == IF DOMAIN inv.estimates.fit = {} THEN "missing" ELSE "received"

\* Who was admitted before fit: those the wide request offered, judged again
\* once a shortlist was.
PreFitEligible == IF RerankAnswer = "received" THEN AdmitAmong(inv.short).admitted ELSE inv.cands

\* The frozen stages, each pushed when its request is built and completed when
\* its answer is received.
FrozenStages ==
    (IF inv.cands # {} THEN <<[stage |-> "wide", options |-> inv.cands, answer |-> WideAnswer]>> ELSE <<>>)
    \o (IF inv.wide = "shortlist"
        THEN <<[stage |-> "rerank", options |-> inv.short, answer |-> RerankAnswer]>> ELSE <<>>)

Case ==
    [history |-> [doc |-> inv.doc, reason |-> inv.reason, skills |-> inv.skills],
     wide |-> WideAnswer, need |-> inv.need,
     rerank |-> RerankAnswer, answers |-> inv.estimates,
     profile |-> [k \in Scoring |-> inv.used[k]],
     stages |-> FrozenStages, candidates |-> inv.cands,
     eligible |-> PreFitEligible, priors |-> inv.frozen]

\* A frozen stage: its options are captured candidates, all of them at the wide
\* stage; a recorded answer belongs to the stage and covers its options.
ValidStage(c, n) ==
    LET st == c.stages[n]
    IN  /\ st.stage = <<"wide", "rerank">>[n]
        /\ st.options # {} /\ st.options \subseteq c.candidates
        /\ st.stage = "wide" => st.options = c.candidates /\ c.wide = st.answer
        /\ st.stage = "rerank" => c.rerank = st.answer
        /\ st.stage = "rerank" /\ st.answer = "received" => DOMAIN c.answers.fit = st.options

\* The frozen inputs: no rerank without the wide answer it followed, no answer
\* without its stage.
ValidFrozen(c) ==
    /\ \A n \in DOMAIN c.stages : ValidStage(c, n)
    /\ Len(c.stages) = 2 => c.stages[1].answer = "received"
    /\ c.wide = "received" => Len(c.stages) >= 1
    /\ c.rerank = "received" => Len(c.stages) = 2

\* A case that validates: answers and eligibility name captured candidates, and
\* fits and distribution name one shortlist.
ValidCase(c) ==
    /\ DOMAIN c.answers.fit \subseteq c.candidates
    /\ DOMAIN c.answers.fit = DOMAIN c.answers.rerank
    /\ c.eligible \subseteq c.candidates
    /\ ValidFrozen(c)

-----------------------------------------------------------------------------
(* execute_replay.                                                         *)

Outcome(status, parity, doc, reason, skills) ==
    [status |-> status, parity |-> parity, doc |-> doc, reason |-> reason, skills |-> skills]
Partial == Outcome("partial", "not-established", "none", "none", <<>>)

Policy(c, o) == [k \in Scoring |-> IF o[k] = Keep THEN c.profile[k] ELSE o[k]]

\* Every stage that was asked was answered (redaction of a frozen text, which
\* also makes a case inexact, is left out).
ExactCompatible(c) == \A n \in DOMAIN c.stages : c.stages[n].answer = "received"

\* replay_parity_status: judged only without an override.
Parity(c, o, doc, reason, skills) ==
    CASE o # Recorded \/ ~ExactCompatible(c) -> "not-established"
      [] o = Recorded /\ ExactCompatible(c)
         /\ c.history = [doc |-> doc, reason |-> reason, skills |-> skills] -> "passed"
      [] OTHER -> "failed"

Complete(c, o, doc, reason, skills) ==
    Outcome("complete", Parity(c, o, doc, reason, skills), doc, reason, skills)

\* The shortlist's candidates, in the loop's order of conditions.
Survivors(c, p) ==
    LET admitted == DOMAIN c.answers.fit \cap c.eligible
        fitting == {s \in admitted : c.answers.fit[s] >= p.fits}
    IN  [admitted |-> admitted, fitting |-> fitting,
         eligible |-> {s \in fitting : c.answers.rerank[s] > c.answers.none}]

ReplayRerankByFit(c, o) == \* a replay that forgets the comparison with none
    LET p == Policy(c, o)
        left == Survivors(c, p).fitting
    IN  IF left = {} THEN Complete(c, o, "abstain", "low-fit", <<>>)
        ELSE Complete(c, o, "ranked", "eligible-candidates", Ranked(c.answers, c.priors, p, left))
ReplayRerank(c, o) ==
    LET p == Policy(c, o)
        left == Survivors(c, p)
    IN  IF left.eligible # {}
        THEN Complete(c, o, "ranked", "eligible-candidates", Ranked(c.answers, c.priors, p, left.eligible))
        ELSE IF left.admitted = {} THEN Partial  \* the local reason was not captured
        ELSE Complete(c, o, "abstain",
               IF left.fitting # {} THEN "no-shortlist-match" ELSE "low-fit", <<>>)

\* A decision that asked nothing is repeated as it was; a lowered gate may need
\* an answer that was never given.
ExecuteReplay(c, o) ==
    CASE c.history.doc \notin {"ranked", "abstain"} \/ c.wide = "missing" ->
           Outcome("complete", "not-applicable", c.history.doc, c.history.reason, c.history.skills)
      [] c.wide = "received" /\ c.history.doc \in {"ranked", "abstain"} ->
           IF c.need < Policy(c, o).gate THEN Complete(c, o, "abstain", "low-need", <<>>)
           ELSE IF c.rerank = "missing" THEN Partial
           ELSE ReplayRerank(c, o)

-----------------------------------------------------------------------------
(* Properties.                                                             *)

Saved == /\ inv.pc = "emit" /\ inv.reason # "failed"
         /\ "save_case" \in inv.cmd.flags /\ ~FlagConflicts(inv.cmd.flags)

\* What the ranking would have decided under another policy, from the same
\* answers: the live stages again.
Live(p) ==
    IF inv.need < p.gate THEN [doc |-> "abstain", reason |-> "low-need", skills |-> <<>>]
    ELSE LET eligible == AfterRerank(inv.short, inv.estimates, p.fits)
         IN  IF eligible = {}
             THEN [doc |-> "abstain", reason |-> AbstainReason(inv.short, inv.estimates, p.fits),
                   skills |-> <<>>]
             ELSE [doc |-> "ranked", reason |-> "eligible-candidates",
                   skills |-> Ranked(inv.estimates, inv.frozen, p, eligible)]

\* A saved case validates, and replaying it under the recorded policy gives the
\* decision that was published, unless priors were activated between the moment
\* the case froze them and the moment the ranking scored with them
\* (load_active_priors_for_pipeline is called twice).
ReplayReproduces ==
    Saved => LET r == ExecuteReplay(Case, Recorded)
             IN  /\ ValidCase(Case) /\ r.status = "complete"
                 /\ (inv.doc = "ranked" => inv.scored = inv.frozen) =>
                      /\ r.parity # "failed"
                      /\ [doc |-> r.doc, reason |-> r.reason, skills |-> r.skills] = Case.history

\* A replay under another policy that claims to be complete says what the
\* ranking itself would have decided under it; it never fills in an answer.
ReplayPredicts ==
    Saved /\ inv.wide # "none" /\ inv.doc \in {"ranked", "abstain"} =>
      \A o \in Overrides :
        LET r == ExecuteReplay(Case, o)
        IN  r.status = "complete" =>
              [doc |-> r.doc, reason |-> r.reason, skills |-> r.skills] = Live(Policy(Case, o))

\* The accounts of one ranking agree: its --why-not trace, the case it saves and
\* the replays of that case tell what was decided, or would have been.
AccountsAgree == TraceAgreesOnUnloaded /\ ReplayReproduces /\ ReplayPredicts
=============================================================================
