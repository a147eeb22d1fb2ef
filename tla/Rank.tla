-------------------------------- MODULE Rank --------------------------------
(***************************************************************************)
(* One ranking, from its command line or hook entry to the advice it       *)
(* prints (rank_once and execute_pipeline_supplied of src/src/pipeline.rs, *)
(* rank_command and hook_claude_command of src/src/cli.rs), while the      *)
(* user's and the project's configuration, the snoozes and the roster may  *)
(* be edited beside it.  Its provider attempts are those of ProviderStage, *)
(* its cache and leases those of Coordination, its rows those of Recording;*)
(* here they are one send per stage, one exact cached pair, and nothing.   *)
(*                                                                         *)
(* A skill of the roster is absent, restricted (visible, not invocable by  *)
(* the agent), or visible with the content v1 or v2.  Skills are numbers,  *)
(* ordered as their ids.  The built-in limits of the pipeline's inputs     *)
(* stand in the outcomes of the ingesting actions.                         *)
(***************************************************************************)
EXTENDS Policy, FiniteSetsExt

CONSTANTS Skills,                    \* numbers
          UserLayers, ProjectLayers, \* what the two files may hold
          Environment,               \* the invocation's environment layer
          Commands,                  \* [channel, flags, cli, request, excludes, loads, proven, cached]
          Rosters,                   \* skill -> "absent", "restricted", "v1", "v2"
          Snoozes,                   \* [all, skills]
          Priors,                    \* skill -> learned adjustment, as activated
          Scores,                    \* what a provider answers
          MAX_REAL_OPTIONS,          \* most candidates a wide request offers
          MaxEdits                   \* bound: edits beside the invocation

\* Every layer that may be met is a sequence of entries, each of its key's kind.
Layers == UserLayers \cup ProjectLayers \cup {Environment} \cup {cmd.cli : cmd \in Commands}

ASSUME RankAssumption ==
    /\ Skills \subseteq Int /\ IsFiniteSet(Skills) /\ Scores \subseteq Int
    /\ Rosters \subseteq [Skills -> {"absent", "restricted", "v1", "v2"}]
    /\ Snoozes \subseteq [all : BOOLEAN, skills : SUBSET Skills]
    /\ Priors \subseteq [Skills -> Int]
    /\ \A layer \in Layers :
         /\ layer \in Seq(Range(layer))
         /\ \A entry \in Range(layer) : entry.value # Bad => Typed(entry.key, entry.value)

VARIABLES user, project, snooze, roster, priors, edits, late, inv,
          since  \* history: what has been so since validation or printing began
vars == <<user, project, snooze, roster, priors, edits, late, inv, since>>

None == 0
NoEstimates == [fit |-> <<>>, rerank |-> <<>>, none |-> 0]
NoPriors == [s \in Skills |-> 0]
Unmuted == [all |-> FALSE, skills |-> {}]
Idle == [pc |-> "idle", cmd |-> "none", entry |-> "none", used |-> "none", receipt |-> "none",
         seen |-> <<>>, admitted |-> FALSE, muted |-> Unmuted, scope |-> {},
         cands |-> {}, quill |-> FALSE, short |-> {}, sent |-> FALSE, wide |-> "none", estimates |-> NoEstimates,
         frozen |-> NoPriors, scored |-> NoPriors, need |-> 0,
         doc |-> "none", reason |-> "none", skills |-> <<>>]

\* What each pair of files resolves to beside a command line, worked out once.
Resolved ==
    [u \in UserLayers |-> [p \in ProjectLayers |-> [c \in {cmd.cli : cmd \in Commands} |->
       LET sources == <<u, p, Environment, c>>
       IN  [valid |-> Valid(sources), effective |-> Resolve(sources),
            credential |-> Credential(sources)]]]]
Now(c) == Resolved[user][project][c.cli]
Readable == Now(inv.cmd).valid
Current == Now(inv.cmd).effective
CurrentReceipt == Receipt(inv.cmd.flags, Current, Now(inv.cmd).credential)

Init ==
    /\ user \in UserLayers /\ project \in ProjectLayers
    /\ snooze \in Snoozes /\ roster \in Rosters
    /\ priors = NoPriors /\ edits = 0 /\ late = FALSE /\ inv = Idle
    /\ since = [muted |-> {}, shadow |-> FALSE]

World == <<user, project, snooze, roster, priors, edits, late>>
Go(pc) == inv' = [inv EXCEPT !.pc = pc]

\* unavailable_document: a typed failure after the roster was admitted keeps
\* its document; an earlier one is only an error.
Fail == inv' = [inv EXCEPT !.pc = "emit", !.skills = <<>>, !.reason = "failed",
                  !.doc = IF inv.admitted THEN "unavailable" ELSE "failed"]

-----------------------------------------------------------------------------
(* Entry, context and roster.                                              *)

Start(c, refused) ==
    inv' = [inv EXCEPT !.cmd = c, !.entry = Now(c).effective,
              !.pc = IF refused THEN "emit" ELSE "load",
              !.doc = IF refused THEN "failed" ELSE "none"]

\* rank_command: only conflicting flags are refused before the pipeline.
BeginRank ==
    /\ inv.pc = "idle"
    /\ \E c \in Commands : c.channel = "cli" /\ Start(c, FlagConflicts(c.flags))
    /\ UNCHANGED World

\* hook_claude_command also validates its configuration, and remembers its mode
\* and fingerprint, before its entry is counted.
BeginHook ==
    /\ inv.pc = "idle"
    /\ \E c \in Commands : c.channel = "hook" /\ Start(c, FlagConflicts(c.flags) \/ ~Now(c).valid)
    /\ UNCHANGED World

\* The policy this invocation uses.
Load ==
    /\ inv.pc = "load"
    /\ IF late \/ ~Readable THEN Fail
       ELSE inv' = [inv EXCEPT !.pc = "source", !.used = Current, !.receipt = CurrentReceipt]
    /\ UNCHANGED World

\* No session, or more than one and no choice between them, is refused.
SelectSource ==
    /\ inv.pc = "source"
    /\ Fail \/ (~late /\ Go("ingest"))
    /\ UNCHANGED World

\* Normalized input that is oversized, malformed or late is refused.
IngestNormalized ==
    /\ inv.pc = "ingest" /\ inv.cmd.channel = "cli"
    /\ Fail \/ (~late /\ Go("anchor"))
    /\ UNCHANGED World

\* The transcript's tail; a session that is no longer the one discovery chose
\* is refused.
IngestTranscript ==
    /\ inv.pc = "ingest" /\ inv.cmd.channel = "cli"
    /\ Fail \/ Go("anchor")
    /\ UNCHANGED World

\* The hook's prompt, overlaid on its transcript.  A task notification is not a
\* turn: refused at once under the skip policy, and always inside a turn.
IngestHook ==
    /\ inv.pc = "ingest" /\ inv.cmd.channel = "hook"
    /\ \E notification \in BOOLEAN :
         IF notification /\ inv.used.notification_turns = 0 THEN Fail
         ELSE Fail \/ (~late /\ Go("anchor"))
    /\ UNCHANGED World

\* The active branch and the task; a request whose task is missing, too large
\* or contradictory is refused.
AnchorTask ==
    /\ inv.pc = "anchor"
    /\ Fail \/ Go("roster")
    /\ UNCHANGED World

\* The roster's files are read; from here a failure is a decision document.
LoadRoster ==
    /\ inv.pc = "roster"
    /\ IF late THEN Fail ELSE inv' = [inv EXCEPT !.seen = roster, !.admitted = TRUE, !.pc = "decide"]
    /\ UNCHANGED World

-----------------------------------------------------------------------------
(* Roster dependencies (src/src/roster/revalidation.rs).                   *)

\* Membership and restrictions of every skill, content of those in scope.
Digest(r, scope) ==
    [s \in Skills |-> IF r[s] \in {"absent", "restricted"} \/ s \in scope THEN r[s] ELSE "visible"]

Unmoved(scope) == Digest(roster, scope) = Digest(inv.seen, scope)

-----------------------------------------------------------------------------
(* An explicit request: resolved locally, deaf to snoozes.                 *)

Excluded == inv.cmd.excludes \cup inv.used.exclude

Explicit ==
    /\ inv.pc = "decide" /\ inv.cmd.request # None
    /\ IF inv.seen[inv.cmd.request] = "absent" \/ inv.cmd.request \in Excluded
       THEN inv' = [inv EXCEPT !.pc = "finish", !.doc = "unavailable"]
       ELSE inv' = [inv EXCEPT !.pc = "explicit", !.scope = {inv.cmd.request},
                      !.doc = "explicit", !.skills = <<inv.cmd.request>>]
    /\ UNCHANGED World

ExplicitPolicy ==
    /\ inv.pc = "explicit"
    /\ IF late \/ ~Readable \/ Changed(inv.receipt, CurrentReceipt, "explicit") # {}
       THEN Fail ELSE Go("explicit-roster")
    /\ UNCHANGED World

ExplicitRoster ==
    /\ inv.pc = "explicit-roster"
    /\ IF late \/ ~Unmoved(inv.scope) THEN Fail ELSE Go("finish")
    /\ UNCHANGED World

-----------------------------------------------------------------------------
(* Eligibility (src/src/eligibility.rs).                                   *)

\* admit: restrictions and exclusions first, then references already loaded.
AdmitAmong(candidates) ==
    LET policy == {s \in candidates : inv.seen[s] # "restricted" /\ s \notin Excluded}
        fresh == policy \ inv.cmd.proven
    IN  [admitted |-> fresh,
         verdict |-> CASE candidates = {} -> "unavailable"
                       [] candidates # {} /\ fresh = {} -> "abstain"
                       [] OTHER -> "none",
         reason |-> IF policy = {} THEN "excluded" ELSE "already-loaded"]

\* after_rerank: admitted again, fitting, and above none on their own.
AfterRerank(short, e, fits) ==
    {s \in AdmitAmong(short).admitted : e.fit[s] >= fits /\ e.rerank[s] > e.none}

\* Why nothing is left: the first stage that left nothing.
AbstainReason(short, e, fits) ==
    CASE AdmitAmong(short).admitted = {} -> AdmitAmong(short).reason
      [] \E s \in AdmitAmong(short).admitted : e.fit[s] >= fits -> "no-shortlist-match"
      [] OTHER -> "low-fit"

\* The learned adjustments in force, none when priors have no weight or the
\* ledger is off (load_active_priors_for_pipeline).
ActivePriors == IF inv.used.w_prior = 0 \/ ~Ledger(inv.cmd.flags) THEN NoPriors ELSE priors

\* rank: descending score, then ascending id, cut at top.
Utility(e, delta, policy, s) == e.rerank[s] + policy.w_fit * e.fit[s] + policy.w_prior * delta[s]
Above(e, delta, policy, s, t) ==
    LET mine == Utility(e, delta, policy, s) theirs == Utility(e, delta, policy, t)
    IN  mine > theirs \/ (mine = theirs /\ s < t)
Ranked(e, delta, policy, eligible) ==
    LET place(s) == Cardinality({t \in eligible : Above(e, delta, policy, t, s)}) + 1
        n == Min({policy.top, Cardinality(eligible)})
    IN  [i \in 1 .. n |-> CHOOSE s \in eligible : place(s) = i]

\* The snoozes of this scope are read, the candidates admitted.
Admit ==
    /\ inv.pc = "decide" /\ inv.cmd.request = None
    /\ LET visible == {s \in Skills : inv.seen[s] # "absent"}
           heard == IF snooze.all THEN {} ELSE visible \ snooze.skills
           a == AdmitAmong(heard)
           abstains == visible # {} /\ (heard = {} \/ a.verdict = "abstain")
       IN  IF late THEN Fail
           ELSE inv' = [inv EXCEPT !.muted = snooze,
                  !.scope = IF abstains THEN {} ELSE a.admitted, !.cands = a.admitted,
                  !.doc = IF visible = {} THEN "unavailable" ELSE IF abstains THEN "abstain" ELSE "none",
                  !.reason = IF abstains /\ heard = {} THEN "snoozed" ELSE IF abstains THEN a.reason ELSE "none",
                  !.pc = IF visible = {} THEN "finish" ELSE IF abstains THEN "validate" ELSE "retrieve"]
    /\ UNCHANGED World

\* More candidates than a request offers are cut by local retrieval.  Its cut
\* depends on the whole inventory, so every visible skill's content is then
\* a dependency of the decision.
Retrieve ==
    /\ inv.pc = "retrieve"
    /\ IF Cardinality(inv.cands) <= MAX_REAL_OPTIONS THEN Go("render")
       ELSE \/ Fail
            \/ \E found \in SUBSET inv.cands :
                 /\ ~late /\ found # {} /\ Cardinality(found) <= MAX_REAL_OPTIONS
                 /\ inv' = [inv EXCEPT !.cands = found, !.quill = TRUE, !.pc = "render",
                               !.scope = {s \in Skills : inv.seen[s] # "absent"}]
    /\ UNCHANGED World

\* The context is rendered, redacted and bounded; a saved case freezes its
\* inputs here, the learned adjustments among them.
Render ==
    /\ inv.pc = "render"
    /\ \/ Fail
       \/ inv' = [inv EXCEPT !.pc = "ready",
                    !.frozen = IF "save_case" \in inv.cmd.flags THEN ActivePriors ELSE NoPriors]
    /\ UNCHANGED World

-----------------------------------------------------------------------------
(* The provider's two stages.                                              *)

\* A dry run previews the request; context that does not fit is refused.
Preview ==
    /\ inv.pc = "ready" /\ "dry_run" \in inv.cmd.flags
    /\ Fail \/ inv' = [inv EXCEPT !.pc = "finish", !.doc = "preview"]
    /\ UNCHANGED World

\* An exact cached answer needs no send.
Reuse ==
    /\ inv.pc = "ready" /\ inv.cmd.cached /\ ResponseCache(inv.cmd.flags)
    /\ Go("wide") /\ UNCHANGED World

\* authorize_send: the refreshed policy becomes the receipt.
Authorized == /\ ~late /\ Readable
              /\ AdmitAttempt(CurrentReceipt)
              /\ Changed(inv.receipt, CurrentReceipt, "admission") = {}
Send ==
    /\ \/ inv.pc = "ready" /\ "dry_run" \notin inv.cmd.flags
          /\ ~(inv.cmd.cached /\ ResponseCache(inv.cmd.flags))
       \/ inv.pc = "rerank" /\ inv.sent
    /\ IF ~Authorized THEN Fail
       ELSE inv' = [inv EXCEPT !.receipt = CurrentReceipt, !.sent = TRUE,
                      !.pc = IF inv.pc = "ready" THEN "wide" ELSE "reranked"]
    /\ UNCHANGED World

\* The wide answer: no need for a skill, or a shortlist.
Wide ==
    /\ inv.pc = "wide"
    /\ \/ Fail
       \/ \E need \in Scores : \E short \in SUBSET inv.cands :
            IF need < inv.used.gate
            THEN short = {} /\ inv' = [inv EXCEPT !.doc = "abstain", !.reason = "low-need", !.need = need,
                                            !.wide = "low-need", !.pc = "validate"]
            ELSE /\ Cardinality(short) = Min({inv.used.shortlist, Cardinality(inv.cands)})
                 /\ inv' = [inv EXCEPT !.short = short, !.wide = "shortlist", !.need = need,
                               !.pc = IF inv.sent THEN "rerank" ELSE "reranked"]
    /\ UNCHANGED World

\* The rerank answer is judged, scored and cut.
Rerank ==
    /\ inv.pc = "reranked"
    /\ \/ Fail
       \/ \E fit, rerank \in [inv.short -> Scores], none \in Scores :
            LET e == [fit |-> fit, rerank |-> rerank, none |-> none]
                eligible == AfterRerank(inv.short, e, inv.used.fits)
            IN  inv' = [inv EXCEPT !.pc = "validate", !.estimates = e,
                          !.scored = IF eligible = {} THEN NoPriors ELSE ActivePriors,
                          !.doc = IF eligible = {} THEN "abstain" ELSE "ranked",
                          !.reason = IF eligible = {} THEN AbstainReason(inv.short, e, inv.used.fits)
                                     ELSE "eligible-candidates",
                          !.skills = Ranked(e, ActivePriors, inv.used, eligible)]
    /\ UNCHANGED World

-----------------------------------------------------------------------------
(* The explanation printed with a decision (compute_stage_trace): the first*)
(* stage that excluded a skill, or that it was published.  Local policy    *)
(* counts every recorded load of a skill; admission removed only the       *)
(* references proven present (cmd.proven).                                 *)

TraceVisibility(s) ==
    CASE inv.seen[s] = "absent" -> "not-in-snapshot"
      [] inv.seen[s] = "restricted" -> "manual-only"
      [] OTHER -> "passed"

TracePolicy(s) ==
    CASE s \in Excluded -> "excluded"
      [] s \notin Excluded /\ (inv.muted.all \/ s \in inv.muted.skills) -> "snoozed"
      [] s \notin Excluded /\ ~inv.muted.all /\ s \notin inv.muted.skills
         /\ s \in inv.cmd.loads -> "already-loaded"
      [] OTHER -> "passed"

\* Without retrieval the whole roster passes.
TraceRetrieval(s) == IF inv.quill /\ s \notin inv.cands THEN "not-retrieved" ELSE "passed"

TraceShortlist(s) ==
    CASE inv.wide = "none" -> "not-evaluated"
      [] inv.wide = "low-need" -> "gate-not-met"
      [] inv.wide = "shortlist" /\ s \notin inv.short -> "shortlist-overflow"
      [] OTHER -> "passed"

TraceFit(s) ==
    LET e == inv.estimates
    IN  CASE s \notin DOMAIN e.fit -> "not-evaluated"
          [] s \in DOMAIN e.fit /\ e.fit[s] < inv.used.fits -> "fit-below-threshold"
          [] s \in DOMAIN e.fit /\ e.fit[s] >= inv.used.fits /\ e.rerank[s] <= e.none -> "none-won"
          [] OTHER -> "passed"

TraceOrdering(s) ==
    IF \E i \in DOMAIN inv.skills : inv.skills[i] = s THEN "published" ELSE "below-top-k"

\* The stages in their order; each is evaluated only when those before passed.
Trace(s) ==
    LET stages == <<TraceVisibility(s), TracePolicy(s), TraceRetrieval(s),
                    TraceShortlist(s), TraceFit(s), TraceOrdering(s)>>
    IN  stages[Min({i \in DOMAIN stages : stages[i] # "passed"})]

-----------------------------------------------------------------------------
(* validate_advisory_publication, in its order.                            *)

ValidateRoster ==
    /\ inv.pc = "validate"
    /\ IF late \/ ~Unmoved(inv.scope) THEN Fail ELSE Go("snoozes")
    /\ UNCHANGED World

\* A mute applied since withholds; one that ended does not.
UnsnoozedAlways(now, used) == TRUE
Unsnoozed(now, used) == (now.all => used.all) /\ now.skills \subseteq used.skills
ValidateSnoozes ==
    /\ inv.pc = "snoozes"
    /\ IF late \/ ~Unsnoozed(snooze, inv.muted) THEN Fail ELSE Go("policy")
    /\ UNCHANGED World

ValidatePolicy ==
    /\ inv.pc = "policy"
    /\ IF late \/ ~Readable \/ Changed(inv.receipt, CurrentReceipt, "advisory") # {}
       THEN Fail ELSE Go("finish")
    /\ UNCHANGED World

-----------------------------------------------------------------------------
(* Publication.                                                            *)

Decisions == {"ranked", "abstain", "explicit"}

\* execute_pipeline_supplied: a late decision is withheld, and so is one whose
\* case could not be saved; a dry run's decision is reported inside its preview.
Finish ==
    /\ inv.pc = "finish"
    /\ IF late /\ inv.doc \in Decisions THEN Fail
       ELSE \/ "save_case" \in inv.cmd.flags /\ Fail
            \/ LET wrapped == "dry_run" \in inv.cmd.flags /\ inv.doc \in Decisions
               IN  inv' = [inv EXCEPT !.pc = "emit",
                          !.doc = IF wrapped THEN "preview" ELSE inv.doc,
                          !.skills = IF wrapped THEN <<>> ELSE inv.skills]
    /\ UNCHANGED World

Printed(doc, skills) == inv' = [inv EXCEPT !.pc = "done", !.doc = doc, !.skills = skills]

\* rank_command: a decision whose cleanup outlasted the deadline loses its
\* advice; one that was ready in time may still be printed in the reserve.
EmitCli ==
    /\ inv.pc = "emit" /\ inv.cmd.channel = "cli"
    /\ \/ Printed(inv.doc, inv.skills)
       \/ late /\ inv.doc \in Decisions /\ Printed("unavailable", <<>>)
    /\ UNCHANGED World

\* hook_claude_command prints a suggestion or an explicit list, and only while
\* its policy is the advisory one it started with.
Fenced == \/ late \/ ~Readable
          \/ inv.entry.hook_mode = 0 \/ Current.hook_mode = 0
          \/ Fingerprint(Current) # Fingerprint(inv.entry)
EmitHook ==
    /\ inv.pc = "emit" /\ inv.cmd.channel = "hook"
    /\ IF inv.doc \in {"ranked", "explicit"} /\ ~Fenced
       THEN Printed(inv.doc, inv.skills) ELSE Printed("silent", <<>>)
    /\ UNCHANGED World

-----------------------------------------------------------------------------
(* The world beside it.                                                    *)

Active == inv.pc \notin {"idle", "done"}
Edit == Active /\ edits < MaxEdits /\ edits' = edits + 1

EditUser == Edit /\ user' \in UserLayers \ {user}
            /\ UNCHANGED <<project, snooze, roster, priors, late, inv>>
EditProject == Edit /\ project' \in ProjectLayers \ {project}
               /\ UNCHANGED <<user, snooze, roster, priors, late, inv>>
EditSnooze == Edit /\ snooze' \in Snoozes \ {snooze}
              /\ UNCHANGED <<user, project, roster, priors, late, inv>>
EditRoster == Edit /\ roster' \in Rosters \ {roster}
              /\ UNCHANGED <<user, project, snooze, priors, late, inv>>
\* A calibration of another process activates a prior snapshot.
EditPriors == Edit /\ priors' \in Priors \ {priors}
              /\ UNCHANGED <<user, project, snooze, roster, late, inv>>
Expire == /\ Active /\ ~late /\ late' = TRUE
          /\ UNCHANGED <<user, project, snooze, roster, priors, edits, inv>>

\* The skills muted at every moment since validation began, and whether the
\* hook has been in shadow at every moment since it was about to print.
MutedNow == IF snooze.all THEN Skills ELSE snooze.skills
InShadow == inv.pc # "idle" /\ Readable /\ Current.hook_mode = 0
Watch ==
    since' = [muted |-> IF inv.pc # "validate" /\ inv'.pc = "validate"
                        THEN MutedNow' ELSE since.muted \cap MutedNow',
              shadow |-> IF inv.pc # "emit" /\ inv'.pc = "emit"
                         THEN InShadow' ELSE since.shadow /\ InShadow']

Step == \/ BeginRank \/ BeginHook \/ Load \/ SelectSource
        \/ IngestNormalized \/ IngestTranscript \/ IngestHook \/ AnchorTask \/ LoadRoster
        \/ Explicit \/ ExplicitPolicy \/ ExplicitRoster
        \/ Admit \/ Retrieve \/ Render \/ Preview \/ Reuse \/ Send \/ Wide \/ Rerank
        \/ ValidateRoster \/ ValidateSnoozes \/ ValidatePolicy
        \/ Finish \/ EmitCli \/ EmitHook
Beside == EditUser \/ EditProject \/ EditSnooze \/ EditRoster \/ EditPriors \/ Expire
Next == (Step \/ Beside) /\ Watch
Spec == Init /\ [][Next]_vars

-----------------------------------------------------------------------------
(* Properties.                                                             *)

Advice == {inv.skills[i] : i \in DOMAIN inv.skills}

\* Advice that is printed names no skill that was snoozed at every moment since
\* its validation began, none the policy it used excludes, none that was not
\* invocable or was proven loaded when the roster was read; and the hook prints
\* nothing when it was in shadow ever since it was about to
\* (validate_advisory_publication, hook_claude_command).
AdviceIsWelcome ==
    inv.pc = "done" =>
      /\ inv.doc = "ranked" =>
           /\ Advice \cap (since.muted \cup Excluded \cup inv.cmd.proven) = {}
           /\ \A s \in Advice : inv.seen[s] \in {"v1", "v2"}
      /\ inv.cmd.channel = "hook" /\ since.shadow => Advice = {}

\* What --why-not says of a skill is what became of it: one that is suggested
\* was excluded nowhere, and one that is not was excluded somewhere.  Skills
\* that were loaded without being proven present are left out: the trace counts
\* them as loaded although the ranking does not.
Explained(s) == (s \in Advice) <=> (Trace(s) = "published")
TraceAgreesOnUnloaded ==
    inv.pc = "validate" /\ inv.doc = "ranked" =>
      \A s \in Skills \ (inv.cmd.loads \ inv.cmd.proven) : Explained(s)

Passes == inv.pc = "policy" /\ inv'.pc = "finish"

\* Policy still holds when it is used, though it is read again at every step.
\* A request goes out under the consent, the destination and the disclosure
\* limits its context was rendered with, though each send refreshes the receipt
\* the next one is compared with (authorize_send); and a decision is published
\* under the policy it was made with: every advisory field for one that sent
\* nothing, and the fields the send compares otherwise
\* (validate_advisory_publication; the remaining ones are
\* PublishedUnderItsPolicy, which does not hold).
Disclosed == {"provider", "endpoint", "model", "profile", "no_tools", "messages",
              "budget", "exclude", "roster_roots"}
PolicyStillHolds ==
    [][/\ (inv'.pc \in {"wide", "reranked"} /\ inv.pc \in {"ready", "rerank"} /\ inv'.sent)
          => /\ Consent(inv.cmd.flags, Current) = "authorized"
             /\ \A f \in Disclosed : Current[f] = inv.used[f]
       /\ Passes => \A f \in (IF inv.sent THEN ADVISORY \cap ADMISSION ELSE ADVISORY) :
                      Current[f] = inv.used[f]]_vars

\* docs/config-contract.md: a result is withheld when provider, account, top,
\* shortlist, gate, fits, weights, exclusions or roster roots changed since.
PublishedUnderItsPolicy ==
    [][Passes => \A f \in ADVISORY : Current[f] = inv.used[f]]_vars

\* What a repository's own configuration can do to its user: a policy that is
\* valid with the project's file consents to no more, sends no more and to
\* nobody else, reads no other transcripts, injects no more advice and excludes
\* no less than the same policy without it (KEY_SPECS, widens).
ProjectNeverWidens ==
    inv.pc = "load" /\ Readable =>
      LET alone == Resolve(<<user, <<>>, Environment, inv.cmd.cli>>)
      IN  /\ \A k \in {"network", "endpoint", "provider", "account", "model", "hook_mode",
                        "transcript_roots", "timeout"} : Current[k] = alone[k]
          /\ \A k \in {"profile", "messages", "budget", "notification_turns"} :
               (\A e \in Range(inv.cmd.cli \o Environment) : e.key # k) => Current[k] <= alone[k]
          /\ alone.no_tools = 1 => Current.no_tools = 1
          /\ alone.exclude \subseteq Current.exclude
=============================================================================
