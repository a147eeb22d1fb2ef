------------------------------- MODULE MCRank -------------------------------
(* One invocation of the ranking, from any of the commands below, with its  *)
(* saved case and its replays, while the user's file, the project's file,   *)
(* the snoozes, the roster or the priors change once at any step.           *)
EXTENDS Replay, TLC

Entry(k, v) == [key |-> k, value |-> v]

\* The built-in policy: no network, tool text allowed, one suggestion of two.
MCDefault == [k \in DOMAIN KEY_SPECS |->
   CASE k = "no_tools" -> 0 [] k = "messages" -> 1 [] k = "profile" -> 1
     [] k \in {"exclude", "roster_roots", "transcript_roots"} -> {}
     [] k = "top" -> 1 [] k = "shortlist" -> 2 [] OTHER -> 0]

\* The user's file: consent, thresholds, an exclusion with an advisory hook,
\* no consent, and weighted priors with a longer list.
On == <<Entry("network", 1)>>
MCUser == {On, On \o <<Entry("gate", 1), Entry("fits", 1)>>,
           On \o <<Entry("exclude", {1}), Entry("hook_mode", 1)>>,
           <<Entry("no_tools", 1)>>,
           On \o <<Entry("w_prior", 1), Entry("top", 2)>>}

\* The project's file: none, one that would allow tool text, one that narrows.
MCProject == {<<>>, <<Entry("no_tools", 0)>>, <<Entry("exclude", {2}), Entry("messages", 0)>>}
MCEnvironment == <<Entry("api_key", 1)>>

\* Skills that were loaded are proven present but for the second.
Command(ch, fl, rq, ex, ld, ca) ==
   [channel |-> ch, flags |-> fl, cli |-> <<>>, request |-> rq, excludes |-> ex,
    loads |-> ld, proven |-> ld \ {2}, cached |-> ca]
MCCommands ==
   {Command("cli", {}, None, {}, {}, FALSE), Command("cli", {}, None, {}, {1, 2}, TRUE),
    Command("cli", {"dry_run"}, None, {}, {}, FALSE), Command("cli", {}, 1, {}, {}, FALSE),
    Command("cli", {"save_case"}, None, {}, {2}, FALSE),
    Command("cli", {"dry_run", "allow_network"}, None, {}, {}, FALSE),
    Command("hook", {}, None, {2}, {}, FALSE)}

MCRosters == {<<"v1", "v1", "absent">>, <<"v2", "v1", "absent">>, <<"v1", "v1", "v1">>,
              <<"absent", "restricted", "absent">>}
MCPriors == {<<0, 1, 0>>}
MCSnoozes == {[all |-> FALSE, skills |-> {}], [all |-> FALSE, skills |-> {1}],
              [all |-> TRUE, skills |-> {}]}

\* One option of the recorded policy replaced at a time.
MCOverrides == {[Recorded EXCEPT ![k] = v] : k \in {"gate", "fits"}, v \in {0, 1}}
               \cup {[Recorded EXCEPT !.top = v] : v \in {1, 2}}
               \cup {[Recorded EXCEPT !.w_fit = 1]}
=============================================================================
