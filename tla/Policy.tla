------------------------------- MODULE Policy -------------------------------
(***************************************************************************)
(* The layered configuration of src/src/config.rs and the effect policy of *)
(* src/src/privacy/mod.rs.  A layer is the sequence of entries [key, value]*)
(* its file, environment or command line holds; the built-in value of each *)
(* setting is Default.  Counts, thresholds, modes and booleans are numbers *)
(* in the order the code compares them, lists are sets, and an entry that  *)
(* does not parse as its kind has the value Bad.                           *)
(***************************************************************************)
EXTENDS Integers, Sequences, FiniteSets

CONSTANTS Bad, MAX_LAYER_ENTRIES, Default

\* What each layer may do with a key: allowed, restrict only, forbidden.
KEY_SPECS ==
    [network       |-> <<"a", "f", "f", "f">>, reserved  |-> <<"f", "f", "f", "f">>,
     api_key       |-> <<"f", "f", "a", "f">>, endpoint  |-> <<"f", "f", "a", "f">>,
     provider      |-> <<"a", "f", "a", "f">>, api_token |-> <<"f", "f", "a", "f">>,
     account       |-> <<"f", "f", "a", "f">>, model     |-> <<"a", "f", "a", "f">>,
     hook_mode     |-> <<"a", "f", "f", "r">>, notification_turns |-> <<"a", "r", "f", "f">>,
     profile       |-> <<"a", "r", "f", "a">>, no_tools  |-> <<"a", "r", "f", "r">>,
     messages      |-> <<"a", "r", "a", "a">>, budget    |-> <<"a", "r", "a", "a">>,
     transcript_roots |-> <<"a", "f", "f", "f">>,
     top           |-> <<"a", "a", "a", "a">>, shortlist |-> <<"a", "a", "a", "a">>,
     gate          |-> <<"a", "a", "a", "a">>, fits      |-> <<"a", "a", "a", "a">>,
     w_fit         |-> <<"a", "a", "f", "f">>, w_prior   |-> <<"a", "a", "f", "f">>,
     w_phase       |-> <<"a", "a", "f", "f">>, timeout   |-> <<"a", "f", "a", "a">>,
     exclude       |-> <<"a", "a", "f", "f">>, roster_roots |-> <<"a", "a", "f", "f">>]

Keys == DOMAIN KEY_SPECS
Credentials == {"api_key", "api_token"}
Settings == Keys \ (Credentials \cup {"reserved"})
Unions == {"exclude", "roster_roots"}
Cloudflare == 1   \* the other provider is 0
CLOUDFLARE_MODEL == 1

Rule(key, n) == KEY_SPECS[key][n]

\* The settings that are numbers; typed_value gives a value of its key's kind
\* and range, a rank size from 1 up.
Numbers == {"network", "hook_mode", "notification_turns", "profile", "no_tools", "messages",
            "budget", "top", "shortlist", "gate", "fits", "w_fit", "w_prior", "w_phase", "timeout"}
Typed(key, value) == /\ key \in Numbers => value \in Int
                     /\ key = "no_tools" => value \in {0, 1}
                     /\ key \in {"top", "shortlist"} => value >= 1

ASSUME PolicyAssumption == \A key \in Numbers : Typed(key, Default[key])

-----------------------------------------------------------------------------
(* One layer.                                                              *)

\* The first entry of each known key; a repeated key is an issue even when its
\* first occurrence was itself refused.
First(entries, key) == CHOOSE i \in DOMAIN entries :
                         /\ entries[i].key = key
                         /\ \A j \in 1 .. i - 1 : entries[j].key # key
Named(entries) == {entries[i].key : i \in DOMAIN entries} \cap Keys

\* check_rule and typed_value of one key of layer n.
Accepted(n, entries, key) ==
    Rule(key, n) # "f" /\ entries[First(entries, key)].value # Bad

\* A value of the Cloudflare account or token is judged only once the provider
\* is known (validate_environment).
Deferred == {"account", "api_token"}

LayerIssues(n, entries) ==
    {<<n, "unknown">> : i \in {j \in DOMAIN entries : entries[j].key \notin Keys}}
    \cup {<<n, key>> : key \in {k \in Named(entries) :
            \/ Cardinality({i \in DOMAIN entries : entries[i].key = k}) > 1
            \/ Rule(k, n) = "f"
            \/ entries[First(entries, k)].value = Bad /\ ~(n = 3 /\ k \in Deferred)}}
    \cup IF Len(entries) > MAX_LAYER_ENTRIES THEN {<<n, "layer">>} ELSE {}

CloudflareIssues(environment) ==
    {<<3, key>> : key \in {k \in Named(environment) \cap Deferred :
                             environment[First(environment, k)].value = Bad}}

\* validate_entries: nothing of a layer with too many entries is kept.
Validated(n, entries) ==
    [key \in {k \in Named(entries) :
                Accepted(n, entries, k) /\ Len(entries) <= MAX_LAYER_ENTRIES}
       |-> entries[First(entries, key)].value]

-----------------------------------------------------------------------------
(* The four layers merged, lowest first.                                   *)

\* True when v allows more disclosure or authority than what is in force; an
\* unordered key fails closed.
WidensByValue(key, current, v) ==
    key \in {"hook_mode", "notification_turns", "profile", "messages", "budget", "no_tools"} /\ v > current
Widens(key, current, v) ==
    CASE key \in {"hook_mode", "notification_turns", "profile", "messages", "budget"} -> v > current
      [] key = "no_tools" -> current = 1 /\ v = 0
      [] OTHER -> TRUE

Refused(key, n, current, v) == Rule(key, n) = "r" /\ Widens(key, current, v)

\* What layer n makes of the value below it.
Over(valid, key, n, below) ==
    IF key \notin DOMAIN valid[n] \/ Refused(key, n, below, valid[n][key]) THEN below
    ELSE IF key \in Unions THEN below \cup valid[n][key]
    ELSE valid[n][key]

\* The built-in value of key, and its value once each layer is applied: layer n
\* finds the n-th of them.
Applied(valid, key) ==
    LET byUser == Over(valid, key, 1, Default[key])
        byProject == Over(valid, key, 2, byUser)
        byEnvironment == Over(valid, key, 3, byProject)
    IN  <<Default[key], byUser, byProject, byEnvironment, Over(valid, key, 4, byEnvironment)>>

MergeIssues(valid) ==
    UNION {{<<n, key>> : key \in {k \in Settings \cap DOMAIN valid[n] :
                                    Refused(k, n, Applied(valid, k)[n], valid[n][k])}}
             : n \in 1 .. 4}

SetBy(valid, key) == \E n \in 1 .. 4 : key \in DOMAIN valid[n]

\* merge: the provider's own model and route are filled in after all layers.
Merge(valid) ==
    LET eff == [key \in Settings |-> Applied(valid, key)[5]]
    IN  IF eff.provider = Cloudflare /\ ~SetBy(valid, "model")
        THEN [eff EXCEPT !.model = CLOUDFLARE_MODEL] ELSE eff

Conflicts(eff) ==
    {key \in {"top", "model"} :
       \/ key = "top" /\ eff.top > eff.shortlist
       \/ key = "model" /\ eff.provider = Cloudflare /\ eff.model # CLOUDFLARE_MODEL}

\* Every problem of every layer; any one refuses the whole policy.
Issues(sources) ==
    LET valid == [n \in 1 .. 4 |-> Validated(n, sources[n])]
    IN  UNION {LayerIssues(n, sources[n]) : n \in 1 .. 4}
        \cup MergeIssues(valid)
        \cup {<<0, key>> : key \in Conflicts(Merge(valid))}
        \cup (IF Merge(valid).provider = Cloudflare THEN CloudflareIssues(sources[3]) ELSE {})

\* resolve and reresolve_files: the file layers may change, the environment
\* and the command line are the invocation's.
Resolve(sources) == Merge([n \in 1 .. 4 |-> Validated(n, sources[n])])
Valid(sources) == Issues(sources) = {}

\* The credential of the selected provider; an empty variable is absent.
Credential(sources) ==
    LET env == Validated(3, sources[3])
        key == IF Resolve(sources).provider = Cloudflare THEN "api_token" ELSE "api_key"
    IN  key \in DOMAIN env /\ env[key] = 1

-----------------------------------------------------------------------------
(* Effects and consent (src/src/privacy/mod.rs, src/src/effects.rs).       *)

FlagConflicts(flags) ==
    \/ {"offline", "allow_network"} \subseteq flags
    \/ {"dry_run", "allow_network"} \subseteq flags
    \/ {"save_case", "dry_run"} \subseteq flags
    \/ {"save_case", "no_persist"} \subseteq flags

ResponseCache(flags) == flags \cap {"dry_run", "no_persist", "no_cache"} = {}
Ledger(flags) == flags \cap {"dry_run", "no_persist", "no_ledger"} = {}

Consent(flags, eff) ==
    CASE "offline" \in flags -> "offline"
      [] "offline" \notin flags /\ "dry_run" \in flags -> "dry-run"
      [] flags \cap {"offline", "dry_run"} = {} /\ ("allow_network" \in flags \/ eff.network = 1) -> "authorized"
      [] OTHER -> "not-authorized"

\* admit_provider_attempt: consent is judged before the credential.
AdmitAttempt(receipt) == receipt.network_consent = "authorized" /\ receipt.credential

-----------------------------------------------------------------------------
(* Receipts: what an invocation's policy was, compared at its boundaries.  *)

ADMISSION == {"network_consent", "credential", "provider", "account", "endpoint", "model",
              "profile", "no_tools", "messages", "budget", "transcript_roots", "shortlist",
              "exclude", "roster_roots"}
ADVISORY == {"provider", "account", "top", "shortlist", "gate", "fits", "w_fit", "w_prior",
             "w_phase", "exclude", "roster_roots"}
Boundary(b) ==
    CASE b = "admission" -> ADMISSION
      [] b = "advisory" -> ADVISORY
      [] b = "explicit" -> {"roster_roots"}
      [] b = "hook-advisory" -> ADVISORY \cup {"hook_mode"}
      [] b = "hook-explicit" -> {"roster_roots", "hook_mode"}

Receipt(flags, eff, credential) ==
    [effective |-> eff, network_consent |-> Consent(flags, eff), credential |-> credential]

\* The account and the native route count only for the provider they serve.
Account(eff) == IF eff.provider = Cloudflare THEN eff.account ELSE Default.account
Field(receipt, f) ==
    CASE f \in {"network_consent", "credential"} -> receipt[f]
      [] f = "account" -> Account(receipt.effective)
      [] f = "endpoint" -> <<receipt.effective.provider, receipt.effective.endpoint,
                             Account(receipt.effective)>>
      [] OTHER -> receipt.effective[f]
ChangedNever(old, new, b) == {}
Changed(old, new, b) == {f \in Boundary(b) : Field(old, f) # Field(new, f)}

\* policy_fingerprint: every effective value.
Fingerprint(eff) == [eff EXCEPT !.account = Account(eff)]

=============================================================================
