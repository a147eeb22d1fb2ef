----------------------------- MODULE RankProofs -----------------------------
(***************************************************************************)
(* Theorems about Rank, for every set of skills, every configuration the   *)
(* files, the environment and the command lines may hold, every roster,    *)
(* snooze and prior, and every number of edits.                            *)
(*                                                                         *)
(* First what a project's layer does to the merged configuration, and that *)
(* ranking picks among the eligible.  Then the inductive invariant: what   *)
(* the files hold (WorldInv), the record and its point (ShapeInv,          *)
(* RecordInv), that the policy in use and the receipt agree on what a send *)
(* compares (PolicyInv), that candidates, shortlist and advice are among   *)
(* the welcome (AdviceInv), and that what has been muted or in shadow      *)
(* since still is (SinceInv).  Last its extension (AccountInv), that a     *)
(* decision is what the stages make of the recorded answers, from which    *)
(* the trace, the saved case and its replays agree.                        *)
(***************************************************************************)
EXTENDS Replay, FiniteSetTheorems, TLAPS

-----------------------------------------------------------------------------
(* One layer                                                               *)

\* What the configuration's layers are assumed to be.
IsLayer(entries) ==
  /\ entries \in Seq(Range(entries))
  /\ \A entry \in Range(entries) : entry.value # Bad => Typed(entry.key, entry.value)

\* Among the occurrences of a key there is a first one (validate_entries).
LEMMA FirstNamesKey ==
  ASSUME NEW entries, entries \in Seq(Range(entries)), NEW key \in Named(entries)
  PROVE  /\ First(entries, key) \in DOMAIN entries
         /\ entries[First(entries, key)].key = key
<1> DEFINE Places == {i \in DOMAIN entries : entries[i].key = key}
<1>1. Places \subseteq Nat /\ Places # {} /\ DOMAIN entries = 1 .. Len(entries) /\ Len(entries) \in Nat
  BY DEF Named
<1>2. \E i \in Places : \A j \in Places : ~(<<j, i>> \in OpToRel(<, Nat))
  BY <1>1, NatLessThanWellFounded, WFMin
<1>3. PICK i \in Places : \A j \in Places : ~(j < i)
  BY <1>1, <1>2 DEF OpToRel
<1>4. /\ i \in DOMAIN entries /\ entries[i].key = key
      /\ \A j \in 1 .. i - 1 : entries[j].key # key
  BY <1>1, <1>3
<1>5. QED
  BY <1>4 DEF First

\* An entry that validation keeps is allowed in its layer, read and of its kind.
LEMMA ValidatedEntry ==
  ASSUME NEW n, NEW entries, IsLayer(entries), NEW key \in DOMAIN Validated(n, entries)
  PROVE  /\ Rule(key, n) # "f" /\ key \in Named(entries)
         /\ Typed(key, Validated(n, entries)[key])
<1>1. key \in Named(entries) /\ Accepted(n, entries, key)
  BY DEF Validated
<1>2. Validated(n, entries)[key] = entries[First(entries, key)].value
  BY DEF Validated
<1>3. /\ First(entries, key) \in DOMAIN entries /\ entries[First(entries, key)].key = key
  BY <1>1, FirstNamesKey DEF IsLayer
<1>4. entries[First(entries, key)] \in Range(entries)
  BY <1>3 DEF Range
<1>5. QED
  BY <1>1, <1>2, <1>3, <1>4 DEF Accepted, IsLayer

-----------------------------------------------------------------------------
(* The merged layers                                                       *)

Kept(sources) == [n \in 1 .. 4 |-> Validated(n, sources[n])]

AreLayers(sources) == \A n \in 1 .. 4 : IsLayer(sources[n])

\* A layer leaves a key that it may not set as it finds it (check_rule).
LEMMA ForbiddenStands ==
  ASSUME NEW sources, AreLayers(sources), NEW n \in 1 .. 4, NEW key, Rule(key, n) = "f", NEW below
  PROVE  /\ key \notin DOMAIN Kept(sources)[n]
         /\ Over(Kept(sources), key, n, below) = below
<1>1. key \notin DOMAIN Validated(n, sources[n])
  BY ValidatedEntry DEF AreLayers
<1>2. QED
  BY <1>1 DEF Kept, Over

\* So does a layer that does not name it.
LEMMA UnnamedStands ==
  ASSUME NEW sources, NEW n \in 1 .. 4, NEW key, key \notin Named(sources[n]), NEW below
  PROVE  Over(Kept(sources), key, n, below) = below
BY DEF Kept, Over, Validated

\* What a layer makes of a number is a number.
LEMMA OverTyped ==
  ASSUME NEW sources, AreLayers(sources), NEW n \in 1 .. 4, NEW key \in Numbers,
         NEW below, Typed(key, below)
  PROVE  Typed(key, Over(Kept(sources), key, n, below))
<1>1. key \in DOMAIN Kept(sources)[n] => Typed(key, Kept(sources)[n][key])
  BY ValidatedEntry DEF AreLayers, Kept
<1>2. key \notin Unions
  BY DEF Numbers, Unions
<1>3. QED
  BY <1>1, <1>2 DEF Over

\* Every setting but the model is what the last layer leaves of it.
LEMMA ResolvedValue ==
  ASSUME NEW sources, NEW key \in Settings \ {"model"}
  PROVE  Resolve(sources)[key] = Applied(Kept(sources), key)[5]
BY DEF Resolve, Merge, Kept, Settings

\* A resolved number is a number (typed_value, EffectiveConfig).
LEMMA ResolvedTyped ==
  ASSUME NEW sources, AreLayers(sources), NEW key \in Numbers
  PROVE  Typed(key, Resolve(sources)[key])
<1> DEFINE valid == Kept(sources)
<1> DEFINE byUser == Over(valid, key, 1, Default[key])
<1> DEFINE byProject == Over(valid, key, 2, byUser)
<1> DEFINE byEnvironment == Over(valid, key, 3, byProject)
<1> DEFINE byCli == Over(valid, key, 4, byEnvironment)
<1>1. Typed(key, byUser)
  BY OverTyped, PolicyAssumption
<1>2. Typed(key, byProject)
  <2> HIDE DEF byUser
  <2> QED BY <1>1, OverTyped
<1>3. Typed(key, byEnvironment)
  <2> HIDE DEF byProject
  <2> QED BY <1>2, OverTyped
<1>4. Typed(key, byCli)
  <2> HIDE DEF byEnvironment
  <2> QED BY <1>3, OverTyped
<1>5. key \in Settings \ {"model"}
  BY DEF Settings, Keys, Credentials, KEY_SPECS, Numbers
<1>6. Resolve(sources)[key] = byCli
  BY <1>5, ResolvedValue DEF Applied
<1>7. QED
  BY <1>4, <1>6

-----------------------------------------------------------------------------
(* The project's file                                                      *)

\* The layers of an invocation.
Sources(u, p, c) == <<u, p, Environment, c>>

\* Keys that the project's file may not set keep the value they have without it.
LEMMA ProjectForbidden ==
  ASSUME NEW u, NEW p, NEW c, AreLayers(Sources(u, p, c)), AreLayers(Sources(u, <<>>, c)),
         NEW key \in Settings \ {"model"}, Rule(key, 2) = "f"
  PROVE  Resolve(Sources(u, p, c))[key] = Resolve(Sources(u, <<>>, c))[key]
<1> DEFINE with == Sources(u, p, c)  alone == Sources(u, <<>>, c)
<1>1. \A below : Over(Kept(with), key, 2, below) = below /\ Over(Kept(alone), key, 2, below) = below
  BY ForbiddenStands
<1>2. \A n \in {1, 3, 4} : Kept(with)[n] = Kept(alone)[n]
  BY DEF Kept, Sources
<1>3. \A n \in {1, 3, 4} : \A below : Over(Kept(with), key, n, below) = Over(Kept(alone), key, n, below)
  BY <1>2 DEF Over
<1>4. Applied(Kept(with), key)[5] = Applied(Kept(alone), key)[5]
  <2> HIDE DEF with, alone
  <2> QED BY <1>1, <1>3 DEF Applied
<1>5. QED
  BY <1>4, ResolvedValue

\* So does the model, which the project's file neither sets nor marks as set.
LEMMA ProjectForbiddenModel ==
  ASSUME NEW u, NEW p, NEW c, AreLayers(Sources(u, p, c)), AreLayers(Sources(u, <<>>, c))
  PROVE  Resolve(Sources(u, p, c)).model = Resolve(Sources(u, <<>>, c)).model
<1> DEFINE with == Sources(u, p, c)  alone == Sources(u, <<>>, c)
<1>1. Rule("model", 2) = "f" /\ Rule("provider", 2) = "f"
  BY DEF Rule, KEY_SPECS
<1>2. \A below : Over(Kept(with), "model", 2, below) = below /\ Over(Kept(alone), "model", 2, below) = below
  BY <1>1, ForbiddenStands
<1>3. \A n \in {1, 3, 4} : Kept(with)[n] = Kept(alone)[n]
  BY DEF Kept, Sources
<1>4. \A n \in {1, 3, 4} : \A below :
        Over(Kept(with), "model", n, below) = Over(Kept(alone), "model", n, below)
  BY <1>3 DEF Over
<1>5. Applied(Kept(with), "model")[5] = Applied(Kept(alone), "model")[5]
  <2> HIDE DEF with, alone
  <2> QED BY <1>2, <1>4 DEF Applied
<1>6. SetBy(Kept(with), "model") <=> SetBy(Kept(alone), "model")
  <2>1. "model" \notin DOMAIN Kept(with)[2] /\ "model" \notin DOMAIN Kept(alone)[2]
    BY <1>1, ForbiddenStands
  <2> HIDE DEF with, alone
  <2>2. QED
    BY <1>3, <2>1 DEF SetBy
<1>7. Resolve(with).provider = Resolve(alone).provider
  <2>1. "provider" \in Settings \ {"model"}
    BY DEF Settings, Keys, Credentials, KEY_SPECS
  <2>2. QED
    BY <1>1, <2>1, ProjectForbidden
<1>8. /\ "model" \in Settings /\ "provider" \in Settings
  BY DEF Settings, Keys, Credentials, KEY_SPECS
<1>9. ASSUME NEW sources
      PROVE  Resolve(sources).model =
               IF Resolve(sources).provider = Cloudflare /\ ~SetBy(Kept(sources), "model")
               THEN CLOUDFLARE_MODEL ELSE Applied(Kept(sources), "model")[5]
  BY <1>8 DEF Resolve, Merge, Kept
<1>10. QED
  <2> HIDE DEF with, alone
  <2>1. Resolve(with).model = Resolve(alone).model
    BY <1>5, <1>6, <1>7, <1>9
  <2>2. QED
    BY <2>1 DEF with, alone

\* A number that the project's file may only lower, and no later layer sets, is
\* not raised by it (widens).
LEMMA ProjectNarrows ==
  ASSUME NEW u, NEW p, NEW c, AreLayers(Sources(u, p, c)), AreLayers(Sources(u, <<>>, c)),
         NEW key \in {"profile", "messages", "budget", "notification_turns"},
         key \notin Named(Environment), key \notin Named(c)
  PROVE  Resolve(Sources(u, p, c))[key] <= Resolve(Sources(u, <<>>, c))[key]
<1> DEFINE with == Sources(u, p, c)  alone == Sources(u, <<>>, c)
           byUser == Over(Kept(with), key, 1, Default[key])
<1>1. key \in Numbers /\ key \in Settings \ {"model"} /\ Rule(key, 2) = "r" /\ key \notin Unions
  BY DEF Numbers, Settings, Keys, Credentials, KEY_SPECS, Rule, Unions
<1>2. \A n \in {3, 4} : \A below :
        /\ Over(Kept(with), key, n, below) = below
        /\ Over(Kept(alone), key, n, below) = below
  BY UnnamedStands DEF Sources
<1>3. \A below : Over(Kept(alone), key, 2, below) = below
  <2>1. key \notin Named(alone[2])
    BY DEF Named, Sources
  <2>2. QED
    BY <2>1, UnnamedStands
<1>4. Over(Kept(alone), key, 1, Default[key]) = byUser
  <2>1. Kept(with)[1] = Kept(alone)[1]
    BY DEF Kept, Sources
  <2>2. QED
    BY <2>1 DEF Over
<1>5. byUser \in Int
  <2>1. Typed(key, byUser)
    BY <1>1, OverTyped, PolicyAssumption
  <2>2. QED
    BY <1>1, <2>1 DEF Typed
<1>6. key \in DOMAIN Kept(with)[2] => Kept(with)[2][key] \in Int
  BY <1>1, ValidatedEntry DEF AreLayers, Kept, Typed
<1>7. Over(Kept(with), key, 2, byUser) <= byUser
  <2> HIDE DEF byUser, with
  <2> QED BY <1>1, <1>5, <1>6 DEF Over, Refused, Widens
<1>8. /\ Resolve(with)[key] = Over(Kept(with), key, 2, byUser)
      /\ Resolve(alone)[key] = byUser
  <2>1. /\ Resolve(with)[key] = Applied(Kept(with), key)[5]
        /\ Resolve(alone)[key] = Applied(Kept(alone), key)[5]
    BY <1>1, ResolvedValue
  <2> HIDE DEF with, alone
  <2>2. QED
    BY <1>2, <1>3, <1>4, <2>1 DEF Applied
<1>9. QED
  BY <1>7, <1>8

\* Tool text that is withheld without the project's file is withheld with it,
\* whatever the command line then asks (widens).
LEMMA ProjectWithholdsTools ==
  ASSUME NEW u, NEW p, NEW c, AreLayers(Sources(u, p, c)), AreLayers(Sources(u, <<>>, c)),
         Resolve(Sources(u, <<>>, c)).no_tools = 1
  PROVE  Resolve(Sources(u, p, c)).no_tools = 1
<1> DEFINE with == Sources(u, p, c)  alone == Sources(u, <<>>, c)
           byUser == Over(Kept(with), "no_tools", 1, Default["no_tools"])
           byProject == Over(Kept(with), "no_tools", 2, byUser)
<1>1. /\ "no_tools" \in Numbers /\ "no_tools" \in Settings \ {"model"} /\ "no_tools" \notin Unions
      /\ Rule("no_tools", 2) = "r" /\ Rule("no_tools", 3) = "f" /\ Rule("no_tools", 4) = "r"
  BY DEF Numbers, Settings, Keys, Credentials, KEY_SPECS, Rule, Unions
<1>2. \A below : /\ Over(Kept(with), "no_tools", 3, below) = below
                 /\ Over(Kept(alone), "no_tools", 3, below) = below
  BY <1>1, ForbiddenStands
<1>3. \A below : Over(Kept(alone), "no_tools", 2, below) = below
  <2>1. "no_tools" \notin Named(alone[2])
    BY DEF Named, Sources
  <2>2. QED
    BY <2>1, UnnamedStands
<1>4. Kept(with)[1] = Kept(alone)[1] /\ Kept(with)[4] = Kept(alone)[4]
  BY DEF Kept, Sources
<1>5. /\ Over(Kept(alone), "no_tools", 1, Default["no_tools"]) = byUser
      /\ \A below : Over(Kept(alone), "no_tools", 4, below) = Over(Kept(with), "no_tools", 4, below)
  BY <1>4 DEF Over
<1>6. byUser \in {0, 1}
  <2>1. Typed("no_tools", byUser)
    BY <1>1, OverTyped, PolicyAssumption
  <2>2. QED
    BY <2>1 DEF Typed
<1>7. \A n \in {2, 4} : "no_tools" \in DOMAIN Kept(with)[n] => Kept(with)[n]["no_tools"] \in {0, 1}
  BY ValidatedEntry DEF AreLayers, Kept, Typed
<1>8. /\ byProject \in {0, 1}
      /\ byUser = 1 => byProject = 1
  <2> HIDE DEF byUser, with
  <2> QED BY <1>1, <1>6, <1>7 DEF Over, Refused, Widens
<1>9. Over(Kept(with), "no_tools", 4, byUser) = 1 => Over(Kept(with), "no_tools", 4, byProject) = 1
  <2> HIDE DEF byUser, byProject, with
  <2> QED BY <1>1, <1>6, <1>7, <1>8 DEF Over, Refused, Widens
<1>10. /\ Resolve(with).no_tools = Over(Kept(with), "no_tools", 4, byProject)
       /\ Resolve(alone).no_tools = Over(Kept(with), "no_tools", 4, byUser)
  <2>1. /\ Resolve(with)["no_tools"] = Applied(Kept(with), "no_tools")[5]
        /\ Resolve(alone)["no_tools"] = Applied(Kept(alone), "no_tools")[5]
    BY <1>1, ResolvedValue
  <2> HIDE DEF with, alone
  <2>2. QED
    BY <1>2, <1>3, <1>5, <2>1 DEF Applied
<1>11. QED
  BY <1>9, <1>10

\* The project's file adds to the exclusions and removes none (union_into).
LEMMA ProjectExcludes ==
  ASSUME NEW u, NEW p, NEW c, AreLayers(Sources(u, p, c)), AreLayers(Sources(u, <<>>, c))
  PROVE  Resolve(Sources(u, <<>>, c)).exclude \subseteq Resolve(Sources(u, p, c)).exclude
<1> DEFINE with == Sources(u, p, c)  alone == Sources(u, <<>>, c)
           byUser == Over(Kept(with), "exclude", 1, Default["exclude"])
<1>1. /\ "exclude" \in Settings \ {"model"} /\ "exclude" \in Unions
      /\ Rule("exclude", 3) = "f" /\ Rule("exclude", 4) = "f"
  BY DEF Settings, Keys, Credentials, KEY_SPECS, Rule, Unions
<1>2. \A n \in {3, 4} : \A below : /\ Over(Kept(with), "exclude", n, below) = below
                                   /\ Over(Kept(alone), "exclude", n, below) = below
  BY <1>1, ForbiddenStands
<1>3. \A below : Over(Kept(alone), "exclude", 2, below) = below
  <2>1. "exclude" \notin Named(alone[2])
    BY DEF Named, Sources
  <2>2. QED
    BY <2>1, UnnamedStands
<1>4. Over(Kept(alone), "exclude", 1, Default["exclude"]) = byUser
  <2>1. Kept(with)[1] = Kept(alone)[1]
    BY DEF Kept, Sources
  <2>2. QED
    BY <2>1 DEF Over
<1>5. byUser \subseteq Over(Kept(with), "exclude", 2, byUser)
  <2> HIDE DEF byUser, with
  <2> QED BY <1>1 DEF Over
<1>6. /\ Resolve(with).exclude = Over(Kept(with), "exclude", 2, byUser)
      /\ Resolve(alone).exclude = byUser
  <2>1. /\ Resolve(with)["exclude"] = Applied(Kept(with), "exclude")[5]
        /\ Resolve(alone)["exclude"] = Applied(Kept(alone), "exclude")[5]
    BY <1>1, ResolvedValue
  <2> HIDE DEF with, alone
  <2>2. QED
    BY <1>2, <1>3, <1>4, <2>1 DEF Applied
<1>7. QED
  BY <1>5, <1>6

-----------------------------------------------------------------------------
(* The order of the advice                                                 *)

\* The place of s among S by descending utility u, then ascending id.
Place(S, u, s) == Cardinality({t \in S : u[t] > u[s] \/ (u[t] = u[s] /\ t < s)}) + 1

\* Of two numbers Min is the smaller.
LEMMA LeastOfTwo ==
  ASSUME NEW a \in Int, NEW b \in Int
  PROVE  Min({a, b}) \in {a, b} /\ Min({a, b}) <= a /\ Min({a, b}) <= b
<1>1. \E x \in {a, b} : \A y \in {a, b} : x =< y
  OBVIOUS
<1>2. QED
  BY <1>1 DEF Min

\* Among finitely many candidates every place is taken: the order by descending
\* utility and then by id is total, so no two share a place (scoring, rank).
LEMMA EveryPlaceIsTaken ==
  ASSUME NEW S, IsFiniteSet(S), S \subseteq Int, NEW u \in [S -> Int], NEW i \in 1 .. Cardinality(S)
  PROVE  \E s \in S : Place(S, u, s) = i
<1> DEFINE Before(s) == {t \in S : u[t] > u[s] \/ (u[t] = u[s] /\ t < s)}
           place == [s \in S |-> Cardinality(Before(s)) + 1]
           N == Cardinality(S)
<1>1. N \in Nat
  BY FS_CardinalityType
<1>2. ASSUME NEW s \in S
      PROVE  /\ IsFiniteSet(Before(s)) /\ Cardinality(Before(s)) \in Nat
             /\ Cardinality(Before(s)) + 1 <= N
  <2>1. s \notin Before(s) /\ Before(s) \subseteq S \ {s}
    OBVIOUS
  <2>2. IsFiniteSet(S \ {s}) /\ Cardinality(S \ {s}) = N - 1
    BY FS_RemoveElement
  <2>3. IsFiniteSet(Before(s)) /\ Cardinality(Before(s)) <= N - 1
    <3> HIDE DEF Before, N
    <3> QED BY <2>1, <2>2, FS_Subset
  <2>4. QED
    BY <1>1, <2>3, FS_CardinalityType
<1>3. ASSUME NEW s \in S, NEW t \in S, s \in Before(t)
      PROVE  Cardinality(Before(s)) < Cardinality(Before(t))
  <2>1. Before(s) \cup {s} \subseteq Before(t) /\ s \notin Before(s)
    <3>1. u[s] \in Int /\ u[t] \in Int /\ s \in Int /\ t \in Int
      OBVIOUS
    <3>2. ASSUME NEW r \in Before(s)
          PROVE  r \in Before(t)
      <4>1. r \in S /\ r \in Int /\ u[r] \in Int /\ (u[r] > u[s] \/ (u[r] = u[s] /\ r < s))
        OBVIOUS
      <4>2. u[s] > u[t] \/ (u[s] = u[t] /\ s < t)
        BY <1>3
      <4>3. u[r] > u[t] \/ (u[r] = u[t] /\ r < t)
        BY <3>1, <4>1, <4>2
      <4>4. QED
        BY <4>1, <4>3
    <3>3. s \notin Before(s)
      BY <3>1
    <3>4. QED
      BY <1>3, <3>2, <3>3
  <2>2. Cardinality(Before(s) \cup {s}) = Cardinality(Before(s)) + 1
    <3> HIDE DEF Before
    <3> QED BY <1>2, <2>1, FS_AddElement
  <2>3. Cardinality(Before(s) \cup {s}) <= Cardinality(Before(t))
    <3> HIDE DEF Before
    <3> QED BY <1>2, <2>1, FS_Subset
  <2>4. QED
    <3> HIDE DEF Before
    <3> QED BY <1>2, <2>2, <2>3
<1>4. place \in Injection(S, 1 .. N)
  <2>1. place \in [S -> 1 .. N]
    <3> HIDE DEF Before, N
    <3> QED BY <1>1, <1>2
  <2>2. ASSUME NEW s \in S, NEW t \in S, s # t
        PROVE  place[s] # place[t]
    <3>1. s \in Before(t) \/ t \in Before(s)
      BY <2>2
    <3>2. QED
      <4> HIDE DEF Before
      <4> QED BY <1>2, <1>3, <3>1
  <2>3. QED
    <3> HIDE DEF place
    <3> QED BY <2>1, <2>2 DEF Injection, IsInjective
<1>5. IsFiniteSet(1 .. N) /\ Cardinality(1 .. N) = N
  BY <1>1, FS_Interval
<1>6. place \in Surjection(S, 1 .. N)
  <2> HIDE DEF place
  <2> QED BY <1>4, <1>5, FS_Injection
<1>7. PICK s \in S : place[s] = i
  <2> HIDE DEF place
  <2> QED BY <1>6 DEF Surjection
<1>8. QED
  BY <1>7 DEF Place

\* The cut is no longer than what it cuts.
LEMMA CutIsShort ==
  ASSUME NEW S, IsFiniteSet(S), NEW top \in Int
  PROVE  LET n == Min({top, Cardinality(S)})
         IN  /\ n \in {top, Cardinality(S)} /\ n \in Int
             /\ n <= Cardinality(S) /\ Cardinality(S) \in Nat
<1>1. Cardinality(S) \in Nat
  BY FS_CardinalityType
<1>2. /\ Min({top, Cardinality(S)}) \in {top, Cardinality(S)}
      /\ Min({top, Cardinality(S)}) <= Cardinality(S)
  <2>1. ASSUME NEW b \in Int
        PROVE  Min({top, b}) \in {top, b} /\ Min({top, b}) <= b
    BY LeastOfTwo, Zenon
  <2>2. QED
    BY <1>1, <2>1
<1>3. QED
  BY <1>1, <1>2

\* What is ranked is drawn from the eligible (rank cuts, it adds nothing).
LEMMA RankedAreEligible ==
  ASSUME NEW e, NEW delta, NEW policy, NEW eligible, IsFiniteSet(eligible), eligible \subseteq Int,
         \A s \in eligible : Utility(e, delta, policy, s) \in Int,
         policy.top \in Int
  PROVE  LET ranked == Ranked(e, delta, policy, eligible)
         IN  \A i \in DOMAIN ranked : ranked[i] \in eligible
<1> DEFINE place(s) == Cardinality({t \in eligible : Above(e, delta, policy, t, s)}) + 1
           n == Min({policy.top, Cardinality(eligible)})
           u == [s \in eligible |-> Utility(e, delta, policy, s)]
<1>1. n \in Int /\ n <= Cardinality(eligible) /\ Cardinality(eligible) \in Nat
  BY CutIsShort
<1>2. ASSUME NEW i \in 1 .. n
      PROVE  \E s \in eligible : place(s) = i
  <2>1. i \in 1 .. Cardinality(eligible)
    BY <1>1
  <2>2. u \in [eligible -> Int]
    OBVIOUS
  <2>3. PICK s \in eligible : Place(eligible, u, s) = i
    <3> HIDE DEF u
    <3> QED BY <2>1, <2>2, EveryPlaceIsTaken
  <2>4. {t \in eligible : u[t] > u[s] \/ (u[t] = u[s] /\ t < s)}
          = {t \in eligible : Above(e, delta, policy, t, s)}
    BY DEF Above
  <2>5. QED
    BY <2>3, <2>4 DEF Place
<1>3. Ranked(e, delta, policy, eligible) = [i \in 1 .. n |-> CHOOSE s \in eligible : place(s) = i]
  BY DEF Ranked
<1>4. QED
  <2> HIDE DEF place, n
  <2> QED BY <1>2, <1>3

-----------------------------------------------------------------------------
(* The inductive invariant                                                 *)

\* The points of an invocation: with a receipt, with a roster, while candidates
\* are ranked, while a decision is validated, and after it.
Ranking == {"retrieve", "render", "ready", "wide", "rerank", "reranked"}
Closing == {"validate", "snoozes", "policy", "finish"}
Judged == {"decide", "explicit", "explicit-roster"} \cup Ranking \cup Closing
Loaded == {"source", "ingest", "anchor", "roster"} \cup Judged
Closed == {"emit", "done"}

\* The policies that a pair of files can give an invocation.
Policies(c) ==
  {Resolved[u][p][c.cli] : u \in UserLayers, p \in ProjectLayers}

\* What the send boundary compares, the account apart.
Carried == ADMISSION \ {"network_consent", "credential", "account"}

WorldInv ==
  /\ user \in UserLayers /\ project \in ProjectLayers
  /\ snooze \in Snoozes /\ roster \in Rosters /\ priors \in [Skills -> Int]

Fields == DOMAIN Idle

ShapeInv == inv = [f \in Fields |-> inv[f]]

RecordInv ==
  /\ inv.pc \in {"idle", "load"} \cup Loaded \cup Closed
  /\ inv.pc # "idle" => inv.cmd \in Commands

\* The policy in use and the receipt are those of files as they were; a receipt
\* refreshed by a send kept every field that the send compares.
AfterSend == {"wide", "rerank", "reranked"} \cup Closing \cup Closed

PolicyInv ==
  /\ inv.sent => inv.pc \in AfterSend
  /\ inv.pc \in Loaded =>
       /\ \E used \in Policies(inv.cmd) : inv.used = used.effective
       /\ \E pol \in Policies(inv.cmd) :
            /\ inv.receipt = Receipt(inv.cmd.flags, pol.effective, pol.credential)
            /\ \A f \in Carried : pol.effective[f] = inv.used[f]
            /\ ~inv.sent => pol.effective = inv.used

\* The skills that may be advised: invocable, not excluded, not proven loaded and
\* not snoozed, by what the invocation read.
Welcome ==
  {s \in Skills : /\ inv.seen[s] \in {"v1", "v2"}
                  /\ s \notin Excluded /\ s \notin inv.cmd.proven
                  /\ ~inv.muted.all /\ s \notin inv.muted.skills}

AdviceInv ==
  /\ inv.pc \in Judged => inv.seen \in Rosters
  /\ inv.pc \in Ranking => inv.cands \subseteq Welcome
  /\ inv.pc \in {"rerank", "reranked"} => inv.short \subseteq inv.cands
  /\ inv.doc = "ranked" => inv.pc \in Closing \cup Closed /\ Advice \subseteq Welcome

\* What was muted since validation began is muted now; a decision that passed the
\* snoozes advises none of it; a hook in shadow prints nothing.
SinceInv ==
  /\ since.muted \subseteq MutedNow
  /\ since.shadow => InShadow
  /\ inv.doc = "ranked" /\ inv.pc \in {"policy", "finish"} \cup Closed =>
       Advice \cap since.muted = {}
  /\ inv.pc = "done" /\ inv.cmd.channel = "hook" /\ since.shadow => Advice = {}

IInv == WorldInv /\ ShapeInv /\ RecordInv /\ PolicyInv /\ AdviceInv /\ SinceInv

-----------------------------------------------------------------------------
(* Policies and receipts                                                   *)

\* The account of the environment, or the built-in one.
Account0 ==
  IF "account" \in DOMAIN Validated(3, Environment)
  THEN Validated(3, Environment)["account"] ELSE Default["account"]

\* The policy that the files give now is one that they can give.
LEMMA NowIsAPolicy ==
  ASSUME WorldInv, NEW c \in Commands
  PROVE  Now(c) \in Policies(c)
BY DEF WorldInv, Now, Policies

\* Of every policy the numbers are numbers, a shortlist has room for a skill, and
\* the account is the environment's.
LEMMA PolicyTyped ==
  ASSUME NEW c \in Commands, NEW pol \in Policies(c)
  PROVE  /\ \A key \in Numbers : pol.effective[key] \in Int
         /\ pol.effective.shortlist >= 1
         /\ pol.effective.account = Account0
<1>1. PICK u \in UserLayers, p \in ProjectLayers : pol = Resolved[u][p][c.cli]
  BY DEF Policies
<1> DEFINE sources == Sources(u, p, c.cli)
<1>2. pol.effective = Resolve(sources)
  BY <1>1 DEF Resolved, Sources
<1>3. AreLayers(sources)
  <2>1. {sources[n] : n \in 1 .. 4} \subseteq Layers
    BY DEF Layers, Sources
  <2>2. QED
    BY <2>1, RankAssumption DEF AreLayers, IsLayer
<1>4. /\ \A key \in Numbers : pol.effective[key] \in Int
      /\ pol.effective["shortlist"] >= 1
  <2>1. \A key \in Numbers : Typed(key, pol.effective[key])
    BY <1>2, <1>3, ResolvedTyped
  <2>2. QED
    BY <2>1 DEF Typed, Numbers
<1>5. pol.effective.account = Account0
  <2>1. /\ "account" \in Settings \ {"model"} /\ "account" \notin Unions
        /\ Rule("account", 1) = "f" /\ Rule("account", 2) = "f"
        /\ Rule("account", 3) = "a" /\ Rule("account", 4) = "f"
    BY DEF Settings, Keys, Credentials, KEY_SPECS, Rule, Unions
  <2>2. \A n \in {1, 2, 4} : \A below : Over(Kept(sources), "account", n, below) = below
    BY <1>3, <2>1, ForbiddenStands
  <2>3. Kept(sources)[3] = Validated(3, Environment)
    BY DEF Kept, Sources
  <2>4. Over(Kept(sources), "account", 3, Default["account"]) = Account0
    <3> HIDE DEF sources
    <3> QED BY <2>1, <2>3 DEF Over, Refused, Account0
  <2>5. Resolve(sources)["account"] = Applied(Kept(sources), "account")[5]
    BY <2>1, ResolvedValue
  <2>6. QED
    <3> HIDE DEF sources
    <3> QED BY <1>2, <2>2, <2>4, <2>5 DEF Applied
<1>6. QED
  BY <1>4, <1>5

\* Receipts that do not differ at a send agree on what it carries; those that do
\* not differ at a publication agree on all it depends on, the account apart.
LEMMA UnchangedAgree ==
  ASSUME NEW flags, NEW e, NEW d, NEW x, NEW y
  PROVE  /\ Changed(Receipt(flags, e, x), Receipt(flags, d, y), "admission") = {} =>
              \A f \in Carried : e[f] = d[f]
         /\ Changed(Receipt(flags, e, x), Receipt(flags, d, y), "advisory") = {} =>
              \A f \in ADVISORY \ {"account"} : e[f] = d[f]
<1> DEFINE old == Receipt(flags, e, x)  new == Receipt(flags, d, y)
<1>1. old.effective = e /\ new.effective = d
  BY DEF Receipt
<1>2. ASSUME NEW f \in (Carried \cup ADVISORY) \ {"account"}, Field(old, f) = Field(new, f)
      PROVE  e[f] = d[f]
  <2>1. f \notin {"network_consent", "credential", "account"}
    BY DEF Carried, ADVISORY
  <2>2. CASE f = "endpoint"
    <3>1. <<e.provider, e.endpoint, Account(e)>> = <<d.provider, d.endpoint, Account(d)>>
      <4> HIDE DEF old, new
      <4> QED BY <1>1, <1>2, <2>2 DEF Field
    <3>2. QED
      BY <2>2, <3>1
  <2>3. CASE f # "endpoint"
    <3> HIDE DEF old, new
    <3> QED BY <1>1, <1>2, <2>1, <2>3 DEF Field
  <2>4. QED
    BY <2>2, <2>3
<1>3. Changed(old, new, "admission") = {} => \A f \in Carried : Field(old, f) = Field(new, f)
  <2> HIDE DEF old, new
  <2> QED BY DEF Changed, Boundary, Carried
<1>4. Changed(old, new, "advisory") = {} => \A f \in ADVISORY : Field(old, f) = Field(new, f)
  <2> HIDE DEF old, new
  <2> QED BY DEF Changed, Boundary
<1>5. "account" \notin Carried
  BY DEF Carried
<1>6. QED
  BY <1>2, <1>3, <1>4, <1>5

-----------------------------------------------------------------------------
(* Steps of the invocation                                                 *)

\* The fields of the record.
LEMMA FieldNames ==
  {"pc", "cmd", "entry", "used", "receipt", "seen", "admitted", "muted", "scope", "cands",
   "quill", "short", "sent", "wide", "estimates", "frozen", "scored", "need", "doc",
   "reason", "skills"} \subseteq Fields
BY DEF Fields, Idle

\* Every step leaves a record with the same fields.
LEMMA ShapeStep ==
  ASSUME ShapeInv, Step
  PROVE  ShapeInv'
<1>1. CASE BeginRank
  BY <1>1 DEF BeginRank, Start, Fail, Go, ShapeInv
<1>2. CASE BeginHook
  BY <1>2 DEF BeginHook, Start, Fail, Go, ShapeInv
<1>3. CASE Load
  BY <1>3 DEF Load, Fail, Go, ShapeInv
<1>4. CASE SelectSource
  BY <1>4 DEF SelectSource, Fail, Go, ShapeInv
<1>5. CASE IngestNormalized
  BY <1>5 DEF IngestNormalized, Fail, Go, ShapeInv
<1>6. CASE IngestTranscript
  BY <1>6 DEF IngestTranscript, Fail, Go, ShapeInv
<1>7. CASE IngestHook
  BY <1>7 DEF IngestHook, Fail, Go, ShapeInv
<1>8. CASE AnchorTask
  BY <1>8 DEF AnchorTask, Fail, Go, ShapeInv
<1>9. CASE LoadRoster
  BY <1>9 DEF LoadRoster, Fail, Go, ShapeInv
<1>10. CASE Explicit
  BY <1>10 DEF Explicit, Fail, Go, ShapeInv
<1>11. CASE ExplicitPolicy
  BY <1>11 DEF ExplicitPolicy, Fail, Go, ShapeInv
<1>12. CASE ExplicitRoster
  BY <1>12 DEF ExplicitRoster, Fail, Go, ShapeInv
<1>13. CASE Admit
  BY <1>13 DEF Admit, Fail, Go, ShapeInv
<1>14. CASE Retrieve
  BY <1>14 DEF Retrieve, Fail, Go, ShapeInv
<1>15. CASE Render
  BY <1>15 DEF Render, Fail, Go, ShapeInv
<1>16. CASE Preview
  BY <1>16 DEF Preview, Fail, Go, ShapeInv
<1>17. CASE Reuse
  BY <1>17 DEF Reuse, Fail, Go, ShapeInv
<1>18. CASE Send
  BY <1>18 DEF Send, Fail, Go, ShapeInv
<1>19. CASE Wide
  BY <1>19 DEF Wide, Fail, Go, ShapeInv
<1>20. CASE Rerank
  BY <1>20 DEF Rerank, Fail, Go, ShapeInv
<1>21. CASE ValidateRoster
  BY <1>21 DEF ValidateRoster, Fail, Go, ShapeInv
<1>22. CASE ValidateSnoozes
  BY <1>22 DEF ValidateSnoozes, Fail, Go, ShapeInv
<1>23. CASE ValidatePolicy
  BY <1>23 DEF ValidatePolicy, Fail, Go, ShapeInv
<1>24. CASE Finish
  BY <1>24 DEF Finish, Fail, Go, ShapeInv
<1>25. CASE EmitCli
  BY <1>25 DEF EmitCli, Printed, Fail, Go, ShapeInv
<1>26. CASE EmitHook
  BY <1>26 DEF EmitHook, Printed, Fail, Go, ShapeInv
<1>27. QED
  BY <1>1, <1>2, <1>3, <1>4, <1>5, <1>6, <1>7, <1>8, <1>9, <1>10, <1>11, <1>12, <1>13, <1>14,
     <1>15, <1>16, <1>17, <1>18, <1>19, <1>20, <1>21, <1>22, <1>23, <1>24, <1>25, <1>26 DEF Step

\* A refusal ends the invocation without advice.
LEMMA FailEffect ==
  ASSUME ShapeInv, Fail
  PROVE  /\ inv'.pc = "emit" /\ inv'.doc \in {"unavailable", "failed"} /\ inv'.skills = <<>>
         /\ inv'.reason = "failed"
         /\ \A f \in Fields \ {"pc", "doc", "skills", "reason"} : inv'[f] = inv[f]
BY FieldNames DEF ShapeInv, Fail

\* The visible skills that are not snoozed.
Heard == IF snooze.all THEN {} ELSE {s \in Skills : inv.seen[s] # "absent"} \ snooze.skills

\* What the admission of candidates leaves: those heard, invocable, not excluded
\* and not proven present, and the snoozes it has read.
LEMMA AdmitEffect ==
  ASSUME ShapeInv, Admit, ~Fail
  PROVE  /\ inv.pc = "decide" /\ inv'.pc \in {"finish", "validate", "retrieve"}
         /\ inv'.doc \in {"unavailable", "abstain", "none"}
         /\ inv'.muted = snooze /\ inv'.cands = AdmitAmong(Heard).admitted
         /\ inv'.pc = "retrieve" => inv'.cands # {}
         /\ inv'.reason # "failed"
         /\ \A f \in Fields \ {"pc", "doc", "muted", "cands", "scope", "reason"} : inv'[f] = inv[f]
<1> DEFINE visible == {s \in Skills : inv.seen[s] # "absent"}
           heard == IF snooze.all THEN {} ELSE visible \ snooze.skills
           a == AdmitAmong(heard)
           abstains == visible # {} /\ (heard = {} \/ a.verdict = "abstain")
           scope == IF abstains THEN {} ELSE a.admitted
           doc == IF visible = {} THEN "unavailable" ELSE IF abstains THEN "abstain" ELSE "none"
           reason == IF abstains /\ heard = {} THEN "snoozed" ELSE IF abstains THEN a.reason ELSE "none"
           pc == IF visible = {} THEN "finish" ELSE IF abstains THEN "validate" ELSE "retrieve"
<1>1. /\ inv.pc = "decide"
      /\ inv' = [inv EXCEPT !.muted = snooze, !.scope = scope, !.cands = a.admitted,
                            !.doc = doc, !.reason = reason, !.pc = pc]
  BY DEF Admit
<1>2. doc \in {"unavailable", "abstain", "none"} /\ pc \in {"finish", "validate", "retrieve"}
  OBVIOUS
<1>3. heard = Heard
  BY DEF Heard
<1>4. pc = "retrieve" => a.admitted # {}
  BY DEF AdmitAmong
<1>5. reason # "failed"
  BY DEF AdmitAmong
<1>6. QED
  <2> HIDE DEF visible, heard, abstains, scope, doc, reason, pc
  <2> QED BY <1>1, <1>2, <1>3, <1>4, <1>5, FieldNames DEF ShapeInv

\* What the wide answer leaves: an abstention, or a shortlist of the candidates.
LEMMA WideEffect ==
  ASSUME ShapeInv, Wide, ~Fail
  PROVE  /\ inv.pc = "wide"
         /\ \/ /\ inv'.pc = "validate" /\ inv'.doc = "abstain" /\ inv'.reason = "low-need"
               /\ inv'.wide = "low-need" /\ inv'.need < inv.used.gate /\ inv'.short = inv.short
            \/ /\ inv'.pc \in {"rerank", "reranked"} /\ inv'.doc = inv.doc
               /\ inv'.reason = inv.reason /\ inv'.wide = "shortlist"
               /\ ~(inv'.need < inv.used.gate) /\ inv'.short \subseteq inv.cands
               /\ Cardinality(inv'.short) = Min({inv.used.shortlist, Cardinality(inv.cands)})
         /\ \A f \in Fields \ {"pc", "doc", "short", "wide", "need", "reason"} : inv'[f] = inv[f]
<1>1. PICK need \in Scores, short \in SUBSET inv.cands :
        IF need < inv.used.gate
        THEN inv' = [inv EXCEPT !.doc = "abstain", !.reason = "low-need", !.need = need,
                                !.wide = "low-need", !.pc = "validate"]
        ELSE /\ Cardinality(short) = Min({inv.used.shortlist, Cardinality(inv.cands)})
             /\ inv' = [inv EXCEPT !.short = short, !.wide = "shortlist", !.need = need,
                                   !.pc = IF inv.sent THEN "rerank" ELSE "reranked"]
  BY DEF Wide
<1>2. inv.pc = "wide"
  BY DEF Wide
<1>3. CASE need < inv.used.gate
  BY <1>1, <1>2, <1>3, FieldNames DEF ShapeInv
<1>4. CASE ~(need < inv.used.gate)
  BY <1>1, <1>2, <1>4, FieldNames DEF ShapeInv
<1>5. QED
  BY <1>3, <1>4

\* What the rerank answer leaves: the eligible of the shortlist, ranked.
LEMMA RerankEffect ==
  ASSUME ShapeInv, Rerank, ~Fail
  PROVE  /\ inv.pc = "reranked" /\ inv'.pc = "validate"
         /\ \E fit, rerank \in [inv.short -> Scores], none \in Scores :
              LET e == [fit |-> fit, rerank |-> rerank, none |-> none]
                  eligible == AfterRerank(inv.short, e, inv.used.fits)
              IN  /\ inv'.estimates = e
                  /\ inv'.scored = IF eligible = {} THEN NoPriors ELSE ActivePriors
                  /\ inv'.skills = Ranked(e, ActivePriors, inv.used, eligible)
                  /\ inv'.doc = IF eligible = {} THEN "abstain" ELSE "ranked"
                  /\ inv'.reason = IF eligible = {} THEN AbstainReason(inv.short, e, inv.used.fits)
                                   ELSE "eligible-candidates"
         /\ \A f \in Fields \ {"pc", "doc", "skills", "estimates", "scored", "reason"} : inv'[f] = inv[f]
<1>1. PICK fit \in [inv.short -> Scores], rerank \in [inv.short -> Scores], none \in Scores :
        LET e == [fit |-> fit, rerank |-> rerank, none |-> none]
            eligible == AfterRerank(inv.short, e, inv.used.fits)
        IN  inv' = [inv EXCEPT !.pc = "validate", !.estimates = e,
                      !.scored = IF eligible = {} THEN NoPriors ELSE ActivePriors,
                      !.doc = IF eligible = {} THEN "abstain" ELSE "ranked",
                      !.reason = IF eligible = {} THEN AbstainReason(inv.short, e, inv.used.fits)
                                 ELSE "eligible-candidates",
                      !.skills = Ranked(e, ActivePriors, inv.used, eligible)]
  BY DEF Rerank
<1> DEFINE e == [fit |-> fit, rerank |-> rerank, none |-> none]
           eligible == AfterRerank(inv.short, e, inv.used.fits)
           scored == IF eligible = {} THEN NoPriors ELSE ActivePriors
           doc == IF eligible = {} THEN "abstain" ELSE "ranked"
           reason == IF eligible = {} THEN AbstainReason(inv.short, e, inv.used.fits)
                     ELSE "eligible-candidates"
           skills == Ranked(e, ActivePriors, inv.used, eligible)
<1>2. inv' = [inv EXCEPT !.pc = "validate", !.estimates = e, !.scored = scored, !.doc = doc,
                         !.reason = reason, !.skills = skills]
  BY <1>1
<1>3. /\ inv'.pc = "validate" /\ inv'.skills = skills /\ inv'.doc = doc
      /\ inv'.estimates = e /\ inv'.scored = scored /\ inv'.reason = reason
      /\ \A f \in Fields \ {"pc", "doc", "skills", "estimates", "scored", "reason"} : inv'[f] = inv[f]
  <2> HIDE DEF e, eligible, scored, doc, reason, skills
  <2> QED BY <1>2, FieldNames DEF ShapeInv
<1>4. inv.pc = "reranked"
  BY DEF Rerank
<1>5. QED
  BY <1>3, <1>4

\* What the end of the pipeline leaves: the decision, or the preview around it.
LEMMA FinishEffect ==
  ASSUME ShapeInv, Finish, ~Fail
  PROVE  /\ inv.pc = "finish" /\ inv'.pc = "emit"
         /\ \/ inv'.doc = inv.doc /\ inv'.skills = inv.skills
            \/ inv'.doc = "preview" /\ inv'.skills = <<>>
         /\ \A f \in Fields \ {"pc", "doc", "skills"} : inv'[f] = inv[f]
<1> DEFINE wrapped == "dry_run" \in inv.cmd.flags /\ inv.doc \in Decisions
<1>1. inv' = [inv EXCEPT !.pc = "emit", !.doc = IF wrapped THEN "preview" ELSE inv.doc,
                         !.skills = IF wrapped THEN <<>> ELSE inv.skills]
  BY DEF Finish
<1>2. inv.pc = "finish"
  BY DEF Finish
<1>3. QED
  <2> HIDE DEF wrapped
  <2>1. CASE wrapped
    BY <1>1, <1>2, <2>1, FieldNames DEF ShapeInv
  <2>2. CASE ~wrapped
    BY <1>1, <1>2, <2>2, FieldNames DEF ShapeInv
  <2>3. QED
    BY <2>1, <2>2

\* What is printed is the decision, or nothing of it; by the hook, only while its
\* policy holds.
LEMMA EmitEffect ==
  ASSUME ShapeInv, EmitCli \/ EmitHook
  PROVE  /\ inv.pc = "emit" /\ inv'.pc = "done"
         /\ \/ inv'.doc = inv.doc /\ inv'.skills = inv.skills
            \/ inv'.doc \in {"unavailable", "silent"} /\ inv'.skills = <<>>
         /\ EmitHook /\ inv'.skills # <<>> => ~Fenced
         /\ EmitCli => inv.cmd.channel = "cli"
         /\ \A f \in Fields \ {"pc", "doc", "skills"} : inv'[f] = inv[f]
<1>1. ASSUME NEW doc, NEW skills, Printed(doc, skills)
      PROVE  /\ inv'.pc = "done" /\ inv'.doc = doc /\ inv'.skills = skills
             /\ \A f \in Fields \ {"pc", "doc", "skills"} : inv'[f] = inv[f]
  BY <1>1, FieldNames DEF ShapeInv, Printed
<1>2. CASE EmitCli
  BY <1>1, <1>2 DEF EmitCli, EmitHook
<1>3. CASE EmitHook
  BY <1>1, <1>3 DEF EmitHook, EmitCli
<1>4. QED
  BY <1>2, <1>3

\* Every step goes to one of the points, and an invocation keeps its command.
LEMMA RecordStep ==
  ASSUME ShapeInv, RecordInv, Step
  PROVE  RecordInv'
<1> USE FieldNames DEF ShapeInv, RecordInv, Loaded, Judged, Ranking, Closing, Closed
<1>1. CASE BeginRank
  BY <1>1 DEF BeginRank, Start, Fail, Go
<1>2. CASE BeginHook
  BY <1>2 DEF BeginHook, Start, Fail, Go
<1>3. CASE Load
  BY <1>3 DEF Load, Fail, Go
<1>4. CASE SelectSource
  BY <1>4 DEF SelectSource, Fail, Go
<1>5. CASE IngestNormalized
  BY <1>5 DEF IngestNormalized, Fail, Go
<1>6. CASE IngestTranscript
  BY <1>6 DEF IngestTranscript, Fail, Go
<1>7. CASE IngestHook
  BY <1>7 DEF IngestHook, Fail, Go
<1>8. CASE AnchorTask
  BY <1>8 DEF AnchorTask, Fail, Go
<1>9. CASE LoadRoster
  BY <1>9 DEF LoadRoster, Fail, Go
<1>10. CASE Explicit
  BY <1>10 DEF Explicit, Fail, Go
<1>11. CASE ExplicitPolicy
  BY <1>11 DEF ExplicitPolicy, Fail, Go
<1>12. CASE ExplicitRoster
  BY <1>12 DEF ExplicitRoster, Fail, Go
<1>13. CASE Admit
  <2>1. CASE Fail
    <3>1. inv.pc # "idle"
      BY <1>13 DEF Admit
    <3>2. QED
      BY <2>1, <3>1, FailEffect
  <2>2. CASE ~Fail
    <3>1. inv.pc = "decide" /\ inv'.pc \in {"finish", "validate", "retrieve"} /\ inv'["cmd"] = inv["cmd"]
      BY <1>13, <2>2, AdmitEffect
    <3>2. QED
      BY <3>1
  <2>3. QED
    BY <2>1, <2>2
<1>14. CASE Retrieve
  <2>1. CASE Fail
    <3>1. inv.pc # "idle"
      BY <1>14 DEF Retrieve
    <3>2. QED
      BY <2>1, <3>1, FailEffect
  <2>2. CASE Go("render")
    BY <1>14, <2>2 DEF Retrieve, Go
  <2>3. CASE \E found \in SUBSET inv.cands :
               inv' = [inv EXCEPT !.cands = found, !.quill = TRUE, !.pc = "render",
                         !.scope = {s \in Skills : inv.seen[s] # "absent"}]
    <3>1. inv'.pc = "render" /\ inv'["cmd"] = inv["cmd"] /\ inv.pc = "retrieve"
      BY <1>14, <2>3 DEF Retrieve
    <3>2. QED
      BY <3>1
  <2>4. QED
    BY <1>14, <2>1, <2>2, <2>3 DEF Retrieve
<1>15. CASE Render
  BY <1>15 DEF Render, Fail, Go
<1>16. CASE Preview
  BY <1>16 DEF Preview, Fail, Go
<1>17. CASE Reuse
  BY <1>17 DEF Reuse, Fail, Go
<1>18. CASE Send
  BY <1>18 DEF Send, Fail, Go
<1>19. CASE Wide
  <2>1. CASE Fail
    <3>1. inv.pc # "idle"
      BY <1>19 DEF Wide
    <3>2. QED
      BY <2>1, <3>1, FailEffect
  <2>2. CASE ~Fail
    <3>1. inv.pc = "wide" /\ inv'.pc \in {"validate", "rerank", "reranked"} /\ inv'["cmd"] = inv["cmd"]
      BY <1>19, <2>2, WideEffect
    <3>2. QED
      BY <3>1
  <2>3. QED
    BY <2>1, <2>2
<1>20. CASE Rerank
  <2>1. CASE Fail
    <3>1. inv.pc # "idle"
      BY <1>20 DEF Rerank
    <3>2. QED
      BY <2>1, <3>1, FailEffect
  <2>2. CASE ~Fail
    <3>1. inv.pc = "reranked" /\ inv'.pc = "validate" /\ inv'["cmd"] = inv["cmd"]
      BY <1>20, <2>2, RerankEffect
    <3>2. QED
      BY <3>1
  <2>3. QED
    BY <2>1, <2>2
<1>21. CASE ValidateRoster
  BY <1>21 DEF ValidateRoster, Fail, Go
<1>22. CASE ValidateSnoozes
  BY <1>22 DEF ValidateSnoozes, Fail, Go
<1>23. CASE ValidatePolicy
  BY <1>23 DEF ValidatePolicy, Fail, Go
<1>24. CASE Finish
  <2>1. CASE Fail
    <3>1. inv.pc # "idle"
      BY <1>24 DEF Finish
    <3>2. QED
      BY <2>1, <3>1, FailEffect
  <2>2. CASE ~Fail
    <3>1. inv.pc = "finish" /\ inv'.pc = "emit" /\ inv'["cmd"] = inv["cmd"]
      BY <1>24, <2>2 DEF Finish
    <3>2. QED
      BY <3>1
  <2>3. QED
    BY <2>1, <2>2
<1>25. CASE EmitCli
  BY <1>25 DEF EmitCli, Printed, Fail, Go
<1>26. CASE EmitHook
  BY <1>26 DEF EmitHook, Printed, Fail, Go
<1>27. QED
  BY <1>1, <1>2, <1>3, <1>4, <1>5, <1>6, <1>7, <1>8, <1>9, <1>10, <1>11, <1>12, <1>13, <1>14,
     <1>15, <1>16, <1>17, <1>18, <1>19, <1>20, <1>21, <1>22, <1>23, <1>24, <1>25, <1>26 DEF Step

\* The steps that neither take nor refresh a policy.
PolicyFrame ==
  /\ inv'.cmd = inv.cmd /\ inv'.used = inv.used
  /\ inv'.receipt = inv.receipt /\ inv'.sent = inv.sent
  /\ inv'.pc \in Loaded => inv.pc \in Loaded
  /\ inv.pc \in AfterSend => inv'.pc \in AfterSend

\* Those are all steps but the entries, the loading of the policy and the send.
LEMMA PolicyFrameStep ==
  ASSUME ShapeInv, Step, ~BeginRank, ~BeginHook, ~Load, ~Send
  PROVE  PolicyFrame
<1> USE FieldNames, FailEffect DEF ShapeInv, PolicyFrame, AfterSend, Loaded, Judged, Ranking, Closing, Closed
<1>1. CASE SelectSource
  BY <1>1 DEF SelectSource, Go
<1>2. CASE IngestNormalized
  BY <1>2 DEF IngestNormalized, Go
<1>3. CASE IngestTranscript
  BY <1>3 DEF IngestTranscript, Go
<1>4. CASE IngestHook
  BY <1>4 DEF IngestHook, Go
<1>5. CASE AnchorTask
  BY <1>5 DEF AnchorTask, Go
<1>6. CASE LoadRoster
  BY <1>6 DEF LoadRoster, Go
<1>7. CASE Explicit
  BY <1>7 DEF Explicit, Go
<1>8. CASE ExplicitPolicy
  BY <1>8 DEF ExplicitPolicy, Go
<1>9. CASE ExplicitRoster
  BY <1>9 DEF ExplicitRoster, Go
<1>10. CASE Admit
  <2>1. CASE Fail
    BY <1>10, <2>1, FailEffect DEF Admit
  <2>2. CASE ~Fail
    BY <1>10, <2>2, AdmitEffect
  <2>3. QED
    BY <2>1, <2>2
<1>11. CASE Retrieve
  BY <1>11 DEF Retrieve, Go
<1>12. CASE Render
  BY <1>12 DEF Render, Go
<1>13. CASE Preview
  BY <1>13 DEF Preview, Go
<1>14. CASE Reuse
  BY <1>14 DEF Reuse, Go
<1>15. CASE Wide
  <2>1. CASE Fail
    BY <1>15, <2>1, FailEffect DEF Wide
  <2>2. CASE ~Fail
    BY <1>15, <2>2, WideEffect
  <2>3. QED
    BY <2>1, <2>2
<1>16. CASE Rerank
  <2>1. CASE Fail
    BY <1>16, <2>1, FailEffect DEF Rerank
  <2>2. CASE ~Fail
    BY <1>16, <2>2, RerankEffect
  <2>3. QED
    BY <2>1, <2>2
<1>17. CASE ValidateRoster
  BY <1>17 DEF ValidateRoster, Go
<1>18. CASE ValidateSnoozes
  BY <1>18 DEF ValidateSnoozes, Go
<1>19. CASE ValidatePolicy
  BY <1>19 DEF ValidatePolicy, Go
<1>20. CASE Finish
  <2>1. CASE Fail
    BY <1>20, <2>1 DEF Finish
  <2>2. CASE ~Fail
    BY <1>20, <2>2, FinishEffect
  <2>3. QED
    BY <2>1, <2>2
<1>21. CASE EmitCli
  BY <1>21, EmitEffect
<1>22. CASE EmitHook
  BY <1>22, EmitEffect
<1>23. QED
  BY <1>1, <1>2, <1>3, <1>4, <1>5, <1>6, <1>7, <1>8, <1>9, <1>10, <1>11, <1>12, <1>13, <1>14,
     <1>15, <1>16, <1>17, <1>18, <1>19, <1>20, <1>21, <1>22 DEF Step

\* Every step keeps the policy in use and what its receipt agrees with.
LEMMA PolicyStep ==
  ASSUME ShapeInv, RecordInv, WorldInv, PolicyInv, Step
  PROVE  PolicyInv'
<1>1. CASE BeginRank \/ BeginHook
  <2>1. inv.pc = "idle" /\ inv'.pc \in {"emit", "load"} /\ inv'.sent = inv.sent
    BY <1>1, FieldNames DEF ShapeInv, BeginRank, BeginHook, Start
  <2>2. QED
    BY <2>1 DEF PolicyInv, AfterSend, Loaded, Judged, Ranking, Closing, Closed
<1>2. CASE Load
  <2>1. inv.pc = "load" /\ inv'.sent = inv.sent /\ inv'.cmd = inv.cmd
    BY <1>2, FieldNames DEF ShapeInv, Load, Fail
  <2>2. ~inv.sent
    BY <2>1 DEF PolicyInv, AfterSend, Closing, Closed
  <2>3. CASE Fail
    BY <2>1, <2>2, <2>3, FailEffect DEF PolicyInv, Loaded, Judged, Ranking, Closing
  <2>4. CASE ~Fail
    <3>1. Now(inv.cmd) \in Policies(inv.cmd)
      BY <2>1, NowIsAPolicy DEF RecordInv
    <3>2. inv'.used = Current /\ inv'.receipt = CurrentReceipt
      BY <1>2, <2>4, FieldNames DEF ShapeInv, Load
    <3>3. QED
      BY <2>1, <2>2, <3>1, <3>2 DEF PolicyInv, Current, CurrentReceipt
  <2>5. QED
    BY <2>3, <2>4
<1>3. CASE Send
  <2>1. CASE Fail
    BY <2>1, FailEffect DEF PolicyInv, AfterSend, Loaded, Judged, Ranking, Closing, Closed
  <2>2. CASE ~Fail
    <3>1. /\ Authorized /\ inv.pc \in {"ready", "rerank"} /\ inv'.pc \in {"wide", "reranked"}
          /\ inv'.receipt = CurrentReceipt /\ inv'.sent
          /\ inv'.used = inv.used /\ inv'.cmd = inv.cmd
      BY <1>3, <2>2, FieldNames DEF ShapeInv, Send
    <3>2. Now(inv.cmd) \in Policies(inv.cmd)
      BY <3>1, NowIsAPolicy DEF RecordInv
    <3>3. inv.pc \in Loaded
      BY <3>1 DEF Loaded, Judged, Ranking
    <3>4. PICK pol \in Policies(inv.cmd) :
            /\ inv.receipt = Receipt(inv.cmd.flags, pol.effective, pol.credential)
            /\ \A f \in Carried : pol.effective[f] = inv.used[f]
      BY <3>3 DEF PolicyInv
    <3>5. \A f \in Carried : pol.effective[f] = Current[f]
      BY <3>1, <3>4, UnchangedAgree DEF Authorized, CurrentReceipt
    <3>6. \E used \in Policies(inv'.cmd) : inv'.used = used.effective
      BY <3>1, <3>3 DEF PolicyInv
    <3>7. \E p \in Policies(inv'.cmd) :
            /\ inv'.receipt = Receipt(inv'.cmd.flags, p.effective, p.credential)
            /\ \A f \in Carried : p.effective[f] = inv'.used[f]
      BY <3>1, <3>2, <3>4, <3>5 DEF Current, CurrentReceipt
    <3>8. inv'.pc \in AfterSend
      BY <3>1 DEF AfterSend
    <3>9. Policies(inv.cmd)' = Policies(inv'.cmd)
      BY DEF Policies
    <3>10. QED
      BY <3>1, <3>6, <3>7, <3>8, <3>9 DEF PolicyInv
  <2>3. QED
    BY <2>1, <2>2
<1>4. CASE ~(BeginRank \/ BeginHook \/ Load \/ Send)
  <2>1. PolicyFrame
    BY <1>4, PolicyFrameStep
  <2>2. QED
    BY <2>1 DEF PolicyFrame, PolicyInv
<1>5. QED
  BY <1>1, <1>2, <1>3, <1>4

\* The steps, refusals apart, that read nothing the advice depends on.
AdviceFrame ==
  /\ \A f \in {"cmd", "used", "seen", "muted", "cands", "short"} : inv'[f] = inv[f]
  /\ inv'.pc \in Judged => inv.pc \in Judged
  /\ inv'.pc \in Ranking => inv.pc \in Ranking
  /\ inv'.pc \in {"rerank", "reranked"} => inv.pc \in {"rerank", "reranked"}
  /\ inv.pc \in Closing \cup Closed => inv'.pc \in Closing \cup Closed
  /\ inv'.doc = "ranked" => inv.doc = "ranked" /\ inv'.skills = inv.skills

\* Those are all but the entries, the loads, admission, retrieval, the answers
\* of the provider and refusals.
LEMMA AdviceFrameStep ==
  ASSUME ShapeInv, AdviceInv, Step, ~Fail,
         ~BeginRank, ~BeginHook, ~Load, ~LoadRoster, ~Admit,
         ~Retrieve, ~Wide, ~Rerank
  PROVE  AdviceFrame
<1> USE FieldNames DEF ShapeInv, AdviceFrame, Judged, Ranking, Closing, Closed
<1>0. inv.doc = "ranked" => inv.pc \in Closing \cup Closed
  BY DEF AdviceInv
<1>1. CASE SelectSource
  BY <1>1 DEF SelectSource, Go
<1>2. CASE IngestNormalized
  BY <1>2 DEF IngestNormalized, Go
<1>3. CASE IngestTranscript
  BY <1>3 DEF IngestTranscript, Go
<1>4. CASE IngestHook
  BY <1>4 DEF IngestHook, Go
<1>5. CASE AnchorTask
  BY <1>5 DEF AnchorTask, Go
<1>6. CASE Explicit
  <2>1. /\ inv.pc = "decide" /\ inv'.pc \in {"finish", "explicit"}
        /\ inv'.doc \in {"unavailable", "explicit"}
    BY <1>6 DEF Explicit
  <2>2. PICK scope, doc, skills :
          \/ inv' = [inv EXCEPT !.pc = "finish", !.doc = "unavailable"]
          \/ inv' = [inv EXCEPT !.pc = "explicit", !.scope = scope, !.doc = doc, !.skills = skills]
    BY <1>6 DEF Explicit
  <2>3. \A f \in {"cmd", "used", "seen", "muted", "cands", "short"} : inv'[f] = inv[f]
    BY <2>2
  <2>4. QED
    BY <2>1, <2>3
<1>7. CASE ExplicitPolicy
  BY <1>7 DEF ExplicitPolicy, Go
<1>8. CASE ExplicitRoster
  BY <1>8 DEF ExplicitRoster, Go
<1>9. CASE Render
  <2>1. PICK frozen \in {NoPriors, ActivePriors} :
          inv' = [inv EXCEPT !.pc = "ready", !.frozen = frozen]
    BY <1>9 DEF Render
  <2>2. inv.pc = "render"
    BY <1>9 DEF Render
  <2>3. QED
    BY <2>1, <2>2
<1>10. CASE Preview
  BY <1>10 DEF Preview, Go
<1>11. CASE Reuse
  BY <1>11 DEF Reuse, Go
<1>12. CASE Send
  <2>1. /\ inv.pc \in {"ready", "rerank"}
        /\ inv' = [inv EXCEPT !.receipt = CurrentReceipt, !.sent = TRUE,
                     !.pc = IF inv.pc = "ready" THEN "wide" ELSE "reranked"]
    BY <1>12 DEF Send
  <2>2. /\ inv.pc = "ready" => inv'.pc = "wide"
        /\ inv.pc = "rerank" => inv'.pc = "reranked"
        /\ inv'.doc = inv.doc /\ inv'.skills = inv.skills
        /\ \A f \in {"cmd", "used", "seen", "muted", "cands", "short"} : inv'[f] = inv[f]
    BY <2>1
  <2>3. QED
    BY <2>1, <2>2
<1>13. CASE ValidateRoster
  BY <1>13 DEF ValidateRoster, Go
<1>14. CASE ValidateSnoozes
  BY <1>14 DEF ValidateSnoozes, Go
<1>15. CASE ValidatePolicy
  BY <1>15 DEF ValidatePolicy, Go
<1>16. CASE Finish
  BY <1>16, FinishEffect
<1>17. CASE EmitCli
  BY <1>17, EmitEffect
<1>18. CASE EmitHook
  BY <1>18, EmitEffect
<1>19. QED
  BY <1>1, <1>2, <1>3, <1>4, <1>5, <1>6, <1>7, <1>8, <1>9, <1>10, <1>11, <1>12, <1>13, <1>14,
     <1>15, <1>16, <1>17, <1>18 DEF Step

\* The eligible are candidates of the shortlist, and ranking picks among them.
LEMMA RerankAdvises ==
  ASSUME ShapeInv, RecordInv, WorldInv, PolicyInv, AdviceInv, Rerank, ~Fail
  PROVE  \A i \in DOMAIN inv'.skills :
           /\ inv'.skills[i] \in AfterRerank(inv.short, inv'.estimates, inv.used.fits)
           /\ inv'.skills[i] \in inv.cands
<1>1. inv.pc = "reranked"
  BY DEF Rerank
<1>2. inv.short \subseteq inv.cands /\ inv.cands \subseteq Skills
  BY <1>1 DEF AdviceInv, Ranking, Welcome
<1>3. PICK fit \in [inv.short -> Scores], rerank \in [inv.short -> Scores], none \in Scores :
        LET e == [fit |-> fit, rerank |-> rerank, none |-> none]
        IN  /\ inv'.estimates = e
            /\ inv'.skills = Ranked(e, ActivePriors, inv.used, AfterRerank(inv.short, e, inv.used.fits))
  BY RerankEffect
<1> DEFINE e == [fit |-> fit, rerank |-> rerank, none |-> none]
           eligible == AfterRerank(inv.short, e, inv.used.fits)
<1>4. inv.used.top \in Int /\ inv.used.w_fit \in Int /\ inv.used.w_prior \in Int
  <2>1. inv.cmd \in Commands /\ inv.pc \in Loaded
    BY <1>1 DEF RecordInv, Loaded, Judged, Ranking
  <2>2. PICK used \in Policies(inv.cmd) : inv.used = used.effective
    BY <2>1 DEF PolicyInv
  <2>3. \A key \in Numbers : inv.used[key] \in Int
    BY <2>1, <2>2, PolicyTyped
  <2>4. QED
    BY <2>3 DEF Numbers
<1>5. eligible \subseteq inv.short
  BY DEF AfterRerank, AdmitAmong
<1>6. eligible \subseteq Int /\ IsFiniteSet(eligible)
  BY <1>2, <1>5, RankAssumption, FS_Subset
<1>7. ActivePriors \in [Skills -> Int]
  BY DEF ActivePriors, NoPriors, WorldInv
<1>8. ASSUME NEW s \in eligible
      PROVE  Utility(e, ActivePriors, inv.used, s) \in Int
  <2>1. fit[s] \in Int /\ rerank[s] \in Int /\ ActivePriors[s] \in Int
    BY <1>2, <1>5, <1>7, RankAssumption
  <2>2. inv.used.w_fit * fit[s] \in Int /\ inv.used.w_prior * ActivePriors[s] \in Int
    BY <1>4, <2>1
  <2>3. QED
    BY <2>1, <2>2 DEF Utility
<1>9. LET ranked == Ranked(e, ActivePriors, inv.used, eligible)
      IN  \A i \in DOMAIN ranked : ranked[i] \in eligible
  <2> HIDE DEF e, eligible
  <2> QED BY <1>4, <1>6, <1>8, RankedAreEligible
<1>10. QED
  BY <1>2, <1>3, <1>5, <1>9

\* Every step keeps the candidates, the shortlist and the advice among the welcome.
LEMMA AdviceStep ==
  ASSUME ShapeInv, RecordInv, WorldInv, PolicyInv, AdviceInv, Step
  PROVE  AdviceInv'
<1> USE FieldNames
<1>1. CASE Fail
  <2>1. inv'.pc = "emit" /\ inv'.doc # "ranked"
    BY <1>1, FailEffect
  <2>2. QED
    BY <2>1 DEF AdviceInv, Judged, Ranking, Closing
<1>2. CASE BeginRank \/ BeginHook
  <2>1. inv'.pc \in {"emit", "load"} /\ inv'.doc # "ranked"
    BY <1>2 DEF ShapeInv, BeginRank, BeginHook, Start
  <2>2. QED
    BY <2>1 DEF AdviceInv, Judged, Ranking, Closing
<1>3. CASE Load /\ ~Fail
  <2>1. inv.pc = "load" /\ inv'.pc = "source" /\ inv'.doc = inv.doc
    BY <1>3 DEF ShapeInv, Load
  <2>2. QED
    BY <2>1 DEF AdviceInv, Judged, Ranking, Closing, Closed
<1>4. CASE LoadRoster /\ ~Fail
  <2>1. inv.pc = "roster" /\ inv'.pc = "decide" /\ inv'.doc = inv.doc /\ inv'.seen = roster
    BY <1>4 DEF ShapeInv, LoadRoster
  <2>2. QED
    BY <2>1 DEF AdviceInv, WorldInv, Judged, Ranking, Closing, Closed
<1>5. CASE Admit /\ ~Fail
  <2>1. /\ inv.pc = "decide" /\ inv'.pc \in {"finish", "validate", "retrieve"}
        /\ inv'.doc # "ranked"
        /\ inv'.muted = snooze /\ inv'.cands = AdmitAmong(Heard).admitted
        /\ inv'.seen = inv.seen /\ inv'.cmd = inv.cmd /\ inv'.used = inv.used
    BY <1>5, AdmitEffect
  <2>2. inv.seen \in [Skills -> {"absent", "restricted", "v1", "v2"}] /\ inv.seen \in Rosters
    BY <2>1, RankAssumption DEF AdviceInv, Judged
  <2>3. ASSUME NEW s \in AdmitAmong(Heard).admitted
        PROVE  /\ s \in Skills /\ inv.seen[s] \in {"v1", "v2"}
               /\ s \notin Excluded /\ s \notin inv.cmd.proven
               /\ ~snooze.all /\ s \notin snooze.skills
    BY <2>2 DEF AdmitAmong, Heard
  <2>4. inv'.cands \subseteq Welcome'
    BY <2>1, <2>3 DEF Welcome, Excluded
  <2>5. QED
    BY <2>1, <2>2, <2>4 DEF AdviceInv, Judged, Ranking, Closing
<1>6. CASE Retrieve /\ ~Fail
  <2>1. /\ inv.pc = "retrieve" /\ inv'.pc = "render" /\ inv'.doc = inv.doc
        /\ inv'.cands \subseteq inv.cands
        /\ inv'.seen = inv.seen /\ inv'.cmd = inv.cmd /\ inv'.used = inv.used
        /\ inv'.muted = inv.muted
    BY <1>6 DEF ShapeInv, Retrieve, Go
  <2>2. Welcome' = Welcome
    BY <2>1 DEF Welcome, Excluded
  <2>3. QED
    BY <2>1, <2>2 DEF AdviceInv, Judged, Ranking, Closing, Closed
<1>7. CASE Wide /\ ~Fail
  <2>1. /\ inv.pc = "wide" /\ inv'.pc \in {"validate", "rerank", "reranked"}
        /\ inv'.pc \in {"rerank", "reranked"} => inv'.short \subseteq inv.cands
        /\ inv'.doc = "ranked" => inv.doc = "ranked"
    BY <1>7, WideEffect
  <2>2. /\ inv'.seen = inv.seen /\ inv'.cmd = inv.cmd /\ inv'.used = inv.used
        /\ inv'.muted = inv.muted /\ inv'.cands = inv.cands
    BY <1>7, WideEffect
  <2>3. Welcome' = Welcome
    BY <2>2 DEF Welcome, Excluded
  <2>4. QED
    BY <2>1, <2>2, <2>3 DEF AdviceInv, Judged, Ranking, Closing, Closed
<1>8. CASE Rerank /\ ~Fail
  <2>1. inv.pc = "reranked" /\ inv'.pc = "validate"
    BY <1>8, RerankEffect
  <2>2. /\ inv'.seen = inv.seen /\ inv'.cmd = inv.cmd /\ inv'.used = inv.used
        /\ inv'.muted = inv.muted
    BY <1>8, RerankEffect
  <2>3. Welcome' = Welcome
    BY <2>2 DEF Welcome, Excluded
  <2>4. inv.cands \subseteq Welcome
    BY <2>1 DEF AdviceInv, Ranking
  <2>5. Advice' \subseteq inv.cands
    BY <1>8, RerankAdvises DEF Advice
  <2>6. QED
    BY <2>1, <2>2, <2>3, <2>4, <2>5 DEF AdviceInv, Judged, Ranking, Closing
<1>9. CASE ~Fail /\ ~(BeginRank \/ BeginHook) /\ ~Load /\ ~LoadRoster /\ ~Admit /\ ~Retrieve
           /\ ~Wide /\ ~Rerank
  <2>1. AdviceFrame
    BY <1>9, AdviceFrameStep
  <2>2. Welcome' = Welcome
    BY <2>1 DEF AdviceFrame, Welcome, Excluded
  <2>3. inv'.doc = "ranked" => Advice' = Advice
    BY <2>1 DEF AdviceFrame, Advice
  <2>4. QED
    BY <2>1, <2>2, <2>3 DEF AdviceFrame, AdviceInv
<1>10. QED
  BY <1>1, <1>2, <1>3, <1>4, <1>5, <1>6, <1>7, <1>8, <1>9

-----------------------------------------------------------------------------
(* Steps and the world beside them                                         *)

\* A step of the invocation leaves the files and the clock alone.
LEMMA WorldStep ==
  ASSUME Step
  PROVE  UNCHANGED World
BY DEF Step,
       BeginRank, BeginHook, Load, SelectSource, IngestNormalized,
       IngestTranscript, IngestHook, AnchorTask, LoadRoster, Explicit,
       ExplicitPolicy, ExplicitRoster, Admit, Retrieve, Render, Preview,
       Reuse, Send, Wide, Rerank, ValidateRoster, ValidateSnoozes,
       ValidatePolicy, Finish, EmitCli, EmitHook

\* While a decision is validated nothing but its validation goes on.
LEMMA OnlyValidation ==
  ASSUME Step, inv.pc \in {"validate", "snoozes"}
  PROVE  ValidateRoster \/ ValidateSnoozes
BY DEF Step,
       BeginRank, BeginHook, Load, SelectSource, IngestNormalized,
       IngestTranscript, IngestHook, AnchorTask, LoadRoster, Explicit,
       ExplicitPolicy, ExplicitRoster, Admit, Retrieve, Render, Preview,
       Reuse, Send, Wide, Rerank, ValidateRoster, ValidateSnoozes,
       ValidatePolicy, Finish, EmitCli, EmitHook

\* Only the last step prints.
LEMMA OnlyEmission ==
  ASSUME ShapeInv, Step, inv'.pc = "done"
  PROVE  EmitCli \/ EmitHook
<1> USE FieldNames, FailEffect DEF ShapeInv
<1>1. CASE BeginRank
  BY <1>1 DEF BeginRank, Start, Go
<1>2. CASE BeginHook
  BY <1>2 DEF BeginHook, Start, Go
<1>3. CASE Load
  BY <1>3 DEF Load, Go
<1>4. CASE SelectSource
  BY <1>4 DEF SelectSource, Go
<1>5. CASE IngestNormalized
  BY <1>5 DEF IngestNormalized, Go
<1>6. CASE IngestTranscript
  BY <1>6 DEF IngestTranscript, Go
<1>7. CASE IngestHook
  BY <1>7 DEF IngestHook, Go
<1>8. CASE AnchorTask
  BY <1>8 DEF AnchorTask, Go
<1>9. CASE LoadRoster
  BY <1>9 DEF LoadRoster, Go
<1>10. CASE Explicit
  BY <1>10 DEF Explicit, Go
<1>11. CASE ExplicitPolicy
  BY <1>11 DEF ExplicitPolicy, Go
<1>12. CASE ExplicitRoster
  BY <1>12 DEF ExplicitRoster, Go
<1>13. CASE Admit
  BY <1>13, AdmitEffect
<1>14. CASE Retrieve
  BY <1>14 DEF Retrieve, Go
<1>15. CASE Render
  BY <1>15 DEF Render, Go
<1>16. CASE Preview
  BY <1>16 DEF Preview, Go
<1>17. CASE Reuse
  BY <1>17 DEF Reuse, Go
<1>18. CASE Send
  BY <1>18 DEF Send, Go
<1>19. CASE Wide
  BY <1>19, WideEffect
<1>20. CASE Rerank
  BY <1>20, RerankEffect
<1>21. CASE ValidateRoster
  BY <1>21 DEF ValidateRoster, Go
<1>22. CASE ValidateSnoozes
  BY <1>22 DEF ValidateSnoozes, Go
<1>23. CASE ValidatePolicy
  BY <1>23 DEF ValidatePolicy, Go
<1>24. CASE Finish
  BY <1>24, FinishEffect
<1>25. CASE EmitCli
  BY <1>25
<1>26. CASE EmitHook
  BY <1>26
<1>27. QED
  BY <1>1, <1>2, <1>3, <1>4, <1>5, <1>6, <1>7, <1>8, <1>9, <1>10, <1>11, <1>12, <1>13, <1>14,
     <1>15, <1>16, <1>17, <1>18, <1>19, <1>20, <1>21, <1>22, <1>23, <1>24, <1>25, <1>26 DEF Step

\* Advice past the snoozes was past them before, or is just passing them.
LEMMA PastSnoozes ==
  ASSUME ShapeInv, RecordInv, AdviceInv, Step,
         inv'.doc = "ranked", inv'.pc \in {"policy", "finish"} \cup Closed
  PROVE  /\ inv.doc = "ranked" /\ inv'.skills = inv.skills
         /\ \/ inv.pc \in {"policy", "finish"} \cup Closed
            \/ inv.pc = "snoozes" /\ Unsnoozed(snooze, inv.muted)
<1>1. ~Fail
  BY FailEffect
<1>2. ~(BeginRank \/ BeginHook)
  BY FieldNames DEF ShapeInv, BeginRank, BeginHook, Start
<1>3. ~Load /\ ~LoadRoster /\ ~Retrieve
  BY <1>1, FieldNames DEF ShapeInv, Load, LoadRoster, Retrieve, Go, Closed
<1>4. ~Admit
  BY <1>1, AdmitEffect
<1>5. ~Wide
  BY <1>1, WideEffect DEF Closed
<1>6. ~Rerank
  BY <1>1, RerankEffect DEF Closed
<1>7. inv.doc = "ranked" /\ inv'.skills = inv.skills
  BY <1>1, <1>2, <1>3, <1>4, <1>5, <1>6, AdviceFrameStep DEF AdviceFrame
<1>8. inv.pc \in Closing \cup Closed
  BY <1>7 DEF AdviceInv
<1>9. CASE inv.pc \in {"validate", "snoozes"}
  <2>1. CASE ValidateRoster
    BY <1>1, <2>1, FieldNames DEF ShapeInv, ValidateRoster, Go, Closed
  <2>2. CASE ValidateSnoozes
    BY <1>1, <1>7, <2>2 DEF ValidateSnoozes
  <2>3. QED
    BY <1>9, <2>1, <2>2, OnlyValidation
<1>10. QED
  BY <1>7, <1>8, <1>9 DEF Closing

\* What is watched since validation, and since printing, stays true of now.
LEMMA SinceStep ==
  ASSUME IInv, Step, Watch
  PROVE  SinceInv'
<1>1. /\ since'.muted \subseteq MutedNow'
      /\ inv.pc = "validate" \/ inv'.pc # "validate" => since'.muted \subseteq since.muted
  BY DEF Watch, IInv, SinceInv
<1>2. /\ since'.shadow => InShadow'
      /\ inv.pc = "emit" \/ inv'.pc # "emit" => (since'.shadow => since.shadow)
  BY DEF Watch
<1>3. ASSUME inv'.doc = "ranked", inv'.pc \in {"policy", "finish"} \cup Closed
      PROVE  Advice' \cap since'.muted = {}
  <2>1. /\ inv.doc = "ranked" /\ Advice' = Advice
        /\ \/ inv.pc \in {"policy", "finish"} \cup Closed
           \/ inv.pc = "snoozes" /\ Unsnoozed(snooze, inv.muted)
    BY <1>3, PastSnoozes DEF IInv, Advice
  <2>2. since'.muted \subseteq since.muted
    BY <1>1, <1>3 DEF Closed
  <2>3. CASE inv.pc \in {"policy", "finish"} \cup Closed
    BY <2>1, <2>2, <2>3 DEF IInv, SinceInv
  <2>4. CASE Unsnoozed(snooze, inv.muted)
    <3>1. Advice \subseteq Welcome
      BY <2>1 DEF IInv, AdviceInv
    <3>2. ASSUME NEW s \in Advice
          PROVE  s \notin MutedNow
      <4>1. ~inv.muted.all /\ s \notin inv.muted.skills
        BY <3>1 DEF Welcome
      <4>2. QED
        BY <2>4, <4>1 DEF Unsnoozed, MutedNow
    <3>3. since.muted \subseteq MutedNow
      BY DEF IInv, SinceInv
    <3>4. QED
      BY <2>1, <2>2, <3>2, <3>3
  <2>5. QED
    BY <2>1, <2>3, <2>4
<1>4. ASSUME inv'.pc = "done", inv'.cmd.channel = "hook", since'.shadow
      PROVE  Advice' = {}
  <2>1. EmitCli \/ EmitHook
    BY <1>4, OnlyEmission DEF IInv
  <2>2. inv.pc = "emit" /\ inv'["cmd"] = inv["cmd"]
    BY <2>1, EmitEffect, FieldNames DEF IInv
  <2>3. InShadow
    BY <1>2, <1>4, <2>2 DEF IInv, SinceInv
  <2>4. Fenced
    BY <2>3 DEF InShadow, Fenced
  <2>5. EmitHook /\ inv'.skills = <<>>
    BY <1>4, <2>1, <2>2, <2>4, EmitEffect DEF IInv
  <2>6. QED
    BY <2>5 DEF Advice
<1>5. QED
  BY <1>1, <1>2, <1>3, <1>4 DEF SinceInv

-----------------------------------------------------------------------------
(* The invariant                                                           *)

\* The initial states satisfy the invariant.
LEMMA InitIsInductive == Init => IInv
<1> SUFFICES ASSUME Init PROVE IInv
  OBVIOUS
<1>1. /\ inv.pc = "idle" /\ inv.sent = FALSE /\ inv.doc = "none"
  BY DEF Init, Idle
<1>2. WorldInv
  BY DEF Init, WorldInv, NoPriors
<1>3. ShapeInv
  BY DEF Init, ShapeInv, Fields, Idle
<1>4. QED
  BY <1>1, <1>2, <1>3 DEF Init, IInv, RecordInv, PolicyInv, AdviceInv, SinceInv, MutedNow,
     Loaded, Judged, Ranking, Closing, Closed

\* An edit beside the invocation, or the deadline, changes none of its record.
LEMMA BesideIsInductive ==
  ASSUME IInv, Beside, Watch
  PROVE  IInv'
<1>1. inv' = inv
  BY DEF Beside, EditUser, EditProject, EditSnooze, EditRoster, EditPriors, Expire
<1>2. WorldInv'
  BY RankAssumption
     DEF IInv, WorldInv, Beside, EditUser, EditProject, EditSnooze, EditRoster, EditPriors, Expire
<1>3. ShapeInv' /\ RecordInv'
  BY <1>1 DEF IInv, ShapeInv, RecordInv
<1>4. PolicyInv'
  BY <1>1 DEF IInv, PolicyInv
<1>5. AdviceInv'
  BY <1>1 DEF IInv, AdviceInv, Welcome, Excluded, Advice
<1>6. SinceInv'
  <2>1. since'.muted \subseteq MutedNow' /\ since'.muted \subseteq since.muted
    BY <1>1 DEF Watch, IInv, SinceInv
  <2>2. since'.shadow => InShadow' /\ since.shadow
    BY <1>1 DEF Watch
  <2>3. Advice' = Advice
    BY <1>1 DEF Advice
  <2>4. QED
    BY <1>1, <2>1, <2>2, <2>3 DEF IInv, SinceInv
<1>7. QED
  BY <1>2, <1>3, <1>4, <1>5, <1>6 DEF IInv

\* The invariant is inductive.
LEMMA NextIsInductive == IInv /\ [Next]_vars => IInv'
<1> SUFFICES ASSUME IInv, [Next]_vars PROVE IInv'
  OBVIOUS
<1>1. CASE Step /\ Watch
  <2>1. WorldInv'
    BY <1>1, WorldStep DEF IInv, WorldInv, World
  <2>2. ShapeInv' /\ RecordInv'
    BY <1>1, ShapeStep, RecordStep DEF IInv
  <2>3. PolicyInv'
    BY <1>1, PolicyStep DEF IInv
  <2>4. AdviceInv'
    BY <1>1, AdviceStep DEF IInv
  <2>5. SinceInv'
    BY <1>1, SinceStep
  <2>6. QED
    BY <2>1, <2>2, <2>3, <2>4, <2>5 DEF IInv
<1>2. CASE Beside /\ Watch
  BY <1>2, BesideIsInductive
<1>3. CASE UNCHANGED vars
  <2>1. /\ inv' = inv /\ since' = since /\ user' = user /\ project' = project
        /\ snooze' = snooze /\ roster' = roster /\ priors' = priors
    BY <1>3 DEF vars
  <2>2. WorldInv' /\ ShapeInv' /\ RecordInv' /\ PolicyInv'
    BY <2>1 DEF IInv, WorldInv, ShapeInv, RecordInv, PolicyInv
  <2>3. AdviceInv'
    BY <2>1 DEF IInv, AdviceInv, Welcome, Excluded, Advice
  <2>4. InShadow' = InShadow /\ MutedNow' = MutedNow /\ Advice' = Advice
    BY <2>1 DEF InShadow, MutedNow, Advice, Readable, Current, Now
  <2>5. SinceInv'
    BY <2>1, <2>4 DEF IInv, SinceInv
  <2>6. QED
    BY <2>2, <2>3, <2>5 DEF IInv
<1>4. QED
  BY <1>1, <1>2, <1>3 DEF Next

\* In every reachable state the files, the record, the policy, the advice and
\* what is watched accord with each other.
THEOREM InvariantHolds == Spec => []IInv
<1>1. Init => IInv
  BY InitIsInductive
<1>2. IInv /\ [Next]_vars => IInv'
  BY NextIsInductive
<1>3. QED
  BY <1>1, <1>2, PTL DEF Spec

-----------------------------------------------------------------------------
(* Theorems                                                                *)

\* For every set of skills, commands and files: printed advice names no skill
\* that was muted ever since validation began, that the policy used excludes,
\* that was not invocable or was proven loaded; and a hook that was in shadow
\* ever since it was about to print prints nothing
\* (validate_advisory_publication, hook_claude_command).
THEOREM AdviceStaysWelcome == Spec => []AdviceIsWelcome
<1>1. IInv => AdviceIsWelcome
  <2> SUFFICES ASSUME IInv, inv.pc = "done" PROVE AdviceIsWelcome
    BY DEF AdviceIsWelcome
  <2>1. ASSUME inv.doc = "ranked"
        PROVE  /\ Advice \cap (since.muted \cup Excluded \cup inv.cmd.proven) = {}
               /\ \A s \in Advice : inv.seen[s] \in {"v1", "v2"}
    <3>1. Advice \subseteq Welcome
      BY <2>1 DEF IInv, AdviceInv
    <3>2. Advice \cap since.muted = {}
      BY <2>1 DEF IInv, SinceInv, Closed
    <3>3. QED
      BY <3>1, <3>2 DEF Welcome
  <2>2. QED
    BY <2>1 DEF AdviceIsWelcome, IInv, SinceInv
<1>2. QED
  BY <1>1, InvariantHolds, PTL

\* For every layer that the files, the environment and the command line may
\* hold: what a project's file does to a policy that is valid with it widens
\* neither consent, destination, disclosure nor advice (KEY_SPECS, widens,
\* union_into).
THEOREM ProjectsNarrow == Spec => []ProjectNeverWidens
<1>1. IInv => ProjectNeverWidens
  <2> SUFFICES ASSUME IInv, inv.pc = "load" PROVE ProjectNeverWidens
    BY DEF ProjectNeverWidens
  <2> DEFINE with == Sources(user, project, inv.cmd.cli)
             alone == Sources(user, <<>>, inv.cmd.cli)
  <2>1. inv.cmd \in Commands /\ user \in UserLayers /\ project \in ProjectLayers
    BY DEF IInv, RecordInv, WorldInv
  <2>2. IsLayer(user) /\ IsLayer(project) /\ IsLayer(Environment) /\ IsLayer(inv.cmd.cli)
    BY <2>1, RankAssumption DEF Layers, IsLayer
  <2>3. IsLayer(<<>>)
    BY DEF IsLayer, Range
  <2>4. AreLayers(with) /\ AreLayers(alone)
    BY <2>2, <2>3 DEF AreLayers, Sources
  <2>5. Current = Resolve(with)
    BY <2>1 DEF Current, Now, Resolved, Sources
  <2>6. \A k \in {"network", "endpoint", "provider", "account", "hook_mode",
                  "transcript_roots", "timeout"} : Current[k] = Resolve(alone)[k]
    <3>1. ASSUME NEW k \in {"network", "endpoint", "provider", "account", "hook_mode",
                            "transcript_roots", "timeout"}
          PROVE  k \in Settings \ {"model"} /\ Rule(k, 2) = "f"
      BY DEF Settings, Keys, Credentials, KEY_SPECS, Rule
    <3>2. QED
      BY <2>4, <2>5, <3>1, ProjectForbidden
  <2>7. Current.model = Resolve(alone).model
    BY <2>4, <2>5, ProjectForbiddenModel
  <2>8. ASSUME NEW k \in {"profile", "messages", "budget", "notification_turns"},
               \A e \in Range(inv.cmd.cli \o Environment) : e.key # k
        PROVE  Current[k] <= Resolve(alone)[k]
    <3>1. inv.cmd.cli \in Seq(Range(inv.cmd.cli)) /\ Environment \in Seq(Range(Environment))
      BY <2>2 DEF IsLayer
    <3>2. k \notin Named(inv.cmd.cli)
      <4>1. ASSUME NEW i \in DOMAIN inv.cmd.cli
            PROVE  inv.cmd.cli[i] \in Range(inv.cmd.cli \o Environment)
        <5>1. i \in DOMAIN (inv.cmd.cli \o Environment) /\ (inv.cmd.cli \o Environment)[i] = inv.cmd.cli[i]
          BY <3>1
        <5>2. QED
          BY <5>1 DEF Range
      <4>2. QED
        BY <2>8, <4>1 DEF Named
    <3>3. k \notin Named(Environment)
      <4>1. ASSUME NEW i \in DOMAIN Environment
            PROVE  Environment[i] \in Range(inv.cmd.cli \o Environment)
        <5>1. /\ i + Len(inv.cmd.cli) \in DOMAIN (inv.cmd.cli \o Environment)
              /\ (inv.cmd.cli \o Environment)[i + Len(inv.cmd.cli)] = Environment[i]
          BY <3>1
        <5>2. QED
          BY <5>1 DEF Range
      <4>2. QED
        BY <2>8, <4>1 DEF Named
    <3>4. QED
      BY <2>4, <2>5, <3>2, <3>3, ProjectNarrows
  <2>9. Resolve(alone).no_tools = 1 => Current.no_tools = 1
    BY <2>4, <2>5, ProjectWithholdsTools
  <2>10. Resolve(alone).exclude \subseteq Current.exclude
    BY <2>4, <2>5, ProjectExcludes
  <2>11. Resolve(alone) = Resolve(<<user, <<>>, Environment, inv.cmd.cli>>)
    BY DEF Sources
  <2>12. QED
    <3> HIDE DEF with, alone
    <3> QED BY <2>6, <2>7, <2>8, <2>9, <2>10, <2>11 DEF ProjectNeverWidens
<1>2. QED
  BY <1>1, InvariantHolds, PTL

\* Only an authorized send, or the exact answer of the cache, leads to a
\* provider's answer (authorize_send).
LEMMA OnlySend ==
  ASSUME ShapeInv, Step, inv.pc \in {"ready", "rerank"}, inv'.pc \in {"wide", "reranked"}
  PROVE  \/ Reuse /\ inv'.sent = inv.sent /\ inv.pc = "ready"
         \/ Send /\ Authorized
<1>1. Preview \/ Reuse \/ Send
  BY DEF Step, BeginRank, BeginHook, Load, SelectSource, IngestNormalized,
         IngestTranscript, IngestHook, AnchorTask, LoadRoster, Explicit,
         ExplicitPolicy, ExplicitRoster, Admit, Retrieve, Render,
         Wide, Rerank, ValidateRoster, ValidateSnoozes,
         ValidatePolicy, Finish, EmitCli, EmitHook
<1>2. ~Fail
  BY FailEffect
<1>3. ~Preview
  <2>1. Preview => inv' = [inv EXCEPT !.pc = "finish", !.doc = "preview"]
    BY <1>2 DEF Preview
  <2>2. QED
    BY <2>1, FieldNames DEF ShapeInv
<1>4. Reuse => inv'.sent = inv.sent /\ inv.pc = "ready"
  BY FieldNames DEF ShapeInv, Reuse, Go
<1>5. Send => Authorized
  BY <1>2 DEF Send
<1>6. QED
  BY <1>1, <1>3, <1>4, <1>5

\* Only the last validation leads from its point to the finish, and it found the
\* advisory fields of the receipt unchanged (validate_advisory_publication).
LEMMA OnlyPolicy ==
  ASSUME ShapeInv, Step, Passes
  PROVE  Readable /\ Changed(inv.receipt, CurrentReceipt, "advisory") = {}
<1>1. inv.pc = "policy" /\ inv'.pc = "finish"
  BY DEF Passes
<1>2. ValidatePolicy
  BY <1>1 DEF Step, BeginRank, BeginHook, Load, SelectSource, IngestNormalized,
         IngestTranscript, IngestHook, AnchorTask, LoadRoster, Explicit,
         ExplicitPolicy, ExplicitRoster, Admit, Retrieve, Render, Preview, Reuse, Send,
         Wide, Rerank, ValidateRoster, ValidateSnoozes, Finish, EmitCli, EmitHook
<1>3. ~Fail
  BY <1>1, FailEffect
<1>4. QED
  BY <1>2, <1>3 DEF ValidatePolicy

\* A step that sends does so under consent that stands, and with the fields that
\* the context was rendered with (authorize_send).
LEMMA SendsAsConsented ==
  ASSUME IInv, Step, inv.pc \in {"ready", "rerank"}, inv'.pc \in {"wide", "reranked"}, inv'.sent
  PROVE  /\ Consent(inv.cmd.flags, Current) = "authorized"
         /\ \A f \in Disclosed : Current[f] = inv.used[f]
<1>1. Send /\ Authorized
  <2>1. inv.pc = "ready" => ~inv.sent
    BY DEF IInv, PolicyInv, AfterSend, Closing, Closed
  <2>2. QED
    BY <2>1, OnlySend DEF IInv
<1>2. Consent(inv.cmd.flags, Current) = "authorized"
  BY <1>1 DEF Authorized, AdmitAttempt, CurrentReceipt, Receipt
<1>3. inv.pc \in Loaded
  BY DEF Loaded, Judged, Ranking
<1>4. PICK pol \in Policies(inv.cmd) :
        /\ inv.receipt = Receipt(inv.cmd.flags, pol.effective, pol.credential)
        /\ \A f \in Carried : pol.effective[f] = inv.used[f]
  BY <1>3 DEF IInv, PolicyInv
<1>5. \A f \in Carried : pol.effective[f] = Current[f]
  BY <1>1, <1>4, UnchangedAgree DEF Authorized, CurrentReceipt
<1>6. Disclosed \subseteq Carried
  BY DEF Disclosed, Carried, ADMISSION
<1>7. QED
  BY <1>2, <1>4, <1>5, <1>6

\* A decision that passes the last validation was made with the fields it is
\* published under (validate_advisory_publication).
LEMMA PublishesAsDecided ==
  ASSUME IInv, Step, Passes,
         NEW f \in IF inv.sent THEN ADVISORY \cap ADMISSION ELSE ADVISORY
  PROVE  Current[f] = inv.used[f]
<1>1. Changed(inv.receipt, CurrentReceipt, "advisory") = {}
  BY OnlyPolicy DEF IInv
<1>2. inv.pc \in Loaded /\ inv.cmd \in Commands
  BY DEF Passes, Loaded, Judged, Closing, IInv, RecordInv
<1>3. PICK pol \in Policies(inv.cmd) :
        /\ inv.receipt = Receipt(inv.cmd.flags, pol.effective, pol.credential)
        /\ \A g \in Carried : pol.effective[g] = inv.used[g]
        /\ ~inv.sent => pol.effective = inv.used
  BY <1>2 DEF IInv, PolicyInv
<1>4. \A g \in ADVISORY \ {"account"} : pol.effective[g] = Current[g]
  BY <1>1, <1>3, UnchangedAgree DEF CurrentReceipt
<1>5. CASE f = "account"
  <2>1. PICK used \in Policies(inv.cmd) : inv.used = used.effective
    BY <1>2 DEF IInv, PolicyInv
  <2>2. inv.used.account = Account0
    BY <1>2, <2>1, PolicyTyped
  <2>3. Current.account = Account0
    BY <1>2, NowIsAPolicy, PolicyTyped DEF IInv, Current
  <2>4. QED
    BY <1>5, <2>2, <2>3
<1>6. CASE f # "account"
  <2>1. inv.sent => f \in Carried
    BY <1>6 DEF Carried, ADMISSION, ADVISORY
  <2>2. QED
    BY <1>3, <1>4, <1>6, <2>1
<1>7. QED
  BY <1>5, <1>6

\* For every policy and edit: a request leaves only under a consent that stands
\* and with the destination and the limits its context was rendered with.  A
\* decision that needed no send is published under every advisory field it was made
\* with, and one after a send under those that each send compares as well; a change
\* of another advisory field before the send is not noticed, which is what the
\* violated PublishedUnderItsPolicy shows (authorize_send,
\* validate_advisory_publication).
THEOREM PolicyIsHeld == Spec => PolicyStillHolds
<1> DEFINE Held ==
      /\ (inv'.pc \in {"wide", "reranked"} /\ inv.pc \in {"ready", "rerank"} /\ inv'.sent)
         => /\ Consent(inv.cmd.flags, Current) = "authorized"
            /\ \A f \in Disclosed : Current[f] = inv.used[f]
      /\ Passes => \A f \in (IF inv.sent THEN ADVISORY \cap ADMISSION ELSE ADVISORY) :
                     Current[f] = inv.used[f]
<1>1. IInv /\ [Next]_vars => Held
  <2> SUFFICES ASSUME IInv, [Next]_vars PROVE Held
    OBVIOUS
  <2>1. CASE inv' = inv
    BY <2>1 DEF Passes
  <2>2. CASE Step
    BY <2>2, SendsAsConsented, PublishesAsDecided
  <2>3. CASE Beside
    BY <2>1, <2>3 DEF Beside, EditUser, EditProject, EditSnooze, EditRoster, EditPriors, Expire
  <2>4. QED
    BY <2>1, <2>2, <2>3 DEF Next, vars
<1>2. [][Held]_vars <=> PolicyStillHolds
  BY DEF PolicyStillHolds
<1>3. QED
  BY <1>1, <1>2, InvariantHolds, PTL DEF Spec

-----------------------------------------------------------------------------
(* The accounts of a decision: its trace, its saved case and the replays      *)

\* Before the wide answer, and between it and the rerank answer.
Asking == {"idle", "load", "source", "ingest", "anchor", "roster", "decide", "explicit",
           "explicit-roster", "retrieve", "render", "ready", "wide"}
Reranking == {"rerank", "reranked"}
Unadvised == (Asking \cup Reranking) \ {"explicit", "explicit-roster"}

\* A wide answer below the gate: nothing more was asked.
Declined ==
  /\ inv.estimates = NoEstimates /\ inv.cands # {} /\ inv.need < inv.used.gate
  /\ inv.doc \in {"abstain", "preview"} /\ inv.reason = "low-need" /\ inv.skills = <<>>

\* A rerank answer: it covers the shortlist, and the decision is what the stages
\* make of it, unless a dry run reports it inside its preview.
Decided ==
  LET e == inv.estimates
      eligible == AfterRerank(inv.short, e, inv.used.fits)
  IN  /\ e.fit \in [inv.short -> Scores] /\ e.rerank \in [inv.short -> Scores] /\ e.none \in Scores
      /\ inv.doc # "preview" =>
           /\ inv.doc = IF eligible = {} THEN "abstain" ELSE "ranked"
           /\ inv.reason = IF eligible = {} THEN AbstainReason(inv.short, e, inv.used.fits)
                           ELSE "eligible-candidates"
           /\ inv.skills = IF eligible = {} THEN <<>> ELSE Ranked(e, inv.scored, inv.used, eligible)
           /\ Advice \subseteq eligible

\* A shortlist: some of the candidates, all of them welcome.
Shortlisted ==
  /\ inv.cands # {} /\ ~(inv.need < inv.used.gate)
  /\ inv.short # {} /\ inv.short \subseteq inv.cands /\ inv.short \subseteq Welcome
  /\ inv.pc \notin Reranking => Decided

\* What the record says was answered is what its decision was made from.
AccountInv ==
  /\ inv.reason = "failed" => inv.pc \in Closed
  /\ inv.pc \in Asking => inv.wide = "none"
  /\ inv.pc \in Reranking => inv.wide = "shortlist"
  /\ inv.pc \in Ranking => inv.cands # {}
  /\ inv.pc \in Unadvised => inv.skills = <<>>
  /\ inv.wide \in {"none", "low-need", "shortlist"}
  /\ inv.pc # "done" /\ inv.reason # "failed" =>
       /\ inv.wide = "none" \/ inv.pc \in Reranking => inv.estimates = NoEstimates /\ inv.doc # "ranked"
       /\ inv.wide = "low-need" => Declined
       /\ inv.wide = "shortlist" => Shortlisted

\* Admission reads only the roster, the command and the policy of the record.
LEMMA SameAdmission ==
  ASSUME inv'.seen = inv.seen, inv'.cmd = inv.cmd, inv'.used = inv.used
  PROVE  \A short, e, fits :
           /\ AdmitAmong(short)' = AdmitAmong(short)
           /\ AfterRerank(short, e, fits)' = AfterRerank(short, e, fits)
           /\ AbstainReason(short, e, fits)' = AbstainReason(short, e, fits)
BY DEF AdmitAmong, AfterRerank, AbstainReason, Excluded

\* Admission removes none of the welcome.
LEMMA WelcomeAreAdmitted ==
  ASSUME NEW short, short \subseteq Welcome
  PROVE  AdmitAmong(short).admitted = short
BY DEF AdmitAmong, Welcome

\* Of nothing nothing is ranked.
LEMMA NothingRanked ==
  ASSUME NEW e, NEW delta, NEW policy, policy.top \in Int
  PROVE  Ranked(e, delta, policy, {}) = <<>>
<1> DEFINE n == Min({policy.top, Cardinality({})})
<1>1. n \in Int /\ n <= 0
  <2>1. Cardinality({}) = 0
    BY FS_EmptySet
  <2>2. QED
    BY <2>1, CutIsShort, FS_EmptySet
<1>2. 1 .. n = {}
  <2> HIDE DEF n
  <2> QED BY <1>1
<1>3. QED
  BY <1>2 DEF Ranked

\* The refusal of an invocation leaves no account of a decision.
LEMMA FailAccount ==
  ASSUME ShapeInv, AccountInv, Fail
  PROVE  AccountInv'
<1>1. inv'.pc = "emit" /\ inv'.reason = "failed" /\ inv'.wide = inv.wide
  BY FailEffect, FieldNames
<1>2. QED
  BY <1>1 DEF AccountInv, Asking, Reranking, Ranking, Unadvised, Closed

\* Every step before the wide answer leaves the account empty.
AskingFrame ==
  /\ inv'.wide = inv.wide /\ inv'.estimates = inv.estimates
  /\ inv'.doc # "ranked" /\ inv'.pc \notin Reranking
  /\ inv'.pc \in Ranking => inv'.cands # {}
  /\ inv'.pc \in Unadvised => inv'.skills = <<>>
  /\ inv'.reason # "failed"

\* Those are the steps from every point up to the wide answer.
LEMMA AskingStep ==
  ASSUME ShapeInv, AccountInv, Step, inv.pc \in Asking, ~Wide, ~Fail
  PROVE  AskingFrame
<1> USE FieldNames DEF ShapeInv, AskingFrame, Asking, Reranking, Ranking, Unadvised, Closed
<1>0. /\ inv.doc # "ranked" /\ inv.reason # "failed"
      /\ inv.pc \in Ranking => inv.cands # {}
      /\ inv.pc \in Unadvised => inv.skills = <<>>
  BY DEF AccountInv
<1>1. CASE BeginRank
  BY <1>0, <1>1 DEF BeginRank, Start
<1>2. CASE BeginHook
  BY <1>0, <1>2 DEF BeginHook, Start
<1>3. CASE Load
  BY <1>0, <1>3 DEF Load
<1>4. CASE SelectSource
  BY <1>0, <1>4 DEF SelectSource, Go
<1>5. CASE IngestNormalized
  BY <1>0, <1>5 DEF IngestNormalized, Go
<1>6. CASE IngestTranscript
  BY <1>0, <1>6 DEF IngestTranscript, Go
<1>7. CASE IngestHook
  BY <1>0, <1>7 DEF IngestHook, Go
<1>8. CASE AnchorTask
  BY <1>0, <1>8 DEF AnchorTask, Go
<1>9. CASE LoadRoster
  BY <1>0, <1>9 DEF LoadRoster
<1>10. CASE Explicit
  BY <1>0, <1>10 DEF Explicit
<1>11. CASE ExplicitPolicy
  BY <1>0, <1>11 DEF ExplicitPolicy, Go
<1>12. CASE ExplicitRoster
  BY <1>0, <1>12 DEF ExplicitRoster, Go
<1>13. CASE Admit
  BY <1>0, <1>13, AdmitEffect
<1>14. CASE Retrieve
  BY <1>0, <1>14 DEF Retrieve, Go
<1>15. CASE Render
  BY <1>0, <1>15 DEF Render
<1>16. CASE Preview
  BY <1>0, <1>16 DEF Preview
<1>17. CASE Reuse
  BY <1>0, <1>17 DEF Reuse, Go
<1>18. CASE Send
  BY <1>0, <1>18 DEF Send
<1>19. CASE Rerank \/ ValidateRoster \/ ValidateSnoozes \/ ValidatePolicy \/ Finish \/ EmitCli \/ EmitHook
  BY <1>19 DEF Rerank, ValidateRoster, ValidateSnoozes, ValidatePolicy, Finish, EmitCli, EmitHook
<1>20. QED
  BY <1>1, <1>2, <1>3, <1>4, <1>5, <1>6, <1>7, <1>8, <1>9, <1>10, <1>11, <1>12, <1>13, <1>14,
     <1>15, <1>16, <1>17, <1>18, <1>19 DEF Step

\* The wide answer: a refusal to ask more, or a shortlist of welcome candidates.
LEMMA WideAccount ==
  ASSUME IInv, AccountInv, Wide, ~Fail
  PROVE  AccountInv'
<1>0. ShapeInv
  BY DEF IInv
<1>1. /\ inv.pc = "wide" /\ inv.cands # {} /\ inv.skills = <<>> /\ inv.estimates = NoEstimates
      /\ inv.doc # "ranked" /\ inv.reason # "failed"
  BY WideEffect, <1>0 DEF AccountInv, Asking, Ranking, Unadvised, Closed
<1>2. /\ inv'.cmd = inv.cmd /\ inv'.used = inv.used /\ inv'.seen = inv.seen
      /\ inv'.cands = inv.cands /\ inv'.muted = inv.muted
      /\ inv'.skills = inv.skills /\ inv'.estimates = inv.estimates
  BY WideEffect, <1>0, FieldNames
<1>3. CASE inv'.pc = "validate"
  <2>1. /\ inv'.doc = "abstain" /\ inv'.reason = "low-need" /\ inv'.wide = "low-need"
        /\ inv'.need < inv.used.gate
    BY <1>0, <1>3, WideEffect
  <2>2. QED
    BY <1>1, <1>2, <1>3, <2>1
       DEF AccountInv, Declined, Asking, Ranking, Reranking, Unadvised, Closed
<1>4. CASE inv'.pc # "validate"
  <2>1. /\ inv'.pc \in {"rerank", "reranked"} /\ inv'.doc = inv.doc /\ inv'.reason = inv.reason
        /\ inv'.wide = "shortlist" /\ ~(inv'.need < inv.used.gate) /\ inv'.short \subseteq inv.cands
        /\ Cardinality(inv'.short) = Min({inv.used.shortlist, Cardinality(inv.cands)})
    BY <1>0, <1>4, WideEffect
  <2>2. inv.cands \subseteq Welcome
    BY <1>1 DEF IInv, AdviceInv, Ranking
  <2>3. inv'.short \subseteq Welcome'
    BY <1>2, <2>1, <2>2 DEF Welcome, Excluded
  <2>4. inv'.short # {}
    <3>1. IsFiniteSet(inv.cands)
      BY <2>2, RankAssumption, FS_Subset DEF Welcome
    <3>2. Cardinality(inv.cands) \in Nat /\ Cardinality(inv.cands) >= 1
      BY <1>1, <3>1, FS_CardinalityType, FS_EmptySet
    <3>3. inv.used.shortlist \in Int /\ inv.used.shortlist >= 1
      <4>1. inv.cmd \in Commands /\ inv.pc \in Loaded
        BY <1>1 DEF IInv, RecordInv, Loaded, Judged, Ranking
      <4>2. PICK used \in Policies(inv.cmd) : inv.used = used.effective
        BY <4>1 DEF IInv, PolicyInv
      <4>3. "shortlist" \in Numbers
        BY DEF Numbers
      <4>4. QED
        BY <4>1, <4>2, <4>3, PolicyTyped
    <3>4. Min({inv.used.shortlist, Cardinality(inv.cands)})
            \in {inv.used.shortlist, Cardinality(inv.cands)}
      BY <3>1, <3>3, CutIsShort
    <3>5. Cardinality(inv'.short) >= 1
      BY <2>1, <3>2, <3>3, <3>4
    <3>6. QED
      BY <3>5, FS_EmptySet
  <2>5. QED
    BY <1>1, <1>2, <2>1, <2>3, <2>4
       DEF AccountInv, Shortlisted, Asking, Ranking, Reranking, Unadvised, Closed
<1>5. QED
  BY <1>3, <1>4

\* The rerank answer decides.
LEMMA RerankAccount ==
  ASSUME IInv, AccountInv, Rerank, ~Fail
  PROVE  AccountInv'
<1>0. ShapeInv
  BY DEF IInv
<1>1. inv.pc = "reranked" /\ inv'.pc = "validate"
  BY <1>0, RerankEffect
<1>2. inv.wide = "shortlist" /\ Shortlisted
  BY <1>1 DEF AccountInv, Reranking, Closed
<1>3. /\ inv'.cmd = inv.cmd /\ inv'.used = inv.used /\ inv'.seen = inv.seen
      /\ inv'.cands = inv.cands /\ inv'.muted = inv.muted /\ inv'.short = inv.short
      /\ inv'.wide = inv.wide /\ inv'.need = inv.need
  BY <1>0, RerankEffect, FieldNames
<1>4. PICK fit \in [inv.short -> Scores], rerank \in [inv.short -> Scores], none \in Scores :
        LET e == [fit |-> fit, rerank |-> rerank, none |-> none]
            eligible == AfterRerank(inv.short, e, inv.used.fits)
        IN  /\ inv'.estimates = e
            /\ inv'.scored = IF eligible = {} THEN NoPriors ELSE ActivePriors
            /\ inv'.skills = Ranked(e, ActivePriors, inv.used, eligible)
            /\ inv'.doc = IF eligible = {} THEN "abstain" ELSE "ranked"
            /\ inv'.reason = IF eligible = {} THEN AbstainReason(inv.short, e, inv.used.fits)
                             ELSE "eligible-candidates"
  BY <1>0, RerankEffect
<1> DEFINE e == [fit |-> fit, rerank |-> rerank, none |-> none]
           eligible == AfterRerank(inv.short, e, inv.used.fits)
<1>5. e.fit \in [inv.short -> Scores] /\ e.rerank \in [inv.short -> Scores] /\ e.none \in Scores
  OBVIOUS
<1>6. eligible = {} => inv'.skills = <<>>
  <2>1. inv.cmd \in Commands /\ inv.pc \in Loaded
    BY <1>1 DEF IInv, RecordInv, Loaded, Judged, Ranking
  <2>2. PICK used \in Policies(inv.cmd) : inv.used = used.effective
    BY <2>1 DEF IInv, PolicyInv
  <2>3. "top" \in Numbers
    BY DEF Numbers
  <2>4. inv.used.top \in Int
    BY <2>1, <2>2, <2>3, PolicyTyped
  <2>5. QED
    <3> HIDE DEF e
    <3> QED BY <1>4, <2>4, NothingRanked DEF e
<1>7. Advice' \subseteq eligible
  BY <1>4, RerankAdvises DEF IInv, Advice
<1>8. /\ AfterRerank(inv.short, inv.estimates, inv.used.fits)' = eligible
      /\ AbstainReason(inv.short, inv.estimates, inv.used.fits)' = AbstainReason(inv.short, e, inv.used.fits)
  BY <1>3, <1>4, SameAdmission
<1>9. Decided'
  <2> HIDE DEF e, eligible
  <2>1. inv'.estimates = e
    BY <1>4 DEF e
  <2>2. /\ inv'.scored = IF eligible = {} THEN NoPriors ELSE ActivePriors
        /\ inv'.skills = Ranked(e, ActivePriors, inv.used, eligible)
        /\ inv'.doc = IF eligible = {} THEN "abstain" ELSE "ranked"
        /\ inv'.reason = IF eligible = {} THEN AbstainReason(inv.short, e, inv.used.fits)
                         ELSE "eligible-candidates"
    BY <1>4 DEF e, eligible
  <2>3. QED
    BY <1>3, <1>5, <1>6, <1>7, <1>8, <2>1, <2>2 DEF Decided
<1>10. Shortlisted'
  BY <1>1, <1>2, <1>3, <1>9 DEF Shortlisted, Reranking, Welcome, Excluded
<1>11. inv'.reason # "failed"
  BY <1>4 DEF AbstainReason, AdmitAmong
<1>12. QED
  BY <1>1, <1>2, <1>3, <1>10, <1>11
     DEF AccountInv, Asking, Ranking, Reranking, Unadvised, Closed

\* What validation and publication leave of the account: everything, or the
\* preview of a dry run in place of the decision.
ClosingFrame ==
  /\ inv.pc # "done"
  /\ \A f \in {"cmd", "used", "seen", "muted", "cands", "short", "wide", "need",
               "estimates", "scored", "reason"} : inv'[f] = inv[f]
  /\ inv'.pc \in Closing \cup Closed /\ (inv.pc \in Closed => inv'.pc \in Closed)
  /\ inv'.pc = "done" \/ (inv'.doc = inv.doc /\ inv'.skills = inv.skills)
       \/ (inv'.doc = "preview" /\ inv'.skills = <<>>)

\* The second send, and the steps of validation and publication.
LEMMA ClosingStep ==
  ASSUME ShapeInv, Step, inv.pc \in Closing \cup Closed, ~Fail
  PROVE  ClosingFrame
<1> USE FieldNames DEF ShapeInv, ClosingFrame, Closing, Closed
<1>1. CASE ValidateRoster
  BY <1>1 DEF ValidateRoster, Go
<1>2. CASE ValidateSnoozes
  BY <1>2 DEF ValidateSnoozes, Go
<1>3. CASE ValidatePolicy
  BY <1>3 DEF ValidatePolicy, Go
<1>4. CASE Finish
  BY <1>4, FinishEffect
<1>5. CASE EmitCli \/ EmitHook
  BY <1>5, EmitEffect
<1>6. QED
  BY <1>1, <1>2, <1>3, <1>4, <1>5
     DEF Step, BeginRank, BeginHook, Load, SelectSource, IngestNormalized, IngestTranscript,
         IngestHook, AnchorTask, LoadRoster, Explicit, ExplicitPolicy, ExplicitRoster, Admit,
         Retrieve, Render, Preview, Reuse, Send, Wide, Rerank

\* An account that is carried over unchanged stays one.
LEMMA CarriedAccount ==
  ASSUME AccountInv, inv.pc \in Closing \cup Closed, ClosingFrame
  PROVE  AccountInv'
<1>1. inv'.pc \notin Asking \cup Reranking \cup Ranking \cup Unadvised /\ inv.pc \notin Reranking
  BY DEF ClosingFrame, Closing, Closed, Asking, Reranking, Ranking, Unadvised
<1>2. /\ inv'.cmd = inv.cmd /\ inv'.used = inv.used /\ inv'.seen = inv.seen
      /\ inv'.cands = inv.cands /\ inv'.muted = inv.muted /\ inv'.short = inv.short
      /\ inv'.wide = inv.wide /\ inv'.need = inv.need /\ inv'.estimates = inv.estimates
      /\ inv'.scored = inv.scored /\ inv'.reason = inv.reason
  BY DEF ClosingFrame
<1>3. inv'.reason = "failed" => inv'.pc \in Closed
  BY <1>2 DEF AccountInv, ClosingFrame
<1>4. ASSUME inv'.pc # "done", inv'.reason # "failed"
      PROVE  /\ inv'.wide = "none" => inv'.estimates = NoEstimates /\ inv'.doc # "ranked"
             /\ inv'.wide = "low-need" => Declined'
             /\ inv'.wide = "shortlist" => Shortlisted'
  <2>1. inv.pc # "done" /\ inv.reason # "failed"
    BY <1>2, <1>4 DEF ClosingFrame
  <2>2. /\ inv.wide = "none" => inv.estimates = NoEstimates /\ inv.doc # "ranked"
        /\ inv.wide = "low-need" => Declined
        /\ inv.wide = "shortlist" => Shortlisted
    BY <2>1 DEF AccountInv
  <2>3. \/ inv'.doc = inv.doc /\ inv'.skills = inv.skills
        \/ inv'.doc = "preview" /\ inv'.skills = <<>>
    BY <1>4 DEF ClosingFrame
  <2>4. inv.wide = "low-need" => Declined'
    BY <1>2, <2>2, <2>3 DEF Declined
  <2>5. inv.wide = "shortlist" => Decided'
    <3> SUFFICES ASSUME inv.wide = "shortlist" PROVE Decided'
      OBVIOUS
    <3>1. Decided
      BY <1>1, <2>2 DEF Shortlisted
    <3>2. /\ AfterRerank(inv.short, inv.estimates, inv.used.fits)'
               = AfterRerank(inv.short, inv.estimates, inv.used.fits)
          /\ AbstainReason(inv.short, inv.estimates, inv.used.fits)'
               = AbstainReason(inv.short, inv.estimates, inv.used.fits)
      BY <1>2, SameAdmission
    <3>3. inv'.doc # "preview" => inv'.doc = inv.doc /\ inv'.skills = inv.skills /\ Advice' = Advice
      BY <2>3 DEF Advice
    <3>4. QED
      BY <1>2, <3>1, <3>2, <3>3 DEF Decided
  <2>6. inv.wide = "shortlist" => Shortlisted'
    BY <1>2, <2>2, <2>5 DEF Shortlisted, Welcome, Excluded
  <2>7. QED
    BY <1>2, <2>2, <2>3, <2>4, <2>6
<1>5. QED
  BY <1>1, <1>2, <1>3, <1>4 DEF AccountInv

\* Every step keeps the account.
LEMMA AccountStep ==
  ASSUME IInv, AccountInv, Step
  PROVE  AccountInv'
<1>0. ShapeInv /\ inv.pc \in Asking \cup Reranking \cup Closing \cup Closed
  BY DEF IInv, RecordInv, Asking, Reranking, Loaded, Judged, Ranking
<1>1. CASE Fail
  BY <1>0, <1>1, FailAccount
<1>2. CASE Wide /\ ~Fail
  BY <1>2, WideAccount
<1>3. CASE Rerank /\ ~Fail
  BY <1>3, RerankAccount
<1>4. CASE inv.pc \in Asking /\ ~Wide /\ ~Fail
  <2>1. AskingFrame
    BY <1>0, <1>4, AskingStep
  <2>2. inv.wide = "none" /\ inv.estimates = NoEstimates
    BY <1>4 DEF AccountInv, Asking, Closed
  <2>3. QED
    BY <2>1, <2>2 DEF AccountInv, AskingFrame
<1>5. CASE inv.pc \in Reranking /\ ~Rerank /\ ~Fail
  <2>1. /\ inv.pc = "rerank"
        /\ inv' = [inv EXCEPT !.receipt = CurrentReceipt, !.sent = TRUE, !.pc = "reranked"]
    BY <1>5 DEF Reranking, Step, BeginRank, BeginHook, Load, SelectSource, IngestNormalized,
       IngestTranscript, IngestHook, AnchorTask, LoadRoster, Explicit, ExplicitPolicy,
       ExplicitRoster, Admit, Retrieve, Render, Preview, Reuse, Send, Wide,
       ValidateRoster, ValidateSnoozes, ValidatePolicy, Finish, EmitCli, EmitHook
  <2>2. /\ inv'.pc = "reranked"
        /\ \A f \in Fields \ {"pc", "receipt", "sent"} : inv'[f] = inv[f]
    BY <1>0, <2>1, FieldNames DEF ShapeInv
  <2>3. /\ inv'.cmd = inv.cmd /\ inv'.used = inv.used /\ inv'.seen = inv.seen
        /\ inv'.cands = inv.cands /\ inv'.muted = inv.muted /\ inv'.short = inv.short
        /\ inv'.wide = inv.wide /\ inv'.need = inv.need /\ inv'.estimates = inv.estimates
        /\ inv'.reason = inv.reason /\ inv'.doc = inv.doc /\ inv'.skills = inv.skills
    BY <2>2, FieldNames
  <2>4. /\ inv.wide = "shortlist" /\ inv.cands # {} /\ inv.skills = <<>> /\ inv.reason # "failed"
        /\ inv.estimates = NoEstimates /\ inv.doc # "ranked" /\ Shortlisted
    BY <2>1 DEF AccountInv, Reranking, Ranking, Unadvised, Closed
  <2>5. Shortlisted'
    BY <2>2, <2>3, <2>4 DEF Shortlisted, Welcome, Excluded, Reranking
  <2>6. QED
    BY <2>2, <2>3, <2>4, <2>5 DEF AccountInv, Asking, Reranking
<1>6. CASE inv.pc \in Closing \cup Closed /\ ~Fail
  BY <1>0, <1>6, ClosingStep, CarriedAccount
<1>7. QED
  BY <1>0, <1>1, <1>2, <1>3, <1>4, <1>5, <1>6

\* The account holds throughout.
LEMMA AccountInvariance == Spec => [](IInv /\ AccountInv)
<1>1. Init => AccountInv
  <2> SUFFICES ASSUME Init PROVE AccountInv
    OBVIOUS
  <2>1. /\ inv.pc = "idle" /\ inv.wide = "none" /\ inv.estimates = NoEstimates
        /\ inv.skills = <<>> /\ inv.doc = "none" /\ inv.reason = "none"
    BY DEF Init, Idle
  <2>2. QED
    BY <2>1 DEF AccountInv, Asking, Reranking, Ranking, Unadvised
<1>2. IInv /\ AccountInv /\ [Next]_vars => AccountInv'
  <2> SUFFICES ASSUME IInv, AccountInv, [Next]_vars PROVE AccountInv'
    OBVIOUS
  <2>1. CASE Step
    BY <2>1, AccountStep
  <2>2. CASE inv' = inv
    <3>1. /\ Shortlisted' = Shortlisted /\ Declined' = Declined
      BY <2>2 DEF Shortlisted, Decided, Declined, Welcome, Advice, AfterRerank, AbstainReason,
         AdmitAmong, Excluded
    <3>2. QED
      BY <2>2, <3>1 DEF AccountInv
  <2>3. QED
    BY <2>1, <2>2 DEF Next, vars, Beside, EditUser, EditProject, EditSnooze, EditRoster,
       EditPriors, Expire
<1>3. QED
  BY <1>1, <1>2, InvariantHolds, PTL DEF Spec

\* The stage that a trace names is the first that did not pass.
LEMMA FirstStage ==
  ASSUME NEW S, S \subseteq 1 .. 6, S # {}
  PROVE  Min(S) \in S /\ \A i \in S : Min(S) <= i
<1>1. S \subseteq Nat
  OBVIOUS
<1>2. \E i \in S : \A j \in S : ~(<<j, i>> \in OpToRel(<, Nat))
  BY <1>1, NatLessThanWellFounded, WFMin
<1>3. PICK i \in S : \A j \in S : ~(j < i)
  BY <1>1, <1>2 DEF OpToRel
<1>4. \A j \in S : i =< j
  BY <1>1, <1>3
<1>5. QED
  BY <1>4 DEF Min

\* Every number of the policy in use is one.
LEMMA UsedTyped ==
  ASSUME IInv, inv.pc \in Loaded
  PROVE  \A key \in Numbers : inv.used[key] \in Int
<1>1. inv.cmd \in Commands
  BY DEF IInv, RecordInv, Loaded, Judged, Ranking, Closing
<1>2. PICK used \in Policies(inv.cmd) : inv.used = used.effective
  BY DEF IInv, PolicyInv
<1>3. QED
  BY <1>1, <1>2, PolicyTyped

\* The trace agrees with the advice: of a skill that is advised every stage but
\* the last passes, and the last alone can say that a skill was published.
LEMMA TraceHolds == IInv /\ AccountInv => TraceAgreesOnUnloaded
<1> SUFFICES ASSUME IInv, AccountInv, inv.pc = "validate", inv.doc = "ranked",
                    NEW s \in Skills \ (inv.cmd.loads \ inv.cmd.proven)
             PROVE  Explained(s)
  BY DEF TraceAgreesOnUnloaded
<1> DEFINE e == inv.estimates
           stages == <<TraceVisibility(s), TracePolicy(s), TraceRetrieval(s),
                       TraceShortlist(s), TraceFit(s), TraceOrdering(s)>>
           left == {i \in DOMAIN stages : stages[i] # "passed"}
<1>1. inv.reason # "failed"
  BY DEF AccountInv, Closed
<1>2. inv.wide = "shortlist" /\ Shortlisted /\ Decided
  BY <1>1 DEF AccountInv, Declined, Shortlisted, Reranking
<1>3. Advice \subseteq AfterRerank(inv.short, e, inv.used.fits)
  BY <1>2 DEF Decided
<1>4. /\ DOMAIN stages = 1 .. 6
      /\ stages[1] = TraceVisibility(s) /\ stages[2] = TracePolicy(s) /\ stages[3] = TraceRetrieval(s)
      /\ stages[4] = TraceShortlist(s) /\ stages[5] = TraceFit(s) /\ stages[6] = TraceOrdering(s)
  OBVIOUS
<1>5. stages[6] = IF s \in Advice THEN "published" ELSE "below-top-k"
  BY <1>4 DEF TraceOrdering, Advice
<1>6. TraceVisibility(s) # "published" /\ TracePolicy(s) # "published" /\ TraceRetrieval(s) # "published"
  BY DEF TraceVisibility, TracePolicy, TraceRetrieval
<1>7. TraceShortlist(s) # "published"
  BY <1>2 DEF TraceShortlist
<1>8. TraceFit(s) # "published"
  BY DEF TraceFit
<1>9. Trace(s) = stages[Min(left)]
  BY DEF Trace
<1>10. Min(left) \in left /\ \A i \in left : Min(left) <= i
  <2>1. left \subseteq 1 .. 6 /\ 6 \in left
    BY <1>4, <1>5
  <2>2. QED
    <3> HIDE DEF left
    <3> QED BY <2>1, FirstStage
<1>11. CASE s \notin Advice
  <2>1. \A i \in left : stages[i] # "published"
    BY <1>4, <1>5, <1>6, <1>7, <1>8, <1>11
  <2>2. QED
    <3> HIDE DEF left, stages
    <3> QED BY <1>9, <1>10, <1>11, <2>1 DEF Explained
<1>12. CASE s \in Advice
  <2>1. /\ s \in inv.short /\ s \in inv.cands /\ s \in Welcome
        /\ e.fit[s] >= inv.used.fits /\ e.rerank[s] > e.none
    <3>1. inv.short \subseteq inv.cands /\ inv.short \subseteq Welcome
      BY <1>2 DEF Shortlisted
    <3>2. AdmitAmong(inv.short).admitted = inv.short
      BY <3>1, WelcomeAreAdmitted
    <3>3. QED
      BY <1>3, <1>12, <3>1, <3>2 DEF AfterRerank
  <2>2. TraceVisibility(s) = "passed"
    BY <2>1 DEF TraceVisibility, Welcome
  <2>3. TracePolicy(s) = "passed"
    BY <2>1 DEF TracePolicy, Welcome
  <2>4. TraceRetrieval(s) = "passed"
    BY <2>1 DEF TraceRetrieval
  <2>5. TraceShortlist(s) = "passed"
    BY <1>2, <2>1 DEF TraceShortlist
  <2>6. TraceFit(s) = "passed"
    <3>1. s \in DOMAIN e.fit /\ e.fit[s] \in Int /\ e.rerank[s] \in Int /\ e.none \in Int
      BY <1>2, <2>1, RankAssumption DEF Decided
    <3>2. inv.used.fits \in Int
      <4>1. "fits" \in Numbers /\ inv.pc \in Loaded
        BY DEF Numbers, Loaded, Judged, Closing
      <4>2. QED
        BY <4>1, UsedTyped
    <3>3. ~(e.fit[s] < inv.used.fits) /\ ~(e.rerank[s] <= e.none)
      BY <2>1, <3>1, <3>2
    <3>4. QED
      BY <3>1, <3>3 DEF TraceFit
  <2>7. left = {6}
    BY <1>4, <1>5, <1>12, <2>2, <2>3, <2>4, <2>5, <2>6
  <2>8. Min(left) = 6
    BY <1>10, <2>7
  <2>9. QED
    <3> HIDE DEF left, stages
    <3> QED BY <1>5, <1>9, <1>12, <2>8 DEF Explained
<1>13. QED
  BY <1>11, <1>12

\* A ranking reads three numbers of its policy.
RankedBy(e, delta, top, w_fit, w_prior, eligible) ==
  LET value(s) == e.rerank[s] + w_fit * e.fit[s] + w_prior * delta[s]
      above(s, t) == value(s) > value(t) \/ (value(s) = value(t) /\ s < t)
      place(s) == Cardinality({t \in eligible : above(t, s)}) + 1
      n == Min({top, Cardinality(eligible)})
  IN  [i \in 1 .. n |-> CHOOSE s \in eligible : place(s) = i]

LEMMA RankedReads ==
  ASSUME NEW e, NEW delta, NEW p, NEW eligible
  PROVE  Ranked(e, delta, p, eligible) = RankedBy(e, delta, p.top, p.w_fit, p.w_prior, eligible)
BY DEF Ranked, Above, Utility, RankedBy

\* The three records a published decision can leave: nothing was answered, the
\* wide answer alone was, or both were.
Silent == inv.wide = "none" /\ inv.estimates = NoEstimates /\ inv.doc # "ranked"
Answered == inv.wide = "shortlist" /\ Shortlisted /\ Decided

LEMMA RecordsAre ==
  ASSUME AccountInv, Saved
  PROVE  Silent \/ (inv.wide = "low-need" /\ Declined) \/ Answered
BY DEF AccountInv, Saved, Silent, Answered, Shortlisted, Reranking

\* What the case of each of them holds.
LEMMA SilentCase ==
  ASSUME Silent
  PROVE  /\ Case.wide = "missing" /\ Case.rerank = "missing" /\ Case.eligible = inv.cands
         /\ \/ Case.stages = <<>>
            \/ /\ inv.cands # {}
               /\ Case.stages = <<[stage |-> "wide", options |-> inv.cands, answer |-> "missing"]>>
<1>1. WideAnswer = "missing" /\ RerankAnswer = "missing"
  BY DEF Silent, WideAnswer, RerankAnswer, NoEstimates
<1>2. FrozenStages = IF inv.cands # {} THEN <<[stage |-> "wide", options |-> inv.cands, answer |-> "missing"]>>
                     ELSE <<>>
  BY <1>1 DEF Silent, FrozenStages
<1>3. QED
  BY <1>1, <1>2 DEF Case, PreFitEligible

LEMMA DeclinedCase ==
  ASSUME inv.wide = "low-need", Declined
  PROVE  /\ Case.wide = "received" /\ Case.rerank = "missing" /\ Case.eligible = inv.cands
         /\ Case.stages = <<[stage |-> "wide", options |-> inv.cands, answer |-> "received"]>>
<1>1. WideAnswer = "received" /\ RerankAnswer = "missing"
  BY DEF Declined, WideAnswer, RerankAnswer, NoEstimates
<1>2. FrozenStages = <<[stage |-> "wide", options |-> inv.cands, answer |-> "received"]>>
  BY <1>1 DEF Declined, FrozenStages
<1>3. QED
  BY <1>1, <1>2 DEF Case, PreFitEligible

LEMMA AnsweredCase ==
  ASSUME Answered
  PROVE  /\ Case.wide = "received" /\ Case.rerank = "received" /\ Case.eligible = inv.short
         /\ Case.stages = <<[stage |-> "wide", options |-> inv.cands, answer |-> "received"],
                            [stage |-> "rerank", options |-> inv.short, answer |-> "received"]>>
<1>1. WideAnswer = "received" /\ RerankAnswer = "received"
  <2>1. DOMAIN inv.estimates.fit = inv.short /\ inv.short # {}
    BY DEF Answered, Decided, Shortlisted
  <2>2. QED
    BY <2>1 DEF Answered, WideAnswer, RerankAnswer
<1>2. FrozenStages = <<[stage |-> "wide", options |-> inv.cands, answer |-> "received"],
                       [stage |-> "rerank", options |-> inv.short, answer |-> "received"]>>
  <2> DEFINE first == [stage |-> "wide", options |-> inv.cands, answer |-> "received"]
             second == [stage |-> "rerank", options |-> inv.short, answer |-> "received"]
  <2>1. FrozenStages = <<first>> \o <<second>>
    BY <1>1 DEF Answered, Shortlisted, FrozenStages
  <2>2. <<first>> \o <<second>> = <<first, second>>
    <3> DEFINE joined == <<first>> \o <<second>>
    <3> HIDE DEF first, second
    <3>1. /\ joined \in Seq({first, second}) /\ Len(joined) = 2
          /\ joined[1] = first /\ joined[2] = second
      OBVIOUS
    <3> HIDE DEF joined
    <3>2. joined = <<first, second>>
      BY <3>1
    <3>3. QED
      BY <3>2 DEF joined
  <2>3. QED
    BY <2>1, <2>2
<1>3. AdmitAmong(inv.short).admitted = inv.short
  BY WelcomeAreAdmitted DEF Answered, Shortlisted
<1>4. QED
  BY <1>1, <1>2, <1>3 DEF Case, PreFitEligible

\* The remaining fields of every case.
LEMMA CaseFields ==
  /\ Case.need = inv.need /\ Case.answers = inv.estimates /\ Case.candidates = inv.cands
  /\ Case.priors = inv.frozen
  /\ Case.history.doc = inv.doc /\ Case.history.reason = inv.reason /\ Case.history.skills = inv.skills
  /\ Case.history = [doc |-> inv.doc, reason |-> inv.reason, skills |-> inv.skills]
  /\ Policy(Case, Recorded).gate = inv.used.gate /\ Policy(Case, Recorded).fits = inv.used.fits
  /\ Policy(Case, Recorded).top = inv.used.top /\ Policy(Case, Recorded).w_fit = inv.used.w_fit
  /\ Policy(Case, Recorded).w_prior = inv.used.w_prior
BY DEF Case, Policy, Recorded, Scoring, Keep

\* Every saved case validates.
LEMMA CasesAreValid ==
  ASSUME Silent \/ (inv.wide = "low-need" /\ Declined) \/ Answered
  PROVE  ValidCase(Case)
<1>1. CASE Silent
  <2>1. DOMAIN Case.answers.fit = {} /\ DOMAIN Case.answers.rerank = {}
    BY <1>1, CaseFields DEF Silent, NoEstimates
  <2>2. CASE Case.stages = <<>>
    BY <1>1, <2>1, <2>2, SilentCase, CaseFields DEF ValidCase, ValidFrozen, ValidStage
  <2>3. CASE Case.stages = <<[stage |-> "wide", options |-> inv.cands, answer |-> "missing"]>> /\ inv.cands # {}
    BY <1>1, <2>1, <2>3, SilentCase, CaseFields DEF ValidCase, ValidFrozen, ValidStage
  <2>4. QED
    BY <1>1, <2>2, <2>3, SilentCase
<1>2. CASE inv.wide = "low-need" /\ Declined
  <2>1. DOMAIN Case.answers.fit = {} /\ DOMAIN Case.answers.rerank = {} /\ inv.cands # {}
    BY <1>2, CaseFields DEF Declined, NoEstimates
  <2>2. QED
    BY <1>2, <2>1, DeclinedCase, CaseFields DEF ValidCase, ValidFrozen, ValidStage
<1>3. CASE Answered
  <2>1. /\ DOMAIN Case.answers.fit = inv.short /\ DOMAIN Case.answers.rerank = inv.short
        /\ inv.cands # {} /\ inv.short # {} /\ inv.short \subseteq inv.cands
    BY <1>3, CaseFields DEF Answered, Decided, Shortlisted
  <2> DEFINE first == [stage |-> "wide", options |-> inv.cands, answer |-> "received"]
             second == [stage |-> "rerank", options |-> inv.short, answer |-> "received"]
  <2>2. /\ DOMAIN Case.stages = {1, 2} /\ Len(Case.stages) = 2
        /\ Case.stages[1] = first /\ Case.stages[2] = second
    BY <1>3, AnsweredCase
  <2>3. ValidStage(Case, 1) /\ ValidStage(Case, 2)
    BY <1>3, <2>1, <2>2, AnsweredCase, CaseFields DEF ValidStage
  <2>4. QED
    BY <1>3, <2>1, <2>2, <2>3, AnsweredCase, CaseFields DEF ValidCase, ValidFrozen
<1>4. QED
  BY <1>1, <1>2, <1>3

\* The replay's second implementation of the stages judges a shortlist as the
\* ranking does.
LEMMA SurvivorsAre ==
  ASSUME Answered, NEW p
  PROVE  LET e == inv.estimates
             left == Survivors(Case, p)
         IN  /\ left.admitted = inv.short /\ inv.short # {}
             /\ left.eligible = AfterRerank(inv.short, e, p.fits)
             /\ AbstainReason(inv.short, e, p.fits)
                  = IF left.fitting # {} THEN "no-shortlist-match" ELSE "low-fit"
<1> DEFINE e == inv.estimates
           left == Survivors(Case, p)
<1>1. /\ DOMAIN e.fit = inv.short /\ inv.short # {}
      /\ AdmitAmong(inv.short).admitted = inv.short
  BY WelcomeAreAdmitted DEF Answered, Decided, Shortlisted
<1>2. /\ left.admitted = inv.short
      /\ left.fitting = {s \in inv.short : e.fit[s] >= p.fits}
      /\ left.eligible = {s \in left.fitting : e.rerank[s] > e.none}
  BY <1>1, AnsweredCase, CaseFields DEF Survivors
<1>3. AfterRerank(inv.short, e, p.fits) = {s \in inv.short : e.fit[s] >= p.fits /\ e.rerank[s] > e.none}
  BY <1>1 DEF AfterRerank
<1>4. AbstainReason(inv.short, e, p.fits)
        = IF left.fitting # {} THEN "no-shortlist-match" ELSE "low-fit"
  BY <1>1, <1>2 DEF AbstainReason
<1>5. QED
  BY <1>1, <1>2, <1>3, <1>4

\* A replay under the recorded policy reproduces the decision.
LEMMA Reproduces == AccountInv => ReplayReproduces
<1> SUFFICES ASSUME AccountInv, Saved
             PROVE  LET r == ExecuteReplay(Case, Recorded)
                    IN  /\ ValidCase(Case) /\ r.status = "complete"
                        /\ (inv.doc = "ranked" => inv.scored = inv.frozen) =>
                             /\ r.parity # "failed"
                             /\ [doc |-> r.doc, reason |-> r.reason, skills |-> r.skills] = Case.history
  BY DEF ReplayReproduces
<1> DEFINE r == ExecuteReplay(Case, Recorded)
           p == Policy(Case, Recorded)
<1>1. Silent \/ (inv.wide = "low-need" /\ Declined) \/ Answered
  BY RecordsAre
<1>2. ValidCase(Case)
  BY <1>1, CasesAreValid
<1>3. ASSUME Case.wide = "missing" \/ inv.doc \notin {"ranked", "abstain"}
      PROVE  /\ r.status = "complete" /\ r.parity # "failed"
             /\ [doc |-> r.doc, reason |-> r.reason, skills |-> r.skills] = Case.history
  <2>1. Case.wide \in {"missing", "received"}
    BY <1>1, SilentCase, DeclinedCase, AnsweredCase
  <2>2. r = Outcome("complete", "not-applicable", inv.doc, inv.reason, inv.skills)
    BY <1>3, <2>1, CaseFields DEF ExecuteReplay
  <2>3. QED
    BY <2>2, CaseFields DEF Outcome
<1>4. ASSUME ExactCompatible(Case),
             r = Complete(Case, Recorded, inv.doc, inv.reason, inv.skills)
      PROVE  /\ r.status = "complete" /\ r.parity # "failed"
             /\ [doc |-> r.doc, reason |-> r.reason, skills |-> r.skills] = Case.history
  <2>1. Parity(Case, Recorded, inv.doc, inv.reason, inv.skills) = "passed"
    BY <1>4, CaseFields DEF Parity
  <2>2. QED
    BY <1>4, <2>1, CaseFields DEF Complete, Outcome
<1>5. CASE Silent
  BY <1>2, <1>3, <1>5, SilentCase
<1>6. CASE inv.wide = "low-need" /\ Declined /\ inv.doc \in {"ranked", "abstain"}
  <2>1. /\ Case.wide = "received" /\ inv.need < p.gate
        /\ inv.doc = "abstain" /\ inv.reason = "low-need" /\ inv.skills = <<>>
    BY <1>6, DeclinedCase, CaseFields DEF Declined
  <2>2. r = Complete(Case, Recorded, "abstain", "low-need", <<>>)
    BY <1>6, <2>1, CaseFields DEF ExecuteReplay
  <2>3. ExactCompatible(Case)
    BY <1>6, DeclinedCase DEF ExactCompatible
  <2>4. QED
    BY <1>2, <1>4, <2>1, <2>2, <2>3
<1>7. CASE Answered /\ inv.doc \in {"ranked", "abstain"}
  <2> DEFINE e == inv.estimates
             left == Survivors(Case, p)
             eligible == AfterRerank(inv.short, e, inv.used.fits)
  <2>1. ExactCompatible(Case)
    BY <1>7, AnsweredCase DEF ExactCompatible
  <2>2. r = ReplayRerank(Case, Recorded)
    <3>1. Case.wide = "received" /\ Case.rerank = "received" /\ ~(Case.need < p.gate)
      BY <1>7, AnsweredCase, CaseFields DEF Answered, Shortlisted
    <3>2. QED
      BY <1>7, <3>1, CaseFields DEF ExecuteReplay
  <2>3. /\ left.admitted # {} /\ left.eligible = eligible
        /\ AbstainReason(inv.short, e, inv.used.fits)
             = IF left.fitting # {} THEN "no-shortlist-match" ELSE "low-fit"
    BY <1>7, SurvivorsAre, CaseFields
  <2>4. /\ inv.doc = IF eligible = {} THEN "abstain" ELSE "ranked"
        /\ inv.reason = IF eligible = {} THEN AbstainReason(inv.short, e, inv.used.fits)
                        ELSE "eligible-candidates"
        /\ inv.skills = IF eligible = {} THEN <<>> ELSE Ranked(e, inv.scored, inv.used, eligible)
    BY <1>7 DEF Answered, Decided
  <2>5. Ranked(e, inv.frozen, p, eligible) = Ranked(e, inv.frozen, inv.used, eligible)
    BY RankedReads, CaseFields
  <2>6. CASE eligible = {}
    <3>1. r = Complete(Case, Recorded, inv.doc, inv.reason, inv.skills)
      <4> HIDE DEF left, eligible
      <4> QED BY <2>2, <2>3, <2>4, <2>6 DEF ReplayRerank, left
    <3>2. QED
      BY <1>2, <1>4, <2>1, <3>1
  <2>7. CASE eligible # {}
    <3>1. r = Complete(Case, Recorded, "ranked", "eligible-candidates",
                       Ranked(e, inv.frozen, p, eligible))
      <4> HIDE DEF left, eligible
      <4> QED BY <2>2, <2>3, <2>7, CaseFields DEF ReplayRerank, left
    <3>2. r.status = "complete"
      BY <3>1 DEF Complete, Outcome
    <3>3. inv.scored = inv.frozen => r = Complete(Case, Recorded, inv.doc, inv.reason, inv.skills)
      <4> HIDE DEF eligible
      <4> QED BY <2>4, <2>5, <2>7, <3>1
    <3>4. inv.doc = "ranked"
      BY <2>4, <2>7
    <3>5. QED
      BY <1>2, <1>4, <2>1, <3>2, <3>3, <3>4
  <2>8. QED
    BY <2>6, <2>7
<1>8. CASE inv.doc \notin {"ranked", "abstain"}
  BY <1>2, <1>3, <1>8
<1>9. QED
  BY <1>1, <1>5, <1>6, <1>7, <1>8

\* A complete replay under another policy says what the ranking would have.
LEMMA Predicts == AccountInv => ReplayPredicts
<1> SUFFICES ASSUME AccountInv, Saved, inv.wide # "none", inv.doc \in {"ranked", "abstain"},
                    NEW o \in Overrides, ExecuteReplay(Case, o).status = "complete"
             PROVE  LET r == ExecuteReplay(Case, o)
                    IN  [doc |-> r.doc, reason |-> r.reason, skills |-> r.skills] = Live(Policy(Case, o))
  BY DEF ReplayPredicts
<1> DEFINE r == ExecuteReplay(Case, o)
           p == Policy(Case, o)
<1>1. (inv.wide = "low-need" /\ Declined) \/ Answered
  BY RecordsAre DEF Silent
<1>2. Case.wide = "received"
  BY <1>1, DeclinedCase, AnsweredCase
<1>3. r = IF inv.need < p.gate THEN Complete(Case, o, "abstain", "low-need", <<>>)
          ELSE IF Case.rerank = "missing" THEN Partial ELSE ReplayRerank(Case, o)
  BY <1>2, CaseFields DEF ExecuteReplay
<1>4. CASE inv.need < p.gate
  BY <1>3, <1>4 DEF Complete, Outcome, Live
<1>5. CASE ~(inv.need < p.gate) /\ inv.wide = "low-need" /\ Declined
  <2>1. r = Partial
    BY <1>3, <1>5, DeclinedCase
  <2>2. QED
    BY <2>1 DEF Partial, Outcome
<1>6. CASE ~(inv.need < p.gate) /\ Answered
  <2> DEFINE e == inv.estimates
             left == Survivors(Case, p)
             eligible == AfterRerank(inv.short, e, p.fits)
  <2>1. r = ReplayRerank(Case, o)
    BY <1>3, <1>6, AnsweredCase
  <2>2. /\ left.admitted # {} /\ left.eligible = eligible
        /\ AbstainReason(inv.short, e, p.fits)
             = IF left.fitting # {} THEN "no-shortlist-match" ELSE "low-fit"
    BY <1>6, SurvivorsAre
  <2>3. r = IF eligible # {}
            THEN Complete(Case, o, "ranked", "eligible-candidates", Ranked(e, inv.frozen, p, eligible))
            ELSE Complete(Case, o, "abstain", AbstainReason(inv.short, e, p.fits), <<>>)
    <3> HIDE DEF left, eligible
    <3> QED BY <2>1, <2>2, CaseFields DEF ReplayRerank, left
  <2>4. Live(p) = IF eligible = {}
                  THEN [doc |-> "abstain", reason |-> AbstainReason(inv.short, e, p.fits), skills |-> <<>>]
                  ELSE [doc |-> "ranked", reason |-> "eligible-candidates",
                        skills |-> Ranked(e, inv.frozen, p, eligible)]
    BY <1>6 DEF Live
  <2>5. QED
    <3> HIDE DEF eligible
    <3> QED BY <2>3, <2>4 DEF Complete, Outcome
<1>7. QED
  BY <1>1, <1>4, <1>5, <1>6

\* The accounts of every ranking agree, whatever the command, the files, the
\* answers and the edits beside it: what --why-not says of a skill is what became
\* of it, a saved case validates and reproduces its decision, and a replay under
\* another policy predicts what the ranking would have decided
\* (compute_stage_trace, capture, execute_replay).
THEOREM AccountsHold == Spec => []AccountsAgree
<1>1. IInv /\ AccountInv => AccountsAgree
  BY TraceHolds, Reproduces, Predicts DEF AccountsAgree
<1>2. QED
  BY <1>1, AccountInvariance, PTL

=============================================================================
