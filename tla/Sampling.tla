------------------------------- MODULE Sampling -------------------------------
(***************************************************************************)
(* Stratified samples of a labelled frame (src/evaluation/stratified.rs):  *)
(* one representative case per task family, strata formed from what is     *)
(* observable before any outcome, sample sizes allocated to the strata     *)
(* with exact integer arithmetic, the draw, and the verification of a      *)
(* frozen manifest against a frame.                                        *)
(*                                                                         *)
(* A case record has a key [frame, family, case, replicate, policy], a     *)
(* split, the size of its roster, its prompt summary ("text", "blank",     *)
(* "none") and whether its ranking failed operationally.  A stratum is a   *)
(* pair of numbers ordered like its string key.  A digest is modelled by   *)
(* the value it is computed over, a probability by a pair of counts.       *)
(***************************************************************************)
EXTENDS Integers, Sequences, FiniteSets, FiniteSetsExt, Functions

CONSTANT OVERFLOW  \* the largest roster sent whole

NoProbability == <<>>
NoAllocation == <<>>

(*********************** Families, strata, the frame ***********************)

\* No task family spans two splits: verify_split_isolation, and again when
\* representatives are selected.
Isolated(cases) ==
  \A c, d \in cases : c.key.family = d.key.family => c.split = d.split

Precedes(a, b, rule) ==
  LET caseFirst == a.key.case < b.key.case \/ (a.key.case = b.key.case /\ a.key.replicate <= b.key.replicate)
      replicateFirst == a.key.replicate < b.key.replicate
                        \/ (a.key.replicate = b.key.replicate /\ a.key.case <= b.key.case)
  IN IF rule = "first-by-case-id-replicate" THEN caseFirst ELSE replicateFirst

Representatives(cases, split, rule) ==
  LET mine == {c \in cases : c.split = split}
  IN {CHOOSE c \in {d \in mine : d.key.family = f} :
        \A d \in mine : d.key.family = f => Precedes(c, d, rule) : f \in {c.key.family : c \in mine}}

\* ObservableStratum::classify; 1, 2, 3 stand for normal, overflow, unknown
\* and for complete, degraded, unknown.
Stratum(c) ==
  LET nothing == c.roster = 0 /\ c.failed
  IN <<IF nothing THEN 3 ELSE IF c.roster > OVERFLOW THEN 2 ELSE 1,
       IF c.summary = "text" THEN 1 ELSE IF c.summary = "none" /\ nothing THEN 3 ELSE 2>>

Strata(reps) == [s \in {Stratum(c) : c \in reps} |-> {c \in reps : Stratum(c) = s}]

FrameDigest(cases) ==
  {[key |-> c.key, split |-> c.split, roster |-> c.roster, stratum |-> Stratum(c),
    failed |-> c.failed] : c \in cases}

StratumBefore(s, t) == s[1] < t[1] \/ (s[1] = t[1] /\ s[2] < t[2])

(******************************* Allocation ********************************)

Smaller(a, b) == IF a < b THEN a ELSE b
Larger(a, b) == IF a < b THEN b ELSE a

\* Strata whose proportional quota falls below their capped floor are fixed
\* at it, again and again; the rest share what remains by largest remainder.
Constrained(active, remaining, population, sizes, floor) ==
  {h \in active : remaining * sizes[h] < Smaller(floor, sizes[h]) * population}

\* What the strata outside active, fixed at their floors, leave of the target.
Remaining(active, sizes, target, floor) ==
  target - MapThenSumSet(LAMBDA h : Smaller(floor, sizes[h]), DOMAIN sizes \ active)

OpenStrata(sizes, target, floor) ==
  LET Open[active \in SUBSET DOMAIN sizes] ==
        LET bound == Constrained(active, Remaining(active, sizes, target, floor),
                                 SumFunctionOnSet(sizes, active), sizes, floor)
        IN IF bound = {} THEN active ELSE Open[active \ bound]
  IN Open[DOMAIN sizes]

ByRemainder(sizes, floor, open, remaining, population) ==
  LET Quota(h) == (remaining * sizes[h]) \div population
      Remainder(h) == (remaining * sizes[h]) % population
      spare == remaining - MapThenSumSet(Quota, open)
      Ahead(h) == {g \in open : \/ Remainder(g) > Remainder(h)
                                \/ Remainder(g) = Remainder(h) /\ StratumBefore(g, h)}
  IN [h \in DOMAIN sizes |->
        IF h \notin open THEN Smaller(floor, sizes[h])
        ELSE Quota(h) + IF Cardinality(Ahead(h)) < spare THEN 1 ELSE 0]

ProportionalAllocation(sizes, target, floor, open) ==
  ByRemainder(sizes, floor, open, Remaining(open, sizes, target, floor), SumFunctionOnSet(sizes, open))

\* allocate_sample_sizes, by the proportional method that a frame sample uses.
AllocateUpTo(sizes, target, population, floor) ==
  IF DOMAIN sizes = {} THEN NoAllocation
  ELSE IF target < MapThenSumSet(LAMBDA h : Smaller(sizes[h], floor), DOMAIN sizes) THEN NoAllocation
  ELSE IF target = population THEN sizes
  ELSE ProportionalAllocation(sizes, target, floor, OpenStrata(sizes, target, floor))

AllocateSampleSizes(sizes, wanted, floor) ==
  AllocateUpTo(sizes, Smaller(wanted, SumFunction(sizes)), SumFunction(sizes), Larger(floor, 1))

(*************************** The frozen manifest ***************************)

DesignStatus(census, provenance) ==
  IF census THEN "census" ELSE IF provenance = "os-random" THEN "probability" ELSE "diagnostic"

\* Every manifest a draw may freeze: the generator picks any sample of the
\* allocated size in each stratum.
Frozen(reps, strata, sizes, allocated, design, split, provenance, rule) ==
  LET Probability(s) == IF design = "diagnostic" THEN NoProbability ELSE <<allocated[s], sizes[s]>>
      Picks == {p \in [DOMAIN strata -> SUBSET reps] :
                  \A s \in DOMAIN strata : p[s] \in kSubset(allocated[s], strata[s])}
  IN {[frame |-> FrameDigest(reps), split |-> split, rule |-> rule, design |-> design,
       provenance |-> provenance, families |-> Cardinality(reps),
       strata |-> [s \in DOMAIN strata |-> [population |-> sizes[s], sample |-> allocated[s],
                                            probability |-> Probability(s)]],
       selected |-> UNION {{[key |-> c.key, stratum |-> s, probability |-> Probability(s)] : c \in p[s]} :
                           s \in DOMAIN strata}] : p \in Picks}

DrawsFrom(reps, strata, sizes, allocated, split, provenance, rule) ==
  IF reps = {} \/ allocated = NoAllocation \/ (provenance = "census" /\ allocated # sizes) THEN {}
  ELSE Frozen(reps, strata, sizes, allocated, DesignStatus(allocated = sizes, provenance),
              split, provenance, rule)

StratumSizes(strata) == [s \in DOMAIN strata |-> Cardinality(strata[s])]
Draws(reps, strata, split, size, provenance, rule) ==
  DrawsFrom(reps, strata, StratumSizes(strata), AllocateSampleSizes(StratumSizes(strata), size, 1),
            split, provenance, rule)

StrataVerified(manifest, strata) ==
  /\ DOMAIN manifest.strata = DOMAIN strata
  /\ \A s \in DOMAIN strata :
       LET a == manifest.strata[s]
       IN /\ a.population = Cardinality(strata[s])
          /\ a.sample \in 1..a.population
          /\ a.probability = IF manifest.design = "diagnostic" THEN NoProbability
                             ELSE <<a.sample, a.population>>

EntriesVerified(manifest, reps) ==
  /\ \A e, o \in manifest.selected : e.key.family = o.key.family => e = o
  /\ \A e \in manifest.selected :
       \E c \in reps : /\ c.key = e.key
                       /\ Stratum(c) = e.stratum
                       /\ e.probability = manifest.strata[e.stratum].probability
  /\ \A s \in DOMAIN manifest.strata :
       Cardinality({e \in manifest.selected : e.stratum = s}) = manifest.strata[s].sample

\* verify_manifest_against_frame, for the representatives of its split.
Verified(manifest, cases, reps) ==
  /\ ~(manifest.design = "probability" /\ manifest.provenance # "os-random")
  /\ Isolated(cases)
  /\ reps # {}
  /\ FrameDigest(reps) = manifest.frame
  /\ manifest.families = Cardinality(reps)
  /\ StrataVerified(manifest, Strata(reps))
  /\ EntriesVerified(manifest, reps)
  /\ (manifest.design = "census" => Cardinality(manifest.selected) = manifest.families)
  /\ (manifest.provenance = "census" => manifest.design = "census")

\* freeze_frame_sample: one split, a positive size; a sample that covers
\* every family draws no seed.  The draw is checked against its own frame.
Provenance(request, reps) ==
  IF request.seeded THEN "manual"
  ELSE IF request.size >= Cardinality(reps) THEN "census" ELSE "os-random"

SampleOf(reps, split, request, rule) ==
  {m \in Draws(reps, Strata(reps), split, request.size, Provenance(request, reps), rule) :
     Verified(m, reps, Representatives(reps, m.split, m.rule))}

FrameSamples(cases, request) ==
  IF \/ request.size = 0
     \/ Cardinality({c.split : c \in cases}) # 1
     \/ Cardinality({c.key.policy : c \in cases}) # 1
     \/ ~Isolated(cases)
  THEN {}
  ELSE UNION {SampleOf(Representatives(cases, split, "first-by-case-id-replicate"), split, request,
                       "first-by-case-id-replicate") : split \in {c.split : c \in cases}}
===============================================================================
