--------------------------- MODULE HomophilyPairs ---------------------------
(***************************************************************************)
(* What a content-homophily analysis compares                               *)
(* (services/content_homophily_service.py): videos are selected within a    *)
(* transcript budget, pairs are sampled from them, transcripts and          *)
(* embeddings are collected for the pairs, and a video without one is       *)
(* replaced by a peer of its community.                                     *)
(*                                                                          *)
(* Videos and communities are numbers, so that sorting is their order.  A   *)
(* random sample is any sample; so are the selected members, because which  *)
(* transcripts are on disk is not known.  What a fetch or an embedding      *)
(* yields is decided when it is asked for.  The vectors are not modelled.   *)
(***************************************************************************)
EXTENDS Integers, Sequences, FiniteSets

CONSTANTS
  NumVideos, NumCommunities,
  MaxPerCommunity, \* max_videos_per_community
  MaxTranscripts,  \* max_transcript_videos
  MaxPairs,        \* max_pair_cap, with a sampling_fraction of 1
  FetchBudget,     \* replacement_budget: at least 20 in the code
  MaxSweeps        \* MAX_REPLACEMENT_SWEEPS

ASSUME HomophilyAssumption ==
  /\ {NumVideos, NumCommunities, MaxPerCommunity, MaxTranscripts, MaxPairs, MaxSweeps}
       \subseteq Nat \ {0}
  /\ FetchBudget \in Nat

VARIABLES
  label,   \* the community of each video
  stage,   \* where the pipeline is
  grant,   \* the call of _allocate_balanced that the stage waits for
  share,   \* history: what the selection gave each community
  pairs,   \* within_pairs, then between_pairs
  drawn,   \* history: the pairs as they were sampled
  vectors, \* videos with an embedding
  missing, \* known_missing
  subst,   \* replacement_map, 0 where there is none
  side,    \* the pair and the side the sweep is at
  sweep, progress, fetches,
  refused  \* history: how often a video had no transcript when asked

pairVars == <<label, stage, grant, share, pairs, drawn, vectors, missing, subst, side, sweep,
              progress, fetches, refused>>

Clips == 1..NumVideos
Groups == 1..NumCommunities
Lesser(a, b) == IF a < b THEN a ELSE b

Members(g) == {v \in Clips : label[v] = g}
\* capped_groups: the first videos of each community.
Capped(g) == {v \in Members(g) :
                Cardinality({w \in Members(g) : w < v}) < MaxPerCommunity}

\* A stratum is a pair of communities, twice the same for one community.
Diagonal == {<<g, g>> : g \in Groups}
Across == {s \in Groups \X Groups : s[1] < s[2]}
Stratum(p) == <<label[p[1]], label[p[2]]>>
Before(s, r) == s[1] < r[1] \/ (s[1] = r[1] /\ s[2] < r[2])

\* The sum of a function of strata, unit by unit.
Units(f) == UNION {{s} \X (1..f[s]) : s \in DOMAIN f}
Sum(f) == Cardinality(Units(f))

-----------------------------------------------------------------------------
(* _allocate_balanced: round after round, every stratum with capacity left  *)
(* takes an equal share of what remains, at least one, in order.            *)

Call(capacity, limit) ==
  [capacity |-> capacity, got |-> [s \in DOMAIN capacity |-> 0],
   left |-> Lesser(limit, Sum(capacity)), even |-> 0, todo |-> {}]

Active == {s \in DOMAIN grant.got : grant.got[s] < grant.capacity[s]}

\* Mutant: the next stratum takes what it can.
WholeRest(left, n) == left
EvenShare(left, n) == IF left >= n THEN left \div n ELSE 1

\* The loop ends: nothing is left over, or nobody can take more.
Allocated == grant.left = 0 \/ (grant.todo = {} /\ Active = {})
Waiting == stage \in {"select", "within", "between"}

StartRound ==
  /\ Waiting /\ grant.left > 0 /\ grant.todo = {} /\ Active # {}
  /\ grant' = [grant EXCEPT !.todo = Active,
                             !.even = EvenShare(grant.left, Cardinality(Active))]

Serve(s) ==
  /\ Waiting /\ grant.left > 0 /\ s \in grant.todo
  /\ \A r \in grant.todo : r = s \/ Before(s, r)
  /\ LET take == Lesser(grant.even,
                       Lesser(grant.capacity[s] - grant.got[s], grant.left))
     IN grant' = [grant EXCEPT !.got[s] = @ + take, !.left = @ - take,
                               !.todo = @ \ {s}]

Allocate ==
  /\ StartRound \/ \E s \in grant.todo : Serve(s)
  /\ UNCHANGED <<label, stage, share, pairs, drawn, vectors, missing, subst, side, sweep,
                 progress, fetches, refused>>

-----------------------------------------------------------------------------
Available == [s \in Diagonal |-> Cardinality(Capped(s[1]))]

\* The pairs of some strata whose videos are among those selected.
Pool(strata, chosen) ==
  {p \in chosen \X chosen : /\ Stratum(p) \in strata
                            /\ label[p[1]] = label[p[2]] => p[1] < p[2]}
PairsOf(strata, chosen) == [s \in strata |-> Cardinality(Pool({s}, chosen))]

PairTypeOK ==
  /\ label \in [Clips -> Groups] /\ refused \in [Clips -> Nat]
  /\ stage \in {"select", "within", "between", "collect", "replace", "observed",
                "insufficient"}
  /\ grant.got \in [DOMAIN grant.capacity -> Nat] /\ grant.left \in Nat
  /\ share \in [DOMAIN share -> Nat]
  /\ pairs \in Seq(Clips \X Clips) /\ drawn \in Seq(Clips \X Clips)
  /\ Len(pairs) = Len(drawn)
  /\ vectors \subseteq Clips /\ missing \subseteq Clips /\ vectors \cap missing = {}
  /\ subst \in [Clips -> Clips \cup {0}] /\ side \in Nat \X {1, 2}
  /\ sweep \in 1..MaxSweeps /\ progress \in BOOLEAN /\ fetches \in 0..FetchBudget

PairInit ==
  /\ label \in [Clips -> Groups] /\ stage = "select" /\ share = <<>>
  /\ grant = Call(Available, MaxTranscripts)
  /\ pairs = <<>> /\ drawn = <<>> /\ vectors = {} /\ missing = {}
  /\ subst = [v \in Clips |-> 0] /\ side = <<1, 1>>
  /\ sweep = 1 /\ progress = FALSE /\ fetches = 0
  /\ refused = [v \in Clips |-> 0]

\* _select_bounded_videos; `vectors` serves as the selection until then.
Select ==
  /\ stage = "select" /\ Allocated /\ share' = grant.got
  /\ \E chosen \in SUBSET UNION {Capped(g) : g \in Groups} :
       /\ \A g \in Groups : Cardinality(chosen \cap Members(g)) = share'[<<g, g>>]
       /\ vectors' = chosen
       /\ stage' = IF Cardinality(chosen) < 2 THEN "insufficient" ELSE "within"
       /\ grant' = Call(PairsOf(Diagonal, chosen), MaxPairs)
  /\ UNCHANGED <<label, pairs, drawn, missing, subst, side, sweep, progress, fetches,
                 refused>>

-----------------------------------------------------------------------------
(* PairSamplingService.                                                     *)

\* _draw, stratum by stratum: as many different pairs as were allocated.
Draws ==
  {d \in [1..Sum(grant.got) -> Pool(DOMAIN grant.got, vectors)] :
     /\ \A i, j \in DOMAIN d : i < j =>
          /\ d[i] # d[j]
          /\ Stratum(d[i]) = Stratum(d[j]) \/ Before(Stratum(d[i]), Stratum(d[j]))
     /\ \A s \in DOMAIN grant.got :
          Cardinality({i \in DOMAIN d : Stratum(d[i]) = s}) = grant.got[s]}

\* sample_within and then sample_between.
SamplePairs ==
  /\ stage \in {"within", "between"} /\ Allocated
  /\ \E d \in Draws : pairs' = pairs \o d /\ drawn' = drawn \o d
  /\ IF stage = "within"
     THEN stage' = "between" /\ grant' = Call(PairsOf(Across, vectors), MaxPairs)
     ELSE stage' = "collect" /\ UNCHANGED grant
  /\ UNCHANGED <<label, share, vectors, missing, subst, side, sweep, progress, fetches,
                 refused>>

Needed == UNION {{pairs[i][1], pairs[i][2]} : i \in DOMAIN pairs}

\* Transcripts and embeddings of the pairs' videos.
CollectTexts ==
  /\ stage = "collect"
  /\ \E texts \in SUBSET Needed, made \in SUBSET Needed :
       /\ made \subseteq texts
       /\ vectors' = made /\ missing' = Needed \ texts
       /\ refused' = [v \in Clips |-> IF v \in Needed \ texts THEN 1 ELSE 0]
       /\ stage' = IF Cardinality(made) < 2 THEN "insufficient" ELSE "replace"
  /\ UNCHANGED <<label, grant, share, pairs, drawn, subst, side, sweep, progress, fetches>>

-----------------------------------------------------------------------------
(* _run_replacement_sampling: one side of one pair at a time.               *)

Here == pairs[side[1]]
Usable(p) == p[1] \in vectors /\ p[2] \in vectors
Used == Needed

\* Mutant: a peer of any community.
Anyone(v, other) == UNION {Capped(g) : g \in Groups} \ ({v, other} \cup missing)
Peers(v, other) == Capped(label[v]) \ ({v, other} \cup missing)

\* _replacement_candidates: embedded before fresh, unused before used.
Rank(c) == (IF c \in vectors THEN 0 ELSE 2) + (IF c \in Used THEN 1 ELSE 0)
First(S) ==
  {c \in S : \A d \in S : Rank(c) < Rank(d) \/ (Rank(c) = Rank(d) /\ c <= d)}

Paired(c, other) == \E i \in DOMAIN pairs : {pairs[i][1], pairs[i][2]} = {c, other}

\* _pick: the first that makes a new pair, else the first embedded, if any.
Pick(v, other) ==
  LET fresh == {c \in Peers(v, other) : ~Paired(c, other)}
  IN IF fresh # {} THEN First(fresh) ELSE First(Peers(v, other) \cap vectors)

Replaced(p, v, c) == IF v = p[1] THEN <<c, p[2]>> ELSE <<p[1], c>>
NextPair == <<side[1] + 1, 1>>
NextSide == IF side[2] = 1 THEN <<side[1], 2>> ELSE NextPair

\* Mutant: the peer found before is not looked up.
Forgotten(v) == 0
Mapped(v) == subst[v]

\* Mutant: a peer that failed is not remembered.
Forgiven(c) == missing
Failed(c) == missing \cup {c}

\* _apply_replacement, with what was found for v.
Apply(v, c) ==
  /\ pairs' = [pairs EXCEPT ![side[1]] = Replaced(@, v, c)]
  /\ subst' = [subst EXCEPT ![v] = c]
  /\ side' = NextPair /\ progress' = TRUE /\ UNCHANGED <<missing, refused>>

NotReplaced == UNCHANGED <<pairs, subst, progress, vectors>> /\ side' = NextSide

\* _replace_one for a side without an embedding.
ReplaceSide(v, other) ==
  LET found == IF Mapped(v) # 0 THEN {Mapped(v)} ELSE Pick(v, other) IN
  \/ /\ \E c \in found \cap vectors : Apply(v, c)
     /\ UNCHANGED <<vectors, fetches>>
  \/ /\ found = {} \/ (found \cap vectors = {} /\ fetches >= FetchBudget)
     /\ NotReplaced /\ UNCHANGED <<missing, refused, fetches>>
  \/ \E c \in found \ vectors :
       /\ fetches < FetchBudget /\ fetches' = fetches + 1
       /\ \/ Apply(v, c) /\ vectors' = vectors \cup {c}
          \/ /\ NotReplaced /\ missing' = Failed(c)
             /\ \E n \in {0, 1} :  \* no transcript, or one without embedding
                  refused' = [refused EXCEPT ![c] = @ + n]

Sweeping == stage = "replace" /\ side[1] <= Len(pairs)

SweepSide ==
  /\ Sweeping
  /\ IF Usable(Here)
     THEN side' = NextPair
          /\ UNCHANGED <<pairs, subst, progress, vectors, missing, refused, fetches>>
     ELSE IF Here[side[2]] \in vectors
     THEN NotReplaced /\ UNCHANGED <<missing, refused, fetches>>
     ELSE ReplaceSide(Here[side[2]], Here[3 - side[2]])
  /\ UNCHANGED <<label, stage, grant, share, drawn, sweep>>

\* Without progress, or after the last sweep, the usable pairs are analysed.
EndSweep ==
  /\ stage = "replace" /\ side[1] > Len(pairs)
  /\ IF progress /\ sweep < MaxSweeps
     THEN sweep' = sweep + 1 /\ side' = <<1, 1>> /\ progress' = FALSE /\ UNCHANGED stage
     ELSE /\ stage' = IF \E i \in DOMAIN pairs : Usable(pairs[i]) THEN "observed"
                      ELSE "insufficient"
          /\ UNCHANGED <<sweep, side, progress>>
  /\ UNCHANGED <<label, grant, share, pairs, drawn, vectors, missing, subst, fetches,
                 refused>>

PairNext == Allocate \/ Select \/ SamplePairs \/ CollectTexts \/ SweepSide \/ EndSweep

PairSpec == PairInit /\ [][PairNext]_pairVars

-----------------------------------------------------------------------------
\* The budget is spent, and evenly: a community gets less than another, by
\* more than one, only if it has no more videos.
BudgetShared == share # <<>> =>
  /\ Sum(share) = Lesser(MaxTranscripts, Sum(Available))
  /\ \A s, r \in Diagonal : share[s] < Available[s] => share[r] <= share[s] + 1

\* A within pair stays one and a between pair keeps its two communities,
\* however often its videos are replaced.
StrataKept == \A i \in DOMAIN pairs, s \in {1, 2} :
  label[pairs[i][s]] = label[drawn[i][s]]

\* The docstring of the sweep: a missing video is substituted by the same
\* peer everywhere, ...
SameSubstitute == \A i, j \in DOMAIN pairs, s, t \in {1, 2} :
  drawn[i][s] = drawn[j][t] /\ pairs[i][s] # drawn[i][s] /\ pairs[j][t] # drawn[j][t]
    => pairs[i][s] = pairs[j][t]

\* ... and one that is confirmed missing is never fetched again.
NotRefetched == \A v \in Clips : refused[v] <= 1

\* What the analysis may count on when it compares the pairs.
SampleSound == PairTypeOK /\ BudgetShared /\ StrataKept /\ SameSubstitute /\ NotRefetched

\* The docstring of _replacement_candidates: no self-pairs.
NoSelfPair == \A i \in DOMAIN pairs : pairs[i][1] # pairs[i][2]
=============================================================================
