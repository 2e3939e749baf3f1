------------------------------ MODULE FaceMatching ------------------------------
(***************************************************************************)
(* Which person of the video gets which source face: the references that   *)
(* are read off the video once, the matching of each frame's faces to the  *)
(* sources, and, in the offline engine, the retries of a frame whose swap  *)
(* flickers.                                                               *)
(*                                                                         *)
(* Four programs do this in four ways:                                     *)
(*   engine   src/face_swap: identities, tracker, retries                  *)
(*   webapp   webapp.py: identities, tracker                               *)
(*   workers  webapp_mp.py: identities; its processes see frames out of    *)
(*            order and match each on its own                              *)
(*   server   server/worker.py: references by gender, best source per face *)
(*                                                                         *)
(* An embedding is seen through what is compared: whether two faces of the *)
(* video are similar, and whether a face reaches neither threshold of a    *)
(* source (0), the one for a locked source (1) or the one for all (2). A   *)
(* box is a place; a place overlaps itself and, less, its neighbours.      *)
(***************************************************************************)
EXTENDS Integers, Sequences, FiniteSets, Functions

CONSTANTS
  Programs,      \* which of the four programs
  K,             \* number of sources
  NumCands,      \* bound: faces found by the reference scan
  NumPlaces,     \* bound: places of a face, and so faces in a frame
  CarryFrames,   \* FACESWAP_CARRY_FRAMES
  MaxRetry,      \* max_retry_per_frame
  PoolMin,       \* the web applications look at max(2 * K, 8) identities,
  PoolExtra,     \* the engine at max(2 * K, K + pool_extra)
  Scale          \* a common multiple of the sizes of an identity

ASSUME FaceMatchingAssumption ==
  /\ Programs \subseteq {"engine", "webapp", "workers", "server"} /\ K \in Nat \ {0}
  /\ {NumCands, NumPlaces, CarryFrames, MaxRetry, PoolMin, PoolExtra} \subseteq Nat
  /\ Scale \in Nat \ {0} /\ \A n \in 1 .. NumCands : \E m \in 1 .. Scale : Scale = n * m

Sources == 1 .. K
Cands == 1 .. NumCands
Places == 1 .. NumPlaces
Genders == {"M", "F"}
None == 0
Nowhere == [s \in Sources |-> None]

\* _REAL_RETRY
Strategies == 5

VARIABLES
  pc, prog,
  gender,                    \* of the sources
  cands, label,              \* faces of the scan: numbers and genders
  clusters, used,            \* identities so far; the faces that are used up
  refs,                      \* what each source is compared with
  last, misses,              \* SourceTracker; misses are counted up to CarryFrames + 1
  faces, sims,               \* the frame: places with a face, and how they compare
  primary, extra,            \* the picks: one face per source, and the other faces
  tried, best, review,       \* flicker of the attempts, of the one kept; budget_exhausted
  prev                       \* the sources of which there is an earlier swapped face

scanVars  == <<gender, cands, label, clusters, used>>
trackVars == <<last, misses>>
frameVars == <<faces, sims, primary, extra>>
retryVars == <<tried, best, review>>
vars == <<pc, prog, scanVars, refs, trackVars, frameVars, retryVars, prev>>

\* Nothing depends on the numbers of the faces: those labelled F have the lower ones.
Init ==
  /\ pc = "scan" /\ prog \in Programs
  /\ gender \in [Sources -> Genders]
  /\ \E n \in 0 .. NumCands, k \in 0 .. NumCands :
       /\ k <= n /\ cands = 1 .. n
       /\ label = [c \in 1 .. n |-> IF c <= k THEN "F" ELSE "M"]

  /\ clusters = {} /\ used = {}
  /\ refs = [s \in Sources |-> {}]
  /\ last = Nowhere /\ misses = [s \in Sources |-> CarryFrames + 1]
  /\ faces = {} /\ sims = <<>> /\ primary = Nowhere /\ extra = <<>>
  /\ tried = <<>> /\ best = 0 /\ review = FALSE
  /\ prev = {}

-------------------------------------------------------------------------------
(* The references *)

\* A row of the similarity matrix, when its face is chosen: any of the others may be like it.
\* Whether two faces are alike makes no difference later: one of them is used up by then.
Alike(c, others) == {m \cup {c} : m \in SUBSET others}

\* Nothing was found, somebody pressed stop during the scan, or (server) one of the
\* genders is missing.
ScanFails ==
  /\ pc = "scan" /\ used = {}
  /\ pc' = "failed"
  /\ UNCHANGED <<prog, scanVars, refs, trackVars, frameVars, retryVars, prev>>

ByGender == prog = "server"

\* The face with the most neighbours, weighted by its score, which may be any face that
\* is not used up; its unused neighbours are its cluster.
ClaimCluster ==
  /\ pc = "scan" /\ ~ByGender
  /\ \E rep \in cands \ used : \E members \in Alike(rep, cands \ used) :
       /\ clusters' = clusters \cup {members}
       /\ used' = used \cup members
  /\ UNCHANGED <<pc, prog, gender, cands, label, refs, trackVars, frameVars, retryVars, prev>>

Count(c, g) == Cardinality({d \in c : label[d] = g})

\* frac * frac * size, in units in which it is a whole number
Fit(s, c) == (Count(c, gender[s]) * Count(c, gender[s]) * Scale) \div Cardinality(c)

\* The identities by size; those of one size come in the order of a score, which is any.
NumClusters == Cardinality(clusters)
Orders == {o \in Bijection(1 .. NumClusters, clusters) :
             \A i, j \in 1 .. NumClusters : i < j => Cardinality(o[i]) >= Cardinality(o[j])}

\* Only the largest ones are looked at: the pool.
Least(m, n) == IF m < n THEN m ELSE n
TwiceOr(n) == IF 2 * K > n THEN 2 * K ELSE n
PoolLimit == TwiceOr(IF prog = "engine" THEN K + PoolExtra ELSE PoolMin)
Pool == 1 .. Least(NumClusters, PoolLimit)

\* permutations(pool, min(K, n)), and the order in which they come
Bound == Least(K, NumClusters)
Perms == Injection(1 .. Bound, Pool)
Before(p, q) == \E i \in 1 .. Bound : p[i] < q[i] /\ \A j \in 1 .. i - 1 : p[j] = q[j]

TotalFit(p, o) ==
  LET sum[s \in 0 .. Bound] == IF s = 0 THEN 0 ELSE sum[s - 1] + Fit(s, o[p[s]])
  IN  sum[Bound]

\* The largest identities, whoever they are; and the first of the best assignments.
LargestFirst(o) == CHOOSE p \in Perms : \A q \in Perms \ {p} : Before(p, q)
BestFit(o) ==
  LET fittest == {p \in Perms : \A q \in Perms : TotalFit(q, o) <= TotalFit(p, o)}
  IN  CHOOSE p \in fittest : \A q \in fittest \ {p} : Before(p, q)

\* A video with fewer people than sources gives the others the first one's.
AssignsClusters ==
  /\ pc = "scan" /\ ~ByGender
  /\ used = cands /\ clusters # {}
  /\ \E o \in Orders :
       LET p == BestFit(o)
           pad == IF prog = "engine" THEN 1 ELSE p[1]
       IN  refs' = [s \in Sources |-> o[IF s <= Bound THEN p[s] ELSE pad]]
  /\ pc' = "bound"
  /\ UNCHANGED <<prog, scanVars, trackVars, frameVars, retryVars, prev>>

\* extract_reference_embeddings: source by source, a face of its gender that is not used
\* up, or any when all are.
Choosable(s) ==
  LET same == {c \in cands : label[c] = gender[s]}
  IN  IF same \subseteq used THEN same ELSE same \ used

PicksByGender ==
  /\ pc = "scan" /\ ByGender
  /\ \A s \in Sources : \E c \in cands : label[c] = gender[s]
  /\ \E s \in Sources :
       /\ refs[s] = {} /\ \A t \in 1 .. s - 1 : refs[t] # {}
       /\ \E c \in Choosable(s) :
            /\ refs' = [refs EXCEPT ![s] = {c}]
            /\ \E alike \in Alike(c, {d \in cands : label[d] = gender[s]}) : used' = used \cup alike
       /\ pc' = IF s = K THEN "bound" ELSE pc
  /\ UNCHANGED <<prog, gender, cands, label, clusters, trackVars, frameVars, retryVars, prev>>

\* The swap begins. Of the scan it only keeps the references, and of them it matters which
\* sources share one: a reference is named by its sources.
Begins ==
  /\ pc = "bound"
  /\ pc' = "frame"
  /\ refs' = [s \in Sources |-> {t \in Sources : refs[t] = refs[s]}]
  /\ gender' = [s \in Sources |-> "M"]
  /\ cands' = {} /\ label' = <<>> /\ clusters' = {} /\ used' = {}
  /\ UNCHANGED <<prog, trackVars, frameVars, retryVars, prev>>

-------------------------------------------------------------------------------
(* The matching of a frame *)

Iou(p, q) == CASE p = None \/ q = None -> 0
               [] p = q -> 2
               [] p = q + 1 \/ q = p + 1 -> 1
               [] OTHER -> 0
Gate == 1
Sticky == 1
Thresh == 2

Tracks == prog \in {"engine", "webapp"}
Warm(s) == Tracks /\ misses[s] <= CarryFrames /\ last[s] # None

\* The detector; sources with one reference compare alike.
Detects ==
  /\ pc = "frame"
  /\ faces' \in SUBSET Places
  /\ sims' \in {m \in [faces' -> [Sources -> 0 .. Thresh]] :
                  \A f \in faces', s, t \in Sources : refs[s] = refs[t] => m[f][s] = m[f][t]}
  /\ pc' = IF faces' = {} THEN "picked" ELSE "match"
  /\ UNCHANGED <<prog, scanVars, refs, trackVars, primary, extra, retryVars, prev>>

\* The duet: as many faces as sources.
NeverForced == FALSE
Forced == ~ByGender /\ Cardinality(faces) = K

Acceptable(f, s) ==
  \/ Forced
  \/ sims[f][s] >= Thresh
  \/ Warm(s) /\ sims[f][s] >= Sticky /\ Iou(f, last[s]) >= Gate

OneToOne(m) == \A s, t \in Sources : m[s] = m[t] /\ m[s] # None => s = t

\* Phase 1. What taking the pairs by descending similarity may come to: a pair that is left out
\* met one of at least its similarity that had taken its face or its source.
Greedy(m) ==
  /\ OneToOne(m)
  /\ \A s \in Sources : m[s] # None => Acceptable(m[s], s)
  /\ \A f \in faces, s \in Sources :
       Acceptable(f, s) /\ m[s] # f =>
         \/ m[s] # None /\ sims[m[s]][s] >= sims[f][s]
         \/ \E t \in Sources : m[t] = f /\ sims[f][t] >= sims[f][s]

\* Phase 2. Source after source, one that is warm and has no face takes the face that overlaps its
\* last box most, of those nobody has.
Carries(m, c) ==
  LET free(s) == {f \in faces : \A t \in Sources : m[t] # f /\ (t < s => c[t] # f)}
      near(s) == {f \in free(s) : Iou(f, last[s]) >= Gate}
  IN  \A s \in Sources :
        c[s] \in IF m[s] # None THEN {m[s]}
                 ELSE IF ~Warm(s) \/ near(s) = {} THEN {None}
                 ELSE {f \in near(s) : \A g \in near(s) : Iou(g, last[s]) <= Iou(f, last[s])}

\* The source a face is most similar to; argmax takes the first of equal ones.
ArgMax(f) == {s \in Sources : /\ \A t \in Sources : sims[f][t] <= sims[f][s]
                              /\ \A t \in 1 .. s - 1 : refs[t] # refs[s]}

\* Phase 3. Faces that are left go to their source if they reach the threshold.
Extras(free) ==
  {e \in [free -> Sources \cup {None}] :
     \A f \in free : e[f] \in IF \E s \in Sources : sims[f][s] >= Thresh THEN ArgMax(f)
                              ELSE {None}}

Matchings == [Sources -> faces \cup {None}]

Primaries ==
  IF ByGender THEN {Nowhere}
  ELSE LET greedy == {m \in Matchings : Greedy(m)}
       IN  {c \in Matchings : \E m \in greedy : Carries(m, c)}

\* A frame without any face does not come here: it is no miss.
Remembers(p) ==
  IF Tracks
  THEN /\ last' = [s \in Sources |-> IF p[s] # None THEN p[s] ELSE last[s]]
       /\ misses' = [s \in Sources |-> IF p[s] # None THEN 0
                                       ELSE IF misses[s] > CarryFrames THEN misses[s]
                                       ELSE misses[s] + 1]
  ELSE UNCHANGED trackVars

Matches ==
  /\ pc = "match"
  /\ primary' \in Primaries
  /\ extra' \in Extras(faces \ {primary'[s] : s \in Sources})
  /\ Remembers(primary')
  /\ pc' = "picked" /\ faces' = {} /\ sims' = <<>>
  /\ UNCHANGED <<prog, scanVars, refs, retryVars, prev>>

-------------------------------------------------------------------------------
(* The swap of a frame *)

Picked == {s \in Sources : primary[s] # None \/ \E f \in DOMAIN extra : extra[f] = s}

\* 2 is a FAIL that a retry may still better, 3 is worse; 0 and 1 are PASS and WARNING.
Flickers == 0 .. 3
Fail(x) == x >= 2

\* Without an earlier face of a source there is nothing to flicker against.
Measured == IF Picked \cap prev = {} THEN {0} ELSE Flickers

Renders ==
  /\ pc = "picked" /\ prog = "engine"
  /\ \E x \in Measured : tried' = <<x>> /\ best' = x
  /\ pc' = "retry"
  /\ UNCHANGED <<prog, scanVars, refs, trackVars, frameVars, review, prev>>

LastWins(x) == x
KeepsBetter(x) == IF x < best THEN x ELSE best

Budget == IF MaxRetry < Strategies THEN MaxRetry ELSE Strategies
Retries == Len(tried) - 1

Retry ==
  /\ pc = "retry"
  /\ Fail(best) /\ Retries < Budget
  /\ \E x \in Measured : tried' = Append(tried, x) /\ best' = KeepsBetter(x)
  /\ UNCHANGED <<pc, prog, scanVars, refs, trackVars, frameVars, review, prev>>

\* A frame that still fails is downgraded to a warning and flagged.
SettlesFor ==
  /\ pc = "retry"
  /\ ~(Fail(best) /\ Retries < Budget)
  /\ review' = Fail(best)
  /\ pc' = "settled"
  /\ UNCHANGED <<prog, scanVars, refs, trackVars, frameVars, tried, best, prev>>

\* The frame is written; the faces it was written with are the next ones' measure.
NextFrame ==
  /\ pc = IF prog = "engine" THEN "settled" ELSE "picked"
  /\ pc' = "frame"
  /\ prev' = IF prog = "engine" THEN prev \cup Picked ELSE prev
  /\ primary' = Nowhere /\ extra' = <<>>
  /\ tried' = <<>> /\ best' = 0 /\ review' = FALSE
  /\ UNCHANGED <<prog, scanVars, refs, trackVars, faces, sims>>

References == ScanFails \/ ClaimCluster \/ AssignsClusters \/ PicksByGender \/ Begins
Frame == Detects \/ Matches \/ Renders \/ Retry \/ SettlesFor \/ NextFrame
Next == References \/ Frame

Spec == Init /\ [][Next]_vars

-------------------------------------------------------------------------------
(* Properties *)

\* "pick K DISTINCT clusters" and "the female source lands on the most-female identity"
\* (webapp.py:653-660): every face of the scan belongs to one identity; sources share one
\* only when there are too few; and none is bound to an identity without its gender while
\* one that has it is bound to nobody, unless the pool is full of others as large.
\* server/worker.py has no identities, and gives a face to two sources only when the faces of
\* their gender are used up.
NoneOf(g, c) == \A d \in c : label[d] # g
AsLarge(c) == {d \in clusters \ {c} : Cardinality(d) >= Cardinality(c)}
EverySourceHasItsPerson ==
  pc = "bound" =>
    IF ByGender
    THEN \A s, t \in Sources :
           s # t /\ refs[s] = refs[t] => \A c \in cands : label[c] = gender[s] => c \in used
    ELSE /\ \A f \in cands : Cardinality({c \in clusters : f \in c}) = 1
         /\ NumClusters >= K => \A s, t \in Sources : s # t => refs[s] \cap refs[t] = {}
         /\ \A s \in Sources, c \in clusters :
              NoneOf(gender[s], refs[s]) /\ ~NoneOf(gender[s], c) =>
                (\E t \in Sources : refs[t] = c) \/ Cardinality(AsLarge(c)) >= PoolLimit

\* The swap does not blink (matching.py:64-66): in a frame with a face for every source,
\* every source is applied, each to a face of its own; a face that matches a source is
\* swapped; and a source that had a face within the last frames keeps a face that
\* overlaps it, unless other sources have taken all of them.
SwapStaysStable ==
  [][pc = "match" =>
       /\ OneToOne(primary')
       /\ ~ByGender /\ Cardinality(faces) = K => \A s \in Sources : primary'[s] # None
       /\ \A f \in faces :
            (\E s \in Sources : sims[f][s] >= Thresh) =>
              (\E s \in Sources : primary'[s] = f) \/ (f \in DOMAIN extra' /\ extra'[f] # None)
       /\ \A s \in Sources :
            Tracks /\ last[s] # None /\ misses[s] <= CarryFrames /\ primary'[s] = None =>
              \A f \in faces : Iou(f, last[s]) >= Gate => \E t \in Sources : primary'[t] = f]_vars

\* "the lowest-flicker attempt wins; over-budget frames are flagged" (runner.py:300-301):
\* the frame that is written is the best of all that were rendered, no attempt is made
\* after one that does not fail, and a frame is flagged exactly when every attempt its
\* budget allows has failed.
KeepsTheBest ==
  pc = "settled" =>
    /\ \E i \in DOMAIN tried : tried[i] = best
    /\ \A i \in DOMAIN tried : best <= tried[i]
    /\ \A i \in 1 .. Len(tried) - 1 : Fail(tried[i])
    /\ review <=> Len(tried) = Budget + 1 /\ \A i \in DOMAIN tried : Fail(tried[i])
================================================================================
