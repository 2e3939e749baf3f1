--------------------------- MODULE FaceMatchingProofs ---------------------------
(***************************************************************************)
(* Proofs about FaceMatching, for any number of sources, faces of the      *)
(* scan, places of a face, frames carried over and retries: the scan puts  *)
(* every face into one identity and binds every source to one of its       *)
(* gender if the pool has one left; the matching of a frame is one to one, *)
(* complete where it can be and sticks to the face a source had; and the   *)
(* frame that is written is the best of those that were rendered.          *)
(***************************************************************************)
EXTENDS FaceMatching, FiniteSetTheorems, TLAPS

\* The places of the frame that is being matched.
FacesSeen == pc = "match" => faces \subseteq Places

\* The attempts at the frame that is being swapped.
Attempts ==
  pc \in {"retry", "settled"} =>
    /\ tried \in Seq(Flickers) /\ tried # <<>> /\ Retries <= Budget
    /\ best \in Flickers
    /\ \E i \in DOMAIN tried : tried[i] = best
    /\ \A i \in DOMAIN tried : best <= tried[i]
    /\ \A i \in 1 .. Len(tried) - 1 : Fail(tried[i])
Settled ==
  pc = "settled" => review = Fail(best) /\ (Fail(best) => Retries = Budget)

FrameInv == FacesSeen /\ Attempts /\ Settled

-------------------------------------------------------------------------------
(* The matching of a frame *)

\* What is left over of phase 1 goes to nobody twice in phase 2, and nobody loses a face.
LEMMA CarriedOver ==
  ASSUME faces \subseteq Places, NEW m \in Matchings, NEW c \in Matchings, Greedy(m), Carries(m, c)
  PROVE  /\ OneToOne(c)
         /\ \A s \in Sources : m[s] # None => c[s] = m[s]
         /\ \A s \in Sources : c[s] = None /\ Warm(s) =>
              \A f \in faces : Iou(f, last[s]) >= Gate => \E t \in Sources : c[t] = f
<1> DEFINE free(s) == {f \in faces : \A t \in Sources : m[t] # f /\ (t < s => c[t] # f)}
           near(s) == {f \in free(s) : Iou(f, last[s]) >= Gate}
<1>1. \A s \in Sources :
        /\ m[s] # None => c[s] = m[s]
        /\ m[s] = None => c[s] \in free(s) \/ (c[s] = None /\ (~Warm(s) \/ near(s) = {}))
  BY DEF Carries
<1>2. \A s \in Sources : \A f : f \in free(s) <=> f \in faces /\ \A t \in Sources : m[t] # f /\ (t < s => c[t] # f)
  OBVIOUS
<1>3. \A s \in Sources : \A f : f \in near(s) <=> f \in free(s) /\ Iou(f, last[s]) >= Gate
  OBVIOUS
<1> HIDE DEF free, near
<1>4. None \notin faces
  BY DEF Places, None
<1>5. OneToOne(c)
  <2> SUFFICES ASSUME NEW s \in Sources, NEW t \in Sources, s < t, c[s] = c[t], c[s] # None PROVE FALSE
    BY DEF OneToOne, Sources
  <2>1. CASE m[t] = None
    BY <1>1, <1>2, <2>1
  <2>2. CASE m[s] = None /\ m[t] # None
    BY <1>1, <1>2, <2>2
  <2>3. CASE m[s] # None /\ m[t] # None
    <3>1. s = t
      BY <1>1, <2>3 DEF Greedy, OneToOne
    <3> QED
      BY <3>1 DEF Sources
  <2> QED
    BY <2>1, <2>2, <2>3
<1>6. ASSUME NEW s \in Sources, c[s] = None, Warm(s), NEW f \in faces, Iou(f, last[s]) >= Gate
      PROVE  \E t \in Sources : c[t] = f
  <2>1. f \notin free(s)
    BY <1>1, <1>2, <1>3, <1>4, <1>6
  <2>2. \E t \in Sources : m[t] = f \/ c[t] = f
    BY <1>2, <2>1
  <2> QED
    BY <1>1, <1>4, <2>2
<1> QED
  BY <1>1, <1>5, <1>6

\* A duet leaves no source without a face: if one had none, every face would have been taken
\* by another one of fewer sources than there are faces.
LEMMA DuetComplete ==
  ASSUME faces \subseteq Places, NEW m \in Matchings, Greedy(m), Forced
  PROVE  \A s \in Sources : m[s] # None
<1> SUFFICES ASSUME NEW s \in Sources, m[s] = None PROVE FALSE
  OBVIOUS
<1>1. None \notin faces
  BY DEF Places, None
<1>2. \A f \in faces : \E t \in Sources \ {s} : m[t] = f
  BY <1>1 DEF Greedy, Acceptable
<1> DEFINE others == Sources \ {s}
<1>3. IsFiniteSet(Sources) /\ Cardinality(Sources) = K
  <2>1. 1 \in Int /\ K \in Int /\ ~(1 > K) /\ K - 1 + 1 = K
    BY FaceMatchingAssumption
  <2> QED
    BY <2>1, FS_Interval DEF Sources
<1>4. IsFiniteSet(others) /\ Cardinality(others) = K - 1
  BY <1>3, FS_RemoveElement
<1> DEFINE taken == {m[t] : t \in others}
<1>5. IsFiniteSet(taken) /\ Cardinality(taken) <= K - 1
  <2> DEFINE f == [t \in others |-> m[t]]
  <2>1. f \in Surjection(others, taken)
    BY DEF Surjection
  <2> HIDE DEF f, others, taken
  <2> QED
    BY <1>4, <2>1, FS_Surjection
<1>6. faces \subseteq taken
  BY <1>2
<1>7. Cardinality(faces) <= Cardinality(taken)
  BY <1>5, <1>6, FS_Subset
<1>8. Cardinality(faces) = K
  BY DEF Forced
<1>9. IsFiniteSet(faces)
  BY <1>5, <1>6, FS_Subset
<1>10. Cardinality(taken) \in Nat /\ K \in Nat
  BY <1>5, FS_CardinalityType, FaceMatchingAssumption
<1> QED
  BY <1>5, <1>7, <1>8, <1>10

\* What a step of Matches makes of the frame.
LEMMA MatchesStable ==
  ASSUME FrameInv, pc = "match", Matches
  PROVE  /\ OneToOne(primary')
         /\ ~ByGender /\ Cardinality(faces) = K => \A s \in Sources : primary'[s] # None
         /\ \A f \in faces :
              (\E s \in Sources : sims[f][s] >= Thresh) =>
                (\E s \in Sources : primary'[s] = f) \/ (f \in DOMAIN extra' /\ extra'[f] # None)
         /\ \A s \in Sources :
              Tracks /\ last[s] # None /\ misses[s] <= CarryFrames /\ primary'[s] = None =>
                \A f \in faces : Iou(f, last[s]) >= Gate => \E t \in Sources : primary'[t] = f
<1> DEFINE free == faces \ {primary'[s] : s \in Sources}
<1>1. faces \subseteq Places /\ primary' \in Primaries /\ extra' \in Extras(free)
  BY DEF FrameInv, FacesSeen, Matches
<1>2. ASSUME NEW f \in faces, \E s \in Sources : sims[f][s] >= Thresh, \A s \in Sources : primary'[s] # f
      PROVE  f \in DOMAIN extra' /\ extra'[f] # None
  <2>1. f \in free
    BY <1>2
  <2> HIDE DEF free
  <2>2. DOMAIN extra' = free /\ extra'[f] \in ArgMax(f)
    BY <1>1, <1>2, <2>1 DEF Extras
  <2>3. extra'[f] \in Sources
    BY <2>2 DEF ArgMax
  <2> QED
    BY <2>1, <2>2, <2>3 DEF Sources, None
<1>3. CASE ByGender
  <2>1. primary' = Nowhere /\ ~Tracks
    BY <1>1, <1>3 DEF Primaries, ByGender, Tracks
  <2>2. OneToOne(primary')
    BY <2>1 DEF OneToOne, Nowhere
  <2> QED
    BY <1>2, <1>3, <2>1, <2>2
<1>4. CASE ~ByGender
  <2>1. PICK m \in Matchings : Greedy(m) /\ Carries(m, primary') /\ primary' \in Matchings
    BY <1>1, <1>4 DEF Primaries
  <2>2. /\ OneToOne(primary')
        /\ \A s \in Sources : m[s] # None => primary'[s] = m[s]
        /\ \A s \in Sources : primary'[s] = None /\ Warm(s) =>
             \A f \in faces : Iou(f, last[s]) >= Gate => \E t \in Sources : primary'[t] = f
    BY <1>1, <2>1, CarriedOver
  <2>3. ASSUME Cardinality(faces) = K PROVE \A s \in Sources : primary'[s] # None
    BY <1>1, <1>4, <2>1, <2>2, <2>3, DuetComplete DEF Forced
  <2> QED
    BY <1>2, <2>2, <2>3 DEF Warm
<1> QED
  BY <1>3, <1>4

-------------------------------------------------------------------------------
(* The steps *)

LEMMA InitFrameInv == Init => FrameInv
  BY DEF Init, FrameInv, FacesSeen, Attempts, Settled

LEMMA BudgetType == Budget \in Nat /\ MaxRetry \in Nat
  BY FaceMatchingAssumption DEF Budget, Strategies

\* One more attempt.
LEMMA RetryStep ==
  ASSUME FrameInv, Retry
  PROVE  FrameInv'
<1>1. /\ pc = "retry" /\ pc' = "retry" /\ Fail(best) /\ Retries < Budget
      /\ tried \in Seq(Flickers) /\ tried # <<>> /\ best \in Flickers
      /\ \E i \in DOMAIN tried : tried[i] = best
      /\ \A i \in DOMAIN tried : best <= tried[i]
  BY DEF Retry, FrameInv, Attempts
<1>2. PICK x \in Flickers : tried' = Append(tried, x) /\ best' = KeepsBetter(x)
  <2>1. Measured \subseteq Flickers
    BY DEF Measured, Flickers
  <2> QED
    BY <2>1 DEF Retry
<1>3. /\ tried' \in Seq(Flickers) /\ tried' # <<>> /\ Len(tried') = Len(tried) + 1 /\ Len(tried) \in Nat \ {0}
      /\ DOMAIN tried = 1 .. Len(tried) /\ DOMAIN tried' = 1 .. Len(tried) + 1
      /\ tried'[Len(tried) + 1] = x /\ \A i \in 1 .. Len(tried) : tried'[i] = tried[i]
  BY <1>1, <1>2
<1>4. best' \in Flickers /\ best' <= x /\ best' <= best /\ (best' = x \/ best' = best)
  BY <1>1, <1>2 DEF KeepsBetter, Flickers
<1>5. \A i \in 1 .. Len(tried) : tried[i] \in Flickers /\ best <= tried[i] /\ Fail(tried[i])
  BY <1>1, <1>3 DEF Fail, Flickers
<1>6. Retries' <= Budget'
  BY <1>1, <1>3, BudgetType DEF Retries, Budget
<1>7. \E i \in DOMAIN tried' : tried'[i] = best'
  BY <1>1, <1>3, <1>4
<1>8. ASSUME NEW i \in DOMAIN tried' PROVE best' <= tried'[i]
  <2>1. i \in 1 .. Len(tried) \/ i = Len(tried) + 1
    BY <1>3
  <2> QED
    BY <1>1, <1>3, <1>4, <1>5, <2>1 DEF Flickers
<1>9. \A i \in 1 .. Len(tried') - 1 : Fail(tried'[i])
  BY <1>3, <1>5
<1> QED
  BY <1>1, <1>3, <1>4, <1>6, <1>7, <1>8, <1>9 DEF FrameInv, FacesSeen, Attempts, Settled

LEMMA FrameInvStep == FrameInv /\ [Next]_vars => FrameInv'
<1> SUFFICES ASSUME FrameInv, [Next]_vars PROVE FrameInv'
  OBVIOUS
<1>1. CASE ScanFails \/ ClaimCluster \/ AssignsClusters \/ PicksByGender \/ Begins \/ Matches \/ NextFrame
  <2>1. pc' \notin {"match", "retry", "settled"}
    BY <1>1 DEF ScanFails, ClaimCluster, AssignsClusters, PicksByGender, Begins, Matches, NextFrame
  <2> QED
    BY <2>1 DEF FrameInv, FacesSeen, Attempts, Settled
<1>2. CASE Detects
  <2>1. pc' \notin {"retry", "settled"} /\ faces' \subseteq Places
    BY <1>2 DEF Detects
  <2> QED
    BY <2>1 DEF FrameInv, FacesSeen, Attempts, Settled, Places
<1>3. CASE Renders
  <2>1. pc' = "retry" /\ \E x \in Flickers : tried' = <<x>> /\ best' = x
    BY <1>3 DEF Renders, Measured, Flickers
  <2>2. PICK x \in Flickers : tried' = <<x>> /\ best' = x
    BY <2>1
  <2>3. /\ tried' \in Seq(Flickers) /\ tried' # <<>> /\ Len(tried') = 1 /\ DOMAIN tried' = {1}
        /\ tried'[1] = x
    BY <2>2
  <2>4. Retries' <= Budget'
    BY <2>3, BudgetType DEF Retries, Budget
  <2> QED
    BY <2>1, <2>2, <2>3, <2>4 DEF FrameInv, FacesSeen, Attempts, Settled, Flickers
<1>4. CASE Retry
  BY <1>4, RetryStep
<1>5. CASE SettlesFor
  <2>1. /\ pc = "retry" /\ pc' = "settled" /\ UNCHANGED <<tried, best>> /\ review' = Fail(best)
        /\ Fail(best) => ~(Retries < Budget)
    BY <1>5 DEF SettlesFor
  <2>2. Attempts'
    BY <2>1 DEF FrameInv, Attempts, Retries, Budget
  <2>3. Retries \in Int /\ Retries <= Budget
    BY <2>1 DEF FrameInv, Attempts, Retries
  <2>4. Settled'
    BY <2>1, <2>3, BudgetType DEF Settled, Retries, Budget
  <2> QED
    BY <2>1, <2>2, <2>4 DEF FrameInv, FacesSeen
<1>6. CASE UNCHANGED vars
  BY <1>6 DEF vars, frameVars, retryVars, FrameInv, FacesSeen, Attempts, Settled, Retries, Budget
<1> QED
  BY <1>1, <1>2, <1>3, <1>4, <1>5, <1>6 DEF Next, References, Frame

-------------------------------------------------------------------------------
(* The scan *)

Scanned == pc \in {"scan", "bound"}

\* The identities so far share no face, and what is used up is theirs.
Identities ==
  Scanned /\ ~ByGender =>
    /\ UNION clusters = used /\ {} \notin clusters
    /\ \A c, d \in clusters : c \cap d # {} => c = d

\* The server's references are single faces of the right gender, each used up; a face that two
\* sources were given was the last of its gender.
GenderPicks ==
  Scanned /\ ByGender =>
    /\ \A s \in Sources : refs[s] # {} => \E c \in used : refs[s] = {c} /\ label[c] = gender[s]
    /\ \A s, t \in Sources :
         s # t /\ refs[s] = refs[t] /\ refs[s] # {} => \A c \in cands : label[c] = gender[s] => c \in used

\* What the sources are bound to.
OwnPerson == NumClusters >= K => \A s, t \in Sources : s # t => refs[s] \cap refs[t] = {}
FittingPerson ==
  \A s \in Sources, c \in clusters :
    NoneOf(gender[s], refs[s]) /\ ~NoneOf(gender[s], c) =>
      (\E t \in Sources : refs[t] = c) \/ Cardinality(AsLarge(c)) >= PoolLimit

ScanTypes ==
  Scanned =>
    /\ \E n \in 0 .. NumCands : cands = 1 .. n
    /\ used \subseteq cands /\ clusters \subseteq SUBSET cands
    /\ ByGender => refs \in [Sources -> SUBSET cands]

ScanInv ==
  /\ ScanTypes /\ Identities /\ GenderPicks
  /\ pc = "bound" /\ ~ByGender => used = cands /\ OwnPerson /\ FittingPerson
  /\ pc = "bound" /\ ByGender => \A s \in Sources : refs[s] # {}

LEMMA InitScanInv == Init => ScanInv
  BY DEF Init, ScanInv, ScanTypes, Identities, GenderPicks

LEMMA ClaimStep ==
  ASSUME ScanInv, ClaimCluster
  PROVE  ScanInv'
<1>0. PICK rep \in cands \ used : \E members \in Alike(rep, cands \ used) :
        clusters' = clusters \cup {members} /\ used' = used \cup members
  BY DEF ClaimCluster
<1>1. PICK members \in Alike(rep, cands \ used) :
        clusters' = clusters \cup {members} /\ used' = used \cup members
  BY <1>0
<1>2. /\ pc = "scan" /\ pc' = "scan" /\ ~ByGender /\ ~ByGender' /\ UNCHANGED <<cands, refs>>
      /\ ScanTypes /\ Identities
  BY DEF ClaimCluster, ByGender, ScanInv
<1>3. members \subseteq cands \ used /\ members # {}
  BY <1>1 DEF Alike
<1>4. \A c \in clusters' : c \in clusters \/ c = members
  BY <1>1
<1>5. \A c \in clusters : c \cap members = {}
  BY <1>2, <1>3 DEF Identities, Scanned
<1>6. UNION clusters' = used'
  BY <1>1, <1>2 DEF Identities, Scanned
<1>7. Identities'
  BY <1>2, <1>3, <1>4, <1>5, <1>6 DEF Identities, Scanned
<1>8. ScanTypes'
  BY <1>1, <1>2, <1>3, <1>4 DEF ScanTypes, Scanned
<1> QED
  BY <1>2, <1>7, <1>8 DEF ScanInv, GenderPicks

LEMMA PickStep ==
  ASSUME ScanInv, PicksByGender
  PROVE  ScanInv'
<1>0. PICK s \in Sources :
        /\ refs[s] = {} /\ \A t \in 1 .. s - 1 : refs[t] # {}
        /\ \E c \in Choosable(s) :
             /\ refs' = [refs EXCEPT ![s] = {c}]
             /\ \E alike \in Alike(c, {d \in cands : label[d] = gender[s]}) : used' = used \cup alike
        /\ pc' = IF s = K THEN "bound" ELSE pc
  BY DEF PicksByGender
<1>1. PICK c \in Choosable(s) :
        /\ refs' = [refs EXCEPT ![s] = {c}]
        /\ \E alike \in Alike(c, {d \in cands : label[d] = gender[s]}) : used' = used \cup alike
  BY <1>0
<1>2. /\ pc = "scan" /\ pc' \in {"scan", "bound"} /\ ByGender /\ ByGender'
      /\ UNCHANGED <<cands, label, gender, clusters>>
      /\ refs \in [Sources -> SUBSET cands] /\ used \subseteq cands /\ clusters \subseteq SUBSET cands
      /\ GenderPicks /\ ScanTypes
  BY <1>0 DEF PicksByGender, ByGender, ScanInv, ScanTypes, Scanned
<1>3. /\ c \in cands /\ label[c] = gender[s]
      /\ c \in used => \A d \in cands : label[d] = gender[s] => d \in used
  BY DEF Choosable
<1>4. used \subseteq used' /\ c \in used' /\ used' \subseteq cands
  BY <1>1, <1>2, <1>3 DEF Alike
<1>5. /\ refs' \in [Sources -> SUBSET cands] /\ refs'[s] = {c}
      /\ \A t \in Sources : t # s => refs'[t] = refs[t]
  BY <1>1, <1>2, <1>3
<1>6. pc' = "bound" => \A t \in Sources : refs'[t] # {}
  <2>1. ASSUME s = K, NEW t \in Sources PROVE refs'[t] # {}
    <3>1. t = s \/ t \in 1 .. s - 1
      BY <2>1, FaceMatchingAssumption DEF Sources
    <3> QED
      BY <1>0, <1>5, <3>1
  <2> QED
    BY <1>0, <1>2, <2>1
<1>7. GenderPicks'
  <2>1. \A t \in Sources : refs[t] # {} => \E d \in used : refs[t] = {d} /\ label[d] = gender[t]
    BY <1>2 DEF GenderPicks, Scanned
  <2>2. \A t \in Sources : refs'[t] # {} => \E d \in used' : refs'[t] = {d} /\ label'[d] = gender'[t]
    BY <1>2, <1>3, <1>4, <1>5, <2>1
  <2>3. ASSUME NEW t \in Sources, NEW u \in Sources, t # u, refs'[t] = refs'[u], refs'[t] # {}
        PROVE  \A d \in cands : label[d] = gender[t] => d \in used'
    <3>1. CASE t # s /\ u # s
      BY <1>2, <1>4, <1>5, <2>3, <3>1 DEF GenderPicks, Scanned
    <3>2. CASE t = s \/ u = s
      <4>1. PICK v \in {t, u} : v # s /\ refs[v] = {c}
        BY <1>5, <2>3, <3>2
      <4>2. c \in used /\ gender[v] = gender[s]
        BY <1>3, <2>1, <4>1
      <4> QED
        BY <1>3, <1>4, <3>2, <4>1, <4>2
    <3> QED
      BY <3>1, <3>2
  <2> QED
    BY <1>2, <2>2, <2>3 DEF GenderPicks
<1>8. Identities' /\ ScanTypes'
  BY <1>2, <1>4, <1>5 DEF Identities, ScanTypes, Scanned
<1> QED
  BY <1>2, <1>6, <1>7, <1>8 DEF ScanInv

-------------------------------------------------------------------------------
(* The assignment of the identities *)

LEMMA NatLeast ==
  ASSUME NEW T \in SUBSET Nat, T # {}
  PROVE  \E x \in T : \A y \in T : x <= y
<1>1. PICK x \in T : \A y \in T : ~(<<y, x>> \in OpToRel(<, Nat))
  BY NatLessThanWellFounded, WFMin
<1>2. \A y, z \in Nat : y < z => <<y, z>> \in OpToRel(<, Nat)
  BY DEF OpToRel
<1>3. ASSUME NEW y \in T PROVE ~(y < x)
  <2>1. x \in Nat /\ y \in Nat
    OBVIOUS
  <2> QED
    BY <1>1, <1>2, <2>1, Zenon
<1> QED
  BY <1>3

\* A strict order that compares any two elements of a finite set has a first one: of the sets
\* of those below an element, take a smallest.
LEMMA FiniteFirst ==
  ASSUME NEW S, IsFiniteSet(S), S # {}, NEW R,
         \A x \in S : <<x, x>> \notin R,
         \A x, y \in S : x # y => <<x, y>> \in R \/ <<y, x>> \in R,
         \A x, y, z \in S : <<x, y>> \in R /\ <<y, z>> \in R => <<x, z>> \in R
  PROVE  \E x \in S : \A y \in S \ {x} : <<x, y>> \in R
<1> DEFINE below(x) == {y \in S : <<y, x>> \in R}
           T == {below(x) : x \in S}
<1>1. T \subseteq FiniteSubsetsOf(S) /\ T # {}
  <2>1. T \subseteq SUBSET S
    OBVIOUS
  <2>2. T # {}
    <3>1. PICK x \in S : TRUE
      OBVIOUS
    <3>2. below(x) \in T
      OBVIOUS
    <3> QED
      BY <3>2
  <2> HIDE DEF T
  <2> QED
    BY <2>1, <2>2, FS_FiniteSubsetsOfFinite
<1>2. \E B \in T : \A C \in T : ~(<<C, B>> \in StrictSubsetOrdering(S))
  BY <1>1, FS_StrictSubsetOrderingWellFounded, WFMin
<1>3. PICK x \in S : \A C \in T : ~(<<C, below(x)>> \in StrictSubsetOrdering(S))
  BY <1>2
<1>4. ASSUME NEW y \in below(x) PROVE FALSE
  <2>1. below(y) \subseteq below(x) /\ y \notin below(y)
    BY <1>4
  <2>2. below(y) \in T /\ below(y) \in SUBSET S /\ below(x) \in SUBSET S
    BY <1>4
  <2>3. <<below(y), below(x)>> \in StrictSubsetOrdering(S)
    BY <1>4, <2>1, <2>2 DEF StrictSubsetOrdering
  <2> QED
    BY <1>3, <2>2, <2>3
<1> QED
  BY <1>4

\* The sums of the first terms of f.
Sums(n, f, a) == a \in [0 .. n -> Nat] /\ a[0] = 0 /\ \A s \in 1 .. n : a[s] = a[s - 1] + f[s]

\* A term that is larger, and none that is smaller, make a sum larger.
LEMMA LargerSum ==
  ASSUME NEW n \in Nat, NEW f \in [1 .. n -> Nat], NEW g \in [1 .. n -> Nat], NEW a, NEW b,
         Sums(n, f, a), Sums(n, g, b), \A s \in 1 .. n : f[s] <= g[s],
         NEW t \in 1 .. n, f[t] < g[t]
  PROVE  a[n] < b[n]
<1> DEFINE ok(m) == a[m] <= b[m] /\ (t <= m => a[m] < b[m])
           T == {m \in 0 .. n : ~ok(m)}
<1>0. ok(0) /\ T \in SUBSET Nat /\ \A m : m \in T <=> m \in 0 .. n /\ ~ok(m)
  BY DEF Sums
<1> HIDE DEF T
<1>1. ASSUME T # {} PROVE FALSE
  <2>1. PICK m \in T : \A k \in T : m <= k
    <3> HIDE DEF ok
    <3> QED
      BY <1>0, <1>1, NatLeast
  <2>2. m \in 0 .. n /\ m # 0
    BY <1>0, <2>1
  <2>3. m \in 1 .. n /\ m - 1 \in 0 .. n /\ m - 1 \notin T
    BY <2>1, <2>2
  <2>4. ok(m - 1) /\ a[m] = a[m - 1] + f[m] /\ b[m] = b[m - 1] + g[m] /\ f[m] <= g[m]
    BY <1>0, <2>3 DEF Sums
  <2>5. /\ a[m] \in Nat /\ b[m] \in Nat /\ f[m] \in Nat /\ g[m] \in Nat
        /\ a[m - 1] \in Nat /\ b[m - 1] \in Nat
    BY <2>3 DEF Sums
  <2> DEFINE v == a[m - 1]
             w == b[m - 1]
  <2>6. /\ v <= w /\ (t <= m - 1 => v < w) /\ a[m] = v + f[m] /\ b[m] = w + g[m]
        /\ f[m] <= g[m] /\ v \in Nat /\ w \in Nat /\ f[m] \in Nat /\ g[m] \in Nat
    BY <2>4, <2>5
  <2> HIDE DEF v, w
  <2>7. a[m] <= b[m]
    BY <2>6
  <2>8. ASSUME t <= m PROVE a[m] < b[m]
    <3>1. t = m \/ t <= m - 1
      BY <2>3, <2>8
    <3>2. CASE t = m
      <4>1. f[m] < g[m]
        BY <3>2
      <4> QED
        BY <2>6, <4>1
    <3>3. CASE t <= m - 1
      BY <2>6, <3>3
    <3> QED
      BY <3>1, <3>2, <3>3
  <2> QED
    BY <1>0, <2>1, <2>7, <2>8
<1>2. n \in 0 .. n
  OBVIOUS
<1> QED
  BY <1>0, <1>1, <1>2

LEMMA SumExists ==
  ASSUME NEW n \in Nat, NEW f \in [1 .. n -> Nat]
  PROVE  \E a : Sums(n, f, a)
<1> DEFINE T == {m \in 0 .. n : \A a : ~Sums(m, f, a)}
<1>1. T \in SUBSET Nat /\ \A m : m \in T <=> m \in 0 .. n /\ \A a : ~Sums(m, f, a)
  OBVIOUS
<1> HIDE DEF T
<1>2. ASSUME T # {} PROVE FALSE
  <2>1. PICK m \in T : \A k \in T : m <= k
    BY <1>1, <1>2, NatLeast
  <2>2. m # 0
    <3>1. Sums(0, f, [s \in 0 .. 0 |-> 0])
      BY DEF Sums
    <3> QED
      BY <1>1, <2>1, <3>1
  <2>3. m \in 1 .. n /\ m - 1 \in 0 .. n /\ m - 1 \notin T
    BY <1>1, <2>1, <2>2
  <2>4. PICK a : Sums(m - 1, f, a)
    BY <1>1, <2>3
  <2> DEFINE b == [s \in 0 .. m |-> IF s = m THEN a[m - 1] + f[m] ELSE a[s]]
  <2>5. a \in [0 .. m - 1 -> Nat] /\ a[0] = 0 /\ \A s \in 1 .. m - 1 : a[s] = a[s - 1] + f[s]
    BY <2>4 DEF Sums
  <2>6. f[m] \in Nat /\ a[m - 1] \in Nat
    BY <2>3, <2>5
  <2>7. b \in [0 .. m -> Nat]
    BY <2>3, <2>5, <2>6
  <2>8. b[0] = 0
    BY <2>3, <2>5
  <2>9. ASSUME NEW s \in 1 .. m PROVE b[s] = b[s - 1] + f[s]
    <3>1. CASE s = m
      BY <2>3, <3>1
    <3>2. CASE s # m
      <4>1. s \in 1 .. m - 1 /\ s - 1 \in 0 .. m /\ s - 1 # m /\ s \in 0 .. m
        BY <2>3, <3>2
      <4> QED
        BY <2>5, <3>2, <4>1
    <3> QED
      BY <3>1, <3>2
  <2>10. Sums(m, f, b)
    <3> HIDE DEF b
    <3> QED
      BY <2>7, <2>8, <2>9 DEF Sums
  <2> QED
    BY <1>1, <2>1, <2>10
<1>3. n \in 0 .. n
  OBVIOUS
<1> QED
  BY <1>1, <1>2, <1>3

\* What is defined by recursion is the sum.
LEMMA SumDefined ==
  ASSUME NEW n \in Nat, NEW f \in [1 .. n -> Nat], NEW g,
         g = [s \in 0 .. n |-> IF s = 0 THEN 0 ELSE g[s - 1] + f[s]]
  PROVE  Sums(n, f, g)
<1> DEFINE T == {m \in 0 .. n : g[m] \notin Nat}
<1>0. g[0] = 0 /\ \A s \in 1 .. n : g[s] = g[s - 1] + f[s]
  <2>1. 0 \in 0 .. n /\ \A s \in 1 .. n : s \in 0 .. n /\ s # 0
    OBVIOUS
  <2> QED
    BY <2>1
<1>1. T \in SUBSET Nat /\ \A m : m \in T <=> m \in 0 .. n /\ g[m] \notin Nat
  OBVIOUS
<1> HIDE DEF T
<1>2. ASSUME T # {} PROVE FALSE
  <2>1. PICK m \in T : \A k \in T : m <= k
    BY <1>1, <1>2, NatLeast
  <2>2. m \in 0 .. n
    BY <1>1, <2>1
  <2>3. m # 0
    <3>1. 0 \notin T
      BY <1>0, <1>1
    <3> QED
      BY <2>1, <3>1
  <2>4. m \in 1 .. n /\ m - 1 \in 0 .. n /\ m - 1 \notin T
    BY <2>1, <2>2, <2>3
  <2>5. f[m] \in Nat /\ g[m - 1] \in Nat /\ g[m] = g[m - 1] + f[m]
    BY <1>0, <1>1, <2>4
  <2>6. g[m] \in Nat
    BY <2>5
  <2> QED
    BY <1>1, <2>1, <2>6
<1>3. DOMAIN g = 0 .. n /\ g = [s \in DOMAIN g |-> g[s]]
  OBVIOUS
<1>4. \A m \in 0 .. n : g[m] \in Nat
  BY <1>1, <1>2
<1>5. g \in [0 .. n -> Nat]
  BY <1>3, <1>4
<1> QED
  BY <1>0, <1>5 DEF Sums

\* The state when the scan is over.
Sorted ==
  /\ IsFiniteSet(clusters) /\ NumClusters \in Nat \ {0}
  /\ \A c \in clusters : IsFiniteSet(c) /\ Cardinality(c) \in 1 .. NumCands

LEMMA SortedClusters ==
  ASSUME ScanInv, pc = "scan", ~ByGender, clusters # {}
  PROVE  Sorted
<1>1. PICK n \in 0 .. NumCands : cands = 1 .. n
  BY DEF ScanInv, ScanTypes, Scanned
<1>2. NumCands \in Nat /\ n \in Nat /\ n <= NumCands
  BY FaceMatchingAssumption
<1>3. IsFiniteSet(cands) /\ Cardinality(cands) = n
  BY <1>1, <1>2, FS_Interval
<1>4. clusters \subseteq SUBSET cands /\ {} \notin clusters
  BY DEF ScanInv, ScanTypes, Identities, Scanned
<1>5. IsFiniteSet(clusters) /\ NumClusters \in Nat \ {0}
  <2>1. IsFiniteSet(SUBSET cands)
    BY <1>3, FS_SUBSET
  <2> QED
    BY <1>4, <2>1, FS_Subset, FS_EmptySet, FS_CardinalityType DEF NumClusters
<1>6. ASSUME NEW c \in clusters PROVE IsFiniteSet(c) /\ Cardinality(c) \in 1 .. NumCands
  <2>1. c \in SUBSET cands /\ c # {}
    BY <1>4
  <2>2. IsFiniteSet(c) /\ Cardinality(c) <= n
    BY <1>3, <2>1, FS_Subset
  <2>3. Cardinality(c) \in Nat /\ Cardinality(c) # 0
    BY <2>1, <2>2, FS_EmptySet, FS_CardinalityType
  <2> QED
    BY <1>2, <2>2, <2>3
<1> QED
  BY <1>5, <1>6 DEF Sorted

\* An identity without the gender does not fit at all, one with it does.
LEMMA FitType ==
  ASSUME Sorted, NEW s \in Sources, NEW c \in clusters
  PROVE  /\ Fit(s, c) \in Nat
         /\ NoneOf(gender[s], c) => Fit(s, c) = 0
         /\ ~NoneOf(gender[s], c) => Fit(s, c) > 0
<1> DEFINE same == {d \in c : label[d] = gender[s]}
           n == Cardinality(c)
           k == Cardinality(same)
<1>1. IsFiniteSet(c) /\ n \in 1 .. NumCands
  BY DEF Sorted
<1>2. k \in Nat /\ (k = 0 <=> same = {})
  <2>1. IsFiniteSet(same)
    BY <1>1, FS_Subset
  <2> QED
    BY <2>1, FS_CardinalityType, FS_EmptySet
<1>3. Fit(s, c) = (k * k * Scale) \div n
  BY DEF Fit, Count
<1>4. same = {} <=> NoneOf(gender[s], c)
  BY DEF NoneOf
<1>5. Scale \in Nat /\ n \in Nat \ {0} /\ n <= Scale
  <2>1. PICK m \in 1 .. Scale : Scale = n * m
    BY <1>1, FaceMatchingAssumption
  <2>2. Scale \in Nat /\ n \in Nat \ {0} /\ m \in Nat \ {0}
    BY <1>1, <2>1, FaceMatchingAssumption
  <2> QED
    BY <2>1, <2>2
<1> HIDE DEF n, k
<1>6. (k * k * Scale) \div n \in Nat
  BY <1>2, <1>5
<1>7. k = 0 => (k * k * Scale) \div n = 0
  BY <1>5
<1>8. ASSUME k # 0 PROVE (k * k * Scale) \div n > 0
  <2>1. k * k \in Nat /\ k * k >= 1
    BY <1>2, <1>8
  <2>2. \A i \in Nat : i >= 1 => i * Scale >= Scale /\ i * Scale \in Nat
    BY <1>5
  <2>3. k * k * Scale \in Nat /\ k * k * Scale >= n
    BY <1>5, <2>1, <2>2
  <2>4. \A i \in Nat : i >= n => i \div n > 0
    BY <1>5
  <2> QED
    BY <2>3, <2>4
<1> QED
  BY <1>2, <1>3, <1>4, <1>6, <1>7, <1>8

LEMMA PoolType ==
  ASSUME Sorted
  PROVE  /\ K \in Nat \ {0} /\ NumClusters \in Nat \ {0} /\ PoolLimit \in Nat /\ PoolLimit >= K
         /\ Bound \in Nat \ {0} /\ Bound <= K /\ Bound <= NumClusters
         /\ 1 .. Bound \subseteq Pool /\ Pool \subseteq 1 .. NumClusters
         /\ Pool = 1 .. NumClusters \/ Pool = 1 .. PoolLimit
  BY FaceMatchingAssumption DEF Sorted, PoolLimit, TwiceOr, Least, Pool, Bound

LEMMA SomePerm ==
  ASSUME Sorted
  PROVE  Perms # {} /\ IsFiniteSet(Perms)
<1> DEFINE D == 1 .. Bound
           graph == [p \in Perms |-> {<<i, p[i]>> : i \in D}]
<1>1. Bound \in Nat /\ NumClusters \in Nat /\ D \subseteq Pool /\ Pool \subseteq 1 .. NumClusters
  BY PoolType
<1>2. [i \in D |-> i] \in Perms
  BY <1>1 DEF Perms, Injection, IsInjective
<1>3. IsFiniteSet(D) /\ IsFiniteSet(Pool)
  <2>1. IsFiniteSet(1 .. Bound) /\ IsFiniteSet(1 .. NumClusters)
    BY <1>1, FS_Interval
  <2> QED
    BY <1>1, <2>1, FS_Subset
<1>4. IsFiniteSet(SUBSET (D \X Pool))
  BY <1>3, FS_Product, FS_SUBSET
<1>5. graph \in Injection(Perms, SUBSET (D \X Pool))
  <2>1. \A p \in Perms : p \in [D -> Pool]
    BY DEF Perms, Injection
  <2> HIDE DEF D
  <2>2. ASSUME NEW p \in Perms PROVE graph[p] \in SUBSET (D \X Pool)
    BY <2>1
  <2>3. ASSUME NEW p \in Perms, NEW q \in Perms, graph[p] = graph[q] PROVE p = q
    <3>1. ASSUME NEW i \in D PROVE p[i] = q[i]
      <4>1. <<i, p[i]>> \in graph[q]
        BY <2>3
      <4> QED
        BY <4>1
    <3> QED
      BY <2>1, <3>1
  <2>4. graph \in [Perms -> SUBSET (D \X Pool)]
    BY <2>2
  <2> HIDE DEF graph
  <2> QED
    BY <2>3, <2>4 DEF Injection, IsInjective
<1> QED
  BY <1>2, <1>4, <1>5, FS_Injection

\* The order of the permutations is a strict order, and compares any two.
LEMMA BeforeOrders ==
  ASSUME Sorted
  PROVE  /\ \A p \in Perms : ~Before(p, p)
         /\ \A p, q \in Perms : p # q => Before(p, q) \/ Before(q, p)
         /\ \A p, q, r \in Perms : Before(p, q) /\ Before(q, r) => Before(p, r)
<1>1. Bound \in Nat /\ \A p \in Perms : p \in [1 .. Bound -> Nat]
  BY PoolType DEF Perms, Injection
<1>2. \A p \in Perms : ~Before(p, p)
  BY <1>1 DEF Before
<1>3. ASSUME NEW p \in Perms, NEW q \in Perms, p # q PROVE Before(p, q) \/ Before(q, p)
  <2> DEFINE T == {i \in 1 .. Bound : p[i] # q[i]}
  <2>1. T \in SUBSET Nat
    OBVIOUS
  <2>2. T # {}
    <3>1. ASSUME T = {} PROVE p = q
      <4>1. \A i \in 1 .. Bound : p[i] = q[i]
        BY <3>1
      <4> HIDE DEF T
      <4> QED
        BY <1>1, <4>1
    <3> QED
      BY <1>3, <3>1
  <2>3. PICK i \in T : \A j \in T : i <= j
    BY <2>1, <2>2, NatLeast
  <2>4. i \in 1 .. Bound /\ p[i] # q[i] /\ \A j \in 1 .. i - 1 : p[j] = q[j]
    <3>1. \A j \in 1 .. i - 1 : j \in 1 .. Bound /\ ~(i <= j)
      BY <1>1
    <3> QED
      BY <2>3, <3>1
  <2>5. p[i] < q[i] \/ q[i] < p[i]
    BY <1>1, <2>4
  <2> QED
    BY <2>4, <2>5 DEF Before
<1>4. ASSUME NEW p \in Perms, NEW q \in Perms, NEW r \in Perms, Before(p, q), Before(q, r)
      PROVE  Before(p, r)
  <2>1. PICK i \in 1 .. Bound : p[i] < q[i] /\ \A k \in 1 .. i - 1 : p[k] = q[k]
    BY <1>4 DEF Before
  <2>2. PICK j \in 1 .. Bound : q[j] < r[j] /\ \A k \in 1 .. j - 1 : q[k] = r[k]
    BY <1>4 DEF Before
  <2>3. i \in Nat /\ j \in Nat /\ \A k \in 1 .. Bound : p[k] \in Nat /\ q[k] \in Nat /\ r[k] \in Nat
    BY <1>1
  <2>4. CASE i < j
    <3>1. q[i] = r[i] /\ \A k \in 1 .. i - 1 : q[k] = r[k]
      BY <2>2, <2>3, <2>4
    <3> QED
      BY <2>1, <3>1 DEF Before
  <2>5. CASE ~(i < j)
    <3>1. p[j] <= q[j] /\ \A k \in 1 .. j - 1 : p[k] = q[k]
      BY <2>1, <2>3, <2>5
    <3>2. p[j] < r[j]
      BY <2>2, <2>3, <3>1
    <3> QED
      BY <2>2, <3>1, <3>2 DEF Before
  <2> QED
    BY <2>4, <2>5
<1> QED
  BY <1>2, <1>3, <1>4

\* How the sources fit what a permutation gives them.
Fits(p, o) == [s \in 1 .. Bound |-> Fit(s, o[p[s]])]

LEMMA PermFits ==
  ASSUME Sorted, NEW o \in Orders, NEW p \in Perms
  PROVE  /\ Fits(p, o) \in [1 .. Bound -> Nat]
         /\ \E sum : Sums(Bound, Fits(p, o), sum) /\ TotalFit(p, o) = sum[Bound]
<1>1. /\ Bound \in Nat /\ Bound <= K /\ K \in Nat /\ Pool \subseteq 1 .. NumClusters
      /\ p \in [1 .. Bound -> Pool] /\ o \in [1 .. NumClusters -> clusters]
  BY PoolType DEF Perms, Injection, Orders, Bijection
<1>2. ASSUME NEW s \in 1 .. Bound PROVE s \in Sources /\ o[p[s]] \in clusters
  <2>1. s \in Sources
    BY <1>1 DEF Sources
  <2>2. p[s] \in 1 .. NumClusters
    BY <1>1
  <2> QED
    BY <1>1, <2>1, <2>2
<1>3. Fits(p, o) \in [1 .. Bound -> Nat]
  BY <1>2, FitType DEF Fits
<1> DEFINE Is(g) == g = [s \in 0 .. Bound |-> IF s = 0 THEN 0 ELSE g[s - 1] + Fit(s, o[p[s]])]
           sum == CHOOSE g : Is(g)
<1>4. TotalFit(p, o) = sum[Bound]
  BY DEF TotalFit
<1>5. \A s \in 0 .. Bound : s # 0 => Fits(p, o)[s] = Fit(s, o[p[s]])
  BY <1>1 DEF Fits
<1>6. \E g : Is(g)
  <2>1. PICK a : Sums(Bound, Fits(p, o), a)
    BY <1>1, <1>3, SumExists
  <2>2. a = [s \in 0 .. Bound |-> a[s]] /\ a[0] = 0
    BY <2>1 DEF Sums
  <2>3. \A s \in 0 .. Bound : a[s] = IF s = 0 THEN 0 ELSE a[s - 1] + Fit(s, o[p[s]])
    <3> SUFFICES ASSUME NEW s \in 0 .. Bound, s # 0 PROVE a[s] = a[s - 1] + Fit(s, o[p[s]])
      BY <2>2
    <3>1. s \in 1 .. Bound
      BY <1>1
    <3> QED
      BY <1>5, <2>1, <3>1 DEF Sums
  <2>4. Is(a)
    BY <2>2, <2>3
  <2> QED
    BY <2>4
<1>7. Is(sum)
  BY <1>6
<1> HIDE DEF sum
<1>8. sum = [s \in 0 .. Bound |-> IF s = 0 THEN 0 ELSE sum[s - 1] + Fits(p, o)[s]]
  BY <1>5, <1>7
<1>9. Sums(Bound, Fits(p, o), sum)
  BY <1>1, <1>3, <1>8, SumDefined
<1> QED
  BY <1>3, <1>4, <1>9

\* There is a first one of the best assignments, and it is the one that is taken.
LEMMA BestFitIsBest ==
  ASSUME Sorted, NEW o \in Orders
  PROVE  /\ BestFit(o) \in Perms
         /\ \A q \in Perms : TotalFit(q, o) <= TotalFit(BestFit(o), o)
<1> DEFINE R == {pq \in Perms \X Perms :
                   \/ TotalFit(pq[1], o) > TotalFit(pq[2], o)
                   \/ TotalFit(pq[1], o) = TotalFit(pq[2], o) /\ Before(pq[1], pq[2])}
           fittest == {p \in Perms : \A q \in Perms : TotalFit(q, o) <= TotalFit(p, o)}
<1>1. \A p \in Perms : TotalFit(p, o) \in Nat
  <2> TAKE p \in Perms
  <2>1. PICK sum : Sums(Bound, Fits(p, o), sum) /\ TotalFit(p, o) = sum[Bound]
    BY PermFits
  <2>2. Bound \in 0 .. Bound
    BY PoolType
  <2> QED
    BY <2>1, <2>2 DEF Sums
<1>2. \A p, q \in Perms :
        <<p, q>> \in R <=> \/ TotalFit(p, o) > TotalFit(q, o)
                           \/ TotalFit(p, o) = TotalFit(q, o) /\ Before(p, q)
  OBVIOUS
<1> HIDE DEF R
<1>3. \A p \in Perms : <<p, p>> \notin R
  BY <1>1, <1>2, BeforeOrders
<1>4. \A p, q \in Perms : p # q => <<p, q>> \in R \/ <<q, p>> \in R
  BY <1>1, <1>2, BeforeOrders
<1>5. \A p, q, r \in Perms : <<p, q>> \in R /\ <<q, r>> \in R => <<p, r>> \in R
  BY <1>1, <1>2, BeforeOrders
<1>6. PICK p \in Perms : \A q \in Perms \ {p} : <<p, q>> \in R
  BY <1>3, <1>4, <1>5, SomePerm, FiniteFirst
<1>7. \A q \in Perms : q # p => \/ TotalFit(p, o) > TotalFit(q, o)
                                \/ TotalFit(p, o) = TotalFit(q, o) /\ Before(p, q)
  BY <1>2, <1>6
<1>8. \A q \in Perms : TotalFit(q, o) <= TotalFit(p, o)
  BY <1>1, <1>7
<1>9. \A q \in fittest \ {p} : Before(p, q)
  <2> SUFFICES ASSUME NEW q \in Perms, q # p, TotalFit(p, o) <= TotalFit(q, o) PROVE Before(p, q)
    OBVIOUS
  <2> QED
    BY <1>1, <1>7
<1>10. p \in fittest
  BY <1>8
<1>11. BestFit(o) = CHOOSE x \in fittest : \A q \in fittest \ {x} : Before(x, q)
  BY DEF BestFit
<1>12. BestFit(o) \in fittest
  <2> HIDE DEF fittest
  <2> QED
    BY <1>9, <1>10, <1>11
<1> QED
  BY <1>12

\* A source without its gender would fit better with an identity of the pool that nobody has.
LEMMA BestFitsAll ==
  ASSUME Sorted, NEW o \in Orders, NEW s \in 1 .. Bound, NEW k \in Pool,
         NoneOf(gender[s], o[BestFit(o)[s]]), ~NoneOf(gender[s], o[k])
  PROVE  \E t \in 1 .. Bound : BestFit(o)[t] = k
<1> SUFFICES ASSUME \A t \in 1 .. Bound : BestFit(o)[t] # k PROVE FALSE
  OBVIOUS
<1> DEFINE p == BestFit(o)
           q == [p EXCEPT ![s] = k]
<1>1. p \in Perms
  BY BestFitIsBest
<1>2. /\ Bound \in Nat /\ Bound <= K /\ K \in Nat /\ Pool \subseteq 1 .. NumClusters
      /\ p \in [1 .. Bound -> Pool] /\ o \in [1 .. NumClusters -> clusters]
      /\ \A i, j \in 1 .. Bound : p[i] = p[j] => i = j
  BY <1>1, PoolType DEF Perms, Injection, IsInjective, Orders, Bijection
<1>3. q \in Perms
  <2>1. q \in [1 .. Bound -> Pool]
    BY <1>2
  <2>2. \A i, j \in 1 .. Bound : q[i] = q[j] => i = j
    BY <1>2
  <2> HIDE DEF q
  <2> QED
    BY <2>1, <2>2 DEF Perms, Injection, IsInjective
<1>4. q[s] = k /\ \A t \in 1 .. Bound : t # s => q[t] = p[t]
  BY <1>2
<1> HIDE DEF p, q
<1>5. s \in Sources /\ o[k] \in clusters /\ o[p[s]] \in clusters
  <2>1. s \in Sources
    BY <1>2 DEF Sources
  <2>2. k \in 1 .. NumClusters /\ p[s] \in 1 .. NumClusters
    BY <1>2
  <2> QED
    BY <1>2, <2>1, <2>2
<1>6. Fit(s, o[p[s]]) < Fit(s, o[k])
  <2>1. Fit(s, o[p[s]]) = 0 /\ Fit(s, o[k]) > 0
    BY <1>5, FitType DEF p
  <2> QED
    BY <2>1, <1>5, FitType
<1>7. /\ Fits(p, o)[s] < Fits(q, o)[s]
      /\ \A t \in 1 .. Bound : Fits(p, o)[t] <= Fits(q, o)[t]
  <2>1. Fits(p, o)[s] < Fits(q, o)[s]
    BY <1>4, <1>6 DEF Fits
  <2>2. \A t \in 1 .. Bound : t # s => Fits(p, o)[t] = Fits(q, o)[t]
    BY <1>4 DEF Fits
  <2>3. \A t \in 1 .. Bound : Fits(p, o)[t] \in Nat /\ Fits(q, o)[t] \in Nat
    BY <1>1, <1>3, PermFits
  <2> QED
    BY <2>1, <2>2, <2>3
<1>8. PICK a : Sums(Bound, Fits(p, o), a) /\ TotalFit(p, o) = a[Bound]
  BY <1>1, PermFits
<1>9. PICK b : Sums(Bound, Fits(q, o), b) /\ TotalFit(q, o) = b[Bound]
  BY <1>3, PermFits
<1>10. Fits(p, o) \in [1 .. Bound -> Nat] /\ Fits(q, o) \in [1 .. Bound -> Nat]
  BY <1>1, <1>3, PermFits
<1>11. TotalFit(p, o) < TotalFit(q, o)
  <2> DEFINE f == Fits(p, o)
             g == Fits(q, o)
  <2>1. /\ Bound \in Nat /\ f \in [1 .. Bound -> Nat] /\ g \in [1 .. Bound -> Nat]
        /\ Sums(Bound, f, a) /\ Sums(Bound, g, b)
        /\ \A t \in 1 .. Bound : f[t] <= g[t]
        /\ f[s] < g[s]
    BY <1>2, <1>7, <1>8, <1>9, <1>10
  <2> HIDE DEF f, g
  <2>2. a[Bound] < b[Bound]
    BY <2>1, LargerSum
  <2> QED
    BY <1>8, <1>9, <2>2
<1>12. TotalFit(q, o) <= TotalFit(p, o)
  BY <1>3, BestFitIsBest DEF p
<1>13. TotalFit(p, o) \in Nat /\ TotalFit(q, o) \in Nat
  <2>1. Bound \in 0 .. Bound
    BY <1>2
  <2> QED
    BY <1>8, <1>9, <2>1 DEF Sums
<1> QED
  BY <1>11, <1>12, <1>13

\* The pool is the largest identities: one outside it has as many others at least as large as
\* the pool may hold.
LEMMA OutsidePool ==
  ASSUME Sorted, NEW o \in Orders, NEW k \in 1 .. NumClusters, k \notin Pool
  PROVE  Cardinality(AsLarge(o[k])) >= PoolLimit
<1>1. /\ NumClusters \in Nat /\ PoolLimit \in Nat
      /\ Pool = 1 .. PoolLimit /\ Pool \subseteq 1 .. NumClusters /\ PoolLimit < k
  BY PoolType
<1>2. /\ o \in [1 .. NumClusters -> clusters]
      /\ \A i, j \in 1 .. NumClusters : o[i] = o[j] => i = j
      /\ \A i, j \in 1 .. NumClusters : i < j => Cardinality(o[i]) >= Cardinality(o[j])
  BY DEF Orders, Bijection, Injection, IsInjective
<1> DEFINE f == [i \in Pool |-> o[i]]
<1>3. \A i \in Pool : i \in 1 .. NumClusters /\ i < k
  BY <1>1
<1>4. \A i \in Pool : f[i] \in AsLarge(o[k])
  BY <1>2, <1>3 DEF AsLarge
<1>5. \A i, j \in Pool : f[i] = f[j] => i = j
  BY <1>2, <1>3
<1>6. f \in [Pool -> AsLarge(o[k])]
  BY <1>4
<1> HIDE DEF f
<1>7. f \in Injection(Pool, AsLarge(o[k]))
  BY <1>5, <1>6 DEF Injection, IsInjective
<1>8. IsFiniteSet(AsLarge(o[k]))
  BY FS_Subset DEF AsLarge, Sorted
<1>9. Cardinality(Pool) = PoolLimit
  BY <1>1, FS_Interval
<1>10. Cardinality(Pool) <= Cardinality(AsLarge(o[k])) /\ Cardinality(AsLarge(o[k])) \in Nat
  BY <1>7, <1>8, FS_Injection, FS_CardinalityType
<1> QED
  BY <1>1, <1>9, <1>10

LEMMA AssignStep ==
  ASSUME ScanInv, AssignsClusters
  PROVE  ScanInv'
<1>1. /\ pc = "scan" /\ pc' = "bound" /\ ~ByGender /\ ~ByGender' /\ used = cands
      /\ UNCHANGED <<prog, gender, cands, label, clusters, used>> /\ clusters # {}
      /\ ScanTypes /\ Identities
  BY DEF AssignsClusters, ByGender, scanVars, ScanInv
<1> DEFINE Pads(p) == IF prog = "engine" THEN 1 ELSE p[1]
<1>2. PICK o \in Orders :
        refs' = [s \in Sources |-> o[IF s <= Bound THEN BestFit(o)[s] ELSE Pads(BestFit(o))]]
  BY DEF AssignsClusters
<1> HIDE DEF Pads
<1> DEFINE p == BestFit(o)
           N == NumClusters
<1>3. Sorted
  BY <1>1, SortedClusters
<1>4. /\ o \in [1 .. N -> clusters] /\ \A c \in clusters : \E k \in 1 .. N : o[k] = c
      /\ \A i, j \in 1 .. N : o[i] = o[j] => i = j
  BY DEF Orders, Bijection, Injection, Surjection, IsInjective
<1>5. p \in Perms
  BY <1>3, BestFitIsBest
<1>6. p \in [1 .. Bound -> Pool] /\ \A s, t \in 1 .. Bound : p[s] = p[t] => s = t
  BY <1>5 DEF Perms, Injection, IsInjective
<1>7. /\ K \in Nat \ {0} /\ N \in Nat \ {0} /\ Pool \subseteq 1 .. N
      /\ Bound <= N /\ (Bound = K \/ (Bound = N /\ N < K))
      /\ Bound \in Nat /\ 1 .. Bound \subseteq Pool /\ 1 .. Bound \subseteq Sources
  BY <1>3, PoolType DEF Bound, Least, Sources
<1>8. ASSUME NEW s \in Sources, s \in 1 .. Bound PROVE refs'[s] = o[p[s]] /\ p[s] \in 1 .. N
  <2>1. s <= Bound
    BY <1>7, <1>8
  <2>2. refs'[s] = o[p[s]]
    BY <1>2, <2>1
  <2> HIDE DEF p
  <2> QED
    BY <1>6, <1>7, <1>8, <2>2
<1>9. N >= K => Bound = K /\ \A s \in Sources : s \in 1 .. Bound
  BY <1>7 DEF Sources
<1>10. UNCHANGED <<N, PoolLimit>> /\ \A c : AsLarge(c)' = AsLarge(c) /\ \A g : NoneOf(g, c)' = NoneOf(g, c)
  BY <1>1 DEF NumClusters, PoolLimit, TwiceOr, AsLarge, NoneOf
<1> HIDE DEF p, N
<1>11. OwnPerson'
  <2>1. ASSUME N >= K, NEW s \in Sources, NEW t \in Sources, s # t PROVE refs'[s] \cap refs'[t] = {}
    <3>1. p[s] # p[t]
      BY <1>6, <1>9, <2>1
    <3>2. o[p[s]] # o[p[t]] /\ o[p[s]] \in clusters /\ o[p[t]] \in clusters
      BY <1>4, <1>8, <1>9, <2>1, <3>1
    <3> QED
      BY <1>1, <1>8, <1>9, <2>1, <3>2 DEF Identities, Scanned
  <2> QED
    BY <1>10, <2>1 DEF OwnPerson, N
<1>12. FittingPerson'
  <2>1. ASSUME NEW s \in Sources, NEW c \in clusters, NoneOf(gender[s], refs'[s]), ~NoneOf(gender[s], c)
        PROVE  (\E t \in Sources : refs'[t] = c) \/ Cardinality(AsLarge(c)) >= PoolLimit
    <3>1. PICK k \in 1 .. N : o[k] = c
      BY <1>4
    <3>2. ASSUME NEW t \in 1 .. Bound, p[t] = k PROVE \E u \in Sources : refs'[u] = c
      BY <1>7, <1>8, <3>1, <3>2
    <3>3. CASE N >= K
      <4>1. CASE k \in Pool
        <5>1. s \in 1 .. Bound /\ NoneOf(gender[s], o[p[s]]) /\ ~NoneOf(gender[s], o[k])
          BY <1>8, <1>9, <2>1, <3>1, <3>3
        <5>2. \E t \in 1 .. Bound : p[t] = k
          BY <1>3, <4>1, <5>1, BestFitsAll DEF p
        <5> QED
          BY <3>2, <5>2
      <4>2. CASE k \notin Pool
        BY <1>3, <3>1, <4>2, OutsidePool DEF N
      <4> QED
        BY <4>1, <4>2
    <3>4. CASE ~(N >= K)
      <4>1. Bound = N /\ Pool = 1 .. N
        BY <1>7, <3>4
      <4>2. IsFiniteSet(1 .. N)
        BY <1>7, FS_Interval
      <4>3. p \in Surjection(1 .. N, 1 .. N)
        BY <1>5, <4>1, <4>2, FS_Injection DEF Perms
      <4>4. \E t \in 1 .. N : p[t] = k
        BY <4>3 DEF Surjection
      <4> QED
        BY <3>2, <4>1, <4>4
    <3> QED
      BY <3>3, <3>4
  <2> QED
    BY <1>1, <1>10, <2>1 DEF FittingPerson
<1>13. ScanTypes' /\ Identities' /\ GenderPicks'
  BY <1>1 DEF ScanTypes, Identities, GenderPicks, Scanned
<1> QED
  BY <1>1, <1>11, <1>12, <1>13 DEF ScanInv

LEMMA ScanInvStep == ScanInv /\ [Next]_vars => ScanInv'
<1> SUFFICES ASSUME ScanInv, [Next]_vars PROVE ScanInv'
  OBVIOUS
<1>1. CASE ScanFails \/ Begins \/ Frame
  <2>1. pc' \notin {"scan", "bound"}
    BY <1>1 DEF ScanFails, Begins, Frame, Detects, Matches, Renders, Retry, SettlesFor, NextFrame
  <2> QED
    BY <2>1 DEF ScanInv, ScanTypes, Identities, GenderPicks, Scanned
<1>2. CASE UNCHANGED vars
  <2>1. UNCHANGED <<pc, prog, gender, cands, label, clusters, used, refs>>
    BY <1>2 DEF vars, scanVars
  <2>2. UNCHANGED <<ByGender, Scanned, OwnPerson>>
    BY <2>1 DEF ByGender, Scanned, OwnPerson, NumClusters
  <2>3. UNCHANGED FittingPerson
    <3>1. UNCHANGED PoolLimit /\ \A c : AsLarge(c)' = AsLarge(c) /\ \A g : NoneOf(g, c)' = NoneOf(g, c)
      BY <2>1 DEF PoolLimit, TwiceOr, AsLarge, NoneOf
    <3> QED
      BY <2>1, <3>1 DEF FittingPerson
  <2>4. UNCHANGED <<ScanTypes, Identities, GenderPicks>>
    BY <2>1, <2>2 DEF ScanTypes, Identities, GenderPicks
  <2> QED
    BY <2>1, <2>2, <2>3, <2>4 DEF ScanInv
<1> QED
  BY <1>1, <1>2, ClaimStep, PickStep, AssignStep DEF Next, References

\* However many faces the scan finds and whichever are alike: each of them belongs to exactly
\* one identity; sources share one only when there are too few, and none is bound to one without
\* its gender while one with it is left over in the pool; and the server gives a face to two
\* sources only when the faces of their gender are used up.
THEOREM PersonsBound == Spec => []EverySourceHasItsPerson
<1>1. ScanInv => EverySourceHasItsPerson
  <2> SUFFICES ASSUME ScanInv, pc = "bound" PROVE EverySourceHasItsPerson
    BY DEF EverySourceHasItsPerson
  <2>1. CASE ByGender
    BY <2>1 DEF ScanInv, GenderPicks, Scanned, EverySourceHasItsPerson
  <2>2. CASE ~ByGender
    <3>1. ASSUME NEW f \in cands PROVE Cardinality({c \in clusters : f \in c}) = 1
      <4>1. PICK c \in clusters : f \in c
        BY <2>2 DEF ScanInv, Identities, Scanned
      <4>2. {d \in clusters : f \in d} = {c}
        BY <2>2, <4>1 DEF ScanInv, Identities, Scanned
      <4> QED
        BY <4>2, FS_Singleton
    <3> QED
      BY <2>2, <3>1 DEF ScanInv, OwnPerson, FittingPerson, EverySourceHasItsPerson
  <2> QED
    BY <2>1, <2>2
<1> QED
  BY <1>1, InitScanInv, ScanInvStep, PTL DEF Spec

-------------------------------------------------------------------------------
(* What is written *)

\* The frame that is written is the best of all that were rendered; no attempt follows one
\* that does not fail, and a frame is flagged exactly when its whole budget has failed.
THEOREM BestIsKept == Spec => []KeepsTheBest
<1>1. ASSUME FrameInv, pc = "settled" PROVE KeepsTheBest
  <2>1. /\ tried \in Seq(Flickers) /\ tried # <<>> /\ Retries <= Budget /\ best \in Flickers
        /\ \E i \in DOMAIN tried : tried[i] = best
        /\ \A i \in DOMAIN tried : best <= tried[i]
        /\ \A i \in 1 .. Len(tried) - 1 : Fail(tried[i])
        /\ review = Fail(best) /\ (Fail(best) => Retries = Budget)
    BY <1>1 DEF FrameInv, Attempts, Settled
  <2>2. \A i \in DOMAIN tried : tried[i] \in Flickers
    BY <2>1
  <2>3. Fail(best) => Len(tried) = Budget + 1
    BY <2>1, BudgetType DEF Retries
  <2>4. Fail(best) <=> \A i \in DOMAIN tried : Fail(tried[i])
    BY <2>1, <2>2 DEF Fail, Flickers
  <2> QED
    BY <2>1, <2>3, <2>4 DEF KeepsTheBest
<1>2. FrameInv => KeepsTheBest
  BY <1>1 DEF KeepsTheBest
<1> QED
  BY <1>2, InitFrameInv, FrameInvStep, PTL DEF Spec

\* The swap does not blink, however many sources and places there are: one face per source,
\* every source in a duet, no matching face left out, and a source that had a face keeps one
\* that overlaps it unless others have taken them all.
THEOREM MatchingIsStable == Spec => SwapStaysStable
<1> DEFINE Stable ==
     pc = "match" =>
       /\ OneToOne(primary')
       /\ ~ByGender /\ Cardinality(faces) = K => \A s \in Sources : primary'[s] # None
       /\ \A f \in faces :
            (\E s \in Sources : sims[f][s] >= Thresh) =>
              (\E s \in Sources : primary'[s] = f) \/ (f \in DOMAIN extra' /\ extra'[f] # None)
       /\ \A s \in Sources :
            Tracks /\ last[s] # None /\ misses[s] <= CarryFrames /\ primary'[s] = None =>
              \A f \in faces : Iou(f, last[s]) >= Gate => \E t \in Sources : primary'[t] = f
<1>1. FrameInv /\ Next => Stable
  <2> SUFFICES ASSUME FrameInv, Next, pc = "match" PROVE Stable
    OBVIOUS
  <2>1. Matches
    BY DEF Next, References, Frame, ScanFails, ClaimCluster, AssignsClusters, PicksByGender, Begins,
       Detects, Renders, Retry, SettlesFor, NextFrame
  <2> QED
    BY <2>1, MatchesStable
<1>2. FrameInv /\ [Next]_vars => [Stable]_vars
  BY <1>1
<1> QED
  BY <1>2, InitFrameInv, FrameInvStep, PTL DEF Spec, SwapStaysStable
================================================================================
