------------------------- MODULE BoardDiscoveryProofs -------------------------
(***************************************************************************)
(* Proofs about BoardDiscovery, for any sources, tokens and limits.        *)
(***************************************************************************)
EXTENDS BoardDiscovery, NaturalOrder, SequenceTheorems, TLAPS

(* What the properties rest on: candidates grow without a repetition and   *)
(* with their evidence, and verification works its way through them.       *)

Asking == {"start", "crawling", "visiting"}
Judged == {"valid", "empty", "invalid"}

\* A query has pages left while it reads them.
PagesFit ==
  \A q \in Queries :
    /\ scan[q] \in {"waiting", "counting"} => page[q] = 0
    /\ scan[q] = "paging" => page[q] < pageCount[q]

CrawlInvariant == PagesFit /\ CandidatesBounded /\ EvidenceComplete

\* How many candidates the finished batches cover.
Done == IF first - 1 <= Len(candidates) THEN first - 1 ELSE Len(candidates)

FirstOf(s) == SubSeq(s, 1, IF Len(s) <= Limit THEN Len(s) ELSE Limit)

\* Candidates are judged in their order, batch by batch.
VerdictsFit ==
  /\ first > 0
  /\ phase \in Asking => first = 1 /\ \A t \in Tokens : verdict[t] = "none"
  /\ \A i \in 1..Done : verdict[candidates[i]] \in Judged
  /\ phase # "aborted" =>
       \A i \in 1..Len(candidates) :
         i > Done /\ ~(phase = "batch" /\ i <= LastOf(first)) => verdict[candidates[i]] = "none"
  /\ phase = "batch" => first <= Len(candidates) /\ Len(boards) < Limit
  /\ phase \in {"enriching", "sorting", "reporting", "stored"} =>
       first > Len(candidates) \/ Len(boards) >= Limit

BoardsFit == boards = FirstOf(ValidOf(1, Done))

CountsFit ==
  /\ counts.verified = Done
  /\ Len(boards) + counts.invalid + counts.empty <= Done
  /\ Len(boards) < Limit => Len(boards) + counts.invalid + counts.empty = Done

VerifyInvariant == VerdictsFit /\ BoardsFit /\ CountsFit

\* The report lists the verified boards, and its rows are what is stored.
ReportFits ==
  /\ phase \in {"reporting", "stored"} =>
       Len(report) = Len(boards) /\ ToSet(report) = ToSet(boards)
  /\ phase = "stored" => stored = ToSet(report)

DiscoveryInvariant == TypeOK /\ CrawlInvariant /\ VerifyInvariant /\ ReportFits

-----------------------------------------------------------------------------
(* Sequences that keep some elements of another one.                       *)

\* F[n] is what is kept of the first n elements of s.
Keeps(F, s, P, S) ==
  /\ F \in [0..Len(s) -> Seq(S)]
  /\ F[0] = << >>
  /\ \A n \in 1..Len(s) : F[n] = IF n \in P THEN Append(F[n - 1], s[n]) ELSE F[n - 1]

LEMMA KeepsExists ==
  ASSUME NEW S, NEW s \in Seq(S), NEW P
  PROVE  \E F : Keeps(F, s, P, S)
<1> DEFINE G(m) ==
      {g \in [0..m -> Seq(S)] :
         /\ g[0] = << >>
         /\ \A n \in 1..m : g[n] = IF n \in P THEN Append(g[n - 1], s[n]) ELSE g[n - 1]}
           Built == {m \in 0..Len(s) : G(m) # {}}
<1>0. Len(s) \in Nat /\ << >> \in Seq(S)
  BY EmptySeq, LenProperties
<1>1. 0 \in Built
  <2>1. [n \in 0..0 |-> << >>] \in G(0)
    BY <1>0
  <2> QED BY <1>0, <2>1
<1>2. ASSUME NEW m \in 1..Len(s), m - 1 \in Built
      PROVE  m \in Built
  <2>1. PICK g \in [0..(m - 1) -> Seq(S)] :
          /\ g[0] = << >>
          /\ \A n \in 1..(m - 1) : g[n] = IF n \in P THEN Append(g[n - 1], s[n]) ELSE g[n - 1]
    BY <1>2
  <2> DEFINE last == IF m \in P THEN Append(g[m - 1], s[m]) ELSE g[m - 1]
             h == [n \in 0..m |-> IF n = m THEN last ELSE g[n]]
  <2>2. last \in Seq(S)
    <3>1. g[m - 1] \in Seq(S) /\ s[m] \in S
      BY <1>0, <2>1, ElementOfSeq
    <3> QED BY <3>1, AppendProperties
  <2>3. h \in [0..m -> Seq(S)]
    BY <2>1, <2>2
  <2>4. h[0] = << >> /\ h[m] = last /\ \A n \in 0..(m - 1) : h[n] = g[n]
    BY <2>1
  <2> HIDE DEF h, last
  <2>5. \A n \in 1..m : h[n] = IF n \in P THEN Append(h[n - 1], s[n]) ELSE h[n - 1]
    <3>1. ASSUME NEW n \in 1..m, n # m
          PROVE  h[n] = IF n \in P THEN Append(h[n - 1], s[n]) ELSE h[n - 1]
      <4>1. n \in 1..(m - 1) /\ n \in 0..(m - 1) /\ n - 1 \in 0..(m - 1)
        BY <3>1
      <4> QED BY <2>1, <2>4, <4>1
    <3>2. h[m] = IF m \in P THEN Append(h[m - 1], s[m]) ELSE h[m - 1]
      <4>1. m - 1 \in 0..(m - 1)
        OBVIOUS
      <4> QED BY <2>4, <4>1 DEF last
    <3> QED BY <3>1, <3>2
  <2>6. h \in G(m)
    BY <2>3, <2>4, <2>5
  <2>7. m \in 0..Len(s)
    BY <1>0
  <2> QED BY <2>6, <2>7
<1>3. G(Len(s)) # {}
  <2> HIDE DEF G
  <2>1. Built \in SUBSET (0..Len(s)) /\ Len(s) \in 0..Len(s)
    BY <1>0
  <2>2. \A n \in 0..Len(s) : n \in Built
    BY <1>0, <1>1, <1>2, <2>1, Ascending
  <2> QED BY <2>1, <2>2
<1> QED BY <1>3 DEF Keeps

LEMMA KeptIsLast ==
  ASSUME NEW S, NEW s \in Seq(S), NEW P, NEW F, Keeps(F, s, P, S)
  PROVE  Kept(s, P) = F[Len(s)]
<1> DEFINE U == CHOOSE U : U = [n \in 0..Len(s) |->
                                  IF n = 0 THEN << >>
                                  ELSE IF n \in P THEN Append(U[n - 1], s[n])
                                  ELSE U[n - 1]]
<1>0. Len(s) \in Nat
  BY LenProperties
<1>1. Kept(s, P) = U[Len(s)]
  BY DEF Kept
<1>2. F = [n \in 0..Len(s) |-> IF n = 0 THEN << >>
                               ELSE IF n \in P THEN Append(F[n - 1], s[n])
                               ELSE F[n - 1]]
  <2>1. F = [n \in 0..Len(s) |-> F[n]]
    BY DEF Keeps
  <2>2. \A n \in 0..Len(s) : F[n] = IF n = 0 THEN << >>
                                    ELSE IF n \in P THEN Append(F[n - 1], s[n])
                                    ELSE F[n - 1]
    <3>1. F[0] = << >> /\ \A n \in 1..Len(s) : F[n] = IF n \in P THEN Append(F[n - 1], s[n])
                                                      ELSE F[n - 1]
      BY DEF Keeps
    <3>2. \A n \in 0..Len(s) : n = 0 \/ (n # 0 /\ n \in 1..Len(s))
      BY <1>0
    <3> QED BY <3>1, <3>2
  <2> QED BY <2>1, <2>2
<1>3. U = [n \in 0..Len(s) |-> IF n = 0 THEN << >>
                               ELSE IF n \in P THEN Append(U[n - 1], s[n])
                               ELSE U[n - 1]]
  BY <1>2
<1> HIDE DEF U
<1> DEFINE Same == {n \in 0..Len(s) : U[n] = F[n]}
<1>4. 0 \in Same
  BY <1>0, <1>3 DEF Keeps
<1>5. ASSUME NEW n \in 1..Len(s), n - 1 \in Same
      PROVE  n \in Same
  <2>1. n \in 0..Len(s) /\ n # 0 /\ U[n - 1] = F[n - 1]
    BY <1>0, <1>5
  <2>2. U[n] = IF n \in P THEN Append(U[n - 1], s[n]) ELSE U[n - 1]
    BY <1>3, <2>1
  <2> QED BY <2>1, <2>2 DEF Keeps
<1>6. \A n \in 0..Len(s) : n \in Same
  <2>1. Same \in SUBSET (0..Len(s))
    OBVIOUS
  <2> QED BY <1>0, <1>4, <1>5, <2>1, Ascending
<1> QED BY <1>0, <1>1, <1>6

LEMMA SetOfAppend ==
  ASSUME NEW S, NEW s \in Seq(S), NEW x \in S
  PROVE  ToSet(Append(s, x)) = ToSet(s) \union {x}
<1> DEFINE a == Append(s, x)
<1>1. /\ DOMAIN a = 1..(Len(s) + 1) /\ DOMAIN s = 1..Len(s) /\ Len(s) \in Nat
      /\ \A i \in 1..Len(s) : a[i] = s[i]
      /\ a[Len(s) + 1] = x
  BY AppendProperties, LenProperties
<1> HIDE DEF a
<1>2. ASSUME NEW y, y \in {a[i] : i \in 1..(Len(s) + 1)}
      PROVE  y \in {s[i] : i \in 1..Len(s)} \union {x}
  BY <1>1, <1>2
<1>3. ASSUME NEW y, y \in {s[i] : i \in 1..Len(s)} \union {x}
      PROVE  y \in {a[i] : i \in 1..(Len(s) + 1)}
  <2>1. CASE y = x
    <3>1. Len(s) + 1 \in 1..(Len(s) + 1)
      BY <1>1
    <3> QED BY <1>1, <2>1, <3>1
  <2>2. CASE y # x
    <3>1. PICK i \in 1..Len(s) : y = s[i]
      BY <1>3, <2>2
    <3>2. i \in 1..(Len(s) + 1) /\ y = a[i]
      BY <1>1, <3>1
    <3> QED BY <3>2
  <2> QED BY <2>1, <2>2
<1>4. ToSet(a) = {a[i] : i \in 1..(Len(s) + 1)} /\ ToSet(s) = {s[i] : i \in 1..Len(s)}
  BY <1>1 DEF ToSet
<1>5. ToSet(a) = ToSet(s) \union {x}
  BY <1>2, <1>3, <1>4
<1> QED BY <1>5 DEF a

\* Names for two operators that the provers would otherwise expand.
Joined(s, t) == s \o t
Longer(s, x) == Append(s, x)

LEMMA LongerAfterJoined ==
  ASSUME NEW S, NEW s \in Seq(S), NEW t \in Seq(S), NEW x \in S
  PROVE  Longer(Joined(s, t), x) = Joined(s, Longer(t, x))
  BY DEF Joined, Longer

\* What is kept: how many elements, which ones, and each once if the positions differ in them.
LEMMA KeepsFacts ==
  ASSUME NEW S, NEW s \in Seq(S), NEW P, NEW F, Keeps(F, s, P, S)
  PROVE  \A n \in 0..Len(s) :
           /\ Len(F[n]) = Cardinality(P \intersect (1..n))
           /\ ToSet(F[n]) = {s[i] : i \in P \intersect (1..n)}
           /\ (\A i, j \in P \intersect (1..n) : s[i] = s[j] => i = j) => IsInjective(F[n])
<1> DEFINE Here(n) == P \intersect (1..n)
           Fact(n) == /\ Len(F[n]) = Cardinality(Here(n))
                      /\ ToSet(F[n]) = {s[i] : i \in Here(n)}
                      /\ (\A i, j \in Here(n) : s[i] = s[j] => i = j) => IsInjective(F[n])
           T == {n \in 0..Len(s) : Fact(n)}
<1>0. Len(s) \in Nat
  BY LenProperties
<1>1. 0 \in T
  <2>1. Here(0) = {}
    OBVIOUS
  <2>2. F[0] = << >> /\ Len(F[0]) = 0 /\ ToSet(F[0]) = {} /\ IsInjective(F[0])
    BY DEF Keeps, ToSet, IsInjective
  <2>3. Cardinality(Here(0)) = 0
    BY <2>1, FS_EmptySet
  <2> QED BY <1>0, <2>1, <2>2, <2>3
<1>2. ASSUME NEW n \in 1..Len(s), n - 1 \in T
      PROVE  n \in T
  <2>0. n - 1 \in 0..Len(s) /\ n \in 0..Len(s) /\ Fact(n - 1) /\ n \in Nat /\ n - 1 \in Nat
    BY <1>0, <1>2
  <2>a. F[n - 1] \in Seq(S) /\ s[n] \in S
    BY <1>0, <2>0, ElementOfSeq DEF Keeps
  <2>1. CASE n \notin P
    <3>1. Here(n) = Here(n - 1)
      BY <2>0, <2>1
    <3>2. F[n] = F[n - 1]
      BY <2>1 DEF Keeps
    <3> QED BY <2>0, <3>1, <3>2
  <2>2. CASE n \in P
    <3>1. Here(n) = Here(n - 1) \union {n} /\ n \notin Here(n - 1)
      BY <2>0, <2>2
    <3> HIDE DEF Here
    <3>2. F[n] = Append(F[n - 1], s[n])
      BY <2>2 DEF Keeps
    <3>3. /\ Len(F[n]) = Len(F[n - 1]) + 1
          /\ \A i \in 1..Len(F[n - 1]) : F[n][i] = F[n - 1][i]
          /\ F[n][Len(F[n - 1]) + 1] = s[n]
          /\ DOMAIN F[n] = 1..(Len(F[n - 1]) + 1) /\ DOMAIN F[n - 1] = 1..Len(F[n - 1])
          /\ Len(F[n - 1]) \in Nat
      BY <2>a, <3>2, AppendProperties, LenProperties
    <3>4. Len(F[n]) = Cardinality(Here(n))
      <4>1. IsFiniteSet(Here(n - 1))
        <5>1. IsFiniteSet(1..(n - 1))
          BY <2>0, FS_Interval
        <5> QED BY <5>1, FS_Subset DEF Here
      <4>2. Cardinality(Here(n)) = Cardinality(Here(n - 1)) + 1
        BY <3>1, <4>1, FS_AddElement
      <4> QED BY <2>0, <3>3, <4>2
    <3>5. ToSet(F[n]) = ToSet(F[n - 1]) \union {s[n]}
      BY <2>a, <3>2, SetOfAppend
    <3>6. ToSet(F[n]) = {s[i] : i \in Here(n)}
      BY <2>0, <3>1, <3>5
    <3>7. ASSUME \A i, j \in Here(n) : s[i] = s[j] => i = j
          PROVE  IsInjective(F[n])
      <4>1. IsInjective(F[n - 1])
        BY <2>0, <3>1, <3>7
      <4>2. s[n] \notin ToSet(F[n - 1])
        BY <2>0, <3>1, <3>7
      <4>3. \A k \in 1..Len(F[n - 1]) : F[n - 1][k] # s[n]
        BY <3>3, <4>2 DEF ToSet
      <4>4. \A k, l \in 1..Len(F[n - 1]) : F[n - 1][k] = F[n - 1][l] => k = l
        BY <3>3, <4>1 DEF IsInjective
      <4>5. \A k, l \in 1..(Len(F[n - 1]) + 1) : F[n][k] = F[n][l] => k = l
        BY <3>3, <4>3, <4>4
      <4> QED BY <3>3, <4>5 DEF IsInjective
    <3> QED BY <2>0, <3>4, <3>6, <3>7
  <2> QED BY <2>1, <2>2
<1>3. \A n \in 0..Len(s) : n \in T
  <2>1. T \in SUBSET (0..Len(s))
    OBVIOUS
  <2> HIDE DEF T
  <2> QED BY <1>0, <1>1, <1>2, <2>1, Ascending
<1> QED BY <1>3

LEMMA KeptFacts ==
  ASSUME NEW S, NEW s \in Seq(S), NEW P \in SUBSET (1..Len(s))
  PROVE  /\ Kept(s, P) \in Seq(S)
         /\ Len(Kept(s, P)) = Cardinality(P)
         /\ ToSet(Kept(s, P)) = {s[i] : i \in P}
         /\ (\A i, j \in P : s[i] = s[j] => i = j) => IsInjective(Kept(s, P))
<1>1. PICK F : Keeps(F, s, P, S)
  BY KeepsExists
<1>2. Kept(s, P) = F[Len(s)]
  BY <1>1, KeptIsLast
<1>3. Len(s) \in 0..Len(s) /\ P \intersect (1..Len(s)) = P
  <2>1. Len(s) \in Nat
    BY LenProperties
  <2>2. Len(s) \in 0..Len(s)
    BY <2>1
  <2>3. P \subseteq 1..Len(s)
    OBVIOUS
  <2>4. P \intersect (1..Len(s)) = P
    BY <2>3, Zenon
  <2> QED BY <2>2, <2>4
<1>4. F[Len(s)] \in Seq(S)
  BY <1>1, <1>3 DEF Keeps
<1>5. /\ Len(F[Len(s)]) = Cardinality(P)
      /\ ToSet(F[Len(s)]) = {s[i] : i \in P}
      /\ (\A i, j \in P : s[i] = s[j] => i = j) => IsInjective(F[Len(s)])
  <2> DEFINE n == Len(s)
  <2>1. /\ Len(F[n]) = Cardinality(P \intersect (1..n))
        /\ ToSet(F[n]) = {s[i] : i \in P \intersect (1..n)}
        /\ (\A i, j \in P \intersect (1..n) : s[i] = s[j] => i = j) => IsInjective(F[n])
    <3>1. \A k \in 0..Len(s) :
            /\ Len(F[k]) = Cardinality(P \intersect (1..k))
            /\ ToSet(F[k]) = {s[i] : i \in P \intersect (1..k)}
            /\ (\A i, j \in P \intersect (1..k) : s[i] = s[j] => i = j) => IsInjective(F[k])
      BY <1>1, KeepsFacts, Zenon
    <3> QED BY <1>3, <3>1, Zenon
  <2> QED BY <1>3, <2>1
<1> QED BY <1>2, <1>4, <1>5

\* What is kept up to some position, then what is kept after it.
LEMMA KeptInTwoParts ==
  ASSUME NEW S, NEW s \in Seq(S), NEW m \in 0..Len(s),
         NEW P \in SUBSET (1..m), NEW Q \in SUBSET ((m + 1)..Len(s))
  PROVE  Kept(s, P \union Q) = Kept(s, P) \o Kept(s, Q)
<1>0. Len(s) \in Nat /\ m \in Nat
  BY LenProperties
<1>1. PICK F : Keeps(F, s, P \union Q, S)
  BY KeepsExists
<1>2. PICK G : Keeps(G, s, P, S)
  BY KeepsExists
<1>3. PICK H : Keeps(H, s, Q, S)
  BY KeepsExists
<1> DEFINE T == {n \in 0..Len(s) : F[n] = G[n] \o H[n] /\ (n <= m => H[n] = << >>)}
<1>4. 0 \in T
  <2>1. F[0] = << >> /\ G[0] = << >> /\ H[0] = << >>
    BY <1>1, <1>2, <1>3 DEF Keeps
  <2>2. << >> \in Seq(S)
    BY EmptySeq
  <2>3. << >> \o << >> = << >>
    BY <2>2, ConcatEmptySeq
  <2>4. F[0] = G[0] \o H[0] /\ H[0] = << >>
    BY <2>1, <2>3
  <2>5. 0 \in 0..Len(s)
    BY <1>0
  <2> QED BY <2>4, <2>5
<1>5. ASSUME NEW n \in 1..Len(s), n - 1 \in T
      PROVE  n \in T
  <2>1. /\ n - 1 \in 0..Len(s) /\ n \in 0..Len(s) /\ n \in Nat
        /\ F[n - 1] = G[n - 1] \o H[n - 1]
        /\ n - 1 <= m => H[n - 1] = << >>
    <3>1. n - 1 \in 0..Len(s) /\ n \in 0..Len(s) /\ n \in Nat
      BY <1>0
    <3> QED BY <1>5, <3>1
  <2>2. G[n - 1] \in Seq(S) /\ H[n - 1] \in Seq(S) /\ s[n] \in S
    BY <1>0, <1>2, <1>3, <2>1, ElementOfSeq DEF Keeps
  <2>3. CASE n \in P
    <3>1. n <= m /\ n \notin Q
      BY <1>0, <2>1, <2>3
    <3>2. F[n] = Append(F[n - 1], s[n]) /\ G[n] = Append(G[n - 1], s[n]) /\ H[n] = H[n - 1]
      BY <1>1, <1>2, <1>3, <2>3, <3>1 DEF Keeps
    <3>3. H[n - 1] = << >>
      BY <1>0, <2>1, <3>1
    <3>4. G[n - 1] \o << >> = G[n - 1]
      BY <2>2, ConcatEmptySeq
    <3>5. G[n] \in Seq(S)
      BY <2>2, <3>2, AppendProperties
    <3>6. G[n] \o << >> = G[n]
      BY <3>5, ConcatEmptySeq
    <3> QED BY <2>1, <3>2, <3>3, <3>4, <3>6
  <2>4. CASE n \in Q
    <3>1. ~(n <= m) /\ n \notin P
      BY <1>0, <2>1, <2>4
    <3>2. F[n] = Append(F[n - 1], s[n]) /\ H[n] = Append(H[n - 1], s[n]) /\ G[n] = G[n - 1]
      BY <1>1, <1>2, <1>3, <2>4, <3>1 DEF Keeps
    <3>3. Append(G[n - 1] \o H[n - 1], s[n]) = G[n - 1] \o Append(H[n - 1], s[n])
      <4>1. Longer(Joined(G[n - 1], H[n - 1]), s[n]) = Joined(G[n - 1], Longer(H[n - 1], s[n]))
        BY <2>2, LongerAfterJoined
      <4> QED BY <4>1 DEF Joined, Longer
    <3> QED BY <2>1, <3>1, <3>2, <3>3
  <2>5. CASE n \notin P /\ n \notin Q
    <3>1. F[n] = F[n - 1] /\ H[n] = H[n - 1] /\ G[n] = G[n - 1]
      BY <1>1, <1>2, <1>3, <2>5 DEF Keeps
    <3>2. n <= m => n - 1 <= m
      BY <1>0, <2>1
    <3> QED BY <2>1, <3>1, <3>2
  <2> QED BY <2>3, <2>4, <2>5
<1>6. \A n \in 0..Len(s) : n \in T
  <2>1. T \in SUBSET (0..Len(s))
    OBVIOUS
  <2> HIDE DEF T
  <2> QED BY <1>0, <1>4, <1>5, <2>1, Ascending
<1>7. Len(s) \in 0..Len(s)
  BY <1>0
<1>8. F[Len(s)] = G[Len(s)] \o H[Len(s)]
  BY <1>6, <1>7
<1> QED BY <1>1, <1>2, <1>3, <1>8, KeptIsLast

-----------------------------------------------------------------------------
(* Sequences without a repetition, and how many elements they have.        *)

LEMMA FiniteImage ==
  ASSUME NEW P, IsFiniteSet(P), NEW s
  PROVE  IsFiniteSet({s[i] : i \in P})
<1> DEFINE T == {s[i] : i \in P}
           f == [i \in P |-> s[i]]
<1>1. f \in Surjection(P, T)
  BY DEF Surjection
<1> HIDE DEF f, T
<1>2. IsFiniteSet(T)
  BY <1>1, FS_Surjection
<1> QED BY <1>2 DEF T

LEMMA InjectiveImage ==
  ASSUME NEW P, IsFiniteSet(P), NEW s, \A i, j \in P : s[i] = s[j] => i = j
  PROVE  LET T == {s[i] : i \in P}
         IN  IsFiniteSet(T) /\ Cardinality(T) = Cardinality(P)
<1> DEFINE T == {s[i] : i \in P}
           f == [i \in P |-> s[i]]
<1>1. f \in Surjection(P, T)
  BY DEF Surjection
<1>2. f \in Injection(P, T)
  BY DEF Injection, IsInjective
<1> HIDE DEF f, T
<1>3. IsFiniteSet(T) /\ Cardinality(T) = Cardinality(P)
  BY <1>1, <1>2, FS_Surjection
<1> QED BY <1>3 DEF T

LEMMA LengthOfInjective ==
  ASSUME NEW S, NEW s \in Seq(S), IsInjective(s)
  PROVE  IsFiniteSet(ToSet(s)) /\ Cardinality(ToSet(s)) = Len(s)
<1>1. Len(s) \in Nat /\ DOMAIN s = 1..Len(s)
  BY LenProperties
<1>2. IsFiniteSet(1..Len(s)) /\ Cardinality(1..Len(s)) = Len(s)
  BY <1>1, FS_Interval
<1>3. \A i, j \in 1..Len(s) : s[i] = s[j] => i = j
  BY <1>1 DEF IsInjective
<1>4. ToSet(s) = {s[i] : i \in 1..Len(s)}
  BY <1>1 DEF ToSet
<1> QED BY <1>2, <1>3, <1>4, InjectiveImage

LEMMA PlacesInConcat ==
  ASSUME NEW S, NEW s \in Seq(S), NEW t \in Seq(S)
  PROVE  /\ DOMAIN (s \o t) = 1..(Len(s) + Len(t)) /\ DOMAIN s = 1..Len(s) /\ DOMAIN t = 1..Len(t)
         /\ Len(s) \in Nat /\ Len(t) \in Nat
         /\ \A i \in 1..(Len(s) + Len(t)) :
              (s \o t)[i] = IF i <= Len(s) THEN s[i] ELSE t[i - Len(s)]
<1> DEFINE c == s \o t
           m == Len(s)
           n == Len(t)
<1>1. c \in Seq(S) /\ Len(c) = m + n
  BY ConcatProperties
<1>2. m \in Nat /\ n \in Nat /\ DOMAIN c = 1..Len(c) /\ DOMAIN s = 1..m /\ DOMAIN t = 1..n
  BY <1>1, LenProperties
<1>3. \A i \in 1..(m + n) : c[i] = IF i <= m THEN s[i] ELSE t[i - m]
  BY ConcatProperties
<1> QED BY <1>1, <1>2, <1>3

LEMMA SetOfConcat ==
  ASSUME NEW S, NEW s \in Seq(S), NEW t \in Seq(S)
  PROVE  ToSet(s \o t) = ToSet(s) \union ToSet(t)
<1> DEFINE c == s \o t
           m == Len(s)
           n == Len(t)
<1>1. /\ DOMAIN c = 1..(m + n) /\ DOMAIN s = 1..m /\ DOMAIN t = 1..n /\ m \in Nat /\ n \in Nat
      /\ \A i \in 1..(m + n) : c[i] = IF i <= m THEN s[i] ELSE t[i - m]
  BY PlacesInConcat
<1> HIDE DEF c, m, n
<1>2. ASSUME NEW i \in 1..(m + n)
      PROVE  c[i] \in {s[j] : j \in 1..m} \union {t[j] : j \in 1..n}
  <2>1. CASE i <= m
    <3>1. i \in 1..m /\ c[i] = s[i]
      BY <1>1, <2>1
    <3> QED BY <3>1
  <2>2. CASE ~(i <= m)
    <3>1. i - m \in 1..n /\ c[i] = t[i - m]
      BY <1>1, <2>2
    <3> QED BY <3>1
  <2> QED BY <2>1, <2>2
<1>3. ASSUME NEW j \in 1..m PROVE s[j] \in {c[i] : i \in 1..(m + n)}
  <2>1. j \in 1..(m + n) /\ c[j] = s[j]
    BY <1>1
  <2> QED BY <2>1
<1>4. ASSUME NEW j \in 1..n PROVE t[j] \in {c[i] : i \in 1..(m + n)}
  <2>1. m + j \in 1..(m + n) /\ ~(m + j <= m) /\ (m + j) - m = j
    BY <1>1
  <2>2. c[m + j] = t[j]
    BY <1>1, <2>1
  <2> QED BY <2>1, <2>2
<1>5. /\ ToSet(c) = {c[i] : i \in 1..(m + n)}
      /\ ToSet(s) = {s[i] : i \in 1..m} /\ ToSet(t) = {t[i] : i \in 1..n}
  BY <1>1 DEF ToSet
<1>6. ToSet(c) = ToSet(s) \union ToSet(t)
  BY <1>2, <1>3, <1>4, <1>5
<1> QED BY <1>6 DEF c

LEMMA InjectiveConcat ==
  ASSUME NEW S, NEW s \in Seq(S), NEW t \in Seq(S),
         IsInjective(s), IsInjective(t), ToSet(s) \intersect ToSet(t) = {}
  PROVE  IsInjective(s \o t)
<1> DEFINE c == s \o t
           m == Len(s)
           n == Len(t)
<1>1. /\ DOMAIN c = 1..(m + n) /\ DOMAIN s = 1..m /\ DOMAIN t = 1..n /\ m \in Nat /\ n \in Nat
      /\ \A i \in 1..(m + n) : c[i] = IF i <= m THEN s[i] ELSE t[i - m]
  BY PlacesInConcat
<1> HIDE DEF c, m, n
<1>2. /\ \A i, j \in 1..m : s[i] = s[j] => i = j
      /\ \A i, j \in 1..n : t[i] = t[j] => i = j
      /\ \A i \in 1..m : \A j \in 1..n : s[i] # t[j]
  <2>1. /\ \A i, j \in 1..m : s[i] = s[j] => i = j
        /\ \A i, j \in 1..n : t[i] = t[j] => i = j
    BY <1>1 DEF IsInjective
  <2>2. {s[i] : i \in 1..m} \intersect {t[i] : i \in 1..n} = {}
    BY <1>1 DEF ToSet
  <2>3. ASSUME NEW i \in 1..m, NEW j \in 1..n PROVE s[i] # t[j]
    <3>1. s[i] \in {s[k] : k \in 1..m} /\ t[j] \in {t[k] : k \in 1..n}
      OBVIOUS
    <3> QED BY <2>2, <3>1
  <2> QED BY <2>1, <2>3
<1>3. ASSUME NEW i \in 1..(m + n), NEW j \in 1..(m + n), c[i] = c[j]
      PROVE  i = j
  <2>1. i \in 1..m \/ (~(i <= m) /\ i - m \in 1..n)
    BY <1>1
  <2>2. j \in 1..m \/ (~(j <= m) /\ j - m \in 1..n)
    BY <1>1
  <2>3. CASE i \in 1..m /\ j \in 1..m
    BY <1>1, <1>2, <1>3, <2>3
  <2>4. CASE i \in 1..m /\ ~(j <= m)
    BY <1>1, <1>2, <1>3, <2>2, <2>4
  <2>5. CASE ~(i <= m) /\ j \in 1..m
    BY <1>1, <1>2, <1>3, <2>1, <2>5
  <2>6. CASE ~(i <= m) /\ ~(j <= m)
    <3>1. i - m = j - m
      BY <1>1, <1>2, <1>3, <2>1, <2>2, <2>6
    <3> QED BY <1>1, <3>1
  <2> QED BY <1>1, <2>1, <2>2, <2>3, <2>4, <2>5, <2>6
<1>4. IsInjective(c)
  BY <1>1, <1>3 DEF IsInjective
<1> QED BY <1>4 DEF c

LEMMA SetOfPrefix ==
  ASSUME NEW S, NEW s \in Seq(S), NEW n \in 0..Len(s)
  PROVE  /\ SubSeq(s, 1, n) \in Seq(S)
         /\ ToSet(SubSeq(s, 1, n)) = {s[i] : i \in 1..n}
<1>1. Len(s) \in Nat /\ n \in Nat
  BY LenProperties
<1>2. \A i \in 1..n : s[i] \in S
  BY <1>1, ElementOfSeq
<1> DEFINE p == SubSeq(s, 1, n)
<1>3. p \in Seq(S) /\ Len(p) = n /\ \A i \in 1..n : p[i] = s[i]
  <2>1. p \in Seq(S) /\ Len(p) = IF 1 <= n THEN n - 1 + 1 ELSE 0
    BY <1>1, <1>2, SubSeqProperties
  <2>2. \A i \in 1..(n - 1 + 1) : p[i] = s[1 + i - 1]
    BY <1>1, <1>2, SubSeqProperties
  <2> QED BY <1>1, <2>1, <2>2
<1> HIDE DEF p
<1>4. DOMAIN p = 1..n
  BY <1>3, LenProperties
<1>5. ToSet(p) = {s[i] : i \in 1..n}
  BY <1>3, <1>4 DEF ToSet
<1> QED BY <1>3, <1>5 DEF p

-----------------------------------------------------------------------------
(* What one page adds.                                                     *)

LEMMA WithTokensFacts ==
  ASSUME candidates \in Seq(Tokens), IsInjective(candidates), NEW urls \in Seq(Tokens)
  PROVE  /\ WithTokensOf(urls) \in Seq(Tokens)
         /\ IsInjective(WithTokensOf(urls))
         /\ ToSet(WithTokensOf(urls)) = ToSet(candidates) \union ToSet(urls)
         /\ Len(candidates) <= Len(WithTokensOf(urls))
<1> DEFINE New == {i \in 1..Len(urls) : /\ ~Contains(candidates, urls[i])
                                        /\ \A j \in 1..(i - 1) : urls[j] # urls[i]}
           kept == Kept(urls, New)
<1>1. Len(urls) \in Nat /\ DOMAIN urls = 1..Len(urls)
  BY LenProperties
<1>2. \A i, j \in New : urls[i] = urls[j] => i = j
  <2>1. ASSUME NEW i \in New, NEW j \in New, i < j, urls[i] = urls[j] PROVE FALSE
    <3>1. i \in 1..(j - 1)
      BY <1>1, <2>1
    <3> QED BY <2>1, <3>1
  <2>2. ASSUME NEW i \in New, NEW j \in New, urls[i] = urls[j] PROVE i = j
    <3>1. i < j \/ j < i \/ i = j
      BY <1>1
    <3> QED BY <2>1, <2>2, <3>1
  <2> QED BY <2>2
<1>3. kept \in Seq(Tokens) /\ ToSet(kept) = {urls[i] : i \in New} /\ IsInjective(kept)
  <2>1. New \in SUBSET (1..Len(urls))
    OBVIOUS
  <2> HIDE DEF New
  <2> QED BY <1>2, <2>1, KeptFacts
<1>4. \A t : t \in ToSet(candidates) <=> Contains(candidates, t)
  <2>1. DOMAIN candidates = 1..Len(candidates)
    BY LenProperties
  <2> QED BY <2>1 DEF ToSet, Contains
<1>5. ToSet(candidates) \intersect ToSet(kept) = {}
  BY <1>3, <1>4
<1>6. ASSUME NEW t \in ToSet(urls), t \notin ToSet(candidates)
      PROVE  t \in ToSet(kept)
  <2> DEFINE At == {i \in 1..Len(urls) : urls[i] = t}
  <2>1. At \in SUBSET Nat /\ At # {}
    BY <1>1, <1>6 DEF ToSet
  <2>2. PICK i \in At : \A j \in At : i <= j
    BY <2>1, LeastElement
  <2>3. i \in New
    <3>1. ~Contains(candidates, urls[i])
      BY <1>4, <1>6, <2>2
    <3>2. ASSUME NEW j \in 1..(i - 1), urls[j] = urls[i] PROVE FALSE
      <4>1. j \in At /\ ~(i <= j)
        BY <1>1, <2>2, <3>2
      <4> QED BY <2>2, <4>1
    <3> QED BY <2>2, <3>1, <3>2
  <2> QED BY <1>3, <2>2, <2>3
<1>7. ToSet(kept) \subseteq ToSet(urls)
  BY <1>1, <1>3 DEF ToSet
<1>8. WithTokensOf(urls) = candidates \o kept
  BY DEF WithTokensOf
<1> HIDE DEF kept, New
<1>9. ToSet(candidates \o kept) = ToSet(candidates) \union ToSet(kept)
  BY <1>3, SetOfConcat
<1>10. IsInjective(candidates \o kept)
  BY <1>3, <1>5, InjectiveConcat
<1>11. candidates \o kept \in Seq(Tokens) /\ Len(candidates) <= Len(candidates \o kept)
  <2>1. Len(candidates) \in Nat /\ Len(kept) \in Nat
    BY <1>3, LenProperties
  <2>2. candidates \o kept \in Seq(Tokens) /\ Len(candidates \o kept) = Len(candidates) + Len(kept)
    BY <1>3, ConcatProperties
  <2> QED BY <2>1, <2>2
<1>12. ToSet(candidates) \union ToSet(kept) = ToSet(candidates) \union ToSet(urls)
  BY <1>6, <1>7
<1> QED BY <1>8, <1>9, <1>10, <1>11, <1>12

\* A page fills the list and no more, and is used to its end while the list is not full.
LEMMA TakenFacts ==
  ASSUME candidates \in Seq(Tokens), CandidatesBounded, NEW urls \in Seq(Tokens)
  PROVE  /\ Taken(urls) \in Seq(Tokens)
         /\ ToSet(Taken(urls)) \subseteq ToSet(urls)
         /\ Cardinality(ToSet(candidates) \union ToSet(Taken(urls))) <= MaxCandidates
         /\ ~Full(ToSet(candidates) \union ToSet(Taken(urls))) => Taken(urls) = urls
<1> DEFINE old == ToSet(candidates)
           With(i) == old \union ToSet(SubSeq(urls, 1, i))
           fullAt == {i \in 0..Len(urls) : Full(With(i))}
<1>1. Len(urls) \in Nat /\ DOMAIN urls = 1..Len(urls) /\ MaxCandidates \in Nat
  BY LimitsAssumption, LenProperties
<1>2. IsFiniteSet(old) /\ Cardinality(old) <= MaxCandidates /\ Cardinality(old) \in Nat
  BY LengthOfInjective, FS_CardinalityType DEF CandidatesBounded
<1>3. \A i \in 0..Len(urls) :
        SubSeq(urls, 1, i) \in Seq(Tokens) /\ ToSet(SubSeq(urls, 1, i)) = {urls[j] : j \in 1..i}
  BY SetOfPrefix
<1>4. \A i \in 0..Len(urls) : IsFiniteSet(With(i)) /\ Cardinality(With(i)) \in Nat
  <2>1. ASSUME NEW i \in 0..Len(urls) PROVE IsFiniteSet(With(i)) /\ Cardinality(With(i)) \in Nat
    <3>1. IsFiniteSet(1..i)
      BY <1>1, FS_Interval
    <3>2. IsFiniteSet({urls[j] : j \in 1..i})
      BY <3>1, FiniteImage
    <3>3. IsFiniteSet(With(i))
      BY <1>2, <1>3, <3>2, FS_Union
    <3> QED BY <3>3, FS_CardinalityType
  <2> QED BY <2>1
<1>5. Taken(urls) = IF fullAt = {} THEN urls ELSE SubSeq(urls, 1, Min(fullAt))
  BY DEF Taken
<1>6. CASE fullAt = {}
  <2>1. Len(urls) \in 0..Len(urls)
    BY <1>1
  <2>2. SubSeq(urls, 1, Len(urls)) = urls
    BY SubSeqFull
  <2>3. ~Full(old \union ToSet(urls)) /\ Cardinality(old \union ToSet(urls)) \in Nat
    BY <1>4, <1>6, <2>1, <2>2
  <2>4. Cardinality(old \union ToSet(urls)) <= MaxCandidates
    BY <1>1, <2>3 DEF Full
  <2> QED BY <1>5, <1>6, <2>4
<1>7. CASE fullAt # {}
  <2> DEFINE k == Min(fullAt)
  <2>1. k \in fullAt /\ \A i \in fullAt : k <= i
    <3>1. fullAt \in SUBSET Nat
      BY <1>1
    <3> HIDE DEF fullAt
    <3> QED BY <1>7, <3>1, MinIsLeast
  <2> HIDE DEF k
  <2>2. Taken(urls) = SubSeq(urls, 1, k)
    BY <1>5, <1>7 DEF k
  <2>3. k \in 0..Len(urls) /\ Full(With(k))
    BY <2>1
  <2>4. ToSet(SubSeq(urls, 1, k)) \subseteq ToSet(urls)
    BY <1>1, <1>3, <2>3 DEF ToSet
  <2>5. Cardinality(With(k)) <= MaxCandidates
    <3>1. CASE k = 0
      <4>1. With(k) = old
        BY <1>3, <2>3, <3>1
      <4> QED BY <1>2, <4>1
    <3>2. CASE k # 0
      <4>1. k - 1 \in 0..Len(urls) /\ ~(k <= k - 1)
        BY <1>1, <2>3, <3>2
      <4>2. ~Full(With(k - 1))
        BY <2>1, <4>1
      <4>3. 1..k = (1..(k - 1)) \union {k}
        BY <1>1, <2>3, <3>2
      <4>4. With(k) = With(k - 1) \union {urls[k]}
        BY <1>3, <2>3, <4>1, <4>3
      <4>5. IsFiniteSet(With(k - 1)) /\ Cardinality(With(k - 1)) \in Nat
        BY <1>4, <4>1
      <4> HIDE DEF With
      <4>6. Cardinality(With(k)) <= Cardinality(With(k - 1)) + 1
        <5> DEFINE u == urls[k]
                   W == With(k - 1)
        <5>1. Cardinality(W \union {u}) = IF u \in W THEN Cardinality(W) ELSE Cardinality(W) + 1
          BY <4>5, FS_AddElement
        <5> HIDE DEF u, W
        <5>2. Cardinality(W) \in Nat
          BY <4>5 DEF W
        <5>3. Cardinality(W \union {u}) <= Cardinality(W) + 1
          BY <5>1, <5>2
        <5> QED BY <4>4, <5>3 DEF u, W
      <4>7. Cardinality(With(k)) \in Nat
        BY <1>4, <2>3
      <4> QED BY <1>1, <4>2, <4>5, <4>6, <4>7 DEF Full
    <3> QED BY <3>1, <3>2
  <2> QED BY <1>3, <2>2, <2>3, <2>4, <2>5
<1> QED BY <1>6, <1>7

\* How a step of a crawl or of a visit leaves the candidates.
LEMMA TakeUrlsKeeps ==
  ASSUME TypeOK, CandidatesBounded, EvidenceComplete,
         NEW s \in Sources, NEW urls \in Pages, TakeUrls(s, urls)
  PROVE  /\ candidates' \in Seq(Tokens)
         /\ evidence' \in [Tokens -> SUBSET Sources]
         /\ offered' \in [Sources -> SUBSET Tokens]
         /\ CandidatesBounded'
         /\ EvidenceComplete'
<1> DEFINE used == Taken(urls)
<1>1. urls \in Seq(Tokens)
  <2>1. PICK n \in 0..PageLength : urls \in [1..n -> Tokens]
    BY DEF Pages, BoundedSeq, SeqOf
  <2>2. n \in Nat
    BY PageLengthAssumption
  <2> QED BY <2>1, <2>2
<1>2. candidates \in Seq(Tokens)
  BY DEF TypeOK
<1>3. /\ used \in Seq(Tokens) /\ ToSet(used) \subseteq ToSet(urls)
      /\ Cardinality(ToSet(candidates) \union ToSet(used)) <= MaxCandidates
      /\ ~Full(ToSet(candidates) \union ToSet(used)) => used = urls
  BY <1>1, <1>2, TakenFacts
<1>4. /\ candidates' = WithTokensOf(used)
      /\ evidence' = [t \in Tokens |->
                        IF Contains(used, t) THEN evidence[t] \union {s} ELSE evidence[t]]
      /\ offered' = [offered EXCEPT ![s] = @ \union ToSet(urls)]
  BY DEF TakeUrls
<1> HIDE DEF used
<1>5. /\ candidates' \in Seq(Tokens) /\ IsInjective(candidates')
      /\ ToSet(candidates') = ToSet(candidates) \union ToSet(used)
      /\ Len(candidates) <= Len(candidates')
  BY <1>2, <1>3, <1>4, WithTokensFacts DEF CandidatesBounded
<1>6. Cardinality(ToSet(candidates')) = Len(candidates') /\ Len(candidates') \in Nat /\ Len(candidates) \in Nat
  BY <1>2, <1>5, LengthOfInjective, LenProperties
<1>7. CandidatesBounded'
  BY <1>3, <1>5, <1>6 DEF CandidatesBounded
<1>8. \A t : /\ t \in ToSet(candidates) <=> Contains(candidates, t)
             /\ t \in ToSet(candidates') <=> Contains(candidates', t)
             /\ t \in ToSet(used) <=> Contains(used, t)
  <2>1. /\ DOMAIN candidates = 1..Len(candidates) /\ DOMAIN candidates' = 1..Len(candidates')
        /\ DOMAIN used = 1..Len(used)
    BY <1>2, <1>3, <1>5, LenProperties
  <2> QED BY <2>1 DEF ToSet, Contains
<1>9. ToSet(urls) \subseteq Tokens
  <2>1. DOMAIN urls = 1..Len(urls) /\ \A i \in 1..Len(urls) : urls[i] \in Tokens
    BY <1>1, LenProperties, ElementOfSeq
  <2> QED BY <2>1 DEF ToSet
<1>10. offered \in [Sources -> SUBSET Tokens] /\ evidence \in [Tokens -> SUBSET Sources]
  BY DEF TypeOK
<1>11. offered' \in [Sources -> SUBSET Tokens] /\ evidence' \in [Tokens -> SUBSET Sources]
  BY <1>4, <1>9, <1>10
<1>12. /\ \A t \in Tokens : evidence'[t] = IF t \in ToSet(used) THEN evidence[t] \union {s} ELSE evidence[t]
       /\ \A r \in Sources : offered'[r] = IF r = s THEN offered[s] \union ToSet(urls) ELSE offered[r]
  BY <1>4, <1>8, <1>10
<1>13. \A t \in Tokens : \A r \in evidence'[t] : t \in offered'[r]
  <2>1. ASSUME NEW t \in Tokens, NEW r \in evidence'[t] PROVE t \in offered'[r]
    <3>1. r \in Sources
      BY <1>11
    <3>2. r \in evidence[t] => t \in offered[r]
      BY DEF EvidenceComplete
    <3> QED BY <1>3, <1>12, <2>1, <3>1, <3>2
  <2> QED BY <2>1
<1>14. \A t \in Tokens : evidence'[t] # {} <=> t \in ToSet(candidates')
  <2>1. \A t \in Tokens : evidence[t] # {} <=> t \in ToSet(candidates)
    BY <1>8 DEF EvidenceComplete
  <2> QED BY <1>5, <1>12, <2>1
<1>15. ASSUME Len(candidates') < MaxCandidates
       PROVE  \A r \in Sources : \A t \in offered'[r] : r \in evidence'[t]
  <2>1. used = urls
    <3>1. ~Full(ToSet(candidates'))
      BY <1>6, <1>15, LimitsAssumption DEF Full
    <3> QED BY <1>3, <1>5, <3>1
  <2>2. \A r \in Sources : \A t \in offered[r] : r \in evidence[t]
    BY <1>5, <1>6, <1>15, LimitsAssumption DEF EvidenceComplete
  <2>3. ASSUME NEW r \in Sources, NEW t \in offered'[r] PROVE r \in evidence'[t]
    <3>1. t \in Tokens
      BY <1>11
    <3> QED BY <1>12, <2>1, <2>2, <2>3, <3>1
  <2> QED BY <2>3
<1>16. EvidenceComplete'
  BY <1>8, <1>13, <1>14, <1>15 DEF EvidenceComplete
<1> QED BY <1>5, <1>7, <1>11, <1>16

-----------------------------------------------------------------------------
(* The crawl: types and candidates.                                        *)

CrawlTypes ==
  /\ phase \in Phases
  /\ scan \in [Sources -> Scans]
  /\ page \in [Queries -> 0..MaxPages]
  /\ pageCount \in [Queries -> 0..MaxPages]
  /\ candidates \in Seq(Tokens)
  /\ evidence \in [Tokens -> SUBSET Sources]
  /\ offered \in [Sources -> SUBSET Tokens]

VerifyTypes ==
  /\ first \in Nat
  /\ verdict \in [Tokens -> Verdicts]
  /\ boards \in Seq(Tokens)
  /\ counts \in [{"verified", "invalid", "empty"} -> Nat]
  /\ report \in Seq(Tokens)
  /\ stored \in SUBSET Tokens

LEMMA TypesInTwoParts == TypeOK <=> CrawlTypes /\ VerifyTypes
  BY DEF TypeOK, CrawlTypes, VerifyTypes

LEMMA SameCandidates ==
  ASSUME CandidatesBounded /\ EvidenceComplete, UNCHANGED <<candidates, evidence, offered>>
  PROVE  (CandidatesBounded /\ EvidenceComplete)'
<1>1. CandidatesBounded'
  BY DEF CandidatesBounded
<1>2. EvidenceComplete'
  BY DEF EvidenceComplete
<1> QED BY <1>1, <1>2

LEMMA PlainCrawlStep ==
  ASSUME CrawlTypes, CrawlInvariant, UNCHANGED crawlVars, phase' \in Phases
  PROVE  CrawlTypes' /\ CrawlInvariant'
<1>1. CrawlTypes'
  BY DEF CrawlTypes, crawlVars
<1>2. PagesFit'
  BY DEF CrawlInvariant, PagesFit, crawlVars
<1>3. (CandidatesBounded /\ EvidenceComplete)'
  BY SameCandidates DEF CrawlInvariant, crawlVars
<1> QED BY <1>1, <1>2, <1>3 DEF CrawlInvariant

\* Nothing but the state of the tasks changes.
LEMMA ScanStep ==
  ASSUME CrawlTypes, CrawlInvariant, phase' \in Phases,
         scan' \in [Sources -> Scans],
         \A q \in Queries : scan'[q] \in {"waiting", "counting", "paging"} =>
           scan'[q] = scan[q] \/ (scan[q] = "waiting" /\ scan'[q] = "counting"),
         UNCHANGED <<page, pageCount, candidates, evidence, offered>>
  PROVE  CrawlTypes' /\ CrawlInvariant'
<1>1. CrawlTypes'
  BY DEF CrawlTypes
<1>2. PagesFit'
  BY DEF CrawlInvariant, PagesFit
<1>3. (CandidatesBounded /\ EvidenceComplete)'
  BY SameCandidates DEF CrawlInvariant
<1> QED BY <1>1, <1>2, <1>3 DEF CrawlInvariant

LEMMA OneScanStep ==
  ASSUME CrawlTypes, CrawlInvariant, phase' \in Phases,
         NEW s \in Sources, NEW how \in {"counting", "done", "failed", "broken"}, ScanEnds(s, how),
         how = "counting" => scan[s] = "waiting",
         UNCHANGED <<page, pageCount, candidates, evidence, offered>>
  PROVE  CrawlTypes' /\ CrawlInvariant'
<1>1. scan \in [Sources -> Scans] /\ scan' = [scan EXCEPT ![s] = how]
  BY DEF CrawlTypes, ScanEnds
<1>2. scan' \in [Sources -> Scans]
  BY <1>1 DEF Scans
<1>3. \A q \in Queries : scan'[q] = IF q = s THEN how ELSE scan[q]
  BY <1>1 DEF Sources
<1>4. \A q \in Queries : scan'[q] \in {"waiting", "counting", "paging"} =>
        scan'[q] = scan[q] \/ (scan[q] = "waiting" /\ scan'[q] = "counting")
  BY <1>3
<1> QED BY <1>2, <1>4, ScanStep

LEMMA StartVisitsCrawls ==
  ASSUME CrawlTypes, CrawlInvariant, NEW skipped \in SUBSET Companies, StartVisits(skipped)
  PROVE  CrawlTypes' /\ CrawlInvariant'
<1>1. scan \in [Sources -> Scans]
  BY DEF CrawlTypes
<1>2. scan' = [s \in Sources |-> IF s \in skipped THEN "done" ELSE scan[s]] /\ phase' \in Phases
  BY DEF StartVisits, Phases
<1>3. scan' \in [Sources -> Scans] /\ \A q \in Queries : scan'[q] = scan[q] \/ scan'[q] = "done"
  BY <1>1, <1>2 DEF Scans, Sources
<1> QED BY <1>2, <1>3, ScanStep DEF StartVisits

LEMMA CountPagesCrawls ==
  ASSUME CrawlTypes, CrawlInvariant, NEW q \in Queries, NEW n \in 1..MaxPages, CountPages(q, n)
  PROVE  CrawlTypes' /\ CrawlInvariant'
<1>1. /\ scan \in [Sources -> Scans] /\ pageCount \in [Queries -> 0..MaxPages]
      /\ page \in [Queries -> 0..MaxPages] /\ q \in Sources /\ scan[q] = "counting" /\ page[q] = 0
  BY DEF CrawlTypes, CountPages, Sources, CrawlInvariant, PagesFit
<1>2. /\ scan' = [scan EXCEPT ![q] = "paging"] /\ pageCount' = [pageCount EXCEPT ![q] = n]
      /\ UNCHANGED <<phase, page, candidates, evidence, offered>>
  BY DEF CountPages, ScanEnds
<1>3. MaxPages \in Nat
  BY LimitsAssumption
<1>4. scan' \in [Sources -> Scans] /\ pageCount' \in [Queries -> 0..MaxPages]
  BY <1>1, <1>2, <1>3 DEF Scans
<1>5. CrawlTypes'
  BY <1>2, <1>4 DEF CrawlTypes
<1>6. PagesFit'
  <2>1. ASSUME NEW r \in Queries
        PROVE  /\ scan'[r] = IF r = q THEN "paging" ELSE scan[r]
               /\ pageCount'[r] = IF r = q THEN n ELSE pageCount[r]
    BY <1>1, <1>2 DEF Sources
  <2>2. ASSUME NEW r \in Queries
        PROVE  /\ scan'[r] \in {"waiting", "counting"} => page'[r] = 0
               /\ scan'[r] = "paging" => page'[r] < pageCount'[r]
    <3>1. CASE r = q
      BY <1>1, <1>2, <2>1, <3>1
    <3>2. CASE r # q
      BY <1>2, <2>1, <3>2 DEF CrawlInvariant, PagesFit
    <3> QED BY <3>1, <3>2
  <2> QED BY <2>2 DEF PagesFit
<1>7. (CandidatesBounded /\ EvidenceComplete)'
  BY <1>2, SameCandidates DEF CrawlInvariant
<1> QED BY <1>5, <1>6, <1>7 DEF CrawlInvariant

LEMMA FetchPageCrawls ==
  ASSUME TypeOK, CrawlInvariant, NEW q \in Queries, NEW urls \in Pages, FetchPage(q, urls)
  PROVE  CrawlTypes' /\ CrawlInvariant'
<1>1. /\ scan \in [Sources -> Scans] /\ page \in [Queries -> 0..MaxPages]
      /\ pageCount \in [Queries -> 0..MaxPages] /\ q \in Sources
      /\ page[q] < pageCount[q]
  BY DEF TypeOK, FetchPage, Sources, CrawlInvariant, PagesFit
<1> DEFINE how == IF Full(ToSet(candidates')) \/ OnLastPage(q) THEN "done" ELSE "paging"
<1>2. /\ scan' = [scan EXCEPT ![q] = how] /\ page' = [page EXCEPT ![q] = @ + 1]
      /\ UNCHANGED <<phase, pageCount>>
  BY DEF FetchPage, ScanEnds
<1>3. how \in {"done", "paging"} /\ (how = "paging" => page[q] + 1 # pageCount[q])
  BY DEF OnLastPage
<1> HIDE DEF how
<1>4. MaxPages \in Nat
  BY LimitsAssumption
<1>5. scan' \in [Sources -> Scans] /\ page' \in [Queries -> 0..MaxPages]
  <2>1. page[q] + 1 \in 0..MaxPages
    BY <1>1, <1>4
  <2> QED BY <1>1, <1>2, <1>3, <2>1 DEF Scans
<1>6. /\ candidates' \in Seq(Tokens)
      /\ evidence' \in [Tokens -> SUBSET Sources]
      /\ offered' \in [Sources -> SUBSET Tokens]
      /\ CandidatesBounded'
      /\ EvidenceComplete'
  BY <1>1, TakeUrlsKeeps DEF FetchPage, CrawlInvariant
<1>7. CrawlTypes'
  BY <1>1, <1>2, <1>5, <1>6 DEF CrawlTypes, TypeOK
<1>8. PagesFit'
  <2>1. ASSUME NEW r \in Queries
        PROVE  /\ scan'[r] = IF r = q THEN how ELSE scan[r]
               /\ page'[r] = IF r = q THEN page[q] + 1 ELSE page[r]
    BY <1>1, <1>2 DEF Sources
  <2>2. ASSUME NEW r \in Queries
        PROVE  /\ scan'[r] \in {"waiting", "counting"} => page'[r] = 0
               /\ scan'[r] = "paging" => page'[r] < pageCount'[r]
    <3>1. CASE r = q
      <4>1. page[q] \in 0..MaxPages /\ pageCount[q] \in 0..MaxPages
        BY <1>1
      <4>2. page'[r] = page[q] + 1 /\ pageCount'[r] = pageCount[q] /\ scan'[r] = how
        BY <1>2, <2>1, <3>1
      <4>3. how = "paging" => page[q] + 1 < pageCount[q]
        BY <1>1, <1>3, <1>4, <4>1
      <4> QED BY <1>3, <4>2, <4>3
    <3>2. CASE r # q
      BY <1>2, <2>1, <3>2 DEF CrawlInvariant, PagesFit
    <3> QED BY <3>1, <3>2
  <2> QED BY <2>2 DEF PagesFit
<1> QED BY <1>6, <1>7, <1>8 DEF CrawlInvariant

LEMMA VisitSiteCrawls ==
  ASSUME TypeOK, CrawlInvariant, NEW c \in Companies, NEW urls \in Pages, VisitSite(c, urls)
  PROVE  CrawlTypes' /\ CrawlInvariant'
<1>1. scan \in [Sources -> Scans] /\ c \in Sources
  BY DEF TypeOK, Sources
<1> DEFINE full == Full(ToSet(candidates'))
<1>2. /\ scan' = [s \in Sources |->
                    IF s = c \/ (s \in Companies /\ full) THEN "done" ELSE scan[s]]
      /\ UNCHANGED <<phase, page, pageCount>>
  BY DEF VisitSite
<1> HIDE DEF full
<1>3. scan' \in [Sources -> Scans] /\ \A q \in Queries : scan'[q] = scan[q]
  BY <1>1, <1>2, SourcesAssumption DEF Scans, Sources
<1>4. /\ candidates' \in Seq(Tokens)
      /\ evidence' \in [Tokens -> SUBSET Sources]
      /\ offered' \in [Sources -> SUBSET Tokens]
      /\ CandidatesBounded'
      /\ EvidenceComplete'
  BY <1>1, TakeUrlsKeeps DEF VisitSite, CrawlInvariant
<1>5. CrawlTypes'
  BY <1>2, <1>3, <1>4 DEF CrawlTypes, TypeOK
<1>6. PagesFit'
  BY <1>2, <1>3 DEF CrawlInvariant, PagesFit
<1> QED BY <1>4, <1>5, <1>6 DEF CrawlInvariant

LEMMA CrawlStep ==
  ASSUME TypeOK, CrawlInvariant, [Next]_vars
  PROVE  CrawlTypes' /\ CrawlInvariant'
<1>0. CrawlTypes /\ phase \in Phases
  BY TypesInTwoParts DEF CrawlTypes
<1>1. CASE UNCHANGED vars
  BY <1>0, <1>1, PlainCrawlStep DEF vars
<1>2. CASE Start
  <2>1. ASSUME NEW skipped \in SUBSET Companies, StartVisits(skipped)
        PROVE  CrawlTypes' /\ CrawlInvariant'
    BY <1>0, <2>1, StartVisitsCrawls
  <2>2. CASE StartCrawl \/ SourceUnavailable \/ IndexesMalformed
    <3>1. UNCHANGED crawlVars /\ phase' \in Phases
      BY <2>2 DEF StartCrawl, SourceUnavailable, IndexesMalformed, Become, Phases
    <3> QED BY <1>0, <3>1, PlainCrawlStep
  <2> QED BY <1>2, <2>1, <2>2 DEF Start
<1>3. ASSUME NEW q \in Queries, Crawl(q)
      PROVE  CrawlTypes' /\ CrawlInvariant'
  <2>0. q \in Sources
    BY DEF Sources
  <2>1. CASE StartScan(q)
    BY <1>0, <2>0, <2>1, OneScanStep DEF StartScan
  <2>2. ASSUME NEW n \in 1..MaxPages, CountPages(q, n)
        PROVE  CrawlTypes' /\ CrawlInvariant'
    BY <1>0, <2>2, CountPagesCrawls
  <2>3. ASSUME NEW urls \in Pages, FetchPage(q, urls)
        PROVE  CrawlTypes' /\ CrawlInvariant'
    BY <2>3, FetchPageCrawls
  <2>4. CASE NoCaptures(q)
    BY <1>0, <2>0, <2>4, OneScanStep DEF NoCaptures
  <2>5. CASE ScanFails(q)
    BY <1>0, <2>0, <2>5, OneScanStep DEF ScanFails
  <2>6. CASE CountMalformed(q)
    <3>1. phase' \in Phases
      BY <2>6 DEF CountMalformed, Phases
    <3> QED BY <1>0, <2>0, <2>6, <3>1, OneScanStep DEF CountMalformed
  <2>7. CASE PageMalformed(q)
    <3>1. phase' \in Phases
      BY <2>7 DEF PageMalformed, Phases
    <3> QED BY <1>0, <2>0, <2>7, <3>1, OneScanStep DEF PageMalformed
  <2> QED BY <1>3, <2>1, <2>2, <2>3, <2>4, <2>5, <2>6, <2>7 DEF Crawl
<1>4. ASSUME NEW c \in Companies, Visit(c)
      PROVE  CrawlTypes' /\ CrawlInvariant'
  <2>1. ASSUME NEW urls \in Pages, VisitSite(c, urls)
        PROVE  CrawlTypes' /\ CrawlInvariant'
    BY <2>1, VisitSiteCrawls
  <2>2. CASE SiteFails(c)
    <3>1. c \in Sources
      BY DEF Sources
    <3> QED BY <1>0, <2>2, <3>1, OneScanStep DEF SiteFails
  <2>3. CASE SiteMalformed(c)
    <3>1. c \in Sources /\ phase' \in Phases
      BY <2>3 DEF SiteMalformed, Sources, Phases
    <3> QED BY <1>0, <2>3, <3>1, OneScanStep DEF SiteMalformed
  <2> QED BY <1>4, <2>1, <2>2, <2>3 DEF Visit
<1>5. ASSUME NEW t \in Tokens, Verify(t)
      PROVE  CrawlTypes' /\ CrawlInvariant'
  <2>1. UNCHANGED crawlVars /\ phase' \in Phases
    BY <1>0, <1>5 DEF Verify, AskBoard, AnswerMalformed, BoardAnswers, Judge, Become, Phases
  <2> QED BY <1>0, <2>1, PlainCrawlStep
<1>6. CASE Conclude
  <2>1. UNCHANGED crawlVars
    BY <1>6 DEF Conclude, CrawlEnds, VisitsEnd, StartBatch, EndBatch, VerificationEnds,
                Enrich, SortReport, Store, StoreFails, Become
  <2>2. phase' \in Phases
    BY <1>6 DEF Conclude, CrawlEnds, VisitsEnd, StartBatch, EndBatch, VerificationEnds,
                Enrich, SortReport, Store, StoreFails, Become, Phases
  <2> QED BY <1>0, <2>1, <2>2, PlainCrawlStep
<1> QED BY <1>1, <1>2, <1>3, <1>4, <1>5, <1>6 DEF Next

-----------------------------------------------------------------------------
(* The verification.                                                       *)

LEMMA Sizes ==
  ASSUME TypeOK
  PROVE  /\ Len(candidates) \in Nat /\ Len(boards) \in Nat /\ first \in Nat
         /\ DOMAIN candidates = 1..Len(candidates)
         /\ \A i \in 1..Len(candidates) : candidates[i] \in Tokens
         /\ BatchSize \in Nat /\ BatchSize # 0 /\ Limit \in Nat /\ Limit # 0
         /\ counts.verified \in Nat /\ counts.invalid \in Nat /\ counts.empty \in Nat
<1>1. candidates \in Seq(Tokens) /\ boards \in Seq(Tokens) /\ first \in Nat
  BY DEF TypeOK
<1>2. BatchSize \in Nat /\ BatchSize # 0 /\ Limit \in Nat /\ Limit # 0
  BY LimitsAssumption
<1>3. counts.verified \in Nat /\ counts.invalid \in Nat /\ counts.empty \in Nat
  <2>1. counts \in [{"verified", "invalid", "empty"} -> Nat]
    BY DEF TypeOK
  <2> QED BY <2>1
<1>4. Len(candidates) \in Nat /\ Len(boards) \in Nat /\ DOMAIN candidates = 1..Len(candidates)
  BY <1>1, LenProperties
<1>5. \A i \in 1..Len(candidates) : candidates[i] \in Tokens
  BY <1>1, ElementOfSeq
<1> QED BY <1>1, <1>2, <1>3, <1>4, <1>5

LEMMA ValidFacts ==
  ASSUME TypeOK, NEW a \in Nat, NEW b \in 0..Len(candidates), a > 0
  PROVE  /\ ValidOf(a, b) \in Seq(Tokens)
         /\ Len(ValidOf(a, b)) = Cardinality({i \in a..b : verdict[candidates[i]] = "valid"})
<1> DEFINE P == {i \in a..b : verdict[candidates[i]] = "valid"}
<1>1. P \in SUBSET (1..Len(candidates)) /\ candidates \in Seq(Tokens)
  BY Sizes DEF TypeOK
<1>2. ValidOf(a, b) = Kept(candidates, P)
  BY DEF ValidOf
<1> HIDE DEF P
<1>3. Kept(candidates, P) \in Seq(Tokens) /\ Len(Kept(candidates, P)) = Cardinality(P)
  BY <1>1, KeptFacts
<1> QED BY <1>2, <1>3 DEF P

LEMMA ValidInTwoParts ==
  ASSUME TypeOK, NEW m \in 0..Len(candidates), NEW n \in m..Len(candidates)
  PROVE  ValidOf(1, n) = ValidOf(1, m) \o ValidOf(m + 1, n)
<1> DEFINE P == {i \in 1..m : verdict[candidates[i]] = "valid"}
           Q == {i \in (m + 1)..n : verdict[candidates[i]] = "valid"}
           R == {i \in 1..n : verdict[candidates[i]] = "valid"}
<1>1. Len(candidates) \in Nat /\ candidates \in Seq(Tokens) /\ m \in Nat /\ n \in Nat /\ m <= n
  BY Sizes DEF TypeOK
<1>2. 1..n = (1..m) \union ((m + 1)..n)
  BY <1>1
<1>3. R = P \union Q
  BY <1>2
<1>4. P \in SUBSET (1..m) /\ Q \in SUBSET ((m + 1)..Len(candidates))
  BY <1>1
<1>5. ValidOf(1, n) = Kept(candidates, R) /\ ValidOf(1, m) = Kept(candidates, P)
      /\ ValidOf(m + 1, n) = Kept(candidates, Q)
  BY DEF ValidOf
<1> HIDE DEF P, Q, R
<1>6. Kept(candidates, P \union Q) = Kept(candidates, P) \o Kept(candidates, Q)
  BY <1>1, <1>4, KeptInTwoParts
<1> QED BY <1>3, <1>5, <1>6

LEMMA NothingValidIn ==
  ASSUME TypeOK
  PROVE  ValidOf(1, 0) = << >>
<1>1. 0 \in 0..Len(candidates) /\ 1 \in Nat /\ 1 > 0
  BY Sizes
<1>2. {i \in 1..0 : verdict[candidates[i]] = "valid"} = {}
  OBVIOUS
<1>3. ValidOf(1, 0) \in Seq(Tokens) /\ Len(ValidOf(1, 0)) = Cardinality({})
  BY <1>1, <1>2, ValidFacts
<1>4. Len(ValidOf(1, 0)) = 0
  BY <1>3, FS_EmptySet
<1> QED BY <1>3, <1>4, EmptySeq

\* The first of a list, up to the limit.
LEMMA FirstFacts ==
  ASSUME NEW s \in Seq(Tokens)
  PROVE  /\ FirstOf(s) \in Seq(Tokens)
         /\ Len(FirstOf(s)) = IF Len(s) <= Limit THEN Len(s) ELSE Limit
         /\ Len(s) <= Limit => FirstOf(s) = s
<1>1. Len(s) \in Nat /\ Limit \in Nat
  BY LimitsAssumption, LenProperties
<1>2. CASE Len(s) <= Limit
  <2>1. SubSeq(s, 1, Len(s)) = s
    BY SubSeqFull
  <2>2. FirstOf(s) = s
    BY <1>2, <2>1 DEF FirstOf
  <2> QED BY <1>2, <2>2
<1>3. CASE ~(Len(s) <= Limit)
  <2>1. \A i \in 1..Limit : s[i] \in Tokens
    <3>1. \A i \in 1..Limit : i \in 1..Len(s)
      BY <1>1, <1>3
    <3> QED BY <3>1, ElementOfSeq
  <2>2. /\ SubSeq(s, 1, Limit) \in Seq(Tokens)
        /\ Len(SubSeq(s, 1, Limit)) = IF 1 <= Limit THEN Limit - 1 + 1 ELSE 0
    BY <1>1, <2>1, SubSeqProperties
  <2>3. FirstOf(s) = SubSeq(s, 1, Limit)
    BY <1>3 DEF FirstOf
  <2> QED BY <1>1, <1>3, <2>2, <2>3
<1> QED BY <1>2, <1>3

\* What follows a list that is full already does not matter.
LEMMA FirstOfFull ==
  ASSUME NEW s \in Seq(Tokens), NEW t \in Seq(Tokens), Len(s) >= Limit
  PROVE  FirstOf(s \o t) = FirstOf(s)
<1>1. Len(s) \in Nat /\ Len(t) \in Nat /\ Limit \in Nat /\ 1 \in 1..Len(s) /\ Limit \in 1..Len(s)
  <2>1. Len(s) \in Nat /\ Len(t) \in Nat /\ Limit \in Nat /\ Limit # 0
    BY LimitsAssumption, LenProperties
  <2> QED BY <2>1
<1>2. Len(s \o t) = Len(s) + Len(t)
  BY ConcatProperties
<1>3. SubSeq(s \o t, 1, Limit) = SubSeq(s, 1, Limit)
  BY <1>1, SubSeqOfConcat1
<1>4. FirstOf(s \o t) = SubSeq(s \o t, 1, Limit)
  BY <1>1, <1>2 DEF FirstOf
<1>5. FirstOf(s) = SubSeq(s, 1, Limit)
  BY <1>1 DEF FirstOf
<1> QED BY <1>3, <1>4, <1>5

\* Before the verification nothing is asked, whatever the candidates are.
Unasked ==
  /\ first = 1 /\ boards = << >>
  /\ \A t \in Tokens : verdict[t] = "none"
  /\ counts.verified = 0 /\ counts.invalid = 0 /\ counts.empty = 0

LEMMA UnaskedBefore ==
  ASSUME TypeOK, VerifyInvariant, phase \in Asking
  PROVE  Unasked
<1>1. first = 1 /\ \A t \in Tokens : verdict[t] = "none"
  BY DEF VerifyInvariant, VerdictsFit
<1>2. Done = 0
  BY <1>1, Sizes DEF Done
<1>3. ValidOf(1, 0) = << >> /\ << >> \in Seq(Tokens) /\ Len(<< >>) = 0 /\ Limit \in Nat
  BY NothingValidIn, LimitsAssumption, EmptySeq
<1>4. boards = << >>
  <2>1. FirstOf(<< >>) = << >>
    BY <1>3, SubSeqEmpty DEF FirstOf
  <2> QED BY <1>2, <1>3, <2>1 DEF VerifyInvariant, BoardsFit
<1>5. counts.verified = 0 /\ counts.invalid = 0 /\ counts.empty = 0
  BY <1>2, <1>3, <1>4, Sizes DEF VerifyInvariant, CountsFit
<1> QED BY <1>1, <1>4, <1>5 DEF Unasked

LEMMA UnaskedFits ==
  ASSUME TypeOK, Unasked, phase \notin {"batch", "enriching", "sorting", "reporting", "stored"}
  PROVE  VerifyInvariant
<1>1. Done = 0
  BY Sizes DEF Done, Unasked
<1>2. VerdictsFit
  <2>1. \A i \in 1..Done : verdict[candidates[i]] \in Judged
    BY <1>1
  <2>2. \A i \in 1..Len(candidates) : verdict[candidates[i]] = "none"
    BY Sizes DEF Unasked
  <2> QED BY <2>1, <2>2 DEF VerdictsFit, Unasked
<1>3. ValidOf(1, 0) = << >> /\ << >> \in Seq(Tokens) /\ Len(<< >>) = 0 /\ Limit \in Nat
  BY NothingValidIn, LimitsAssumption, EmptySeq
<1>4. BoardsFit
  <2>1. FirstOf(<< >>) = << >>
    BY <1>3, SubSeqEmpty DEF FirstOf
  <2> QED BY <1>1, <1>3, <2>1 DEF BoardsFit, Unasked
<1>5. CountsFit
  BY <1>1, <1>3 DEF CountsFit, Unasked
<1> QED BY <1>2, <1>4, <1>5 DEF VerifyInvariant

Leaves(p, q) ==
  /\ q # "batch" /\ (q \in Asking => p \in Asking)
  /\ q = "aborted" \/ p \notin {"aborted", "batch"}

\* Only the phase changes.
LEMMA PlainVerifyStep ==
  ASSUME TypeOK, VerifyInvariant, UNCHANGED <<candidates, verifyVars>>,
         Leaves(phase, phase'),
         phase' \in {"enriching", "sorting", "reporting", "stored"} => first > Len(candidates) \/ Len(boards) >= Limit
  PROVE  VerifyInvariant'
<1>1. /\ Done' = Done /\ ValidOf(1, Done)' = ValidOf(1, Done)
      /\ UNCHANGED <<first, verdict, boards, counts, candidates>>
  BY DEF Done, ValidOf, verifyVars
<1>2. BoardsFit' /\ CountsFit'
  BY <1>1 DEF VerifyInvariant, BoardsFit, CountsFit, FirstOf
<1>3. VerdictsFit'
  BY <1>1 DEF VerifyInvariant, VerdictsFit, Leaves
<1> QED BY <1>2, <1>3 DEF VerifyInvariant

LEMMA BatchBounds ==
  ASSUME TypeOK, first > 0, first <= Len(candidates)
  PROVE  /\ Done = first - 1
         /\ LastOf(first) \in first..Len(candidates)
  BY Sizes DEF Done, LastOf

\* Verdicts change inside the batch only.
LEMMA BatchStep ==
  ASSUME TypeOK, CandidatesBounded, VerifyInvariant, phase \in {"verifying", "batch"}, phase' = "batch",
         first <= Len(candidates), Len(boards) < Limit,
         UNCHANGED <<candidates, first, boards, counts>>,
         \A i \in 1..Len(candidates) :
           i \notin first..LastOf(first) => verdict'[candidates[i]] = verdict[candidates[i]]
  PROVE  VerifyInvariant'
<1>0. first > 0
  BY DEF VerifyInvariant, VerdictsFit
<1>1. Done = first - 1 /\ LastOf(first) \in first..Len(candidates)
  BY <1>0, BatchBounds
<1>2. Done' = Done /\ LastOf(first)' = LastOf(first)
  BY DEF Done, LastOf
<1>3. \A i \in 1..Done : verdict'[candidates[i]] = verdict[candidates[i]]
  <2>1. ASSUME NEW i \in 1..Done PROVE verdict'[candidates[i]] = verdict[candidates[i]]
    <3>1. i \in 1..Len(candidates) /\ i \notin first..LastOf(first)
      BY <1>1, Sizes
    <3> QED BY <3>1
  <2> QED BY <2>1
<1>4. ValidOf(1, Done)' = ValidOf(1, Done)
  <2>1. {i \in 1..Done : verdict'[candidates[i]] = "valid"}
          = {i \in 1..Done : verdict[candidates[i]] = "valid"}
    BY <1>3
  <2> QED BY <1>2, <2>1 DEF ValidOf
<1>5. BoardsFit' /\ CountsFit'
  BY <1>2, <1>4 DEF VerifyInvariant, BoardsFit, CountsFit, FirstOf
<1>6. \A i \in 1..Done : verdict'[candidates[i]] \in Judged
  BY <1>3 DEF VerifyInvariant, VerdictsFit
<1>7. ASSUME NEW i \in 1..Len(candidates), i > Done, ~(i <= LastOf(first))
      PROVE  verdict'[candidates[i]] = "none"
  <2>1. i \notin first..LastOf(first)
    BY <1>1, <1>7, Sizes
  <2>2. verdict[candidates[i]] = "none"
    BY <1>7 DEF VerifyInvariant, VerdictsFit
  <2> QED BY <2>1, <2>2
<1>8. VerdictsFit'
  BY <1>0, <1>2, <1>6, <1>7 DEF VerdictsFit, Asking
<1> QED BY <1>5, <1>8 DEF VerifyInvariant

LEMMA StartBatchFits ==
  ASSUME TypeOK, CandidatesBounded, VerifyInvariant, StartBatch
  PROVE  VerifyInvariant'
<1>1. /\ phase = "verifying" /\ phase' = "batch" /\ first <= Len(candidates) /\ Len(boards) < Limit
      /\ UNCHANGED <<candidates, first, boards, counts>>
      /\ verdict' = [t \in Tokens |-> IF t \in Batch THEN "queued" ELSE verdict[t]]
  BY DEF StartBatch, crawlVars
<1>2. first > 0
  BY DEF VerifyInvariant, VerdictsFit
<1>3. first..LastOf(first) \subseteq 1..Len(candidates)
  BY <1>1, <1>2, BatchBounds, Sizes
<1>4. ASSUME NEW i \in 1..Len(candidates), i \notin first..LastOf(first)
      PROVE  verdict'[candidates[i]] = verdict[candidates[i]]
  <2>1. candidates[i] \notin Batch
    BY <1>3, <1>4, Sizes DEF Batch, CandidatesBounded, IsInjective
  <2>2. candidates[i] \in Tokens
    BY Sizes
  <2> QED BY <1>1, <2>1, <2>2
<1> QED BY <1>1, <1>4, BatchStep

LEMMA JudgeFits ==
  ASSUME TypeOK, CandidatesBounded, VerifyInvariant, phase = "batch",
         NEW t \in Tokens, NEW v, verdict[t] \in {"queued", "asked"}, Judge(t, v)
  PROVE  VerifyInvariant'
<1>1. /\ phase' = "batch" /\ first <= Len(candidates) /\ Len(boards) < Limit
      /\ UNCHANGED <<candidates, first, boards, counts>>
      /\ verdict' = [verdict EXCEPT ![t] = v] /\ verdict \in [Tokens -> Verdicts]
  BY DEF Judge, crawlVars, VerifyInvariant, VerdictsFit, TypeOK
<1>2. first > 0
  BY DEF VerifyInvariant, VerdictsFit
<1>3. Done = first - 1 /\ LastOf(first) \in first..Len(candidates)
  BY <1>1, <1>2, BatchBounds
<1>4. ASSUME NEW i \in 1..Len(candidates), i \notin first..LastOf(first)
      PROVE  verdict'[candidates[i]] = verdict[candidates[i]]
  <2>1. i \in 1..Done \/ (i > Done /\ ~(i <= LastOf(first)))
    BY <1>3, <1>4, Sizes
  <2>2. verdict[candidates[i]] \in Judged \union {"none"}
    BY <2>1 DEF VerifyInvariant, VerdictsFit
  <2>3. candidates[i] # t
    BY <2>2 DEF Judged
  <2>4. candidates[i] \in Tokens
    BY Sizes
  <2> QED BY <1>1, <2>3, <2>4
<1> QED BY <1>1, <1>4, BatchStep

-----------------------------------------------------------------------------
(* The end of a batch.                                                     *)

\* Positions of a slice with the same verdict.
Alike(v, a, b, w) == {i \in a..b : v[i] = w}

\* Judged positions are valid, empty or invalid, and each counts once.
LEMMA ThreeWays ==
  ASSUME NEW a \in Nat, NEW b \in Nat, a <= b, NEW v, \A i \in a..b : v[i] \in Judged
  PROVE  /\ Cardinality(Alike(v, a, b, "valid")) \in Nat
         /\ Cardinality(Alike(v, a, b, "empty")) \in Nat
         /\ Cardinality(Alike(v, a, b, "invalid")) \in Nat
         /\ Cardinality(Alike(v, a, b, "valid")) + Cardinality(Alike(v, a, b, "empty"))
              + Cardinality(Alike(v, a, b, "invalid")) = b - a + 1
<1> DEFINE V == {i \in a..b : v[i] = "valid"}
           E == {i \in a..b : v[i] = "empty"}
           I == {i \in a..b : v[i] = "invalid"}
<1>1. IsFiniteSet(a..b) /\ Cardinality(a..b) = b - a + 1
  BY FS_Interval
<1>2. IsFiniteSet(V) /\ IsFiniteSet(E) /\ IsFiniteSet(I)
  BY <1>1, FS_Subset
<1>3. Cardinality(V) \in Nat /\ Cardinality(E) \in Nat /\ Cardinality(I) \in Nat
  BY <1>2, FS_CardinalityType
<1>4. V \intersect E = {} /\ (V \union E) \intersect I = {} /\ (V \union E) \union I = a..b
  BY DEF Judged
<1> HIDE DEF V, E, I
<1>5. Cardinality({}) = 0
  BY FS_EmptySet
<1>6. IsFiniteSet(V \union E) /\ Cardinality(V \union E) = Cardinality(V) + Cardinality(E)
  <2>1. /\ IsFiniteSet(V \union E)
        /\ Cardinality(V \union E) = Cardinality(V) + Cardinality(E) - Cardinality(V \intersect E)
    BY <1>2, FS_Union
  <2> QED BY <1>3, <1>4, <1>5, <2>1
<1>7. Cardinality(a..b) = Cardinality(V) + Cardinality(E) + Cardinality(I)
  <2>1. Cardinality((V \union E) \union I)
          = Cardinality(V \union E) + Cardinality(I) - Cardinality((V \union E) \intersect I)
    BY <1>2, <1>6, FS_Union
  <2>2. Cardinality(a..b) = Cardinality(V \union E) + Cardinality(I) - 0
    BY <1>4, <1>5, <2>1
  <2> QED BY <1>3, <1>6, <2>2
<1>8. Cardinality(V) + Cardinality(E) + Cardinality(I) = b - a + 1
  BY <1>1, <1>7
<1>9. V = Alike(v, a, b, "valid") /\ E = Alike(v, a, b, "empty") /\ I = Alike(v, a, b, "invalid")
  BY DEF V, E, I, Alike
<1> QED BY <1>3, <1>8, <1>9

\* The batch's positions, and what is known of them when it ends.
LEMMA BatchEnd ==
  ASSUME TypeOK, CandidatesBounded, VerifyInvariant, EndBatch
  PROVE  /\ first > 0 /\ Done = first - 1 /\ LastOf(first) \in first..Len(candidates)
         /\ Done' = LastOf(first)
         /\ \A i \in first..LastOf(first) : verdict[candidates[i]] \in Judged
         /\ IsFiniteSet(Batch) /\ Cardinality(Batch) = LastOf(first) - Done
<1>1. first > 0 /\ first <= Len(candidates)
  BY DEF VerifyInvariant, VerdictsFit, EndBatch
<1>2. /\ Done = first - 1 /\ LastOf(first) \in first..Len(candidates)
      /\ LastOf(first) = IF first + BatchSize - 1 <= Len(candidates) THEN first + BatchSize - 1
                         ELSE Len(candidates)
  BY <1>1, BatchBounds DEF LastOf
<1>3. first' = first + BatchSize /\ candidates' = candidates
  BY DEF EndBatch, crawlVars
<1>4. Done' = LastOf(first)
  BY <1>2, <1>3, Sizes DEF Done
<1>5. \A i \in first..LastOf(first) : verdict[candidates[i]] \in Judged
  BY DEF EndBatch, Batch, Judged
<1>6. LastOf(first) \in Nat /\ first \in Nat
  BY <1>2, Sizes
<1>7. IsFiniteSet(first..LastOf(first)) /\ Cardinality(first..LastOf(first)) = LastOf(first) - Done
  <2>1. /\ IsFiniteSet(first..LastOf(first))
        /\ Cardinality(first..LastOf(first)) = IF first > LastOf(first) THEN 0
                                               ELSE LastOf(first) - first + 1
    <3> DEFINE l == LastOf(first)
    <3>1. first \in Int /\ l \in Int
      BY <1>6
    <3> HIDE DEF l
    <3>2. IsFiniteSet(first..l) /\ Cardinality(first..l) = IF first > l THEN 0 ELSE l - first + 1
      BY <3>1, FS_Interval
    <3> QED BY <3>2 DEF l
  <2> QED BY <1>2, <1>6, <2>1
<1>8. \A i, j \in first..LastOf(first) : candidates[i] = candidates[j] => i = j
  <2>1. first..LastOf(first) \subseteq 1..Len(candidates)
    BY <1>1, <1>2, Sizes
  <2> QED BY <2>1, Sizes DEF CandidatesBounded, IsInjective
<1>9. IsFiniteSet(Batch) /\ Cardinality(Batch) = Cardinality(first..LastOf(first))
  BY <1>7, <1>8, InjectiveImage DEF Batch
<1> QED BY <1>1, <1>2, <1>4, <1>5, <1>7, <1>9

LEMMA EndBatchBoards ==
  ASSUME TypeOK, CandidatesBounded, VerifyInvariant, EndBatch
  PROVE  /\ BoardsFit' /\ boards' \in Seq(Tokens)
         /\ LET found == Len(boards) + Len(ValidOf(first, LastOf(first)))
            IN  Len(boards') = IF found <= Limit THEN found ELSE Limit
<1> DEFINE old == ValidOf(1, Done)
           new == ValidOf(first, LastOf(first))
           all == boards \o new
<1>1. /\ first > 0 /\ Done = first - 1 /\ LastOf(first) \in first..Len(candidates)
      /\ Done' = LastOf(first)
  BY BatchEnd
<1>2. /\ first \in Nat /\ Done \in 0..Len(candidates) /\ LastOf(first) \in Done..Len(candidates)
      /\ LastOf(first) \in 0..Len(candidates) /\ Done + 1 = first
      /\ Limit \in Nat /\ 1 \in Nat /\ 1 > 0
  BY <1>1, Sizes
<1>3. old \in Seq(Tokens) /\ new \in Seq(Tokens)
  BY <1>1, <1>2, ValidFacts
<1>4. ValidOf(1, LastOf(first)) = old \o new
  BY <1>2, ValidInTwoParts
<1>5. boards = FirstOf(old) /\ Len(boards) < Limit
  BY DEF VerifyInvariant, BoardsFit, VerdictsFit, EndBatch
<1>6. boards' = IF Len(all) <= Limit THEN all ELSE SubSeq(all, 1, Limit)
  BY DEF EndBatch
<1>7. verdict' = verdict /\ candidates' = candidates
  BY DEF EndBatch, crawlVars
<1>8. ValidOf(1, Done)' = ValidOf(1, LastOf(first))
  BY <1>1, <1>7 DEF ValidOf
<1> HIDE DEF old, new
<1>9. boards = old
  <2>1. Len(old) \in Nat
    BY <1>3, LenProperties
  <2>2. Len(old) <= Limit
    BY <1>2, <1>3, <1>5, <2>1, FirstFacts
  <2> QED BY <1>3, <1>5, <2>2, FirstFacts
<1>10. all \in Seq(Tokens) /\ Len(all) = Len(boards) + Len(new)
  BY <1>3, <1>9, ConcatProperties
<1> HIDE DEF all
<1>11. boards' = FirstOf(all)
  <2>1. SubSeq(all, 1, Len(all)) = all
    BY <1>10, SubSeqFull
  <2> QED BY <1>6, <2>1 DEF FirstOf
<1>12. FirstOf(all) \in Seq(Tokens) /\ Len(FirstOf(all)) = IF Len(all) <= Limit THEN Len(all) ELSE Limit
  BY <1>10, FirstFacts
<1>13. all = ValidOf(1, Done)'
  BY <1>4, <1>8, <1>9 DEF all
<1>14. BoardsFit'
  BY <1>11, <1>13 DEF BoardsFit, FirstOf
<1> QED BY <1>10, <1>11, <1>12, <1>14 DEF new

LEMMA EndBatchCounts ==
  ASSUME TypeOK, CandidatesBounded, VerifyInvariant, EndBatch
  PROVE  /\ CountsFit'
         /\ counts' \in [{"verified", "invalid", "empty"} -> Nat]
<1> DEFINE last == LastOf(first)
           v == [i \in first..last |-> verdict[candidates[i]]]
           Few(n, w) == Cardinality(Alike(v, first, n, w))
<1>1. /\ first > 0 /\ Done = first - 1 /\ last \in first..Len(candidates) /\ Done' = last
      /\ \A i \in first..last : v[i] \in Judged
      /\ Cardinality(Batch) = last - Done
  BY BatchEnd
<1>2. /\ first \in Nat /\ last \in Nat /\ Limit \in Nat /\ Len(boards) \in Nat /\ Len(candidates) \in Nat
      /\ counts.verified \in Nat /\ counts.invalid \in Nat /\ counts.empty \in Nat
  BY <1>1, Sizes
<1>3. /\ counts.verified = Done
      /\ Len(boards) < Limit
      /\ Len(boards) + counts.invalid + counts.empty = Done
  BY DEF VerifyInvariant, CountsFit, VerdictsFit, EndBatch
<1>4. ASSUME NEW n \in first..last
      PROVE  /\ Few(n, "valid") \in Nat /\ Few(n, "empty") \in Nat /\ Few(n, "invalid") \in Nat
             /\ Few(n, "valid") + Few(n, "empty") + Few(n, "invalid") = n - Done
             /\ Len(ValidOf(first, n)) = Few(n, "valid")
  <2>1. n \in Nat /\ first <= n /\ n \in 0..Len(candidates) /\ first..n \subseteq first..last
    BY <1>1, <1>2
  <2>2. \A i \in first..n : v[i] \in Judged
    BY <1>1, <2>1
  <2> HIDE DEF v
  <2>3. /\ Few(n, "valid") \in Nat /\ Few(n, "empty") \in Nat /\ Few(n, "invalid") \in Nat
        /\ Few(n, "valid") + Few(n, "empty") + Few(n, "invalid") = n - first + 1
    BY <1>2, <2>1, <2>2, ThreeWays
  <2>4. {i \in first..n : verdict[candidates[i]] = "valid"} = Alike(v, first, n, "valid")
    BY <2>1 DEF v, Alike
  <2>5. Len(ValidOf(first, n)) = Few(n, "valid")
    BY <1>1, <1>2, <2>1, <2>4, ValidFacts
  <2>6. n - first + 1 = n - Done
    BY <1>1, <1>2, <2>1
  <2> QED BY <2>3, <2>5, <2>6
<1> DEFINE before == {i \in first..last : Len(boards) + Len(ValidOf(first, i)) >= Limit}
           n == IF before = {} THEN last ELSE Min(before)
<1>5. n \in first..last /\ (before # {} => n \in before)
  <2>1. CASE before = {}
    BY <1>1, <1>2, <2>1
  <2>2. CASE before # {}
    <3>1. before \in SUBSET Nat
      BY <1>2
    <3>2. n = Min(before)
      BY <2>2
    <3> HIDE DEF before, n
    <3>3. n \in before
      BY <2>2, <3>1, <3>2, MinIsLeast
    <3> QED BY <3>3 DEF before
  <2> QED BY <2>1, <2>2
<1>6. Counted = first..n
  BY DEF Counted
<1>7. /\ counts' = [verified |-> counts.verified + Cardinality(Batch),
                    invalid |-> counts.invalid
                                  + Cardinality({i \in Counted : verdict[candidates[i]] = "invalid"}),
                    empty |-> counts.empty
                                  + Cardinality({i \in Counted : verdict[candidates[i]] = "empty"})]
  BY DEF EndBatch
<1>8. /\ {i \in Counted : verdict[candidates[i]] = "invalid"} = Alike(v, first, n, "invalid")
      /\ {i \in Counted : verdict[candidates[i]] = "empty"} = Alike(v, first, n, "empty")
  <2> HIDE DEF n, before
  <2>1. first..n \subseteq first..last
    BY <1>1, <1>2, <1>5
  <2> QED BY <1>6, <2>1 DEF Alike
<1>9. LET found == Len(boards) + Len(ValidOf(first, last))
      IN  Len(boards') = IF found <= Limit THEN found ELSE Limit
  BY EndBatchBoards
<1>10. before = {} \/ Len(boards) + Few(n, "valid") >= Limit
  BY <1>4, <1>5
<1>11. before = {} => n = last
  OBVIOUS
<1>12. before # {} => ~(Len(boards) + Few(last, "valid") < Limit)
  <2>1. ASSUME NEW i \in first..last, Len(boards) + Len(ValidOf(first, i)) >= Limit
        PROVE  Len(boards) + Few(last, "valid") >= Limit
    <3>1. last \in first..last
      BY <1>1, <1>2
    <3>2. Alike(v, first, i, "valid") \subseteq Alike(v, first, last, "valid")
      BY <1>1, <1>2 DEF Alike
    <3>3. IsFiniteSet(Alike(v, first, last, "valid"))
      <4>1. IsFiniteSet(first..last)
        BY <1>2, FS_Interval
      <4> QED BY <4>1, FS_Subset DEF Alike
    <3>4. Few(i, "valid") <= Few(last, "valid")
      BY <3>2, <3>3, FS_Subset
    <3>5. Few(i, "valid") \in Nat /\ Few(last, "valid") \in Nat /\ Len(ValidOf(first, i)) = Few(i, "valid")
      BY <1>4, <3>1
    <3> HIDE DEF Few
    <3> QED BY <1>2, <2>1, <3>4, <3>5
  <2>2. last \in first..last
    BY <1>1, <1>2
  <2>3. Few(last, "valid") \in Nat
    BY <1>4, <2>2
  <2> HIDE DEF Few
  <2> QED BY <1>2, <2>1, <2>3
<1>13. before = {} => Len(boards) + Few(last, "valid") < Limit
  <2>1. last \in first..last
    BY <1>1, <1>2
  <2>2. Len(ValidOf(first, last)) = Few(last, "valid") /\ Few(last, "valid") \in Nat
    BY <1>4, <2>1
  <2> HIDE DEF Few
  <2> QED BY <1>2, <2>1, <2>2
<1>14. /\ counts'.verified = last
       /\ counts'.invalid = counts.invalid + Few(n, "invalid")
       /\ counts'.empty = counts.empty + Few(n, "empty")
       /\ DOMAIN counts' = {"verified", "invalid", "empty"}
  <2>1. counts.verified + Cardinality(Batch) = last
    BY <1>1, <1>2, <1>3
  <2> HIDE DEF n, v
  <2> QED BY <1>7, <1>8, <2>1
<1> HIDE DEF before, n, v
<1>15. /\ Few(n, "valid") \in Nat /\ Few(n, "empty") \in Nat /\ Few(n, "invalid") \in Nat
       /\ Few(n, "valid") + Few(n, "empty") + Few(n, "invalid") = n - Done
  BY <1>4, <1>5
<1>16. /\ Few(last, "valid") \in Nat
       /\ Len(ValidOf(first, last)) = Few(last, "valid")
  <2>1. last \in first..last
    BY <1>1, <1>2
  <2> QED BY <1>4, <2>1
<1> DEFINE V == Few(n, "valid")
           E == Few(n, "empty")
           I == Few(n, "invalid")
           L == Few(last, "valid")
<1> HIDE DEF last
<1>17. n \in Nat /\ n <= last /\ Done \in Nat
  BY <1>1, <1>2, <1>5
<1>18. Len(boards') \in Nat /\ Len(boards') = IF Len(boards) + L <= Limit THEN Len(boards) + L ELSE Limit
  <2> HIDE DEF Few
  <2> QED BY <1>2, <1>9, <1>16
<1>19. V \in Nat /\ E \in Nat /\ I \in Nat /\ L \in Nat /\ V + E + I = n - Done
  BY <1>15, <1>16
<1>20. \/ n = last /\ V = L /\ Len(boards) + L < Limit
       \/ Len(boards) + V >= Limit /\ ~(Len(boards) + L < Limit)
  BY <1>10, <1>11, <1>12, <1>13
<1> HIDE DEF V, E, I, L, Few
<1> DEFINE b == Len(boards)
           c == Len(boards')
           i == counts.invalid
           e == counts.empty
           d == Done
<1>21. /\ c + (i + I) + (e + E) <= last
       /\ c < Limit => c + (i + I) + (e + E) = last
  <2>1. /\ b \in Nat /\ c \in Nat /\ i \in Nat /\ e \in Nat /\ d \in Nat /\ last \in Nat /\ Limit \in Nat
        /\ b + i + e = d /\ b < Limit /\ c = IF b + L <= Limit THEN b + L ELSE Limit
        /\ V + E + I = n - d
    BY <1>2, <1>3, <1>17, <1>18, <1>19
  <2>2. CASE n = last /\ V = L /\ b + L < Limit
    <3> HIDE DEF b, c, i, e, d
    <3> QED BY <1>17, <1>19, <2>1, <2>2
  <2>3. CASE b + V >= Limit /\ ~(b + L < Limit)
    <3> HIDE DEF b, c, i, e, d
    <3> QED BY <1>17, <1>19, <2>1, <2>3
  <2> QED BY <1>20, <2>2, <2>3
<1>22. counts'.verified = last /\ counts'.invalid = counts.invalid + I /\ counts'.empty = counts.empty + E
  BY <1>14 DEF I, E
<1>23. CountsFit'
  BY <1>1, <1>21, <1>22 DEF CountsFit
<1>24. counts' \in [{"verified", "invalid", "empty"} -> Nat]
  <2>1. counts'.verified \in Nat /\ counts'.invalid \in Nat /\ counts'.empty \in Nat
    BY <1>2, <1>19, <1>22
  <2>2. counts' = [f \in {"verified", "invalid", "empty"} |-> counts'[f]]
    BY <1>7
  <2> QED BY <2>1, <2>2
<1> QED BY <1>23, <1>24

-----------------------------------------------------------------------------
(* Every step.                                                             *)

\* Steps before the verification: the verifier's state waits.
LEMMA BeforeStep ==
  ASSUME TypeOK, TypeOK', VerifyInvariant, phase \in Asking, UNCHANGED verifyVars,
         phase' \notin {"batch", "enriching", "sorting", "reporting", "stored"}
  PROVE  VerifyInvariant'
<1>1. Unasked
  BY UnaskedBefore
<1>2. Unasked'
  BY <1>1 DEF Unasked, verifyVars
<1>3. (TypeOK /\ Unasked /\ phase \notin {"batch", "enriching", "sorting", "reporting", "stored"}
         => VerifyInvariant)'
  BY UnaskedFits, PTL
<1> QED BY <1>2, <1>3

\* Sorting keeps every board, once.
LEMMA SortedBoards ==
  ASSUME boards \in Seq(Tokens), SortReport
  PROVE  report' \in Seq(Tokens) /\ Len(report') = Len(boards) /\ ToSet(report') = ToSet(boards)
<1>1. PICK p \in Bijection(Places, Places) : report' = [i \in Places |-> boards[p[i]]]
  BY DEF SortReport
<1>2. /\ Len(boards) \in Nat /\ DOMAIN boards = 1..Len(boards)
      /\ \A i \in 1..Len(boards) : boards[i] \in Tokens
  BY LenProperties, ElementOfSeq
<1>3. p \in [Places -> Places] /\ \A j \in Places : \E i \in Places : p[i] = j
  BY <1>1 DEF Bijection, Injection, Surjection
<1>4. \A i \in 1..Len(boards) : boards[p[i]] \in Tokens
  BY <1>2, <1>3 DEF Places
<1> DEFINE r == [i \in 1..Len(boards) |-> boards[p[i]]]
<1>5. r \in Seq(Tokens)
  BY <1>2, <1>4, IsASeq
<1>6. Len(r) = Len(boards) /\ DOMAIN r = 1..Len(boards)
  <2>1. DOMAIN r = 1..Len(r) /\ DOMAIN r = 1..Len(boards) /\ Len(r) \in Nat
    BY <1>5, LenProperties
  <2> QED BY <1>2, <2>1
<1>7. ToSet(r) = ToSet(boards)
  BY <1>2, <1>3, <1>6 DEF ToSet, Places
<1>8. report' = r
  BY <1>1 DEF Places
<1> HIDE DEF r
<1> QED BY <1>5, <1>6, <1>7, <1>8

LEMMA VerifyTypesStep ==
  ASSUME TypeOK, CandidatesBounded, VerifyInvariant, [Next]_vars
  PROVE  VerifyTypes'
<1>0. VerifyTypes /\ boards \in Seq(Tokens)
  BY DEF TypeOK, VerifyTypes
<1>1. CASE UNCHANGED <<verifyVars, outVars>>
  BY <1>0, <1>1 DEF VerifyTypes, verifyVars, outVars
<1>2. CASE Start
  <2>1. UNCHANGED <<verifyVars, outVars>>
    BY <1>2 DEF Start, StartCrawl, StartVisits, SourceUnavailable, IndexesMalformed, Become
  <2> QED BY <1>1, <2>1
<1>3. ASSUME NEW q \in Queries, Crawl(q) PROVE VerifyTypes'
  <2>1. UNCHANGED <<verifyVars, outVars>>
    BY <1>3 DEF Crawl, StartScan, CountPages, FetchPage, NoCaptures, ScanFails, CountMalformed, PageMalformed
  <2> QED BY <1>1, <2>1
<1>4. ASSUME NEW c \in Companies, Visit(c) PROVE VerifyTypes'
  <2>1. UNCHANGED <<verifyVars, outVars>>
    BY <1>4 DEF Visit, VisitSite, SiteFails, SiteMalformed
  <2> QED BY <1>1, <2>1
<1>5. ASSUME NEW t \in Tokens, Verify(t) PROVE VerifyTypes'
  <2>1. CASE AnswerMalformed(t)
    BY <1>1, <2>1 DEF AnswerMalformed, Become
  <2>2. ASSUME NEW v \in Verdicts, Judge(t, v) PROVE VerifyTypes'
    <3>1. verdict' = [verdict EXCEPT ![t] = v] /\ UNCHANGED <<first, boards, counts, outVars>>
      BY <2>2 DEF Judge
    <3> QED BY <1>0, <3>1 DEF VerifyTypes, outVars
  <2>3. CASE AskBoard(t)
    BY <2>2, <2>3 DEF AskBoard, Verdicts
  <2>4. ASSUME NEW v \in {"valid", "empty", "invalid"}, BoardAnswers(t, v) PROVE VerifyTypes'
    BY <2>2, <2>4 DEF BoardAnswers, Verdicts
  <2> QED BY <1>5, <2>1, <2>3, <2>4 DEF Verify
<1>6. CASE StartBatch
  <2>1. /\ verdict' = [t \in Tokens |-> IF t \in Batch THEN "queued" ELSE verdict[t]]
        /\ UNCHANGED <<first, boards, counts, outVars>>
    BY <1>6 DEF StartBatch
  <2> QED BY <1>0, <2>1 DEF VerifyTypes, Verdicts, outVars
<1>7. CASE EndBatch
  <2>1. boards' \in Seq(Tokens) /\ counts' \in [{"verified", "invalid", "empty"} -> Nat]
    BY <1>7, EndBatchBoards, EndBatchCounts
  <2>2. first' = first + BatchSize /\ UNCHANGED <<verdict, outVars>>
    BY <1>7 DEF EndBatch
  <2>3. first' \in Nat
    BY <2>2, Sizes
  <2> QED BY <1>0, <2>1, <2>2, <2>3 DEF VerifyTypes, outVars
<1>8. CASE Store
  <2>1. ToSet(report) \subseteq Tokens
    <3>1. DOMAIN report = 1..Len(report) /\ \A i \in 1..Len(report) : report[i] \in Tokens
      BY <1>0, LenProperties, ElementOfSeq DEF VerifyTypes
    <3> QED BY <3>1 DEF ToSet
  <2>2. stored' = ToSet(report) /\ UNCHANGED <<verifyVars, report>>
    BY <1>8 DEF Store
  <2> QED BY <1>0, <2>1, <2>2 DEF VerifyTypes, verifyVars
<1>9. CASE CrawlEnds \/ VisitsEnd \/ VerificationEnds \/ Enrich \/ StoreFails
  <2>1. UNCHANGED <<verifyVars, outVars>>
    BY <1>9 DEF CrawlEnds, VisitsEnd, VerificationEnds, Enrich, StoreFails, Become
  <2> QED BY <1>1, <2>1
<1>10. CASE SortReport
  <2>1. report' \in Seq(Tokens)
    BY <1>0, <1>10, SortedBoards DEF VerifyTypes
  <2>2. UNCHANGED <<verifyVars, stored>>
    BY <1>10 DEF SortReport
  <2> QED BY <1>0, <2>1, <2>2 DEF VerifyTypes, verifyVars
<1>11. CASE UNCHANGED vars
  BY <1>1, <1>11 DEF vars
<1> QED BY <1>2, <1>3, <1>4, <1>5, <1>6, <1>7, <1>8, <1>9, <1>10, <1>11 DEF Next, Conclude

LEMMA VerifyStep ==
  ASSUME TypeOK, TypeOK', CandidatesBounded, VerifyInvariant, [Next]_vars
  PROVE  VerifyInvariant'
<1>1. CASE Start
  <2>1. phase \in Asking /\ UNCHANGED verifyVars
        /\ phase' \notin {"batch", "enriching", "sorting", "reporting", "stored"}
    BY <1>1 DEF Start, StartCrawl, StartVisits, SourceUnavailable, IndexesMalformed, Become, Asking
  <2> QED BY <2>1, BeforeStep
<1>2. ASSUME NEW q \in Queries, Crawl(q) PROVE VerifyInvariant'
  <2>1. phase \in Asking /\ UNCHANGED verifyVars
        /\ phase' \notin {"batch", "enriching", "sorting", "reporting", "stored"}
    BY <1>2 DEF Crawl, StartScan, CountPages, FetchPage, NoCaptures, ScanFails, CountMalformed, PageMalformed, Asking
  <2> QED BY <2>1, BeforeStep
<1>3. ASSUME NEW c \in Companies, Visit(c) PROVE VerifyInvariant'
  <2>1. phase \in Asking /\ UNCHANGED verifyVars
        /\ phase' \notin {"batch", "enriching", "sorting", "reporting", "stored"}
    BY <1>3 DEF Visit, VisitSite, SiteFails, SiteMalformed, Asking
  <2> QED BY <2>1, BeforeStep
<1>4. CASE CrawlEnds \/ VisitsEnd
  <2>1. phase \in Asking /\ UNCHANGED verifyVars
        /\ phase' \notin {"batch", "enriching", "sorting", "reporting", "stored"}
    BY <1>4 DEF CrawlEnds, VisitsEnd, Become, Asking
  <2> QED BY <2>1, BeforeStep
<1>5. ASSUME NEW t \in Tokens, Verify(t) PROVE VerifyInvariant'
  <2>1. CASE AnswerMalformed(t)
    <3>1. phase' = "aborted" /\ UNCHANGED <<candidates, verifyVars>>
      BY <2>1 DEF AnswerMalformed, Become, crawlVars
    <3>2. Leaves(phase, phase')
      BY <3>1 DEF Leaves, Asking
    <3> QED BY <3>1, <3>2, PlainVerifyStep
  <2>2. CASE AskBoard(t)
    BY <2>2, JudgeFits DEF AskBoard
  <2>3. ASSUME NEW v \in {"valid", "empty", "invalid"}, BoardAnswers(t, v) PROVE VerifyInvariant'
    BY <2>3, JudgeFits DEF BoardAnswers
  <2> QED BY <1>5, <2>1, <2>2, <2>3 DEF Verify
<1>6. CASE StartBatch
  BY <1>6, StartBatchFits
<1>7. CASE EndBatch
  <2>1. BoardsFit' /\ CountsFit'
    BY <1>7, EndBatchBoards, EndBatchCounts
  <2>2. /\ first > 0 /\ Done = first - 1 /\ LastOf(first) \in first..Len(candidates)
        /\ Done' = LastOf(first)
        /\ \A i \in first..LastOf(first) : verdict[candidates[i]] \in Judged
    BY <1>7, BatchEnd
  <2>3. /\ phase = "batch" /\ phase' = "verifying" /\ first' = first + BatchSize
        /\ UNCHANGED <<candidates, verdict>>
    BY <1>7 DEF EndBatch, crawlVars
  <2>4. \A i \in 1..LastOf(first) : verdict[candidates[i]] \in Judged
    <3>1. ASSUME NEW i \in 1..LastOf(first) PROVE verdict[candidates[i]] \in Judged
      <4>1. i \in 1..Done \/ i \in first..LastOf(first)
        BY <2>2, Sizes
      <4> QED BY <2>2, <4>1 DEF VerifyInvariant, VerdictsFit
    <3> QED BY <3>1
  <2>5. \A i \in 1..Len(candidates) : i > LastOf(first) => verdict[candidates[i]] = "none"
    <3>1. ASSUME NEW i \in 1..Len(candidates), i > LastOf(first) PROVE verdict[candidates[i]] = "none"
      <4>1. i > Done /\ ~(i <= LastOf(first))
        BY <2>2, <3>1, Sizes
      <4> QED BY <2>3, <4>1 DEF VerifyInvariant, VerdictsFit
    <3> QED BY <3>1
  <2>6. first' > 0
    BY <2>2, <2>3, Sizes
  <2>7. VerdictsFit'
    BY <2>2, <2>3, <2>4, <2>5, <2>6 DEF VerdictsFit, Asking
  <2> QED BY <2>1, <2>7 DEF VerifyInvariant
<1>8. CASE VerificationEnds \/ Enrich \/ SortReport \/ Store \/ StoreFails
  <2>1. UNCHANGED <<candidates, verifyVars>>
    BY <1>8 DEF VerificationEnds, Enrich, SortReport, Store, StoreFails, Become, crawlVars
  <2>2. Leaves(phase, phase')
    BY <1>8 DEF VerificationEnds, Enrich, SortReport, Store, StoreFails, Become, Leaves, Asking
  <2>3. phase' \in {"enriching", "sorting", "reporting", "stored"} => first > Len(candidates) \/ Len(boards) >= Limit
    BY <1>8 DEF VerificationEnds, Enrich, SortReport, Store, StoreFails, Become, VerifyInvariant, VerdictsFit
  <2> QED BY <2>1, <2>2, <2>3, PlainVerifyStep
<1>9. CASE UNCHANGED vars
  <2>1. UNCHANGED <<phase, candidates, first, verdict, boards, counts>>
    BY <1>9 DEF vars, crawlVars, verifyVars
  <2>2. Done' = Done /\ ValidOf(1, Done)' = ValidOf(1, Done) /\ LastOf(first)' = LastOf(first)
    BY <2>1 DEF Done, ValidOf, LastOf
  <2> QED BY <2>1, <2>2 DEF VerifyInvariant, VerdictsFit, BoardsFit, CountsFit, FirstOf
<1> QED BY <1>1, <1>2, <1>3, <1>4, <1>5, <1>6, <1>7, <1>8, <1>9 DEF Next, Conclude

LEMMA ReportStep ==
  ASSUME TypeOK, ReportFits, [Next]_vars
  PROVE  ReportFits'
<1>1. boards \in Seq(Tokens)
  BY DEF TypeOK
<1>2. CASE SortReport
  <2>1. phase' = "reporting" /\ boards' = boards
    BY <1>2 DEF SortReport, verifyVars
  <2> QED BY <1>1, <1>2, <2>1, SortedBoards DEF ReportFits
<1>3. CASE Store
  BY <1>3 DEF Store, ReportFits, verifyVars
<1>4. CASE UNCHANGED vars
  BY <1>4 DEF vars, verifyVars, outVars, ReportFits
<1>5. CASE phase' \notin {"reporting", "stored"}
  BY <1>5 DEF ReportFits
<1>6. CASE Start
  BY <1>5, <1>6 DEF Start, StartCrawl, StartVisits, SourceUnavailable, IndexesMalformed, Become
<1>7. ASSUME NEW q \in Queries, Crawl(q) PROVE ReportFits'
  BY <1>5, <1>7 DEF Crawl, StartScan, CountPages, FetchPage, NoCaptures, ScanFails,
                    CountMalformed, PageMalformed
<1>8. ASSUME NEW c \in Companies, Visit(c) PROVE ReportFits'
  BY <1>5, <1>8 DEF Visit, VisitSite, SiteFails, SiteMalformed
<1>9. ASSUME NEW t \in Tokens, Verify(t) PROVE ReportFits'
  BY <1>5, <1>9 DEF Verify, AskBoard, AnswerMalformed, BoardAnswers, Judge, Become
<1>10. CASE CrawlEnds \/ VisitsEnd \/ StartBatch \/ EndBatch \/ VerificationEnds \/ Enrich \/ StoreFails
  BY <1>5, <1>10 DEF CrawlEnds, VisitsEnd, StartBatch, EndBatch, VerificationEnds, Enrich,
                     StoreFails, Become
<1> QED BY <1>2, <1>3, <1>4, <1>6, <1>7, <1>8, <1>9, <1>10 DEF Next, Conclude

LEMMA InitFits == Init => DiscoveryInvariant
<1> SUFFICES ASSUME Init PROVE DiscoveryInvariant
  OBVIOUS
<1>1. << >> \in Seq(Tokens) /\ Len(<< >>) = 0 /\ MaxPages \in Nat /\ MaxCandidates \in Nat
  BY EmptySeq, LimitsAssumption
<1>2. candidates = << >> /\ boards = << >>
  BY DEF Init
<1>3. candidates \in Seq(Tokens) /\ boards \in Seq(Tokens) /\ Len(candidates) = 0
  BY <1>1, <1>2
<1>4. counts \in [{"verified", "invalid", "empty"} -> Nat]
  BY DEF Init
<1>5. TypeOK
  BY <1>1, <1>3, <1>4 DEF Init, TypeOK, Phases, Scans, Verdicts
<1>6. Unasked
  BY DEF Init, Unasked
<1>7. VerifyInvariant
  BY <1>5, <1>6, UnaskedFits DEF Init
<1>8. PagesFit
  BY DEF Init, PagesFit, Sources
<1>9. CandidatesBounded
  <2>1. DOMAIN candidates = 1..0
    BY <1>3, LenProperties
  <2> QED BY <1>1, <1>3, <2>1 DEF CandidatesBounded, IsInjective
<1>10. EvidenceComplete
  BY <1>3 DEF Init, EvidenceComplete, Contains
<1>11. ReportFits
  BY DEF Init, ReportFits
<1> QED BY <1>5, <1>7, <1>8, <1>9, <1>10, <1>11 DEF DiscoveryInvariant, CrawlInvariant

LEMMA StepFits == DiscoveryInvariant /\ [Next]_vars => DiscoveryInvariant'
<1> SUFFICES ASSUME DiscoveryInvariant, [Next]_vars PROVE DiscoveryInvariant'
  OBVIOUS
<1>1. TypeOK /\ CrawlInvariant /\ CandidatesBounded /\ VerifyInvariant
  BY DEF DiscoveryInvariant, CrawlInvariant
<1>2. CrawlTypes' /\ CrawlInvariant'
  BY <1>1, CrawlStep
<1>3. VerifyTypes'
  BY <1>1, VerifyTypesStep
<1>4. TypeOK'
  BY <1>2, <1>3 DEF TypeOK, CrawlTypes, VerifyTypes
<1>5. VerifyInvariant'
  BY <1>1, <1>4, VerifyStep
<1>6. ReportFits'
  BY <1>1, ReportStep DEF DiscoveryInvariant
<1> QED BY <1>2, <1>4, <1>5, <1>6 DEF DiscoveryInvariant

\* The candidates, the batches and the counters fit together in every reachable state.
THEOREM InvariantHolds == Spec => []DiscoveryInvariant
  BY InitFits, StepFits, PTL DEF Spec

\* Every variable keeps its type.
THEOREM TypeCorrect == Spec => []TypeOK
<1>1. DiscoveryInvariant => TypeOK
  BY DEF DiscoveryInvariant
<1> QED BY <1>1, InvariantHolds, PTL

\* However many scans have a page in flight, the candidates never exceed
\* config.max_candidates, and none is listed twice.
THEOREM CandidatesBoundedHolds == Spec => []CandidatesBounded
<1>1. DiscoveryInvariant => CandidatesBounded
  BY DEF DiscoveryInvariant, CrawlInvariant
<1> QED BY <1>1, InvariantHolds, PTL

\* While the list is not full, whatever a source has shown is a candidate that names it.
THEOREM EvidenceCompleteHolds == Spec => []EvidenceComplete
<1>1. DiscoveryInvariant => EvidenceComplete
  BY DEF DiscoveryInvariant, CrawlInvariant
<1> QED BY <1>1, InvariantHolds, PTL

LEMMA StoredReportFits == DiscoveryInvariant => ReportMatchesVerdicts
<1> SUFFICES ASSUME DiscoveryInvariant, phase = "stored"
                 PROVE  /\ stored = ToSet(FirstValid) /\ ToSet(report) = ToSet(FirstValid)
                        /\ Len(report) = Len(FirstValid)
                        /\ CountsAddUp
  BY DEF ReportMatchesVerdicts
<1>1. TypeOK /\ VerdictsFit /\ BoardsFit /\ CountsFit
  BY DEF DiscoveryInvariant, VerifyInvariant
<1>a. Len(report) = Len(boards) /\ ToSet(report) = ToSet(boards) /\ stored = ToSet(report)
  BY DEF DiscoveryInvariant, ReportFits
<1>2. first > Len(candidates) \/ Len(boards) >= Limit
  BY <1>1 DEF VerdictsFit
<1> DEFINE n == Len(candidates)
           old == ValidOf(1, Done)
           rest == ValidOf(Done + 1, n)
<1>3. n \in Nat /\ Done \in 0..n /\ n \in Done..n /\ Done + 1 \in Nat /\ Done + 1 > 0 /\ n \in 0..n
      /\ 1 \in Nat /\ 1 > 0 /\ Limit \in Nat /\ Len(boards) \in Nat
      /\ (first > n => Done = n)
  <2>1. first > 0
    BY <1>1 DEF VerdictsFit
  <2> QED BY <1>1, <2>1, Sizes DEF Done
<1>4. ValidOf(1, n) = old \o rest /\ old \in Seq(Tokens) /\ rest \in Seq(Tokens)
      /\ ValidOf(1, n) \in Seq(Tokens)
  BY <1>1, <1>3, ValidInTwoParts, ValidFacts
<1>5. boards = FirstOf(old)
  BY <1>1 DEF BoardsFit
<1>6. FirstValid = FirstOf(ValidOf(1, n))
  BY DEF FirstValid, FirstOf
<1> HIDE DEF n, old, rest
<1>7. boards = FirstOf(ValidOf(1, n))
  <2>1. CASE first > n
    BY <1>3, <1>5, <2>1 DEF old
  <2>2. CASE Len(boards) >= Limit
    <3>1. Len(old) \in Nat /\ Len(boards) = IF Len(old) <= Limit THEN Len(old) ELSE Limit
      BY <1>4, <1>5, FirstFacts, LenProperties
    <3>2. Len(old) >= Limit
      BY <1>3, <2>2, <3>1
    <3>3. FirstOf(old \o rest) = FirstOf(old)
      BY <1>4, <3>2, FirstOfFull
    <3> QED BY <1>4, <1>5, <3>3
  <2> QED BY <1>2, <2>1, <2>2 DEF n
<1>8. CountsAddUp
  <2>1. /\ counts.verified = Done
        /\ Len(boards) + counts.invalid + counts.empty <= Done
        /\ Len(boards) < Limit => Len(boards) + counts.invalid + counts.empty = Done
    BY <1>1 DEF CountsFit
  <2>2. Len(boards) < Limit => Done = Len(candidates)
    BY <1>2, <1>3 DEF n
  <2> QED BY <1>a, <2>1, <2>2 DEF CountsAddUp
<1> QED BY <1>a, <1>6, <1>7, <1>8

\* The stored report: the valid candidates that were found first, up to the limit, in the
\* order the sort gives them, and counters that account for every candidate asked about,
\* whatever batch the limit fell into.
THEOREM ReportMatchesVerdictsHolds == Spec => []ReportMatchesVerdicts
  BY InvariantHolds, StoredReportFits, PTL
=============================================================================
