----------------------------- MODULE ListsProofs -----------------------------
(***************************************************************************)
(* What the loops over slices return, for every slice, and the induction   *)
(* on natural numbers that these proofs rest on.  The induction is stated  *)
(* for a set, which the least-number principle gives.                      *)
(***************************************************************************)
EXTENDS Lists, WellFoundedInduction, TLAPS

(* A nonempty set of natural numbers has the minimum that Min chooses.     *)
LEMMA MinIsMember ==
  ASSUME NEW S, S \subseteq Nat, S # {}
  PROVE  Min(S) \in S /\ \A y \in S : Min(S) <= y
<1>1. PICK m \in S : \A y \in S : ~(<<y, m>> \in OpToRel(<, Nat))
  BY NatLessThanWellFounded, WFMin
<1>2. ASSUME NEW y \in S
      PROVE  m <= y
  <2>1. y \in Nat /\ m \in Nat
    OBVIOUS
  <2>2. y < m => <<y, m>> \in OpToRel(<, Nat)
    BY <2>1 DEF OpToRel
  <2>3. ~(<<y, m>> \in OpToRel(<, Nat))
    BY <1>1, Zenon
  <2>4. ~(y < m)
    BY <2>2, <2>3, Zenon
  <2> QED BY <2>1, <2>4
<1> QED BY <1>2 DEF Min

(* Induction up to n, for a set that holds 0 and with k also k + 1.        *)
LEMMA InductionUpTo ==
  ASSUME NEW n \in Nat, NEW S, 0 \in S,
         \A k \in 0..(n - 1) : k \in S => k + 1 \in S
  PROVE  0..n \subseteq S
<1> DEFINE Missing == {k \in 0..n : k \notin S}
<1>1. SUFFICES ASSUME Missing # {} PROVE FALSE
  OBVIOUS
<1> DEFINE m == Min(Missing)
<1>2. m \in Missing /\ \A y \in Missing : m <= y
  <2>1. Missing \subseteq Nat
    OBVIOUS
  <2> HIDE DEF Missing
  <2> QED BY <1>1, <2>1, MinIsMember
<1> HIDE DEF m
<1>3. m \in 0..n /\ m \notin S /\ m # 0
  BY <1>2
<1>4. m - 1 \in 0..(n - 1) /\ m - 1 \in S
  BY <1>2, <1>3
<1>5. (m - 1) + 1 \in S /\ (m - 1) + 1 = m
  BY <1>3, <1>4
<1> QED BY <1>3, <1>5

(* A loop of n rounds: there is the function of its intermediate results.  *)
IsLoop(f, n, first, round) ==
  f = [k \in 0..n |-> IF k = 0 THEN first ELSE round[k][f[k - 1]]]

LEMMA LoopExists ==
  ASSUME NEW T, NEW n \in Nat, NEW first \in T, NEW round \in [1..n -> [T -> T]]
  PROVE  \E f \in [0..n -> T] : IsLoop(f, n, first, round)
<1> DEFINE Good(m, f) == f[0] = first /\ \A k \in 1..m : f[k] = round[k][f[k - 1]]
           S == {m \in 0..n : \E f \in [0..m -> T] : Good(m, f)}
<1>1. 0 \in S
  <2> DEFINE f == [k \in 0..0 |-> first]
  <2>1. f \in [0..0 -> T] /\ Good(0, f)
    OBVIOUS
  <2>2. 0 \in 0..n
    OBVIOUS
  <2> HIDE DEF f, Good
  <2> QED BY <2>1, <2>2
<1>2. ASSUME NEW m \in 0..(n - 1), m \in S
      PROVE  m + 1 \in S
  <2>1. PICK f \in [0..m -> T] : Good(m, f)
    BY <1>2
  <2> DEFINE g == [k \in 0..(m + 1) |-> IF k <= m THEN f[k] ELSE round[m + 1][f[m]]]
  <2>2. m \in Nat /\ m + 1 \in 1..n /\ m \in 0..m /\ round[m + 1] \in [T -> T] /\ f[m] \in T
    OBVIOUS
  <2>3. g \in [0..(m + 1) -> T]
    BY <2>2
  <2>4. g[0] = first
    BY <2>1, <2>2
  <2>5. ASSUME NEW k \in 1..(m + 1)
        PROVE  g[k] = round[k][g[k - 1]]
    <3>1. k \in 0..(m + 1) /\ k - 1 \in 0..m /\ k - 1 \in 0..(m + 1)
      BY <2>2
    <3>2. g[k - 1] = f[k - 1]
      BY <3>1
    <3>3. CASE k <= m
      <4>1. k \in 1..m /\ g[k] = f[k]
        BY <3>1, <3>3
      <4> QED BY <2>1, <3>2, <4>1
    <3>4. CASE k = m + 1
      BY <2>2, <3>1, <3>2, <3>4
    <3> QED BY <2>2, <3>3, <3>4
  <2>6. Good(m + 1, g)
    BY <2>4, <2>5
  <2>7. m + 1 \in 0..n
    BY <2>2
  <2> HIDE DEF g, Good
  <2> QED BY <2>3, <2>6, <2>7
<1>3. n \in S
  <2> HIDE DEF S
  <2>1. 0..n \subseteq S
    BY <1>1, <1>2, InductionUpTo
  <2> QED BY <2>1
<1>4. PICK f \in [0..n -> T] : Good(n, f)
  BY <1>3
<1>5. ASSUME NEW k \in 0..n
      PROVE  f[k] = IF k = 0 THEN first ELSE round[k][f[k - 1]]
  <2>1. CASE k = 0
    BY <1>4, <2>1
  <2>2. CASE k # 0
    <3>1. k \in 1..n
      BY <2>2
    <3> QED BY <1>4, <2>2, <3>1
  <2> QED BY <2>1, <2>2
<1>6. IsLoop(f, n, first, round)
  BY <1>5 DEF IsLoop
<1> QED BY <1>6

-----------------------------------------------------------------------------
(* A function on 1..n is a sequence.                                       *)
LEMMA FunctionIsSeq ==
  ASSUME NEW T, NEW n \in Nat, NEW f \in [1..n -> T]
  PROVE  f \in Seq(T) /\ Len(f) = n /\ DOMAIN f = 1..n
OBVIOUS

(* A sequence is a function on 1..n.                                       *)
LEMMA SeqIsFunction ==
  ASSUME NEW T, NEW s \in Seq(T)
  PROVE  /\ Len(s) \in Nat /\ DOMAIN s = 1..Len(s) /\ s \in [1..Len(s) -> T]
         /\ Range(s) = {s[k] : k \in 1..Len(s)} /\ Range(s) \subseteq T
BY DEF Range

(* Two sequences with the same elements at the same places are equal.      *)
LEMMA SameSeq ==
  ASSUME NEW T, NEW s \in Seq(T), NEW t \in Seq(T), Len(s) = Len(t),
         \A k \in 1..Len(s) : s[k] = t[k]
  PROVE  s = t
OBVIOUS

(* The loop of Omit, round by round.                                       *)
Rounds(T, s, skipped, f) ==
  /\ f \in [0..Len(s) -> Seq(T)]
  /\ f[0] = <<>>
  /\ \A k \in 1..Len(s) :
       f[k] = IF s[k] \in skipped THEN f[k - 1] ELSE Append(f[k - 1], s[k])
  /\ Omit(s, skipped) = f[Len(s)]

LEMMA OmitLoop ==
  ASSUME NEW T, NEW s \in Seq(T), NEW skipped
  PROVE  \E f : Rounds(T, s, skipped, f)
<1> DEFINE n == Len(s)
           round == [k \in 1..n |-> [x \in Seq(T) |-> IF s[k] \in skipped THEN x
                                                      ELSE Append(x, s[k])]]
           Loop(f) == f = [k \in 0..n |-> IF k = 0 THEN <<>>
                                          ELSE IF s[k] \in skipped THEN f[k - 1]
                                          ELSE Append(f[k - 1], s[k])]
<1>0. n \in Nat /\ \A k \in 1..n : s[k] \in T
  OBVIOUS
<1>1. round \in [1..n -> [Seq(T) -> Seq(T)]]
  BY <1>0
<1>2. <<>> \in Seq(T)
  OBVIOUS
<1>3. PICK g \in [0..n -> Seq(T)] : IsLoop(g, n, <<>>, round)
  <2> HIDE DEF n, round
  <2> QED BY <1>0, <1>1, <1>2, LoopExists
<1>4. ASSUME NEW k \in 1..n
      PROVE  /\ g[k] = round[k][g[k - 1]] /\ k \in 0..n /\ k # 0 /\ g[k - 1] \in Seq(T)
             /\ g[k] = IF s[k] \in skipped THEN g[k - 1] ELSE Append(g[k - 1], s[k])
  <2>1. k \in 0..n /\ k # 0 /\ k - 1 \in 0..n
    BY <1>0
  <2>2. g[k] = round[k][g[k - 1]]
    BY <1>3, <2>1 DEF IsLoop
  <2> QED BY <2>1, <2>2
<1>5. g[0] = <<>>
  <2>1. 0 \in 0..n
    BY <1>0
  <2> QED BY <1>3, <2>1 DEF IsLoop
<1>6. Loop(g)
  <2>1. \A k \in 0..n : k # 0 => k \in 1..n
    BY <1>0
  <2>2. \A k \in 0..n : g[k] = IF k = 0 THEN <<>>
                               ELSE IF s[k] \in skipped THEN g[k - 1]
                               ELSE Append(g[k - 1], s[k])
    BY <1>4, <1>5, <2>1
  <2> QED BY <2>2
<1> DEFINE f == CHOOSE h : Loop(h)
<1>7. Loop(f)
  <2> HIDE DEF Loop
  <2> QED BY <1>6
<1>8. Omit(s, skipped) = f[n]
  BY Zenon DEF Omit
<1> DEFINE Same == {k \in 0..n : f[k] = g[k]}
<1>9. 0..n \subseteq Same
  <2> HIDE DEF f
  <2>1. 0 \in Same
    <3>1. 0 \in 0..n
      BY <1>0
    <3> QED BY <1>5, <1>7, <3>1
  <2>2. ASSUME NEW k \in 0..(n - 1), k \in Same
        PROVE  k + 1 \in Same
    <3>1. k + 1 \in 1..n /\ k + 1 \in 0..n /\ k + 1 # 0 /\ (k + 1) - 1 = k
      BY <1>0
    <3>2. f[k + 1] = IF s[k + 1] \in skipped THEN f[k] ELSE Append(f[k], s[k + 1])
      BY <1>7, <3>1
    <3>3. g[k + 1] = IF s[k + 1] \in skipped THEN g[k] ELSE Append(g[k], s[k + 1])
      BY <1>4, <3>1
    <3> QED BY <2>2, <3>1, <3>2, <3>3
  <2> HIDE DEF Same, n
  <2> QED BY <1>0, <2>1, <2>2, InductionUpTo
<1>10. Omit(s, skipped) = g[n]
  <2>1. n \in 0..n
    BY <1>0
  <2> QED BY <1>8, <1>9, <2>1
<1>11. Rounds(T, s, skipped, g)
  <2> HIDE DEF round
  <2> QED BY <1>3, <1>4, <1>5, <1>10 DEF Rounds
<1> QED BY <1>11

(* Omit keeps what it does not skip, in order: place[k] is where the k-th  *)
(* element it keeps was.                                                   *)
Places(s, skipped, kept, upto, place) ==
  /\ place \in [1..Len(kept) -> 1..upto]
  /\ \A j, k \in 1..Len(kept) : j < k => place[j] < place[k]
  /\ \A k \in 1..Len(kept) : kept[k] = s[place[k]] /\ s[place[k]] \notin skipped
  /\ \A i \in 1..upto : s[i] \notin skipped => \E k \in 1..Len(kept) : place[k] = i

LEMMA OmitPlaces ==
  ASSUME NEW T, NEW s \in Seq(T), NEW skipped
  PROVE  /\ Omit(s, skipped) \in Seq(T)
         /\ \E place : Places(s, skipped, Omit(s, skipped), Len(s), place)
<1> DEFINE n == Len(s)
<1>0. n \in Nat /\ n \in 0..n /\ \A k \in 1..n : s[k] \in T
  OBVIOUS
<1>1. PICK f : Rounds(T, s, skipped, f)
  BY OmitLoop
<1> DEFINE Good == {m \in 0..n : \E place : Places(s, skipped, f[m], m, place)}
<1>2. 0 \in Good
  <2> DEFINE place == [k \in 1..0 |-> 0]
  <2>1. f[0] = <<>> /\ Len(<<>>) = 0 /\ 0 \in 0..n
    BY <1>0, <1>1 DEF Rounds
  <2>2. Places(s, skipped, <<>>, 0, place)
    BY <2>1 DEF Places
  <2> HIDE DEF place
  <2> QED BY <2>1, <2>2
<1>3. ASSUME NEW m \in 0..(n - 1), m \in Good
      PROVE  m + 1 \in Good
  <2>1. PICK place : Places(s, skipped, f[m], m, place)
    BY <1>3
  <2>2. m \in Nat /\ m + 1 \in 1..n /\ m + 1 \in 0..n /\ m \in 0..n /\ (m + 1) - 1 = m
    BY <1>0
  <2>3. f[m] \in Seq(T) /\ s[m + 1] \in T
    BY <1>0, <1>1, <2>2 DEF Rounds
  <2> DEFINE l == Len(f[m])
  <2>4. l \in Nat
    BY <2>3
  <2>5. CASE s[m + 1] \in skipped
    <3>1. f[m + 1] = f[m]
      BY <1>1, <2>2, <2>5 DEF Rounds
    <3>2. Places(s, skipped, f[m], m + 1, place)
      <4> HIDE DEF n
      <4>1. place \in [1..Len(f[m]) -> 1..(m + 1)]
        BY <2>1, <2>2 DEF Places
      <4>2. \A i \in 1..(m + 1) : s[i] \notin skipped => i \in 1..m
        BY <2>2, <2>5
      <4> QED BY <2>1, <4>1, <4>2 DEF Places
    <3> QED BY <2>2, <3>1, <3>2
  <2>6. CASE s[m + 1] \notin skipped
    <3> DEFINE kept == Append(f[m], s[m + 1])
               where == [k \in 1..(l + 1) |-> IF k <= l THEN place[k] ELSE m + 1]
    <3>1. f[m + 1] = kept
      BY <1>1, <2>2, <2>6 DEF Rounds
    <3>2. /\ Len(kept) = l + 1 /\ kept[l + 1] = s[m + 1]
          /\ \A k \in 1..l : kept[k] = f[m][k]
      BY <2>3
    <3>3. /\ place \in [1..l -> 1..m]
          /\ \A j, k \in 1..l : j < k => place[j] < place[k]
          /\ \A k \in 1..l : f[m][k] = s[place[k]] /\ s[place[k]] \notin skipped
          /\ \A i \in 1..m : s[i] \notin skipped => \E k \in 1..l : place[k] = i
      BY <2>1 DEF Places
    <3> HIDE DEF l, kept, n
    <3>4. \A k \in 1..(l + 1) : k \in 1..l \/ k = l + 1
      BY <2>4
    <3>5. /\ \A k \in 1..l : where[k] = place[k] /\ place[k] \in 1..m
          /\ where[l + 1] = m + 1
      BY <2>2, <2>4, <3>3
    <3>6. where \in [1..(l + 1) -> 1..(m + 1)]
      BY <2>2, <2>4, <3>3
    <3> HIDE DEF where
    <3>7. \A j, k \in 1..(l + 1) : j < k => where[j] < where[k]
      <4>1. \A j, k \in 1..l : j < k => where[j] < where[k]
        BY <3>3, <3>5
      <4>2. \A j \in 1..l : where[j] < where[l + 1] /\ ~(l + 1 < j)
        BY <2>2, <2>4, <3>5
      <4> QED BY <2>4, <3>4, <4>1, <4>2
    <3>8. \A k \in 1..(l + 1) : kept[k] = s[where[k]] /\ s[where[k]] \notin skipped
      BY <2>6, <3>2, <3>3, <3>4, <3>5
    <3>9. ASSUME NEW i \in 1..(m + 1), s[i] \notin skipped
          PROVE  \E k \in 1..(l + 1) : where[k] = i
      <4>1. CASE i = m + 1
        BY <2>4, <3>5, <4>1
      <4>2. CASE i \in 1..m
        <5>1. PICK k \in 1..l : place[k] = i
          BY <3>3, <3>9, <4>2
        <5>2. k \in 1..(l + 1) /\ where[k] = i
          BY <2>4, <3>5, <5>1
        <5> QED BY <5>2
      <4> QED BY <2>2, <4>1, <4>2
    <3>10. Places(s, skipped, kept, m + 1, where)
      BY <3>2, <3>6, <3>7, <3>8, <3>9 DEF Places
    <3> QED BY <2>2, <3>1, <3>10
  <2> QED BY <2>5, <2>6
<1>4. n \in Good
  <2> HIDE DEF Good, n
  <2> QED BY <1>0, <1>2, <1>3, InductionUpTo
<1>5. Omit(s, skipped) = f[n] /\ f[n] \in Seq(T)
  BY <1>0, <1>1 DEF Rounds
<1> QED BY <1>4, <1>5

(* Omit drops what it is to skip and nothing else.                         *)
LEMMA OmitRange ==
  ASSUME NEW T, NEW s \in Seq(T), NEW skipped
  PROVE  Range(Omit(s, skipped)) = Range(s) \ skipped
<1> DEFINE kept == Omit(s, skipped)
<1>1. kept \in Seq(T)
  BY OmitPlaces
<1>2. PICK place : Places(s, skipped, kept, Len(s), place)
  BY OmitPlaces
<1> HIDE DEF kept
<1>3. ASSUME NEW x \in Range(kept)
      PROVE  x \in Range(s) \ skipped
  <2>1. PICK k \in 1..Len(kept) : x = kept[k]
    BY <1>1, SeqIsFunction
  <2>2. place[k] \in 1..Len(s) /\ x = s[place[k]] /\ x \notin skipped
    BY <1>2, <2>1 DEF Places
  <2> QED BY <2>2, SeqIsFunction
<1>4. ASSUME NEW x \in Range(s) \ skipped
      PROVE  x \in Range(kept)
  <2>1. PICK i \in 1..Len(s) : x = s[i]
    BY SeqIsFunction
  <2>2. PICK k \in 1..Len(kept) : place[k] = i
    BY <1>2, <1>4, <2>1 DEF Places
  <2>3. x = kept[k]
    BY <1>2, <2>1, <2>2 DEF Places
  <2> QED BY <1>1, <2>3, SeqIsFunction
<1> QED BY <1>3, <1>4 DEF kept

(* A list that has nothing to skip stays as it is.                         *)
LEMMA OmitNothing ==
  ASSUME NEW T, NEW s \in Seq(T), NEW skipped, Range(s) \cap skipped = {}
  PROVE  Omit(s, skipped) = s
<1> DEFINE n == Len(s)
<1>0. n \in Nat /\ n \in 0..n /\ \A k \in 1..n : s[k] \in T /\ s[k] \notin skipped
  BY SeqIsFunction
<1>1. PICK f : Rounds(T, s, skipped, f)
  BY OmitLoop
<1> DEFINE Good == {m \in 0..n : Len(f[m]) = m /\ \A k \in 1..m : f[m][k] = s[k]}
<1>2. 0 \in Good
  BY <1>0, <1>1 DEF Rounds
<1>3. ASSUME NEW m \in 0..(n - 1), m \in Good
      PROVE  m + 1 \in Good
  <2>1. m \in 0..n /\ m + 1 \in 0..n /\ m + 1 \in 1..n /\ (m + 1) - 1 = m /\ m \in Nat
    BY <1>0
  <2>2. f[m] \in Seq(T) /\ f[m + 1] = Append(f[m], s[m + 1])
    BY <1>0, <1>1, <2>1 DEF Rounds
  <2>3. /\ Len(f[m + 1]) = m + 1 /\ f[m + 1][m + 1] = s[m + 1]
        /\ \A k \in 1..m : f[m + 1][k] = f[m][k]
    BY <1>0, <1>3, <2>1, <2>2
  <2>4. \A k \in 1..(m + 1) : k \in 1..m \/ k = m + 1
    BY <2>1
  <2> QED BY <1>3, <2>1, <2>3, <2>4
<1>4. n \in Good
  <2> HIDE DEF Good, n
  <2> QED BY <1>0, <1>2, <1>3, InductionUpTo
<1>5. Omit(s, skipped) = f[n] /\ f[n] \in Seq(T)
  BY <1>0, <1>1 DEF Rounds
<1> QED BY <1>4, <1>5, SameSeq

(* Whether an element that is skipped is there or not makes no difference. *)
LEMMA OmitSkipped ==
  ASSUME NEW T, NEW s \in Seq(T), NEW t \in Seq(T), NEW skipped, NEW m \in 1..Len(s),
         s[m] \in skipped, Len(t) = Len(s) - 1,
         \A k \in 1..Len(t) : t[k] = IF k < m THEN s[k] ELSE s[k + 1]
  PROVE  Omit(t, skipped) = Omit(s, skipped)
<1> DEFINE n == Len(s)
<1>0. n \in Nat /\ n \in 1..n /\ n - 1 \in 0..(n - 1) /\ m \in 1..n /\ Len(t) = n - 1
  OBVIOUS
<1>1. PICK f : Rounds(T, s, skipped, f)
  BY OmitLoop
<1>2. PICK g : Rounds(T, t, skipped, g)
  BY OmitLoop
<1> DEFINE Good == {k \in 0..(n - 1) : IF k < m THEN g[k] = f[k] ELSE g[k] = f[k + 1]}
<1>3. 0 \in Good
  BY <1>0, <1>1, <1>2 DEF Rounds
<1>4. f[m] = f[m - 1]
  BY <1>0, <1>1 DEF Rounds
<1>5. ASSUME NEW k \in 0..((n - 1) - 1), k \in Good
      PROVE  k + 1 \in Good
  <2>1. /\ k \in Nat /\ k + 1 \in 1..(n - 1) /\ k + 1 \in 1..n /\ k + 2 \in 1..n
        /\ k + 1 \in 0..(n - 1) /\ (k + 1) - 1 = k /\ (k + 2) - 1 = k + 1 /\ (k + 1) + 1 = k + 2
    BY <1>0
  <2>2. g[k + 1] = IF t[k + 1] \in skipped THEN g[k] ELSE Append(g[k], t[k + 1])
    BY <1>0, <1>2, <2>1 DEF Rounds
  <2>3. /\ f[k + 1] = IF s[k + 1] \in skipped THEN f[k] ELSE Append(f[k], s[k + 1])
        /\ f[k + 2] = IF s[k + 2] \in skipped THEN f[k + 1] ELSE Append(f[k + 1], s[k + 2])
    BY <1>0, <1>1, <2>1 DEF Rounds
  <2>4. t[k + 1] = IF k + 1 < m THEN s[k + 1] ELSE s[k + 2]
    BY <1>0, <2>1
  <2> HIDE DEF n
  <2>5. CASE k + 1 < m
    <3>1. g[k] = f[k]
      BY <1>0, <1>5, <2>1, <2>5
    <3> QED BY <2>1, <2>2, <2>3, <2>4, <2>5, <3>1
  <2>6. CASE k + 1 = m
    <3>1. g[k] = f[k + 1]
      BY <1>0, <1>4, <1>5, <2>1, <2>6
    <3> QED BY <2>1, <2>2, <2>3, <2>4, <2>6, <3>1
  <2>7. CASE m < k + 1
    <3>1. g[k] = f[k + 1]
      BY <1>0, <1>5, <2>1, <2>7
    <3> QED BY <1>0, <2>1, <2>2, <2>3, <2>4, <2>7, <3>1
  <2> QED BY <1>0, <2>1, <2>5, <2>6, <2>7
<1>6. n - 1 \in Good
  <2> HIDE DEF Good, n
  <2>1. n - 1 \in Nat
    BY <1>0
  <2> QED BY <1>0, <1>3, <1>5, <2>1, InductionUpTo
<1>7. g[n - 1] = f[n]
  <2> HIDE DEF n
  <2>1. CASE n - 1 < m
    <3>1. m = n /\ g[n - 1] = f[n - 1]
      BY <1>0, <1>6, <2>1
    <3> QED BY <1>4, <3>1
  <2>2. CASE ~(n - 1 < m)
    <3>1. g[n - 1] = f[(n - 1) + 1] /\ (n - 1) + 1 = n
      BY <1>0, <1>6, <2>2
    <3> QED BY <3>1
  <2> QED BY <2>1, <2>2
<1> QED BY <1>0, <1>1, <1>2, <1>7 DEF Rounds

-----------------------------------------------------------------------------
(* What updateUser and removeUser leave of a list: the first client of     *)
(* that email is gone, if there is one.                                    *)
LEMMA WithoutClientAt ==
  ASSUME NEW T, NEW clients \in Seq(T), NEW e
  PROVE  LET n == Len(clients)
             left == WithoutClient(clients, e)
         IN  \/ /\ \A k \in 1..n : clients[k].email # e
                /\ left = clients
             \/ \E m \in 1..n :
                  /\ clients[m].email = e /\ \A k \in 1..(m - 1) : clients[k].email # e
                  /\ left \in Seq(T) /\ Len(left) = n - 1
                  /\ \A k \in 1..(n - 1) : left[k] = IF k < m THEN clients[k] ELSE clients[k + 1]
<1> DEFINE n == Len(clients)
           left == WithoutClient(clients, e)
           I == {i \in 1..n : clients[i].email = e}
<1>0. n \in Nat /\ DOMAIN clients = 1..n
  OBVIOUS
<1>1. CASE I = {}
  <2>1. left = clients
    BY <1>1 DEF WithoutClient, RemoveFirstMatch
  <2> QED BY <1>0, <1>1, <2>1
<1>2. CASE I # {}
  <2> DEFINE m == Min(I)
  <2>0. I \subseteq Nat
    OBVIOUS
  <2> HIDE DEF I
  <2>1. m \in I /\ \A k \in I : m <= k
    BY <1>2, <2>0, MinIsMember
  <2> USE DEF I
  <2>2. left = SubSeq(clients, 1, m - 1) \o SubSeq(clients, m + 1, n)
    BY <1>2 DEF WithoutClient, RemoveFirstMatch, RemoveAt, SelectInSeq
  <2> HIDE DEF m
  <2>3. /\ m \in 1..n /\ clients[m].email = e
        /\ \A k \in 1..(m - 1) : clients[k].email # e
    BY <1>0, <2>1
  <2> DEFINE a == SubSeq(clients, 1, m - 1)
             b == SubSeq(clients, m + 1, n)
  <2>4. /\ a \in Seq(T) /\ Len(a) = m - 1
        /\ \A k \in 1..(m - 1) : a[k] = clients[k]
    BY <1>0, <2>3
  <2>5. /\ b \in Seq(T) /\ Len(b) = n - m
        /\ \A k \in 1..(n - m) : b[k] = clients[m + k]
    <3>1. b = SubSeq(clients, m + 1, Len(clients)) /\ Len(clients) = n
      OBVIOUS
    <3> HIDE DEF b, n, I, left
    <3>2. b \in Seq(T)
      BY <1>0, <2>3, <3>1
    <3>3. Len(b) = n - m
      BY <1>0, <2>3, <3>1
    <3>4. \A k \in 1..(n - m) : b[k] = clients[m + k]
      BY <1>0, <2>3, <3>1, <3>3
    <3> QED BY <3>2, <3>3, <3>4
  <2>6. left = a \o b
    BY <2>2
  <2> HIDE DEF a, b, n, left, I
  <2>7. \A k \in 1..(n - 1) : (a \o b)[k] = IF k <= m - 1 THEN a[k] ELSE b[k - (m - 1)]
    BY <1>0, <2>3, <2>4, <2>5
  <2>8. Len(a \o b) = n - 1 /\ a \o b \in Seq(T)
    BY <1>0, <2>3, <2>4, <2>5
  <2>9. \A k \in 1..(n - 1) : (a \o b)[k] = IF k < m THEN clients[k] ELSE clients[k + 1]
    BY <1>0, <2>3, <2>4, <2>5, <2>7
  <2> QED BY <2>3, <2>6, <2>8, <2>9 DEF n, left
<1> QED BY <1>1, <1>2

=============================================================================
