------------------------- MODULE ProvisioningProofs -------------------------
(***************************************************************************)
(* Proofs of the invariants of Provisioning, for every config and exclude  *)
(* list the panel may send, every list of users with different emails, and *)
(* any number of requests, restarts and units of traffic.                  *)
(***************************************************************************)
EXTENDS Provisioning, AccountsProofs

-----------------------------------------------------------------------------
(* The removal of the API inbounds, config.go:354-360.                     *)
LoopState(I, n) == [array : [1..n -> I], len : 0..n, panic : BOOLEAN]

LEMMA RemovalStep ==
  ASSUME NEW I, NEW n \in Nat, NEW s \in LoopState(I, n), NEW k \in 1..n
  PROVE  LET r == Removal(s, k)
         IN  /\ r \in LoopState(I, n)
             /\ s.panic \/ s.array[k].tag # ApiTag => r = s
             /\ ~s.panic /\ s.array[k].tag = ApiTag /\ k > s.len => r.panic
             /\ ~s.panic /\ s.array[k].tag = ApiTag /\ k <= s.len =>
                  /\ ~r.panic /\ r.len = s.len - 1
                  /\ \A j \in 1..n : r.array[j] = IF j \in k..(s.len - 1) THEN s.array[j + 1]
                                                                       ELSE s.array[j]
<1>1. /\ s.array \in [1..n -> I] /\ s.len \in 0..n /\ s.panic \in BOOLEAN
      /\ DOMAIN s.array = 1..n
  BY DEF LoopState
<1>2. CASE s.panic \/ s.array[k].tag # ApiTag
  BY <1>2 DEF Removal
<1>3. CASE ~s.panic /\ s.array[k].tag = ApiTag /\ k > s.len
  <2>1. Removal(s, k) = [s EXCEPT !.panic = TRUE]
    BY <1>3 DEF Removal
  <2>2. [s EXCEPT !.panic = TRUE] \in LoopState(I, n)
    BY DEF LoopState
  <2>3. [s EXCEPT !.panic = TRUE].panic
    BY DEF LoopState
  <2> QED BY <1>1, <1>3, <2>1, <2>2, <2>3
<1>4. CASE ~s.panic /\ s.array[k].tag = ApiTag /\ k <= s.len
  <2> DEFINE moved == [j \in 1..n |-> IF j \in k..(s.len - 1) THEN s.array[j + 1] ELSE s.array[j]]
             r == [s EXCEPT !.len = s.len - 1, !.array = moved]
  <2>1. ~(k > s.len)
    BY <1>1, <1>4
  <2>2. Removal(s, k) = r
    BY <1>1, <1>4, <2>1 DEF Removal
  <2>3. moved \in [1..n -> I]
    BY <1>1
  <2>4. s.len - 1 \in 0..n
    BY <1>1, <1>4
  <2>5. \A j \in 1..n : moved[j] = IF j \in k..(s.len - 1) THEN s.array[j + 1] ELSE s.array[j]
    OBVIOUS
  <2> HIDE DEF moved
  <2>6. r \in LoopState(I, n)
    BY <2>3, <2>4 DEF LoopState
  <2>7. r.array = moved /\ r.len = s.len - 1 /\ r.panic = s.panic
    BY DEF LoopState
  <2> HIDE DEF r
  <2> QED BY <1>4, <2>1, <2>2, <2>5, <2>6, <2>7
<1> QED BY <1>1, <1>2, <1>3, <1>4

Loop(inbounds, loop) ==
  LET n == Len(inbounds)
  IN  /\ loop \in [0..n -> LoopState(Range(inbounds), n)]
      /\ loop[0] = [array |-> inbounds, len |-> n, panic |-> FALSE]
      /\ \A k \in 1..n : loop[k] = Removal(loop[k - 1], k)
      /\ WithoutApiInbound(inbounds) =
           IF loop[n].panic THEN {} ELSE {SubSeq(loop[n].array, 1, loop[n].len)}

LEMMA LoopOverInbounds ==
  ASSUME NEW T, NEW inbounds \in Seq(T)
  PROVE  \E loop : Loop(inbounds, loop)
<1> DEFINE n == Len(inbounds)
           I == Range(inbounds)
           S == LoopState(I, n)
           first == [array |-> inbounds, len |-> n, panic |-> FALSE]
           round == [k \in 1..n |-> [s \in S |-> Removal(s, k)]]
           Eq(f) == f = [k \in 0..n |-> IF k = 0
                                        THEN [array |-> inbounds, len |-> n, panic |-> FALSE]
                                        ELSE Removal(f[k - 1], k)]
<1>0. n \in Nat /\ n \in 0..n /\ inbounds \in [1..n -> I]
  BY SeqIsFunction
<1>1. first \in S
  BY <1>0 DEF LoopState
<1>2. \A k \in 1..n : \A s \in S : Removal(s, k) \in S
  BY <1>0, RemovalStep
<1> HIDE DEF S, n, I
<1>3. round \in [1..n -> [S -> S]]
  BY <1>2
<1>4. PICK g \in [0..n -> S] : IsLoop(g, n, first, round)
  <2> HIDE DEF first, round
  <2> QED BY <1>0, <1>1, <1>3, LoopExists
<1>5. g[0] = first
  BY <1>0, <1>4 DEF IsLoop
<1>6. ASSUME NEW k \in 1..n
      PROVE  g[k] = Removal(g[k - 1], k) /\ k \in 0..n /\ k # 0 /\ k - 1 \in 0..n
  <2>1. k \in 0..n /\ k # 0 /\ k - 1 \in 0..n
    BY <1>0
  <2>2. g[k] = round[k][g[k - 1]]
    BY <1>4, <2>1 DEF IsLoop
  <2> QED BY <2>1, <2>2
<1>7. Eq(g)
  <2>1. \A k \in 0..n : k # 0 => k \in 1..n
    BY <1>0
  <2>2. \A k \in 0..n : g[k] = IF k = 0 THEN first ELSE Removal(g[k - 1], k)
    BY <1>5, <1>6, <2>1
  <2> QED BY <2>2
<1> DEFINE f == CHOOSE h : Eq(h)
<1>8. Eq(f)
  <2> HIDE DEF Eq
  <2> QED BY <1>7
<1>9. WithoutApiInbound(inbounds) = IF f[n].panic THEN {} ELSE {SubSeq(f[n].array, 1, f[n].len)}
  BY Zenon DEF WithoutApiInbound, n
<1> DEFINE Same == {k \in 0..n : f[k] = g[k]}
<1>10. 0..n \subseteq Same
  <2> HIDE DEF f
  <2>1. 0 \in Same
    BY <1>0, <1>5, <1>8
  <2>2. ASSUME NEW k \in 0..(n - 1), k \in Same
        PROVE  k + 1 \in Same
    <3>1. k + 1 \in 1..n /\ k + 1 \in 0..n /\ k + 1 # 0 /\ (k + 1) - 1 = k
      BY <1>0
    <3>2. f[k + 1] = Removal(f[k], k + 1)
      BY <1>8, <3>1
    <3>3. g[k + 1] = Removal(g[k], k + 1)
      BY <1>6, <3>1
    <3> QED BY <2>2, <3>1, <3>2, <3>3
  <2> HIDE DEF Same
  <2> QED BY <1>0, <2>1, <2>2, InductionUpTo
<1>11. f[n] = g[n]
  BY <1>0, <1>10
<1> HIDE DEF f, Eq, round
<1>12. Loop(inbounds, g)
  BY <1>4, <1>5, <1>6, <1>9, <1>11 DEF Loop, n, S, I
<1> QED BY <1>12

(* While nothing panics, what is left has the same tags but for ApiTag, in *)
(* the same order.                                                         *)
LEMMA LeftAfterRemoval ==
  ASSUME NEW T, NEW inbounds \in Seq(T), WithoutApiInbound(inbounds) # {}
  PROVE  \E rest \in Seq(T) :
           /\ WithoutApiInbound(inbounds) = {rest}
           /\ Range(rest) \subseteq Range(inbounds)
           /\ Omit(TagsOf(rest), {ApiTag}) = Omit(TagsOf(inbounds), {ApiTag})
<1> DEFINE n == Len(inbounds)
           I == Range(inbounds)
           G == {i.tag : i \in I}
<1>0. n \in Nat /\ n \in 0..n /\ inbounds \in [1..n -> I] /\ I \subseteq T /\ DOMAIN inbounds = 1..n
  BY SeqIsFunction
<1>1. PICK loop : Loop(inbounds, loop)
  BY LoopOverInbounds
<1>2. /\ loop \in [0..n -> LoopState(I, n)]
      /\ loop[0] = [array |-> inbounds, len |-> n, panic |-> FALSE]
      /\ \A k \in 1..n : loop[k] = Removal(loop[k - 1], k)
      /\ WithoutApiInbound(inbounds) =
           IF loop[n].panic THEN {} ELSE {SubSeq(loop[n].array, 1, loop[n].len)}
  BY <1>1 DEF Loop
<1> HIDE DEF n, I, G
<1> DEFINE Left(k) == SubSeq(loop[k].array, 1, loop[k].len)
           Good == {k \in 0..n :
                      ~loop[k].panic =>
                            Omit(TagsOf(Left(k)), {ApiTag}) = Omit(TagsOf(inbounds), {ApiTag})}
<1>3. ASSUME NEW k \in 0..n
      PROVE  /\ loop[k].array \in [1..n -> I] /\ loop[k].len \in 0..n /\ loop[k].panic \in BOOLEAN
             /\ Left(k) \in Seq(I) /\ Len(Left(k)) = loop[k].len
             /\ \A j \in 1..loop[k].len : Left(k)[j] = loop[k].array[j]
             /\ TagsOf(Left(k)) \in Seq(G) /\ Len(TagsOf(Left(k))) = loop[k].len
             /\ \A j \in 1..loop[k].len : TagsOf(Left(k))[j] = loop[k].array[j].tag
  <2>1. loop[k] \in LoopState(I, n)
    BY <1>2
  <2>2. loop[k].array \in [1..n -> I] /\ loop[k].len \in 0..n /\ loop[k].panic \in BOOLEAN
    BY <2>1 DEF LoopState
  <2>3. loop[k].array \in Seq(I) /\ Len(loop[k].array) = n
    BY <1>0, <2>2, FunctionIsSeq
  <2>4. /\ Left(k) \in Seq(I) /\ Len(Left(k)) = loop[k].len
        /\ DOMAIN Left(k) = 1..loop[k].len
        /\ \A j \in 1..loop[k].len : Left(k)[j] = loop[k].array[j] /\ Left(k)[j] \in I
    BY <1>0, <2>2, <2>3
  <2>5. /\ TagsOf(Left(k)) \in [1..loop[k].len -> G]
        /\ \A j \in 1..loop[k].len : TagsOf(Left(k))[j] = loop[k].array[j].tag
    <3> HIDE DEF Left
    <3> QED BY <2>4 DEF TagsOf, G
  <2>6. TagsOf(Left(k)) \in Seq(G) /\ Len(TagsOf(Left(k))) = loop[k].len
    <3>1. loop[k].len \in Nat
      BY <1>0, <2>2
    <3> HIDE DEF Left
    <3> QED BY <2>5, <3>1, FunctionIsSeq
  <2> HIDE DEF Left
  <2> QED BY <2>2, <2>4, <2>5, <2>6
<1>4. 0 \in Good
  <2>1. Left(0) = inbounds
    <3>1. loop[0].array = inbounds /\ loop[0].len = n
      BY <1>2
    <3>2. SubSeq(inbounds, 1, Len(inbounds)) = inbounds
      OBVIOUS
    <3> QED BY <3>1, <3>2 DEF n
  <2> HIDE DEF Left
  <2> QED BY <1>0, <2>1
<1>5. ASSUME NEW k \in 0..(n - 1), k \in Good
      PROVE  k + 1 \in Good
  <2>1. k \in 0..n /\ k + 1 \in 0..n /\ k + 1 \in 1..n /\ (k + 1) - 1 = k
    BY <1>0
  <2>2. loop[k + 1] = Removal(loop[k], k + 1) /\ loop[k] \in LoopState(I, n)
    BY <1>2, <2>1
  <2>3. /\ loop[k].panic \/ loop[k].array[k + 1].tag # ApiTag => loop[k + 1] = loop[k]
        /\ ~loop[k].panic /\ loop[k].array[k + 1].tag = ApiTag /\ k + 1 > loop[k].len =>
             loop[k + 1].panic
        /\ ~loop[k].panic /\ loop[k].array[k + 1].tag = ApiTag /\ k + 1 <= loop[k].len =>
             /\ loop[k + 1].len = loop[k].len - 1
             /\ \A j \in 1..n :
                  loop[k + 1].array[j] =
                    IF j \in (k + 1)..(loop[k].len - 1) THEN loop[k].array[j + 1]
                                                        ELSE loop[k].array[j]
    <3> DEFINE s == loop[k]
               r == Removal(s, k + 1)
    <3>1. /\ s.panic \/ s.array[k + 1].tag # ApiTag => r = s
          /\ ~s.panic /\ s.array[k + 1].tag = ApiTag /\ k + 1 > s.len => r.panic
          /\ ~s.panic /\ s.array[k + 1].tag = ApiTag /\ k + 1 <= s.len =>
               /\ ~r.panic /\ r.len = s.len - 1
               /\ \A j \in 1..n : r.array[j] = IF j \in (k + 1)..(s.len - 1) THEN s.array[j + 1]
                                                                           ELSE s.array[j]
      <4> HIDE DEF s
      <4>1. s \in LoopState(I, n)
        BY <2>2 DEF s
      <4> QED BY <1>0, <2>1, <4>1, RemovalStep
    <3>2. r = loop[k + 1]
      BY <2>2
    <3> HIDE DEF r
    <3> QED BY <3>1, <3>2
  <2>4. CASE loop[k + 1] = loop[k]
    <3>1. Left(k + 1) = Left(k)
      BY <2>4
    <3> HIDE DEF Left
    <3> QED BY <1>5, <2>1, <2>4, <3>1
  <2>5. CASE loop[k + 1].panic
    BY <2>1, <2>5
  <2>6. CASE ~loop[k].panic /\ loop[k].array[k + 1].tag = ApiTag /\ k + 1 <= loop[k].len
    <3> DEFINE s == TagsOf(Left(k))
               t == TagsOf(Left(k + 1))
    <3>1. /\ loop[k + 1].len = loop[k].len - 1
          /\ \A j \in 1..n :
               loop[k + 1].array[j] = IF j \in (k + 1)..(loop[k].len - 1) THEN loop[k].array[j + 1]
                                                                        ELSE loop[k].array[j]
      BY <2>3, <2>6
    <3>2. /\ s \in Seq(G) /\ Len(s) = loop[k].len /\ loop[k].len \in 0..n
          /\ \A j \in 1..loop[k].len : s[j] = loop[k].array[j].tag
      BY <1>3, <2>1
    <3>3. /\ t \in Seq(G) /\ Len(t) = loop[k + 1].len
          /\ \A j \in 1..loop[k + 1].len : t[j] = loop[k + 1].array[j].tag
      BY <1>3, <2>1
    <3> HIDE DEF s, t
    <3>4. k + 1 \in 1..Len(s) /\ s[k + 1] \in {ApiTag} /\ Len(t) = Len(s) - 1
      BY <2>1, <2>6, <3>1, <3>2, <3>3
    <3>5. \A j \in 1..Len(t) : t[j] = IF j < k + 1 THEN s[j] ELSE s[j + 1]
      <4> SUFFICES ASSUME NEW j \in 1..Len(t)
                   PROVE  t[j] = IF j < k + 1 THEN s[j] ELSE s[j + 1]
        OBVIOUS
      <4>1. /\ j \in 1..loop[k + 1].len /\ j \in 1..n /\ j \in 1..loop[k].len
            /\ j + 1 \in 1..loop[k].len
            /\ j \in (k + 1)..(loop[k].len - 1) <=> ~(j < k + 1)
        BY <1>0, <2>1, <2>6, <3>1, <3>2, <3>3
      <4>2. t[j] = loop[k + 1].array[j].tag
        BY <3>3, <4>1
      <4>3. loop[k + 1].array[j] = IF j < k + 1 THEN loop[k].array[j] ELSE loop[k].array[j + 1]
        BY <3>1, <4>1
      <4>4. s[j] = loop[k].array[j].tag /\ s[j + 1] = loop[k].array[j + 1].tag
        BY <3>2, <4>1
      <4> QED BY <4>2, <4>3, <4>4
    <3>6. Omit(t, {ApiTag}) = Omit(s, {ApiTag})
      BY <3>2, <3>3, <3>4, <3>5, OmitSkipped
    <3> QED BY <1>5, <2>1, <2>6, <3>6 DEF s, t
  <2> HIDE DEF Good
  <2> QED BY <1>3, <2>1, <2>3, <2>4, <2>5, <2>6
<1>6. n \in Good
  <2> HIDE DEF Good
  <2> QED BY <1>0, <1>4, <1>5, InductionUpTo
<1>7. ~loop[n].panic
  BY <1>2
<1> DEFINE rest == Left(n)
<1>8. /\ WithoutApiInbound(inbounds) = {rest} /\ rest \in Seq(I)
      /\ Omit(TagsOf(rest), {ApiTag}) = Omit(TagsOf(inbounds), {ApiTag})
  BY <1>0, <1>2, <1>3, <1>6, <1>7
<1> HIDE DEF rest
<1>9. rest \in Seq(T) /\ Range(rest) \subseteq I
  <2>1. Range(rest) \subseteq I
    BY <1>8, SeqIsFunction
  <2> QED BY <1>0, <1>8, <2>1
<1> QED BY <1>8, <1>9 DEF I

(* The loop does not panic over a config with one API inbound at most.     *)
LEMMA OneApiInbound ==
  ASSUME NEW T, NEW inbounds \in Seq(T),
         \A j, k \in DOMAIN inbounds : inbounds[j].tag = ApiTag /\ inbounds[k].tag = ApiTag => j = k
  PROVE  WithoutApiInbound(inbounds) # {}
<1> DEFINE n == Len(inbounds)
           I == Range(inbounds)
<1>0. n \in Nat /\ n \in 0..n /\ inbounds \in [1..n -> I] /\ DOMAIN inbounds = 1..n
  BY SeqIsFunction
<1>1. PICK loop : Loop(inbounds, loop)
  BY LoopOverInbounds
<1>2. /\ loop \in [0..n -> LoopState(I, n)]
      /\ loop[0] = [array |-> inbounds, len |-> n, panic |-> FALSE]
      /\ \A k \in 1..n : loop[k] = Removal(loop[k - 1], k)
      /\ WithoutApiInbound(inbounds) =
           IF loop[n].panic THEN {} ELSE {SubSeq(loop[n].array, 1, loop[n].len)}
  BY <1>1 DEF Loop
<1> HIDE DEF n, I
<1> DEFINE Good == {k \in 0..n :
                      /\ ~loop[k].panic
                      /\ \/ loop[k].len = n /\ loop[k].array = inbounds
                         \/ \A j \in (k + 1)..n : loop[k].array[j].tag # ApiTag}
<1>3. 0 \in Good
  BY <1>0, <1>2
<1>4. ASSUME NEW k \in 0..(n - 1), k \in Good
      PROVE  k + 1 \in Good
  <2>1. k \in 0..n /\ k + 1 \in 0..n /\ k + 1 \in 1..n /\ (k + 1) - 1 = k
    BY <1>0
  <2>2. loop[k + 1] = Removal(loop[k], k + 1) /\ loop[k] \in LoopState(I, n)
    BY <1>2, <2>1
  <2>3. /\ loop[k].array[k + 1].tag # ApiTag => loop[k + 1] = loop[k]
        /\ ~loop[k].panic /\ loop[k].array[k + 1].tag = ApiTag /\ k + 1 <= loop[k].len =>
             /\ ~loop[k + 1].panic
             /\ \A j \in 1..n :
                  loop[k + 1].array[j] =
                    IF j \in (k + 1)..(loop[k].len - 1) THEN loop[k].array[j + 1]
                                                        ELSE loop[k].array[j]
    <3> DEFINE s == loop[k]
               r == Removal(s, k + 1)
    <3>1. /\ s.array[k + 1].tag # ApiTag => r = s
          /\ ~s.panic /\ s.array[k + 1].tag = ApiTag /\ k + 1 <= s.len =>
               /\ ~r.panic
               /\ \A j \in 1..n : r.array[j] = IF j \in (k + 1)..(s.len - 1) THEN s.array[j + 1]
                                                                           ELSE s.array[j]
      <4> HIDE DEF s
      <4>1. s \in LoopState(I, n)
        BY <2>2 DEF s
      <4> QED BY <1>0, <2>1, <4>1, RemovalStep
    <3>2. r = loop[k + 1]
      BY <2>2
    <3> HIDE DEF r
    <3> QED BY <3>1, <3>2
  <2>4. CASE loop[k].array[k + 1].tag # ApiTag
    <3>1. loop[k + 1] = loop[k] /\ ~loop[k].panic
      BY <1>4, <2>3, <2>4
    <3>2. ((k + 1) + 1)..n \subseteq (k + 1)..n
      BY <1>0, <2>1
    <3> QED BY <1>4, <2>1, <3>1, <3>2
  <2>5. CASE loop[k].array[k + 1].tag = ApiTag
    <3>1. loop[k].len = n /\ loop[k].array = inbounds /\ ~loop[k].panic
      BY <1>0, <1>4, <2>1, <2>5
    <3>2. /\ ~loop[k + 1].panic
          /\ \A j \in 1..n :
               loop[k + 1].array[j] =
                 IF j \in (k + 1)..(n - 1) THEN inbounds[j + 1] ELSE inbounds[j]
      BY <2>1, <2>3, <2>5, <3>1
    <3>3. \A j \in 1..n : j # k + 1 => inbounds[j].tag # ApiTag
      BY <1>0, <2>1, <2>5, <3>1
    <3>4. \A j \in ((k + 1) + 1)..n : loop[k + 1].array[j].tag # ApiTag
      <4> SUFFICES ASSUME NEW j \in ((k + 1) + 1)..n
                   PROVE  loop[k + 1].array[j].tag # ApiTag
        OBVIOUS
      <4>1. j \in 1..n /\ j # k + 1 /\ (j \in (k + 1)..(n - 1) => j + 1 \in 1..n /\ j + 1 # k + 1)
        BY <1>0, <2>1
      <4> QED BY <3>2, <3>3, <4>1
    <3> QED BY <2>1, <3>2, <3>4
  <2> QED BY <2>4, <2>5
<1>5. n \in Good
  <2> HIDE DEF Good
  <2> QED BY <1>0, <1>3, <1>4, InductionUpTo
<1> QED BY <1>2, <1>5
(* A sequence with one more element in front.                              *)
LEMMA Prefixed ==
  ASSUME NEW T, NEW a \in T, NEW s \in Seq(T)
  PROVE  LET t == <<a>> \o s
         IN  /\ t \in Seq(T) /\ Len(t) = Len(s) + 1 /\ t[1] = a
             /\ \A k \in 1..Len(s) : t[k + 1] = s[k]
             /\ Head(t) = a /\ Tail(t) = s
             /\ Range(t) = {a} \cup Range(s)
<1> DEFINE t == <<a>> \o s
           n == Len(s)
<1>1. /\ t \in Seq(T) /\ n \in Nat /\ Len(t) = n + 1 /\ t[1] = a
      /\ \A k \in 1..n : t[k + 1] = s[k]
      /\ Head(t) = a
  OBVIOUS
<1>2. Tail(t) = s
  <2>1. Tail(t) \in Seq(T) /\ Len(Tail(t)) = n
    BY <1>1
  <2>2. \A k \in 1..n : Tail(t)[k] = s[k]
    BY <1>1
  <2> QED BY <2>1, <2>2, SameSeq
<1>3. Range(t) = {t[k] : k \in 1..(n + 1)} /\ Range(s) = {s[k] : k \in 1..n}
  BY <1>1, SeqIsFunction
<1> HIDE DEF t
<1>4. \A k \in 1..(n + 1) : k = 1 \/ (k - 1 \in 1..n /\ t[k] = s[k - 1])
  BY <1>1
<1>5. Range(t) = {a} \cup Range(s)
  <2>1. 1 \in 1..(n + 1) /\ \A k \in 1..n : k + 1 \in 1..(n + 1)
    BY <1>1
  <2>2. Range(t) \subseteq {a} \cup Range(s)
    <3> SUFFICES ASSUME NEW k \in 1..(n + 1) PROVE t[k] \in {a} \cup Range(s)
      BY <1>3
    <3> QED BY <1>1, <1>3, <1>4
  <2>3. a \in Range(t)
    BY <1>1, <1>3, <2>1
  <2>4. Range(s) \subseteq Range(t)
    <3> SUFFICES ASSUME NEW k \in 1..n PROVE s[k] \in Range(t)
      BY <1>3
    <3> QED BY <1>1, <1>3, <2>1
  <2> QED BY <2>2, <2>3, <2>4
<1> QED BY <1>1, <1>2, <1>5, Zenon DEF t

-----------------------------------------------------------------------------
(* The config as it came, exclusions marked, and completed.                *)
CameFrom(c, s) == ~NewXRayConfigPanics(s.config) /\ c = NewXRayConfig(s.config, s.exclude)
Came(c) == \E s \in Starts : CameFrom(c, s)
Completed(c) == ApplyAPI(c).inbounds

(* An inbound of a completed config.                                       *)
GivenInbound(b) ==
  /\ b = ApiInbound \/ b \in InboundSet
  /\ b.tag \in Tags
  /\ Range(b.clients) \subseteq SentClients
  /\ b.protocol \notin KnownProtocols => b.clients = <<>>

Config(s) == [inbounds : Seq(InboundSet), router : SUBSET Seq(STRING),
              policy : {s.config.policy}, log : BOOLEAN, outbounds : SUBSET STRING]

LEMMA ApiIsGiven ==
  /\ GivenInbound(ApiInbound) /\ ~ApiInbound.exclude /\ ApiInbound.tag = ApiTag
  /\ ApiInbound.protocol \notin KnownProtocols /\ ApiInbound.clients = <<>>
<1>1. Range(<<>>) = {}
  BY DEF Range
<1> QED BY <1>1 DEF GivenInbound, ApiInbound, KnownProtocols, Tags, ApiTag

LEMMA WithoutNil ==
  ASSUME NEW is \in Seq(InboundSet \cup {NilInbound}), NilInbound \notin Range(is)
  PROVE  is \in Seq(InboundSet)
<1>1. /\ is \in [1..Len(is) -> InboundSet \cup {NilInbound}] /\ Len(is) \in Nat
      /\ \A k \in 1..Len(is) : is[k] \in Range(is)
  BY SeqIsFunction
<1>2. is \in [1..Len(is) -> InboundSet]
  BY <1>1
<1> QED BY <1>1, <1>2, FunctionIsSeq

LEMMA CameConfig ==
  ASSUME NEW s \in Starts, NEW c, CameFrom(c, s)
  PROVE  /\ c \in Config(s) /\ s.config \in Config(s)
         /\ c.policy = s.config.policy /\ c.outbounds = s.config.outbounds
         /\ Len(c.inbounds) = Len(s.config.inbounds)
         /\ \A k \in 1..Len(c.inbounds) : GivenInbound(c.inbounds[k])
<1> DEFINE is == s.config.inbounds
           n == Len(is)
           js == [k \in DOMAIN is |-> [is[k] EXCEPT !.exclude = is[k].tag \in s.exclude]]
<1>1. s.config \in Config(s)
  <2>1. s.config \in [inbounds : Seq(InboundSet \cup {NilInbound}),
                      router : SUBSET Seq(STRING), policy : {s.config.policy},
                      log : BOOLEAN, outbounds : SUBSET STRING]
    BY ProvisioningAssumption
  <2>2. is \in Seq(InboundSet \cup {NilInbound}) /\ NilInbound \notin Range(is)
    BY <2>1 DEF CameFrom, NewXRayConfigPanics
  <2>3. is \in Seq(InboundSet)
    <3> HIDE DEF is
    <3> QED BY <2>2, WithoutNil
  <2> QED BY <2>1, <2>3 DEF Config
<1>2. is \in Seq(InboundSet) /\ n \in Nat /\ DOMAIN is = 1..n /\ is \in [1..n -> InboundSet]
  BY <1>1 DEF Config
<1>3. c = [s.config EXCEPT !.inbounds = js]
  BY <1>1 DEF CameFrom, NewXRayConfig, Config
<1>4. ASSUME NEW k \in 1..n
      PROVE  is[k] \in Inbounds
  <2>1. is[k] \in Range(is) /\ NilInbound \notin Range(is)
    BY <1>2 DEF CameFrom, NewXRayConfigPanics, Range
  <2>2. Range(is) \in {Range(x.config.inbounds) : x \in Starts}
    OBVIOUS
  <2> HIDE DEF n, is
  <2>3. is[k] \in UNION {Range(x.config.inbounds) : x \in Starts}
    BY <2>1, <2>2
  <2>4. is[k] # NilInbound
    BY <2>1
  <2> QED BY <2>3, <2>4, Zenon DEF Inbounds
<1> HIDE DEF n
<1>5. ASSUME NEW k \in 1..n
      PROVE  js[k] \in InboundSet /\ GivenInbound(js[k])
  <2>1. is[k] \in InboundSet
    BY <1>2
  <2>2. js[k] = [is[k] EXCEPT !.exclude = is[k].tag \in s.exclude]
    BY <1>2
  <2>3. /\ js[k] \in InboundSet /\ js[k].tag = is[k].tag /\ js[k].clients = is[k].clients
        /\ js[k].protocol = is[k].protocol
    <3> DEFINE x == is[k].tag \in s.exclude
    <3>1. x \in BOOLEAN
      OBVIOUS
    <3>2. js[k] = [is[k] EXCEPT !.exclude = x]
      BY <2>2
    <3> HIDE DEF js, is, x
    <3> QED BY <2>1, <3>1, <3>2 DEF InboundSet
  <2>4. is[k].tag \in Tags /\ Range(is[k].clients) \subseteq SentClients
    BY <1>4 DEF Tags, SentClients
  <2>5. is[k].protocol \notin KnownProtocols => is[k].clients = <<>>
    BY <1>4, ProvisioningAssumption
  <2> HIDE DEF js, is
  <2> QED BY <2>3, <2>4, <2>5 DEF GivenInbound
<1>6. js \in [1..n -> InboundSet]
  <2>1. js = [k \in 1..n |-> js[k]]
    BY <1>2
  <2> HIDE DEF js
  <2> QED BY <1>5, <2>1
<1>7. js \in Seq(InboundSet) /\ Len(js) = n
  <2> HIDE DEF js, is
  <2> QED BY <1>2, <1>6, FunctionIsSeq
<1> HIDE DEF js
<1>8. /\ c \in Config(s) /\ c.policy = s.config.policy
      /\ c.outbounds = s.config.outbounds /\ c.inbounds = js
  BY <1>1, <1>3, <1>7 DEF Config
<1> QED BY <1>1, <1>5, <1>7, <1>8 DEF n
Ins == InboundSet \cup {ApiInbound}

(* The completed config, whatever its inbounds.                            *)
Filled(c) ==
  [inbounds : Seq(Ins), router : {ApplyAPI(c).router}, policy : {ApplyAPI(c).policy},
   log : {c.log}, outbounds : {c.outbounds}]

LEMMA Completion ==
  ASSUME NEW s \in Starts, NEW c, CameFrom(c, s), ~ApplyAPIPanics(c)
  PROVE  /\ \E rest \in Seq(InboundSet) :
              /\ Completed(c) = <<ApiInbound>> \o rest
              /\ Range(rest) \subseteq Range(c.inbounds)
              /\ Omit(TagsOf(rest), {ApiTag}) = Omit(TagsOf(c.inbounds), {ApiTag})
         /\ Completed(c) \in Seq(Ins)
         /\ \A k \in 1..Len(Completed(c)) :
              /\ GivenInbound(Completed(c)[k])
              /\ Completed(c)[k] = ApiInbound \/ Completed(c)[k] \in Range(c.inbounds)
         /\ ApplyAPI(c).router = {<<ApiRule>> \o FilterRules(Given(c.router, <<>>))}
         /\ ApplyAPI(c).policy = CheckPolicy(c.policy)
         /\ ApplyAPI(c).log = c.log /\ ApplyAPI(c).outbounds = c.outbounds
         /\ ApplyAPI(c) \in Filled(c)
<1>1. c \in Config(s) /\ \A k \in 1..Len(c.inbounds) : GivenInbound(c.inbounds[k])
  BY CameConfig
<1>2. c.inbounds \in Seq(InboundSet)
  BY <1>1 DEF Config
<1>3. WithoutApiInbound(c.inbounds) # {}
  BY DEF ApplyAPIPanics
<1>4. PICK rest \in Seq(InboundSet) :
        /\ WithoutApiInbound(c.inbounds) = {rest}
        /\ Range(rest) \subseteq Range(c.inbounds)
        /\ Omit(TagsOf(rest), {ApiTag}) = Omit(TagsOf(c.inbounds), {ApiTag})
  BY <1>2, <1>3, LeftAfterRemoval
<1>5. (CHOOSE r \in WithoutApiInbound(c.inbounds) : TRUE) = rest
  BY <1>4
<1>6. /\ Completed(c) = <<ApiInbound>> \o rest
      /\ ApplyAPI(c).router = {<<ApiRule>> \o FilterRules(Given(c.router, <<>>))}
      /\ ApplyAPI(c).policy = CheckPolicy(c.policy)
      /\ ApplyAPI(c).log = c.log /\ ApplyAPI(c).outbounds = c.outbounds
      /\ ApplyAPI(c) \in Filled(c)
  <2> DEFINE is == <<ApiInbound>> \o CHOOSE r \in WithoutApiInbound(c.inbounds) : TRUE
             rs == {<<ApiRule>> \o FilterRules(Given(c.router, <<>>))}
             ps == CheckPolicy(c.policy)
  <2>1. ApplyAPI(c) = [c EXCEPT !.inbounds = is, !.router = rs, !.policy = ps]
    BY DEF ApplyAPI
  <2>2. is = <<ApiInbound>> \o rest
    BY <1>5
  <2> HIDE DEF is, rs, ps
  <2>3. ApplyAPI(c) \in [inbounds : {is}, router : {rs}, policy : {ps}, log : {c.log},
                         outbounds : {c.outbounds}]
    BY <1>1, <2>1 DEF Config
  <2>4. /\ Completed(c) = is /\ ApplyAPI(c).router = rs /\ ApplyAPI(c).policy = ps
        /\ ApplyAPI(c).log = c.log /\ ApplyAPI(c).outbounds = c.outbounds
    BY <2>1, <2>3 DEF Completed
  <2>5. is \in Seq(Ins)
    BY <2>2, Prefixed DEF Ins
  <2> QED BY <2>2, <2>3, <2>4, <2>5 DEF rs, ps, Filled
<1>7. rest \in Seq(Ins) /\ ApiInbound \in Ins
  BY DEF Ins
<1> DEFINE t == <<ApiInbound>> \o rest
<1>8. /\ t \in Seq(Ins) /\ Range(t) = {ApiInbound} \cup Range(rest)
  BY <1>7, Prefixed
<1> HIDE DEF t
<1>9. \A k \in 1..Len(t) : t[k] \in Range(t)
  BY <1>8, SeqIsFunction
<1>10. ASSUME NEW k \in 1..Len(t)
       PROVE  GivenInbound(t[k]) /\ (t[k] = ApiInbound \/ t[k] \in Range(c.inbounds))
  <2>1. t[k] = ApiInbound \/ t[k] \in Range(c.inbounds)
    BY <1>4, <1>8, <1>9
  <2>2. \A i \in Range(c.inbounds) : GivenInbound(i)
    BY <1>1, <1>2, SeqIsFunction
  <2> QED BY <2>1, <2>2, ApiIsGiven
<1> QED BY <1>4, <1>6, <1>8, <1>10 DEF t

(* What a panic is due to, apart from an invalid id.                       *)
Faulty(c) ==
  \/ NilInbound \in Range(c.inbounds)
  \/ \E j, k \in DOMAIN c.inbounds :
       j # k /\ c.inbounds[j].tag = ApiTag /\ c.inbounds[k].tag = ApiTag
  \/ \E p \in c.policy : 0 \in DOMAIN p.levels /\ p.levels[0].null
  \/ \E k \in DOMAIN c.inbounds :
       ~c.inbounds[k].settings /\ c.inbounds[k].protocol \in KnownProtocols

LEMMA ApplyAPIPanicHasCause ==
  ASSUME NEW s \in Starts, NEW c, CameFrom(c, s), ApplyAPIPanics(c)
  PROVE  Faulty(c)
<1>1. c.inbounds \in Seq(InboundSet)
  BY CameConfig DEF Config
<1>2. CASE WithoutApiInbound(c.inbounds) = {}
  BY <1>1, <1>2, OneApiInbound DEF Faulty
<1>3. CASE CheckPolicyPanics(c.policy)
  <2> DEFINE old == Given(c.policy, NoPolicy)
  <2>1. Zero(old).null
    BY <1>3 DEF CheckPolicyPanics
  <2>2. 0 \in DOMAIN old.levels
    <3>1. NoLevel.null = FALSE
      BY DEF NoLevel, NullLevel
    <3> QED BY <2>1, <3>1 DEF Zero
  <2>3. c.policy # {}
    <3>1. DOMAIN NoPolicy.levels = {}
      BY DEF NoPolicy
    <3> QED BY <2>2, <3>1 DEF Given
  <2>4. old \in c.policy
    BY <2>3 DEF Given
  <2> HIDE DEF old
  <2> QED BY <2>1, <2>2, <2>4 DEF Zero, Faulty
<1> QED BY <1>2, <1>3 DEF ApplyAPIPanics

(* config.go:417-465: the completed policy counts the traffic of users of  *)
(* level 0 and of outbounds.                                               *)
LEMMA PolicyCounts ==
  ASSUME NEW s \in Starts, NEW p, p = CHOOSE x \in CheckPolicy(s.config.policy) : TRUE
  PROVE  /\ 0 \in DOMAIN p.levels /\ p.levels[0].traffic
         /\ (CHOOSE y \in p.system : TRUE).outbound
<1> DEFINE old == Given(s.config.policy, NoPolicy)
           new == [levels |-> [l \in DOMAIN old.levels \cup {0} |->
                                 IF l = 0 THEN [Zero(old) EXCEPT !.traffic = TRUE]
                                          ELSE old.levels[l]],
                   system |-> {[Given(old.system, NoSystem) EXCEPT !.outbound = TRUE]}]
<1>1. p = new
  BY DEF CheckPolicy
<1>2. Zero(old) \in LevelSet /\ Given(old.system, NoSystem) \in SystemSet
  <2>1. NoLevel \in LevelSet /\ NoSystem \in SystemSet
    BY DEF NoLevel, NullLevel, NoSystem, LevelSet, SystemSet
  <2>2. CASE s.config.policy = {}
    <3>1. old = NoPolicy
      BY <2>2 DEF Given
    <3>2. NoPolicy.system = {} /\ DOMAIN NoPolicy.levels = {}
      BY DEF NoPolicy
    <3> HIDE DEF old
    <3> QED BY <2>1, <3>1, <3>2 DEF Zero, Given
  <2>3. CASE s.config.policy # {}
    <3>1. old \in s.config.policy
      BY <2>3 DEF Given
    <3> HIDE DEF old
    <3>2. old.levels \in [DOMAIN old.levels -> LevelSet] /\ old.system \subseteq SystemSet
      BY <3>1, ProvisioningAssumption
    <3> QED BY <2>1, <3>2 DEF Zero, Given
  <2> QED BY <2>2, <2>3
<1>3. [Zero(old) EXCEPT !.traffic = TRUE].traffic
  <2> HIDE DEF old
  <2> QED BY <1>2 DEF LevelSet
<1>4. [Given(old.system, NoSystem) EXCEPT !.outbound = TRUE].outbound
  <2> HIDE DEF old
  <2> QED BY <1>2 DEF SystemSet
<1> HIDE DEF old
<1>5. /\ new.levels = [l \in DOMAIN old.levels \cup {0} |->
                         IF l = 0 THEN [Zero(old) EXCEPT !.traffic = TRUE] ELSE old.levels[l]]
      /\ new.system = {[Given(old.system, NoSystem) EXCEPT !.outbound = TRUE]}
  OBVIOUS
<1> HIDE DEF new
<1>6. 0 \in DOMAIN new.levels /\ new.levels[0] = [Zero(old) EXCEPT !.traffic = TRUE]
  BY <1>5
<1>7. (CHOOSE y \in new.system : TRUE) = [Given(old.system, NoSystem) EXCEPT !.outbound = TRUE]
  BY <1>5
<1>8. p.levels = new.levels /\ p.system = new.system
  BY <1>1
<1>9. 0 \in DOMAIN p.levels /\ p.levels[0] = [Zero(old) EXCEPT !.traffic = TRUE]
  BY <1>6, <1>8
<1>10. p.levels[0].traffic
  BY <1>3, <1>9
<1>11. (CHOOSE y \in p.system : TRUE) = [Given(old.system, NoSystem) EXCEPT !.outbound = TRUE]
  BY <1>7, <1>8
<1>12. (CHOOSE y \in p.system : TRUE).outbound
  BY <1>4, <1>11, Zenon
<1> QED BY <1>9, <1>10, <1>12, Zenon

-----------------------------------------------------------------------------
(* Who a client may be: one whom the panel's config or its lists name, at  *)
(* level 0 unless the config says otherwise.                               *)
Client(a) == a.email \in Emails /\ (a.level = 0 \/ a.email \in Unmetered)

(* What has become of inbound b of the completed config: i in the node,    *)
(* and live in the core.  Only the clients of an inbound that the node     *)
(* manages change; the core has them unless a request broke off halfway.   *)
Managed(b) == ~b.exclude /\ b.protocol \in KnownProtocols
Accounted(clients) == Range(clients) \ {NilAccount}

Kept(i, b, isBad) ==
  IF Managed(b) THEN /\ b \in InboundSet /\ i.clients \in ClientLists
                     /\ i = WithClients(b, i.clients)
                     /\ Distinct(i.clients)
                     /\ NilAccount \in Range(i.clients) => isBad
                     /\ \A a \in Accounted(i.clients) : Client(a)
                ELSE i = b

AsWanted(i, b, users) ==
  b.exclude \/ Accounted(i.clients) = UNION {ActiveAccounts(b, u) : u \in users}

InboundInv(i, b, alive, users, isBad, isBroken) ==
  /\ Kept(i, b, isBad)
  /\ b.exclude \/ ~isBroken => alive = Accounted(i.clients)
  /\ ~isBroken => AsWanted(i, b, users)

(* An inbound is the same to a user whatever its clients are.              *)
LEMMA SameButClients ==
  ASSUME NEW b \in InboundSet, NEW i, i.clients \in ClientLists, i = WithClients(b, i.clients),
         NEW u, NEW us
  PROVE  /\ i \in InboundSet /\ i.tag = b.tag /\ i.protocol = b.protocol /\ i.exclude = b.exclude
         /\ ActiveAccounts(i, u) = ActiveAccounts(b, u) /\ Listed(i, u) = Listed(b, u)
         /\ SyncUsersPanics(i, us) <=> SyncUsersPanics(b, us)
         /\ \A clients : WithClients(i, clients) = WithClients(b, clients)
<1>1. i \in InboundSet
  BY WithClientsType
<1>2. /\ i.tag = b.tag /\ i.protocol = b.protocol /\ i.settings = b.settings
      /\ i.method = b.method /\ i.network = b.network /\ i.security = b.security
      /\ i.raw = b.raw /\ i.tcp = b.tcp /\ i.exclude = b.exclude
  BY DEF WithClients, InboundSet
<1>3. \A a : CheckVless(i, a) = CheckVless(b, a)
  BY <1>2 DEF CheckVless, TakesFlow, Header
<1>4. \A a : CheckShadowsocks2022(i, a) = CheckShadowsocks2022(b, a)
  BY <1>2 DEF CheckShadowsocks2022
<1>5. Has2022(i) <=> Has2022(b)
  BY <1>2 DEF Has2022
<1>6. VlessListed(i, u) = VlessListed(b, u)
  BY <1>3 DEF VlessListed
<1>7. ShadowsocksListed(i, u) = ShadowsocksListed(b, u)
  BY <1>4, <1>5 DEF ShadowsocksListed
<1>8. Listed(i, u) = Listed(b, u)
  BY <1>2, <1>6, <1>7 DEF Listed
<1>9. ActiveAccounts(i, u) = ActiveAccounts(b, u)
  <2>1. {CheckVless(i, a) : a \in NewVlessAccounts(u)} =
         {CheckVless(b, a) : a \in NewVlessAccounts(u)}
    BY <1>3
  <2>2. {CheckShadowsocks2022(i, a) : a \in NewShadowsocksAccounts(u)} =
          {CheckShadowsocks2022(b, a) : a \in NewShadowsocksAccounts(u)}
    BY <1>4
  <2> QED BY <1>2, <1>5, <2>1, <2>2 DEF ActiveAccounts
<1>10. SyncUsersPanics(i, us) <=> SyncUsersPanics(b, us)
  BY <1>2 DEF SyncUsersPanics
<1>11. \A clients : WithClients(i, clients) = WithClients(b, clients)
  BY DEF WithClients, InboundSet
<1> QED BY <1>1, <1>2, <1>8, <1>9, <1>10, <1>11

(* What the panel sends.                                                   *)
LEMMA Sendable ==
  /\ SentUsers \subseteq UserSet
  /\ \A us \in SentLists : us \in Seq(UserSet) /\ OnePerEmail(us) /\ Range(us) \subseteq SentUsers
  /\ \A s \in Starts : s.users \in SentLists
  /\ UserLists \subseteq SentLists /\ Users \subseteq SentUsers
<1>1. \A us \in SentLists : us \in Seq(UserSet) /\ OnePerEmail(us)
  BY ProvisioningAssumption DEF OnePerEmail
<1>2. \A us \in SentLists : Range(us) \subseteq UserSet
  BY <1>1, SeqIsFunction
<1> QED BY <1>1, <1>2, ProvisioningAssumption DEF SentUsers, SentLists

LEMMA ListedIsClient ==
  ASSUME NEW i, i.protocol \in KnownProtocols, NEW u \in SentUsers
  PROVE  \A a \in Listed(i, u) \ {NilAccount} : Client(a)
<1>1. u \in UserSet
  BY Sendable
<1> QED BY <1>1, ListedAccounts DEF OwnAccount, Client, Emails

(* config.go:316-321: an inbound whose users are replaced.                 *)
LEMMA SyncedInbound ==
  ASSUME NEW b, GivenInbound(b), NEW i, i = b \/ \E d : Kept(i, b, d), ~b.exclude,
         NEW us \in SentLists, ~SyncUsersPanics(i, us), NEW isBad
  PROVE  LET new == SyncUsersIn(i, us)
         IN  InboundInv(new, b, Accounted(new.clients), Range(us),
                        isBad \/ SomeBad(Range(us)), FALSE)
<1> DEFINE new == SyncUsersIn(i, us)
<1>1. CASE b.protocol \notin KnownProtocols
  <2>1. i = b
    BY <1>1 DEF Kept, Managed
  <2>2. new = b /\ \A u : ActiveAccounts(b, u) = {}
    BY <1>1, <2>1, OtherProtocols
  <2>3. Accounted(b.clients) = {}
    <3>1. b.clients = <<>>
      BY <1>1 DEF GivenInbound
    <3> QED BY <3>1 DEF Accounted, Range
  <2> HIDE DEF new
  <2>4. Kept(new, b, isBad \/ SomeBad(Range(us)))
    BY <1>1, <2>2 DEF Kept, Managed
  <2>5. AsWanted(new, b, Range(us))
    BY <2>2, <2>3 DEF AsWanted
  <2> HIDE DEF new
  <2> QED BY <2>4, <2>5, Zenon DEF InboundInv, new
<1>2. CASE b.protocol \in KnownProtocols
  <2>1. b \in InboundSet
    BY <1>2, ApiIsGiven DEF GivenInbound
  <2>2. i.clients \in ClientLists /\ i = WithClients(b, i.clients)
    <3>1. CASE i = b
      BY <2>1, <3>1 DEF WithClients, InboundSet, ClientLists
    <3>2. CASE \E d : Kept(i, b, d)
      BY <1>2, <3>2 DEF Kept, Managed
    <3> QED BY <3>1, <3>2
  <2>3. /\ i \in InboundSet /\ i.protocol \in KnownProtocols
        /\ \A u : Listed(i, u) = Listed(b, u)
        /\ \A clients : WithClients(i, clients) = WithClients(b, clients)
    BY <1>2, <2>1, <2>2, SameButClients
  <2>4. us \in Seq(UserSet) /\ OnePerEmail(us) /\ Range(us) \subseteq SentUsers
        /\ Range(us) \subseteq UserSet
    BY Sendable
  <2>5. PICK clients \in ClientLists :
          /\ new = WithClients(i, clients)
          /\ Range(clients) = UNION {Listed(i, u) : u \in Range(us)}
          /\ Distinct(clients)
    BY <2>3, <2>4, SyncUsersClients
  <2> HIDE DEF new
  <2>6. new = WithClients(b, clients) /\ new.clients = clients
    BY <2>1, <2>3, <2>5, WithClientsType
  <2>7. Range(clients) = UNION {Listed(b, u) : u \in Range(us)}
    BY <2>3, <2>5
  <2>8. NilAccount \in Range(clients) => SomeBad(Range(us))
    <3> SUFFICES ASSUME NilAccount \in Range(clients) PROVE SomeBad(Range(us))
      OBVIOUS
    <3>1. PICK u \in Range(us) : NilAccount \in Listed(b, u)
      BY <2>7
    <3>2. \E p \in u.vmess : p.id = BadId
      BY <1>2, <2>4, <3>1, ListedAccounts
    <3> QED BY <3>2 DEF SomeBad
  <2>9. \A a \in Accounted(clients) : Client(a)
    BY <1>2, <2>4, <2>7, ListedIsClient DEF Accounted
  <2>10. Accounted(clients) = UNION {ActiveAccounts(b, u) : u \in Range(us)}
    <3>1. \A u \in Range(us) : Listed(b, u) \ {NilAccount} = ActiveAccounts(b, u)
      BY <1>2, <2>4, ListedAccounts
    <3> QED BY <2>7, <3>1 DEF Accounted
  <2>11. Kept(new, b, isBad \/ SomeBad(Range(us)))
    BY <1>2, <2>1, <2>5, <2>6, <2>8, <2>9 DEF Kept, Managed
  <2>12. AsWanted(new, b, Range(us))
    BY <2>6, <2>10 DEF AsWanted
  <2> QED BY <2>11, <2>12, Zenon DEF InboundInv, new
<1> HIDE DEF new
<1> QED BY <1>1, <1>2 DEF new

(* user.go:146-159: an inbound one of whose users is edited.               *)
LEMMA EditedInbound ==
  ASSUME NEW b, GivenInbound(b), NEW i, NEW alive, NEW users, users \subseteq SentUsers,
         NEW isBad, NEW isBroken, InboundInv(i, b, alive, users, isBad, isBroken), ~b.exclude,
         NEW u \in SentUsers, ~ScanPanics(i, u.email)
  PROVE  InboundInv(SyncUserIn(i, u), b,
                    {a \in alive : a.email # u.email} \cup ActiveAccounts(i, u),
                    {v \in users : v.email # u.email} \cup {u},
                    isBad \/ SomeBad({u}), isBroken)
<1> DEFINE new == SyncUserIn(i, u)
           aliveNow == {a \in alive : a.email # u.email} \cup ActiveAccounts(i, u)
           others == {v \in users : v.email # u.email}
<1>0. u \in UserSet /\ users \subseteq UserSet
  BY Sendable
<1>1. CASE b.protocol \notin KnownProtocols
  <2>1. i = b
    BY <1>1 DEF InboundInv, Kept, Managed
  <2>2. new = b /\ \A v : ActiveAccounts(b, v) = {}
    BY <1>1, <2>1, OtherProtocols
  <2>3. Accounted(b.clients) = {}
    <3>1. b.clients = <<>>
      BY <1>1 DEF GivenInbound
    <3> QED BY <3>1 DEF Accounted, Range
  <2>4. ~isBroken => aliveNow = {}
    BY <2>1, <2>2, <2>3 DEF InboundInv
  <2> HIDE DEF new, aliveNow, others
  <2> QED BY <1>1, <2>2, <2>3, <2>4 DEF InboundInv, Kept, Managed, AsWanted, new, aliveNow, others
<1>2. CASE b.protocol \in KnownProtocols
  <2>1. /\ b \in InboundSet /\ i.clients \in ClientLists /\ i = WithClients(b, i.clients)
        /\ Distinct(i.clients) /\ (NilAccount \in Range(i.clients) => isBad)
        /\ \A a \in Accounted(i.clients) : Client(a)
    BY <1>2 DEF InboundInv, Kept, Managed
  <2>2. /\ i \in InboundSet /\ i.protocol \in KnownProtocols
        /\ ActiveAccounts(i, u) = ActiveAccounts(b, u)
        /\ \A clients : WithClients(i, clients) = WithClients(b, clients)
    BY <1>2, <2>1, SameButClients
  <2>3. PICK clients \in ClientLists :
          /\ new = WithClients(i, clients)
          /\ Range(clients) \ {NilAccount} =
               {c \in Range(i.clients) \ {NilAccount} : c.email # u.email} \cup ActiveAccounts(i, u)
          /\ Distinct(clients)
          /\ NilAccount \in Range(clients) => NilAccount \in Range(i.clients)
    BY <1>0, <2>1, <2>2, SyncUserClients
  <2> HIDE DEF new
  <2>4. new = WithClients(b, clients) /\ new.clients = clients
    BY <2>1, <2>2, <2>3, WithClientsType
  <2>5. Accounted(clients) =
          {c \in Accounted(i.clients) : c.email # u.email} \cup ActiveAccounts(b, u)
    BY <2>2, <2>3 DEF Accounted
  <2>6. \A v \in SentUsers : \A a \in ActiveAccounts(b, v) : Client(a) /\ a.email = v.email
    <3> SUFFICES ASSUME NEW v \in SentUsers, NEW a \in ActiveAccounts(b, v)
                 PROVE  Client(a) /\ a.email = v.email
      OBVIOUS
    <3>1. v \in UserSet
      BY Sendable
    <3>2. a \in Listed(b, v) \ {NilAccount}
      BY <1>2, <3>1, ListedAccounts
    <3> QED BY <1>2, <3>1, <3>2, ListedAccounts, ListedIsClient DEF OwnAccount
  <2>7. \A a \in Accounted(clients) : Client(a)
    BY <2>1, <2>5, <2>6
  <2>8. ~isBroken => aliveNow = Accounted(clients)
    BY <2>2, <2>5 DEF InboundInv
  <2>9. ~isBroken => Accounted(clients) = UNION {ActiveAccounts(b, v) : v \in others \cup {u}}
    <3> SUFFICES ASSUME ~isBroken
                 PROVE  Accounted(clients) = UNION {ActiveAccounts(b, v) : v \in others \cup {u}}
      OBVIOUS
    <3>1. Accounted(i.clients) = UNION {ActiveAccounts(b, v) : v \in users}
      BY DEF InboundInv, AsWanted
    <3>2. {c \in Accounted(i.clients) : c.email # u.email} =
           UNION {ActiveAccounts(b, v) : v \in others}
      BY <2>6, <3>1
    <3> QED BY <2>5, <3>2
  <2> HIDE DEF aliveNow, others
  <2>10. Kept(new, b, isBad \/ SomeBad({u}))
    BY <1>2, <2>1, <2>3, <2>4, <2>7 DEF Kept, Managed
  <2>11. b.exclude \/ ~isBroken => aliveNow = Accounted(new.clients)
    BY <2>4, <2>8
  <2>12. ~isBroken => AsWanted(new, b, others \cup {u})
    BY <2>4, <2>9 DEF AsWanted
  <2> QED BY <2>10, <2>11, <2>12 DEF InboundInv, new, aliveNow, others
<1> HIDE DEF new, aliveNow, others
<1> QED BY <1>1, <1>2 DEF new, aliveNow, others
-----------------------------------------------------------------------------
(* Where a loop over the inbounds stops.                                   *)
LEMMA FirstOfPlaces ==
  ASSUME NEW inbounds, Len(inbounds) \in Nat, NEW S, S \subseteq 1..Len(inbounds)
  PROVE  /\ FirstOf(S, inbounds) \in 1..(Len(inbounds) + 1)
         /\ \A k \in S : FirstOf(S, inbounds) <= k
         /\ FirstOf(S, inbounds) <= Len(inbounds) => FirstOf(S, inbounds) \in S
<1> DEFINE n == Len(inbounds)
           all == S \cup {n + 1}
<1>0. n \in Nat /\ S \subseteq 1..n
  OBVIOUS
<1> HIDE DEF n
<1>1. all \subseteq 1..(n + 1) /\ all \subseteq Nat /\ all # {} /\ n \in Nat
  BY <1>0
<1>2. Min(all) \in all /\ \A k \in all : Min(all) <= k
  <2> HIDE DEF all
  <2> QED BY <1>1, MinIsMember
<1>3. FirstOf(S, inbounds) = Min(all)
  BY DEF FirstOf, n
<1> DEFINE m == Min(all)
<1>4. m \in all /\ \A k \in all : m <= k
  BY <1>2
<1> HIDE DEF m
<1>5. m \in 1..(n + 1) /\ (\A k \in S : m <= k) /\ (m <= n => m \in S)
  BY <1>1, <1>4
<1> QED BY <1>3, <1>5 DEF m, n

(* Config.syncUsers over all inbounds, and what a panic leaves of it.      *)
LEMMA ConfigSynced ==
  ASSUME NEW is \in Seq(Ins), NEW us
  PROVE  LET stop == SyncUsersStopsAt(is, us)
             new == ConfigSyncUsers(is, us)
             Panics(k) == ~is[k].exclude /\ SyncUsersPanics(is[k], us)
         IN  /\ DOMAIN new = 1..Len(is)
             /\ stop \in 1..(Len(is) + 1)
             /\ stop <= Len(is) => Panics(stop)
             /\ \A k \in 1..Len(is) :
                  IF ~is[k].exclude /\ k < stop
                    THEN new[k] = SyncUsersIn(is[k], us) /\ ~SyncUsersPanics(is[k], us)
                    ELSE new[k] = is[k]
<1> DEFINE n == Len(is)
           Panics(k) == ~is[k].exclude /\ SyncUsersPanics(is[k], us)
           S == {k \in DOMAIN is : Panics(k)}
           stop == SyncUsersStopsAt(is, us)
           new == ConfigSyncUsers(is, us)
<1>1. n \in Nat /\ DOMAIN is = 1..n
  OBVIOUS
<1>2. stop = FirstOf(S, is)
  BY DEF SyncUsersStopsAt
<1>3. /\ stop \in 1..(n + 1)
      /\ \A k \in S : stop <= k
      /\ stop <= n => stop \in S
  <2>1. S \subseteq 1..n
    BY <1>1
  <2> HIDE DEF S, stop
  <2> QED BY <1>1, <1>2, <2>1, FirstOfPlaces
<1>4. /\ DOMAIN new = 1..n
      /\ \A k \in 1..n : new[k] = IF ~is[k].exclude /\ k < stop THEN SyncUsersIn(is[k], us)
                                                              ELSE is[k]
  BY <1>1 DEF ConfigSyncUsers
<1>5. \A k \in 1..n : ~is[k].exclude /\ k < stop => ~SyncUsersPanics(is[k], us)
  <2>1. ASSUME NEW k \in 1..n, Panics(k)
        PROVE  ~(k < stop)
    <3>1. k \in S
      BY <1>1, <2>1
    <3> HIDE DEF S, stop
    <3> QED BY <1>1, <1>3, <3>1
  <2> HIDE DEF S, stop
  <2> QED BY <2>1
<1>6. stop <= n => Panics(stop)
  BY <1>3
<1> HIDE DEF stop, new
<1> QED BY <1>3, <1>4, <1>5, <1>6 DEF stop, new
(* What is kept of an inbound has its tag and its place.                   *)
LEMMA KeptSame ==
  ASSUME NEW b, GivenInbound(b), NEW i, i = b \/ \E d : Kept(i, b, d)
  PROVE  /\ i \in Ins /\ i.tag = b.tag /\ i.exclude = b.exclude
         /\ \A a \in Accounted(i.clients) : Client(a)
         /\ \A us : SyncUsersPanics(i, us) <=> SyncUsersPanics(b, us)
         /\ \A u : ActiveAccounts(i, u) = ActiveAccounts(b, u)
<1>1. CASE i = b
  <2>1. \A a \in Accounted(i.clients) : a \in SentClients
    BY <1>1 DEF GivenInbound, Accounted
  <2>2. \A a \in SentClients : Client(a)
    BY DEF Client, Emails, Unmetered
  <2> QED BY <1>1, <2>1, <2>2 DEF GivenInbound, Ins
<1>2. CASE i # b
  <2>1. PICK d : Kept(i, b, d)
    BY <1>2
  <2>2. Managed(b)
    BY <1>2, <2>1 DEF Kept
  <2>3. /\ b \in InboundSet /\ i.clients \in ClientLists /\ i = WithClients(b, i.clients)
        /\ \A a \in Accounted(i.clients) : Client(a)
    BY <2>1, <2>2 DEF Kept
  <2> QED BY <2>3, SameButClients DEF Ins
<1> QED BY <1>1, <1>2

(* The inbounds is of the completed config c, with the users us.           *)
Follows(is, c) ==
  /\ is \in Seq(Ins) /\ Len(is) = Len(Completed(c))
  /\ \A k \in 1..Len(is) : is[k] = Completed(c)[k] \/ \E d : Kept(is[k], Completed(c)[k], d)

LEMMA CompletedGiven ==
  ASSUME NEW c, Came(c), ~ApplyAPIPanics(c)
  PROVE  /\ Completed(c) \in Seq(Ins) /\ Len(Completed(c)) \in Nat
         /\ Follows(Completed(c), c)
         /\ \A k \in 1..Len(Completed(c)) :
              /\ GivenInbound(Completed(c)[k])
              /\ Completed(c)[k] = ApiInbound \/ Completed(c)[k] \in Range(c.inbounds)
         /\ ApplyAPI(c) \in Filled(c)
<1>1. PICK s \in Starts : CameFrom(c, s)
  BY DEF Came
<1> QED BY <1>1, Completion DEF Follows

LEMMA SyncedConfig ==
  ASSUME NEW c, Came(c), ~ApplyAPIPanics(c), NEW is, Follows(is, c),
         NEW us \in SentLists, SyncUsersStopsAt(is, us) > Len(is), NEW isBad
  PROVE  LET new == ConfigSyncUsers(is, us)
         IN  /\ new \in Seq(Ins) /\ Len(new) = Len(Completed(c))
             /\ \A k \in 1..Len(new) :
                  InboundInv(new[k], Completed(c)[k], Accounted(new[k].clients), Range(us),
                             isBad \/ SomeBad(Range(us)), FALSE)
<1> DEFINE new == ConfigSyncUsers(is, us)
           n == Len(is)
           stop == SyncUsersStopsAt(is, us)
           base == Completed(c)
<1>1. /\ is \in Seq(Ins) /\ n \in Nat /\ n = Len(base)
      /\ \A k \in 1..n : /\ is[k] = base[k] \/ \E d : Kept(is[k], base[k], d)
                         /\ GivenInbound(base[k])
  BY CompletedGiven DEF Follows
<1>2. /\ DOMAIN new = 1..n
      /\ stop \in 1..(n + 1)
      /\ \A k \in 1..n :
           IF ~is[k].exclude /\ k < stop
             THEN new[k] = SyncUsersIn(is[k], us) /\ ~SyncUsersPanics(is[k], us)
             ELSE new[k] = is[k]
  BY <1>1, ConfigSynced
<1>3. \A k \in 1..n : k < stop
  BY <1>1, <1>2
<1>4. new = [k \in 1..n |-> new[k]]
  BY <1>1 DEF ConfigSyncUsers
<1> HIDE DEF new, n, stop, base
<1>5. ASSUME NEW k \in 1..n
      PROVE  /\ new[k] \in Ins
             /\ InboundInv(new[k], base[k], Accounted(new[k].clients), Range(us),
                           isBad \/ SomeBad(Range(us)), FALSE)
  <2>1. /\ is[k] = base[k] \/ \E d : Kept(is[k], base[k], d)
        /\ GivenInbound(base[k])
    BY <1>1
  <2>2. is[k].exclude = base[k].exclude
    BY <2>1, KeptSame
  <2>3. CASE ~base[k].exclude
    <3>1. new[k] = SyncUsersIn(is[k], us) /\ ~SyncUsersPanics(is[k], us)
      BY <1>2, <1>3, <2>2, <2>3
    <3>2. InboundInv(new[k], base[k], Accounted(new[k].clients), Range(us),
                     isBad \/ SomeBad(Range(us)), FALSE)
      BY <2>1, <2>3, <3>1, SyncedInbound
    <3>3. Kept(new[k], base[k], isBad \/ SomeBad(Range(us)))
      BY <3>2 DEF InboundInv
    <3>4. new[k] \in Ins
      BY <2>1, <3>3, KeptSame
    <3> QED BY <3>2, <3>4
  <2>4. CASE base[k].exclude
    <3>1. new[k] = is[k]
      BY <1>2, <2>2, <2>4
    <3>2. is[k] = base[k]
      BY <2>1, <2>4 DEF Kept, Managed
    <3>3. base[k] \in Ins
      BY <2>1 DEF GivenInbound, Ins
    <3>4. Kept(new[k], base[k], isBad \/ SomeBad(Range(us)))
      BY <2>4, <3>1, <3>2 DEF Kept, Managed
    <3>5. AsWanted(new[k], base[k], Range(us))
      BY <2>4 DEF AsWanted
    <3> QED BY <3>1, <3>2, <3>3, <3>4, <3>5, Zenon DEF InboundInv
  <2> QED BY <2>3, <2>4
<1>6. new \in [1..n -> Ins]
  BY <1>4, <1>5
<1>7. new \in Seq(Ins) /\ Len(new) = n
  BY <1>1, <1>6, FunctionIsSeq
<1> QED BY <1>1, <1>5, <1>7 DEF new, n, base

-----------------------------------------------------------------------------
(* The inductive invariant of what the backend is given and what it makes  *)
(* of it.                                                                  *)
UpInv ==
  /\ Came(sent) /\ ~ApplyAPIPanics(sent) /\ ~TwiceTagged(Completed(sent))
  /\ config \in Filled(sent) /\ Len(config.inbounds) = Len(Completed(sent))
  /\ \A k \in 1..Len(config.inbounds) :
       InboundInv(config.inbounds[k], Completed(sent)[k], live[k], wanted, bad, broken)

DataInv ==
  /\ phase \in {"stopped", "up", "failed", "panicked"}
  /\ wanted \subseteq SentUsers /\ bad \in BOOLEAN /\ broken \in BOOLEAN
  /\ requests \in 0..MaxRequests
  /\ DOMAIN live = DOMAIN config.inbounds
  /\ \A k \in DOMAIN live : \A a \in live[k] : Client(a)
  /\ phase = "stopped" => live = <<>> /\ config = NoConfig /\ ~broken /\ requests = 0
  /\ phase = "up" => UpInv

(* What of it is left to show of a core that is launched.                  *)
LEMMA Launched ==
  ASSUME NEW c, Launch(c), Came(sent'), ~ApplyAPIPanics(sent'),
         c \in Filled(sent'), Len(c.inbounds) = Len(Completed(sent')),
         \A k \in 1..Len(c.inbounds) :
           InboundInv(c.inbounds[k], Completed(sent')[k], Accounted(c.inbounds[k].clients),
                      wanted', bad', broken')
  PROVE  /\ phase' \in {"up", "failed"}
         /\ DOMAIN live' = DOMAIN config'.inbounds
         /\ \A k \in DOMAIN live' : \A a \in live'[k] : Client(a)
         /\ phase' = "up" => UpInv'
<1> DEFINE n == Len(c.inbounds)
           base == Completed(sent')
<1>1. c.inbounds \in Seq(Ins) /\ n \in Nat /\ DOMAIN c.inbounds = 1..n
  BY DEF Filled
<1>2. config' = c
  BY DEF Launch
<1>3. /\ base \in Seq(Ins) /\ Len(base) = n /\ DOMAIN base = 1..n
      /\ \A k \in 1..n : GivenInbound(base[k])
  BY CompletedGiven
<1>4. ASSUME NEW k \in 1..n
      PROVE  /\ c.inbounds[k].tag = base[k].tag
             /\ \A a \in Accounted(c.inbounds[k].clients) : Client(a)
  <2>1. Kept(c.inbounds[k], base[k], bad')
    BY DEF InboundInv
  <2> HIDE DEF n, base
  <2> QED BY <1>3, <2>1, KeptSame
<1>5. CASE phase' = "failed" /\ live' = [k \in DOMAIN c.inbounds |-> {}]
  BY <1>1, <1>2, <1>5
<1>6. CASE MayStart(c) /\ phase' = "up" /\ live' = Loaded(c.inbounds)
  <2>1. DOMAIN live' = 1..n /\ \A k \in 1..n : live'[k] = Accounted(c.inbounds[k].clients)
    BY <1>1, <1>6 DEF Loaded, Accounted
  <2>2. ~TwiceTagged(base)
    <3>1. ~TwiceTagged(c.inbounds)
      BY <1>6 DEF MayStart
    <3> HIDE DEF n, base
    <3> QED BY <1>1, <1>3, <1>4, <3>1 DEF TwiceTagged
  <2>3. UpInv'
    BY <1>2, <2>1, <2>2 DEF UpInv
  <2> QED BY <1>1, <1>2, <1>4, <1>6, <2>1, <2>3
<1> QED BY <1>5, <1>6 DEF Launch
LEMMA SomeBadBoolean ==
  ASSUME NEW us
  PROVE  SomeBad(us) \in BOOLEAN /\ (FALSE \/ SomeBad(us)) = SomeBad(us)
BY DEF SomeBad

LEMMA DataInit == Init => DataInv
<1>1. 0 \in 0..MaxRequests
  BY ProvisioningAssumption
<1>2. DOMAIN NoConfig.inbounds = {} /\ DOMAIN <<>> = {}
  BY DEF NoConfig
<1> QED BY <1>1, <1>2 DEF Init, DataInv

LEMMA DataStart ==
  ASSUME DataInv, NEW s \in Starts, Start(s.config, s.exclude, s.users)
  PROVE  DataInv'
<1> DEFINE us == s.users
           c == NewXRayConfig(s.config, s.exclude)
           new == ConfigSyncUsers(Completed(c), us)
           synced == [ApplyAPI(c) EXCEPT !.inbounds = ConfigSyncUsers(@, us)]
<1>1. /\ phase = "stopped" /\ wanted' = Range(us) /\ bad' = SomeBad(Range(us))
      /\ UNCHANGED <<broken, requests>>
  BY DEF Start
<1>2. \/ /\ phase' = "panicked" /\ UNCHANGED <<config, live>>
      \/ /\ ~NewXRayConfigPanics(s.config) /\ sent' = c /\ ~ApplyAPIPanics(c)
         /\ ~(SyncUsersStopsAt(Completed(c), us) <= Len(Completed(c)))
         /\ Launch(synced)
  BY DEF Start, Completed
<1>3. us \in SentLists /\ wanted' \subseteq SentUsers
  BY <1>1, Sendable
<1>4. /\ bad' \in BOOLEAN /\ broken' \in BOOLEAN /\ requests' \in 0..MaxRequests
      /\ live = <<>> /\ config = NoConfig /\ ~broken' /\ broken' = FALSE
  BY <1>1, SomeBadBoolean DEF DataInv
<1> HIDE DEF new, synced, us
<1>5. CASE phase' = "panicked" /\ UNCHANGED <<config, live>>
  BY <1>3, <1>4, <1>5 DEF DataInv
<1>6. CASE /\ ~NewXRayConfigPanics(s.config) /\ sent' = c /\ ~ApplyAPIPanics(c)
           /\ ~(SyncUsersStopsAt(Completed(c), us) <= Len(Completed(c)))
           /\ Launch(synced)
  <2>1. Came(c)
    BY <1>6 DEF Came, CameFrom
  <2> HIDE DEF c
  <2>2. /\ Completed(c) \in Seq(Ins) /\ Len(Completed(c)) \in Nat /\ Follows(Completed(c), c)
        /\ ApplyAPI(c) \in Filled(c)
    BY <1>6, <2>1, CompletedGiven
  <2>3. SyncUsersStopsAt(Completed(c), us) > Len(Completed(c))
    <3>1. SyncUsersStopsAt(Completed(c), us) \in 1..(Len(Completed(c)) + 1)
      BY <2>2, ConfigSynced
    <3> QED BY <1>6, <2>2, <3>1
  <2>4. /\ new \in Seq(Ins) /\ Len(new) = Len(Completed(c))
        /\ \A k \in 1..Len(new) :
             InboundInv(new[k], Completed(c)[k], Accounted(new[k].clients), Range(us),
                        FALSE \/ SomeBad(Range(us)), FALSE)
    BY <1>3, <1>6, <2>1, <2>2, <2>3, SyncedConfig DEF new
  <2>5. synced \in Filled(c) /\ synced.inbounds = new
    <3>1. ApplyAPI(c).inbounds = Completed(c)
      BY DEF Completed
    <3>2. synced = [ApplyAPI(c) EXCEPT !.inbounds = new]
      BY <3>1 DEF synced, new
    <3> QED BY <2>2, <2>4, <3>2 DEF Filled
  <2>6. \A k \in 1..Len(synced.inbounds) :
          InboundInv(synced.inbounds[k], Completed(sent')[k], Accounted(synced.inbounds[k].clients),
                     wanted', bad', broken')
    <3>1. (FALSE \/ SomeBad(Range(us))) = bad'
      BY <1>1, SomeBadBoolean DEF us
    <3> QED BY <1>1, <1>4, <1>6, <2>4, <2>5, <3>1 DEF us
  <2>7. Came(sent') /\ ~ApplyAPIPanics(sent') /\ synced \in Filled(sent')
        /\ Len(synced.inbounds) = Len(Completed(sent'))
    BY <1>1, <1>6, <2>1, <2>4, <2>5
  <2>8. /\ phase' \in {"up", "failed"}
        /\ DOMAIN live' = DOMAIN config'.inbounds
        /\ \A k \in DOMAIN live' : \A a \in live'[k] : Client(a)
        /\ phase' = "up" => UpInv'
    BY <1>6, <2>6, <2>7, Launched
  <2> QED BY <1>3, <1>4, <2>8 DEF DataInv
<1> QED BY <1>2, <1>5, <1>6

LEMMA DataStop ==
  ASSUME DataInv, Stop
  PROVE  DataInv'
<1>1. 0 \in 0..MaxRequests
  BY ProvisioningAssumption
<1>2. DOMAIN NoConfig.inbounds = {} /\ DOMAIN <<>> = {}
  BY DEF NoConfig
<1> QED BY <1>1, <1>2 DEF Stop, DataInv

(* What is kept of a config follows it.                                    *)
LEMMA UpFollows ==
  ASSUME UpInv
  PROVE  /\ Follows(config.inbounds, sent) /\ config.inbounds \in Seq(Ins)
         /\ Len(config.inbounds) \in Nat /\ DOMAIN config.inbounds = 1..Len(config.inbounds)
         /\ \A k \in 1..Len(config.inbounds) :
              /\ GivenInbound(Completed(sent)[k])
              /\ Kept(config.inbounds[k], Completed(sent)[k], bad)
<1>1. config.inbounds \in Seq(Ins)
  BY DEF UpInv, Filled
<1>2. \A k \in 1..Len(config.inbounds) :
        /\ GivenInbound(Completed(sent)[k])
        /\ Kept(config.inbounds[k], Completed(sent)[k], bad)
  BY CompletedGiven DEF UpInv, InboundInv
<1>3. Follows(config.inbounds, sent)
  BY <1>1, <1>2 DEF Follows, UpInv
<1> QED BY <1>1, <1>2, <1>3

LEMMA DataHealth ==
  ASSUME DataInv, CheckXrayHealth
  PROVE  DataInv'
<1>1. /\ phase = "up" /\ Launch(config) /\ UNCHANGED <<sent, wanted, bad, broken, requests>>
      /\ UpInv
  BY DEF CheckXrayHealth, DataInv
<1>2. \A k \in 1..Len(config.inbounds) :
        InboundInv(config.inbounds[k], Completed(sent')[k], Accounted(config.inbounds[k].clients),
                   wanted', bad', broken')
  BY <1>1 DEF UpInv, InboundInv
<1>3. /\ Came(sent') /\ ~ApplyAPIPanics(sent') /\ config \in Filled(sent')
      /\ Len(config.inbounds) = Len(Completed(sent'))
  BY <1>1 DEF UpInv
<1>4. /\ phase' \in {"up", "failed"}
      /\ DOMAIN live' = DOMAIN config'.inbounds
      /\ \A k \in DOMAIN live' : \A a \in live'[k] : Client(a)
      /\ phase' = "up" => UpInv'
  BY <1>1, <1>2, <1>3, Launched
<1>5. /\ wanted' \subseteq SentUsers /\ bad' \in BOOLEAN /\ broken' \in BOOLEAN
      /\ requests' \in 0..MaxRequests
  BY <1>1 DEF DataInv
<1> QED BY <1>4, <1>5 DEF DataInv

(* What keeps an inbound as it came keeps it so when more ids are bad.     *)
LEMMA KeptMonotone ==
  ASSUME NEW i, NEW b, NEW isBad, Kept(i, b, isBad), NEW us
  PROVE  Kept(i, b, isBad \/ SomeBad(us))
BY DEF Kept

AllKept(is, c, isBad) == \A k \in 1..Len(is) : Kept(is[k], Completed(c)[k], isBad)

(* The same inbounds when a panic stops the loop somewhere.                *)
LEMMA PartlySynced ==
  ASSUME NEW c, Came(c), ~ApplyAPIPanics(c), NEW isBad, NEW is, Follows(is, c),
         AllKept(is, c, isBad), NEW us \in SentLists
  PROVE  LET new == ConfigSyncUsers(is, us)
         IN  /\ new \in Seq(Ins) /\ Len(new) = Len(Completed(c))
             /\ AllKept(new, c, isBad \/ SomeBad(Range(us)))
             /\ \A k \in 1..Len(new) : Completed(c)[k].exclude => new[k] = is[k]
<1> DEFINE new == ConfigSyncUsers(is, us)
           n == Len(is)
           base == Completed(c)
<1>1. /\ is \in Seq(Ins) /\ n \in Nat /\ n = Len(base)
      /\ \A k \in 1..n : GivenInbound(base[k]) /\ Kept(is[k], base[k], isBad)
  BY CompletedGiven DEF Follows, AllKept
<1>2. /\ DOMAIN new = 1..n
      /\ \A k \in 1..n : \/ /\ ~is[k].exclude
                            /\ new[k] = SyncUsersIn(is[k], us) /\ ~SyncUsersPanics(is[k], us)
                         \/ new[k] = is[k]
  BY <1>1, ConfigSynced
<1>3. new = [k \in 1..n |-> new[k]]
  BY <1>1 DEF ConfigSyncUsers
<1> HIDE DEF new, n, base
<1>4. ASSUME NEW k \in 1..n
      PROVE  /\ new[k] \in Ins
             /\ Kept(new[k], base[k], isBad \/ SomeBad(Range(us)))
             /\ base[k].exclude => new[k] = is[k]
  <2>1. GivenInbound(base[k]) /\ Kept(is[k], base[k], isBad)
    BY <1>1
  <2>2. is[k].exclude = base[k].exclude
    BY <2>1, KeptSame
  <2>3. CASE new[k] = is[k]
    <3>1. Kept(new[k], base[k], isBad \/ SomeBad(Range(us)))
      BY <2>1, <2>3, KeptMonotone
    <3> QED BY <2>1, <2>3, <3>1, KeptSame
  <2>4. CASE /\ ~is[k].exclude
             /\ new[k] = SyncUsersIn(is[k], us) /\ ~SyncUsersPanics(is[k], us)
    <3>1. InboundInv(new[k], base[k], Accounted(new[k].clients), Range(us),
                     isBad \/ SomeBad(Range(us)), FALSE)
      BY <2>1, <2>2, <2>4, SyncedInbound
    <3>2. Kept(new[k], base[k], isBad \/ SomeBad(Range(us)))
      BY <3>1 DEF InboundInv
    <3> QED BY <2>1, <2>2, <2>4, <3>2, KeptSame
  <2> QED BY <1>2, <2>3, <2>4
<1>5. new \in [1..n -> Ins]
  BY <1>3, <1>4
<1>6. new \in Seq(Ins) /\ Len(new) = n
  BY <1>1, <1>5, FunctionIsSeq
<1> QED BY <1>1, <1>4, <1>6 DEF AllKept, new, n, base

LEMMA DataSyncUsers ==
  ASSUME DataInv, NEW us \in UserLists, SyncUsers(us)
  PROVE  DataInv'
<1> DEFINE is == config.inbounds
           new == ConfigSyncUsers(is, us)
           next == [config EXCEPT !.inbounds = new]
<1>1. /\ phase = "up" /\ requests < MaxRequests /\ requests' = requests + 1
      /\ bad' = (bad \/ SomeBad(Range(us))) /\ wanted' = Range(us) /\ sent' = sent
  BY DEF SyncUsers, Request
<1>2. \/ /\ Panicked /\ config' = next /\ UNCHANGED live
      \/ /\ ~(SyncUsersStopsAt(is, us) <= Len(new))
         /\ Launch(next) /\ broken' = FALSE
  BY DEF SyncUsers
<1>3. us \in SentLists /\ wanted' \subseteq SentUsers
  BY <1>1, Sendable
<1>4. requests' \in 0..MaxRequests /\ bad' \in BOOLEAN /\ UpInv
  <2>1. MaxRequests \in Nat /\ requests \in 0..MaxRequests
    BY ProvisioningAssumption DEF DataInv
  <2>2. bad' \in BOOLEAN
    BY <1>1, SomeBadBoolean DEF DataInv
  <2> QED BY <1>1, <2>1, <2>2 DEF DataInv
<1>5. /\ Came(sent) /\ ~ApplyAPIPanics(sent) /\ Follows(is, sent)
      /\ is \in Seq(Ins) /\ Len(is) \in Nat /\ DOMAIN is = 1..Len(is)
      /\ Len(is) = Len(Completed(sent))
      /\ AllKept(is, sent, bad)
  BY <1>4, UpFollows DEF UpInv, AllKept
<1> HIDE DEF is, new
<1>6. /\ new \in Seq(Ins) /\ Len(new) = Len(Completed(sent))
      /\ AllKept(new, sent, bad')
      /\ \A k \in 1..Len(new) : Completed(sent)[k].exclude => new[k] = is[k]
  <2>1. /\ new \in Seq(Ins) /\ Len(new) = Len(Completed(sent))
        /\ AllKept(new, sent, bad \/ SomeBad(Range(us)))
        /\ \A k \in 1..Len(new) : Completed(sent)[k].exclude => new[k] = is[k]
    BY <1>3, <1>5, PartlySynced DEF new
  <2> QED BY <1>1, <2>1, Zenon
<1>7. next \in Filled(sent) /\ next.inbounds = new
  BY <1>4, <1>6 DEF UpInv, Filled
<1> HIDE DEF next
<1>8. CASE Panicked /\ config' = next /\ UNCHANGED live
  <2>1. phase' \in {"up", "panicked"} /\ broken' = TRUE
    BY <1>8 DEF Panicked
  <2>2. DOMAIN new = 1..Len(is)
    BY <1>5, <1>6
  <2>3. DOMAIN live = DOMAIN is /\ \A k \in DOMAIN live : \A a \in live[k] : Client(a)
    BY DEF DataInv, is
  <2>4. ASSUME NEW k \in 1..Len(new)
        PROVE  InboundInv(config'.inbounds[k], Completed(sent')[k], live'[k],
                          wanted', bad', broken')
    <3>1. InboundInv(is[k], Completed(sent)[k], live[k], wanted, bad, broken)
      BY <1>4, <1>5, <1>6 DEF UpInv, is
    <3>2. /\ config'.inbounds[k] = new[k] /\ sent' = sent /\ live' = live /\ broken' = TRUE
          /\ Kept(new[k], Completed(sent)[k], bad')
          /\ Completed(sent)[k].exclude => new[k] = is[k]
      BY <1>1, <1>6, <1>7, <1>8, <2>1 DEF AllKept
    <3> QED BY <3>1, <3>2 DEF InboundInv
  <2>5. UpInv'
    BY <1>1, <1>4, <1>5, <1>6, <1>7, <1>8, <2>4 DEF UpInv
  <2> QED BY <1>3, <1>4, <1>5, <1>7, <1>8, <2>1, <2>2, <2>3, <2>5 DEF DataInv
<1>9. CASE /\ ~(SyncUsersStopsAt(is, us) <= Len(new))
           /\ Launch(next) /\ broken' = FALSE
  <2>1. SyncUsersStopsAt(is, us) > Len(is)
    <3>1. SyncUsersStopsAt(is, us) \in 1..(Len(is) + 1)
      BY <1>5, ConfigSynced
    <3> QED BY <1>5, <1>6, <1>9, <3>1
  <2>2. \A k \in 1..Len(new) :
          InboundInv(new[k], Completed(sent)[k], Accounted(new[k].clients), Range(us),
                     bad \/ SomeBad(Range(us)), FALSE)
    BY <1>3, <1>5, <2>1, SyncedConfig DEF new
  <2>3. \A k \in 1..Len(next.inbounds) :
          InboundInv(next.inbounds[k], Completed(sent')[k], Accounted(next.inbounds[k].clients),
                     wanted', bad', broken')
    BY <1>1, <1>7, <1>9, <2>2
  <2>4. Came(sent') /\ ~ApplyAPIPanics(sent') /\ next \in Filled(sent')
        /\ Len(next.inbounds) = Len(Completed(sent'))
    BY <1>1, <1>5, <1>6, <1>7
  <2>5. /\ phase' \in {"up", "failed"}
        /\ DOMAIN live' = DOMAIN config'.inbounds
        /\ \A k \in DOMAIN live' : \A a \in live'[k] : Client(a)
        /\ phase' = "up" => UpInv'
    BY <1>9, <2>3, <2>4, Launched
  <2> QED BY <1>3, <1>4, <1>9, <2>5 DEF DataInv
<1> QED BY <1>2, <1>8, <1>9 DEF is, new, next

LEMMA DataSyncUser ==
  ASSUME DataInv, NEW u \in Users, SyncUser(u)
  PROVE  DataInv'
<1> DEFINE is == config.inbounds
           n == Len(is)
           base == Completed(sent)
           Scans(k) == ~is[k].exclude /\ ScanPanics(is[k], u.email)
           S == {k \in DOMAIN live : Scans(k)}
           stop == FirstOf(S, is)
           new == [k \in DOMAIN is |-> IF ~is[k].exclude /\ k < stop THEN SyncUserIn(is[k], u)
                                                                   ELSE is[k]]
           removed(k) == {a \in live[k] : a.email # u.email}
<1>1. /\ phase = "up" /\ requests < MaxRequests /\ requests' = requests + 1
      /\ bad' = (bad \/ SomeBad({u})) /\ wanted' = {v \in wanted : v.email # u.email} \cup {u}
      /\ sent' = sent
  BY DEF SyncUser, Request
<1>2. /\ config' = [config EXCEPT !.inbounds = new]
      /\ live' = [k \in DOMAIN live |->
                    IF is[k].exclude \/ k > stop THEN live[k]
                    ELSE removed(k) \cup IF k < stop THEN ActiveAccounts(is[k], u) ELSE {}]
      /\ IF stop > n THEN UNCHANGED <<phase, broken>> ELSE Panicked
  BY DEF SyncUser
<1>3. u \in SentUsers /\ wanted' \subseteq SentUsers /\ wanted \subseteq SentUsers
  BY <1>1, Sendable DEF DataInv
<1>4. requests' \in 0..MaxRequests /\ bad' \in BOOLEAN /\ UpInv
  <2>1. MaxRequests \in Nat /\ requests \in 0..MaxRequests
    BY ProvisioningAssumption DEF DataInv
  <2>2. bad' \in BOOLEAN
    BY <1>1, SomeBadBoolean DEF DataInv
  <2> QED BY <1>1, <2>1, <2>2 DEF DataInv
<1>5. /\ is \in Seq(Ins) /\ n \in Nat /\ DOMAIN is = 1..n /\ n = Len(base)
      /\ \A k \in 1..n : GivenInbound(base[k]) /\ Kept(is[k], base[k], bad)
      /\ DOMAIN live = 1..n /\ \A k \in 1..n : \A a \in live[k] : Client(a)
      /\ \A k \in 1..n : InboundInv(is[k], base[k], live[k], wanted, bad, broken)
  BY <1>4, UpFollows DEF UpInv, DataInv
<1>6. /\ stop \in 1..(n + 1)
      /\ \A k \in S : stop <= k
  <2>1. S \subseteq 1..n
    BY <1>5
  <2> HIDE DEF S
  <2> QED BY <1>5, <2>1, FirstOfPlaces
<1>7. \A k \in 1..n : ~is[k].exclude /\ k < stop => ~ScanPanics(is[k], u.email)
  <2>1. ASSUME NEW k \in 1..n, Scans(k)
        PROVE  ~(k < stop)
    <3>1. k \in S
      BY <1>5, <2>1
    <3> HIDE DEF S, stop
    <3> QED BY <1>5, <1>6, <3>1
  <2> HIDE DEF S, stop
  <2> QED BY <2>1
<1> HIDE DEF S, stop, is, n, base
<1>8. /\ new = [k \in 1..n |-> new[k]]
      /\ \A k \in 1..n : new[k] = IF ~is[k].exclude /\ k < stop THEN SyncUserIn(is[k], u) ELSE is[k]
  BY <1>5
<1>9. /\ DOMAIN live' = 1..n
      /\ \A k \in 1..n :
           live'[k] = IF is[k].exclude \/ k > stop THEN live[k]
                      ELSE removed(k) \cup IF k < stop THEN ActiveAccounts(is[k], u) ELSE {}
  BY <1>2, <1>5
<1> HIDE DEF new
<1>10. /\ phase' \in {"up", "panicked"} /\ broken' \in BOOLEAN
       /\ stop <= n => broken' = TRUE
       /\ stop > n => broken' = broken
  <2>1. CASE stop > n
    BY <1>1, <1>2, <1>5, <1>6, <2>1 DEF DataInv
  <2>2. CASE ~(stop > n)
    BY <1>2, <1>5, <1>6, <2>2 DEF Panicked
  <2> QED BY <2>1, <2>2
<1>11. ASSUME NEW k \in 1..n
       PROVE  /\ new[k] \in Ins
              /\ InboundInv(new[k], base[k], live'[k], wanted', bad', broken')
              /\ \A a \in live'[k] : Client(a)
  <2>1. /\ GivenInbound(base[k]) /\ Kept(is[k], base[k], bad)
        /\ InboundInv(is[k], base[k], live[k], wanted, bad, broken)
        /\ \A a \in live[k] : Client(a)
    BY <1>5
  <2>2. is[k].exclude = base[k].exclude /\ is[k] \in Ins
        /\ ActiveAccounts(is[k], u) = ActiveAccounts(base[k], u)
    BY <2>1, KeptSame
  <2>3. CASE base[k].exclude
    <3>1. new[k] = is[k] /\ live'[k] = live[k]
      BY <1>8, <1>9, <2>2, <2>3
    <3>2. Kept(new[k], base[k], bad')
      <4>1. Kept(new[k], base[k], bad \/ SomeBad({u}))
        BY <2>1, <3>1, KeptMonotone
      <4> QED BY <1>1, <4>1, Zenon
    <3>3. AsWanted(new[k], base[k], wanted')
      BY <2>3 DEF AsWanted
    <3>4. live[k] = Accounted(is[k].clients)
      BY <2>1, <2>3 DEF InboundInv
    <3> QED BY <2>1, <2>2, <3>1, <3>2, <3>3, <3>4 DEF InboundInv
  <2>4. CASE ~base[k].exclude /\ k < stop
    <3>1. /\ new[k] = SyncUserIn(is[k], u) /\ ~ScanPanics(is[k], u.email)
          /\ live'[k] = removed(k) \cup ActiveAccounts(is[k], u)
      BY <1>5, <1>6, <1>7, <1>8, <1>9, <2>2, <2>4
    <3>2. InboundInv(new[k], base[k], live'[k], wanted', bad', broken)
      <4>1. InboundInv(SyncUserIn(is[k], u), base[k],
                       {a \in live[k] : a.email # u.email} \cup ActiveAccounts(is[k], u),
                       {v \in wanted : v.email # u.email} \cup {u},
                       bad \/ SomeBad({u}), broken)
        BY <1>3, <2>1, <2>4, <3>1, EditedInbound
      <4> QED BY <1>1, <3>1, <4>1, Zenon
    <3>3. InboundInv(new[k], base[k], live'[k], wanted', bad', broken')
      BY <1>5, <1>6, <1>10, <2>4, <3>2 DEF InboundInv
    <3>4. Kept(new[k], base[k], bad')
      BY <3>2 DEF InboundInv
    <3>5. \A a \in ActiveAccounts(is[k], u) : Client(a)
      <4>1. CASE base[k].protocol \in KnownProtocols
        <5>1. u \in UserSet
          BY <1>3, Sendable
        <5>2. ActiveAccounts(base[k], u) = Listed(base[k], u) \ {NilAccount}
          BY <4>1, <5>1, ListedAccounts
        <5> QED BY <1>3, <2>2, <4>1, <5>2, ListedIsClient
      <4>2. CASE base[k].protocol \notin KnownProtocols
        BY <2>2, <4>2, OtherProtocols
      <4> QED BY <4>1, <4>2
    <3>6. \A a \in live'[k] : Client(a)
      BY <2>1, <3>1, <3>5
    <3> QED BY <2>1, <3>3, <3>4, <3>6, KeptSame
  <2>5. CASE ~base[k].exclude /\ ~(k < stop)
    <3>1. new[k] = is[k] /\ live'[k] \subseteq live[k] /\ broken' = TRUE
      <4>1. new[k] = is[k] /\ live'[k] \subseteq live[k]
        BY <1>5, <1>6, <1>8, <1>9, <2>2, <2>5
      <4>2. stop <= n
        BY <1>5, <1>6, <2>5
      <4> QED BY <1>10, <4>1, <4>2
    <3>2. Kept(new[k], base[k], bad')
      <4>1. Kept(new[k], base[k], bad \/ SomeBad({u}))
        BY <2>1, <3>1, KeptMonotone
      <4> QED BY <1>1, <4>1, Zenon
    <3> QED BY <2>1, <2>2, <2>5, <3>1, <3>2 DEF InboundInv
  <2> QED BY <2>3, <2>4, <2>5
<1>12. new \in Seq(Ins) /\ Len(new) = n /\ DOMAIN new = 1..n
  <2>1. new \in [1..n -> Ins]
    BY <1>8, <1>11
  <2> QED BY <1>5, <2>1, FunctionIsSeq
<1>13. config' \in Filled(sent) /\ config'.inbounds = new
  BY <1>2, <1>4, <1>12 DEF UpInv, Filled
<1>14. UpInv'
  BY <1>1, <1>4, <1>5, <1>11, <1>12, <1>13 DEF UpInv, base
<1> QED BY <1>3, <1>4, <1>9, <1>10, <1>11, <1>12, <1>13, <1>14 DEF DataInv
(* The inductive invariant holds: one case for every request.              *)
LEMMA DataStep ==
  ASSUME DataInv, [Next]_vars
  PROVE  DataInv'
<1>1. CASE \E s \in Starts : Start(s.config, s.exclude, s.users)
  BY <1>1, DataStart
<1>2. CASE Stop
  BY <1>2, DataStop
<1>3. CASE \E u \in Users : SyncUser(u)
  BY <1>3, DataSyncUser
<1>4. CASE \E us \in UserLists : SyncUsers(us)
  BY <1>4, DataSyncUsers
<1>5. CASE CheckXrayHealth
  BY <1>5, DataHealth
<1>6. CASE UNCHANGED <<phase, data>>
  BY <1>6 DEF DataInv, UpInv, data
<1>7. CASE \E k \in DOMAIN live : \E client \in live[k], out \in config.outbounds :
             Traffic(k, client, out)
  BY <1>6, <1>7 DEF Traffic
<1>8. CASE \E class \in Classes, reset, arrives \in BOOLEAN :
             \E owner \in {{}, {""}} \cup {{n[2]} : n \in DOMAIN counters} :
               Ask(class, owner, reset, arrives)
  BY <1>6, <1>8 DEF Ask
<1>9. CASE UNCHANGED vars
  BY <1>6, <1>9 DEF vars
<1> QED BY <1>1, <1>2, <1>3, <1>4, <1>5, <1>7, <1>8, <1>9 DEF Next

LEMMA DataAlways == Spec => []DataInv
BY DataInit, DataStep, PTL DEF Spec

-----------------------------------------------------------------------------
(* config.go:350-415: the API has one way in, first among the inbounds,    *)
(* and one rule, first among the rules, whatever the panel's config had.   *)
LEMMA CompletedWhenUp ==
  ASSUME DataInv
  PROVE  CompletedConfig
<1> SUFFICES ASSUME phase = "up" PROVE CompletedConfig
  BY DEF CompletedConfig
<1>1. UpInv
  BY DEF DataInv
<1>2. PICK s \in Starts : CameFrom(sent, s)
  BY <1>1 DEF UpInv, Came
<1> DEFINE is == config.inbounds
           base == Completed(sent)
           n == Len(is)
<1>3. /\ is \in Seq(Ins) /\ n \in Nat /\ DOMAIN is = 1..n /\ Len(base) = n
      /\ \A k \in 1..n : GivenInbound(base[k]) /\ Kept(is[k], base[k], bad)
  BY <1>1, UpFollows DEF UpInv
<1>4. sent \in Config(s) /\ sent.inbounds \in Seq(InboundSet) /\ ~ApplyAPIPanics(sent)
  BY <1>1, <1>2, CameConfig DEF UpInv, Config
<1>5. PICK rest \in Seq(InboundSet) :
        /\ base = <<ApiInbound>> \o rest
        /\ Omit(TagsOf(rest), {ApiTag}) = Omit(TagsOf(sent.inbounds), {ApiTag})
  BY <1>2, <1>4, Completion
<1> DEFINE m == Len(rest)
<1>6. /\ m \in Nat /\ DOMAIN rest = 1..m /\ n = m + 1
      /\ base[1] = ApiInbound /\ \A k \in 1..m : base[k + 1] = rest[k]
  <2>1. rest \in Seq(Ins) /\ ApiInbound \in Ins /\ m \in Nat /\ DOMAIN rest = 1..m
    BY DEF Ins
  <2>2. /\ Len(<<ApiInbound>> \o rest) = m + 1 /\ (<<ApiInbound>> \o rest)[1] = ApiInbound
        /\ \A k \in 1..m : (<<ApiInbound>> \o rest)[k + 1] = rest[k]
    BY <2>1, Prefixed
  <2> HIDE DEF m, base, n
  <2> QED BY <1>3, <1>5, <2>1, <2>2
<1>7. ~TwiceTagged(base)
  BY <1>1 DEF UpInv
<1>8. base \in Seq(Ins) /\ DOMAIN base = 1..n
  <2>1. base \in Seq(Ins)
    BY <1>2, <1>4, Completion
  <2> QED BY <1>3, <2>1
<1> HIDE DEF is, base, n, m
<1>9. Head(is) = ApiInbound
  <2>1. 1 \in 1..n
    BY <1>6
  <2>2. is[1] = ApiInbound
    BY <1>3, <1>6, <2>1, ApiIsGiven DEF Kept, Managed
  <2> QED BY <1>3, <1>6, <2>2 DEF n
<1>10. TagsOf(Tail(is)) = Omit(TagsOf(sent.inbounds), {ApiTag})
  <2>1. /\ DOMAIN Tail(is) = 1..m
        /\ \A k \in 1..m : Tail(is)[k] = is[k + 1]
    BY <1>3, <1>6 DEF n
  <2>2. \A k \in 1..m : is[k + 1].tag = rest[k].tag
    BY <1>3, <1>6, KeptSame
  <2>3. TagsOf(Tail(is)) = TagsOf(rest)
    BY <1>6, <2>1, <2>2 DEF TagsOf
  <2>4. \A k \in 1..m : rest[k].tag # ApiTag
    <3> SUFFICES ASSUME NEW k \in 1..m, rest[k].tag = ApiTag PROVE FALSE
      OBVIOUS
    <3>1. 1 \in 1..n /\ k + 1 \in 1..n /\ 1 # k + 1
      BY <1>6
    <3>2. base[1].tag = base[k + 1].tag
      BY <1>6, ApiIsGiven
    <3> QED BY <1>7, <1>8, <3>1, <3>2 DEF TwiceTagged
  <2> DEFINE G == {i.tag : i \in InboundSet}
  <2>5. TagsOf(rest) \in [1..m -> G] /\ \A k \in 1..m : TagsOf(rest)[k] = rest[k].tag
    BY <1>6 DEF TagsOf
  <2> HIDE DEF G
  <2>6. TagsOf(rest) \in Seq(G) /\ Len(TagsOf(rest)) = m
    BY <1>6, <2>5, FunctionIsSeq
  <2>7. Range(TagsOf(rest)) \cap {ApiTag} = {}
    BY <2>4, <2>5, <2>6, SeqIsFunction
  <2>8. Omit(TagsOf(rest), {ApiTag}) = TagsOf(rest)
    BY <2>6, <2>7, OmitNothing
  <2> QED BY <1>5, <2>3, <2>8
<1> DEFINE g == Given(sent.router, <<>>)
           rules == CHOOSE r \in config.router : TRUE
<1>11. g \in Seq(STRING)
  <2>1. sent.router \subseteq Seq(STRING)
    BY <1>4 DEF Config
  <2>2. <<>> \in Seq(STRING)
    OBVIOUS
  <2>3. CASE sent.router = {}
    BY <2>2, <2>3 DEF Given
  <2>4. CASE sent.router # {}
    <3>1. g \in sent.router
      BY <2>4 DEF Given
    <3> HIDE DEF g
    <3> QED BY <2>1, <3>1
  <2> QED BY <2>3, <2>4
<1>12. OtherRules(sent) = Omit(g, {ApiRule, StaleRule})
  BY DEF OtherRules
<1>13. rules = <<ApiRule>> \o FilterRules(g)
  <2>1. config.router = {<<ApiRule>> \o FilterRules(g)}
    BY <1>1, <1>2, <1>4, Completion DEF UpInv, Filled
  <2> QED BY <2>1
<1> HIDE DEF g, rules
<1>14. BadRule \in Range(OtherRules(sent)) <=> BadRule \in Range(g)
  <2>1. Range(OtherRules(sent)) = Range(g) \ {ApiRule, StaleRule}
    BY <1>11, <1>12, OmitRange
  <2> QED BY <2>1 DEF BadRule, ApiRule, StaleRule
<1>15. FilterRules(g) = IF BadRule \in Range(OtherRules(sent)) THEN <<>> ELSE OtherRules(sent)
  BY <1>12, <1>14 DEF FilterRules
<1>16. Head(rules) = ApiRule /\ Tail(rules) = FilterRules(g)
  <2>1. OtherRules(sent) \in Seq(STRING)
    BY <1>11, <1>12, OmitPlaces
  <2>2. FilterRules(g) \in Seq(STRING \cup {ApiRule})
    BY <1>15, <2>1
  <2> QED BY <1>13, <2>2, Prefixed
<1> QED BY <1>9, <1>10, <1>15, <1>16 DEF CompletedConfig, is, rules

THEOREM ConfigCompleted == Spec => []CompletedConfig
BY DataAlways, CompletedWhenUp, PTL

(* config.go:316-321, user.go:153-156: the node leaves the clients of an   *)
(* excluded inbound alone, in its config and in the core.                  *)
LEMMA ExcludedWhenUp ==
  ASSUME DataInv
  PROVE  ExcludedUntouched
<1> SUFFICES ASSUME phase = "up", NEW k \in DOMAIN config.inbounds, config.inbounds[k].exclude
             PROVE  \E j \in DOMAIN sent.inbounds :
                      /\ config.inbounds[k] = sent.inbounds[j]
                      /\ live[k] = Range(sent.inbounds[j].clients) \ {NilAccount}
  BY DEF ExcludedUntouched
<1> DEFINE i == config.inbounds[k]
           b == Completed(sent)[k]
<1>1. UpInv
  BY DEF DataInv
<1>2. k \in 1..Len(config.inbounds) /\ Len(config.inbounds) = Len(Completed(sent))
  BY <1>1, UpFollows DEF UpInv
<1>3. GivenInbound(b) /\ InboundInv(i, b, live[k], wanted, bad, broken)
  BY <1>1, <1>2, UpFollows DEF UpInv
<1>4. b = ApiInbound \/ b \in Range(sent.inbounds)
  BY <1>1, <1>2, CompletedGiven DEF UpInv
<1> HIDE DEF b
<1>5. b.exclude
  BY <1>3, KeptSame DEF InboundInv
<1>6. i = b /\ live[k] = Accounted(i.clients)
  BY <1>3, <1>5 DEF InboundInv, Kept, Managed
<1>7. PICK j \in DOMAIN sent.inbounds : b = sent.inbounds[j]
  BY <1>4, <1>5, ApiIsGiven DEF Range
<1> QED BY <1>6, <1>7 DEF Accounted

THEOREM ExcludedStay == Spec => []ExcludedUntouched
BY DataAlways, ExcludedWhenUp, PTL

(* user.go:88-161, config.go:64-144, 316-331: the two ways to a client     *)
(* list agree, and a list names nobody twice.                              *)
LEMMA ClientsWhenUp ==
  ASSUME DataInv
  PROVE  ClientsAsWanted /\ ServedAsListed
<1> SUFFICES ASSUME phase = "up", ~broken
             PROVE  ClientsAsWanted /\ ServedAsListed
  BY DEF ClientsAsWanted, ServedAsListed
<1>1. UpInv /\ DOMAIN live = DOMAIN config.inbounds
  BY DEF DataInv
<1>2. ASSUME NEW k \in DOMAIN config.inbounds
      PROVE  /\ live[k] = Clients(k)
             /\ ~config.inbounds[k].exclude =>
                  /\ Clients(k) = UNION {ActiveAccounts(config.inbounds[k], u) : u \in wanted}
                  /\ LET clients == config.inbounds[k].clients
                     IN  \A m, n \in DOMAIN clients :
                           clients[m] = clients[n] /\ clients[m] # NilAccount => m = n
  <2> DEFINE i == config.inbounds[k]
             b == Completed(sent)[k]
  <2>1. k \in 1..Len(config.inbounds)
    BY <1>1, UpFollows
  <2>2. GivenInbound(b) /\ InboundInv(i, b, live[k], wanted, bad, broken)
    BY <1>1, <2>1, UpFollows DEF UpInv
  <2>3. Clients(k) = Accounted(i.clients)
    BY DEF Clients, Accounted
  <2> HIDE DEF i, b
  <2>4. Kept(i, b, bad) /\ live[k] = Accounted(i.clients) /\ AsWanted(i, b, wanted)
    BY <2>2 DEF InboundInv
  <2>5. i.exclude = b.exclude /\ \A u : ActiveAccounts(i, u) = ActiveAccounts(b, u)
    BY <2>2, <2>4, KeptSame
  <2>6. ASSUME ~i.exclude
        PROVE  /\ Clients(k) = UNION {ActiveAccounts(i, u) : u \in wanted}
               /\ \A m, n \in DOMAIN i.clients :
                    i.clients[m] = i.clients[n] /\ i.clients[m] # NilAccount => m = n
    <3>1. Clients(k) = UNION {ActiveAccounts(i, u) : u \in wanted}
      BY <2>3, <2>4, <2>5, <2>6 DEF AsWanted
    <3>2. CASE b.protocol \in KnownProtocols
      <4>1. Distinct(i.clients)
        BY <2>4, <2>5, <2>6, <3>2 DEF Kept, Managed
      <4> QED BY <3>1, <4>1 DEF Distinct
    <3>3. CASE b.protocol \notin KnownProtocols
      <4>1. i = b /\ b.clients = <<>>
        BY <2>2, <2>4, <3>3 DEF Kept, Managed, GivenInbound
      <4> QED BY <3>1, <4>1
    <3> QED BY <3>2, <3>3
  <2> QED BY <2>3, <2>4, <2>6 DEF i
<1> QED BY <1>1, <1>2 DEF ClientsAsWanted, ServedAsListed

THEOREM TwoWaysStayTogether == Spec => []ClientsAsWanted
BY DataAlways, ClientsWhenUp, PTL

THEOREM CoreServesList == Spec => []ServedAsListed
BY DataAlways, ClientsWhenUp, PTL
-----------------------------------------------------------------------------
(* A loop over the inbounds panics for want of settings, or for an invalid *)
(* id.                                                                     *)
LEMMA SyncUsersPanicHasCause ==
  ASSUME NEW c, Came(c), ~ApplyAPIPanics(c), NEW k \in 1..Len(Completed(c)),
         NEW us, SyncUsersPanics(Completed(c)[k], us)
  PROVE  Faulty(c) \/ SomeBad(Range(us))
<1> DEFINE b == Completed(c)[k]
<1>1. b = ApiInbound \/ b \in Range(c.inbounds)
  BY CompletedGiven
<1> HIDE DEF b
<1>2. SyncUsersPanics(b, us)
  BY DEF b
<1>3. CASE b.protocol \in KnownProtocols /\ ~b.settings
  <2>1. b \in Range(c.inbounds)
    BY <1>1, <1>3, ApiIsGiven
  <2> QED BY <1>3, <2>1 DEF Range, Faulty
<1>4. CASE \E j \in DOMAIN us : \E p \in us[j].vless : p.id = BadId
  <2>1. PICK j \in DOMAIN us : \E p \in us[j].vless : p.id = BadId
    BY <1>4
  <2>2. us[j] \in Range(us)
    BY DEF Range
  <2> QED BY <2>1, <2>2 DEF SomeBad
<1> QED BY <1>2, <1>3, <1>4 DEF SyncUsersPanics

(* A list that SyncUser cannot get through has a nil account.              *)
LEMMA ScanPanicHasCause ==
  ASSUME NEW b, GivenInbound(b), NEW i, NEW isBad, Kept(i, b, isBad), ~b.exclude,
         NEW e, ScanPanics(i, e)
  PROVE  isBad
<1>1. PICK k \in DOMAIN i.clients : i.clients[k] = NilAccount
  BY DEF ScanPanics
<1>2. b.protocol \in KnownProtocols
  <2> SUFFICES ASSUME b.protocol \notin KnownProtocols PROVE FALSE
    OBVIOUS
  <2>1. i.clients = <<>>
    BY DEF Kept, Managed, GivenInbound
  <2> QED BY <1>1, <2>1
<1>3. NilAccount \in Range(i.clients)
  BY <1>1 DEF Range
<1> QED BY <1>2, <1>3 DEF Kept, Managed

LEMMA PanicStep ==
  ASSUME DataInv, PanicHasCause, [Next]_vars
  PROVE  PanicHasCause'
<1> DEFINE Cause(c, isBad) == Faulty(c) \/ isBad
<1>0. PanicHasCause <=> (phase = "panicked" \/ broken => Cause(sent, bad))
  BY Zenon DEF PanicHasCause, Faulty
<1>00. PanicHasCause' <=> (phase' = "panicked" \/ broken' => Cause(sent', bad'))
  BY Zenon DEF PanicHasCause, Faulty
<1> SUFFICES ASSUME phase' = "panicked" \/ broken' PROVE Cause(sent', bad')
  BY <1>00
<1>1. ASSUME NEW s \in Starts, Start(s.config, s.exclude, s.users)
      PROVE  Cause(sent', bad')
  <2> DEFINE us == s.users
             c == NewXRayConfig(s.config, s.exclude)
             stop == SyncUsersStopsAt(Completed(c), us)
  <2>1. /\ phase = "stopped" /\ bad' = SomeBad(Range(us)) /\ broken' = broken
        /\ sent' = IF NewXRayConfigPanics(s.config) THEN s.config ELSE c
    BY <1>1 DEF Start
  <2>2. \/ NewXRayConfigPanics(s.config)
        \/ CameFrom(c, s) /\ sent' = c /\ ApplyAPIPanics(c)
        \/ CameFrom(c, s) /\ sent' = c /\ ~ApplyAPIPanics(c) /\ stop <= Len(Completed(c))
        \/ phase' \in {"up", "failed"}
    BY <1>1, <2>1 DEF Start, Launch, Completed, CameFrom
  <2>3. ~broken
    BY <2>1 DEF DataInv
  <2>4. CASE NewXRayConfigPanics(s.config)
    BY <2>1, <2>4 DEF NewXRayConfigPanics, Faulty
  <2>5. CASE CameFrom(c, s) /\ sent' = c /\ ApplyAPIPanics(c)
    BY <2>5, ApplyAPIPanicHasCause
  <2>6. CASE CameFrom(c, s) /\ sent' = c /\ ~ApplyAPIPanics(c) /\ stop <= Len(Completed(c))
    <3>1. Came(c)
      BY <2>6 DEF Came
    <3> HIDE DEF c
    <3>2. Completed(c) \in Seq(Ins)
      BY <2>6, <3>1, CompletedGiven
    <3>3. stop \in 1..Len(Completed(c)) /\ SyncUsersPanics(Completed(c)[stop], us)
      BY <2>6, <3>2, ConfigSynced
    <3> HIDE DEF stop
    <3> QED BY <2>1, <2>6, <3>1, <3>3, SyncUsersPanicHasCause
  <2> QED BY <2>1, <2>2, <2>3, <2>4, <2>5, <2>6
<1>2. ASSUME Stop
      PROVE  Cause(sent', bad')
  BY <1>2 DEF Stop
<1>3. ASSUME NEW u \in Users, SyncUser(u)
      PROVE  Cause(sent', bad')
  <2> DEFINE is == config.inbounds
             S == {k \in DOMAIN live : ~is[k].exclude /\ ScanPanics(is[k], u.email)}
             stop == FirstOf(S, is)
  <2>1. phase = "up" /\ bad' = (bad \/ SomeBad({u})) /\ sent' = sent
    BY <1>3 DEF SyncUser, Request
  <2>2. IF stop > Len(is) THEN UNCHANGED <<phase, broken>> ELSE Panicked
    BY <1>3 DEF SyncUser
  <2>3. CASE stop > Len(is)
    BY <1>0, <2>1, <2>2, <2>3
  <2>4. CASE ~(stop > Len(is))
    <3>1. /\ UpInv /\ Len(is) \in Nat /\ DOMAIN live = 1..Len(is)
          /\ \A k \in 1..Len(is) : /\ GivenInbound(Completed(sent)[k])
                                   /\ Kept(is[k], Completed(sent)[k], bad)
      BY <2>1, UpFollows DEF DataInv
    <3> HIDE DEF is
    <3>2. S \subseteq 1..Len(is)
      BY <3>1
    <3>3. stop \in S
      <4> HIDE DEF S
      <4>1. stop \in 1..(Len(is) + 1) /\ (stop <= Len(is) => stop \in S)
        BY <3>1, <3>2, FirstOfPlaces
      <4> QED BY <2>4, <3>1, <4>1
    <3>4. PICK k \in 1..Len(is) : ~is[k].exclude /\ ScanPanics(is[k], u.email)
      BY <3>2, <3>3
    <3>5. /\ GivenInbound(Completed(sent)[k]) /\ Kept(is[k], Completed(sent)[k], bad)
          /\ ~Completed(sent)[k].exclude
      BY <3>1, <3>4, KeptSame
    <3>6. bad
      BY <3>4, <3>5, ScanPanicHasCause
    <3> QED BY <2>1, <3>6
  <2> QED BY <2>3, <2>4
<1>4. ASSUME NEW us \in UserLists, SyncUsers(us)
      PROVE  Cause(sent', bad')
  <2> DEFINE is == config.inbounds
             new == ConfigSyncUsers(is, us)
             stop == SyncUsersStopsAt(is, us)
  <2>1. phase = "up" /\ bad' = (bad \/ SomeBad(Range(us))) /\ sent' = sent
    BY <1>4 DEF SyncUsers, Request
  <2>2. \/ stop <= Len(new)
        \/ phase' \in {"up", "failed"} /\ broken' = FALSE
    <3>1. CASE ~(stop <= Len(new))
      <4>1. Launch([config EXCEPT !.inbounds = new]) /\ broken' = FALSE
        BY <1>4, <3>1 DEF SyncUsers
      <4> HIDE DEF stop, new
      <4> QED BY <4>1 DEF Launch
    <3> QED BY <3>1
  <2>3. CASE stop <= Len(new)
    <3>1. /\ UpInv /\ is \in Seq(Ins) /\ Len(is) \in Nat /\ Len(is) = Len(Completed(sent))
          /\ Came(sent) /\ ~ApplyAPIPanics(sent) /\ AllKept(is, sent, bad) /\ Follows(is, sent)
          /\ \A k \in 1..Len(is) : /\ GivenInbound(Completed(sent)[k])
                                   /\ Kept(is[k], Completed(sent)[k], bad)
      BY <2>1, UpFollows DEF DataInv, UpInv, AllKept
    <3>2. us \in SentLists
      BY Sendable
    <3> HIDE DEF is
    <3>3. Len(new) = Len(is)
      BY <3>1, <3>2, PartlySynced
    <3>4. stop \in 1..Len(is) /\ SyncUsersPanics(is[stop], us)
      BY <2>3, <3>1, <3>3, ConfigSynced
    <3> HIDE DEF stop
    <3>5. SyncUsersPanics(Completed(sent)[stop], us)
      BY <3>1, <3>4, KeptSame
    <3>6. Faulty(sent) \/ SomeBad(Range(us))
      BY <3>1, <3>4, <3>5, SyncUsersPanicHasCause
    <3> QED BY <2>1, <3>6
  <2>4. CASE phase' \in {"up", "failed"} /\ broken' = FALSE
    BY <2>4
  <2> QED BY <2>2, <2>3, <2>4
<1>5. ASSUME CheckXrayHealth
      PROVE  Cause(sent', bad')
  <2>1. phase' \in {"up", "failed"} /\ UNCHANGED <<sent, bad, broken>>
    BY <1>5 DEF CheckXrayHealth, Launch
  <2> QED BY <1>0, <2>1
<1>6. ASSUME UNCHANGED <<phase, data>>
      PROVE  Cause(sent', bad')
  BY <1>0, <1>6 DEF data
<1>7. ASSUME NEW k \in DOMAIN live, NEW client \in live[k], NEW out \in config.outbounds,
             Traffic(k, client, out)
      PROVE  Cause(sent', bad')
  BY <1>6, <1>7 DEF Traffic
<1>8. ASSUME NEW class \in Classes, NEW reset \in BOOLEAN, NEW arrives \in BOOLEAN, NEW owner,
             Ask(class, owner, reset, arrives)
      PROVE  Cause(sent', bad')
  BY <1>6, <1>8 DEF Ask
<1>9. ASSUME UNCHANGED vars
      PROVE  Cause(sent', bad')
  BY <1>6, <1>9 DEF vars
<1> HIDE DEF Cause
<1> QED BY <1>1, <1>2, <1>3, <1>4, <1>5, <1>7, <1>8, <1>9 DEF Next

(* config.go:64-144, 350-362, 417-440, 456-457, user.go:146-159: neither a *)
(* Start nor a request panics but for an id or a config of these kinds,    *)
(* with any inbounds, null ones too, any policies and any sequence of      *)
(* requests.                                                               *)
THEOREM PanicsHaveCauses == Spec => []PanicHasCause
<1>1. Init => PanicHasCause
  BY DEF Init, PanicHasCause
<1> QED BY <1>1, DataAlways, PanicStep, PTL DEF Spec
-----------------------------------------------------------------------------
(* The sum over no stat, and over one.                                     *)
SumLoop(S, h) ==
  h = [s \in SUBSET S |-> IF s = {} THEN 0 ELSE LET x == CHOOSE x \in s : TRUE
                                               IN  x.value + h[s \ {x}]]

LEMMA VolumeByLoop ==
  ASSUME NEW S
  PROVE  Volume(S) = (CHOOSE h : SumLoop(S, h))[S]
BY Zenon DEF Volume, MapThenSumSet, MapThenFoldSet, SumLoop

LEMMA NoVolume == Volume({}) = 0
<1> DEFINE w == [s \in SUBSET {} |-> 0]
           h == CHOOSE h : SumLoop({}, h)
<1>1. SumLoop({}, w)
  BY DEF SumLoop
<1>2. SumLoop({}, h)
  BY <1>1
<1> HIDE DEF h
<1>3. h[{}] = 0
  BY <1>2 DEF SumLoop
<1> QED BY <1>3, VolumeByLoop DEF h

LEMMA OneVolume ==
  ASSUME NEW x, x.value \in Nat
  PROVE  Volume({x}) = x.value
<1> DEFINE w == [s \in SUBSET {x} |-> IF s = {} THEN 0 ELSE x.value]
           h == CHOOSE h : SumLoop({x}, h)
<1>1. \A s \in SUBSET {x} :
        s # {} => s = {x} /\ (CHOOSE y \in s : TRUE) = x /\ s \ {x} = {} /\ {} \in SUBSET {x}
  OBVIOUS
<1>2. SumLoop({x}, w)
  <2>1. \A s \in SUBSET {x} : w[s] = IF s = {} THEN 0 ELSE LET y == CHOOSE y \in s : TRUE
                                                         IN  y.value + w[s \ {y}]
    <3>1. w[{}] = 0 /\ w[{x}] = x.value
      OBVIOUS
    <3> HIDE DEF w
    <3> SUFFICES ASSUME NEW s \in SUBSET {x}, s # {}
                 PROVE  w[s] = LET y == CHOOSE y \in s : TRUE IN y.value + w[s \ {y}]
      BY <3>1
    <3>2. s = {x} /\ (CHOOSE y \in s : TRUE) = x /\ s \ {x} = {}
      BY <1>1
    <3> QED BY <3>1, <3>2
  <2> QED BY <2>1 DEF SumLoop
<1>3. SumLoop({x}, h)
  <2> HIDE DEF w
  <2> QED BY <1>2
<1> HIDE DEF h
<1>4. h[{}] = 0
  BY <1>3 DEF SumLoop
<1>5. ASSUME NEW s \in SUBSET {x}, s # {}
      PROVE  h[s] = x.value
  <2>1. h[s] = LET y == CHOOSE y \in s : TRUE IN y.value + h[s \ {y}]
    BY <1>3, <1>5 DEF SumLoop
  <2>2. s = {x} /\ (CHOOSE y \in s : TRUE) = x /\ s \ {x} = {}
    BY <1>1, <1>5
  <2> QED BY <1>4, <2>1, <2>2
<1>6. h[{x}] = x.value
  BY <1>5
<1> QED BY <1>6, VolumeByLoop DEF h
(* The parts of a counter's name.                                          *)
LEMMA NameParts ==
  ASSUME NEW n \in Names \cup Billed
  PROVE  n[1] \in Classes /\ n = CounterName(n[1], n[2])
<1>1. PICK class \in Classes : \E owner : n = CounterName(class, owner)
  BY DEF Names, Billed, Classes
<1>2. PICK owner : n = CounterName(class, owner)
  BY <1>1
<1>3. n[1] = class /\ n[2] = owner
  BY <1>2 DEF CounterName
<1> QED BY <1>2, <1>3

(* What an answer says of a counter that is billed: its value, if the      *)
(* query is for it, and nothing if it is not.                              *)
StatsOf(n, c, class, owner) ==
  {s \in GetStats(c, class, owner) : n = CounterName(class, s.name)}

LEMMA ToldOnce ==
  ASSUME NEW c, DOMAIN c \subseteq Names, NEW class \in Classes,
         NEW owner, owner = {} \/ \E o : owner = {o}, NEW n \in Billed
  PROVE  /\ n \in QueryStats(c, Pattern(class, owner)) =>
              \E s : StatsOf(n, c, class, owner) = {s} /\ s.value = c[n]
         /\ n \notin QueryStats(c, Pattern(class, owner)) => StatsOf(n, c, class, owner) = {}
<1> DEFINE pattern == Pattern(class, owner)
           names == QueryStats(c, pattern)
           stats == GetStats(c, class, owner)
           Stat(m) == IF owner = {} THEN ListStat(m, c[m]) ELSE SingleStat(m, c[m])
           about == StatsOf(n, c, class, owner)
<1>0. about = {s \in stats : n = CounterName(class, s.name)}
  BY DEF StatsOf
<1>1. stats = {Stat(m) : m \in names}
  BY DEF GetStats
<1>2. \A m : Stat(m).name = m[2] /\ Stat(m).value = c[m]
  BY DEF ListStat, SingleStat
<1>3. Head(pattern) = class
  <2>1. CASE owner = {}
    BY <2>1 DEF Pattern
  <2>2. CASE owner # {}
    BY <2>2 DEF Pattern
  <2> QED BY <2>1, <2>2
<1> HIDE DEF Stat, stats, about
<1>4. ASSUME NEW m \in names, m[2] = n[2]
      PROVE  m[1] = class /\ m = CounterName(class, n[2])
  <2>1. m \in Names /\ Matches(m, pattern)
    BY DEF QueryStats
  <2>2. <<n[2], class>> \notin EndsIn
    BY DEF Billed
  <2>3. m[1] = class
    <3>1. Head(m) = m[1]
      BY <2>1, NameParts DEF CounterName
    <3> HIDE DEF pattern, names
    <3> QED BY <1>3, <1>4, <2>1, <2>2, <3>1 DEF Matches
  <2> QED BY <1>4, <2>1, <2>3, NameParts
<1> HIDE DEF names, pattern
<1>5. ASSUME NEW m \in names, n = CounterName(class, Stat(m).name)
      PROVE  m = n
  <2>1. n[2] = m[2]
    BY <1>2, <1>5 DEF CounterName
  <2> QED BY <1>2, <1>4, <1>5, <2>1
<1>6. CASE n \in names
  <2>1. n = CounterName(class, Stat(n).name)
    BY <1>2, <1>4, <1>6
  <2>2. about = {Stat(n)}
    BY <1>0, <1>1, <1>5, <1>6, <2>1
  <2> QED BY <1>2, <1>6, <2>2 DEF names, pattern, about
<1>7. CASE n \notin names
  <2>1. about = {}
    BY <1>0, <1>1, <1>5, <1>7
  <2> QED BY <1>7, <2>1 DEF names, pattern, about
<1> QED BY <1>6, <1>7

-----------------------------------------------------------------------------
(* The inductive invariant of the traffic.                                 *)
TrafficTypes ==
  /\ DOMAIN counters \subseteq Names /\ \A n \in DOMAIN counters : counters[n] \in Nat
  /\ used \in [Billed -> 0..MaxTraffic] /\ told \in [Billed -> Nat] /\ gap \in BOOLEAN

BillInv ==
  /\ TrafficTypes
  /\ phase = "stopped" =>
       \A n \in Billed : n \notin DOMAIN counters /\ used[n] = 0 /\ told[n] = 0
  /\ NothingUnbilled

LEMMA NoCountersTypes == DOMAIN NoCounters = {}
BY DEF NoCounters

Count(n) == IF n \in DOMAIN counters THEN counters[n] ELSE 0

LEMMA CountType ==
  ASSUME TrafficTypes
  PROVE  /\ \A n : Count(n) \in Nat
         /\ \A n \in Billed : used[n] \in Nat /\ told[n] \in Nat /\ used[n] \in 0..MaxTraffic
BY ProvisioningAssumption DEF TrafficTypes, Count

LEMMA BillInit == Init => BillInv
<1> SUFFICES ASSUME Init PROVE BillInv
  OBVIOUS
<1>1. 0 \in 0..MaxTraffic
  BY ProvisioningAssumption
<1>2. used = [n \in Billed |-> 0] /\ told = [n \in Billed |-> 0] /\ counters = NoCounters
  BY DEF Init
<1>3. TrafficTypes
  <2>1. used \in [Billed -> 0..MaxTraffic] /\ told \in [Billed -> Nat]
    BY <1>1, <1>2
  <2>2. gap \in BOOLEAN /\ DOMAIN counters = {}
    BY <1>2, NoCountersTypes DEF Init
  <2> QED BY <2>1, <2>2 DEF TrafficTypes
<1> QED BY <1>2, <1>3, NoCountersTypes DEF Init, BillInv, NothingUnbilled

(* A launched core has no counters.                                        *)
LEMMA BillLaunch ==
  ASSUME BillInv, NEW c, Launch(c), UNCHANGED <<used, told>>, gap' = gap \/ gap' = TRUE,
         \/ phase = "up" /\ gap' = TRUE
         \/ phase = "stopped"
  PROVE  BillInv'
<1>1. counters' = NoCounters /\ phase' \in {"up", "failed"} /\ used' = used /\ told' = told
  BY DEF Launch
<1>2. TrafficTypes'
  BY <1>1, NoCountersTypes DEF BillInv, TrafficTypes
<1>3. \A n \in Billed : Count(n) \in Nat /\ used[n] \in Nat /\ told[n] \in Nat
  BY CountType DEF BillInv
<1>4. NothingUnbilled'
  <2> SUFFICES ASSUME NEW n \in Billed
               PROVE  told[n] + 0 <= used[n] /\ (gap' \/ told[n] + 0 = used[n])
    BY <1>1, NoCountersTypes DEF NothingUnbilled
  <2>1. CASE phase = "up" /\ gap' = TRUE
    <3>1. told[n] + Count(n) <= used[n]
      BY <2>1 DEF BillInv, NothingUnbilled, Count
    <3> QED BY <1>3, <2>1, <3>1
  <2>2. CASE phase = "stopped"
    BY <2>2 DEF BillInv
  <2> QED BY <2>1, <2>2
<1> QED BY <1>1, <1>2, <1>4 DEF BillInv
LEMMA BillTraffic ==
  ASSUME DataInv, BillInv, NEW k \in DOMAIN live, NEW client \in live[k],
         NEW out \in config.outbounds, Traffic(k, client, out)
  PROVE  BillInv'
<1> DEFINE passed == {CounterName("user", client.email),
                      CounterName("inbound", config.inbounds[k].tag),
                      CounterName("outbound", out)}
           counted == {n \in passed : Counted(n[1], client.level)}
           One(n) == IF n \in counted THEN 1 ELSE 0
<1>1. /\ phase = "up" /\ phase' = phase /\ told' = told /\ gap' = gap
      /\ \A n \in passed \cap Billed : used[n] < MaxTraffic
      /\ used' = [n \in Billed |-> used[n] + IF n \in passed THEN 1 ELSE 0]
      /\ counters' = [n \in DOMAIN counters \cup counted |-> Count(n) + One(n)]
  BY DEF Traffic, Count
<1>2. UpInv /\ Client(client) /\ k \in 1..Len(config.inbounds)
  BY <1>1, UpFollows DEF DataInv
<1>3. PICK s \in Starts : CameFrom(sent, s)
  BY <1>2 DEF UpInv, Came
<1>4. /\ config.policy = CheckPolicy(s.config.policy)
      /\ config.outbounds = s.config.outbounds
  <2>1. ~ApplyAPIPanics(sent) /\ config \in Filled(sent)
    BY <1>2 DEF UpInv
  <2>2. ApplyAPI(sent).policy = CheckPolicy(sent.policy)
    BY <1>3, <2>1, Completion
  <2>3. sent.policy = s.config.policy /\ sent.outbounds = s.config.outbounds
    BY <1>3, CameConfig
  <2> QED BY <2>1, <2>2, <2>3 DEF Filled
<1> DEFINE policy == CHOOSE p \in config.policy : TRUE
<1>5. /\ 0 \in DOMAIN policy.levels /\ policy.levels[0].traffic
      /\ (CHOOSE y \in policy.system : TRUE).outbound
  BY <1>4, PolicyCounts
<1>6. passed \subseteq Names
  <2>1. CounterName("user", client.email) \in Names
    BY <1>2 DEF Client, Names
  <2>2. CounterName("inbound", config.inbounds[k].tag) \in Names
    <3>1. config.inbounds[k].tag = Completed(sent)[k].tag /\ Completed(sent)[k].tag \in Tags
      BY <1>2, UpFollows, KeptSame DEF GivenInbound
    <3> QED BY <3>1 DEF Names
  <2>3. CounterName("outbound", out) \in Names
    BY <1>4 DEF Outbounds, Names
  <2> QED BY <2>1, <2>2, <2>3
<1>7. \A n \in passed \cap Billed : n \in counted
  <2> SUFFICES ASSUME NEW n \in passed, n \in Billed PROVE Counted(n[1], client.level)
    OBVIOUS
  <2>1. \/ n = CounterName("outbound", out) /\ n[1] = "outbound"
        \/ n = CounterName("user", client.email) /\ n[1] = "user" /\ n[2] = client.email
        \/ n[1] = "inbound"
    BY DEF CounterName
  <2>2. CASE n[1] = "outbound"
    BY <1>5, <2>2 DEF Counted
  <2>3. CASE n[1] = "user" /\ n[2] = client.email
    <3>1. \E e \in Emails \ Unmetered : n = CounterName("user", e)
      BY <2>3 DEF Billed, CounterName
    <3>2. client.email \notin Unmetered
      BY <2>3, <3>1 DEF CounterName
    <3>3. client.level = 0
      BY <1>2, <3>2 DEF Client
    <3> QED BY <1>5, <2>3, <3>3 DEF Counted
  <2>4. n[1] # "inbound"
    BY DEF Billed, CounterName
  <2> QED BY <2>1, <2>2, <2>3, <2>4
<1> HIDE DEF passed, counted
<1>8. counted \subseteq passed
  BY DEF counted
<1>9. /\ \A n : Count(n) \in Nat /\ One(n) \in Nat
      /\ \A n \in Billed : used[n] \in Nat /\ told[n] \in Nat /\ used[n] \in 0..MaxTraffic
  BY CountType DEF BillInv
<1>10. TrafficTypes'
  <2>1. DOMAIN counters' \subseteq Names
    BY <1>1, <1>6, <1>8 DEF BillInv, TrafficTypes
  <2>2. \A n \in DOMAIN counters' : counters'[n] \in Nat
    <3> SUFFICES ASSUME NEW n \in DOMAIN counters' PROVE counters'[n] \in Nat
      OBVIOUS
    <3>1. counters'[n] = Count(n) + One(n)
      BY <1>1
    <3> QED BY <1>9, <3>1
  <2>3. used' \in [Billed -> 0..MaxTraffic]
    <3>1. \A n \in Billed : used[n] + (IF n \in passed THEN 1 ELSE 0) \in 0..MaxTraffic
      BY <1>1, <1>9, ProvisioningAssumption
    <3> QED BY <1>1, <3>1
  <2> QED BY <1>1, <2>1, <2>2, <2>3 DEF BillInv, TrafficTypes
<1>11. ASSUME NEW n \in Billed
       PROVE  Count(n)' = Count(n) + (IF n \in passed THEN 1 ELSE 0)
  <2>1. n \in passed <=> n \in counted
    BY <1>7, <1>8
  <2>2. CASE n \in counted
    BY <1>1, <2>1, <2>2 DEF Count
  <2>3. CASE n \notin counted /\ n \in DOMAIN counters
    <3>1. counters'[n] = Count(n) + 0
      BY <1>1, <2>3
    <3> QED BY <1>1, <2>1, <2>3, <3>1 DEF Count
  <2>4. CASE n \notin counted /\ n \notin DOMAIN counters
    <3>1. n \notin DOMAIN counters'
      BY <1>1, <2>4
    <3> QED BY <2>1, <2>4, <3>1 DEF Count
  <2> QED BY <2>2, <2>3, <2>4
<1>12. NothingUnbilled'
  <2> SUFFICES ASSUME NEW n \in Billed
               PROVE  /\ told'[n] + Count(n)' <= used'[n]
                      /\ gap' \/ told'[n] + Count(n)' = used'[n]
    BY DEF NothingUnbilled, Count
  <2>1. told[n] + Count(n) <= used[n] /\ (gap \/ told[n] + Count(n) = used[n])
    BY <1>1 DEF BillInv, NothingUnbilled, Count
  <2>2. /\ used'[n] = used[n] + (IF n \in passed THEN 1 ELSE 0)
        /\ Count(n)' = Count(n) + (IF n \in passed THEN 1 ELSE 0)
    BY <1>1, <1>11
  <2> QED BY <1>1, <1>9, <2>1, <2>2
<1> QED BY <1>1, <1>10, <1>12 DEF BillInv

LEMMA BillAsk ==
  ASSUME BillInv, NEW class \in Classes, NEW owner, owner = {} \/ \E o : owner = {o},
         NEW reset, NEW arrives, Ask(class, owner, reset, arrives)
  PROVE  BillInv'
<1> DEFINE About(n) == StatsOf(n, counters, class, owner)
           pattern == Pattern(class, owner)
           names == QueryStats(counters, pattern)
<1>1. /\ phase = "up" /\ phase' = phase /\ used' = used
      /\ counters' = IF reset THEN Reset(counters, pattern) ELSE counters
      /\ told' = [n \in Billed |-> told[n] + IF reset /\ arrives THEN Volume(About(n)) ELSE 0]
      /\ gap' = (gap \/ (reset /\ ~arrives))
  BY DEF Ask, StatsOf
<1>3. /\ TrafficTypes /\ \A n : Count(n) \in Nat
      /\ \A n \in Billed : used[n] \in Nat /\ told[n] \in Nat
  BY CountType DEF BillInv
<1>4. ASSUME NEW n \in Billed
      PROVE  Volume(About(n)) = IF n \in names THEN Count(n) ELSE 0
  <2>1. /\ n \in names => \E s : About(n) = {s} /\ s.value = counters[n]
        /\ n \notin names => About(n) = {}
    <3>1. DOMAIN counters \subseteq Names
      BY <1>3 DEF TrafficTypes
    <3> QED BY <3>1, ToldOnce
  <2>2. n \in names => n \in DOMAIN counters
    BY DEF QueryStats
  <2> HIDE DEF About, names
  <2>3. CASE n \in names
    <3>1. PICK s : About(n) = {s} /\ s.value = counters[n]
      BY <2>1, <2>3
    <3>2. s.value \in Nat
      BY <1>3, <2>2, <2>3, <3>1 DEF TrafficTypes
    <3>3. Volume({s}) = s.value
      BY <3>2, OneVolume
    <3> QED BY <2>2, <2>3, <3>1, <3>3 DEF Count
  <2>4. CASE n \notin names
    BY <2>1, <2>4, NoVolume
  <2> QED BY <2>3, <2>4
<1> HIDE DEF About
<1>5. /\ DOMAIN counters' = DOMAIN counters
      /\ \A n \in DOMAIN counters :
           counters'[n] = IF reset /\ n \in names THEN 0 ELSE counters[n]
  BY <1>1 DEF Reset
<1>6. \A n : Count(n)' = IF reset /\ n \in names THEN 0 ELSE Count(n)
  <2>1. names \subseteq DOMAIN counters
    BY DEF QueryStats
  <2> HIDE DEF names
  <2> QED BY <1>5, <2>1 DEF Count
<1> HIDE DEF names, pattern
<1>7. \A n \in Billed :
        told'[n] = told[n] + IF reset /\ arrives /\ n \in names THEN Count(n) ELSE 0
  BY <1>1, <1>3, <1>4
<1>8. TrafficTypes'
  <2>1. \A n \in DOMAIN counters' : counters'[n] \in Nat
    <3> SUFFICES ASSUME NEW n \in DOMAIN counters PROVE counters'[n] \in Nat
      BY <1>5
    <3>1. counters[n] \in Nat /\ 0 \in Nat
      BY <1>3 DEF TrafficTypes
    <3>2. counters'[n] = 0 \/ counters'[n] = counters[n]
      BY <1>5
    <3> QED BY <3>1, <3>2
  <2>2. told' \in [Billed -> Nat]
    <3>1. ASSUME NEW n \in Billed
          PROVE  told'[n] \in Nat
      <4>1. told'[n] = told[n] + Count(n) \/ told'[n] = told[n] + 0
        BY <1>7
      <4> QED BY <1>3, <4>1
    <3>2. told' = [n \in Billed |-> told'[n]]
      BY <1>1
    <3> QED BY <3>1, <3>2
  <2>3. gap' \in BOOLEAN
    BY <1>1
  <2> QED BY <1>1, <1>3, <1>5, <2>1, <2>2, <2>3 DEF TrafficTypes
<1>9. NothingUnbilled'
  <2> SUFFICES ASSUME NEW n \in Billed
               PROVE  /\ told'[n] + Count(n)' <= used'[n]
                      /\ gap' \/ told'[n] + Count(n)' = used'[n]
    BY DEF NothingUnbilled, Count
  <2>1. told[n] + Count(n) <= used[n] /\ (gap \/ told[n] + Count(n) = used[n])
    BY <1>1 DEF BillInv, NothingUnbilled, Count
  <2>2. /\ told'[n] = told[n] + IF reset /\ arrives /\ n \in names THEN Count(n) ELSE 0
        /\ Count(n)' = IF reset /\ n \in names THEN 0 ELSE Count(n)
        /\ used'[n] = used[n]
        /\ told[n] \in Nat /\ used[n] \in Nat /\ Count(n) \in Nat
    BY <1>1, <1>3, <1>6, <1>7
  <2>3. CASE reset /\ arrives /\ n \in names
    <3>1. told'[n] = told[n] + Count(n) /\ Count(n)' = 0 /\ (gap => gap')
      BY <1>1, <2>2, <2>3
    <3> QED BY <2>1, <2>2, <3>1
  <2>4. CASE reset /\ ~arrives /\ n \in names
    <3>1. told'[n] = told[n] + 0 /\ Count(n)' = 0 /\ gap' = TRUE
      BY <1>1, <2>2, <2>4
    <3> QED BY <2>1, <2>2, <3>1
  <2>5. CASE ~reset \/ n \notin names
    <3>1. told'[n] = told[n] + 0 /\ Count(n)' = Count(n) /\ (gap => gap')
      BY <1>1, <2>2, <2>5
    <3> QED BY <2>1, <2>2, <3>1
  <2> QED BY <2>3, <2>4, <2>5
<1> QED BY <1>1, <1>8, <1>9 DEF BillInv
LEMMA BillStep ==
  ASSUME DataInv, BillInv, [Next]_vars
  PROVE  BillInv'
<1>1. ASSUME NEW s \in Starts, Start(s.config, s.exclude, s.users)
      PROVE  BillInv'
  <2>1. phase = "stopped" /\ UNCHANGED <<used, told, gap>>
    BY <1>1 DEF Start
  <2>2. \/ phase' = "panicked" /\ UNCHANGED counters
        \/ \E c : Launch(c)
    BY <1>1 DEF Start
  <2>3. CASE phase' = "panicked" /\ UNCHANGED counters
    BY <2>1, <2>3 DEF BillInv, TrafficTypes, NothingUnbilled
  <2>4. CASE \E c : Launch(c)
    BY <2>1, <2>4, BillLaunch
  <2> QED BY <2>2, <2>3, <2>4
<1>2. ASSUME Stop
      PROVE  BillInv'
  <2>1. /\ phase' = "stopped" /\ counters' = NoCounters /\ gap' \in BOOLEAN
        /\ used' = [n \in Billed |-> 0] /\ told' = [n \in Billed |-> 0]
    BY <1>2 DEF Stop
  <2>2. 0 \in 0..MaxTraffic
    BY ProvisioningAssumption
  <2>3. used' \in [Billed -> 0..MaxTraffic] /\ told' \in [Billed -> Nat]
    BY <2>1, <2>2
  <2>4. TrafficTypes'
    BY <2>1, <2>3, NoCountersTypes DEF TrafficTypes
  <2> QED BY <2>1, <2>4, NoCountersTypes DEF BillInv, NothingUnbilled
<1>3. ASSUME UNCHANGED traffic, phase = "up"
      PROVE  BillInv' \/ phase' = "stopped"
  BY <1>3 DEF BillInv, TrafficTypes, NothingUnbilled, traffic
<1>4. ASSUME NEW u \in Users, SyncUser(u)
      PROVE  BillInv'
  <2>1. phase = "up" /\ UNCHANGED traffic
    BY <1>4 DEF SyncUser, Request
  <2>2. phase' \in {"up", "panicked"}
    BY <1>4, <2>1 DEF SyncUser, Panicked
  <2> QED BY <1>3, <2>1, <2>2
<1>5. ASSUME NEW us \in UserLists, SyncUsers(us)
      PROVE  BillInv'
  <2>1. phase = "up" /\ UNCHANGED <<used, told>>
    BY <1>5 DEF SyncUsers, Request
  <2>2. \/ Panicked /\ UNCHANGED <<counters, gap>>
        \/ gap' = TRUE /\ \E c : Launch(c)
    BY <1>5 DEF SyncUsers
  <2>3. CASE Panicked /\ UNCHANGED <<counters, gap>>
    <3>1. UNCHANGED traffic /\ phase' \in {"up", "panicked"}
      BY <2>1, <2>3 DEF Panicked, traffic
    <3> QED BY <1>3, <2>1, <3>1
  <2>4. CASE gap' = TRUE /\ \E c : Launch(c)
    BY <2>1, <2>4, BillLaunch
  <2> QED BY <2>2, <2>3, <2>4
<1>6. ASSUME CheckXrayHealth
      PROVE  BillInv'
  BY <1>6, BillLaunch DEF CheckXrayHealth
<1>7. ASSUME NEW k \in DOMAIN live, NEW client \in live[k], NEW out \in config.outbounds,
             Traffic(k, client, out)
      PROVE  BillInv'
  BY <1>7, BillTraffic
<1>8. ASSUME NEW class \in Classes, NEW reset \in BOOLEAN, NEW arrives \in BOOLEAN,
             NEW owner \in {{}, {""}} \cup {{n[2]} : n \in DOMAIN counters},
             Ask(class, owner, reset, arrives)
      PROVE  BillInv'
  <2>1. owner = {} \/ \E o : owner = {o}
    OBVIOUS
  <2> QED BY <1>8, <2>1, BillAsk
<1>9. ASSUME UNCHANGED vars
      PROVE  BillInv'
  BY <1>9 DEF vars, traffic, BillInv, TrafficTypes, NothingUnbilled
<1> QED BY <1>1, <1>2, <1>4, <1>5, <1>6, <1>7, <1>8, <1>9 DEF Next

LEMMA BillAlways == Spec => []BillInv
BY BillInit, BillStep, DataAlways, PTL DEF Spec

(* stats.go:26-121, config.go:417-465: no traffic of a user of the panel   *)
(* or of an outbound is told twice, and none is lost but by a lost answer  *)
(* or a restart, whatever the panel's own policy says.                     *)
THEOREM TrafficBilled == Spec => []NothingUnbilled
BY BillAlways, PTL DEF BillInv

LEMMA TypesHold ==
  ASSUME DataInv, BillInv
  PROVE  TypeOK
<1>1. {u.email : u \in wanted} \subseteq Emails
  BY DEF DataInv, Emails
<1>2. \A k \in DOMAIN live : \A a \in live[k] : a.email \in Emails
  BY DEF DataInv, Client
<1>3. /\ phase \in {"stopped", "up", "failed", "panicked"}
      /\ DOMAIN live = DOMAIN config.inbounds
      /\ bad \in BOOLEAN /\ broken \in BOOLEAN /\ requests \in 0..MaxRequests
  BY DEF DataInv
<1>4. TrafficTypes
  BY DEF BillInv
<1> QED BY <1>1, <1>2, <1>3, <1>4 DEF TypeOK, TrafficTypes

THEOREM ProvisioningTypeCorrect == Spec => []TypeOK
BY DataAlways, BillAlways, TypesHold, PTL

=============================================================================
