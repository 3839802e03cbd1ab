---------------------------- MODULE SequenceFacts ----------------------------
(***************************************************************************)
(* The elements of a sequence under the operations of a channel: append,    *)
(* head and tail, concatenation; and what a loop collects that goes through *)
(* a sequence and appends some of it to another.                           *)
(***************************************************************************)
EXTENDS SequenceTheorems, WellFoundedInduction, TLAPS

LEMMA RangeOfEmpty == Range(<<>>) = {}
  BY DEF Range

LEMMA RangeOfSingle == ASSUME NEW e PROVE Range(<<e>>) = {e}
  BY DEF Range

LEMMA RangeOfAppend ==
  ASSUME NEW S, NEW s \in Seq(S), NEW e \in S
  PROVE  Range(Append(s, e)) = Range(s) \cup {e}
<1>1. ASSUME NEW x \in Range(Append(s, e)) PROVE x \in Range(s) \cup {e}
  BY <1>1 DEF Range
<1>2. ASSUME NEW x \in Range(s) PROVE x \in Range(Append(s, e))
  <2>1. PICK i \in DOMAIN s : x = s[i] BY <1>2 DEF Range
  <2>2. i \in DOMAIN Append(s, e) /\ Append(s, e)[i] = s[i] BY <2>1
  <2>3. QED BY <2>1, <2>2 DEF Range
<1>3. e \in Range(Append(s, e))
  <2>1. Len(s) + 1 \in DOMAIN Append(s, e) /\ Append(s, e)[Len(s) + 1] = e
    OBVIOUS
  <2>2. QED BY <2>1 DEF Range
<1>4. QED BY <1>1, <1>2, <1>3

LEMMA AppendNotEmpty ==
  ASSUME NEW S, NEW s \in Seq(S), NEW e \in S
  PROVE  Append(s, e) # <<>>
<1>1. Len(Append(s, e)) = Len(s) + 1 /\ Len(s) \in Nat
  OBVIOUS
<1>2. Len(<<>>) = 0
  OBVIOUS
<1>3. QED BY <1>1, <1>2

LEMMA RangeOfTail ==
  ASSUME NEW S, NEW s \in Seq(S), s # <<>>
  PROVE  /\ Head(s) \in S
         /\ Tail(s) \in Seq(S)
         /\ Range(s) = {Head(s)} \cup Range(Tail(s))
<1>1. Head(s) \in S /\ Tail(s) \in Seq(S) /\ Len(s) >= 1
  OBVIOUS
<1>2. ASSUME NEW x \in Range(s) PROVE x \in {Head(s)} \cup Range(Tail(s))
  <2>1. PICK i \in DOMAIN s : x = s[i] BY <1>2 DEF Range
  <2>2. CASE i = 1 BY <2>1, <2>2
  <2>3. CASE i # 1
    <3>1. i - 1 \in DOMAIN Tail(s) /\ Tail(s)[i - 1] = s[i] BY <2>1, <2>3, <1>1
    <3>2. QED BY <2>1, <3>1 DEF Range
  <2>4. QED BY <2>2, <2>3
<1>3. ASSUME NEW x \in Range(Tail(s)) PROVE x \in Range(s)
  <2>1. PICK i \in DOMAIN Tail(s) : x = Tail(s)[i] BY <1>3 DEF Range
  <2>2. i + 1 \in DOMAIN s /\ s[i + 1] = Tail(s)[i] BY <2>1, <1>1
  <2>3. QED BY <2>1, <2>2 DEF Range
<1>4. Head(s) \in Range(s)
  BY <1>1 DEF Range
<1>5. QED BY <1>1, <1>2, <1>3, <1>4

LEMMA RangeOfConcat ==
  ASSUME NEW S, NEW s \in Seq(S), NEW t \in Seq(S)
  PROVE  /\ s \o t \in Seq(S)
         /\ Range(s \o t) = Range(s) \cup Range(t)
<1>1. s \o t \in Seq(S) /\ Len(s \o t) = Len(s) + Len(t)
  OBVIOUS
<1>2. ASSUME NEW x \in Range(s \o t) PROVE x \in Range(s) \cup Range(t)
  <2>1. PICK i \in DOMAIN (s \o t) : x = (s \o t)[i] BY <1>2 DEF Range
  <2>2. CASE i <= Len(s)
    <3>1. i \in DOMAIN s /\ (s \o t)[i] = s[i] BY <2>1, <2>2, <1>1
    <3>2. QED BY <2>1, <3>1 DEF Range
  <2>3. CASE i > Len(s)
    <3>1. i - Len(s) \in DOMAIN t /\ (s \o t)[i] = t[i - Len(s)]
      BY <2>1, <2>3, <1>1
    <3>2. QED BY <2>1, <3>1 DEF Range
  <2>4. QED BY <2>1, <2>2, <2>3, <1>1
<1>3. ASSUME NEW x \in Range(s) PROVE x \in Range(s \o t)
  <2>1. PICK i \in DOMAIN s : x = s[i] BY <1>3 DEF Range
  <2>2. i \in DOMAIN (s \o t) /\ (s \o t)[i] = s[i] BY <2>1, <1>1
  <2>3. QED BY <2>1, <2>2 DEF Range
<1>4. ASSUME NEW x \in Range(t) PROVE x \in Range(s \o t)
  <2>1. PICK i \in DOMAIN t : x = t[i] BY <1>4 DEF Range
  <2>2. i + Len(s) \in DOMAIN (s \o t) /\ (s \o t)[i + Len(s)] = t[i]
    BY <2>1, <1>1
  <2>3. QED BY <2>1, <2>2 DEF Range
<1>5. QED BY <1>1, <1>2, <1>3, <1>4

-----------------------------------------------------------------------------
(* Loops.  Induction is by a least counterexample, which exists because the *)
(* naturals are well ordered.                                              *)

LEMMA LeastElement ==
  ASSUME NEW T \in SUBSET Nat, T # {}
  PROVE  \E n \in T : \A m \in T : n <= m
<1> DEFINE R == OpToRel(<, Nat)
<1>1. \A a, b \in Nat : <<a, b>> \in R <=> a < b BY DEF OpToRel
<1>2. IsWellFoundedOn(R, Nat) BY NatLessThanWellFounded, Zenon
<1> HIDE DEF R
<1>3. PICK n \in T : \A m \in T : ~(<<m, n>> \in R) BY <1>2, WFMin, Zenon
<1>4. ASSUME NEW m \in T PROVE n <= m
  <2>1. m \in Nat /\ n \in Nat OBVIOUS
  <2>2. ~(m < n) BY <1>1, <1>3, <2>1
  <2>3. QED BY <2>1, <2>2
<1>5. QED BY <1>3, <1>4

LEMMA SetInduction ==
  ASSUME NEW N \in Nat, NEW T \in SUBSET (0..N), 0 \in T,
         \A n \in T : n < N => n + 1 \in T
  PROVE  T = 0..N
<1> SUFFICES ASSUME T # 0..N PROVE FALSE OBVIOUS
<1> DEFINE C == (0..N) \ T
<1>1. C # {} /\ C \in SUBSET Nat
  <2>1. \A n \in 0..N : n \in Nat OBVIOUS
  <2>2. PICK n \in 0..N : n \notin T OBVIOUS
  <2>3. n \in C BY <2>2
  <2>4. QED BY <2>1, <2>3
<1>2. PICK c \in C : \A m \in C : c <= m BY <1>1, LeastElement, Zenon
<1>3. c \in 1..N OBVIOUS
<1>4. c - 1 \in 0..N /\ c - 1 < N /\ c - 1 < c BY <1>3
<1>5. c - 1 \in T BY <1>2, <1>3, <1>4
<1>6. QED BY <1>3, <1>4, <1>5

(* out is what the loop has appended after n of N elements: those of keep,  *)
(* as shown.                                                               *)
Collects(out, N, keep, shown) ==
  out = [n \in 0..N |->
           IF n = 0 THEN <<>>
           ELSE IF n \in keep THEN Append(out[n - 1], shown[n]) ELSE out[n - 1]]

LEMMA LoopDefined ==
  ASSUME NEW N \in Nat, NEW keep, NEW shown
  PROVE  \E out : Collects(out, N, keep, shown)
<1> DEFINE T == {n \in 0..N : \E out : Collects(out, n, keep, shown)}
<1>1. 0 \in T
  <2> DEFINE f == [n \in 0..0 |-> <<>>]
  <2>1. Collects(f, 0, keep, shown) BY DEF Collects
  <2>2. QED BY <2>1
<1>2. ASSUME NEW n \in T, n < N PROVE n + 1 \in T
  <2>1. PICK out : Collects(out, n, keep, shown) OBVIOUS
  <2> DEFINE f == [m \in 0..n + 1 |->
                     IF m <= n THEN out[m]
                     ELSE IF m \in keep THEN Append(out[n], shown[m]) ELSE out[n]]
             Step(g, m) == IF m = 0 THEN <<>>
                           ELSE IF m \in keep THEN Append(g[m - 1], shown[m]) ELSE g[m - 1]
  <2>2. \A m \in 0..n : out[m] = Step(out, m) BY <2>1 DEF Collects
  <2>3. ASSUME NEW m \in 0..n + 1 PROVE f[m] = Step(f, m)
    <3>1. CASE m = n + 1 BY <3>1
    <3>2. CASE m \in 1..n
      <4>1. f[m] = out[m] /\ f[m - 1] = out[m - 1] BY <3>2
      <4>2. m \in 0..n BY <3>2
      <4> HIDE DEF f
      <4>3. QED BY <2>2, <4>1, <4>2
    <3>3. CASE m = 0 BY <2>2, <3>3
    <3>4. QED BY <3>1, <3>2, <3>3
  <2>4. f = [m \in 0..n + 1 |-> Step(f, m)]
    <3>1. f = [m \in 0..n + 1 |-> f[m]] OBVIOUS
    <3> HIDE DEF f, Step
    <3>2. QED BY <2>3, <3>1
  <2>5. Collects(f, n + 1, keep, shown)
    <3> HIDE DEF f
    <3>1. QED BY <2>4 DEF Collects
  <2>6. QED BY <2>5
<1> HIDE DEF T
<1>3. T = 0..N BY <1>1, <1>2, SetInduction DEF T
<1>4. QED BY <1>3 DEF T

(* What is collected by then is what is kept, in its order: from[i] is the  *)
(* position of the i-th element of s.                                      *)
Origin(from, s, n, keep, shown) ==
  /\ from \in [1..Len(s) -> Nat]
  /\ \A i \in 1..Len(s) : from[i] \in 1..n /\ from[i] \in keep /\ s[i] = shown[from[i]]
  /\ \A i, j \in 1..Len(s) : i < j => from[i] < from[j]
  /\ \A k \in 1..n : k \in keep => \E i \in 1..Len(s) : from[i] = k
Gathered(s, n, keep, shown) == \E from : Origin(from, s, n, keep, shown)

LEMMA GatheredNothing ==
  ASSUME NEW keep, NEW shown
  PROVE  Gathered(<<>>, 0, keep, shown)
<1> DEFINE from == [i \in 1..0 |-> 0]
<1>1. Len(<<>>) = 0 /\ 1..0 = {} OBVIOUS
<1>2. from \in [1..Len(<<>>) -> Nat] BY <1>1
<1> HIDE DEF from
<1>3. Origin(from, <<>>, 0, keep, shown) BY <1>1, <1>2 DEF Origin
<1>4. QED BY <1>3 DEF Gathered

LEMMA GatheredNoMore ==
  ASSUME NEW S, NEW s \in Seq(S), NEW n \in Nat, NEW keep, NEW shown, n + 1 \notin keep,
         Gathered(s, n, keep, shown)
  PROVE  Gathered(s, n + 1, keep, shown)
<1>1. PICK from : Origin(from, s, n, keep, shown) BY DEF Gathered
<1>2. \A k \in 1..n + 1 : k \in keep => k \in 1..n OBVIOUS
<1>3. \A k \in 1..n : k \in 1..n + 1 OBVIOUS
<1>4. Origin(from, s, n + 1, keep, shown) BY <1>1, <1>2, <1>3 DEF Origin
<1>5. QED BY <1>4 DEF Gathered

LEMMA GatheredOneMore ==
  ASSUME NEW S, NEW s \in Seq(S), NEW n \in Nat, NEW keep, NEW shown, n + 1 \in keep,
         shown[n + 1] \in S, Gathered(s, n, keep, shown)
  PROVE  Gathered(Append(s, shown[n + 1]), n + 1, keep, shown)
<1> DEFINE t == Append(s, shown[n + 1])
           l == Len(s)
<1>1. l \in Nat /\ Len(t) = l + 1 /\ t[l + 1] = shown[n + 1] /\ \A i \in 1..l : t[i] = s[i]
  OBVIOUS
<1>2. PICK from :
        /\ from \in [1..l -> Nat]
        /\ \A i \in 1..l : from[i] \in 1..n /\ from[i] \in keep /\ s[i] = shown[from[i]]
        /\ \A i, j \in 1..l : i < j => from[i] < from[j]
        /\ \A k \in 1..n : k \in keep => \E i \in 1..l : from[i] = k
  BY DEF Gathered, Origin
<1> DEFINE g == [i \in 1..l + 1 |-> IF i = l + 1 THEN n + 1 ELSE from[i]]
<1> HIDE DEF t, l
<1>3. g \in [1..l + 1 -> Nat] /\ g[l + 1] = n + 1 /\ \A i \in 1..l : g[i] = from[i]
  BY <1>1, <1>2
<1> HIDE DEF g
<1>4. ASSUME NEW i \in 1..l + 1
      PROVE  g[i] \in 1..n + 1 /\ g[i] \in keep /\ t[i] = shown[g[i]]
  <2>1. CASE i = l + 1 BY <1>1, <1>3, <2>1
  <2>2. CASE i \in 1..l
    <3>1. from[i] \in 1..n /\ from[i] \in keep /\ s[i] = shown[from[i]] BY <1>2, <2>2
    <3>2. g[i] = from[i] /\ t[i] = s[i] BY <1>1, <1>3, <2>2
    <3>3. QED BY <3>1, <3>2
  <2>3. QED BY <1>1, <2>1, <2>2
<1>5. ASSUME NEW i \in 1..l + 1, NEW j \in 1..l + 1, i < j PROVE g[i] < g[j]
  <2>1. i \in 1..l BY <1>1, <1>5
  <2>2. from[i] \in 1..n /\ g[i] = from[i] BY <1>2, <1>3, <2>1
  <2>3. CASE j = l + 1 BY <1>3, <2>2, <2>3
  <2>4. CASE j \in 1..l
    <3>1. g[j] = from[j] /\ from[i] < from[j] BY <1>2, <1>3, <1>5, <2>1, <2>4
    <3>2. QED BY <2>2, <3>1
  <2>5. QED BY <1>1, <2>3, <2>4
<1>6. ASSUME NEW k \in 1..n + 1, k \in keep PROVE \E i \in 1..l + 1 : g[i] = k
  <2>1. CASE k = n + 1
    <3>1. l + 1 \in 1..l + 1 BY <1>1
    <3>2. QED BY <1>3, <2>1, <3>1
  <2>2. CASE k \in 1..n
    <3>1. PICK i \in 1..l : from[i] = k BY <1>2, <1>6, <2>2
    <3>2. i \in 1..l + 1 BY <1>1
    <3>3. QED BY <1>3, <3>1, <3>2
  <2>3. QED BY <2>1, <2>2
<1>7. Origin(g, t, n + 1, keep, shown) BY <1>1, <1>3, <1>4, <1>5, <1>6 DEF Origin
<1>8. QED BY <1>7 DEF Gathered, t

LEMMA LoopCollects ==
  ASSUME NEW N \in Nat, NEW keep, NEW shown, NEW S, NEW out,
         Collects(out, N, keep, shown), \A n \in 1..N : shown[n] \in S
  PROVE  out[N] \in Seq(S) /\ Gathered(out[N], N, keep, shown)
<1> DEFINE T == {n \in 0..N : out[n] \in Seq(S) /\ Gathered(out[n], n, keep, shown)}
<1>1. 0 \in T
  <2>1. out[0] = <<>> BY DEF Collects
  <2>2. <<>> \in Seq(S) /\ 0 \in 0..N OBVIOUS
  <2>3. Gathered(out[0], 0, keep, shown) BY <2>1, GatheredNothing
  <2>4. QED BY <2>1, <2>2, <2>3
<1>2. ASSUME NEW n \in T, n < N PROVE n + 1 \in T
  <2>1. /\ n \in Nat /\ n + 1 \in 1..N /\ n + 1 \in 0..N
        /\ out[n] \in Seq(S) /\ Gathered(out[n], n, keep, shown)
    BY <1>2
  <2>2. out[n + 1] = IF n + 1 \in keep THEN Append(out[n], shown[n + 1]) ELSE out[n]
    <3>1. n + 1 # 0 /\ (n + 1) - 1 = n BY <2>1
    <3>2. QED BY <2>1, <3>1 DEF Collects
  <2>3. shown[n + 1] \in S BY <2>1
  <2>4. CASE n + 1 \in keep
    <3>1. out[n + 1] = Append(out[n], shown[n + 1]) BY <2>2, <2>4
    <3>2. Gathered(out[n + 1], n + 1, keep, shown)
      BY <2>1, <2>3, <2>4, <3>1, GatheredOneMore
    <3>3. out[n + 1] \in Seq(S) BY <2>1, <2>3, <3>1
    <3>4. QED BY <2>1, <3>2, <3>3
  <2>5. CASE n + 1 \notin keep
    <3>1. Gathered(out[n + 1], n + 1, keep, shown)
      BY <2>1, <2>2, <2>5, GatheredNoMore
    <3>2. QED BY <2>1, <2>2, <2>5, <3>1
  <2>6. QED BY <2>4, <2>5
<1> HIDE DEF T
<1>3. T = 0..N BY <1>1, <1>2, SetInduction DEF T
<1>4. N \in T BY <1>3
<1>5. QED BY <1>4 DEF T

=============================================================================
