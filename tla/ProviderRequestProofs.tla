------------------------ MODULE ProviderRequestProofs ------------------------
(***************************************************************************)
(* Proofs about the requests made of a history, as a part of Services, for   *)
(* every value of the constants.  A request grows with its history: the      *)
(* lemmas say what one more message adds to it, and the invariant of the     *)
(* turns what it has so far, in terms of the answers of the model and of     *)
(* the calls given up.                                                       *)
(***************************************************************************)
EXTENDS Services, SequenceTheorems, FiniteSetTheorems, TLAPS

-----------------------------------------------------------------------------
\* Of the proofs about RunLoop the lemmas about numbers and sums are used here.
LoopProofs == INSTANCE RunLoopProofs WITH pc <- loopPc, ctxDone <- runDone,
                                          Costs <- ResponseCosts

-----------------------------------------------------------------------------
(***************************************************************************)
(* ProviderRequest: what a loop that appends to a slice leaves in it.      *)
(***************************************************************************)
Slices(f, S, s, I) ==
  /\ f \in [0 .. Len(s) -> Seq(S)] /\ f[0] = <<>>
  /\ \A k \in 1 .. Len(s) : f[k] = IF k \in I THEN Append(f[k - 1], s[k]) ELSE f[k - 1]

LEMMA SlicesExist ==
  ASSUME NEW S, NEW s \in Seq(S), NEW I
  PROVE  \E f : Slices(f, S, s, I) /\ Requests!Selected(s, I) = f[Len(s)]
<1> DEFINE N == Len(s)
           Recurs(g) == g = [k \in 0 .. N |->
                               IF k = 0 THEN <<>>
                               ELSE IF k \in I THEN Append(g[k - 1], s[k]) ELSE g[k - 1]]
           f == CHOOSE g : Recurs(g)
<1>1. Requests!Selected(s, I) = f[N]
    BY Zenon DEF Requests!Selected
<1>2. N \in Nat /\ \A k \in 1 .. N : s[k] \in S
    OBVIOUS
<1> HIDE DEF N
<1>3. \A k \in 0 .. N : k # 0 => k \in 1 .. N /\ k - 1 \in 0 .. N
    BY <1>2
<1>4. <<>> \in Seq(S)
    BY EmptySeq
<1>5. \E g \in [0 .. N -> Seq(S)] : Recurs(g)
  <2> DEFINE take == [p \in (1 .. N) \X Seq(S) |->
                        IF p[1] \in I THEN Append(p[2], s[p[1]]) ELSE p[2]]
  <2>1. take \in [(1 .. N) \X Seq(S) -> Seq(S)]
    <3>1. ASSUME NEW k \in 1 .. N, NEW x \in Seq(S) PROVE Append(x, s[k]) \in Seq(S)
        BY <1>2, AppendProperties
    <3> QED BY <3>1
  <2> HIDE DEF take
  <2>2. PICK g \in [0 .. N -> Seq(S)] : LoopProofs!Recursion(g, <<>>, take, N)
      BY <1>2, <1>4, <2>1, LoopProofs!RecursionExists
  <2>3. \A k \in 0 .. N : k # 0 =>
          take[<<k, g[k - 1]>>] = IF k \in I THEN Append(g[k - 1], s[k]) ELSE g[k - 1]
      BY <1>3 DEF take
  <2>4. Recurs(g)
      BY <2>2, <2>3 DEF LoopProofs!Recursion
  <2> HIDE DEF Recurs
  <2> QED BY <2>4
<1>6. Recurs(f)
  <2> HIDE DEF Recurs
  <2> QED BY <1>5
<1> HIDE DEF f
<1>7. f[0] = <<>>
  <2>1. 0 \in 0 .. N
      BY <1>2
  <2> QED BY <1>6, <2>1, Zenon
<1>8. \A k \in 1 .. N : f[k] = IF k \in I THEN Append(f[k - 1], s[k]) ELSE f[k - 1]
  <2>1. \A k \in 1 .. N : k \in 0 .. N /\ k # 0
      BY <1>2
  <2> QED BY <1>6, <2>1, Zenon
<1>9. f \in [0 .. N -> Seq(S)]
  <2>1. DOMAIN f = 0 .. N /\ f = [k \in DOMAIN f |-> f[k]]
      BY <1>6
  <2> DEFINE P == {k \in 0 .. N : \A j \in 0 .. k : f[j] \in Seq(S)}
  <2>2. 0 \in P
    <3>1. 0 \in 0 .. N /\ \A j \in 0 .. 0 : j = 0
        BY <1>2
    <3>2. f[0] \in Seq(S)
        BY <1>4, <1>7, Zenon
    <3> QED BY <3>1, <3>2
  <2>3. ASSUME NEW k \in P, k < N PROVE k + 1 \in P
    <3>1. k \in Nat /\ k + 1 \in 1 .. N /\ k + 1 \in 0 .. N /\ (k + 1) - 1 = k
        BY <1>2, <2>3
    <3>2. f[k] \in Seq(S) /\ s[k + 1] \in S
        BY <1>2, <3>1
    <3>3. f[k + 1] = IF k + 1 \in I THEN Append(f[k], s[k + 1]) ELSE f[k]
        BY <1>8, <3>1
    <3>4. Append(f[k], s[k + 1]) \in Seq(S)
        BY <3>2, AppendProperties
    <3>5. f[k + 1] \in Seq(S)
        BY <3>2, <3>3, <3>4
    <3>6. \A j \in 0 .. k + 1 : j \in 0 .. k \/ j = k + 1
        BY <3>1
    <3> QED BY <3>1, <3>5, <3>6
  <2>4. N \in P
    <3>1. P \in SUBSET (0 .. N)
        OBVIOUS
    <3> HIDE DEF P
    <3> QED BY <1>2, <2>2, <2>3, <3>1, LoopProofs!UpTo
  <2>5. \A k \in 0 .. N : f[k] \in Seq(S)
      BY <2>4
  <2> QED BY <2>1, <2>5
<1> QED BY <1>1, <1>7, <1>8, <1>9 DEF Slices, N

\* What is true of nothing, and stays true when the loop takes one more step,
\* is true of what it leaves.
LEMMA SelectedIs ==
  ASSUME NEW S, NEW s \in Seq(S), NEW I,
         NEW P \in SUBSET ((0 .. Len(s)) \X Seq(S)), <<0, <<>>>> \in P,
         \A k \in 0 .. Len(s), x \in Seq(S) :
           k < Len(s) /\ <<k, x>> \in P
             => <<k + 1, IF k + 1 \in I THEN Append(x, s[k + 1]) ELSE x>> \in P
  PROVE  Requests!Selected(s, I) \in Seq(S) /\ <<Len(s), Requests!Selected(s, I)>> \in P
<1> DEFINE N == Len(s)
<1>1. PICK f : Slices(f, S, s, I) /\ Requests!Selected(s, I) = f[N]
    BY SlicesExist
<1>2. N \in Nat
    OBVIOUS
<1> HIDE DEF N
<1>3. /\ f \in [0 .. N -> Seq(S)] /\ f[0] = <<>>
      /\ \A k \in 1 .. N : f[k] = IF k \in I THEN Append(f[k - 1], s[k]) ELSE f[k - 1]
    BY <1>1 DEF Slices, N
<1> DEFINE Q == {k \in 0 .. N : <<k, f[k]>> \in P}
<1>4. 0 \in Q
  <2>1. 0 \in 0 .. N
      BY <1>2
  <2> QED BY <1>3, <2>1, Zenon
<1>5. ASSUME NEW k \in Q, k < N PROVE k + 1 \in Q
  <2>1. k \in 0 .. N /\ k + 1 \in 1 .. N /\ k + 1 \in 0 .. N /\ (k + 1) - 1 = k
      BY <1>2, <1>5
  <2>2. f[k + 1] = IF k + 1 \in I THEN Append(f[k], s[k + 1]) ELSE f[k]
      BY <1>3, <2>1
  <2>3. f[k] \in Seq(S) /\ <<k, f[k]>> \in P
      BY <1>3, <1>5, <2>1
  <2>4. <<k + 1, f[k + 1]>> \in P
      BY <1>5, <2>1, <2>2, <2>3 DEF N
  <2> QED BY <2>1, <2>4
<1>6. N \in Q
  <2>1. Q \in SUBSET (0 .. N)
      OBVIOUS
  <2> HIDE DEF Q
  <2> QED BY <1>2, <1>4, <1>5, <2>1, LoopProofs!UpTo
<1>7. N \in 0 .. N
    BY <1>2
<1> QED BY <1>1, <1>3, <1>6, <1>7 DEF N

\* What it leaves are elements that were chosen; it is empty if none was.
LEMMA SelectedFrom ==
  ASSUME NEW S, NEW s \in Seq(S), NEW I
  PROVE  /\ Requests!Selected(s, I) \in Seq(S)
         /\ \A j \in 1 .. Len(Requests!Selected(s, I)) :
              \E i \in 1 .. Len(s) : i \in I /\ Requests!Selected(s, I)[j] = s[i]
         /\ Len(Requests!Selected(s, I)) = 0 <=> \A i \in 1 .. Len(s) : i \notin I
<1> DEFINE N == Len(s)
           Good(k, x) == /\ \A j \in 1 .. Len(x) : \E i \in 1 .. k : i \in I /\ x[j] = s[i]
                         /\ Len(x) = 0 <=> \A i \in 1 .. k : i \notin I
           P == {p \in (0 .. N) \X Seq(S) : Good(p[1], p[2])}
<1>1. N \in Nat /\ \A k \in 1 .. N : s[k] \in S
    OBVIOUS
<1>2. <<0, <<>>>> \in P
  <2> DEFINE none == <<>>
  <2>1. none \in Seq(S) /\ Len(none) = 0
      BY EmptySeq
  <2> HIDE DEF none
  <2>2. Good(0, none)
      BY <2>1
  <2> HIDE DEF Good, N
  <2>3. 0 \in 0 .. N
      BY <1>1
  <2>4. <<0, none>> \in P
      BY <2>1, <2>2, <2>3
  <2> QED BY <2>4, Zenon DEF none
<1> HIDE DEF N
<1>3. ASSUME NEW k \in 0 .. N, NEW x \in Seq(S), k < N, <<k, x>> \in P
      PROVE  <<k + 1, IF k + 1 \in I THEN Append(x, s[k + 1]) ELSE x>> \in P
  <2>1. /\ k \in Nat /\ k + 1 \in 0 .. N /\ k + 1 \in 1 .. N
        /\ \A i \in 1 .. k + 1 : i \in 1 .. k \/ i = k + 1
        /\ \A i \in 1 .. k : i \in 1 .. k + 1
        /\ k + 1 \in 1 .. k + 1
      BY <1>1, <1>3
  <2>2. Good(k, x)
      BY <1>3
  <2> HIDE DEF P
  <2>3. CASE k + 1 \notin I
    <3>1. Good(k + 1, x)
        BY <2>1, <2>2, <2>3
    <3> HIDE DEF Good
    <3> QED BY <2>1, <2>3, <3>1 DEF P
  <2>4. CASE k + 1 \in I
    <3> DEFINE y == Append(x, s[k + 1])
    <3>1. /\ y \in Seq(S) /\ Len(y) = Len(x) + 1 /\ y[Len(x) + 1] = s[k + 1]
          /\ \A j \in 1 .. Len(x) : y[j] = x[j]
        BY <1>1, <2>1, AppendProperties
    <3> HIDE DEF y
    <3>2. Len(x) \in Nat /\ Len(y) # 0
        BY <3>1
    <3>3. ASSUME NEW j \in 1 .. Len(y)
          PROVE  \E i \in 1 .. k + 1 : i \in I /\ y[j] = s[i]
      <4>1. j \in 1 .. Len(x) \/ j = Len(x) + 1
          BY <3>1, <3>2
      <4> QED BY <2>1, <2>2, <2>4, <3>1, <4>1
    <3>4. Good(k + 1, y)
        BY <2>1, <2>4, <3>2, <3>3
    <3> HIDE DEF Good
    <3> QED BY <2>1, <2>4, <3>1, <3>4 DEF P, y
  <2> QED BY <2>3, <2>4
<1>4. Requests!Selected(s, I) \in Seq(S) /\ <<N, Requests!Selected(s, I)>> \in P
  <2>1. P \in SUBSET ((0 .. N) \X Seq(S))
      OBVIOUS
  <2> HIDE DEF P
  <2> QED BY <1>2, <1>3, <2>1, SelectedIs DEF N
<1>5. Good(N, Requests!Selected(s, I))
    BY <1>4
<1> QED BY <1>4, <1>5 DEF N

\* The places chosen are one range.
IsRange(x, s, a, b) == Len(x) = b - a /\ \A j \in 1 .. b - a : x[j] = s[a + j]

LEMMA SelectedRange ==
  ASSUME NEW S, NEW s \in Seq(S), NEW I, NEW a \in Nat, NEW b \in Nat, a <= b, b <= Len(s),
         \A i \in 1 .. Len(s) : i \in I <=> a < i /\ i <= b
  PROVE  Requests!Selected(s, I) \in Seq(S) /\ IsRange(Requests!Selected(s, I), s, a, b)
<1> DEFINE N == Len(s)
           Size(k) == IF k <= a THEN 0 ELSE IF k <= b THEN k - a ELSE b - a
           Good(k, x) == Len(x) = Size(k) /\ \A j \in 1 .. Size(k) : x[j] = s[a + j]
           P == {p \in (0 .. N) \X Seq(S) : Good(p[1], p[2])}
<1>1. N \in Nat /\ \A k \in 1 .. N : s[k] \in S
    OBVIOUS
<1>2. <<0, <<>>>> \in P
  <2> DEFINE none == <<>>
  <2>1. none \in Seq(S) /\ Len(none) = 0 /\ Size(0) = 0
      BY EmptySeq
  <2> HIDE DEF none
  <2>2. Good(0, none)
    <3> HIDE DEF Size
    <3> QED BY <2>1
  <2> HIDE DEF Good, N
  <2>3. 0 \in 0 .. N
      BY <1>1
  <2>4. <<0, none>> \in P
      BY <2>1, <2>2, <2>3
  <2> QED BY <2>4, Zenon DEF none
<1> HIDE DEF N
<1>3. ASSUME NEW k \in 0 .. N, NEW x \in Seq(S), k < N, <<k, x>> \in P
      PROVE  <<k + 1, IF k + 1 \in I THEN Append(x, s[k + 1]) ELSE x>> \in P
  <2>1. /\ k \in Nat /\ k + 1 \in 0 .. N /\ k + 1 \in 1 .. N
        /\ k + 1 \in I <=> a <= k /\ k < b
      BY <1>1, <1>3 DEF N
  <2>2. Good(k, x)
      BY <1>3
  <2> HIDE DEF P
  <2>3. CASE k + 1 \notin I
    <3>1. Size(k + 1) = Size(k)
        BY <2>1, <2>3
    <3>2. Good(k + 1, x)
      <4> HIDE DEF Size
      <4> QED BY <2>2, <3>1
    <3> HIDE DEF Good
    <3> QED BY <2>1, <2>3, <3>2 DEF P
  <2>4. CASE k + 1 \in I
    <3> DEFINE y == Append(x, s[k + 1])
    <3>1. /\ y \in Seq(S) /\ Len(y) = Len(x) + 1 /\ y[Len(x) + 1] = s[k + 1]
          /\ \A j \in 1 .. Len(x) : y[j] = x[j]
        BY <1>1, <2>1, AppendProperties
    <3> HIDE DEF y
    <3>2. Size(k) = k - a /\ Size(k) \in Nat /\ Size(k + 1) = Size(k) + 1
          /\ a + (Size(k) + 1) = k + 1
        BY <2>1, <2>4
    <3>3. Good(k + 1, y)
      <4> HIDE DEF Size
      <4>1. Len(x) = Size(k) /\ \A j \in 1 .. Size(k) : x[j] = s[a + j]
          BY <2>2
      <4>2. \A j \in 1 .. Size(k) + 1 : j \in 1 .. Size(k) \/ j = Size(k) + 1
          BY <3>2
      <4>3. \A j \in 1 .. Size(k) + 1 : y[j] = s[a + j]
          BY <3>1, <3>2, <4>1, <4>2
      <4>4. Len(y) = Size(k + 1)
          BY <3>1, <3>2, <4>1
      <4> QED BY <3>2, <4>3, <4>4
    <3> HIDE DEF Good
    <3> QED BY <2>1, <2>4, <3>1, <3>3 DEF P, y
  <2> QED BY <2>3, <2>4
<1>4. Requests!Selected(s, I) \in Seq(S) /\ <<N, Requests!Selected(s, I)>> \in P
  <2>1. P \in SUBSET ((0 .. N) \X Seq(S))
      OBVIOUS
  <2> HIDE DEF P
  <2> QED BY <1>2, <1>3, <2>1, SelectedIs DEF N
<1>5. Size(N) = b - a
    BY <1>1 DEF N
<1>6. Good(N, Requests!Selected(s, I))
  <2> HIDE DEF Good
  <2> QED BY <1>4
<1> HIDE DEF Size
<1> QED BY <1>4, <1>5, <1>6 DEF IsRange

-----------------------------------------------------------------------------
\* What a loop leaves when it goes on: what it had, and one more if it chooses
\* the only one it sees then.
LEMMA SelectedGrows ==
  ASSUME NEW S, NEW s \in Seq(S), NEW t \in Seq(S), NEW I, NEW J,
         \A i \in 1 .. Len(s) : i \in I <=> i \in J,
         \A i \in 1 .. Len(t) : Len(s) + i \in J => Len(t) = 1
  PROVE  Requests!Selected(s \o t, J) =
           IF Len(t) = 1 /\ Len(s) + 1 \in J
           THEN Append(Requests!Selected(s, I), t[1]) ELSE Requests!Selected(s, I)
<1> DEFINE n == Len(s)
           l == Len(t)
           u == s \o t
           more == Len(t) = 1 /\ Len(s) + 1 \in J
<1>1. PICK f : Slices(f, S, s, I) /\ Requests!Selected(s, I) = f[n]
    BY SlicesExist
<1>2. n \in Nat /\ l \in Nat
    OBVIOUS
<1>3. /\ u \in Seq(S) /\ Len(u) = n + l
      /\ \A i \in 1 .. n + l : u[i] = IF i <= n THEN s[i] ELSE t[i - n]
    BY ConcatProperties
<1>4. /\ f \in [0 .. n -> Seq(S)] /\ f[0] = <<>>
      /\ \A k \in 1 .. n : f[k] = IF k \in I THEN Append(f[k - 1], s[k]) ELSE f[k - 1]
    BY <1>1 DEF Slices
<1>5. \A i \in 1 .. n : i \in I <=> i \in J
    OBVIOUS
<1>6. /\ more => l = 1 /\ n + 1 \in J
      /\ ~ more => \A i \in 1 .. l : n + i \notin J
  <2>1. ASSUME NEW i \in 1 .. l, n + i \in J PROVE l = 1 /\ n + 1 \in J
    <3>1. l = 1
        BY <2>1
    <3>2. i = 1
        BY <3>1
    <3> QED BY <2>1, <3>1, <3>2
  <2> QED BY <2>1
<1> HIDE DEF n, l, u, more
<1> DEFINE end == IF more THEN Append(f[n], t[1]) ELSE f[n]
           Good(k, x) == x = IF k <= n THEN f[k] ELSE end
           P == {p \in (0 .. n + l) \X Seq(S) : Good(p[1], p[2])}
<1>7. <<0, <<>>>> \in P
  <2> DEFINE none == <<>>
  <2>1. none \in Seq(S) /\ f[0] = none
      BY <1>4, EmptySeq
  <2>2. 0 \in 0 .. n + l /\ 0 <= n
      BY <1>2
  <2> HIDE DEF none
  <2>3. Good(0, none)
      BY <2>1, <2>2
  <2> HIDE DEF Good
  <2>4. <<0, none>> \in P
      BY <2>1, <2>2, <2>3
  <2> QED BY <2>4, Zenon DEF none
<1>8. ASSUME NEW k \in 0 .. n + l, NEW x \in Seq(S), k < n + l, <<k, x>> \in P
      PROVE  <<k + 1, IF k + 1 \in J THEN Append(x, u[k + 1]) ELSE x>> \in P
  <2> DEFINE y == IF k + 1 \in J THEN Append(x, u[k + 1]) ELSE x
  <2>1. k \in Nat /\ k + 1 \in 0 .. n + l /\ k + 1 \in 1 .. n + l /\ (k + 1) - 1 = k
      BY <1>2, <1>8
  <2>2. Good(k, x)
      BY <1>8
  <2>3. y \in Seq(S)
    <3>1. u[k + 1] \in S
        BY <1>3, <2>1
    <3>2. Append(x, u[k + 1]) \in Seq(S)
        BY <3>1, AppendProperties
    <3> QED BY <3>2
  <2>4. Good(k + 1, y)
    <3>1. CASE k < n
      <4>1. k + 1 \in 1 .. n /\ k <= n /\ k + 1 <= n
          BY <1>2, <2>1, <3>1
      <4>2. x = f[k] /\ u[k + 1] = s[k + 1]
          BY <1>3, <2>1, <2>2, <4>1
      <4>3. f[k + 1] = IF k + 1 \in I THEN Append(f[k], s[k + 1]) ELSE f[k]
          BY <1>4, <2>1, <4>1
      <4>4. y = f[k + 1]
          BY <1>5, <4>1, <4>2, <4>3
      <4> QED BY <4>1, <4>4
    <3>2. CASE k = n
      <4>1. ~ k + 1 <= n /\ k <= n /\ x = f[n] /\ 1 \in 1 .. l /\ (n + 1) - n = 1
          BY <1>2, <1>8, <2>2, <3>2
      <4>2. u[n + 1] = t[1]
          BY <1>3, <2>1, <3>2, <4>1
      <4>3. y = end
          BY <1>6, <3>2, <4>1, <4>2
      <4> QED BY <4>1, <4>3
    <3>3. CASE k > n
      <4>1. ~ k + 1 <= n /\ ~ k <= n /\ l # 1 /\ (k + 1) - n \in 1 .. l
            /\ n + ((k + 1) - n) = k + 1
        <5>1. k \in Nat /\ k < n + l /\ k > n
            BY <1>8, <2>1, <3>3
        <5> QED BY <1>2, <5>1
      <4>2. k + 1 \notin J
          BY <1>6, <4>1
      <4>3. x = end /\ y = x
          BY <2>2, <4>1, <4>2
      <4> HIDE DEF end, y
      <4> QED BY <4>1, <4>3
    <3> QED BY <1>2, <2>1, <3>1, <3>2, <3>3
  <2> HIDE DEF Good, y
  <2>5. <<k + 1, y>> \in P
      BY <2>1, <2>3, <2>4
  <2> QED BY <2>5, Zenon DEF y
<1>9. <<n + l, Requests!Selected(u, J)>> \in P
  <2>1. P \in SUBSET ((0 .. Len(u)) \X Seq(S))
      BY <1>3
  <2>2. \A k \in 0 .. Len(u), x \in Seq(S) :
          k < Len(u) /\ <<k, x>> \in P
            => <<k + 1, IF k + 1 \in J THEN Append(x, u[k + 1]) ELSE x>> \in P
    <3> HIDE DEF P
    <3> QED BY <1>3, <1>8
  <2>3. u \in Seq(S) /\ Len(u) = n + l
      BY <1>3
  <2> HIDE DEF P
  <2>4. <<Len(u), Requests!Selected(u, J)>> \in P
      BY <1>7, <2>1, <2>2, <2>3, SelectedIs
  <2> QED BY <2>3, <2>4
<1>10. Good(n + l, Requests!Selected(u, J))
  <2> HIDE DEF Good
  <2> QED BY <1>9
<1>11. CASE n + l <= n
  <2>1. l = 0 /\ n + l = n
      BY <1>2, <1>11
  <2>2. ~ more
      BY <1>6, <2>1
  <2>3. Requests!Selected(u, J) = f[n]
      BY <1>2, <1>10, <2>1
  <2> QED BY <1>1, <2>2, <2>3 DEF n, u, more
<1>12. CASE ~ n + l <= n
  <2>1. Requests!Selected(u, J) = end
      BY <1>10, <1>12
  <2> QED BY <1>1, <2>1 DEF n, u, more
<1> QED BY <1>11, <1>12

LEMMA SelectedSame ==
  ASSUME NEW S, NEW s \in Seq(S), NEW t \in Seq(S), NEW I, NEW J,
         \A i \in 1 .. Len(s) : i \in I <=> i \in J,
         \A i \in 1 .. Len(t) : Len(s) + i \notin J
  PROVE  Requests!Selected(s \o t, J) = Requests!Selected(s, I)
<1>1. ASSUME Len(t) = 1 PROVE Len(s) + 1 \notin J
  <2>1. 1 \in 1 .. Len(t)
      BY <1>1
  <2> QED BY <2>1
<1>2. \A i \in 1 .. Len(t) : Len(s) + i \in J => Len(t) = 1
    OBVIOUS
<1>3. Requests!Selected(s \o t, J) =
        IF Len(t) = 1 /\ Len(s) + 1 \in J
        THEN Append(Requests!Selected(s, I), t[1]) ELSE Requests!Selected(s, I)
    BY <1>2, SelectedGrows
<1> QED BY <1>1, <1>3, Zenon

LEMMA SelectedMore ==
  ASSUME NEW S, NEW s \in Seq(S), NEW t \in Seq(S), NEW I, NEW J,
         \A i \in 1 .. Len(s) : i \in I <=> i \in J,
         Len(t) = 1, Len(s) + 1 \in J
  PROVE  Requests!Selected(s \o t, J) = Append(Requests!Selected(s, I), t[1])
<1>1. \A i \in 1 .. Len(t) : Len(s) + i \in J => Len(t) = 1
    OBVIOUS
<1> QED BY <1>1, SelectedGrows, Zenon

-----------------------------------------------------------------------------
(* The conversions                                                          *)
BlockSet == [type : {"text", "image", "thinking", "tool_use", "tool_result"},
             id : Nat, input : {"none", "nil", "object"}]
MessageSet == [role : {"user", "assistant"}, content : Seq(BlockSet)]
CallSet == [id : Nat, arguments : {"none", "null", "object", "junk"}]
SentSet == [role : {"system", "user", "assistant", "tool"}, text : Seq(Nat),
            calls : Seq(CallSet), answers : Nat]

LEMMA OpenAIFields ==
  ASSUME NEW r \in {"system", "user", "assistant", "tool"}, NEW t \in Seq(Nat),
         NEW c \in Seq(CallSet), NEW a \in Nat
  PROVE  /\ Requests!OpenAI(r, t, c, a) \in SentSet
         /\ Requests!OpenAI(r, t, c, a).role = r /\ Requests!OpenAI(r, t, c, a).text = t
         /\ Requests!OpenAI(r, t, c, a).calls = c /\ Requests!OpenAI(r, t, c, a).answers = a
  BY DEF Requests!OpenAI, SentSet

\* The blocks of a type.
LEMMA OfTypeIs ==
  ASSUME NEW c \in Seq(BlockSet), NEW type
  PROVE  /\ Requests!OfType(c, type) \in Seq(BlockSet)
         /\ \A j \in 1 .. Len(Requests!OfType(c, type)) :
              /\ Requests!OfType(c, type)[j].type = type
              /\ \E i \in 1 .. Len(c) : Requests!OfType(c, type)[j] = c[i]
         /\ Len(Requests!OfType(c, type)) = 0 <=> \A i \in 1 .. Len(c) : c[i].type # type
<1> DEFINE I == {i \in DOMAIN c : c[i].type = type}
           sel == Requests!Selected(c, I)
<1>1. DOMAIN c = 1 .. Len(c)
    OBVIOUS
<1>2. \A i \in 1 .. Len(c) : i \in I <=> c[i].type = type
    BY <1>1
<1>3. Requests!OfType(c, type) = sel
    BY DEF Requests!OfType
<1> HIDE DEF I
<1>4. /\ sel \in Seq(BlockSet)
      /\ \A j \in 1 .. Len(sel) : \E i \in 1 .. Len(c) : i \in I /\ sel[j] = c[i]
      /\ Len(sel) = 0 <=> \A i \in 1 .. Len(c) : i \notin I
    BY SelectedFrom
<1> HIDE DEF sel
<1> QED BY <1>2, <1>3, <1>4

\* A content of one type after another.
LEMMA OfTypeRange ==
  ASSUME NEW c \in Seq(BlockSet), NEW type, NEW a \in Nat, NEW b \in Nat, a <= b, b <= Len(c),
         \A i \in 1 .. Len(c) : c[i].type = type <=> a < i /\ i <= b
  PROVE  Requests!OfType(c, type) \in Seq(BlockSet) /\ IsRange(Requests!OfType(c, type), c, a, b)
<1> DEFINE I == {i \in DOMAIN c : c[i].type = type}
           sel == Requests!Selected(c, I)
<1>1. DOMAIN c = 1 .. Len(c)
    OBVIOUS
<1>2. \A i \in 1 .. Len(c) : i \in I <=> a < i /\ i <= b
    BY <1>1
<1>3. Requests!OfType(c, type) = sel
    BY DEF Requests!OfType
<1> HIDE DEF I
<1>4. sel \in Seq(BlockSet) /\ IsRange(sel, c, a, b)
    BY <1>2, SelectedRange, Zenon
<1> HIDE DEF sel
<1> QED BY <1>3, <1>4

LEMMA IdsAre ==
  ASSUME NEW c \in Seq(BlockSet)
  PROVE  /\ Requests!Ids(c) \in Seq(Nat) /\ Len(Requests!Ids(c)) = Len(c)
         /\ \A i \in 1 .. Len(c) : Requests!Ids(c)[i] = c[i].id
<1>1. DOMAIN c = 1 .. Len(c) /\ Len(c) \in Nat /\ \A i \in 1 .. Len(c) : c[i] \in BlockSet
    OBVIOUS
<1>2. Requests!Ids(c) = [i \in 1 .. Len(c) |-> c[i].id]
    BY <1>1, Zenon DEF Requests!Ids
<1>3. \A i \in 1 .. Len(c) : c[i].id \in Nat
    BY <1>1 DEF BlockSet
<1> QED BY <1>1, <1>2, <1>3

\* The message of an assistant becomes one, with a call for each tool use.
LEMMA AssistantSent ==
  ASSUME NEW c \in Seq(BlockSet)
  PROVE  LET uses == Requests!OfType(c, "tool_use")
             out == Requests!AssistantToOpenAI(c)
         IN  /\ out \in Seq(SentSet) /\ Len(out) = 1
             /\ out[1] \in SentSet /\ out[1].role = "assistant" /\ out[1].answers = 0
             /\ out[1].text = Requests!Ids(Requests!OfType(c, "text"))
             /\ Len(out[1].calls) = Len(uses)
             /\ \A i \in 1 .. Len(uses) : out[1].calls[i] = Requests!ToolCall(uses[i])
<1> DEFINE uses == Requests!OfType(c, "tool_use")
           texts == Requests!OfType(c, "text")
           calls == [i \in DOMAIN uses |-> Requests!ToolCall(uses[i])]
           x == Requests!OpenAI("assistant", Requests!Ids(texts), calls, 0)
<1>1. uses \in Seq(BlockSet) /\ Requests!Ids(texts) \in Seq(Nat)
    BY OfTypeIs, IdsAre
<1>2. Requests!AssistantToOpenAI(c) = <<x>>
    BY Zenon DEF Requests!AssistantToOpenAI
<1> HIDE DEF uses, texts
<1>3. DOMAIN uses = 1 .. Len(uses) /\ Len(uses) \in Nat
    BY <1>1
<1>4. \A i \in 1 .. Len(uses) : Requests!ToolCall(uses[i]) \in CallSet
  <2>1. \A i \in 1 .. Len(uses) : uses[i] \in BlockSet
      BY <1>1
  <2> QED BY <2>1 DEF Requests!ToolCall, BlockSet, CallSet
<1>5. calls = [i \in 1 .. Len(uses) |-> Requests!ToolCall(uses[i])]
    BY <1>3
<1> HIDE DEF calls
<1>6. /\ calls \in Seq(CallSet) /\ Len(calls) = Len(uses)
      /\ \A i \in 1 .. Len(uses) : calls[i] = Requests!ToolCall(uses[i])
    BY <1>3, <1>4, <1>5
<1>7. /\ x \in SentSet /\ x.role = "assistant" /\ x.text = Requests!Ids(texts)
      /\ x.calls = calls /\ x.answers = 0
    BY <1>1, <1>6, OpenAIFields
<1> HIDE DEF x
<1>8. <<x>> \in Seq(SentSet) /\ Len(<<x>>) = 1 /\ <<x>>[1] = x
    BY <1>7
<1> QED BY <1>2, <1>6, <1>7, <1>8 DEF uses, texts

\* The message of a user becomes one of its texts, if it has any, and one for
\* each result.
LEMMA UserSent ==
  ASSUME NEW c \in Seq(BlockSet)
  PROVE  LET results == Requests!OfType(c, "tool_result")
             out == Requests!UserToOpenAI(c)
         IN  \E k \in {0, 1} :
             /\ (\A i \in 1 .. Len(c) : c[i].type # "text") => k = 0
             /\ out \in Seq(SentSet) /\ Len(out) = k + Len(results)
             /\ k = 1 => out[1].role = "user" /\ out[1].calls = <<>>
             /\ \A i \in 1 .. Len(results) :
                  /\ out[k + i].role = "tool" /\ out[k + i].calls = <<>>
                  /\ out[k + i].answers = results[i].id
<1> DEFINE results == Requests!OfType(c, "tool_result")
           texts == Requests!OfType(c, "text")
           first == IF texts = <<>> THEN <<>>
                    ELSE <<Requests!OpenAI("user", Requests!Ids(texts), <<>>, 0)>>
           replies == [i \in DOMAIN results |-> Requests!OpenAI("tool", <<>>, <<>>, results[i].id)]
<1>1. /\ results \in Seq(BlockSet) /\ texts \in Seq(BlockSet) /\ Requests!Ids(texts) \in Seq(Nat)
      /\ Len(texts) = 0 <=> \A i \in 1 .. Len(c) : c[i].type # "text"
    BY OfTypeIs, IdsAre
<1>2. Requests!UserToOpenAI(c) = first \o replies
    BY Zenon DEF Requests!UserToOpenAI
<1> HIDE DEF results, texts
<1>3. DOMAIN results = 1 .. Len(results) /\ Len(results) \in Nat
    BY <1>1
<1>4. <<>> \in Seq(Nat) /\ <<>> \in Seq(CallSet) /\ <<>> \in Seq(SentSet) /\ Len(<<>>) = 0
    BY EmptySeq
<1>5. ASSUME NEW i \in 1 .. Len(results)
      PROVE  LET y == Requests!OpenAI("tool", <<>>, <<>>, results[i].id)
             IN  y \in SentSet /\ y.role = "tool" /\ y.calls = <<>> /\ y.answers = results[i].id
  <2>1. results[i] \in BlockSet
      BY <1>1, <1>5
  <2>2. results[i].id \in Nat
      BY <2>1 DEF BlockSet
  <2> DEFINE none == <<>>
  <2>3. none \in Seq(Nat) /\ none \in Seq(CallSet) /\ 0 \in Nat
      BY <1>4
  <2> DEFINE y == Requests!OpenAI("tool", none, none, results[i].id)
  <2> HIDE DEF none
  <2>4. y \in SentSet /\ y.role = "tool" /\ y.calls = none /\ y.answers = results[i].id
      BY <2>2, <2>3, OpenAIFields
  <2> HIDE DEF y
  <2> QED BY <2>4, Zenon DEF none, y
<1>6. replies = [i \in 1 .. Len(results) |-> Requests!OpenAI("tool", <<>>, <<>>, results[i].id)]
    BY <1>3
<1> HIDE DEF replies
<1>7. /\ replies \in Seq(SentSet) /\ Len(replies) = Len(results)
      /\ \A i \in 1 .. Len(results) : replies[i].role = "tool" /\ replies[i].calls = <<>>
                                      /\ replies[i].answers = results[i].id
    BY <1>3, <1>5, <1>6
<1> DEFINE k == Len(first)
<1>8. /\ first \in Seq(SentSet) /\ k \in {0, 1}
      /\ (\A i \in 1 .. Len(c) : c[i].type # "text") => k = 0
      /\ k = 1 => first[1].role = "user" /\ first[1].calls = <<>>
  <2>1. CASE texts = <<>>
    <3>1. first = <<>>
        BY <2>1
    <3> HIDE DEF first
    <3> QED BY <1>4, <3>1
  <2>2. CASE texts # <<>>
    <3> DEFINE y == Requests!OpenAI("user", Requests!Ids(texts), <<>>, 0)
    <3>1. first = <<y>>
        BY <2>2
    <3>2. y \in SentSet /\ y.role = "user" /\ y.calls = <<>>
      <4> DEFINE none == <<>>
                 t == Requests!Ids(texts)
                 x == Requests!OpenAI("user", t, none, 0)
      <4>1. t \in Seq(Nat) /\ none \in Seq(CallSet) /\ 0 \in Nat
          BY <1>1, <1>4
      <4> HIDE DEF none, t
      <4>2. x \in SentSet /\ x.role = "user" /\ x.calls = none
          BY <4>1, OpenAIFields
      <4> HIDE DEF x
      <4> QED BY <4>2, Zenon DEF none, t, x
    <3>3. Len(texts) # 0
        BY <1>1, <2>2
    <3> HIDE DEF y, first
    <3>4. <<y>> \in Seq(SentSet) /\ Len(<<y>>) = 1 /\ <<y>>[1] = y
        BY <3>2
    <3> QED BY <1>1, <3>1, <3>2, <3>3, <3>4
  <2> QED BY <2>1, <2>2
<1> HIDE DEF first
<1> DEFINE out == first \o replies
<1>9. /\ out \in Seq(SentSet) /\ Len(out) = k + Len(replies)
      /\ \A i \in 1 .. k + Len(replies) : out[i] = IF i <= k THEN first[i] ELSE replies[i - k]
  <2>1. first \in Seq(SentSet) /\ replies \in Seq(SentSet)
      BY <1>7, <1>8
  <2>2. /\ out \in Seq(SentSet) /\ Len(out) = Len(first) + Len(replies)
        /\ \A i \in 1 .. Len(first) + Len(replies) :
             out[i] = IF i <= Len(first) THEN first[i] ELSE replies[i - Len(first)]
      BY <2>1, ConcatProperties
  <2> QED BY <2>2, Zenon
<1> HIDE DEF out, k
<1>10. k = 1 => out[1] = first[1]
    BY <1>3, <1>7, <1>8, <1>9
<1>11. ASSUME NEW i \in 1 .. Len(results) PROVE out[k + i] = replies[i]
  <2>1. k + i \in 1 .. k + Len(replies) /\ ~ k + i <= k /\ (k + i) - k = i
      BY <1>3, <1>7, <1>8
  <2> QED BY <1>9, <2>1
<1>12. Len(out) = k + Len(results)
    BY <1>7, <1>9
<1>13. Requests!UserToOpenAI(c) = out
    BY <1>2 DEF out
<1> HIDE DEF results
<1>14. /\ (\A i \in 1 .. Len(c) : c[i].type # "text") => k = 0
       /\ k = 1 => out[1].role = "user" /\ out[1].calls = <<>>
    BY <1>8, <1>10, Zenon
<1>15. \A i \in 1 .. Len(results) :
         /\ out[k + i].role = "tool" /\ out[k + i].calls = <<>>
         /\ out[k + i].answers = results[i].id
    BY <1>7, <1>11, Zenon
<1> QED BY <1>8, <1>9, <1>12, <1>13, <1>14, <1>15, Zenon DEF results

-----------------------------------------------------------------------------
(* The request of a history                                                 *)
Norm(m) == [role    |-> m.role,
            content |-> [j \in DOMAIN m.content |-> Requests!Normalized(m.content[j])]]

\* A message as a request has it, and the request of a history h.
Seen(kp, m)      == IF kp = "session" THEN Norm(m) ELSE m
RequestOf(kp, h) == Requests!convertToOpenAIRequest(
                      IF kp = "session" THEN Requests!buildAPIMessages(h) ELSE h)

System == <<Requests!OpenAI("system", <<>>, <<>>, 0)>>

LEMMA SystemIs ==
  System \in Seq(SentSet) /\ Len(System) = 1 /\ System[1].role = "system"
  /\ System[1].calls \in Seq(CallSet) /\ Len(System[1].calls) = 0
<1> DEFINE text == <<>>
           calls == <<>>
           x == Requests!OpenAI("system", text, calls, 0)
<1>1. text \in Seq(Nat) /\ calls \in Seq(CallSet) /\ 0 \in Nat
    BY EmptySeq
<1>2. Len(calls) = 0
    BY EmptySeq
<1> HIDE DEF text, calls
<1>3. x \in SentSet /\ x.role = "system" /\ x.calls = calls
    BY <1>1, OpenAIFields
<1> HIDE DEF x
<1>4. <<x>> \in Seq(SentSet) /\ Len(<<x>>) = 1 /\ <<x>>[1] = x
    BY <1>3
<1>5. System = <<x>>
    BY Zenon DEF System, text, calls, x
<1> QED BY <1>1, <1>3, <1>4, <1>5, <1>2

LEMMA NormalizedIs ==
  ASSUME NEW b \in BlockSet
  PROVE  /\ Requests!Normalized(b) \in BlockSet
         /\ Requests!Normalized(b).type = b.type /\ Requests!Normalized(b).id = b.id
         /\ b.type = "tool_use" => Requests!Normalized(b).input # "nil"
  BY DEF Requests!Normalized, BlockSet

LEMMA NormIs ==
  ASSUME NEW m \in MessageSet
  PROVE  /\ m.content \in Seq(BlockSet) /\ Norm(m) \in MessageSet /\ Norm(m).role = m.role
         /\ Norm(m).content \in Seq(BlockSet) /\ Len(Norm(m).content) = Len(m.content)
         /\ \A j \in 1 .. Len(m.content) :
              Norm(m).content[j] = Requests!Normalized(m.content[j])
<1> DEFINE c == m.content
           d == [j \in DOMAIN c |-> Requests!Normalized(c[j])]
<1>1. c \in Seq(BlockSet) /\ m.role \in {"user", "assistant"}
    BY DEF MessageSet
<1>2. Norm(m) = [role |-> m.role, content |-> d]
    BY DEF Norm
<1> HIDE DEF c
<1>3. DOMAIN c = 1 .. Len(c) /\ Len(c) \in Nat /\ \A j \in 1 .. Len(c) : c[j] \in BlockSet
    BY <1>1
<1>4. \A j \in 1 .. Len(c) : Requests!Normalized(c[j]) \in BlockSet
    BY <1>3, NormalizedIs
<1>5. d = [j \in 1 .. Len(c) |-> Requests!Normalized(c[j])]
    BY <1>3
<1> HIDE DEF d
<1>6. /\ d \in Seq(BlockSet) /\ Len(d) = Len(c)
      /\ \A j \in 1 .. Len(c) : d[j] = Requests!Normalized(c[j])
    BY <1>3, <1>4, <1>5
<1>7. Norm(m) \in MessageSet /\ Norm(m).role = m.role /\ Norm(m).content = d
    BY <1>1, <1>2, <1>6 DEF MessageSet
<1> QED BY <1>1, <1>6, <1>7 DEF c

LEMMA SentTyped ==
  ASSUME NEW m \in MessageSet
  PROVE  Requests!convertMessageToOpenAI(m) \in Seq(SentSet)
<1>1. m.content \in Seq(BlockSet)
    BY DEF MessageSet
<1>2. Requests!UserToOpenAI(m.content) \in Seq(SentSet)
    BY <1>1, UserSent
<1>3. Requests!AssistantToOpenAI(m.content) \in Seq(SentSet)
    BY <1>1, AssistantSent
<1> QED BY <1>2, <1>3 DEF Requests!convertMessageToOpenAI

\* The recursion of convertToOpenAIRequest.
Converts(f, h) ==
  /\ f \in [0 .. Len(h) -> Seq(SentSet)] /\ f[0] = System
  /\ \A k \in 1 .. Len(h) : f[k] = f[k - 1] \o Requests!convertMessageToOpenAI(h[k])

LEMMA ConvertsExists ==
  ASSUME NEW h \in Seq(MessageSet)
  PROVE  \E f : Converts(f, h) /\ Requests!convertToOpenAIRequest(h) = f[Len(h)]
<1> DEFINE N == Len(h)
           Recurs(g) == g = [k \in 0 .. N |->
                               IF k = 0 THEN System
                               ELSE g[k - 1] \o Requests!convertMessageToOpenAI(h[k])]
           f == CHOOSE g : Recurs(g)
<1>1. Requests!convertToOpenAIRequest(h) = f[N]
    BY Zenon DEF Requests!convertToOpenAIRequest, System
<1>2. N \in Nat /\ \A k \in 1 .. N : h[k] \in MessageSet
    OBVIOUS
<1> HIDE DEF N
<1>3. \A k \in 0 .. N : k # 0 => k \in 1 .. N /\ k - 1 \in 0 .. N
    BY <1>2
<1>4. System \in Seq(SentSet)
    BY SystemIs
<1>5. \E g \in [0 .. N -> Seq(SentSet)] : Recurs(g)
  <2> DEFINE take == [p \in (1 .. N) \X Seq(SentSet) |->
                        p[2] \o Requests!convertMessageToOpenAI(h[p[1]])]
  <2>1. take \in [(1 .. N) \X Seq(SentSet) -> Seq(SentSet)]
    <3>1. ASSUME NEW k \in 1 .. N, NEW x \in Seq(SentSet)
          PROVE  x \o Requests!convertMessageToOpenAI(h[k]) \in Seq(SentSet)
      <4>1. Requests!convertMessageToOpenAI(h[k]) \in Seq(SentSet)
          BY <1>2, SentTyped
      <4> QED BY <4>1, ConcatProperties
    <3> QED BY <3>1
  <2> HIDE DEF take
  <2>2. PICK g \in [0 .. N -> Seq(SentSet)] : LoopProofs!Recursion(g, System, take, N)
      BY <1>2, <1>4, <2>1, LoopProofs!RecursionExists
  <2>3. \A k \in 0 .. N : k # 0 =>
          take[<<k, g[k - 1]>>] = g[k - 1] \o Requests!convertMessageToOpenAI(h[k])
      BY <1>3 DEF take
  <2>4. Recurs(g)
      BY <2>2, <2>3 DEF LoopProofs!Recursion
  <2> HIDE DEF Recurs
  <2> QED BY <2>4
<1>6. Recurs(f)
  <2> HIDE DEF Recurs
  <2> QED BY <1>5
<1> HIDE DEF f
<1>7. f[0] = System
  <2>1. 0 \in 0 .. N
      BY <1>2
  <2> QED BY <1>6, <2>1, Zenon
<1>8. \A k \in 1 .. N : f[k] = f[k - 1] \o Requests!convertMessageToOpenAI(h[k])
  <2>1. \A k \in 1 .. N : k \in 0 .. N /\ k # 0
      BY <1>2
  <2> QED BY <1>6, <2>1, Zenon
<1>9. f \in [0 .. N -> Seq(SentSet)]
  <2>1. DOMAIN f = 0 .. N /\ f = [k \in DOMAIN f |-> f[k]]
      BY <1>6
  <2> DEFINE P == {k \in 0 .. N : \A j \in 0 .. k : f[j] \in Seq(SentSet)}
  <2>2. 0 \in P
    <3>1. 0 \in 0 .. N /\ \A j \in 0 .. 0 : j = 0
        BY <1>2
    <3>2. f[0] \in Seq(SentSet)
        BY <1>4, <1>7, Zenon
    <3> QED BY <3>1, <3>2
  <2>3. ASSUME NEW k \in P, k < N PROVE k + 1 \in P
    <3>1. k \in Nat /\ k + 1 \in 1 .. N /\ k + 1 \in 0 .. N /\ (k + 1) - 1 = k
        BY <1>2, <2>3
    <3>2. f[k] \in Seq(SentSet) /\ Requests!convertMessageToOpenAI(h[k + 1]) \in Seq(SentSet)
        BY <1>2, <3>1, SentTyped
    <3>3. f[k + 1] = f[k] \o Requests!convertMessageToOpenAI(h[k + 1])
        BY <1>8, <3>1
    <3>4. f[k + 1] \in Seq(SentSet)
        BY <3>2, <3>3, ConcatProperties
    <3>5. \A j \in 0 .. k + 1 : j \in 0 .. k \/ j = k + 1
        BY <3>1
    <3> QED BY <3>1, <3>4, <3>5
  <2>4. N \in P
    <3>1. P \in SUBSET (0 .. N)
        OBVIOUS
    <3> HIDE DEF P
    <3> QED BY <1>2, <2>2, <2>3, <3>1, LoopProofs!UpTo
  <2>5. \A k \in 0 .. N : f[k] \in Seq(SentSet)
      BY <2>4
  <2> QED BY <2>1, <2>5
<1> QED BY <1>1, <1>7, <1>8, <1>9 DEF Converts, N

\* A request grows by what its last message becomes.
LEMMA ConvertGrows ==
  ASSUME NEW h \in Seq(MessageSet), NEW m \in MessageSet
  PROVE  /\ Requests!convertToOpenAIRequest(h) \in Seq(SentSet)
         /\ Requests!convertToOpenAIRequest(Append(h, m))
              = Requests!convertToOpenAIRequest(h) \o Requests!convertMessageToOpenAI(m)
<1> DEFINE n == Len(h)
           e == Append(h, m)
<1>1. PICK f : Converts(f, h) /\ Requests!convertToOpenAIRequest(h) = f[n]
    BY ConvertsExists
<1>2. /\ e \in Seq(MessageSet) /\ Len(e) = n + 1 /\ e[n + 1] = m
      /\ \A k \in 1 .. n : e[k] = h[k]
    BY AppendProperties
<1>3. n \in Nat
    OBVIOUS
<1> HIDE DEF n, e
<1>4. PICK g : Converts(g, e) /\ Requests!convertToOpenAIRequest(e) = g[n + 1]
  <2>1. \E g : Converts(g, e) /\ Requests!convertToOpenAIRequest(e) = g[Len(e)]
      BY <1>2, ConvertsExists
  <2> QED BY <1>2, <2>1
<1>5. /\ f \in [0 .. n -> Seq(SentSet)] /\ f[0] = System
      /\ \A k \in 1 .. n : f[k] = f[k - 1] \o Requests!convertMessageToOpenAI(h[k])
    BY <1>1 DEF Converts, n
<1>6. /\ g[0] = System
      /\ \A k \in 1 .. n + 1 : g[k] = g[k - 1] \o Requests!convertMessageToOpenAI(e[k])
    BY <1>2, <1>4 DEF Converts
<1> DEFINE P == {k \in 0 .. n : g[k] = f[k]}
<1>7. 0 \in P
    BY <1>3, <1>5, <1>6
<1>8. ASSUME NEW k \in P, k < n PROVE k + 1 \in P
  <2>1. k \in Nat /\ k + 1 \in 1 .. n /\ k + 1 \in 0 .. n /\ k + 1 \in 1 .. n + 1 /\ (k + 1) - 1 = k
      BY <1>3, <1>8
  <2>2. g[k] = f[k] /\ e[k + 1] = h[k + 1]
      BY <1>2, <2>1
  <2>3. f[k + 1] = f[k] \o Requests!convertMessageToOpenAI(h[k + 1])
      BY <1>5, <2>1
  <2>4. g[k + 1] = g[k] \o Requests!convertMessageToOpenAI(e[k + 1])
      BY <1>6, <2>1
  <2>5. g[k + 1] = f[k + 1]
      BY <2>2, <2>3, <2>4
  <2> QED BY <2>1, <2>5
<1>9. g[n] = f[n]
  <2>1. P \in SUBSET (0 .. n)
      OBVIOUS
  <2>2. n \in P
    <3> HIDE DEF P
    <3> QED BY <1>3, <1>7, <1>8, <2>1, LoopProofs!UpTo
  <2> QED BY <2>2
<1>10. g[n + 1] = g[n] \o Requests!convertMessageToOpenAI(m)
  <2>1. n + 1 \in 1 .. n + 1 /\ (n + 1) - 1 = n
      BY <1>3
  <2> QED BY <1>2, <1>6, <2>1
<1>11. f[n] \in Seq(SentSet)
    BY <1>3, <1>5
<1> QED BY <1>1, <1>4, <1>9, <1>10, <1>11 DEF e

LEMMA ConvertNone == Requests!convertToOpenAIRequest(<<>>) = System
<1> DEFINE none == <<>>
<1>1. none \in Seq(MessageSet) /\ Len(none) = 0
    BY EmptySeq
<1> HIDE DEF none
<1>2. PICK f : Converts(f, none) /\ Requests!convertToOpenAIRequest(none) = f[Len(none)]
    BY <1>1, ConvertsExists
<1>3. Requests!convertToOpenAIRequest(none) = System
    BY <1>1, <1>2 DEF Converts
<1> QED BY <1>3, Zenon DEF none

LEMMA BuildGrows ==
  ASSUME NEW h \in Seq(MessageSet), NEW m \in MessageSet
  PROVE  /\ Requests!buildAPIMessages(h) \in Seq(MessageSet)
         /\ Requests!buildAPIMessages(Append(h, m)) = Append(Requests!buildAPIMessages(h), Norm(m))
<1> DEFINE n == Len(h)
           e == Append(h, m)
           b == Requests!buildAPIMessages(h)
           a == Requests!buildAPIMessages(e)
<1>1. /\ n \in Nat /\ DOMAIN h = 1 .. n /\ \A i \in 1 .. n : h[i] \in MessageSet
    OBVIOUS
<1>2. /\ e \in Seq(MessageSet) /\ Len(e) = n + 1 /\ e[n + 1] = m
      /\ \A k \in 1 .. n : e[k] = h[k]
    BY AppendProperties
<1>3. b = [i \in 1 .. n |-> Norm(h[i])]
    BY <1>1, Zenon DEF Requests!buildAPIMessages, Norm
<1> HIDE DEF n, e
<1>4. DOMAIN e = 1 .. n + 1
    BY <1>2
<1>5. a = [i \in 1 .. n + 1 |-> Norm(e[i])]
    BY <1>4, Zenon DEF Requests!buildAPIMessages, Norm
<1> HIDE DEF a, b
<1>6. \A i \in 1 .. n : Norm(h[i]) \in MessageSet
    BY <1>1, NormIs
<1>7. Norm(m) \in MessageSet
    BY NormIs
<1>8. /\ b \in Seq(MessageSet) /\ Len(b) = n /\ DOMAIN b = 1 .. n
      /\ \A i \in 1 .. n : b[i] = Norm(h[i])
    BY <1>1, <1>3, <1>6
<1> DEFINE c == Append(b, Norm(m))
<1>9. /\ c \in Seq(MessageSet) /\ Len(c) = n + 1 /\ c[n + 1] = Norm(m)
      /\ \A i \in 1 .. n : c[i] = b[i]
    BY <1>7, <1>8, AppendProperties
<1> HIDE DEF c
<1>10. \A i \in 1 .. n + 1 : i \in 1 .. n \/ i = n + 1
    BY <1>1
<1>11. \A i \in 1 .. n + 1 : a[i] = Norm(e[i])
    BY <1>5
<1>12. \A i \in 1 .. n + 1 : c[i] = Norm(e[i])
    BY <1>2, <1>8, <1>9, <1>10
<1>13. DOMAIN c = 1 .. n + 1 /\ c = [i \in DOMAIN c |-> c[i]]
    BY <1>9
<1>14. a = c
    BY <1>5, <1>12, <1>13
<1> QED BY <1>8, <1>14 DEF a, b, c, e

LEMMA RequestGrows ==
  ASSUME NEW kp, NEW h \in Seq(MessageSet), NEW m \in MessageSet
  PROVE  /\ RequestOf(kp, h) \in Seq(SentSet) /\ Seen(kp, m) \in MessageSet
         /\ RequestOf(kp, Append(h, m))
              = RequestOf(kp, h) \o Requests!convertMessageToOpenAI(Seen(kp, m))
<1>1. CASE kp = "session"
  <2> DEFINE b == Requests!buildAPIMessages(h)
  <2>1. b \in Seq(MessageSet) /\ Requests!buildAPIMessages(Append(h, m)) = Append(b, Norm(m))
      BY BuildGrows
  <2>2. Norm(m) \in MessageSet
      BY NormIs
  <2>3. RequestOf(kp, h) = Requests!convertToOpenAIRequest(b) /\ Seen(kp, m) = Norm(m)
        /\ RequestOf(kp, Append(h, m)) = Requests!convertToOpenAIRequest(Append(b, Norm(m)))
      BY <1>1, <2>1 DEF RequestOf, Seen
  <2> HIDE DEF b
  <2> QED BY <2>1, <2>2, <2>3, ConvertGrows
<1>2. CASE kp # "session"
  <2>1. RequestOf(kp, h) = Requests!convertToOpenAIRequest(h) /\ Seen(kp, m) = m
        /\ RequestOf(kp, Append(h, m)) = Requests!convertToOpenAIRequest(Append(h, m))
      BY <1>2 DEF RequestOf, Seen
  <2> QED BY <2>1, ConvertGrows
<1> QED BY <1>1, <1>2

LEMMA RequestNone ==
  ASSUME NEW kp PROVE RequestOf(kp, <<>>) = System
<1> DEFINE none == <<>>
<1>1. Requests!buildAPIMessages(none) = none
  <2>1. DOMAIN none = {}
      OBVIOUS
  <2> QED BY <2>1 DEF Requests!buildAPIMessages
<1> HIDE DEF none
<1>2. RequestOf(kp, none) = Requests!convertToOpenAIRequest(none)
    BY <1>1 DEF RequestOf
<1> QED BY <1>2, ConvertNone, Zenon DEF none

-----------------------------------------------------------------------------
(* Calls and their answers                                                  *)
\* Message i of a request r has a call that is not one of U; it is followed
\* by the answers of its calls; and this is so of every such message, with
\* no other answers.
Asks(r, i, U) == \E k \in 1 .. Len(r[i].calls) : r[i].calls[k].id \notin U

Followed(r, i) ==
  \A j \in 1 .. Len(r[i].calls) :
    /\ i + j <= Len(r)
    /\ r[i + j].role = "tool" /\ r[i + j].answers = r[i].calls[j].id

AnswersOf(r, n, U) ==
  \E i \in 1 .. Len(r) : Asks(r, i, U) /\ \E j \in 1 .. Len(r[i].calls) : n = i + j

AnsweredBut(r, U) ==
  /\ \A i \in 1 .. Len(r) : Asks(r, i, U) => Followed(r, i)
  /\ \A n \in 1 .. Len(r) : r[n].role = "tool" => AnswersOf(r, n, U)

LEMMA SentFields ==
  ASSUME NEW x \in SentSet
  PROVE  /\ x.calls \in Seq(CallSet) /\ Len(x.calls) \in Nat /\ x.text \in Seq(Nat)
         /\ \A k \in 1 .. Len(x.calls) : x.calls[k].id \in Nat
<1>1. x.calls \in Seq(CallSet) /\ x.text \in Seq(Nat)
    BY DEF SentSet
<1>2. \A k \in 1 .. Len(x.calls) : x.calls[k] \in CallSet
    BY <1>1
<1>3. \A k \in 1 .. Len(x.calls) : x.calls[k].id \in Nat
    BY <1>2 DEF CallSet
<1> QED BY <1>1, <1>3

LEMMA Longer ==
  ASSUME NEW r \in Seq(SentSet), NEW q \in Seq(SentSet)
  PROVE  /\ r \o q \in Seq(SentSet) /\ Len(r \o q) = Len(r) + Len(q)
         /\ Len(r) \in Nat /\ Len(q) \in Nat
         /\ \A i \in 1 .. Len(r) : (r \o q)[i] = r[i]
         /\ \A i \in 1 .. Len(q) : (r \o q)[Len(r) + i] = q[i]
<1> DEFINE t == r \o q
           n == Len(r)
           l == Len(q)
<1>1. /\ t \in Seq(SentSet) /\ Len(t) = n + l
      /\ \A i \in 1 .. n + l : t[i] = IF i <= n THEN r[i] ELSE q[i - n]
    BY ConcatProperties
<1>2. n \in Nat /\ l \in Nat
    OBVIOUS
<1> HIDE DEF t, n, l
<1>3. \A i \in 1 .. n : t[i] = r[i]
    BY <1>1, <1>2
<1>4. ASSUME NEW i \in 1 .. l PROVE t[n + i] = q[i]
  <2>1. n + i \in 1 .. n + l /\ ~ n + i <= n /\ (n + i) - n = i
      BY <1>2
  <2> QED BY <1>1, <2>1
<1> QED BY <1>1, <1>2, <1>3, <1>4 DEF t, n, l

\* Messages at the end do not disturb what those before have.
LEMMA Undisturbed ==
  ASSUME NEW r \in Seq(SentSet), NEW q \in Seq(SentSet), NEW U, NEW i \in 1 .. Len(r)
  PROVE  /\ Asks(r \o q, i, U) <=> Asks(r, i, U)
         /\ Followed(r, i) => Followed(r \o q, i)
         /\ AnswersOf(r, i, U) => AnswersOf(r \o q, i, U)
<1> DEFINE t == r \o q
<1>1. /\ Len(t) = Len(r) + Len(q) /\ Len(r) \in Nat /\ Len(q) \in Nat
      /\ \A h \in 1 .. Len(r) : t[h] = r[h]
    BY Longer
<1> HIDE DEF t
<1>2. \A h \in 1 .. Len(r) : Asks(t, h, U) <=> Asks(r, h, U)
    BY <1>1 DEF Asks
<1>3. ASSUME Followed(r, i), NEW j \in 1 .. Len(t[i].calls)
      PROVE  i + j <= Len(t) /\ t[i + j].role = "tool" /\ t[i + j].answers = t[i].calls[j].id
  <2>1. t[i] = r[i]
      BY <1>1
  <2>2. i + j <= Len(r) /\ r[i + j].role = "tool" /\ r[i + j].answers = r[i].calls[j].id
      BY <1>3, <2>1 DEF Followed
  <2>3. Len(r[i].calls) \in Nat
    <3>1. r[i] \in SentSet
        OBVIOUS
    <3> QED BY <3>1, SentFields
  <2>4. j \in Nat \ {0}
      BY <1>3, <2>1, <2>3
  <2>5. i + j \in 1 .. Len(r) /\ i + j <= Len(t)
      BY <1>1, <2>2, <2>4
  <2> QED BY <1>1, <2>1, <2>2, <2>5
<1>4. ASSUME AnswersOf(r, i, U) PROVE AnswersOf(t, i, U)
  <2>1. PICK h \in 1 .. Len(r) : Asks(r, h, U) /\ \E j \in 1 .. Len(r[h].calls) : i = h + j
      BY <1>4 DEF AnswersOf
  <2>2. h \in 1 .. Len(t) /\ t[h] = r[h]
      BY <1>1
  <2>3. Asks(t, h, U) /\ \E j \in 1 .. Len(t[h].calls) : i = h + j
      BY <1>2, <2>1, <2>2
  <2> QED BY <2>2, <2>3 DEF AnswersOf
<1> QED BY <1>2, <1>3, <1>4 DEF Followed, t

\* Messages that neither call nor answer.
LEMMA QuietAnswered ==
  ASSUME NEW r \in Seq(SentSet), NEW q \in Seq(SentSet), NEW U, AnsweredBut(r, U),
         \A i \in 1 .. Len(q) : q[i].role # "tool" /\ Len(q[i].calls) = 0
  PROVE  AnsweredBut(r \o q, U)
<1> DEFINE t == r \o q
<1>1. /\ Len(t) = Len(r) + Len(q) /\ Len(r) \in Nat /\ Len(q) \in Nat
      /\ \A i \in 1 .. Len(r) : t[i] = r[i]
      /\ \A i \in 1 .. Len(q) : t[Len(r) + i] = q[i]
    BY Longer
<1>2. \A i \in 1 .. Len(r) : /\ Asks(t, i, U) <=> Asks(r, i, U)
                             /\ Followed(r, i) => Followed(t, i)
                             /\ AnswersOf(r, i, U) => AnswersOf(t, i, U)
    BY Undisturbed
<1> HIDE DEF t
<1>3. ASSUME NEW i \in 1 .. Len(t), i \notin 1 .. Len(r)
      PROVE  t[i].role # "tool" /\ ~ Asks(t, i, U)
  <2>1. i - Len(r) \in 1 .. Len(q) /\ Len(r) + (i - Len(r)) = i
      BY <1>1, <1>3
  <2>2. t[i].role # "tool" /\ Len(t[i].calls) = 0
      BY <1>1, <2>1
  <2> QED BY <2>2 DEF Asks
<1>4. ASSUME NEW i \in 1 .. Len(t), Asks(t, i, U) PROVE Followed(t, i)
    BY <1>2, <1>3, <1>4 DEF AnsweredBut
<1>5. ASSUME NEW i \in 1 .. Len(t), t[i].role = "tool" PROVE AnswersOf(t, i, U)
  <2>1. i \in 1 .. Len(r) /\ r[i].role = "tool"
      BY <1>1, <1>3, <1>5
  <2> QED BY <1>2, <2>1 DEF AnsweredBut
<1> QED BY <1>4, <1>5 DEF AnsweredBut, t

\* A message whose calls are all of J, which no call before it is.
LEMMA AskingAnswered ==
  ASSUME NEW r \in Seq(SentSet), NEW q \in Seq(SentSet), NEW U, NEW J, AnsweredBut(r, U),
         Len(q) = 1, q[1].role # "tool",
         \A k \in 1 .. Len(q[1].calls) : q[1].calls[k].id \in J,
         \A i \in 1 .. Len(r) : \A k \in 1 .. Len(r[i].calls) : r[i].calls[k].id \notin J
  PROVE  AnsweredBut(r \o q, U \cup J)
<1> DEFINE t == r \o q
           W == U \cup J
<1>1. /\ Len(t) = Len(r) + 1 /\ Len(r) \in Nat /\ t[Len(r) + 1] = q[1]
      /\ \A i \in 1 .. Len(r) : t[i] = r[i]
  <2>1. r \in Seq(SentSet) /\ q \in Seq(SentSet) /\ Len(q) = 1
      OBVIOUS
  <2>2. Len(t) = Len(r) + Len(q) /\ Len(r) \in Nat
      BY Longer
  <2>3. \A i \in 1 .. Len(r) : t[i] = r[i]
      BY Longer
  <2>4. \A i \in 1 .. Len(q) : t[Len(r) + i] = q[i]
      BY <2>1, Longer, Zenon
  <2> HIDE DEF t
  <2>5. 1 \in 1 .. Len(q)
      BY <2>1
  <2> QED BY <2>1, <2>2, <2>3, <2>4, <2>5
<1>2. \A i \in 1 .. Len(r) : /\ Asks(t, i, W) <=> Asks(r, i, W)
                             /\ Followed(r, i) => Followed(t, i)
                             /\ AnswersOf(r, i, W) => AnswersOf(t, i, W)
  <2> HIDE DEF W
  <2> QED BY Undisturbed
<1> HIDE DEF t
<1>3. \A i \in 1 .. Len(r) : Asks(r, i, W) <=> Asks(r, i, U)
    BY DEF Asks
<1>4. ~ Asks(t, Len(r) + 1, W)
    BY <1>1 DEF Asks
<1>5. \A i \in 1 .. Len(t) : i \in 1 .. Len(r) \/ i = Len(r) + 1
    BY <1>1
<1> HIDE DEF W
<1>6. ASSUME NEW i \in 1 .. Len(t), Asks(t, i, W) PROVE Followed(t, i)
    BY <1>2, <1>3, <1>4, <1>5, <1>6 DEF AnsweredBut
<1>7. ASSUME NEW i \in 1 .. Len(t), t[i].role = "tool" PROVE AnswersOf(t, i, W)
  <2>1. i \in 1 .. Len(r) /\ r[i].role = "tool"
      BY <1>1, <1>5, <1>7
  <2>2. AnswersOf(r, i, U)
      BY <2>1 DEF AnsweredBut
  <2>3. AnswersOf(r, i, W)
      BY <1>3, <2>2 DEF AnswersOf
  <2> QED BY <1>2, <2>1, <2>3
<1> QED BY <1>6, <1>7 DEF AnsweredBut, t, W

\* The answers of the last message's calls, which are those of J.
LEMMA ResultsAnswered ==
  ASSUME NEW r \in Seq(SentSet), NEW q \in Seq(SentSet), NEW U, NEW J,
         AnsweredBut(r, U \cup J), Len(r) > 0, Len(q) = Len(r[Len(r)].calls),
         \A k \in 1 .. Len(q) : /\ q[k].role = "tool" /\ Len(q[k].calls) = 0
                                /\ q[k].answers = r[Len(r)].calls[k].id
                                /\ r[Len(r)].calls[k].id \notin U,
         \A i \in 1 .. Len(r) - 1 : \A k \in 1 .. Len(r[i].calls) : r[i].calls[k].id \notin J
  PROVE  AnsweredBut(r \o q, U)
<1> DEFINE t == r \o q
           n == Len(r)
           l == Len(q)
           W == U \cup J
<1>1. /\ Len(t) = n + l /\ n \in Nat /\ l \in Nat
      /\ \A i \in 1 .. n : t[i] = r[i]
      /\ \A i \in 1 .. l : t[n + i] = q[i]
    BY Longer
<1>2. \A i \in 1 .. n : /\ Asks(t, i, U) <=> Asks(r, i, U)
                        /\ Followed(r, i) => Followed(t, i)
                        /\ AnswersOf(r, i, U) => AnswersOf(t, i, U)
    BY Undisturbed
<1> HIDE DEF t
<1>3. \A i \in 1 .. n - 1 : Asks(r, i, U) <=> Asks(r, i, W)
    BY DEF Asks
<1>4. \A i \in 1 .. n : Asks(r, i, W) => Asks(r, i, U)
    BY DEF Asks
<1>5. /\ n > 0 /\ Len(r[n].calls) = l
      /\ \A k \in 1 .. l : /\ q[k].role = "tool" /\ Len(q[k].calls) = 0
                           /\ q[k].answers = r[n].calls[k].id /\ r[n].calls[k].id \notin U
    OBVIOUS
<1>6. /\ \A i \in 1 .. n : Asks(r, i, W) => Followed(r, i)
      /\ \A i \in 1 .. n : r[i].role = "tool" => AnswersOf(r, i, W)
    BY DEF AnsweredBut
<1> HIDE DEF n, l, W
<1>7. Followed(t, n)
  <2>1. ASSUME NEW j \in 1 .. l
        PROVE  n + j <= n + l /\ t[n + j].role = "tool" /\ t[n + j].answers = r[n].calls[j].id
    <3>1. n \in Nat /\ l \in Nat
        BY <1>1
    <3>2. n + j <= n + l
        BY <3>1
    <3>3. t[n + j] = q[j]
        BY <1>1
    <3>4. q[j].role = "tool" /\ q[j].answers = r[n].calls[j].id
        BY <1>5
    <3> QED BY <3>2, <3>3, <3>4, Zenon
  <2>2. t[n] = r[n]
      BY <1>1, <1>5
  <2> QED BY <1>1, <1>5, <2>1, <2>2 DEF Followed
<1>8. ASSUME NEW i \in 1 .. n + l, Asks(t, i, U) PROVE Followed(t, i)
  <2>1. CASE i \in 1 .. n - 1
    <3>1. i \in 1 .. n
        BY <1>1, <2>1
    <3> QED BY <1>2, <1>3, <1>6, <1>8, <2>1, <3>1
  <2>2. CASE i = n
      BY <1>7, <2>2
  <2>3. CASE i > n
    <3>1. i - n \in 1 .. l /\ n + (i - n) = i
        BY <1>1, <2>3
    <3>2. Len(t[i].calls) = 0
      <4>1. t[i] = q[i - n]
          BY <1>1, <3>1
      <4>2. Len(q[i - n].calls) = 0
          BY <1>5, <3>1
      <4> QED BY <4>1, <4>2
    <3> QED BY <1>8, <3>2 DEF Asks
  <2> QED BY <1>1, <2>1, <2>2, <2>3
<1>9. ASSUME NEW i \in 1 .. n + l, t[i].role = "tool" PROVE AnswersOf(t, i, U)
  <2>1. CASE i \in 1 .. n
    <3>1. PICK h \in 1 .. n : Asks(r, h, W) /\ \E j \in 1 .. Len(r[h].calls) : i = h + j
      <4>1. AnswersOf(r, i, W)
          BY <1>1, <1>6, <1>9, <2>1
      <4> QED BY <4>1 DEF AnswersOf, n
    <3>2. AnswersOf(r, i, U)
        BY <1>4, <3>1 DEF AnswersOf, n
    <3> QED BY <1>2, <2>1, <3>2
  <2>2. CASE i > n
    <3>1. i - n \in 1 .. l /\ n + (i - n) = i
        BY <1>1, <2>2
    <3>2. n \in 1 .. n /\ n \in 1 .. Len(t) /\ t[n] = r[n]
        BY <1>1, <1>5
    <3>3. Asks(r, n, U)
        BY <1>5, <3>1 DEF Asks
    <3>4. Asks(t, n, U)
        BY <1>2, <3>2, <3>3
    <3>5. i - n \in 1 .. Len(t[n].calls)
        BY <1>5, <3>1, <3>2
    <3> QED BY <3>1, <3>2, <3>4, <3>5 DEF AnswersOf
  <2> QED BY <1>1, <2>1, <2>2
<1>10. Len(t) = n + l
    BY <1>1
<1> QED BY <1>8, <1>9, <1>10 DEF AnsweredBut, t

\* No message calls: that is so of a request with the system prompt alone.
LEMMA SystemAnswered ==
  ASSUME NEW U PROVE AnsweredBut(System, U)
<1>1. \A i \in 1 .. Len(System) : i = 1
    BY SystemIs
<1>2. \A i \in 1 .. Len(System) : System[i].role # "tool" /\ ~ Asks(System, i, U)
  <2>1. System[1].role # "tool" /\ ~ Asks(System, 1, U)
      BY SystemIs DEF Asks
  <2> QED BY <1>1, <2>1
<1> QED BY <1>2 DEF AnsweredBut

-----------------------------------------------------------------------------
(* What the messages of a turn become                                       *)
\* A tool use keeps its place and its number when its input is filled in.
LEMMA NormUses ==
  ASSUME NEW m \in MessageSet
  PROVE  LET uses == Requests!OfType(m.content, "tool_use")
             norm == Requests!OfType(Norm(m).content, "tool_use")
         IN  /\ uses \in Seq(BlockSet) /\ norm \in Seq(BlockSet) /\ Len(norm) = Len(uses)
             /\ \A i \in 1 .. Len(uses) : norm[i].id = uses[i].id
             /\ \A i \in 1 .. Len(norm) : norm[i].input # "nil"
<1> DEFINE c == m.content
           d == Norm(m).content
           n == Len(c)
           I == {i \in DOMAIN c : c[i].type = "tool_use"}
           uses == Requests!OfType(c, "tool_use")
           norm == Requests!OfType(d, "tool_use")
<1>1. /\ c \in Seq(BlockSet) /\ d \in Seq(BlockSet) /\ Len(d) = n
      /\ \A j \in 1 .. n : d[j] = Requests!Normalized(c[j])
    BY NormIs
<1> HIDE DEF c, d
<1>2. /\ n \in Nat /\ DOMAIN c = 1 .. n /\ DOMAIN d = 1 .. n
      /\ \A j \in 1 .. n : c[j] \in BlockSet
    BY <1>1
<1> HIDE DEF n
<1>3. \A j \in 1 .. n : /\ d[j].type = c[j].type /\ d[j].id = c[j].id
                        /\ c[j].type = "tool_use" => d[j].input # "nil"
    BY <1>1, <1>2, NormalizedIs
<1>4. uses \in Seq(BlockSet) /\ norm \in Seq(BlockSet)
    BY <1>1, OfTypeIs
<1>5. {i \in DOMAIN d : d[i].type = "tool_use"} = I
    BY <1>2, <1>3
<1>6. uses = Requests!Selected(c, I) /\ norm = Requests!Selected(d, I)
    BY <1>5 DEF Requests!OfType
<1> HIDE DEF I
<1>7. PICK f : Slices(f, BlockSet, c, I) /\ uses = f[n]
    BY <1>1, <1>6, SlicesExist DEF n
<1>8. PICK g : Slices(g, BlockSet, d, I) /\ norm = g[n]
    BY <1>1, <1>6, SlicesExist
<1> HIDE DEF uses, norm
<1>9. /\ f \in [0 .. n -> Seq(BlockSet)] /\ f[0] = <<>>
      /\ \A k \in 1 .. n : f[k] = IF k \in I THEN Append(f[k - 1], c[k]) ELSE f[k - 1]
    BY <1>7 DEF Slices, n
<1>10. /\ g \in [0 .. n -> Seq(BlockSet)] /\ g[0] = <<>>
       /\ \A k \in 1 .. n : g[k] = IF k \in I THEN Append(g[k - 1], d[k]) ELSE g[k - 1]
    BY <1>1, <1>8 DEF Slices
<1> DEFINE Same(x, y) == Len(y) = Len(x) /\ \A i \in 1 .. Len(x) : y[i].id = x[i].id
           P == {k \in 0 .. n : Same(f[k], g[k])}
<1>11. 0 \in P
  <2>1. 0 \in 0 .. n /\ f[0] = g[0]
      BY <1>2, <1>9, <1>10
  <2>2. Same(f[0], g[0])
      BY <2>1
  <2> HIDE DEF Same
  <2> QED BY <2>1, <2>2
<1>12. ASSUME NEW k \in P, k < n PROVE k + 1 \in P
  <2>1. k \in Nat /\ k \in 0 .. n /\ k + 1 \in 1 .. n /\ k + 1 \in 0 .. n /\ (k + 1) - 1 = k
      BY <1>2, <1>12
  <2> DEFINE x == f[k]
             y == g[k]
  <2>2. x \in Seq(BlockSet) /\ y \in Seq(BlockSet) /\ Same(x, y)
      BY <1>9, <1>10, <2>1
  <2>3. /\ f[k + 1] = IF k + 1 \in I THEN Append(x, c[k + 1]) ELSE x
        /\ g[k + 1] = IF k + 1 \in I THEN Append(y, d[k + 1]) ELSE y
      BY <1>9, <1>10, <2>1
  <2>4. c[k + 1] \in BlockSet /\ d[k + 1] \in BlockSet /\ d[k + 1].id = c[k + 1].id
      BY <1>1, <1>2, <1>3, <2>1
  <2> HIDE DEF x, y
  <2>5. Same(Append(x, c[k + 1]), Append(y, d[k + 1]))
    <3> DEFINE u == Append(x, c[k + 1])
               v == Append(y, d[k + 1])
    <3>1. /\ Len(u) = Len(x) + 1 /\ u[Len(x) + 1] = c[k + 1]
          /\ \A i \in 1 .. Len(x) : u[i] = x[i]
        BY <2>2, <2>4, AppendProperties
    <3>2. /\ Len(v) = Len(y) + 1 /\ v[Len(y) + 1] = d[k + 1]
          /\ \A i \in 1 .. Len(y) : v[i] = y[i]
        BY <2>2, <2>4, AppendProperties
    <3>3. Len(x) \in Nat
        BY <2>2
    <3> HIDE DEF u, v
    <3>4. \A i \in 1 .. Len(x) + 1 : i \in 1 .. Len(x) \/ i = Len(x) + 1
        BY <3>3
    <3>5. Len(v) = Len(u) /\ Len(y) = Len(x)
        BY <2>2, <3>1, <3>2
    <3>6. \A i \in 1 .. Len(x) : v[i].id = u[i].id
        BY <2>2, <3>1, <3>2
    <3>7. v[Len(x) + 1].id = u[Len(x) + 1].id
        BY <2>4, <3>1, <3>2, <3>5
    <3> QED BY <3>1, <3>4, <3>5, <3>6, <3>7 DEF u, v
  <2>6. Same(f[k + 1], g[k + 1])
    <3> HIDE DEF Same
    <3>1. CASE k + 1 \in I
        BY <2>3, <2>5, <3>1
    <3>2. CASE k + 1 \notin I
        BY <2>2, <2>3, <3>2
    <3> QED BY <3>1, <3>2
  <2> HIDE DEF Same
  <2> QED BY <2>1, <2>6
<1>13. Same(uses, norm)
  <2> HIDE DEF Same
  <2>1. P \in SUBSET (0 .. n)
      OBVIOUS
  <2>2. n \in P
    <3> HIDE DEF P
    <3> QED BY <1>2, <1>11, <1>12, <2>1, LoopProofs!UpTo
  <2> QED BY <1>7, <1>8, <2>2
<1>14. ASSUME NEW i \in 1 .. Len(norm) PROVE norm[i].input # "nil"
  <2>1. PICK j \in 1 .. Len(d) : norm[i] = d[j] /\ norm[i].type = "tool_use"
      BY <1>1, <1>14, OfTypeIs DEF norm
  <2> QED BY <1>1, <1>3, <2>1
<1> QED BY <1>4, <1>13, <1>14 DEF uses, norm, c, d

\* The message of an assistant: one, with its tool uses as calls.
LEMMA AssistantCalls ==
  ASSUME NEW kp, NEW m \in MessageSet, m.role = "assistant"
  PROVE  LET uses == Requests!OfType(m.content, "tool_use")
             q    == Requests!convertMessageToOpenAI(Seen(kp, m))
         IN  /\ q \in Seq(SentSet) /\ Len(q) = 1 /\ q[1] \in SentSet /\ q[1].role = "assistant"
             /\ uses \in Seq(BlockSet) /\ Len(q[1].calls) = Len(uses)
             /\ \A k \in 1 .. Len(uses) : q[1].calls[k].id = uses[k].id
             /\ kp = "session" =>
                  \A k \in 1 .. Len(uses) : q[1].calls[k].arguments # "null"
<1> DEFINE uses == Requests!OfType(m.content, "tool_use")
           c == Seen(kp, m).content
           asked == Requests!OfType(c, "tool_use")
           q == Requests!AssistantToOpenAI(c)
<1>1. /\ Seen(kp, m).role = "assistant" /\ c \in Seq(BlockSet)
      /\ uses \in Seq(BlockSet) /\ asked \in Seq(BlockSet) /\ Len(asked) = Len(uses)
      /\ \A i \in 1 .. Len(uses) : asked[i].id = uses[i].id
      /\ kp = "session" => \A i \in 1 .. Len(asked) : asked[i].input # "nil"
  <2>1. CASE kp = "session"
    <3>1. Seen(kp, m) = Norm(m)
        BY <2>1 DEF Seen
    <3> QED BY <3>1, NormIs, NormUses
  <2>2. CASE kp # "session"
    <3>1. Seen(kp, m) = m
        BY <2>2 DEF Seen
    <3>2. uses \in Seq(BlockSet) /\ m.content \in Seq(BlockSet)
        BY NormIs, NormUses
    <3> QED BY <2>2, <3>1, <3>2
  <2> QED BY <2>1, <2>2
<1>2. Requests!convertMessageToOpenAI(Seen(kp, m)) = q
    BY <1>1 DEF Requests!convertMessageToOpenAI
<1> HIDE DEF c
<1>3. /\ q \in Seq(SentSet) /\ Len(q) = 1
      /\ q[1] \in SentSet /\ q[1].role = "assistant" /\ Len(q[1].calls) = Len(asked)
      /\ \A i \in 1 .. Len(asked) : q[1].calls[i] = Requests!ToolCall(asked[i])
    BY <1>1, AssistantSent
<1> HIDE DEF q, asked, uses
<1>4. ASSUME NEW k \in 1 .. Len(uses)
      PROVE  /\ q[1].calls[k].id = uses[k].id
             /\ kp = "session" => q[1].calls[k].arguments # "null"
  <2>1. asked[k] \in BlockSet /\ q[1].calls[k] = Requests!ToolCall(asked[k])
        /\ asked[k].id = uses[k].id /\ (kp = "session" => asked[k].input # "nil")
      BY <1>1, <1>3
  <2> HIDE DEF BlockSet
  <2>2. asked[k].input # "null"
      BY <2>1 DEF BlockSet
  <2> QED BY <2>1, <2>2 DEF Requests!ToolCall
<1> QED BY <1>1, <1>2, <1>3, <1>4 DEF uses

LEMMA UsesIds ==
  ASSUME NEW c \in Seq(BlockSet), NEW a \in Nat, NEW b \in Nat,
         \A j \in 1 .. Len(c) : a < c[j].id /\ c[j].id <= b
  PROVE  \A k \in 1 .. Len(Requests!OfType(c, "tool_use")) :
           a < Requests!OfType(c, "tool_use")[k].id /\ Requests!OfType(c, "tool_use")[k].id <= b
<1> DEFINE uses == Requests!OfType(c, "tool_use")
<1>1. \A k \in 1 .. Len(uses) : \E i \in 1 .. Len(c) : uses[k] = c[i]
    BY OfTypeIs
<1> HIDE DEF uses
<1>2. \A k \in 1 .. Len(uses) : a < uses[k].id /\ uses[k].id <= b
    BY <1>1
<1> QED BY <1>2 DEF uses

\* A message of a user as a request has it keeps the types and numbers.
LEMMA UserSeen ==
  ASSUME NEW kp, NEW m \in MessageSet, m.role = "user"
  PROVE  /\ Requests!convertMessageToOpenAI(Seen(kp, m))
              = Requests!UserToOpenAI(Seen(kp, m).content)
         /\ Seen(kp, m).content \in Seq(BlockSet)
         /\ Len(Seen(kp, m).content) = Len(m.content)
         /\ \A j \in 1 .. Len(m.content) : /\ Seen(kp, m).content[j].type = m.content[j].type
                                           /\ Seen(kp, m).content[j].id = m.content[j].id
<1>1. m.content \in Seq(BlockSet)
    BY NormIs
<1>2. \A j \in 1 .. Len(m.content) : m.content[j] \in BlockSet
    BY <1>1
<1>3. CASE kp = "session"
  <2>1. Seen(kp, m) = Norm(m)
      BY <1>3 DEF Seen
  <2>2. Norm(m).role = "user"
      BY NormIs
  <2>3. \A j \in 1 .. Len(m.content) : /\ Norm(m).content[j].type = m.content[j].type
                                       /\ Norm(m).content[j].id = m.content[j].id
      BY <1>2, NormIs, NormalizedIs
  <2> QED BY <2>1, <2>2, <2>3, NormIs DEF Requests!convertMessageToOpenAI
<1>4. CASE kp # "session"
  <2>1. Seen(kp, m) = m
      BY <1>4 DEF Seen
  <2> QED BY <1>1, <2>1 DEF Requests!convertMessageToOpenAI
<1> QED BY <1>3, <1>4

\* A prompt becomes one message, or none if it is an image.
LEMMA PromptSent ==
  ASSUME NEW kp, NEW m \in MessageSet, m.role = "user",
         \A j \in 1 .. Len(m.content) : m.content[j].type # "tool_result"
  PROVE  LET q == Requests!convertMessageToOpenAI(Seen(kp, m))
         IN  /\ q \in Seq(SentSet)
             /\ \A i \in 1 .. Len(q) : q[i].role = "user" /\ Len(q[i].calls) = 0
<1> DEFINE c == Seen(kp, m).content
           q == Requests!UserToOpenAI(c)
           results == Requests!OfType(c, "tool_result")
<1>1. /\ Requests!convertMessageToOpenAI(Seen(kp, m)) = q /\ c \in Seq(BlockSet)
      /\ Len(c) = Len(m.content)
      /\ \A j \in 1 .. Len(m.content) : c[j].type = m.content[j].type
    BY UserSeen
<1> HIDE DEF c
<1>2. Len(results) = 0
  <2>1. \A i \in 1 .. Len(c) : c[i].type # "tool_result"
      BY <1>1
  <2> QED BY <1>1, <2>1, OfTypeIs
<1>3. PICK k \in {0, 1} : /\ q \in Seq(SentSet) /\ Len(q) = k + Len(results)
                          /\ k = 1 => q[1].role = "user" /\ q[1].calls = <<>>
    BY <1>1, UserSent
<1> HIDE DEF q
<1>4. \A i \in 1 .. Len(q) : i = 1 /\ k = 1
    BY <1>2, <1>3
<1>5. q[1].calls = <<>> => Len(q[1].calls) = 0
    OBVIOUS
<1>6. \A i \in 1 .. Len(q) : q[i].role = "user" /\ Len(q[i].calls) = 0
    BY <1>3, <1>4, <1>5
<1> QED BY <1>1, <1>3, <1>6

\* Results become as many messages, each of which answers its call.
LEMMA ResultsSent ==
  ASSUME NEW kp, NEW m \in MessageSet, m.role = "user",
         \A j \in 1 .. Len(m.content) : m.content[j].type = "tool_result"
  PROVE  LET q == Requests!convertMessageToOpenAI(Seen(kp, m))
         IN  /\ q \in Seq(SentSet) /\ Len(q) = Len(m.content)
             /\ \A i \in 1 .. Len(q) : /\ q[i].role = "tool" /\ Len(q[i].calls) = 0
                                       /\ q[i].answers = m.content[i].id
<1> DEFINE c == Seen(kp, m).content
           q == Requests!UserToOpenAI(c)
           results == Requests!OfType(c, "tool_result")
           n == Len(m.content)
<1>1. /\ Requests!convertMessageToOpenAI(Seen(kp, m)) = q /\ c \in Seq(BlockSet)
      /\ Len(c) = n
      /\ \A j \in 1 .. n : c[j].type = m.content[j].type /\ c[j].id = m.content[j].id
    BY UserSeen
<1>2. \A j \in 1 .. n : c[j].type = "tool_result"
    BY <1>1
<1> HIDE DEF c, n
<1>3. n \in Nat /\ 0 \in Nat /\ 0 <= n
    BY <1>1
<1>4. results \in Seq(BlockSet) /\ Len(results) = n /\ \A j \in 1 .. n : results[j] = c[j]
  <2>1. \A i \in 1 .. Len(c) : c[i].type = "tool_result" <=> 0 < i /\ i <= n
      BY <1>1, <1>2, <1>3
  <2>2. /\ results \in Seq(BlockSet) /\ Len(results) = n - 0
        /\ \A j \in 1 .. n - 0 : results[j] = c[0 + j]
    <3>1. n <= Len(c)
        BY <1>1, <1>3
    <3>2. results \in Seq(BlockSet) /\ IsRange(results, c, 0, n)
        BY <1>1, <1>3, <2>1, <3>1, OfTypeRange, Zenon
    <3> HIDE DEF results
    <3> QED BY <3>2 DEF IsRange
  <2>3. n - 0 = n /\ \A j \in 1 .. n : 0 + j = j
      BY <1>3
  <2> HIDE DEF results
  <2> QED BY <2>2, <2>3
<1> HIDE DEF results
<1>5. PICK k \in {0, 1} : /\ (\A i \in 1 .. Len(c) : c[i].type # "text") => k = 0
                          /\ q \in Seq(SentSet) /\ Len(q) = k + Len(results)
                          /\ \A i \in 1 .. Len(results) :
                               /\ q[k + i].role = "tool" /\ q[k + i].calls = <<>>
                               /\ q[k + i].answers = results[i].id
  <2> HIDE DEF q
  <2> QED BY <1>1, UserSent DEF q, results
<1> HIDE DEF q
<1>6. k = 0
    BY <1>1, <1>2, <1>5
<1>7. \A i \in 1 .. n : 0 + i = i
    OBVIOUS
<1>8. Len(q) = n
    BY <1>3, <1>4, <1>5, <1>6
<1>9. ASSUME NEW i \in 1 .. n
      PROVE  q[i].role = "tool" /\ Len(q[i].calls) = 0 /\ q[i].answers = m.content[i].id
  <2>1. q[i].role = "tool" /\ q[i].calls = <<>> /\ q[i].answers = results[i].id
      BY <1>4, <1>5, <1>6, <1>7
  <2>2. results[i].id = m.content[i].id
      BY <1>1, <1>4
  <2> QED BY <2>1, <2>2
<1> QED BY <1>1, <1>5, <1>8, <1>9 DEF n

-----------------------------------------------------------------------------
(* The invariant of the turns                                               *)
\* The numbers of calls are those of blocks so far.
NoneAbove(r, n) ==
  \A i \in 1 .. Len(r) : \A k \in 1 .. Len(r[i].calls) : r[i].calls[k].id <= n

\* The calls of the last message, which are the tool uses of the last of the
\* history, are new ones; all before them are answered.
Pending(r, uses, un) ==
  LET new == {uses[k].id : k \in 1 .. Len(uses)}
  IN  /\ Len(r) > 0 /\ Len(r[Len(r)].calls) = Len(uses)
      /\ \A k \in 1 .. Len(uses) : /\ r[Len(r)].calls[k].id = uses[k].id
                                   /\ uses[k].id \notin un
      /\ \A i \in 1 .. Len(r) - 1 : \A k \in 1 .. Len(r[i].calls) :
           r[i].calls[k].id \notin new
      /\ AnsweredBut(r, un \cup new)

Faithful(kp, r, sd) ==
  IF kp = "session"
  THEN \A i \in 1 .. Len(r) : \A k \in 1 .. Len(r[i].calls) : r[i].calls[k].arguments # "null"
  ELSE Requests!Selected(r, {i \in DOMAIN r : r[i].role = "assistant"})
         = [i \in DOMAIN sd |-> Requests!Sent(sd[i])]

UsesOf(h) == Requests!OfType(h[Len(h)].content, "tool_use")

TurnTypes(kp, h, st, n, sd, un) ==
  /\ kp \in {"session", "host"} /\ h \in Seq(MessageSet) /\ st \in {"idle", "asking", "answered"}
  /\ n \in Nat /\ sd \in Seq(SentSet) /\ un \in SUBSET (0 .. n)

TurnInv(kp, h, st, n, sd, un) ==
  LET r == RequestOf(kp, h)
  IN  /\ TurnTypes(kp, h, st, n, sd, un)
      /\ NoneAbove(r, n) /\ Faithful(kp, r, sd)
      /\ st # "answered" => AnsweredBut(r, un)
      /\ st = "answered" => Len(h) > 0 /\ Pending(r, UsesOf(h), un)

RequestInv == TurnInv(keeper, history, step, parts, said, unanswered)

-----------------------------------------------------------------------------
(* What is sent back                                                        *)
LEMMA SentBackTyped ==
  ASSUME NEW x \in SentSet
  PROVE  /\ Requests!Sent(x) \in SentSet
         /\ Requests!Sent(x).role = x.role /\ Requests!Sent(x).text = x.text
         /\ Requests!Sent(x).answers = x.answers /\ Len(Requests!Sent(x).calls) = Len(x.calls)
         /\ \A k \in 1 .. Len(x.calls) :
              Requests!Sent(x).calls[k]
                = [id |-> x.calls[k].id,
                   arguments |-> IF x.calls[k].arguments = "junk" THEN "null"
                                 ELSE x.calls[k].arguments]
<1> DEFINE c == x.calls
           F(k) == [id |-> c[k].id,
                    arguments |-> IF c[k].arguments = "junk" THEN "null" ELSE c[k].arguments]
           d == [k \in DOMAIN c |-> F(k)]
<1>1. /\ c \in Seq(CallSet) /\ x.text \in Seq(Nat) /\ x.answers \in Nat
      /\ x.role \in {"system", "user", "assistant", "tool"}
    BY DEF SentSet
<1>2. Requests!Sent(x) = Requests!OpenAI(x.role, x.text, d, x.answers)
    BY DEF Requests!Sent
<1> HIDE DEF c
<1>3. DOMAIN c = 1 .. Len(c) /\ Len(c) \in Nat /\ \A k \in 1 .. Len(c) : c[k] \in CallSet
    BY <1>1
<1>4. \A k \in 1 .. Len(c) : F(k) \in CallSet
    BY <1>3 DEF CallSet
<1> HIDE DEF F
<1>5. d = [k \in 1 .. Len(c) |-> F(k)]
    BY <1>3
<1> HIDE DEF d
<1>6. d \in Seq(CallSet) /\ Len(d) = Len(c) /\ \A k \in 1 .. Len(c) : d[k] = F(k)
    BY <1>3, <1>4, <1>5
<1>7. /\ Requests!Sent(x) \in SentSet /\ Requests!Sent(x).calls = d
      /\ Requests!Sent(x).role = x.role /\ Requests!Sent(x).text = x.text
      /\ Requests!Sent(x).answers = x.answers
    BY <1>1, <1>2, <1>6, OpenAIFields
<1> QED BY <1>6, <1>7 DEF c, F

LEMMA SentBackGrows ==
  ASSUME NEW sd \in Seq(SentSet), NEW x \in SentSet
  PROVE  /\ [i \in DOMAIN sd |-> Requests!Sent(sd[i])] \in Seq(SentSet)
         /\ [i \in DOMAIN Append(sd, x) |-> Requests!Sent(Append(sd, x)[i])]
              = Append([i \in DOMAIN sd |-> Requests!Sent(sd[i])], Requests!Sent(x))
<1> DEFINE n == Len(sd)
           e == Append(sd, x)
           b == [i \in DOMAIN sd |-> Requests!Sent(sd[i])]
           a == [i \in DOMAIN e |-> Requests!Sent(e[i])]
<1>1. n \in Nat /\ DOMAIN sd = 1 .. n /\ \A i \in 1 .. n : sd[i] \in SentSet
    OBVIOUS
<1>2. /\ e \in Seq(SentSet) /\ Len(e) = n + 1 /\ e[n + 1] = x
      /\ \A k \in 1 .. n : e[k] = sd[k]
    BY AppendProperties
<1>3. b = [i \in 1 .. n |-> Requests!Sent(sd[i])]
    BY <1>1
<1> HIDE DEF n, e
<1>4. DOMAIN e = 1 .. n + 1
    BY <1>2
<1>5. a = [i \in 1 .. n + 1 |-> Requests!Sent(e[i])]
    BY <1>4
<1> HIDE DEF a, b
<1>6. \A i \in 1 .. n : Requests!Sent(sd[i]) \in SentSet
    BY <1>1, SentBackTyped
<1>7. Requests!Sent(x) \in SentSet
    BY SentBackTyped
<1>8. /\ b \in Seq(SentSet) /\ Len(b) = n /\ DOMAIN b = 1 .. n
      /\ \A i \in 1 .. n : b[i] = Requests!Sent(sd[i])
    BY <1>1, <1>3, <1>6
<1> DEFINE c == Append(b, Requests!Sent(x))
<1>9. /\ c \in Seq(SentSet) /\ Len(c) = n + 1 /\ c[n + 1] = Requests!Sent(x)
      /\ \A i \in 1 .. n : c[i] = b[i]
    BY <1>7, <1>8, AppendProperties
<1> HIDE DEF c
<1>10. \A i \in 1 .. n + 1 : i \in 1 .. n \/ i = n + 1
    BY <1>1
<1>11. \A i \in 1 .. n + 1 : c[i] = Requests!Sent(e[i])
    BY <1>2, <1>8, <1>9, <1>10
<1>12. DOMAIN c = 1 .. n + 1 /\ c = [i \in DOMAIN c |-> c[i]]
    BY <1>9
<1>13. a = c
    BY <1>5, <1>11, <1>12
<1> QED BY <1>8, <1>13 DEF a, b, c, e

\* Messages without calls that no assistant wrote.
LEMMA QuietFaithful ==
  ASSUME NEW r \in Seq(SentSet), NEW q \in Seq(SentSet), NEW kp, NEW sd,
         NEW n \in Nat, NEW l \in Nat, n <= l,
         \A i \in 1 .. Len(q) : q[i].role # "assistant" /\ Len(q[i].calls) = 0,
         NoneAbove(r, n), Faithful(kp, r, sd)
  PROVE  NoneAbove(r \o q, l) /\ Faithful(kp, r \o q, sd)
<1> DEFINE t == r \o q
           a == Len(r)
           b == Len(q)
           I == {i \in DOMAIN r : r[i].role = "assistant"}
           J == {i \in DOMAIN t : t[i].role = "assistant"}
<1>1. /\ t \in Seq(SentSet) /\ Len(t) = a + b /\ a \in Nat /\ b \in Nat
      /\ \A i \in 1 .. a : t[i] = r[i]
      /\ \A i \in 1 .. b : t[a + i] = q[i]
    BY Longer
<1>2. DOMAIN r = 1 .. a /\ \A i \in 1 .. a : r[i] \in SentSet
    OBVIOUS
<1>3. \A i \in 1 .. b : q[i].role # "assistant" /\ Len(q[i].calls) = 0
    OBVIOUS
<1> HIDE DEF t
<1>4. DOMAIN t = 1 .. a + b
    BY <1>1
<1>5. Requests!Selected(t, J) = Requests!Selected(r, I)
  <2>1. \A i \in 1 .. a : i \in I <=> i \in J
      BY <1>1, <1>2, <1>4
  <2>2. \A i \in 1 .. b : a + i \notin J
      BY <1>1, <1>3
  <2> HIDE DEF I, J
  <2>3. /\ \A i \in 1 .. Len(r) : i \in I <=> i \in J
        /\ \A i \in 1 .. Len(q) : Len(r) + i \notin J
      BY <2>1, <2>2
  <2>4. Requests!Selected(r \o q, J) = Requests!Selected(r, I)
      BY <2>3, SelectedSame
  <2> QED BY <2>4 DEF t
<1> HIDE DEF a, b
<1>6. ASSUME NEW i \in 1 .. a + b, i \notin 1 .. a PROVE Len(t[i].calls) = 0
  <2>1. i - a \in 1 .. b /\ a + (i - a) = i
      BY <1>1, <1>6
  <2> QED BY <1>1, <1>3, <2>1
<1>7. NoneAbove(t, l)
  <2>1. ASSUME NEW i \in 1 .. a + b, NEW k \in 1 .. Len(t[i].calls) PROVE t[i].calls[k].id <= l
    <3>1. i \in 1 .. a /\ t[i] = r[i]
        BY <1>1, <1>6
    <3>2. r[i].calls[k].id \in Nat /\ r[i].calls[k].id <= n
      <4>1. k \in 1 .. Len(r[i].calls)
          BY <3>1
      <4>2. r[i].calls[k].id <= n
          BY <3>1, <4>1 DEF NoneAbove, a
      <4>3. r[i].calls[k].id \in Nat
          BY <1>2, <3>1, <4>1, SentFields
      <4> QED BY <4>2, <4>3
    <3> QED BY <3>1, <3>2
  <2> QED BY <1>1, <2>1 DEF NoneAbove
<1>8. Faithful(kp, t, sd)
  <2>1. CASE kp = "session"
    <3>1. ASSUME NEW i \in 1 .. a + b, NEW k \in 1 .. Len(t[i].calls)
          PROVE  t[i].calls[k].arguments # "null"
      <4>1. i \in 1 .. a /\ t[i] = r[i]
          BY <1>1, <1>6
      <4> QED BY <2>1, <4>1 DEF Faithful, a
    <3> QED BY <1>1, <2>1, <3>1 DEF Faithful
  <2>2. CASE kp # "session"
    <3>1. Requests!Selected(r, I) = [i \in DOMAIN sd |-> Requests!Sent(sd[i])]
        BY <2>2 DEF Faithful
    <3> QED BY <1>5, <2>2, <3>1 DEF Faithful
  <2> QED BY <2>1, <2>2
<1> QED BY <1>7, <1>8 DEF t

\* The message of an assistant.
LEMMA AssistantFaithful ==
  ASSUME NEW r \in Seq(SentSet), NEW q \in Seq(SentSet), NEW kp,
         NEW sd \in Seq(SentSet), NEW sdx,
         NEW n \in Nat, NEW l \in Nat, n <= l,
         Len(q) = 1, q[1].role = "assistant",
         \A k \in 1 .. Len(q[1].calls) : q[1].calls[k].id <= l,
         kp = "session" => \A k \in 1 .. Len(q[1].calls) : q[1].calls[k].arguments # "null",
         kp # "session" => \E x \in SentSet : sdx = Append(sd, x) /\ q[1] = Requests!Sent(x),
         NoneAbove(r, n), Faithful(kp, r, sd)
  PROVE  NoneAbove(r \o q, l) /\ Faithful(kp, r \o q, sdx)
<1> DEFINE t == r \o q
           a == Len(r)
           I == {i \in DOMAIN r : r[i].role = "assistant"}
           J == {i \in DOMAIN t : t[i].role = "assistant"}
<1>1. t \in Seq(SentSet) /\ Len(t) = a + Len(q) /\ a \in Nat
    BY Longer
<1>2. \A i \in 1 .. a : t[i] = r[i]
    BY Longer
<1>3. \A i \in 1 .. Len(q) : t[a + i] = q[i]
  <2>1. r \in Seq(SentSet) /\ q \in Seq(SentSet)
      OBVIOUS
  <2> QED BY <2>1, Longer, Zenon
<1>4. DOMAIN r = 1 .. a /\ \A i \in 1 .. a : r[i] \in SentSet
    OBVIOUS
<1>5. Len(q) = 1 /\ q[1].role = "assistant"
    OBVIOUS
<1> HIDE DEF t
<1>6. Len(t) = a + 1 /\ DOMAIN t = 1 .. a + 1
    BY <1>1, <1>5
<1>7. t[a + 1] = q[1]
    BY <1>3, <1>5
<1>8. Requests!Selected(t, J) = Append(Requests!Selected(r, I), q[1])
  <2>1. \A i \in 1 .. a : i \in I <=> i \in J
      BY <1>1, <1>2, <1>4, <1>6
  <2>2. a + 1 \in J
      BY <1>1, <1>5, <1>6, <1>7
  <2> HIDE DEF I, J
  <2>3. /\ \A i \in 1 .. Len(r) : i \in I <=> i \in J
        /\ Len(q) = 1 /\ Len(r) + 1 \in J
      BY <1>5, <2>1, <2>2
  <2> HIDE DEF a
  <2>4. Requests!Selected(r \o q, J) = Append(Requests!Selected(r, I), q[1])
      BY <2>3, SelectedMore, Zenon
  <2> QED BY <2>4 DEF t
<1> HIDE DEF a
<1>9. \A i \in 1 .. a + 1 : i \in 1 .. a \/ i = a + 1
    BY <1>1
<1>10. NoneAbove(t, l)
  <2>1. ASSUME NEW i \in 1 .. a, NEW k \in 1 .. Len(r[i].calls) PROVE r[i].calls[k].id <= l
    <3>1. r[i].calls[k].id <= n
        BY DEF NoneAbove, a
    <3>2. r[i].calls[k].id \in Nat
        BY <1>4, SentFields
    <3> QED BY <3>1, <3>2
  <2>2. ASSUME NEW i \in 1 .. a + 1, NEW k \in 1 .. Len(t[i].calls) PROVE t[i].calls[k].id <= l
      BY <1>2, <1>7, <1>9, <2>1
  <2> QED BY <1>6, <2>2 DEF NoneAbove
<1>11. CASE kp = "session"
  <2>1. ASSUME NEW i \in 1 .. a, NEW k \in 1 .. Len(r[i].calls)
        PROVE  r[i].calls[k].arguments # "null"
      BY <1>11 DEF Faithful, a
  <2>2. ASSUME NEW i \in 1 .. a + 1, NEW k \in 1 .. Len(t[i].calls)
        PROVE  t[i].calls[k].arguments # "null"
      BY <1>2, <1>7, <1>9, <1>11, <2>1
  <2>3. Faithful(kp, t, sdx)
      BY <1>6, <1>11, <2>2 DEF Faithful
  <2> QED BY <1>10, <2>3 DEF t
<1>12. CASE kp # "session"
  <2>1. PICK x \in SentSet : sdx = Append(sd, x) /\ q[1] = Requests!Sent(x)
      BY <1>12
  <2>2. Requests!Selected(r, I) = [i \in DOMAIN sd |-> Requests!Sent(sd[i])]
      BY <1>12 DEF Faithful
  <2>3. Requests!Selected(t, J) = [i \in DOMAIN sdx |-> Requests!Sent(sdx[i])]
    <3>1. [i \in DOMAIN Append(sd, x) |-> Requests!Sent(Append(sd, x)[i])]
            = Append([i \in DOMAIN sd |-> Requests!Sent(sd[i])], Requests!Sent(x))
        BY SentBackGrows
    <3> QED BY <1>8, <2>1, <2>2, <3>1, Zenon
  <2>4. Faithful(kp, t, sdx)
      BY <1>12, <2>3 DEF Faithful
  <2> QED BY <1>10, <2>4 DEF t
<1> QED BY <1>11, <1>12

\* What CreateMessage makes of a response becomes that response again, with
\* the arguments it could not parse gone.
IsAnswer(x, n, l) ==
  /\ x \in SentSet /\ x.role = "assistant" /\ x.answers = 0
  /\ \A k \in 1 .. Len(x.text) : n < x.text[k] /\ x.text[k] <= l
  /\ \A k \in 1 .. Len(x.calls) : /\ n < x.calls[k].id /\ x.calls[k].id <= l
                                   /\ x.calls[k].arguments \in {"object", "junk"}

LEMMA AnswerSentBack ==
  ASSUME NEW x, NEW n \in Nat, NEW l \in Nat, IsAnswer(x, n, l)
  PROVE  LET c == Requests!convertOpenAIResponse(x)
         IN  /\ c \in Seq(BlockSet)
             /\ \A j \in 1 .. Len(c) : n < c[j].id /\ c[j].id <= l
             /\ Len(Requests!OfType(c, "tool_use")) = Len(x.calls)
             /\ Len(Requests!AssistantToOpenAI(c)) = 1
             /\ Requests!AssistantToOpenAI(c)[1] = Requests!Sent(x)
<1> DEFINE c == Requests!convertOpenAIResponse(x)
           input(k) == IF x.calls[k].arguments = "object" THEN "object" ELSE "nil"
           f == [i \in DOMAIN x.text |-> Requests!Block("text", x.text[i], "none")]
           g == [i \in DOMAIN x.calls |-> Requests!Block("tool_use", x.calls[i].id, input(i))]
           a == Len(x.text)
           b == Len(x.calls)
<1>1. c = f \o g
    BY DEF Requests!convertOpenAIResponse
<1> HIDE DEF c
<1>2. /\ x.text \in Seq(Nat) /\ x.calls \in Seq(CallSet)
      /\ \A k \in 1 .. b : x.calls[k].id \in Nat
    BY SentFields DEF IsAnswer
<1>3. /\ a \in Nat /\ b \in Nat /\ DOMAIN x.text = 1 .. a /\ DOMAIN x.calls = 1 .. b
      /\ \A k \in 1 .. a : x.text[k] \in Nat
    BY <1>2
<1>4. /\ \A i \in 1 .. a : n < x.text[i] /\ x.text[i] <= l
      /\ \A i \in 1 .. b : n < x.calls[i].id /\ x.calls[i].id <= l
      /\ \A i \in 1 .. b : x.calls[i].arguments \in {"object", "junk"}
    BY DEF IsAnswer
<1> HIDE DEF a, b
<1>5. /\ f \in Seq(BlockSet) /\ Len(f) = a
      /\ \A k \in 1 .. a : f[k].type = "text" /\ f[k].id = x.text[k]
  <2>1. f = [k \in 1 .. a |-> [type |-> "text", id |-> x.text[k], input |-> "none"]]
      BY <1>3 DEF Requests!Block
  <2>2. \A k \in 1 .. a : [type |-> "text", id |-> x.text[k], input |-> "none"] \in BlockSet
      BY <1>3 DEF BlockSet
  <2> HIDE DEF f
  <2>3. f \in Seq(BlockSet) /\ Len(f) = a
      BY <1>3, <2>1, <2>2
  <2>4. \A k \in 1 .. a : f[k] = [type |-> "text", id |-> x.text[k], input |-> "none"]
      BY <2>1
  <2>5. ASSUME NEW k \in 1 .. a PROVE f[k].type = "text" /\ f[k].id = x.text[k]
    <3>1. f[k] = [type |-> "text", id |-> x.text[k], input |-> "none"]
        BY <2>4
    <3> QED BY <3>1, SMT
  <2> QED BY <2>3, <2>5
<1>6. /\ g \in Seq(BlockSet) /\ Len(g) = b
      /\ \A k \in 1 .. b : /\ g[k].type = "tool_use" /\ g[k].id = x.calls[k].id
                            /\ g[k].input = input(k)
  <2>1. g = [k \in 1 .. b |-> [type |-> "tool_use", id |-> x.calls[k].id, input |-> input(k)]]
      BY <1>3 DEF Requests!Block
  <2>2. \A k \in 1 .. b :
          [type |-> "tool_use", id |-> x.calls[k].id, input |-> input(k)] \in BlockSet
      BY <1>2 DEF BlockSet
  <2> HIDE DEF g, input
  <2>3. g \in Seq(BlockSet) /\ Len(g) = b
      BY <1>3, <2>1, <2>2
  <2>4. \A k \in 1 .. b : g[k] = [type |-> "tool_use", id |-> x.calls[k].id, input |-> input(k)]
      BY <2>1
  <2>5. ASSUME NEW k \in 1 .. b
        PROVE  g[k].type = "tool_use" /\ g[k].id = x.calls[k].id /\ g[k].input = input(k)
    <3>1. g[k] = [type |-> "tool_use", id |-> x.calls[k].id, input |-> input(k)]
        BY <2>4
    <3> QED BY <3>1, SMT
  <2> QED BY <2>3, <2>5
<1> HIDE DEF f, g, input
<1>7. /\ c \in Seq(BlockSet) /\ Len(c) = a + b
      /\ \A i \in 1 .. a + b : c[i] = IF i <= a THEN f[i] ELSE g[i - a]
  <2>1. /\ f \o g \in Seq(BlockSet) /\ Len(f \o g) = Len(f) + Len(g)
        /\ \A i \in 1 .. Len(f) + Len(g) :
             (f \o g)[i] = IF i <= Len(f) THEN f[i] ELSE g[i - Len(f)]
    <3>1. f \in Seq(BlockSet) /\ g \in Seq(BlockSet)
        BY <1>5, <1>6
    <3> QED BY <3>1, ConcatProperties
  <2>2. Len(f) = a /\ Len(g) = b
      BY <1>5, <1>6
  <2> QED BY <1>1, <2>1, <2>2, Zenon
<1>8. \A i \in 1 .. a : i \in 1 .. a + b /\ i <= a
    BY <1>3
<1>9. \A i \in 1 .. b : a + i \in 1 .. a + b /\ ~ a + i <= a /\ (a + i) - a = i
    BY <1>3
<1>10. \A i \in 1 .. a : c[i].type = "text" /\ c[i].id = x.text[i]
    BY <1>5, <1>7, <1>8
<1>11. \A i \in 1 .. b :
         c[a + i].type = "tool_use" /\ c[a + i].id = x.calls[i].id /\ c[a + i].input = input(i)
  <2>1. \A i \in 1 .. b : c[a + i] = g[i]
      BY <1>7, <1>9
  <2> QED BY <1>6, <2>1
<1>12. \A i \in 1 .. a + b : i \in 1 .. a \/ (i - a \in 1 .. b /\ a + (i - a) = i)
    BY <1>3
<1>13. \A j \in 1 .. a + b : n < c[j].id /\ c[j].id <= l
  <2>1. \A j \in 1 .. a : n < c[j].id /\ c[j].id <= l
      BY <1>10, <1>4
  <2>2. \A j \in 1 .. b : n < c[a + j].id /\ c[a + j].id <= l
      BY <1>11, <1>4
  <2> QED BY <1>12, <2>1, <2>2
<1>14. \A i \in 1 .. a + b : /\ c[i].type = "text" <=> 0 < i /\ i <= a
                             /\ c[i].type = "tool_use" <=> a < i /\ i <= a + b
  <2>1. \A i \in 1 .. a : c[i].type = "text" /\ 0 < i /\ i <= a /\ ~ a < i
      BY <1>3, <1>10
  <2>2. \A i \in 1 .. b : /\ c[a + i].type = "tool_use" /\ a < a + i /\ a + i <= a + b
                          /\ ~ a + i <= a
    <3>1. \A i \in 1 .. b : a < a + i /\ a + i <= a + b /\ ~ a + i <= a
        BY <1>3
    <3>2. \A i \in 1 .. b : c[a + i].type = "tool_use"
        BY <1>11
    <3> QED BY <3>1, <3>2
  <2>3. ASSUME NEW i \in 1 .. a + b
        PROVE  /\ c[i].type = "text" <=> 0 < i /\ i <= a
               /\ c[i].type = "tool_use" <=> a < i /\ i <= a + b
    <3>1. CASE i \in 1 .. a
        BY <2>1, <3>1
    <3>2. CASE i - a \in 1 .. b /\ a + (i - a) = i
        BY <2>2, <3>2
    <3> QED BY <1>12, <3>1, <3>2
  <2> QED BY <2>3
<1> DEFINE texts == Requests!OfType(c, "text")
           uses == Requests!OfType(c, "tool_use")
           y == Requests!AssistantToOpenAI(c)[1]
<1>15. texts \in Seq(BlockSet) /\ Len(texts) = a /\ \A j \in 1 .. a : texts[j] = c[j]
  <2>1. 0 \in Nat /\ a \in Nat /\ 0 <= a /\ a <= Len(c) /\ c \in Seq(BlockSet)
      BY <1>3, <1>7
  <2>2. \A i \in 1 .. Len(c) : c[i].type = "text" <=> 0 < i /\ i <= a
      BY <1>7, <1>14
  <2>3. texts \in Seq(BlockSet) /\ IsRange(texts, c, 0, a)
      BY <2>1, <2>2, OfTypeRange, Zenon
  <2>4. a - 0 = a /\ \A j \in 1 .. a : 0 + j = j
      BY <1>3
  <2> HIDE DEF texts
  <2> QED BY <2>3, <2>4 DEF IsRange
<1>16. uses \in Seq(BlockSet) /\ Len(uses) = b /\ \A j \in 1 .. b : uses[j] = c[a + j]
  <2>1. a \in Nat /\ a + b \in Nat /\ a <= a + b /\ a + b <= Len(c) /\ c \in Seq(BlockSet)
      BY <1>3, <1>7
  <2>2. \A i \in 1 .. Len(c) : c[i].type = "tool_use" <=> a < i /\ i <= a + b
      BY <1>7, <1>14
  <2>3. uses \in Seq(BlockSet) /\ IsRange(uses, c, a, a + b)
      BY <2>1, <2>2, OfTypeRange, Zenon
  <2>4. (a + b) - a = b
      BY <1>3
  <2> HIDE DEF uses
  <2> QED BY <2>3, <2>4 DEF IsRange
<1>17. /\ Len(Requests!AssistantToOpenAI(c)) = 1
       /\ y \in SentSet /\ y.role = "assistant" /\ y.answers = 0
       /\ y.text = Requests!Ids(texts) /\ Len(y.calls) = Len(uses)
       /\ \A i \in 1 .. Len(uses) : y.calls[i] = Requests!ToolCall(uses[i])
    BY <1>7, AssistantSent
<1>18. /\ Requests!Ids(texts) \in Seq(Nat) /\ Len(Requests!Ids(texts)) = Len(texts)
       /\ \A i \in 1 .. Len(texts) : Requests!Ids(texts)[i] = texts[i].id
    BY <1>15, IdsAre
<1> HIDE DEF texts, uses, y
<1>19. y.text = x.text
  <2> DEFINE ids == Requests!Ids(texts)
  <2>1. ids \in Seq(Nat) /\ Len(ids) = a /\ \A i \in 1 .. a : ids[i] = texts[i].id
      BY <1>15, <1>18
  <2> HIDE DEF ids
  <2>2. \A i \in 1 .. a : ids[i] = x.text[i]
      BY <1>10, <1>15, <2>1
  <2>3. ids = x.text
      BY <1>2, <2>1, <2>2, SeqEqual DEF a
  <2> QED BY <1>17, <2>3 DEF ids
<1> DEFINE z == Requests!Sent(x)
<1>20. /\ z \in SentSet /\ z.role = "assistant" /\ z.text = x.text /\ z.answers = 0
       /\ Len(z.calls) = b
       /\ \A k \in 1 .. b :
            z.calls[k] = [id |-> x.calls[k].id,
                          arguments |-> IF x.calls[k].arguments = "junk" THEN "null"
                                        ELSE x.calls[k].arguments]
    BY SentBackTyped DEF b, IsAnswer
<1> HIDE DEF z
<1>21. \A k \in 1 .. b : y.calls[k] = z.calls[k]
  <2>1. ASSUME NEW k \in 1 .. b PROVE y.calls[k] = z.calls[k]
    <3>1. uses[k].id = x.calls[k].id /\ uses[k].input = input(k)
        BY <1>11, <1>16
    <3>2. y.calls[k] = Requests!ToolCall(uses[k])
        BY <1>16, <1>17
    <3>3. y.calls[k] = [id |-> x.calls[k].id,
                        arguments |-> IF input(k) = "nil" THEN "null" ELSE input(k)]
        BY <3>1, <3>2 DEF Requests!ToolCall
    <3>4. (IF input(k) = "nil" THEN "null" ELSE input(k))
            = (IF x.calls[k].arguments = "junk" THEN "null" ELSE x.calls[k].arguments)
        BY <1>4 DEF input
    <3> QED BY <1>20, <3>3, <3>4
  <2> QED BY <2>1
<1>22. y.calls = z.calls
  <2>1. y.calls \in Seq(CallSet) /\ z.calls \in Seq(CallSet)
      BY <1>17, <1>20, SentFields
  <2> QED BY <1>16, <1>17, <1>20, <1>21, <2>1, SeqEqual
<1>23. y = z
  <2>1. \A u, v \in SentSet : u.role = v.role /\ u.text = v.text /\ u.calls = v.calls
                              /\ u.answers = v.answers => u = v
      BY DEF SentSet
  <2> QED BY <1>17, <1>19, <1>20, <1>22, <2>1
<1>24. \A j \in 1 .. Len(c) : n < c[j].id /\ c[j].id <= l
    BY <1>7, <1>13
<1>25. c \in Seq(BlockSet) /\ Len(uses) = Len(x.calls)
    BY <1>7, <1>16 DEF b
<1>26. Len(Requests!AssistantToOpenAI(c)) = 1 /\ Requests!AssistantToOpenAI(c)[1] = z
    BY <1>17, <1>23 DEF y
<1> QED BY <1>24, <1>25, <1>26, Zenon DEF c, uses, z

-----------------------------------------------------------------------------
(* The steps of a turn                                                      *)
LEMMA HistoryStart ==
  ASSUME NEW kp \in {"session", "host"}
  PROVE  TurnInv(kp, <<>>, "idle", 0, <<>>, {})
<1> DEFINE none == <<>>
           empty == <<>>
           I == {i \in DOMAIN System : System[i].role = "assistant"}
<1>1. none \in Seq(MessageSet) /\ RequestOf(kp, none) = System
    BY EmptySeq, RequestNone
<1>2. empty \in Seq(SentSet)
    BY EmptySeq
<1>3. TurnTypes(kp, none, "idle", 0, empty, {})
  <2> HIDE DEF none, empty
  <2> QED BY <1>1, <1>2 DEF TurnTypes
<1>4. \A i \in 1 .. Len(System) : i = 1
    BY SystemIs
<1>5. NoneAbove(System, 0)
    BY <1>4, SystemIs DEF NoneAbove
<1>6. Faithful(kp, System, empty)
  <2>1. CASE kp = "session"
      BY <1>4, <2>1, SystemIs DEF Faithful
  <2>2. CASE kp # "session"
    <3>1. \A i \in 1 .. Len(System) : i \notin I
        BY <1>4, SystemIs
    <3> DEFINE chosen == Requests!Selected(System, I)
    <3>2. chosen \in Seq(SentSet) /\ Len(chosen) = 0
      <4> HIDE DEF I
      <4> QED BY <3>1, SystemIs, SelectedFrom
    <3> HIDE DEF chosen
    <3>3. chosen = <<>>
        BY <3>2
    <3>4. [i \in DOMAIN empty |-> Requests!Sent(empty[i])] = <<>>
      <4>1. DOMAIN empty = {}
          OBVIOUS
      <4> QED BY <4>1
    <3>5. chosen = [i \in DOMAIN empty |-> Requests!Sent(empty[i])]
        BY <3>3, <3>4
    <3> HIDE DEF empty
    <3> QED BY <2>2, <3>5 DEF Faithful, chosen
  <2> QED BY <2>1, <2>2
<1>7. AnsweredBut(System, {})
    BY SystemAnswered
<1> HIDE DEF none, empty
<1>8. TurnInv(kp, none, "idle", 0, empty, {})
    BY <1>1, <1>3, <1>5, <1>6, <1>7 DEF TurnInv
<1> QED BY <1>8, Zenon DEF none, empty

\* What the history gets, and the request with it.
LEMMA HistoryGrows ==
  ASSUME NEW kp, NEW h \in Seq(MessageSet), NEW m \in MessageSet
  PROVE  LET r == RequestOf(kp, h)
             q == Requests!convertMessageToOpenAI(Seen(kp, m))
         IN  /\ Append(h, m) \in Seq(MessageSet) /\ Len(Append(h, m)) > 0
             /\ UsesOf(Append(h, m)) = Requests!OfType(m.content, "tool_use")
             /\ r \in Seq(SentSet) /\ q \in Seq(SentSet)
             /\ RequestOf(kp, Append(h, m)) = r \o q
<1> DEFINE e == Append(h, m)
<1>1. e \in Seq(MessageSet) /\ Len(e) = Len(h) + 1 /\ e[Len(h) + 1] = m /\ Len(h) \in Nat
    BY AppendProperties
<1>2. Requests!convertMessageToOpenAI(Seen(kp, m)) \in Seq(SentSet)
    BY RequestGrows, SentTyped
<1> HIDE DEF e
<1>3. UsesOf(e) = Requests!OfType(m.content, "tool_use") /\ Len(e) > 0
    BY <1>1 DEF UsesOf
<1> QED BY <1>1, <1>2, <1>3, RequestGrows DEF e

LEMMA PromptStep ==
  ASSUME NEW kp, NEW h, NEW n, NEW sd, NEW un, TurnInv(kp, h, "idle", n, sd, un),
         NEW m \in MessageSet, m.role = "user",
         \A j \in 1 .. Len(m.content) : m.content[j].type # "tool_result"
  PROVE  TurnInv(kp, Append(h, m), "asking", n + 1, sd, un)
<1> DEFINE r == RequestOf(kp, h)
           q == Requests!convertMessageToOpenAI(Seen(kp, m))
           e == Append(h, m)
<1>1. TurnTypes(kp, h, "idle", n, sd, un) /\ NoneAbove(r, n) /\ Faithful(kp, r, sd)
      /\ AnsweredBut(r, un)
    BY DEF TurnInv
<1>2. /\ kp \in {"session", "host"} /\ h \in Seq(MessageSet) /\ n \in Nat
      /\ sd \in Seq(SentSet) /\ un \in SUBSET (0 .. n)
    BY <1>1 DEF TurnTypes
<1>3. \A i \in 1 .. Len(q) : q[i].role = "user" /\ Len(q[i].calls) = 0
    BY PromptSent
<1>4. /\ e \in Seq(MessageSet) /\ r \in Seq(SentSet) /\ q \in Seq(SentSet)
      /\ RequestOf(kp, e) = r \o q
    BY <1>2, HistoryGrows
<1> HIDE DEF r, q, e
<1>5. AnsweredBut(r \o q, un)
    BY <1>1, <1>3, <1>4, QuietAnswered
<1>6. NoneAbove(r \o q, n + 1) /\ Faithful(kp, r \o q, sd)
  <2>1. n \in Nat /\ n + 1 \in Nat /\ n <= n + 1
      BY <1>2
  <2>2. \A i \in 1 .. Len(q) : q[i].role # "assistant" /\ Len(q[i].calls) = 0
      BY <1>3
  <2> QED BY <1>1, <1>4, <2>1, <2>2, QuietFaithful
<1>7. TurnTypes(kp, e, "asking", n + 1, sd, un)
    BY <1>2, <1>4 DEF TurnTypes
<1>8. TurnInv(kp, e, "asking", n + 1, sd, un)
    BY <1>4, <1>5, <1>6, <1>7 DEF TurnInv
<1> QED BY <1>8 DEF e

LEMMA AnswerStep ==
  ASSUME NEW kp, NEW h, NEW n, NEW sd, NEW un, TurnInv(kp, h, "asking", n, sd, un),
         NEW m \in MessageSet, m.role = "assistant", NEW l \in Nat, n <= l,
         \A j \in 1 .. Len(m.content) : n < m.content[j].id /\ m.content[j].id <= l,
         NEW sdx \in Seq(SentSet),
         kp # "session" => \E x \in SentSet :
                             /\ sdx = Append(sd, x)
                             /\ Requests!convertMessageToOpenAI(m)[1] = Requests!Sent(x),
         NEW st \in {"idle", "answered"},
         st = "idle" => Len(Requests!OfType(m.content, "tool_use")) = 0
  PROVE  TurnInv(kp, Append(h, m), st, l, sdx, un)
<1> DEFINE r == RequestOf(kp, h)
           q == Requests!convertMessageToOpenAI(Seen(kp, m))
           e == Append(h, m)
           uses == Requests!OfType(m.content, "tool_use")
           new == {uses[k].id : k \in 1 .. Len(uses)}
<1>1. TurnTypes(kp, h, "asking", n, sd, un) /\ NoneAbove(r, n) /\ Faithful(kp, r, sd)
      /\ AnsweredBut(r, un)
    BY DEF TurnInv
<1>2. /\ kp \in {"session", "host"} /\ h \in Seq(MessageSet) /\ n \in Nat
      /\ sd \in Seq(SentSet) /\ un \in SUBSET (0 .. n)
    BY <1>1 DEF TurnTypes
<1>3. /\ Len(q) = 1 /\ q[1] \in SentSet /\ q[1].role = "assistant"
      /\ uses \in Seq(BlockSet) /\ Len(q[1].calls) = Len(uses)
      /\ \A k \in 1 .. Len(uses) : q[1].calls[k].id = uses[k].id
      /\ kp = "session" => \A k \in 1 .. Len(uses) : q[1].calls[k].arguments # "null"
    BY AssistantCalls
<1>4. /\ e \in Seq(MessageSet) /\ r \in Seq(SentSet) /\ q \in Seq(SentSet)
      /\ RequestOf(kp, e) = r \o q /\ Len(e) > 0 /\ UsesOf(e) = uses
    BY <1>2, HistoryGrows
<1>5. \A k \in 1 .. Len(uses) : n < uses[k].id /\ uses[k].id <= l
  <2>1. m.content \in Seq(BlockSet)
      BY NormIs
  <2> QED BY <1>2, <2>1, UsesIds
<1>6. \A k \in 1 .. Len(uses) : uses[k].id \in Nat /\ n < uses[k].id
  <2>1. \A k \in 1 .. Len(uses) : uses[k] \in BlockSet
      BY <1>3
  <2> HIDE DEF uses
  <2> QED BY <1>5, <2>1 DEF BlockSet
<1>7. kp # "session" => \E x \in SentSet : sdx = Append(sd, x) /\ q[1] = Requests!Sent(x)
    BY DEF Seen
<1>8. st = "idle" => Len(uses) = 0
    OBVIOUS
<1> HIDE DEF r, q, e, uses, new
<1>9. NoneAbove(r \o q, l) /\ Faithful(kp, r \o q, sdx)
  <2>1. \A k \in 1 .. Len(q[1].calls) : q[1].calls[k].id <= l
      BY <1>3, <1>5
  <2>2. kp = "session" => \A k \in 1 .. Len(q[1].calls) : q[1].calls[k].arguments # "null"
      BY <1>3
  <2>3. n \in Nat /\ l \in Nat /\ n <= l /\ Len(q) = 1 /\ q[1].role = "assistant"
      BY <1>2, <1>3
  <2> QED BY <1>1, <1>2, <1>4, <1>7, <2>1, <2>2, <2>3, AssistantFaithful, Zenon
<1>10. TurnTypes(kp, e, st, l, sdx, un)
    BY <1>2, <1>4 DEF TurnTypes
<1>11. CASE st = "idle"
  <2>1. \A i \in 1 .. Len(q) : q[i].role # "tool" /\ Len(q[i].calls) = 0
    <3>1. \A i \in 1 .. Len(q) : i = 1
        BY <1>3
    <3>2. q[1].role # "tool" /\ Len(q[1].calls) = 0
        BY <1>3, <1>8, <1>11
    <3> QED BY <3>1, <3>2
  <2>2. AnsweredBut(r \o q, un)
      BY <1>1, <1>4, <2>1, QuietAnswered
  <2>3. TurnInv(kp, e, st, l, sdx, un)
      BY <1>4, <1>9, <1>10, <1>11, <2>2 DEF TurnInv
  <2> QED BY <2>3 DEF e
<1>12. CASE st = "answered"
  <2> DEFINE t == r \o q
             a == Len(r)
  <2>1. Len(t) = a + Len(q) /\ a \in Nat /\ \A i \in 1 .. a : t[i] = r[i]
      BY <1>4, Longer
  <2>2. t[a + 1] = q[1]
    <3>1. \A i \in 1 .. Len(q) : t[a + i] = q[i]
        BY <1>4, Longer, Zenon
    <3>2. 1 \in 1 .. Len(q)
        BY <1>3
    <3> QED BY <3>1, <3>2
  <2>3. ASSUME NEW i \in 1 .. a, NEW k \in 1 .. Len(r[i].calls)
        PROVE  r[i].calls[k].id \notin new
    <3>1. r[i].calls[k].id <= n
        BY <1>1 DEF NoneAbove
    <3>2. r[i].calls[k].id \in Nat
      <4>1. r[i] \in SentSet
          BY <1>4
      <4> QED BY <4>1, SentFields
    <3>3. \A c, u \in Nat : c <= n /\ n < u => c # u
        BY <1>2
    <3>4. ASSUME NEW j \in 1 .. Len(uses) PROVE r[i].calls[k].id # uses[j].id
      <4>1. uses[j].id \in Nat /\ n < uses[j].id
          BY <1>6
      <4> QED BY <3>1, <3>2, <3>3, <4>1, Zenon
    <3> QED BY <3>4 DEF new
  <2>4. AnsweredBut(t, un \cup new)
    <3>1. \A k \in 1 .. Len(q[1].calls) : q[1].calls[k].id \in new
        BY <1>3 DEF new
    <3>2. q[1].role # "tool" /\ Len(q) = 1
        BY <1>3
    <3>3. \A i \in 1 .. Len(r) : \A k \in 1 .. Len(r[i].calls) : r[i].calls[k].id \notin new
        BY <2>3
    <3> QED BY <1>1, <1>4, <3>1, <3>2, <3>3, AskingAnswered, Zenon
  <2>5. \A k \in 1 .. Len(uses) : uses[k].id \notin un
    <3>1. \A c \in un : c \in Nat /\ c <= n
        BY <1>2
    <3> QED BY <1>2, <1>6, <3>1
  <2> HIDE DEF t, a
  <2>6. Len(t) = a + 1 /\ Len(t) > 0 /\ t[Len(t)] = q[1] /\ Len(t) - 1 = a
      BY <1>3, <2>1, <2>2
  <2>7. \A i \in 1 .. a : \A k \in 1 .. Len(t[i].calls) : t[i].calls[k].id \notin new
      BY <2>1, <2>3
  <2>8. Pending(t, uses, un)
      BY <1>3, <2>4, <2>5, <2>6, <2>7 DEF Pending, new
  <2>9. TurnInv(kp, e, st, l, sdx, un)
      BY <1>4, <1>9, <1>10, <1>12, <2>8 DEF TurnInv, t
  <2> QED BY <2>9 DEF e
<1> QED BY <1>11, <1>12

LEMMA ResultsStep ==
  ASSUME NEW kp, NEW h, NEW n, NEW sd, NEW un, TurnInv(kp, h, "answered", n, sd, un),
         NEW m \in MessageSet, m.role = "user", Len(m.content) = Len(UsesOf(h)),
         \A j \in 1 .. Len(m.content) : /\ m.content[j].type = "tool_result"
                                        /\ m.content[j].id = UsesOf(h)[j].id
  PROVE  TurnInv(kp, Append(h, m), "asking", n, sd, un)
<1> DEFINE r == RequestOf(kp, h)
           q == Requests!convertMessageToOpenAI(Seen(kp, m))
           e == Append(h, m)
           uses == UsesOf(h)
           new == {uses[k].id : k \in 1 .. Len(uses)}
<1>1. TurnTypes(kp, h, "answered", n, sd, un) /\ NoneAbove(r, n) /\ Faithful(kp, r, sd)
      /\ Pending(r, uses, un)
    BY DEF TurnInv
<1>2. /\ kp \in {"session", "host"} /\ h \in Seq(MessageSet) /\ n \in Nat
      /\ sd \in Seq(SentSet) /\ un \in SUBSET (0 .. n)
    BY <1>1 DEF TurnTypes
<1>3. /\ Len(q) = Len(m.content)
      /\ \A i \in 1 .. Len(q) : /\ q[i].role = "tool" /\ Len(q[i].calls) = 0
                                /\ q[i].answers = m.content[i].id
    BY ResultsSent
<1>4. /\ e \in Seq(MessageSet) /\ r \in Seq(SentSet) /\ q \in Seq(SentSet)
      /\ RequestOf(kp, e) = r \o q
    BY <1>2, HistoryGrows
<1>5. Len(m.content) = Len(uses) /\ \A j \in 1 .. Len(m.content) : m.content[j].id = uses[j].id
    OBVIOUS
<1> HIDE DEF r, q, e, uses
<1>6. /\ Len(r) > 0 /\ Len(r[Len(r)].calls) = Len(uses)
      /\ \A k \in 1 .. Len(uses) : r[Len(r)].calls[k].id = uses[k].id /\ uses[k].id \notin un
      /\ \A i \in 1 .. Len(r) - 1 : \A k \in 1 .. Len(r[i].calls) : r[i].calls[k].id \notin new
      /\ AnsweredBut(r, un \cup new)
    BY <1>1 DEF Pending
<1> HIDE DEF new
<1>7. AnsweredBut(r \o q, un)
  <2>1. Len(q) = Len(r[Len(r)].calls)
      BY <1>3, <1>5, <1>6
  <2>2. \A k \in 1 .. Len(q) : /\ q[k].role = "tool" /\ Len(q[k].calls) = 0
                               /\ q[k].answers = r[Len(r)].calls[k].id
                               /\ r[Len(r)].calls[k].id \notin un
      BY <1>3, <1>5, <1>6
  <2> QED BY <1>4, <1>6, <2>1, <2>2, ResultsAnswered, Zenon
<1>8. NoneAbove(r \o q, n) /\ Faithful(kp, r \o q, sd)
  <2>1. n \in Nat /\ n <= n
      BY <1>2
  <2>2. \A i \in 1 .. Len(q) : q[i].role # "assistant" /\ Len(q[i].calls) = 0
      BY <1>3
  <2> QED BY <1>1, <1>4, <2>1, <2>2, QuietFaithful
<1>9. TurnTypes(kp, e, "asking", n, sd, un)
    BY <1>2, <1>4 DEF TurnTypes
<1>10. TurnInv(kp, e, "asking", n, sd, un)
    BY <1>4, <1>7, <1>8, <1>9 DEF TurnInv
<1> QED BY <1>10 DEF e

\* A Run that ends leaves the calls that have no results unanswered.
LEMMA EndStep ==
  ASSUME NEW kp, NEW h, NEW st, NEW n, NEW sd, NEW un, TurnInv(kp, h, st, n, sd, un)
  PROVE  /\ st = "asking" => TurnInv(kp, h, "idle", n, sd, un)
         /\ st = "answered" =>
              TurnInv(kp, h, "idle", n, sd,
                      un \cup {UsesOf(h)[k].id : k \in 1 .. Len(UsesOf(h))})
<1> DEFINE r == RequestOf(kp, h)
           uses == UsesOf(h)
           new == {uses[k].id : k \in 1 .. Len(uses)}
<1>1. TurnTypes(kp, h, st, n, sd, un) /\ NoneAbove(r, n) /\ Faithful(kp, r, sd)
    BY DEF TurnInv
<1>2. TurnTypes(kp, h, "idle", n, sd, un)
    BY <1>1 DEF TurnTypes
<1>3. ASSUME st = "asking" PROVE TurnInv(kp, h, "idle", n, sd, un)
    BY <1>1, <1>2, <1>3 DEF TurnInv
<1>4. ASSUME st = "answered" PROVE TurnInv(kp, h, "idle", n, sd, un \cup new)
  <2>1. Pending(r, uses, un)
      BY <1>4 DEF TurnInv
  <2>2. h \in Seq(MessageSet) /\ Len(h) > 0
      BY <1>1, <1>4 DEF TurnTypes, TurnInv
  <2>3. r \in Seq(SentSet)
    <3>1. h[Len(h)] \in MessageSet
        BY <2>2
    <3> QED BY <2>2, <3>1, RequestGrows
  <2> HIDE DEF r, uses
  <2>4. /\ Len(r) > 0 /\ Len(r[Len(r)].calls) = Len(uses)
        /\ \A k \in 1 .. Len(uses) : r[Len(r)].calls[k].id = uses[k].id
        /\ AnsweredBut(r, un \cup new)
      BY <2>1 DEF Pending
  <2>5. n \in Nat /\ un \in SUBSET (0 .. n)
      BY <1>1 DEF TurnTypes
  <2>6. \A k \in 1 .. Len(uses) : uses[k].id \in 0 .. n
    <3>1. Len(r) \in 1 .. Len(r) /\ r[Len(r)] \in SentSet
        BY <2>3, <2>4
    <3>2. ASSUME NEW k \in 1 .. Len(uses) PROVE uses[k].id \in 0 .. n
      <4>1. k \in 1 .. Len(r[Len(r)].calls) /\ uses[k].id = r[Len(r)].calls[k].id
          BY <2>4
      <4>2. r[Len(r)].calls[k].id \in Nat
          BY <3>1, <4>1, SentFields
      <4>3. r[Len(r)].calls[k].id <= n
          BY <1>1, <3>1, <4>1 DEF NoneAbove
      <4> QED BY <2>5, <4>1, <4>2, <4>3
    <3> QED BY <3>2
  <2>7. un \cup new \in SUBSET (0 .. n)
      BY <2>5, <2>6
  <2>8. TurnTypes(kp, h, "idle", n, sd, un \cup new)
      BY <1>2, <2>7 DEF TurnTypes
  <2> QED BY <1>1, <2>4, <2>8 DEF TurnInv, r
<1> QED BY <1>3, <1>4

-----------------------------------------------------------------------------
(* The actions                                                              *)
LEMMA RequestInit == Requests!Init => RequestInv
<1> SUFFICES ASSUME Requests!Init PROVE RequestInv
    OBVIOUS
<1>1. /\ keeper \in {"session", "host"} /\ history = <<>> /\ step = "idle"
      /\ parts = 0 /\ said = <<>> /\ unanswered = {}
    BY DEF Requests!Init
<1>2. TurnInv(keeper, <<>>, "idle", 0, <<>>, {})
    BY <1>1, HistoryStart
<1> QED BY <1>1, <1>2, Zenon DEF RequestInv

LEMMA RequestTypes ==
  RequestInv => /\ keeper \in {"session", "host"} /\ history \in Seq(MessageSet)
                /\ parts \in Nat /\ said \in Seq(SentSet)
  BY DEF RequestInv, TurnInv, TurnTypes

LEMMA PromptCorrect ==
  ASSUME RequestInv, NEW type \in {"text", "image"}, Requests!Prompt(type)
  PROVE  RequestInv'
<1> DEFINE b == [type |-> type, id |-> parts + 1, input |-> "none"]
           c == <<b>>
           m == [role |-> "user", content |-> c]
<1>1. /\ step = "idle" /\ history' = Append(history, m) /\ parts' = parts + 1
      /\ step' = "asking" /\ keeper' = keeper /\ said' = said /\ unanswered' = unanswered
    BY Zenon DEF Requests!Prompt, Requests!appendMessage, Requests!Block
<1>2. parts \in Nat
    BY RequestTypes
<1>3. b \in BlockSet /\ b.type # "tool_result"
    BY <1>2 DEF BlockSet
<1> HIDE DEF b
<1>4. c \in Seq(BlockSet) /\ Len(c) = 1 /\ c[1] = b
    BY <1>3
<1> HIDE DEF c
<1>5. m \in MessageSet /\ m.role = "user" /\ m.content = c
    BY <1>4 DEF MessageSet
<1> HIDE DEF m
<1>6. \A j \in 1 .. Len(m.content) : m.content[j].type # "tool_result"
  <2>1. \A j \in 1 .. Len(c) : j = 1
      BY <1>4
  <2> QED BY <1>3, <1>4, <1>5, <2>1
<1>7. TurnInv(keeper, history, "idle", parts, said, unanswered)
    BY <1>1 DEF RequestInv
<1>8. TurnInv(keeper, Append(history, m), "asking", parts + 1, said, unanswered)
    BY <1>5, <1>6, <1>7, PromptStep
<1> QED BY <1>1, <1>8 DEF RequestInv

LEMMA StreamedTurn ==
  ASSUME NEW h, NEW p, NEW sd, NEW un, TurnInv("session", h, "asking", p, sd, un),
         NEW n \in Nat, NEW types \in [1 .. n -> {"text", "thinking", "tool_use"}],
         NEW input \in {"object", "nil"}
  PROVE  LET c == [i \in DOMAIN types |->
                     Requests!Block(types[i], p + i,
                                    IF types[i] = "tool_use" THEN input ELSE "none")]
         IN  TurnInv("session", Append(h, [role |-> "assistant", content |-> c]),
                     IF "tool_use" \in Requests!Range(types) THEN "answered" ELSE "idle",
                     p + Len(types), sd, un)
<1> DEFINE F(i) == [type |-> types[i], id |-> p + i,
                    input |-> IF types[i] = "tool_use" THEN input ELSE "none"]
           c == [i \in DOMAIN types |-> F(i)]
           m == [role |-> "assistant", content |-> c]
           uses == Requests!OfType(c, "tool_use")
           st == IF "tool_use" \in Requests!Range(types) THEN "answered" ELSE "idle"
<1>1. p \in Nat /\ sd \in Seq(SentSet)
    BY DEF TurnInv, TurnTypes
<1>2. DOMAIN types = 1 .. n /\ Len(types) = n
    OBVIOUS
<1>3. \A i \in 1 .. n : F(i) \in BlockSet /\ F(i).type = types[i] /\ F(i).id = p + i
    BY <1>1 DEF BlockSet
<1>4. c = [i \in 1 .. n |-> F(i)]
    BY <1>2
<1>5. c = [i \in DOMAIN types |->
             Requests!Block(types[i], p + i, IF types[i] = "tool_use" THEN input ELSE "none")]
    BY Zenon DEF Requests!Block
<1> HIDE DEF F, c
<1>6. c \in Seq(BlockSet) /\ Len(c) = n /\ \A i \in 1 .. n : c[i] = F(i)
    BY <1>3, <1>4
<1>7. m \in MessageSet /\ m.role = "assistant" /\ m.content = c
    BY <1>6 DEF MessageSet
<1> HIDE DEF m
<1>8. \A j \in 1 .. Len(c) : p < c[j].id /\ c[j].id <= p + n
  <2>1. \A j \in 1 .. n : p < p + j /\ p + j <= p + n
      BY <1>1
  <2> QED BY <1>3, <1>6, <2>1
<1>9. st = "idle" => Len(uses) = 0
  <2>1. "tool_use" \in Requests!Range(types) <=> \E i \in 1 .. n : types[i] = "tool_use"
      BY <1>2 DEF Requests!Range
  <2>2. st = "idle" => \A i \in 1 .. n : types[i] # "tool_use"
      BY <2>1
  <2>3. (\A i \in 1 .. Len(c) : c[i].type # "tool_use") => Len(uses) = 0
      BY <1>6, OfTypeIs
  <2>4. \A i \in 1 .. n : c[i].type = types[i]
      BY <1>3, <1>6
  <2> HIDE DEF st, uses
  <2> QED BY <1>6, <2>2, <2>3, <2>4
<1>10. st \in {"idle", "answered"}
    OBVIOUS
<1> HIDE DEF st
<1>11. p + n \in Nat /\ p <= p + n
    BY <1>1
<1>12. \A j \in 1 .. Len(m.content) : p < m.content[j].id /\ m.content[j].id <= p + n
    BY <1>7, <1>8
<1>13. st = "idle" => Len(Requests!OfType(m.content, "tool_use")) = 0
    BY <1>7, <1>9
<1> HIDE DEF uses
<1>14. TurnInv("session", Append(h, m), st, p + n, sd, un)
    BY <1>1, <1>7, <1>10, <1>11, <1>12, <1>13, AnswerStep
<1> QED BY <1>2, <1>5, <1>14, Zenon DEF m, st

LEMMA StreamedCorrect ==
  ASSUME RequestInv, NEW n \in Nat,
         NEW types \in [1 .. n -> {"text", "thinking", "tool_use"}],
         NEW input \in {"object", "nil"}, Requests!StreamedAnswer(types, input)
  PROVE  RequestInv'
<1>1. /\ step = "asking" /\ keeper = "session"
      /\ history' = Append(history, [role |-> "assistant", content |->
                      [i \in DOMAIN types |->
                         Requests!Block(types[i], parts + i,
                                        IF types[i] = "tool_use" THEN input ELSE "none")]])
      /\ parts' = parts + Len(types)
      /\ step' = IF "tool_use" \in Requests!Range(types) THEN "answered" ELSE "idle"
      /\ keeper' = keeper /\ said' = said /\ unanswered' = unanswered
    BY Zenon DEF Requests!StreamedAnswer, Requests!appendMessage
<1>2. TurnInv("session", history, "asking", parts, said, unanswered)
    BY <1>1, Zenon DEF RequestInv
<1>3. TurnInv("session", history', step', parts', said, unanswered)
    BY <1>1, <1>2, StreamedTurn, Zenon
<1> QED BY <1>1, <1>3, Zenon DEF RequestInv

LEMMA ReceivedTurn ==
  ASSUME NEW h, NEW p, NEW sd, NEW un, TurnInv("host", h, "asking", p, sd, un),
         NEW texts \in Nat, NEW calls \in Nat, NEW arguments \in {"object", "junk"}
  PROVE  LET x == Requests!OpenAI("assistant", [i \in 1 .. texts |-> p + i],
                    [i \in 1 .. calls |-> [id |-> p + texts + i, arguments |-> arguments]], 0)
         IN  TurnInv("host", Append(h, [role |-> "assistant",
                                        content |-> Requests!convertOpenAIResponse(x)]),
                     IF calls > 0 THEN "answered" ELSE "idle",
                     p + texts + calls, Append(sd, x), un)
<1> DEFINE t == [i \in 1 .. texts |-> p + i]
           d == [i \in 1 .. calls |-> [id |-> p + texts + i, arguments |-> arguments]]
           x == Requests!OpenAI("assistant", t, d, 0)
           c == Requests!convertOpenAIResponse(x)
           m == [role |-> "assistant", content |-> c]
           l == p + texts + calls
           uses == Requests!OfType(c, "tool_use")
           st == IF calls > 0 THEN "answered" ELSE "idle"
           sdx == Append(sd, x)
<1>1. p \in Nat /\ sd \in Seq(SentSet)
    BY DEF TurnInv, TurnTypes
<1>2. l \in Nat /\ p <= l
    BY <1>1
<1>3. /\ t \in Seq(Nat) /\ Len(t) = texts
      /\ \A k \in 1 .. texts : p < t[k] /\ t[k] <= l
  <2>1. \A k \in 1 .. texts : p + k \in Nat /\ p < p + k /\ p + k <= l
      BY <1>1
  <2> HIDE DEF l
  <2>2. t \in Seq(Nat) /\ Len(t) = texts
      BY <2>1
  <2>3. \A k \in 1 .. texts : t[k] = p + k
      OBVIOUS
  <2> HIDE DEF t
  <2> QED BY <2>1, <2>2, <2>3
<1>4. /\ d \in Seq(CallSet) /\ Len(d) = calls
      /\ \A k \in 1 .. calls : /\ p < d[k].id /\ d[k].id <= l
                               /\ d[k].arguments \in {"object", "junk"}
  <2> DEFINE F(k) == [id |-> p + texts + k, arguments |-> arguments]
  <2>1. \A k \in 1 .. calls : /\ p + texts + k \in Nat /\ p < p + texts + k
                              /\ p + texts + k <= l
      BY <1>1
  <2> HIDE DEF l
  <2>2. \A k \in 1 .. calls : F(k) \in CallSet /\ F(k).id = p + texts + k
                              /\ F(k).arguments = arguments
      BY <2>1 DEF CallSet
  <2>3. d = [k \in 1 .. calls |-> F(k)]
      BY Zenon
  <2> HIDE DEF d, F
  <2>4. d \in Seq(CallSet) /\ Len(d) = calls
      BY <2>2, <2>3
  <2>5. \A k \in 1 .. calls : d[k] = F(k)
      BY <2>3
  <2>6. arguments \in {"object", "junk"}
      OBVIOUS
  <2> QED BY <2>1, <2>2, <2>4, <2>5, <2>6
<1> HIDE DEF t, d, l
<1>5. x \in SentSet /\ x.role = "assistant" /\ x.text = t /\ x.calls = d /\ x.answers = 0
  <2>1. t \in Seq(Nat) /\ d \in Seq(CallSet) /\ 0 \in Nat
      BY <1>3, <1>4
  <2> QED BY <2>1, OpenAIFields
<1> HIDE DEF x
<1>6. IsAnswer(x, p, l)
    BY <1>3, <1>4, <1>5 DEF IsAnswer
<1>7. /\ c \in Seq(BlockSet) /\ \A j \in 1 .. Len(c) : p < c[j].id /\ c[j].id <= l
      /\ Len(uses) = Len(x.calls)
      /\ Requests!AssistantToOpenAI(c)[1] = Requests!Sent(x)
    BY <1>1, <1>2, <1>6, AnswerSentBack
<1> HIDE DEF c
<1>8. m \in MessageSet /\ m.role = "assistant" /\ m.content = c
    BY <1>7 DEF MessageSet
<1> HIDE DEF m
<1>9. Requests!convertMessageToOpenAI(m)[1] = Requests!Sent(x)
    BY <1>7, <1>8 DEF Requests!convertMessageToOpenAI
<1>10. Len(uses) = calls
    BY <1>4, <1>5, <1>7
<1> HIDE DEF uses
<1>11. st \in {"idle", "answered"} /\ (st = "idle" => Len(uses) = 0)
    BY <1>10
<1>12. sdx \in Seq(SentSet)
    BY <1>1, <1>5, AppendProperties
<1>13. \E y \in SentSet : /\ sdx = Append(sd, y)
                          /\ Requests!convertMessageToOpenAI(m)[1] = Requests!Sent(y)
    BY <1>5, <1>9
<1> HIDE DEF st, sdx
<1>14. \A j \in 1 .. Len(m.content) : p < m.content[j].id /\ m.content[j].id <= l
    BY <1>7, <1>8
<1>15. st = "idle" => Len(Requests!OfType(m.content, "tool_use")) = 0
    BY <1>8, <1>11 DEF uses
<1>16. TurnInv("host", Append(h, m), st, l, sdx, un)
    BY <1>1, <1>2, <1>8, <1>11, <1>12, <1>13, <1>14, <1>15, AnswerStep
<1> QED BY <1>16, Zenon DEF m, st, sdx, l, c, x, t, d

LEMMA ReceivedCorrect ==
  ASSUME RequestInv, NEW texts \in Nat, NEW calls \in Nat, NEW arguments \in {"object", "junk"},
         Requests!ReceivedAnswer(texts, calls, arguments)
  PROVE  RequestInv'
<1> DEFINE x == Requests!OpenAI("assistant", [i \in 1 .. texts |-> parts + i],
                  [i \in 1 .. calls |-> [id |-> parts + texts + i, arguments |-> arguments]], 0)
<1>1. /\ step = "asking" /\ keeper = "host"
      /\ history' = Append(history, [role |-> "assistant",
                                     content |-> Requests!convertOpenAIResponse(x)])
      /\ said' = Append(said, x) /\ parts' = parts + texts + calls
      /\ step' = IF calls > 0 THEN "answered" ELSE "idle"
      /\ keeper' = keeper /\ unanswered' = unanswered
    BY Zenon DEF Requests!ReceivedAnswer, Requests!appendMessage
<1>2. TurnInv("host", history, "asking", parts, said, unanswered)
    BY <1>1, Zenon DEF RequestInv
<1>3. TurnInv("host", history', step', parts', said', unanswered)
    BY <1>1, <1>2, ReceivedTurn, Zenon
<1> QED BY <1>1, <1>3, Zenon DEF RequestInv

LEMMA LastUses ==
  ASSUME RequestInv, step = "answered"
  PROVE  /\ Requests!OfType(history[Len(history)].content, "tool_use") = UsesOf(history)
         /\ UsesOf(history) \in Seq(BlockSet)
<1>1. history \in Seq(MessageSet) /\ Len(history) > 0
    BY DEF RequestInv, TurnInv, TurnTypes
<1>2. history[Len(history)] \in MessageSet
    BY <1>1
<1>3. history[Len(history)].content \in Seq(BlockSet)
    BY <1>2, NormIs
<1> QED BY <1>3, OfTypeIs DEF UsesOf

LEMMA ResultsCorrect ==
  ASSUME RequestInv, Requests!Results
  PROVE  RequestInv'
<1> DEFINE uses == UsesOf(history)
           F(i) == [type |-> "tool_result", id |-> uses[i].id, input |-> "none"]
           c == [i \in DOMAIN uses |-> F(i)]
           m == [role |-> "user", content |-> c]
<1>1. step = "answered"
    BY DEF Requests!Results
<1>2. Requests!OfType(history[Len(history)].content, "tool_use") = uses /\ uses \in Seq(BlockSet)
    BY <1>1, LastUses
<1>3. /\ history' = Append(history, m) /\ step' = "asking"
      /\ keeper' = keeper /\ parts' = parts /\ said' = said /\ unanswered' = unanswered
    BY <1>2, Zenon DEF Requests!Results, Requests!appendMessage, Requests!Block
<1> HIDE DEF uses
<1>4. /\ DOMAIN uses = 1 .. Len(uses) /\ Len(uses) \in Nat
      /\ \A i \in 1 .. Len(uses) : uses[i] \in BlockSet
    BY <1>2
<1>5. \A i \in 1 .. Len(uses) : F(i) \in BlockSet /\ F(i).type = "tool_result"
                                /\ F(i).id = uses[i].id
    BY <1>4 DEF BlockSet
<1>6. c = [i \in 1 .. Len(uses) |-> F(i)]
    BY <1>4
<1> HIDE DEF F, c
<1>7. c \in Seq(BlockSet) /\ Len(c) = Len(uses) /\ \A i \in 1 .. Len(uses) : c[i] = F(i)
    BY <1>4, <1>5, <1>6
<1>8. m \in MessageSet /\ m.role = "user" /\ m.content = c
    BY <1>7 DEF MessageSet
<1> HIDE DEF m
<1>9. TurnInv(keeper, history, "answered", parts, said, unanswered)
    BY <1>1 DEF RequestInv
<1>10. /\ Len(m.content) = Len(UsesOf(history))
       /\ \A j \in 1 .. Len(m.content) : /\ m.content[j].type = "tool_result"
                                         /\ m.content[j].id = UsesOf(history)[j].id
    BY <1>5, <1>7, <1>8 DEF uses
<1>11. TurnInv(keeper, Append(history, m), "asking", parts, said, unanswered)
    BY <1>8, <1>9, <1>10, ResultsStep
<1> QED BY <1>3, <1>11 DEF RequestInv

LEMMA EndCorrect ==
  ASSUME RequestInv, Requests!RunEnds
  PROVE  RequestInv'
<1> DEFINE uses == UsesOf(history)
           new == {uses[k].id : k \in 1 .. Len(uses)}
<1>1. /\ step \in {"asking", "answered"} /\ step' = "idle" /\ history' = history
      /\ keeper' = keeper /\ parts' = parts /\ said' = said
    BY Zenon DEF Requests!RunEnds
<1>2. TurnInv(keeper, history, step, parts, said, unanswered)
    BY DEF RequestInv
<1>3. CASE step = "asking"
  <2>1. unanswered' = unanswered
      BY <1>3 DEF Requests!RunEnds
  <2>2. TurnInv(keeper, history, "idle", parts, said, unanswered)
      BY <1>2, <1>3, EndStep
  <2> QED BY <1>1, <2>1, <2>2 DEF RequestInv
<1>4. CASE step = "answered"
  <2>1. Requests!OfType(history[Len(history)].content, "tool_use") = uses /\ uses \in Seq(BlockSet)
      BY <1>4, LastUses
  <2>2. step # "asking"
      BY <1>4
  <2>3. unanswered' = unanswered \cup Requests!Range(Requests!Ids(uses))
      BY <2>1, <2>2, Zenon DEF Requests!RunEnds
  <2>4. TurnInv(keeper, history, "idle", parts, said, unanswered \cup new)
      BY <1>2, <1>4, EndStep
  <2> HIDE DEF uses
  <2> DEFINE ids == Requests!Ids(uses)
  <2>5. ids \in Seq(Nat) /\ Len(ids) = Len(uses) /\ \A k \in 1 .. Len(uses) : ids[k] = uses[k].id
      BY <2>1, IdsAre
  <2> HIDE DEF ids
  <2>6. DOMAIN ids = 1 .. Len(uses)
      BY <2>5
  <2>7. Requests!Range(ids) = new
      BY <2>5, <2>6 DEF Requests!Range
  <2>8. unanswered' = unanswered \cup new
      BY <2>3, <2>7 DEF ids
  <2> QED BY <1>1, <2>4, <2>8 DEF RequestInv, uses
<1> QED BY <1>1, <1>3, <1>4

LEMMA ClearCorrect ==
  ASSUME RequestInv, Requests!Clear
  PROVE  RequestInv'
<1>1. /\ step' = "idle" /\ history' = <<>> /\ parts' = 0 /\ said' = <<>>
      /\ unanswered' = {} /\ keeper' = keeper
    BY Zenon DEF Requests!Clear
<1>2. keeper \in {"session", "host"}
    BY RequestTypes
<1>3. TurnInv(keeper, <<>>, "idle", 0, <<>>, {})
    BY <1>2, HistoryStart
<1> QED BY <1>1, <1>3, Zenon DEF RequestInv

LEMMA RequestNextCorrect ==
  ASSUME RequestInv, Requests!Next \/ UNCHANGED <<keeper, history, step, parts, said, unanswered>>
  PROVE  RequestInv'
<1>1. CASE UNCHANGED <<keeper, history, step, parts, said, unanswered>>
    BY <1>1, Zenon DEF RequestInv
<1>2. CASE \E type \in {"text", "image"} : Requests!Prompt(type)
    BY <1>2, PromptCorrect
<1>3. CASE \E types \in UNION {[1 .. n -> {"text", "thinking", "tool_use"}] : n \in 0 .. MaxParts},
              input \in {"object", "nil"} : Requests!StreamedAnswer(types, input)
  <2>1. PICK types \in UNION {[1 .. n -> {"text", "thinking", "tool_use"}] : n \in 0 .. MaxParts},
              input \in {"object", "nil"} : Requests!StreamedAnswer(types, input)
      BY <1>3
  <2>2. PICK n \in 0 .. MaxParts : types \in [1 .. n -> {"text", "thinking", "tool_use"}]
      BY <2>1
  <2>3. n \in Nat
      BY RequestAssumption
  <2> QED BY <2>1, <2>2, <2>3, StreamedCorrect, Zenon
<1>4. CASE \E texts \in 0 .. 1, calls \in 0 .. MaxParts - 1, arguments \in {"object", "junk"} :
             Requests!ReceivedAnswer(texts, calls, arguments)
  <2>1. (0 .. 1) \subseteq Nat /\ (0 .. MaxParts - 1) \subseteq Nat
      BY RequestAssumption
  <2> QED BY <1>4, <2>1, ReceivedCorrect, Zenon
<1>5. CASE Requests!Results
    BY <1>5, ResultsCorrect
<1>6. CASE Requests!RunEnds
    BY <1>6, EndCorrect
<1>7. CASE Requests!Clear
    BY <1>7, ClearCorrect
<1> QED BY <1>1, <1>2, <1>3, <1>4, <1>5, <1>6, <1>7, Zenon DEF Requests!Next

\* What the invariant means for a request.
LEMMA RequestMeans ==
  ASSUME RequestInv
  PROVE  Requests!CallsAnswered /\ Requests!AnswersSentBack
<1> DEFINE r == Requests!Request
           calls(i) == r[i].calls
<1>1. r = RequestOf(keeper, history)
    BY DEF Requests!Request, RequestOf
<1>2. /\ keeper \in {"session", "host"} /\ Faithful(keeper, r, said)
      /\ step = "asking" => AnsweredBut(r, unanswered)
    BY <1>1 DEF RequestInv, TurnInv, TurnTypes
<1>3. r \in Seq(SentSet)
  <2>1. history \in Seq(MessageSet)
      BY RequestTypes
  <2>2. \A mm \in MessageSet : RequestOf(keeper, history) \in Seq(SentSet)
      BY <2>1, RequestGrows
  <2>3. MessageSet # {}
    <3>1. <<>> \in Seq(BlockSet)
        BY EmptySeq
    <3>2. [role |-> "user", content |-> <<>>] \in MessageSet
        BY <3>1 DEF MessageSet
    <3> QED BY <3>2
  <2> QED BY <1>1, <2>2, <2>3
<1> HIDE DEF r
<1>4. DOMAIN r = 1 .. Len(r) /\ \A i \in 1 .. Len(r) : r[i] \in SentSet
    BY <1>3
<1>5. \A i \in 1 .. Len(r) : DOMAIN calls(i) = 1 .. Len(calls(i)) /\ Len(calls(i)) \in Nat
  <2>1. \A i \in 1 .. Len(r) : calls(i) \in Seq(CallSet)
      BY <1>4, SentFields
  <2> HIDE DEF calls
  <2> QED BY <2>1
<1>6. Requests!CallsAnswered
  <2> SUFFICES ASSUME step = "asking" PROVE Requests!CallsAnswered
      BY DEF Requests!CallsAnswered
  <2> DEFINE answered == {i \in DOMAIN r : \E k \in DOMAIN r[i].calls :
                                             r[i].calls[k].id \notin unanswered}
             after(i) == {i + k : k \in DOMAIN r[i].calls}
  <2>1. answered = {i \in 1 .. Len(r) : Asks(r, i, unanswered)}
      BY <1>4, <1>5 DEF Asks
  <2>2. \A i \in 1 .. Len(r) : after(i) = {i + k : k \in 1 .. Len(calls(i))}
      BY <1>5
  <2>3. /\ \A i \in 1 .. Len(r) : Asks(r, i, unanswered) => Followed(r, i)
        /\ \A n \in 1 .. Len(r) : r[n].role = "tool" => AnswersOf(r, n, unanswered)
      BY <1>2 DEF AnsweredBut
  <2> HIDE DEF answered, after
  <2>4. ASSUME NEW i \in answered, NEW k \in 1 .. Len(calls(i))
        PROVE  /\ i + k \in 1 .. Len(r) /\ r[i + k].answers = r[i].calls[k].id
               /\ r[i + k].role = "tool"
    <3>1. i \in 1 .. Len(r) /\ Followed(r, i)
        BY <2>1, <2>3
    <3>2. i + k <= Len(r) /\ r[i + k].role = "tool" /\ r[i + k].answers = r[i].calls[k].id
        BY <3>1 DEF Followed
    <3>3. i \in Nat \ {0} /\ k \in Nat /\ Len(r) \in Nat
        BY <1>3, <1>5, <3>1
    <3> QED BY <3>2, <3>3
  <2>5. \A i \in answered : \A k \in DOMAIN r[i].calls :
          i + k \in DOMAIN r /\ r[i + k].answers = r[i].calls[k].id
      BY <1>4, <1>5, <2>1, <2>4
  <2>6. {i \in DOMAIN r : r[i].role = "tool"} = UNION {after(i) : i \in answered}
    <3>1. ASSUME NEW n \in DOMAIN r, r[n].role = "tool"
          PROVE  n \in UNION {after(i) : i \in answered}
      <4>1. AnswersOf(r, n, unanswered)
          BY <1>4, <2>3, <3>1
      <4>2. PICK i \in 1 .. Len(r) : /\ Asks(r, i, unanswered)
                                     /\ \E j \in 1 .. Len(r[i].calls) : n = i + j
          BY <4>1 DEF AnswersOf
      <4>3. i \in answered /\ n \in after(i)
          BY <2>1, <2>2, <4>2
      <4> QED BY <4>3
    <3>2. ASSUME NEW i \in answered, NEW n \in after(i)
          PROVE  n \in DOMAIN r /\ r[n].role = "tool"
      <4>1. PICK k \in 1 .. Len(calls(i)) : n = i + k
          BY <2>1, <2>2
      <4> QED BY <1>4, <2>4, <4>1
    <3> QED BY <3>1, <3>2
  <2> QED BY <2>5, <2>6, Zenon DEF Requests!CallsAnswered, answered, after, r
<1>7. Requests!AnswersSentBack
  <2>1. CASE keeper = "host"
    <3>1. Requests!Selected(r, {i \in DOMAIN r : r[i].role = "assistant"})
            = [i \in DOMAIN said |-> Requests!Sent(said[i])]
        BY <1>2, <2>1 DEF Faithful
    <3> QED BY <2>1, <3>1, Zenon DEF Requests!AnswersSentBack, r
  <2>2. CASE keeper # "host"
    <3>1. keeper = "session"
        BY <1>2, <2>2
    <3>2. \A i \in DOMAIN r : \A k \in DOMAIN r[i].calls : r[i].calls[k].arguments # "null"
        BY <1>2, <1>4, <1>5, <3>1 DEF Faithful
    <3> QED BY <2>2, <3>2, Zenon DEF Requests!AnswersSentBack, r
  <2> QED BY <2>1, <2>2
<1> QED BY <1>6, <1>7

-----------------------------------------------------------------------------
LEMMA RequestStep == [Next]_vars => Requests!Next \/ UNCHANGED requestVars
<1>1. \A s : Only(s) /\ s # "requests" => UNCHANGED requestVars
    BY DEF Only
<1> QED BY <1>1 DEF Next, vars

(***************************************************************************)
(* In the request of a turn each tool call is followed by its answers in    *)
(* their order, and nothing else is an answer, but for the calls of Runs    *)
(* that ended before their tools had run; what a service answered through   *)
(* CreateMessage is what it is sent back, and no call of a Session is sent  *)
(* without arguments (normalizeMessages, convertMessages of each client).   *)
(***************************************************************************)
THEOREM RequestsCorrect == Spec => []RequestsHold
<1>1. RequestInv => RequestsHold
    BY RequestMeans DEF RequestsHold
<1>2. Init => RequestInv
    BY RequestInit DEF Init
<1>3. RequestInv /\ [Next]_vars => RequestInv'
    BY RequestStep, RequestNextCorrect DEF requestVars, Requests!vars
<1> QED BY <1>1, <1>2, <1>3, PTL DEF Spec
=============================================================================
