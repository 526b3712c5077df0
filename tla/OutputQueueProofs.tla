-------------------------- MODULE OutputQueueProofs --------------------------
(* Proofs about OutputQueue, for buffers and pools of any size, any number of *)
(* bytes, and TCP and pipe channels.                                         *)
EXTENDS OutputQueue, ListLemmas, FiniteSetTheorems, TLAPS

-----------------------------------------------------------------------------
(* Blocks of bytes in order.                                                *)

\* m holds the bytes behind byte a.
RunFrom(m, a) == \A k \in 1..Len(m) : m[k] = a + k

\* A later block starts at least one byte further for each block before it.
Ascending(c) == \A i, j \in 1..Len(c) : i <= j => Start(c[j]) >= Start(c[i]) + (j - i)

Chain(c, f, e) == InOrder(c, f, e) /\ Ascending(c)

\* A list over a set is a list over a larger one.
LEMMA SeqMono ==
    ASSUME NEW S, NEW T, S \subseteq T, NEW x \in Seq(S)
    PROVE  x \in Seq(T)
<1>1. Len(x) \in Nat /\ x \in [1..Len(x) -> S]
  OBVIOUS
<1>2. x \in [1..Len(x) -> T]
  BY <1>1
<1> QED BY <1>1, <1>2

\* A function on 1..n is a list.
LEMMA FunctionIsList ==
    ASSUME NEW S, NEW n \in Nat, NEW x \in [1..n -> S]
    PROVE  x \in Seq(S) /\ Len(x) = n
  OBVIOUS

\* A list of bytes is a list of numbers.
LEMMA BytesTyped ==
    ASSUME NEW m \in Seq(1..MaxBytes)
    PROVE  m \in Seq(Nat) /\ Len(m) \in Nat
<1>1. 1..MaxBytes \subseteq Nat
  OBVIOUS
<1>2. m \in Seq(Nat)
  BY <1>1, SeqMono
<1> QED BY <1>2

\* A run has a first byte and ends behind it.
LEMMA RunBounds ==
    ASSUME NEW m \in Seq(Nat), IsRun(m)
    PROVE  Start(m) \in Nat /\ End(m) \in Nat /\ End(m) > Start(m) /\ End(m) = Start(m) + Len(m)
  BY DEF IsRun, Start, End

\* The bounds of the blocks in a list.
LEMMA BlockTypes ==
    ASSUME NEW c \in Seq(Seq(Nat)), NEW f, NEW e, Chain(c, f, e), NEW i \in 1..Len(c)
    PROVE  /\ c[i] \in Seq(Nat) /\ IsRun(c[i])
           /\ Start(c[i]) \in Nat /\ End(c[i]) \in Nat /\ End(c[i]) > Start(c[i])
<1>1. c[i] \in Seq(Nat)
  OBVIOUS
<1>2. IsRun(c[i])
  BY DEF Chain, InOrder
<1> QED BY <1>1, <1>2, RunBounds

\* Blocks in order followed by blocks in order.
LEMMA ChainConcat ==
    ASSUME NEW c \in Seq(Seq(Nat)), NEW d \in Seq(Seq(Nat)),
           NEW f \in Int, NEW e \in Int, NEW g \in Int,
           Chain(c, f, e), Chain(d, e, g)
    PROVE  Chain(c \o d, f, g)
<1> DEFINE b == c \o d
           n == Len(c)
           m == Len(d)
<1>1. n \in Nat /\ m \in Nat
  OBVIOUS
<1>2. /\ Len(b) = n + m /\ b \in Seq(Seq(Nat))
      /\ \A i \in 1..(n + m) :
           /\ i <= n => b[i] = c[i]
           /\ i > n => b[i] = d[i - n] /\ i - n \in 1..m
  BY ConcatEntries
<1>3. /\ \A i \in 1..n : Start(c[i]) \in Nat /\ End(c[i]) \in Nat /\ End(c[i]) > Start(c[i])
      /\ \A i \in 1..m : Start(d[i]) \in Nat /\ End(d[i]) \in Nat /\ End(d[i]) > Start(d[i])
  BY BlockTypes
<1>5. (n > 0 => Start(c[1]) = f + 1 /\ End(c[n]) = e + 1) /\ (n = 0 => e = f)
  BY DEF Chain, InOrder
<1>6. (m > 0 => Start(d[1]) = e + 1 /\ End(d[m]) = g + 1) /\ (m = 0 => g = e)
  BY DEF Chain, InOrder
<1>7. (\A i, j \in 1..n : i <= j => Start(c[j]) >= Start(c[i]) + (j - i))
      /\ \A i, j \in 1..m : i <= j => Start(d[j]) >= Start(d[i]) + (j - i)
  BY DEF Chain, Ascending
<1>8. (\A i \in 1..n : IsRun(c[i])) /\ (\A i \in 1..m : IsRun(d[i]))
  BY DEF Chain, InOrder
<1>9. (\A i \in 2..n : Start(c[i]) = End(c[i - 1])) /\ (\A i \in 2..m : Start(d[i]) = End(d[i - 1]))
  BY DEF Chain, InOrder
<1>a. c \o d = b
  OBVIOUS
<1> HIDE DEF b, n, m
<1>10. ASSUME NEW i \in 1..(n + m), NEW j \in 1..(n + m), i <= j
       PROVE  Start(b[j]) >= Start(b[i]) + (j - i)
  <2>1. CASE j <= n
    <3>1. b[i] = c[i] /\ b[j] = c[j] /\ i \in 1..n /\ j \in 1..n
      BY <1>1, <1>2, <1>10, <2>1
    <3> QED BY <1>7, <1>10, <3>1
  <2>2. CASE i > n
    <3>1. b[i] = d[i - n] /\ b[j] = d[j - n] /\ i - n \in 1..m /\ j - n \in 1..m
      <4>1. i > n /\ j > n
        BY <1>1, <1>10, <2>2
      <4>2. b[i] = d[i - n] /\ b[j] = d[j - n]
        BY <1>2, <4>1
      <4>3. i - n \in 1..m /\ j - n \in 1..m
        BY <1>1, <4>1
      <4> QED BY <4>2, <4>3
    <3>2. i - n <= j - n /\ (j - n) - (i - n) = j - i
      BY <1>1, <1>10
    <3>3. Start(d[j - n]) >= Start(d[i - n]) + ((j - n) - (i - n))
      BY <1>7, <3>1, <3>2
    <3> QED BY <3>1, <3>2, <3>3
  <2>3. CASE i <= n /\ j > n
    <3>1. b[i] = c[i] /\ b[j] = d[j - n] /\ j - n \in 1..m /\ i \in 1..n /\ n \in 1..n /\ 1 \in 1..m
      BY <1>1, <1>2, <2>3
    <3>2. Start(c[n]) >= Start(c[i]) + (n - i)
      BY <1>1, <1>7, <3>1
    <3>3. Start(d[j - n]) >= Start(d[1]) + ((j - n) - 1)
      BY <1>1, <1>7, <3>1
    <3>4. Start(d[1]) = End(c[n])
      BY <1>1, <1>5, <1>6, <1>3, <3>1
    <3>5. /\ Start(c[n]) \in Nat /\ Start(c[i]) \in Nat /\ Start(d[1]) \in Nat
          /\ Start(d[j - n]) \in Nat /\ End(c[n]) \in Nat /\ End(c[n]) > Start(c[n])
      BY <1>3, <3>1
    <3>6. Start(d[j - n]) >= Start(c[i]) + (j - i)
      BY SMTT(30), <1>1, <3>2, <3>3, <3>4, <3>5
    <3> QED BY <3>1, <3>6
  <2> QED BY <1>1, <2>1, <2>2, <2>3
<1>11. ASSUME NEW i \in 1..(n + m)
       PROVE  IsRun(b[i])
  <2>1. CASE i <= n
    <3>1. b[i] = c[i] /\ i \in 1..n
      BY <1>1, <1>2, <2>1
    <3> QED BY <1>8, <3>1
  <2>2. CASE i > n
    <3>1. b[i] = d[i - n] /\ i - n \in 1..m
      BY <1>2, <2>2
    <3> QED BY <1>8, <3>1
  <2> QED BY <1>1, <2>1, <2>2
<1>12. ASSUME NEW i \in 2..(n + m)
       PROVE  Start(b[i]) = End(b[i - 1])
  <2>0. i \in 1..(n + m) /\ i - 1 \in 1..(n + m)
    BY <1>1
  <2>1. CASE i <= n
    <3>1. b[i] = c[i] /\ b[i - 1] = c[i - 1] /\ i \in 2..n
      BY <1>1, <1>2, <2>0, <2>1
    <3> QED BY <1>9, <3>1
  <2>2. CASE i > n + 1
    <3>1. b[i] = d[i - n] /\ b[i - 1] = d[(i - n) - 1] /\ i - n \in 2..m
      <4>1. i - 1 > n /\ (i - 1) - n = (i - n) - 1 /\ i > n
        BY <1>1, <2>2
      <4>2. b[i - 1] = d[(i - 1) - n] /\ b[i] = d[i - n] /\ i - n \in 1..m
        BY <1>2, <2>0, <4>1
      <4> QED BY <1>1, <2>2, <4>1, <4>2
    <3> QED BY <1>9, <3>1
  <2>3. CASE i = n + 1
    <3>1. i - 1 = n /\ i > n /\ i - n = 1 /\ n \in 1..n
      BY <1>1, <2>3
    <3>2. b[i] = d[1] /\ 1 \in 1..m
      BY <1>2, <2>0, <3>1
    <3>3. b[i - 1] = c[n]
      BY <1>1, <1>2, <2>0, <3>1
    <3>4. n > 0 /\ m > 0
      BY <1>1, <3>1, <3>2
    <3> QED BY <1>5, <1>6, <3>2, <3>3, <3>4
  <2> QED BY <1>1, <2>1, <2>2, <2>3
<1>13. b = << >> => g = f
  BY <1>1, <1>2, <1>5, <1>6
<1>14. ASSUME b # << >>
       PROVE  Start(b[1]) = f + 1 /\ End(b[Len(b)]) = g + 1
  <2>0. n + m \in 1..(n + m) /\ 1 \in 1..(n + m)
    BY <1>1, <1>2, <1>14
  <2>1. Start(b[1]) = f + 1
    <3>1. CASE n > 0
      BY <1>1, <1>2, <1>5, <2>0, <3>1
    <3>2. CASE n = 0
      <4>1. b[1] = d[1] /\ m > 0
        BY <1>1, <1>2, <2>0, <3>2
      <4> QED BY <1>5, <1>6, <3>2, <4>1
    <3> QED BY <1>1, <3>1, <3>2
  <2>2. End(b[n + m]) = g + 1
    <3>1. CASE m > 0
      <4>1. n + m > n /\ (n + m) - n = m
        BY <1>1, <3>1
      <4>2. b[n + m] = d[m]
        BY <1>2, <2>0, <4>1
      <4> QED BY <1>6, <3>1, <4>2
    <3>2. CASE m = 0
      <4>1. n + m = n /\ n > 0 /\ b[n] = c[n]
        BY <1>1, <1>2, <2>0, <3>2
      <4> QED BY <1>5, <1>6, <3>2, <4>1
    <3> QED BY <1>1, <3>1, <3>2
  <2> QED BY <1>2, <2>1, <2>2
<1>15. Ascending(b)
  BY <1>2, <1>10 DEF Ascending
<1>16. InOrder(b, f, g)
  BY <1>2, <1>11, <1>12, <1>13, <1>14 DEF InOrder
<1> QED BY <1>a, <1>15, <1>16 DEF Chain

\* One block.
LEMMA ChainOne ==
    ASSUME NEW m \in Seq(Nat), NEW e \in Nat, m # << >>, RunFrom(m, e)
    PROVE  <<m>> \in Seq(Seq(Nat)) /\ Chain(<<m>>, e, e + Len(m))
<1> DEFINE c == <<m>>
<1>1. Len(c) = 1 /\ c[1] = m /\ c # << >> /\ c \in Seq(Seq(Nat))
  OBVIOUS
<1>2. Len(m) \in Nat \ {0} /\ m[1] = e + 1 /\ \A k \in 1..Len(m) : m[k] = e + k
  BY DEF RunFrom
<1>3. Start(m) = e + 1 /\ End(m) = (e + Len(m)) + 1 /\ IsRun(m)
  BY <1>2 DEF IsRun, Start, End
<1>a. <<m>> = c
  OBVIOUS
<1> HIDE DEF c
<1>4. Ascending(c)
  BY <1>1, <1>3 DEF Ascending
<1>5. InOrder(c, e, e + Len(m))
  BY <1>1, <1>3 DEF InOrder
<1> QED BY <1>a, <1>1, <1>4, <1>5 DEF Chain

\* The blocks behind the first one.
LEMMA ChainTail ==
    ASSUME NEW c \in Seq(Seq(Nat)), NEW f \in Int, NEW e \in Int, Chain(c, f, e), c # << >>
    PROVE  Tail(c) \in Seq(Seq(Nat)) /\ Chain(Tail(c), f + Len(c[1]), e)
<1> DEFINE d == Tail(c)
           n == Len(c)
           g == f + Len(c[1])
<1>1. /\ n \in Nat \ {0} /\ d \in Seq(Seq(Nat)) /\ Len(d) = n - 1
      /\ \A i \in 1..(n - 1) : d[i] = c[i + 1]
  OBVIOUS
<1>2. \A i \in 1..n : /\ Start(c[i]) \in Nat /\ End(c[i]) \in Nat
                     /\ c[i] \in Seq(Nat) /\ IsRun(c[i])
  BY BlockTypes
<1>3. /\ Start(c[1]) = f + 1 /\ End(c[n]) = e + 1
      /\ \A i \in 2..n : Start(c[i]) = End(c[i - 1])
  BY DEF Chain, InOrder
<1>4. \A i, j \in 1..n : i <= j => Start(c[j]) >= Start(c[i]) + (j - i)
  BY DEF Chain, Ascending
<1>b. End(c[1]) = g + 1 /\ g \in Int
  <2>1. End(c[1]) = Start(c[1]) + Len(c[1]) /\ Len(c[1]) \in Nat
    BY <1>1, <1>2, RunBounds
  <2>2. ASSUME NEW l \in Nat PROVE (f + 1) + l = (f + l) + 1 /\ f + l \in Int
    OBVIOUS
  <2>3. (f + 1) + Len(c[1]) = (f + Len(c[1])) + 1 /\ f + Len(c[1]) \in Int
    BY <2>1, <2>2
  <2> QED BY <1>3, <2>1, <2>3
<1>a. Tail(c) = d /\ f + Len(c[1]) = g
  OBVIOUS
<1> HIDE DEF d, n, g
<1>5. Ascending(d)
  <2> SUFFICES ASSUME NEW i \in 1..(n - 1), NEW j \in 1..(n - 1), i <= j
               PROVE  Start(d[j]) >= Start(d[i]) + (j - i)
    BY <1>1 DEF Ascending
  <2>1. i + 1 \in 1..n /\ j + 1 \in 1..n /\ i + 1 <= j + 1 /\ (j + 1) - (i + 1) = j - i
    BY <1>1
  <2>2. Start(c[j + 1]) >= Start(c[i + 1]) + ((j + 1) - (i + 1))
    BY <1>4, <2>1
  <2>3. d[i] = c[i + 1] /\ d[j] = c[j + 1]
    BY <1>1
  <2>4. Start(c[j + 1]) >= Start(c[i + 1]) + (j - i)
    BY <2>1, <2>2
  <2>5. Start(d[j]) = Start(c[j + 1]) /\ Start(d[i]) = Start(c[i + 1])
    BY <2>3
  <2>6. Start(c[j + 1]) \in Nat /\ Start(c[i + 1]) \in Nat
    BY <1>2, <2>1
  <2> QED BY <2>4, <2>5, <2>6
<1>6. ASSUME NEW i \in 2..(n - 1)
      PROVE  Start(d[i]) = End(d[i - 1])
  <2>1. i \in 1..(n - 1) /\ i - 1 \in 1..(n - 1) /\ (i - 1) + 1 = (i + 1) - 1 /\ i + 1 \in 2..n
    BY <1>1
  <2>2. d[i] = c[i + 1] /\ d[i - 1] = c[(i + 1) - 1]
    BY <1>1, <2>1
  <2> QED BY <1>3, <2>1, <2>2
<1>7. ASSUME NEW i \in 1..(n - 1)
      PROVE  IsRun(d[i])
  <2>1. i + 1 \in 1..n /\ d[i] = c[i + 1]
    BY <1>1
  <2> QED BY <1>2, <2>1
<1>8. ASSUME d = << >> PROVE e = g
  <2>1. n = 1
    BY <1>1, <1>8
  <2> QED BY <1>3, <1>b, <2>1
<1>9. ASSUME d # << >>
      PROVE  Start(d[1]) = g + 1 /\ End(d[Len(d)]) = e + 1
  <2>1. 1 \in 1..(n - 1) /\ n - 1 \in 1..(n - 1) /\ 2 \in 2..n /\ 1 + 1 = 2 /\ (n - 1) + 1 = n /\ 2 - 1 = 1
    BY <1>1, <1>9
  <2>2. d[1] = c[2] /\ d[n - 1] = c[n]
    BY <1>1, <2>1
  <2>3. Start(c[2]) = End(c[1])
    BY <1>3, <2>1
  <2> QED BY <1>1, <1>b, <1>3, <2>2, <2>3
<1>10. InOrder(d, g, e)
  BY <1>1, <1>6, <1>7, <1>8, <1>9 DEF InOrder
<1> QED BY <1>a, <1>1, <1>5, <1>10 DEF Chain

\* A run grows.
LEMMA RunExtend ==
    ASSUME NEW a \in Seq(Nat), IsRun(a), NEW e \in Nat, End(a) = e + 1,
           NEW m \in Seq(Nat), RunFrom(m, e)
    PROVE  /\ a \o m \in Seq(Nat) /\ Len(a \o m) = Len(a) + Len(m)
           /\ IsRun(a \o m) /\ Start(a \o m) = Start(a) /\ End(a \o m) = (e + Len(m)) + 1
<1> DEFINE x == a \o m
<1>1. /\ x \in Seq(Nat) /\ Len(x) = Len(a) + Len(m)
      /\ \A i \in 1..(Len(a) + Len(m)) :
           /\ i <= Len(a) => x[i] = a[i]
           /\ i > Len(a) => x[i] = m[i - Len(a)] /\ i - Len(a) \in 1..Len(m)
  BY ConcatEntries
<1>2. Len(a) \in Nat \ {0} /\ Len(m) \in Nat /\ a[1] \in Nat
  BY DEF IsRun
<1>3. (\A k \in 1..Len(a) : a[k] = a[1] + k - 1) /\ a[1] + Len(a) = e + 1
  BY DEF IsRun, End
<1>a. a \o m = x
  OBVIOUS
<1> HIDE DEF x
<1>4. x[1] = a[1] /\ x # << >>
  BY <1>1, <1>2
<1>5. ASSUME NEW k \in 1..Len(x)
      PROVE  x[k] = x[1] + k - 1
  <2>1. k \in 1..(Len(a) + Len(m))
    BY <1>1
  <2>2. CASE k <= Len(a)
    <3>1. x[k] = a[k] /\ k \in 1..Len(a)
      BY <1>1, <1>2, <2>1, <2>2
    <3>2. a[k] = a[1] + k - 1
      BY <1>3, <3>1
    <3> QED BY <1>4, <3>1, <3>2
  <2>3. CASE k > Len(a)
    <3>1. x[k] = m[k - Len(a)] /\ k - Len(a) \in 1..Len(m)
      BY <1>1, <2>1, <2>3
    <3>2. m[k - Len(a)] = e + (k - Len(a))
      BY <3>1 DEF RunFrom
    <3>3. x[k] = e + (k - Len(a)) /\ a[1] + Len(a) = e + 1 /\ x[1] = a[1]
      BY <1>3, <1>4, <3>1, <3>2
    <3> QED BY <1>2, <3>3
  <2> QED BY <1>2, <2>1, <2>2, <2>3
<1>6. IsRun(x) /\ Start(x) = Start(a)
  BY <1>4, <1>5 DEF IsRun, Start
<1>7. End(x) = (e + Len(m)) + 1
  <2>1. End(x) = a[1] + (Len(a) + Len(m))
    BY <1>1, <1>4 DEF End
  <2>2. ASSUME NEW p \in Nat, NEW q \in Nat, NEW r \in Nat, p + q = e + 1
        PROVE  p + (q + r) = (e + r) + 1
    BY <2>2
  <2>3. a[1] + (Len(a) + Len(m)) = (e + Len(m)) + 1
    BY <1>2, <1>3, <2>2
  <2> QED BY <2>1, <2>3
<1> QED BY <1>a, <1>1, <1>6, <1>7

\* The last block grows.
LEMMA ChainExtend ==
    ASSUME NEW c \in Seq(Seq(Nat)), NEW f \in Int, NEW e \in Nat, Chain(c, f, e), c # << >>,
           NEW m \in Seq(Nat), RunFrom(m, e)
    PROVE  /\ [c EXCEPT ![Len(c)] = @ \o m] \in Seq(Seq(Nat))
           /\ Chain([c EXCEPT ![Len(c)] = @ \o m], f, e + Len(m))
<1> DEFINE n == Len(c)
           x == c[n] \o m
           d == [c EXCEPT ![n] = x]
<1>1. n \in Nat \ {0} /\ n \in 1..n /\ 1 \in 1..n
  OBVIOUS
<1>2. \A i \in 1..n : c[i] \in Seq(Nat) /\ IsRun(c[i])
  BY BlockTypes
<1>3. /\ Start(c[1]) = f + 1 /\ End(c[n]) = e + 1
      /\ \A i \in 2..n : Start(c[i]) = End(c[i - 1])
  BY DEF Chain, InOrder
<1>4. \A i, j \in 1..n : i <= j => Start(c[j]) >= Start(c[i]) + (j - i)
  BY DEF Chain, Ascending
<1>5. x \in Seq(Nat) /\ IsRun(x) /\ Start(x) = Start(c[n]) /\ End(x) = (e + Len(m)) + 1
  <2>1. c[n] \in Seq(Nat) /\ IsRun(c[n]) /\ End(c[n]) = e + 1
    BY <1>1, <1>2, <1>3
  <2> QED BY <2>1, RunExtend
<1>6. /\ d \in Seq(Seq(Nat)) /\ Len(d) = n /\ d[n] = x
      /\ \A i \in 1..n : i # n => d[i] = c[i]
  BY SMTT(30), <1>1, <1>5
<1>a. [c EXCEPT ![Len(c)] = @ \o m] = d
  OBVIOUS
<1> HIDE DEF d, n, x
<1>8. \A i \in 1..n : Start(d[i]) = Start(c[i]) /\ IsRun(d[i])
  BY <1>2, <1>5, <1>6
<1>11. ASSUME NEW i \in 2..n
       PROVE  Start(d[i]) = End(d[i - 1])
  <2>1. i \in 1..n /\ i - 1 \in 1..n /\ i - 1 # n
    BY <1>1
  <2>2. Start(d[i]) = Start(c[i]) /\ d[i - 1] = c[i - 1]
    BY <1>6, <1>8, <2>1
  <2> QED BY <1>3, <2>2
<1>12. Start(d[1]) = f + 1 /\ End(d[n]) = (e + Len(m)) + 1
  BY <1>1, <1>3, <1>5, <1>6, <1>8
<1>13. d # << >>
  BY <1>1, <1>6
<1>14. Ascending(d)
  BY <1>4, <1>6, <1>8 DEF Ascending
<1>15. InOrder(d, f, e + Len(m))
  BY <1>6, <1>8, <1>11, <1>12, <1>13 DEF InOrder
<1> QED BY <1>a, <1>6, <1>14, <1>15 DEF Chain

\* There are no more blocks than bytes.
LEMMA ChainLength ==
    ASSUME NEW c \in Seq(Seq(Nat)), NEW f \in Int, NEW e \in Int, Chain(c, f, e)
    PROVE  Len(c) <= e - f
<1>1. CASE c = << >>
  BY <1>1 DEF Chain, InOrder
<1>2. CASE c # << >>
  <2>1. Len(c) \in Nat \ {0} /\ 1 \in 1..Len(c) /\ Len(c) \in 1..Len(c)
    BY <1>2
  <2>2. Start(c[1]) \in Nat /\ Start(c[Len(c)]) \in Nat /\ End(c[Len(c)]) \in Nat /\ End(c[Len(c)]) > Start(c[Len(c)])
    BY <2>1, BlockTypes
  <2>3. Start(c[1]) = f + 1 /\ End(c[Len(c)]) = e + 1
    BY <1>2 DEF Chain, InOrder
  <2>4. Start(c[Len(c)]) >= Start(c[1]) + (Len(c) - 1)
    BY <2>1 DEF Chain, Ascending
  <2> QED BY <2>1, <2>2, <2>3, <2>4
<1> QED BY <1>1, <1>2

-----------------------------------------------------------------------------
(* The chunks output_queue_add() makes.                                     *)

\* How many chunks l bytes make.
LEMMA ChunkCount ==
    ASSUME NEW B \in Nat \ {0}, NEW l \in Nat, NEW n, n = (l + B - 1) \div B
    PROVE  n \in Nat /\ n * B >= l /\ (l = 0 => n = 0) /\ (n > 0 => (n - 1) * B < l)
<1> DEFINE x == l + B - 1
<1>1. x \in Nat
  OBVIOUS
<1>2. n \in Nat /\ n * B <= x /\ x < n * B + B
  <2> HIDE DEF x
  <2>1. x \div B \in Nat
    BY <1>1
  <2>2. (x \div B) * B <= x
    BY <1>1
  <2>3. x < (x \div B) * B + B
    BY <1>1
  <2>4. n = x \div B
    BY DEF x
  <2> QED BY <2>1, <2>2, <2>3, <2>4
<1>3. n * B >= l
  <2>1. n * B \in Int
    BY <1>2
  <2> QED BY <1>2, <2>1
<1>4. ASSUME n > 0 PROVE (n - 1) * B < l
  <2>1. (n - 1) * B = n * B - B /\ n * B \in Int
    BY <1>2
  <2> QED BY <1>2, <2>1
<1>5. ASSUME l = 0, n # 0 PROVE FALSE
  <2>1. (n - 1) * B >= 0
    BY <1>2, <1>5
  <2> QED BY <1>2, <1>4, <1>5, <2>1
<1> QED BY <1>2, <1>3, <1>4, <1>5

\* The chunks hold the bytes in order, and each fits a buffer.
LEMMA ChunksInOrder ==
    ASSUME NEW S \in SUBSET Nat, NEW m \in Seq(S), NEW e \in Nat, RunFrom(m, e)
    PROVE  /\ Chunks(m) \in Seq(Seq(S)) /\ Chunks(m) \in Seq(Seq(Nat))
           /\ Chain(Chunks(m), e, e + Len(m))
           /\ \A i \in 1..Len(Chunks(m)) : Len(Chunks(m)[i]) <= BufSize
<1> DEFINE l == Len(m)
           n == (l + BufSize - 1) \div BufSize
           lo(i) == (i - 1) * BufSize + 1
           hi(i) == MinOf(i * BufSize, l)
           c == Chunks(m)
<1>0. BufSize \in Nat \ {0} /\ l \in Nat
  BY ConstantAssumption
<1>1. n \in Nat /\ n * BufSize >= l /\ (l = 0 => n = 0) /\ (n > 0 => (n - 1) * BufSize < l)
  <2> HIDE DEF l
  <2> QED BY <1>0, ChunkCount
<1>2. c = [i \in 1..n |-> SubSeq(m, lo(i), hi(i))]
  BY DEF Chunks
<1>a. Chunks(m) = c /\ Len(m) = l
  OBVIOUS
<1>b. \A k \in 1..l : m[k] = e + k
  BY DEF RunFrom
<1> HIDE DEF c, n, l
<1>3. ASSUME NEW i \in 1..n
      PROVE  /\ lo(i) \in Nat \ {0} /\ hi(i) \in Nat /\ lo(i) <= hi(i) /\ hi(i) <= l
             /\ hi(i) <= lo(i) + (BufSize - 1)
             /\ i = n => hi(i) = l
             /\ i < n => hi(i) + 1 = lo(i + 1)
  <2>1. i - 1 \in Nat /\ n - 1 \in Nat /\ i - 1 <= n - 1 /\ i \in Nat
    BY <1>1
  <2>2. (i - 1) * BufSize \in Nat /\ (i - 1) * BufSize <= (n - 1) * BufSize /\ (n - 1) * BufSize \in Nat
    BY <1>0, <2>1
  <2>3. i * BufSize = (i - 1) * BufSize + BufSize
    BY <1>0, <2>1
  <2>4. i < n => i * BufSize <= (n - 1) * BufSize
    BY <1>0, <1>1, <2>1
  <2>5. (i + 1) - 1 = i
    BY <2>1
  <2>6. (n - 1) * BufSize < l
    BY <1>1, <2>1
  <2>7. i * BufSize \in Nat /\ lo(i) = (i - 1) * BufSize + 1 /\ lo(i + 1) = i * BufSize + 1
    BY <1>0, <2>1, <2>5
  <2>8. hi(i) = (IF i * BufSize < l THEN i * BufSize ELSE l)
    BY DEF MinOf
  <2>9. hi(i) \in Nat /\ hi(i) <= l /\ hi(i) <= i * BufSize /\ (hi(i) = l \/ hi(i) = i * BufSize)
    BY <1>0, <2>7, <2>8
  <2> HIDE DEF lo, hi
  <2>10. lo(i) \in Nat \ {0} /\ lo(i) <= hi(i)
    BY <1>0, <2>2, <2>3, <2>6, <2>7, <2>9
  <2>11. hi(i) <= lo(i) + (BufSize - 1)
    BY <1>0, <2>2, <2>3, <2>7, <2>9
  <2>12. i = n => hi(i) = l
    BY <1>0, <1>1, <2>7, <2>8 DEF hi
  <2>13. i < n => hi(i) + 1 = lo(i + 1)
    BY <1>0, <2>2, <2>4, <2>6, <2>7, <2>8
  <2> QED BY <2>9, <2>10, <2>11, <2>12, <2>13
<1>4. ASSUME NEW i \in 1..n, NEW j \in 1..n, i <= j
      PROVE  lo(j) >= lo(i) + (j - i)
  <2>1. i - 1 \in Nat /\ j - 1 \in Nat /\ i - 1 <= j - 1 /\ (j - 1) - (i - 1) = j - i
    BY <1>1, <1>4
  <2>2. ASSUME NEW p \in Nat, NEW q \in Nat, p <= q PROVE q * BufSize >= p * BufSize + (q - p)
    BY <1>0, <2>2
  <2>3. (j - 1) * BufSize >= (i - 1) * BufSize + (j - i)
    BY <2>1, <2>2
  <2>4. (j - 1) * BufSize \in Nat /\ (i - 1) * BufSize \in Nat
    BY <1>0, <2>1
  <2> QED BY <2>1, <2>3, <2>4
<1> HIDE DEF lo, hi
<1>5. ASSUME NEW i \in 1..n
      PROVE  /\ c[i] \in Seq(S) /\ c[i] \in Seq(Nat) /\ Len(c[i]) <= BufSize /\ IsRun(c[i])
             /\ Start(c[i]) = e + lo(i) /\ End(c[i]) = (e + hi(i)) + 1
  <2>1. c[i] = SubSeq(m, lo(i), hi(i))
    BY <1>2
  <2>2. lo(i) \in 1..l /\ hi(i) \in 1..l /\ lo(i) <= hi(i)
    BY <1>0, <1>3
  <2>3. /\ c[i] \in Seq(S) /\ Len(c[i]) = hi(i) - lo(i) + 1
        /\ \A k \in 1..(hi(i) - lo(i) + 1) : c[i][k] = m[lo(i) + k - 1]
    <3>1. ASSUME NEW p \in 1..Len(m), NEW q \in 1..Len(m), p <= q
          PROVE  /\ SubSeq(m, p, q) \in Seq(S) /\ Len(SubSeq(m, p, q)) = q - p + 1
                 /\ \A k \in 1..(q - p + 1) : SubSeq(m, p, q)[k] = m[p + k - 1]
      BY <3>1
    <3> QED BY <1>a, <2>1, <2>2, <3>1
  <2>4. c[i] \in Seq(Nat)
    BY <2>3, SeqMono
  <2>5. ASSUME NEW k \in 1..(hi(i) - lo(i) + 1)
        PROVE  c[i][k] = e + (lo(i) + k - 1)
    <3>1. lo(i) + k - 1 \in 1..l
      BY <1>0, <2>2
    <3> QED BY <1>b, <2>3, <3>1
  <2>6. Len(c[i]) \in Nat \ {0} /\ Len(c[i]) <= BufSize
    BY <1>0, <1>3, <2>2, <2>3
  <2>7. c[i][1] = e + lo(i)
    BY <1>0, <2>2, <2>5
  <2>8. \A k \in 1..Len(c[i]) : c[i][k] = c[i][1] + k - 1
    BY <1>0, <2>2, <2>3, <2>5, <2>7
  <2>9. IsRun(c[i])
    BY <2>6, <2>8 DEF IsRun
  <2>10. Start(c[i]) = e + lo(i) /\ End(c[i]) = (e + hi(i)) + 1
    BY <1>0, <2>2, <2>3, <2>7 DEF Start, End
  <2> QED BY <2>3, <2>4, <2>6, <2>9, <2>10
<1>6. c \in Seq(Seq(S)) /\ c \in Seq(Seq(Nat)) /\ Len(c) = n
  <2>1. c \in [1..n -> Seq(S)] /\ c \in [1..n -> Seq(Nat)]
    BY <1>2, <1>5
  <2> QED BY <1>1, <2>1
<1>7. ASSUME NEW i \in 2..n PROVE Start(c[i]) = End(c[i - 1])
  <2>1. i \in 1..n /\ i - 1 \in 1..n /\ i - 1 < n /\ (i - 1) + 1 = i
    BY <1>1
  <2>2. hi(i - 1) + 1 = lo(i) /\ hi(i - 1) \in Nat
    BY <1>3, <2>1
  <2>3. Start(c[i]) = e + lo(i) /\ End(c[i - 1]) = (e + hi(i - 1)) + 1
    BY <1>5, <2>1
  <2> QED BY <2>2, <2>3
<1>8. ASSUME c # << >> PROVE Start(c[1]) = e + 1 /\ End(c[Len(c)]) = (e + l) + 1
  <2>1. 1 \in 1..n /\ n \in 1..n
    BY <1>1, <1>6, <1>8
  <2>2. lo(1) = 1
    BY <1>0 DEF lo
  <2>3. hi(n) = l
    BY <1>3, <2>1
  <2>4. Start(c[1]) = e + lo(1) /\ End(c[n]) = (e + hi(n)) + 1
    BY <1>5, <2>1
  <2> QED BY <1>6, <2>2, <2>3, <2>4
<1>9. c = << >> => e + l = e
  <2>1. ASSUME c = << >> PROVE l = 0
    <3>1. n = 0
      BY <1>6, <2>1
    <3> QED BY <1>0, <1>1, <3>1
  <2> QED BY <2>1
<1>10. InOrder(c, e, e + l)
  BY <1>5, <1>6, <1>7, <1>8, <1>9 DEF InOrder
<1>11. Ascending(c)
  <2> SUFFICES ASSUME NEW i \in 1..n, NEW j \in 1..n, i <= j
               PROVE  Start(c[j]) >= Start(c[i]) + (j - i)
    BY <1>6 DEF Ascending
  <2>1. lo(j) >= lo(i) + (j - i) /\ lo(i) \in Nat /\ lo(j) \in Nat
    BY <1>3, <1>4
  <2>2. Start(c[i]) = e + lo(i) /\ Start(c[j]) = e + lo(j)
    BY <1>5
  <2> QED BY <1>1, <2>1, <2>2
<1> QED BY <1>a, <1>5, <1>6, <1>10, <1>11 DEF Chain

-----------------------------------------------------------------------------
(* Taking buffers.                                                          *)

\* A list has no more members than entries.
LEMMA MemberCount ==
    ASSUME NEW S, NEW q \in Seq(S)
    PROVE  IsFiniteSet(ToSet(q)) /\ Cardinality(ToSet(q)) \in Nat /\ Cardinality(ToSet(q)) <= Len(q)
<1>1. Len(q) \in Nat /\ q \in [1..Len(q) -> ToSet(q)]
  <2>1. Len(q) \in Nat /\ q \in [1..Len(q) -> S]
    OBVIOUS
  <2>2. \A i \in 1..Len(q) : q[i] \in ToSet(q)
    BY MemberAt
  <2> QED BY <2>1, <2>2
<1>2. q \in Surjection(1..Len(q), ToSet(q))
  <2>1. \A x \in ToSet(q) : \E i \in 1..Len(q) : q[i] = x
    BY MemberAt
  <2> QED BY <1>1, <2>1 DEF Surjection
<1>3. IsFiniteSet(1..Len(q)) /\ Cardinality(1..Len(q)) = Len(q)
  BY <1>1, FS_Interval
<1>4. IsFiniteSet(ToSet(q)) /\ Cardinality(ToSet(q)) <= Len(q)
  BY <1>2, <1>3, FS_Surjection
<1> QED BY <1>4, FS_CardinalityType

\* A list of different elements can be as long as the set is large.
LEMMA DistinctExist ==
    ASSUME NEW X, IsFiniteSet(X), NEW j \in Nat, j <= Cardinality(X)
    PROVE  \E f \in [1..j -> X] : IsInjective(f)
<1>1. Cardinality(X) \in Nat /\ ExistsBijection(1..Cardinality(X), X)
  BY FS_CardinalityType
<1>2. PICK g : g \in [1..Cardinality(X) -> X] /\ IsInjective(g)
  BY <1>1 DEF ExistsBijection, Bijection, Injection
<1>3. \A a, b \in 1..Cardinality(X) : g[a] = g[b] => a = b
  BY <1>2 DEF IsInjective
<1> DEFINE f == [i \in 1..j |-> g[i]]
<1>4. 1..j \subseteq 1..Cardinality(X)
  BY <1>1
<1>5. f \in [1..j -> X]
  BY <1>2, <1>4
<1>6. IsInjective(f)
  BY <1>3, <1>4 DEF IsInjective
<1> QED BY <1>5, <1>6

\* The memory that is not in a list of buffers, and not obuf.
LEMMA FreshExist ==
    ASSUME NEW t \in StateRec, NEW n \in Nat, n > Len(t.pool),
           Cardinality(ToSet(t.queue) \cup {t.obuf}) + n <= Cardinality(Bufs)
    PROVE  \E f \in [1..(n - Len(t.pool)) -> Bufs \ InUse(t)] : IsInjective(f)
<1> DEFINE A == ToSet(t.queue) \cup {t.obuf}
           P == ToSet(t.pool)
           X == Bufs \ InUse(t)
<1>1. t.queue \in Seq(Bufs) /\ t.pool \in Seq(Bufs) /\ t.obuf \in Bufs /\ Len(t.pool) \in Nat
  BY DEF StateRec
<1>2. IsFiniteSet(A) /\ Cardinality(A) \in Nat
  BY <1>1, MemberCount, FS_AddElement, FS_CardinalityType
<1>3. IsFiniteSet(P) /\ Cardinality(P) \in Nat /\ Cardinality(P) <= Len(t.pool)
  BY <1>1, MemberCount
<1>4. InUse(t) = A \cup P
  BY DEF InUse
<1>5. InUse(t) \subseteq Bufs
  BY <1>1, ToSetSeq DEF InUse
<1>6. IsFiniteSet(Bufs) /\ Cardinality(Bufs) \in Nat
  BY ConstantAssumption, FS_CardinalityType
<1>7. /\ Cardinality(A \cup P) = Cardinality(A) + Cardinality(P) - Cardinality(A \cap P)
      /\ IsFiniteSet(A \cup P) /\ Cardinality(A \cup P) \in Nat
      /\ Cardinality(A \cap P) \in Nat
  <2>1. IsFiniteSet(A \cap P)
    BY <1>2, FS_Intersection
  <2> HIDE DEF A, P
  <2>2. IsFiniteSet(A \cup P) /\ Cardinality(A \cup P) = Cardinality(A) + Cardinality(P) - Cardinality(A \cap P)
    BY <1>2, <1>3, FS_Union
  <2> QED BY <2>1, <2>2, FS_CardinalityType
<1>8. IsFiniteSet(X) /\ Cardinality(X) = Cardinality(Bufs) - Cardinality(InUse(t)) /\ Cardinality(X) \in Nat
  <2>1. Bufs \cap InUse(t) = InUse(t)
    BY <1>5
  <2>2. IsFiniteSet(X) /\ Cardinality(X) = Cardinality(Bufs) - Cardinality(Bufs \cap InUse(t))
    BY <1>6, FS_Difference
  <2> QED BY <2>1, <2>2, FS_CardinalityType
<1>9. n - Len(t.pool) \in Nat /\ n - Len(t.pool) <= Cardinality(X)
  <2> HIDE DEF X, P
  <2>1. Cardinality(A) + n <= Cardinality(Bufs)
    OBVIOUS
  <2>2. Cardinality(InUse(t)) = Cardinality(A) + Cardinality(P) - Cardinality(A \cap P)
    BY <1>4, <1>7
  <2> HIDE DEF A
  <2> QED BY SMTT(30), <1>1, <1>2, <1>3, <1>6, <1>7, <1>8, <2>1, <2>2
<1> QED BY <1>8, <1>9, DistinctExist

\* What n allocations return: different buffers, the first ones of the pool
\* or memory that nothing uses; the rest of the pool stays.
Allocated(t, n, a) ==
    /\ a \in Seq(Bufs) /\ Len(a) = n /\ NoRepeat(a)
    /\ \A b \in ToSet(a) : b \in ToSet(t.pool) \/ b \notin InUse(t)
    /\ ToSet(a) \cap ToSet(SubSeq(t.pool, n + 1, Len(t.pool))) = {}
    /\ SubSeq(t.pool, n + 1, Len(t.pool)) \in Seq(Bufs)
    /\ NoRepeat(SubSeq(t.pool, n + 1, Len(t.pool)))
    /\ ToSet(SubSeq(t.pool, n + 1, Len(t.pool))) \subseteq ToSet(t.pool)
    /\ Len(SubSeq(t.pool, n + 1, Len(t.pool))) <= Len(t.pool)

\* output_queue_alloc_obuf(), n times.
LEMMA AllocObufsOK ==
    ASSUME NEW t \in StateRec, NoRepeat(t.pool), NEW n \in Nat,
           Cardinality(ToSet(t.queue) \cup {t.obuf}) + n <= Cardinality(Bufs)
    PROVE  Allocated(t, n, AllocObufs(t, n))
<1> DEFINE p == t.pool
           X == Bufs \ InUse(t)
           k == MinOf(n, Len(p))
           f == CHOOSE g \in [1..(n - k) -> X] : IsInjective(g)
           a == SubSeq(p, 1, k)
           r == SubSeq(p, n + 1, Len(p))
<1>1. p \in Seq(Bufs) /\ Len(p) \in Nat
  BY DEF StateRec
<1>2. k \in 0..Len(p) /\ k <= n /\ (n <= Len(p) => k = n) /\ (n > Len(p) => k = Len(p))
  BY <1>1 DEF MinOf
<1>3. \E g \in [1..(n - k) -> X] : IsInjective(g)
  <2>1. CASE n > Len(p)
    BY <1>2, <2>1, FreshExist
  <2>2. CASE n <= Len(p)
    <3>1. n - k = 0
      BY <1>1, <1>2, <2>2
    <3>2. 1..(n - k) = {}
      BY <3>1
    <3>3. [i \in 1..(n - k) |-> i] \in [1..(n - k) -> X] /\ IsInjective([i \in 1..(n - k) |-> i])
      BY <3>2 DEF IsInjective
    <3> QED BY <3>3
  <2> QED BY <1>1, <2>1, <2>2
<1>4. f \in [1..(n - k) -> X] /\ IsInjective(f)
  BY <1>3
<1>5. /\ a \in Seq(Bufs) /\ Len(a) = k /\ NoRepeat(a) /\ ToSet(a) \subseteq ToSet(p)
      /\ ToSet(a) \cap ToSet(SubSeq(p, k + 1, Len(p))) = {}
  <2> HIDE DEF p, k
  <2> QED BY <1>1, <1>2, SplitMembers DEF p
<1>6. /\ r \in Seq(Bufs) /\ NoRepeat(r) /\ ToSet(r) \subseteq ToSet(p) /\ Len(r) <= Len(p)
      /\ (n > Len(p) => ToSet(r) = {})
  <2>1. CASE n <= Len(p)
    <3>1. n \in 0..Len(p)
      BY <1>1, <2>1
    <3>2. r \in Seq(Bufs) /\ NoRepeat(r) /\ ToSet(r) \subseteq ToSet(p) /\ Len(r) = Len(p) - n
      <4> HIDE DEF p
      <4> QED BY <1>1, <3>1, SplitMembers DEF p
    <3> QED BY <1>1, <2>1, <3>2
  <2>2. CASE n > Len(p)
    <3>1. r = << >>
      BY <1>1, <2>2
    <3> HIDE DEF r
    <3>2. r \in Seq(Bufs) /\ Len(r) = 0
      BY <3>1
    <3>3. ToSet(r) = {} /\ NoRepeat(r)
      <4>1. 1..Len(r) = {}
        BY <3>2
      <4>2. ToSet(r) = {r[i] : i \in 1..Len(r)}
        BY <3>2, ToSetSeq
      <4>3. ToSet(r) = {}
        BY <4>1, <4>2
      <4> QED BY <4>1, <4>3 DEF NoRepeat
    <3> QED BY <1>1, <3>2, <3>3
  <2> QED BY <1>1, <2>1, <2>2
<1>7. ToSet(a) \cap ToSet(r) = {}
  <2>1. CASE n <= Len(p)
    BY <1>2, <1>5, <2>1
  <2>2. CASE n > Len(p)
    BY <1>6, <2>2
  <2> QED BY <1>1, <2>1, <2>2
<1>b. AllocObufs(t, n) = a \o f
  BY DEF AllocObufs
<1>c. n - k \in Nat
  BY <1>1, <1>2
<1>d. X \subseteq Bufs /\ X \cap ToSet(p) = {} /\ \A b \in X : b \notin InUse(t)
  BY DEF InUse
<1> HIDE DEF a, r, f, X, k
<1>8. f \in Seq(Bufs) /\ Len(f) = n - k /\ NoRepeat(f) /\ ToSet(f) \subseteq X
  <2>1. f \in Seq(X) /\ Len(f) = n - k /\ DOMAIN f = 1..(n - k)
    BY <1>4, <1>c
  <2>2. NoRepeat(f)
    BY <1>4, <2>1 DEF NoRepeat, IsInjective
  <2> QED BY <1>d, <2>1, <2>2, SeqMono, ToSetSeq
<1>9. ToSet(a) \cap ToSet(f) = {} /\ ToSet(f) \cap ToSet(r) = {}
  BY <1>d, <1>5, <1>6, <1>8
<1>10. a \o f \in Seq(Bufs) /\ Len(a \o f) = n
  <2>1. a \o f \in Seq(Bufs) /\ Len(a \o f) = Len(a) + Len(f)
    <3>1. a \in Seq(Bufs) /\ f \in Seq(Bufs)
      BY <1>5, <1>8
    <3> QED BY <3>1
  <2>2. k + (n - k) = n
    <3>1. ASSUME NEW x \in Nat, NEW y \in Nat PROVE x + (y - x) = y
      OBVIOUS
    <3> QED BY <1>1, <1>2, <3>1
  <2> QED BY <1>5, <1>8, <2>1, <2>2
<1>11. ToSet(a \o f) = ToSet(a) \cup ToSet(f) /\ NoRepeat(a \o f)
  BY <1>5, <1>8, <1>9, ConcatMembers
<1>12. \A b \in ToSet(a \o f) : b \in ToSet(p) \/ b \notin InUse(t)
  BY <1>d, <1>5, <1>8, <1>11
<1>13. ToSet(a \o f) \cap ToSet(r) = {}
  BY <1>7, <1>9, <1>11
<1> QED BY <1>b, <1>6, <1>10, <1>11, <1>12, <1>13 DEF Allocated, r

-----------------------------------------------------------------------------
(* The inductive invariant.                                                 *)

\* A buffer is once in the queue, or once in the pool, or neither.
Places(t) ==
    /\ NoRepeat(t.queue)
    /\ NoRepeat(t.pool)
    /\ ToSet(t.queue) \cap ToSet(t.pool) = {}
    /\ Len(t.pool) <= MaxPool

\* A request is for the part of the first buffer that is not sent, and it is
\* outstanding while there is a first buffer.
Asks(wr, t) ==
    /\ wr.buf = t.queue[1]
    /\ wr.from = t.pos[t.queue[1]]
    /\ wr.to = Len(t.mem[t.queue[1]])
    /\ wr.from < wr.to
    /\ wr.from + wr.size <= wr.to
    /\ wr.st = "run" \/ wr.error => wr.size = 0
    /\ wr.st = "run" => ~wr.error

InFlight(t) ==
    /\ t.wr # None <=> t.queue # << >>
    /\ t.wr # None => Asks(t.wr, t)
    /\ \A i \in 2..Len(t.queue) : t.pos[t.queue[i]] = 0

\* The queue of t, of which w bytes were sent so far, ends with byte e.
Line(t, w, e) == Chain(Blocks(t), w - HeadSent(t), e)

Base(t) == t \in StateRec /\ Places(t) /\ InFlight(t) /\ (t.error => t.queue = << >>)

Aside(t) == t.obuf \notin ToSet(t.queue) \cup ToSet(t.pool)

Room(k) == IF k = "tcp" THEN BufSize ELSE PipeSize
Sizes(t, k) == \A b \in Bufs : Len(t.mem[b]) <= IF b = t.obuf THEN Room(k) ELSE BufSize

Good(t, k) == Base(t) /\ Aside(t) /\ Sizes(t, k)

\* The locks that are not those of the request.
Holds(p) == IF p THEN 1 ELSE 0
OwnLocks(t) == t.lock_cnt - Holds(t.wr # None)

\* The last byte that is queued.
EndOfQueue ==
    IF state = "open" THEN (cnt - Len(s.mem[s.obuf])) - Holds(splicing) ELSE Len(written)

VarTypes ==
    /\ kind \in {"tcp", "pipe"}
    /\ state \in {"open", "disconnected", "deleted"}
    /\ wr_shut \in BOOLEAN /\ reading \in BOOLEAN /\ splicing \in BOOLEAN
    /\ cnt \in 0..MaxBytes
    /\ written \in Seq(1..MaxBytes)
    /\ wire \in Seq(1..MaxBytes)

Ghosts ==
    /\ RunFrom(written, 0)
    /\ RunFrom(wire, 0)
    /\ Len(wire) <= Len(written)
    /\ Len(written) <= cnt
    /\ state = "open" => cnt = Len(written) /\ cnt < MaxBytes

Output ==
    ~s.error =>
        /\ Line(s, Len(wire), EndOfQueue)
        /\ state = "open" => RunFrom(s.mem[s.obuf], cnt - Len(s.mem[s.obuf]))

Control ==
    /\ splicing => state = "open" /\ kind = "tcp" /\ s.mem[s.obuf] = << >>
    /\ OwnLocks(s) = Holds(reading) + Holds(s.flush_cnt > 0)
    /\ state = "deleted" <=> s.lock_cnt = 0
    /\ state = "open" => reading /\ ~wr_shut
    /\ wr_shut => s.queue = << >>

Inv == VarTypes /\ Good(s, kind) /\ Ghosts /\ Output /\ Control

-----------------------------------------------------------------------------
(* The fields of the state.                                                 *)

\* What the fields of the state are.
LEMMA Fields ==
    ASSUME NEW t \in StateRec
    PROVE  /\ t.mem \in [Bufs -> Seq(1..MaxBytes)] /\ t.pos \in [Bufs -> Nat]
           /\ t.queue \in Seq(Bufs) /\ Len(t.queue) \in Nat
           /\ t.pool \in Seq(Bufs) /\ Len(t.pool) \in Nat
           /\ t.obuf \in Bufs /\ t.wr \in Request \cup {None} /\ t.error \in BOOLEAN
           /\ t.eom_cnt \in Nat /\ t.flush_cnt \in 0..2 /\ t.lock_cnt \in Nat
  BY DEF StateRec

\* The fields of a request.
LEMMA RequestFields ==
    ASSUME NEW r \in Request
    PROVE  /\ r # None /\ r.buf \in Bufs /\ r.from \in Nat /\ r.to \in Nat
           /\ r.st \in {"run", "done"} /\ r.size \in Nat /\ r.error \in BOOLEAN
  BY NoneAssumption DEF Request

\* The memory of the queued buffers is a list of blocks.
LEMMA BlocksTyped ==
    ASSUME NEW t \in StateRec
    PROVE  /\ Blocks(t) \in Seq(Seq(Nat)) /\ Len(Blocks(t)) = Len(t.queue)
           /\ \A i \in 1..Len(t.queue) : /\ Blocks(t)[i] = t.mem[t.queue[i]]
                                         /\ t.queue[i] \in Bufs
<1>1. t.queue \in Seq(Bufs) /\ Len(t.queue) \in Nat /\ t.mem \in [Bufs -> Seq(1..MaxBytes)]
  BY Fields
<1>2. ASSUME NEW i \in 1..Len(t.queue)
      PROVE  t.queue[i] \in Bufs /\ t.mem[t.queue[i]] \in Seq(Nat)
  <2>1. t.queue[i] \in Bufs
    BY <1>1
  <2>2. t.mem[t.queue[i]] \in Seq(1..MaxBytes) /\ 1..MaxBytes \subseteq Nat
    BY <1>1, <2>1
  <2> QED BY <2>1, <2>2, SeqMono
<1>3. Blocks(t) \in [1..Len(t.queue) -> Seq(Nat)]
  BY <1>2 DEF Blocks
<1>4. \A i \in 1..Len(t.queue) : Blocks(t)[i] = t.mem[t.queue[i]]
  BY DEF Blocks
<1>5. Blocks(t) \in Seq(Seq(Nat)) /\ Len(Blocks(t)) = Len(t.queue)
  BY <1>1, <1>3, FunctionIsList
<1> QED BY <1>2, <1>4, <1>5

\* How many bytes of the first buffer were sent.
LEMMA HeadSentTyped ==
    ASSUME NEW t \in StateRec, InFlight(t)
    PROVE  /\ HeadSent(t) \in Nat
           /\ t.queue = << >> => HeadSent(t) = 0
           /\ t.queue # << >> => /\ HeadSent(t) = t.pos[t.queue[1]] + t.wr.size
                                 /\ t.queue[1] \in Bufs /\ t.wr \in Request
<1>1. CASE t.queue = << >>
  BY <1>1 DEF HeadSent
<1>2. CASE t.queue # << >>
  <2>1. t.queue \in Seq(Bufs) /\ t.pos \in [Bufs -> Nat] /\ t.wr \in Request \cup {None}
    BY Fields
  <2>2. t.queue[1] \in Bufs
    BY <1>2, <2>1
  <2>3. t.wr \in Request
    BY <1>2, <2>1 DEF InFlight
  <2>4. t.wr.size \in Nat
    BY <2>3, RequestFields
  <2>5. t.pos[t.queue[1]] \in Nat
    BY <2>1, <2>2
  <2>6. HeadSent(t) = t.pos[t.queue[1]] + t.wr.size
    BY <1>2 DEF HeadSent
  <2> QED BY <1>2, <2>2, <2>3, <2>4, <2>5, <2>6
<1> QED BY <1>1, <1>2

\* What posting a request and linking buffers leaves alone.
Rest(z, u) ==
    z.obuf = u.obuf /\ z.error = u.error /\ z.eom_cnt = u.eom_cnt /\ z.flush_cnt = u.flush_cnt

Same(z, u) ==
    z.mem = u.mem /\ z.pos = u.pos /\ z.queue = u.queue /\ z.pool = u.pool /\ Rest(z, u)

\* post_write_request().
LEMMA PostOK ==
    ASSUME NEW u \in StateRec, u.queue # << >>
    PROVE  LET z == PostIoRequest(u)
           IN  /\ z \in StateRec /\ Same(z, u)
               /\ z.wr \in Request /\ z.wr.buf = u.queue[1] /\ z.wr.from = u.pos[u.queue[1]]
               /\ z.wr.to = Len(u.mem[u.queue[1]]) /\ z.wr.st = "run" /\ z.wr.size = 0
               /\ z.wr.error = FALSE
               /\ z.lock_cnt = u.lock_cnt + 1
<1> DEFINE z == PostIoRequest(u)
           b == Head(u.queue)
           r == [buf |-> b, from |-> u.pos[b], to |-> Len(u.mem[b]),
                 st |-> "run", size |-> 0, error |-> FALSE]
<1>1. /\ u.mem \in [Bufs -> Seq(1..MaxBytes)] /\ u.pos \in [Bufs -> Nat]
      /\ u.queue \in Seq(Bufs) /\ u.lock_cnt \in Nat
  BY Fields
<1>2. b = u.queue[1] /\ b \in Bufs
  BY <1>1
<1> HIDE DEF b
<1>3. u.pos[b] \in Nat /\ Len(u.mem[b]) \in Nat
  <2>1. u.mem[b] \in Seq(1..MaxBytes)
    BY <1>1, <1>2
  <2> QED BY <1>1, <1>2, <2>1
<1>4. r \in Request
  BY <1>2, <1>3 DEF Request
<1>5. /\ r.buf = b /\ r.from = u.pos[b] /\ r.to = Len(u.mem[b]) /\ r.st = "run" /\ r.size = 0
      /\ r.error = FALSE
  OBVIOUS
<1>6. z = [u EXCEPT !.wr = r, !.lock_cnt = u.lock_cnt + 1]
  BY DEF PostIoRequest, b
<1> HIDE DEF r, z
<1>7. z.wr = r /\ z.lock_cnt = u.lock_cnt + 1 /\ Same(z, u)
  BY <1>6 DEF StateRec, Same, Rest
<1>8. z \in StateRec
  <2>1. r \in Request \cup {None} /\ u.lock_cnt + 1 \in Nat
    BY <1>1, <1>4
  <2> QED BY <1>6, <2>1 DEF StateRec
<1> QED BY <1>2, <1>4, <1>5, <1>7, <1>8 DEF z

-----------------------------------------------------------------------------
(* Linking buffers behind the queue.                                        *)

\* u is t with the buffers a, which hold the blocks d, linked behind its queue.
Linked(t, u, a, d) ==
    /\ u.queue = t.queue \o a
    /\ \A i \in 1..Len(t.queue) : /\ u.mem[t.queue[i]] = t.mem[t.queue[i]]
                                  /\ u.pos[t.queue[i]] = t.pos[t.queue[i]]
    /\ Len(d) = Len(a)
    /\ \A i \in 1..Len(a) : u.mem[a[i]] = d[i] /\ u.pos[a[i]] = 0
    /\ u.wr = t.wr
    /\ u.lock_cnt = t.lock_cnt
    /\ u.error = t.error

\* The blocks of the queue and the blocks of the new buffers.
LEMMA LinkedBlocks ==
    ASSUME NEW t \in StateRec, NEW u \in StateRec, NEW a \in Seq(Bufs), NEW d \in Seq(Seq(Nat)),
           Linked(t, u, a, d)
    PROVE  Blocks(u) = Blocks(t) \o d
<1> DEFINE q == t.queue
           n == Len(q)
           m == Len(a)
           x == Blocks(t) \o d
<1>1. q \in Seq(Bufs) /\ n \in Nat /\ m \in Nat /\ Len(d) = m
  BY Fields DEF Linked
<1>2. /\ Blocks(t) \in Seq(Seq(Nat)) /\ Len(Blocks(t)) = n
      /\ \A i \in 1..n : Blocks(t)[i] = t.mem[q[i]]
  BY BlocksTyped
<1>3. /\ Blocks(u) \in Seq(Seq(Nat)) /\ Len(Blocks(u)) = Len(u.queue)
      /\ \A i \in 1..Len(u.queue) : Blocks(u)[i] = u.mem[u.queue[i]]
  BY BlocksTyped
<1>4. /\ Len(u.queue) = n + m
      /\ \A i \in 1..(n + m) : /\ i <= n => u.queue[i] = q[i]
                               /\ i > n => u.queue[i] = a[i - n] /\ i - n \in 1..m
  <2>1. u.queue = q \o a
    BY DEF Linked
  <2> HIDE DEF q
  <2> QED BY <1>1, <2>1, ConcatEntries
<1>5. /\ x \in Seq(Seq(Nat)) /\ Len(x) = n + m
      /\ \A i \in 1..(n + m) : /\ i <= n => x[i] = Blocks(t)[i]
                               /\ i > n => x[i] = d[i - n]
  <2> DEFINE y == Blocks(t)
  <2>1. y \in Seq(Seq(Nat)) /\ Len(y) = n
    BY <1>2
  <2> HIDE DEF y, n, m
  <2>2. /\ y \o d \in Seq(Seq(Nat)) /\ Len(y \o d) = Len(y) + Len(d)
        /\ \A i \in 1..(Len(y) + Len(d)) :
             /\ i <= Len(y) => (y \o d)[i] = y[i]
             /\ i > Len(y) => (y \o d)[i] = d[i - Len(y)] /\ i - Len(y) \in 1..Len(d)
    BY <2>1, ConcatEntries
  <2> QED BY <1>1, <2>1, <2>2 DEF y
<1>6. /\ \A i \in 1..n : u.mem[q[i]] = t.mem[q[i]]
      /\ \A i \in 1..m : u.mem[a[i]] = d[i]
  BY DEF Linked
<1>a. Blocks(t) \o d = x
  OBVIOUS
<1> HIDE DEF q, n, m, x
<1>7. ASSUME NEW i \in 1..(n + m) PROVE Blocks(u)[i] = x[i]
  <2>1. Blocks(u)[i] = u.mem[u.queue[i]]
    BY <1>3, <1>4
  <2>2. CASE i <= n
    <3>1. i \in 1..n
      BY <1>1, <2>2
    <3>2. u.queue[i] = q[i] /\ x[i] = Blocks(t)[i] /\ Blocks(t)[i] = t.mem[q[i]]
      BY <1>2, <1>4, <1>5, <2>2, <3>1
    <3> QED BY <1>6, <2>1, <3>1, <3>2
  <2>3. CASE i > n
    <3>1. u.queue[i] = a[i - n] /\ i - n \in 1..m /\ x[i] = d[i - n]
      BY <1>4, <1>5, <2>3
    <3> QED BY <1>6, <2>1, <3>1
  <2> QED BY <1>1, <2>2, <2>3
<1>8. Len(Blocks(u)) = Len(x)
  BY <1>3, <1>4, <1>5
<1>9. Blocks(u) = x
  <2>2. \A i \in 1..Len(Blocks(u)) : Blocks(u)[i] = x[i]
    BY <1>3, <1>4, <1>7
  <2> QED BY <1>3, <1>5, <1>8, <2>2, SeqEqual
<1> QED BY <1>a, <1>9

\* Linking buffers, and posting a request if the queue was empty.
LEMMA LinkOK ==
    ASSUME NEW t, Base(t), ~t.error, NEW u \in StateRec, NEW a \in Seq(Bufs),
           NEW d \in Seq(Seq(Nat)), Linked(t, u, a, d),
           NEW w \in Nat, NEW e \in Nat, NEW g \in Nat, Line(t, w, e), Chain(d, e, g),
           NoRepeat(a), ToSet(a) \cap ToSet(t.queue) = {},
           NoRepeat(u.pool), ToSet(u.pool) \cap (ToSet(t.queue) \cup ToSet(a)) = {},
           Len(u.pool) <= MaxPool
    PROVE  LET z == IF a # << >> /\ PostsNow(t.queue) THEN PostIoRequest(u) ELSE u
           IN  Base(z) /\ Same(z, u) /\ Line(z, w, g) /\ OwnLocks(z) = OwnLocks(t)
<1> DEFINE z == IF a # << >> /\ PostsNow(t.queue) THEN PostIoRequest(u) ELSE u
<1>1. t \in StateRec /\ Places(t) /\ InFlight(t)
  BY DEF Base
<1>2. /\ t.queue \in Seq(Bufs) /\ Len(t.queue) \in Nat /\ Len(a) \in Nat
      /\ u.queue \in Seq(Bufs) /\ u.pool \in Seq(Bufs)
  BY <1>1, Fields
<1>3. u.queue = t.queue \o a /\ u.wr = t.wr /\ u.lock_cnt = t.lock_cnt /\ u.error = t.error
  BY DEF Linked
<1>4. NoRepeat(u.queue) /\ ToSet(u.queue) = ToSet(t.queue) \cup ToSet(a)
  BY <1>1, <1>2, <1>3, ConcatMembers DEF Places
<1>5. Places(u)
  BY <1>4 DEF Places
<1>6. /\ Len(u.queue) = Len(t.queue) + Len(a)
      /\ \A i \in 1..(Len(t.queue) + Len(a)) :
           /\ i <= Len(t.queue) => u.queue[i] = t.queue[i]
           /\ i > Len(t.queue) => u.queue[i] = a[i - Len(t.queue)] /\ i - Len(t.queue) \in 1..Len(a)
  BY <1>2, <1>3, ConcatEntries
<1>7. /\ \A i \in 1..Len(t.queue) : /\ u.mem[t.queue[i]] = t.mem[t.queue[i]]
                                    /\ u.pos[t.queue[i]] = t.pos[t.queue[i]]
      /\ \A i \in 1..Len(a) : u.mem[a[i]] = d[i] /\ u.pos[a[i]] = 0
      /\ Len(d) = Len(a)
  BY DEF Linked
<1>8. \A i \in 2..Len(u.queue) : u.pos[u.queue[i]] = 0
  <2> SUFFICES ASSUME NEW i \in 2..Len(u.queue) PROVE u.pos[u.queue[i]] = 0
    OBVIOUS
  <2>1. i \in 1..(Len(t.queue) + Len(a))
    BY <1>2, <1>6
  <2>2. CASE i <= Len(t.queue)
    <3>1. i \in 2..Len(t.queue) /\ i \in 1..Len(t.queue) /\ u.queue[i] = t.queue[i]
      BY <1>2, <1>6, <2>1, <2>2
    <3>2. t.pos[t.queue[i]] = 0
      BY <1>1, <3>1 DEF InFlight
    <3> QED BY <1>7, <3>1, <3>2
  <2>3. CASE i > Len(t.queue)
    <3>1. u.queue[i] = a[i - Len(t.queue)] /\ i - Len(t.queue) \in 1..Len(a)
      BY <1>6, <2>1, <2>3
    <3> QED BY <1>7, <3>1
  <2> QED BY <1>2, <2>1, <2>2, <2>3
<1>9. Blocks(u) = Blocks(t) \o d /\ Blocks(t) \in Seq(Seq(Nat))
  BY <1>1, LinkedBlocks, BlocksTyped
<1>10. /\ HeadSent(t) \in Nat /\ w - HeadSent(t) \in Int
  BY <1>1, HeadSentTyped
<1>11. Chain(Blocks(u), w - HeadSent(t), g)
  BY <1>9, <1>10, ChainConcat DEF Line
<1>12. CASE t.queue # << >>
  <2>1. z = u
    BY <1>12 DEF PostsNow
  <2>2. 1 \in 1..Len(t.queue) /\ u.queue # << >> /\ u.queue[1] = t.queue[1]
    <3>1. 1 \in 1..Len(t.queue)
      BY <1>2, <1>12
    <3>2. 1 \in 1..(Len(t.queue) + Len(a)) /\ 1 <= Len(t.queue) /\ Len(u.queue) # 0
      BY <1>2, <1>6, <3>1
    <3> QED BY <1>2, <1>6, <3>1, <3>2
  <2>3. u.mem[u.queue[1]] = t.mem[t.queue[1]] /\ u.pos[u.queue[1]] = t.pos[t.queue[1]]
    BY <1>7, <2>2
  <2>4. t.wr # None /\ Asks(t.wr, t)
    BY <1>1, <1>12 DEF InFlight
  <2>5. Asks(u.wr, u)
    BY <1>3, <2>2, <2>3, <2>4 DEF Asks
  <2>6. InFlight(u)
    BY <1>3, <1>8, <2>2, <2>4, <2>5 DEF InFlight
  <2>7. HeadSent(u) = HeadSent(t)
    BY <1>3, <1>12, <2>2, <2>3 DEF HeadSent
  <2>8. Line(u, w, g)
    BY <1>11, <2>7 DEF Line
  <2>9. OwnLocks(u) = OwnLocks(t)
    BY <1>3 DEF OwnLocks
  <2>10. Base(u)
    BY <1>3, <1>5, <2>6 DEF Base
  <2> QED BY <2>1, <2>8, <2>9, <2>10 DEF Same, Rest
<1>13. CASE t.queue = << >> /\ a = << >>
  <2>1. z = u
    BY <1>13
  <2>2. u.queue = << >>
    BY <1>2, <1>3, <1>13
  <2>3. t.wr = None
    BY <1>1, <1>13 DEF InFlight
  <2>4. InFlight(u)
    BY <1>3, <1>8, <2>2, <2>3 DEF InFlight
  <2>5. HeadSent(u) = HeadSent(t)
    BY <1>13, <2>2 DEF HeadSent
  <2>6. Line(u, w, g)
    BY <1>11, <2>5 DEF Line
  <2>7. OwnLocks(u) = OwnLocks(t)
    BY <1>3 DEF OwnLocks
  <2>8. Base(u)
    BY <1>3, <1>5, <2>4 DEF Base
  <2> QED BY <2>1, <2>6, <2>7, <2>8 DEF Same, Rest
<1>14. CASE t.queue = << >> /\ a # << >>
  <2>1. z = PostIoRequest(u)
    BY <1>14 DEF PostsNow
  <2>2. Len(t.queue) = 0 /\ Len(a) \in Nat \ {0}
    BY <1>2, <1>14
  <2>3. 1 \in 1..(Len(t.queue) + Len(a)) /\ 1 > Len(t.queue) /\ 1 - Len(t.queue) = 1 /\ 1 \in 1..Len(a)
    BY <2>2
  <2>4. u.queue[1] = a[1] /\ Len(u.queue) # 0
    BY <1>6, <2>2, <2>3
  <2>5. u.queue # << >>
    BY <1>2, <2>4
  <2>6. u.mem[u.queue[1]] = d[1] /\ u.pos[u.queue[1]] = 0
    BY <1>7, <2>3, <2>4
  <2>7. Len(d[1]) \in Nat \ {0}
    <3>1. d[1] \in Seq(Nat) /\ IsRun(d[1])
      BY <1>7, <2>3, BlockTypes
    <3> QED BY <3>1 DEF IsRun
  <2>8. /\ z \in StateRec /\ Same(z, u)
        /\ z.wr \in Request /\ z.wr.buf = u.queue[1] /\ z.wr.from = u.pos[u.queue[1]]
        /\ z.wr.to = Len(u.mem[u.queue[1]]) /\ z.wr.st = "run" /\ z.wr.size = 0
        /\ z.wr.error = FALSE
        /\ z.lock_cnt = u.lock_cnt + 1
    BY <2>1, <2>5, PostOK
  <2> HIDE DEF z
  <2>9. z.mem = u.mem /\ z.pos = u.pos /\ z.queue = u.queue /\ z.pool = u.pool /\ z.error = u.error
    BY <2>8 DEF Same, Rest
  <2>10. z.wr # None
    BY <2>8, RequestFields
  <2>11. Asks(z.wr, z)
    <3>1. z.wr.from = 0 /\ z.wr.to = Len(d[1]) /\ z.wr.buf = z.queue[1] /\ z.wr.size = 0
          /\ z.wr.from = z.pos[z.queue[1]] /\ z.wr.to = Len(z.mem[z.queue[1]])
      BY <2>6, <2>8, <2>9
    <3>2. z.wr.from < z.wr.to /\ z.wr.from + z.wr.size <= z.wr.to
      BY <2>7, <3>1
    <3> QED BY <2>8, <3>1, <3>2 DEF Asks
  <2>12. InFlight(z)
    BY <1>8, <2>5, <2>9, <2>10, <2>11 DEF InFlight
  <2>13. HeadSent(z) = 0 /\ HeadSent(t) = 0
    BY <1>14, <2>5, <2>6, <2>8, <2>9 DEF HeadSent
  <2>14. Blocks(z) = Blocks(u)
    BY <2>9 DEF Blocks
  <2>15. Line(z, w, g)
    BY <1>11, <2>13, <2>14 DEF Line
  <2>16. t.wr = None /\ t.lock_cnt \in Nat
    BY <1>1, <1>14, Fields DEF InFlight
  <2>17. OwnLocks(z) = OwnLocks(t)
    BY <1>3, <2>8, <2>10, <2>16 DEF OwnLocks, Holds
  <2>18. Places(z)
    BY <1>5, <2>9 DEF Places
  <2>19. Base(z)
    BY <1>3, <2>8, <2>9, <2>12, <2>18 DEF Base
  <2> QED BY <2>8, <2>15, <2>17, <2>19 DEF z
<1> QED BY <1>12, <1>13, <1>14

-----------------------------------------------------------------------------
(* Freeing a buffer, and filling the last one.                              *)

\* z differs from u in the pool at most.
PoolOnly(z, u) ==
    /\ z.mem = u.mem /\ z.pos = u.pos /\ z.queue = u.queue /\ z.wr = u.wr
    /\ z.lock_cnt = u.lock_cnt /\ Rest(z, u)

\* What the pool holds does not matter to the queue.
LEMMA PoolOnlyOK ==
    ASSUME NEW u, NEW z \in StateRec, Base(u), PoolOnly(z, u), Places(z)
    PROVE  /\ Base(z) /\ OwnLocks(z) = OwnLocks(u)
           /\ \A w, e : Line(z, w, e) = Line(u, w, e)
<1>1. /\ z.mem = u.mem /\ z.pos = u.pos /\ z.queue = u.queue /\ z.wr = u.wr
      /\ z.lock_cnt = u.lock_cnt /\ z.error = u.error
  BY DEF PoolOnly, Rest
<1>2. InFlight(z)
  BY <1>1 DEF Base, InFlight, Asks
<1>3. Base(z)
  BY <1>1, <1>2 DEF Base
<1>4. OwnLocks(z) = OwnLocks(u)
  BY <1>1 DEF OwnLocks
<1>5. Blocks(z) = Blocks(u) /\ HeadSent(z) = HeadSent(u)
  BY <1>1 DEF Blocks, HeadSent
<1> QED BY <1>3, <1>4, <1>5 DEF Line

\* output_queue_free_obuf().
LEMMA FreeObufOK ==
    ASSUME NEW u \in StateRec, Places(u), NEW b \in Bufs,
           b \notin ToSet(u.queue), b \notin ToSet(u.pool)
    PROVE  LET z == FreeObuf(u, b)
           IN  /\ z \in StateRec /\ Places(z) /\ PoolOnly(z, u)
               /\ ToSet(z.pool) \subseteq ToSet(u.pool) \cup {b}
<1> DEFINE z == FreeObuf(u, b)
<1>1. u.pool \in Seq(Bufs) /\ Len(u.pool) \in Nat
  BY Fields
<1>2. CASE PoolHasRoom(u.pool)
  <2>1. z = [u EXCEPT !.pool = Append(u.pool, b)]
    BY <1>2 DEF FreeObuf
  <2>2. /\ Append(u.pool, b) \in Seq(Bufs) /\ Len(Append(u.pool, b)) = Len(u.pool) + 1
        /\ ToSet(Append(u.pool, b)) = ToSet(u.pool) \cup {b}
        /\ NoRepeat(Append(u.pool, b))
    BY <1>1, AppendMembers DEF Places
  <2> HIDE DEF z
  <2>3. z \in StateRec
    BY <2>1, <2>2 DEF StateRec
  <2>4. z.pool = Append(u.pool, b) /\ PoolOnly(z, u)
    BY <2>1 DEF StateRec, PoolOnly, Rest
  <2>5. Len(z.pool) <= MaxPool
    BY <1>1, <1>2, <2>2, <2>4, ConstantAssumption DEF PoolHasRoom
  <2>6. z.queue = u.queue
    BY <2>4 DEF PoolOnly
  <2>7. Places(z)
    BY <2>2, <2>4, <2>5, <2>6 DEF Places
  <2> QED BY <2>2, <2>3, <2>4, <2>7 DEF z
<1>3. CASE ~PoolHasRoom(u.pool)
  <2>1. z = u
    BY <1>3 DEF FreeObuf
  <2> QED BY <2>1 DEF PoolOnly, Rest
<1> QED BY <1>2, <1>3

\* The queue is no longer than the output.
LEMMA QueueShort ==
    ASSUME NEW t, Base(t), NEW w \in Nat, NEW e \in Nat, Line(t, w, e)
    PROVE  Len(t.queue) <= e
<1>1. t \in StateRec /\ InFlight(t)
  BY DEF Base
<1>2. Blocks(t) \in Seq(Seq(Nat)) /\ Len(Blocks(t)) = Len(t.queue) /\ Len(t.queue) \in Nat
  BY <1>1, BlocksTyped, Fields
<1>3. HeadSent(t) \in Nat
  BY <1>1, HeadSentTyped
<1>4. Len(Blocks(t)) <= e - (w - HeadSent(t))
  BY <1>2, <1>3, ChainLength DEF Line
<1>5. CASE t.queue = << >>
  BY <1>5
<1>6. CASE t.queue # << >>
  <2>1. 1 \in 1..Len(t.queue) /\ Blocks(t) # << >>
    BY <1>1, <1>2, <1>6, Fields
  <2>2. Start(Blocks(t)[1]) = (w - HeadSent(t)) + 1
    BY <2>1 DEF Line, Chain, InOrder
  <2>3. Start(Blocks(t)[1]) >= 1
    <3>1. Blocks(t)[1] = t.mem[t.queue[1]] /\ t.queue[1] \in Bufs
      BY <1>1, <2>1, BlocksTyped
    <3>2. t.mem[t.queue[1]] \in Seq(1..MaxBytes)
      BY <1>1, <3>1, Fields
    <3>3. IsRun(Blocks(t)[1])
      BY <1>2, <2>1 DEF Line, Chain, InOrder
    <3>4. ASSUME NEW S, NEW x \in Seq(S), x # << >> PROVE x[1] \in S
      BY <3>4
    <3>5. t.mem[t.queue[1]][1] \in 1..MaxBytes
      BY <3>1, <3>2, <3>3, <3>4 DEF IsRun
    <3> QED BY <3>1, <3>5 DEF Start
  <2> QED BY <1>2, <1>3, <1>4, <2>2, <2>3
<1> QED BY <1>5, <1>6

\* The last buffer takes the bytes m.
Extended(t, m) == [t EXCEPT !.mem[Last(t.queue)] = @ \o m]

\* Filling the last buffer while the first one is sent.
LEMMA ExtendOK ==
    ASSUME NEW t, Base(t), ~t.error, NEW w \in Nat, NEW e \in Nat, Line(t, w, e),
           TakesMore(t.queue), NEW m \in Seq(1..MaxBytes), RunFrom(m, e)
    PROVE  LET u == Extended(t, m)
               l == Last(t.queue)
           IN  /\ Base(u) /\ Line(u, w, e + Len(m)) /\ OwnLocks(u) = OwnLocks(t) /\ Rest(u, t)
               /\ l \in ToSet(t.queue) /\ l \in Bufs /\ Len(u.mem[l]) = Len(t.mem[l]) + Len(m)
               /\ \A b \in Bufs : b # l => u.mem[b] = t.mem[b]
               /\ u.queue = t.queue /\ u.pool = t.pool
<1> DEFINE u == Extended(t, m)
           q == t.queue
           n == Len(q)
           l == Last(q)
           x == t.mem[l] \o m
<1>1. t \in StateRec /\ Places(t) /\ InFlight(t)
  BY DEF Base
<1>2. /\ q \in Seq(Bufs) /\ n \in Nat /\ t.mem \in [Bufs -> Seq(1..MaxBytes)]
      /\ n > 1
  BY <1>1, Fields DEF TakesMore
<1>3. n \in 1..n /\ 1 \in 1..n /\ n # 1 /\ l = q[n] /\ l \in Bufs /\ l \in ToSet(q)
  <2>1. n \in 1..n /\ 1 \in 1..n /\ n # 1
    <3> HIDE DEF n
    <3> QED BY <1>2
  <2>2. l = q[n]
    BY DEF Last
  <2>3. q[n] \in Bufs /\ q[n] \in ToSet(q)
    BY <1>2, <2>1, MemberAt
  <2> QED BY <2>1, <2>2, <2>3
<1> HIDE DEF l
<1>4. t.mem[l] \in Seq(1..MaxBytes)
  BY <1>2, <1>3
<1>5. x \in Seq(1..MaxBytes) /\ Len(x) = Len(t.mem[l]) + Len(m)
  BY <1>4
<1>6. u = [t EXCEPT !.mem = [t.mem EXCEPT ![l] = x]]
  BY DEF Extended, l
<1>7. [t.mem EXCEPT ![l] = x] \in [Bufs -> Seq(1..MaxBytes)]
  BY <1>2, <1>3, <1>5
<1> HIDE DEF u
<1>8. u \in StateRec
  BY <1>1, <1>6, <1>7 DEF StateRec
<1>9. /\ u.mem = [t.mem EXCEPT ![l] = x] /\ u.pos = t.pos /\ u.queue = q /\ u.pool = t.pool
      /\ u.wr = t.wr /\ u.lock_cnt = t.lock_cnt /\ Rest(u, t)
  BY <1>1, <1>6 DEF StateRec, Rest
<1>10. u.mem[l] = x /\ \A b \in Bufs : b # l => u.mem[b] = t.mem[b]
  BY <1>2, <1>3, <1>9
<1>11. \A i \in 1..n : q[i] \in Bufs /\ (i # n => q[i] # l)
  BY <1>1, <1>2, <1>3 DEF Places, NoRepeat
<1>12. u.mem[q[1]] = t.mem[q[1]]
  BY <1>3, <1>10, <1>11
<1>13. InFlight(u)
  BY <1>1, <1>9, <1>12 DEF InFlight, Asks
<1>14. Places(u) /\ Base(u)
  <2>1. Places(u)
    BY <1>1, <1>9 DEF Places
  <2> QED BY <1>8, <1>9, <1>13, <2>1 DEF Base, Rest
<1>15. HeadSent(u) = HeadSent(t)
  BY <1>9 DEF HeadSent
<1>16. OwnLocks(u) = OwnLocks(t)
  BY <1>9 DEF OwnLocks
<1>17. /\ Blocks(t) \in Seq(Seq(Nat)) /\ Len(Blocks(t)) = n
       /\ \A i \in 1..n : Blocks(t)[i] = t.mem[q[i]]
  BY <1>1, BlocksTyped
<1>18. /\ Blocks(u) \in Seq(Seq(Nat)) /\ Len(Blocks(u)) = n
       /\ \A i \in 1..n : Blocks(u)[i] = u.mem[q[i]]
  BY <1>8, <1>9, BlocksTyped
<1>19. m \in Seq(Nat) /\ Blocks(t) # << >> /\ HeadSent(t) \in Nat
  <2>1. m \in Seq(Nat)
    <3>1. 1..MaxBytes \subseteq Nat
      OBVIOUS
    <3> QED BY <3>1, SeqMono
  <2>2. Blocks(t) # << >>
    BY <1>3, <1>17
  <2> QED BY <1>1, <2>1, <2>2, HeadSentTyped
<1> DEFINE d == [Blocks(t) EXCEPT ![Len(Blocks(t))] = @ \o m]
<1>20. d \in Seq(Seq(Nat)) /\ Chain(d, w - HeadSent(t), e + Len(m))
  <2>1. w - HeadSent(t) \in Int
    BY <1>19
  <2>2. Chain(Blocks(t), w - HeadSent(t), e)
    BY DEF Line
  <2> QED BY <1>17, <1>19, <2>1, <2>2, ChainExtend
<1>21. d = Blocks(u)
  <2>1. /\ d = [Blocks(t) EXCEPT ![n] = Blocks(t)[n] \o m] /\ DOMAIN Blocks(t) = 1..n
    BY <1>17
  <2>2. Len(d) = n
    BY <1>17
  <2>3. ASSUME NEW i \in 1..n PROVE d[i] = Blocks(u)[i]
    <3>1. CASE i = n
      <4>1. d[i] = Blocks(t)[n] \o m
        BY <2>1, <3>1
      <4>2. Blocks(t)[n] = t.mem[l] /\ Blocks(u)[n] = x
        BY <1>3, <1>10, <1>17, <1>18
      <4> QED BY <3>1, <4>1, <4>2
    <3>2. CASE i # n
      <4>1. d[i] = Blocks(t)[i]
        BY <2>1, <3>2
      <4> QED BY <1>10, <1>11, <1>17, <1>18, <3>2, <4>1
    <3> QED BY <3>1, <3>2
  <2> HIDE DEF d
  <2> QED BY <1>18, <1>20, <2>2, <2>3, SeqEqual
<1>22. Line(u, w, e + Len(m))
  BY <1>15, <1>20, <1>21 DEF Line
<1> QED BY <1>3, <1>5, <1>9, <1>10, <1>14, <1>16, <1>22 DEF u, l

-----------------------------------------------------------------------------
(* output_queue_add_obuf().                                                 *)

\* A queue that is short enough leaves memory for n more buffers.
LEMMA Spare ==
    ASSUME NEW q \in Seq(Bufs), NEW b, NEW n \in Nat,
           \/ Len(q) + 1 + n <= MaxBytes + 1
           \/ b \in ToSet(q) /\ Len(q) + n <= MaxBytes + 1
    PROVE  Cardinality(ToSet(q) \cup {b}) + n <= Cardinality(Bufs)
<1>1. IsFiniteSet(ToSet(q)) /\ Cardinality(ToSet(q)) \in Nat /\ Cardinality(ToSet(q)) <= Len(q)
  BY MemberCount
<1>2. Cardinality(Bufs) \in Nat /\ Cardinality(Bufs) > MaxBytes /\ MaxBytes \in Nat /\ Len(q) \in Nat
  BY ConstantAssumption, FS_CardinalityType
<1> DEFINE c == Cardinality(ToSet(q))
           d == Cardinality(ToSet(q) \cup {b})
<1>a. d = IF b \in ToSet(q) THEN c ELSE c + 1
  BY <1>1, FS_AddElement
<1>b. c \in Nat /\ c <= Len(q)
  BY <1>1
<1> SUFFICES d + n <= Cardinality(Bufs)
  OBVIOUS
<1> HIDE DEF c, d
<1>c. d \in Nat /\ d <= c + 1
  BY <1>a, <1>b
<1>3. CASE b \in ToSet(q) /\ Len(q) + n <= MaxBytes + 1
  <2>1. d = c
    BY <1>a, <1>3
  <2> QED BY <1>2, <1>3, <1>b, <2>1
<1>4. CASE Len(q) + 1 + n <= MaxBytes + 1
  <2> QED BY <1>2, <1>4, <1>b, <1>c
<1> QED BY <1>3, <1>4

\* What adding the bytes up to byte g to the queue of t leaves.
Added(v, t, w, g) ==
    Base(v) /\ Line(v, w, g) /\ Rest(v, t) /\ OwnLocks(v) = OwnLocks(t)

\* obuf is appended to the queue.
LEMMA AppendObufOK ==
    ASSUME NEW t, Base(t), Aside(t), ~t.error, NEW w \in Nat, NEW e \in Nat, Line(t, w, e),
           t.mem[t.obuf] # << >>, RunFrom(t.mem[t.obuf], e)
    PROVE  LET v == AppendObuf(t, t.obuf)
           IN  /\ Added(v, t, w, e + Len(t.mem[t.obuf]))
               /\ v.mem = t.mem /\ v.pool = t.pool /\ v.queue = Append(t.queue, t.obuf)
<1> DEFINE b == t.obuf
           m == t.mem[b]
           u == [t EXCEPT !.queue = Append(@, b), !.pos[b] = 0]
           d == <<m>>
           a == <<b>>
           v == AppendObuf(t, b)
<1>1. t \in StateRec /\ Places(t)
  BY DEF Base
<1>2. /\ t.queue \in Seq(Bufs) /\ t.mem \in [Bufs -> Seq(1..MaxBytes)] /\ t.pos \in [Bufs -> Nat]
      /\ b \in Bufs
  BY <1>1, Fields
<1>3. m \in Seq(1..MaxBytes) /\ m \in Seq(Nat) /\ Len(m) \in Nat
  <2>1. m \in Seq(1..MaxBytes)
    BY <1>2
  <2> HIDE DEF m
  <2> QED BY <2>1, BytesTyped
<1>4. d \in Seq(Seq(Nat)) /\ Chain(d, e, e + Len(m)) /\ Len(d) = 1 /\ d[1] = m
  <2>1. m # << >> /\ RunFrom(m, e)
    OBVIOUS
  <2> HIDE DEF m
  <2>2. <<m>> \in Seq(Seq(Nat)) /\ Chain(<<m>>, e, e + Len(m))
    BY <1>3, <2>1, ChainOne
  <2>3. Len(d) = 1 /\ d[1] = m
    OBVIOUS
  <2>4. d = <<m>>
    OBVIOUS
  <2> HIDE DEF d
  <2> QED BY <2>2, <2>3, <2>4
<1>5. a \in Seq(Bufs) /\ Len(a) = 1 /\ a[1] = b /\ a # << >> /\ NoRepeat(a) /\ ToSet(a) = {b}
  <2>1. a \in Seq(Bufs) /\ Len(a) = 1 /\ a[1] = b /\ a # << >>
    BY <1>2
  <2> HIDE DEF a
  <2>2. ToSet(a) = {b}
    BY <2>1, MemberAt
  <2> QED BY <2>1, <2>2 DEF NoRepeat
<1>6. b \notin ToSet(t.queue) /\ b \notin ToSet(t.pool)
  BY DEF Aside
<1>7. Append(t.queue, b) = t.queue \o a /\ Append(t.queue, b) \in Seq(Bufs)
  BY <1>2, AppendIsConcat
<1>8. [t.pos EXCEPT ![b] = 0] \in [Bufs -> Nat]
  BY <1>2
<1>9. u = [t EXCEPT !.queue = Append(t.queue, b), !.pos = [t.pos EXCEPT ![b] = 0]]
  OBVIOUS
<1> HIDE DEF u, d, a, m
<1>10. u \in StateRec
  BY <1>1, <1>7, <1>8, <1>9 DEF StateRec
<1>11. /\ u.queue = Append(t.queue, b) /\ u.pos = [t.pos EXCEPT ![b] = 0] /\ u.mem = t.mem
       /\ u.pool = t.pool /\ u.wr = t.wr /\ u.lock_cnt = t.lock_cnt /\ Rest(u, t)
  BY <1>1, <1>9 DEF StateRec, Rest
<1>12. \A i \in 1..Len(t.queue) : t.queue[i] \in Bufs /\ t.queue[i] # b
  BY <1>2, <1>6, MemberAt
<1>13. Linked(t, u, a, d)
  <2>1. \A i \in 1..Len(t.queue) : u.mem[t.queue[i]] = t.mem[t.queue[i]] /\ u.pos[t.queue[i]] = t.pos[t.queue[i]]
    BY <1>2, <1>11, <1>12
  <2>2. \A i \in 1..Len(a) : u.mem[a[i]] = d[i] /\ u.pos[a[i]] = 0
    BY <1>2, <1>4, <1>5, <1>11 DEF m
  <2> QED BY <1>4, <1>5, <1>7, <1>11, <2>1, <2>2 DEF Linked, Rest
<1>14. v = IF a # << >> /\ PostsNow(t.queue) THEN PostIoRequest(u) ELSE u
  BY <1>5 DEF AppendObuf, u
<1>15. /\ ToSet(a) \cap ToSet(t.queue) = {} /\ NoRepeat(u.pool) /\ Len(u.pool) <= MaxPool
       /\ ToSet(u.pool) \cap (ToSet(t.queue) \cup ToSet(a)) = {}
  BY <1>1, <1>5, <1>6, <1>11 DEF Places
<1>16. e + Len(m) \in Nat
  BY <1>3
<1> HIDE DEF v
<1>17. Base(v) /\ Same(v, u) /\ Line(v, w, e + Len(m)) /\ OwnLocks(v) = OwnLocks(t)
  BY <1>4, <1>5, <1>10, <1>13, <1>14, <1>15, <1>16, LinkOK
<1> QED BY <1>11, <1>17 DEF v, Same, Rest, Added, m

\* obuf is merged with the last buffer, or appended to the queue; then there
\* is a buffer for the next output.
LEMMA AddObufOK ==
    ASSUME NEW t, Base(t), Aside(t), ~t.error, NEW w \in Nat, NEW e \in Nat, Line(t, w, e),
           t.mem[t.obuf] # << >>, RunFrom(t.mem[t.obuf], e), e + Len(t.mem[t.obuf]) <= MaxBytes,
           \A b \in Bufs : Len(t.mem[b]) <= BufSize
    PROVE  LET v == AddObuf(t, t.obuf)
           IN  /\ Added(v, t, w, e + Len(t.mem[t.obuf]))
               /\ \A b \in Bufs : Len(v.mem[b]) <= BufSize
               /\ Cardinality(ToSet(v.queue) \cup {v.obuf}) + 1 <= Cardinality(Bufs)
<1> DEFINE b == t.obuf
           m == t.mem[b]
           u == Extended(t, m)
           l == Last(t.queue)
           v == AddObuf(t, b)
<1>1. t \in StateRec /\ Places(t)
  BY DEF Base
<1>2. /\ t.queue \in Seq(Bufs) /\ Len(t.queue) \in Nat /\ t.mem \in [Bufs -> Seq(1..MaxBytes)]
      /\ b \in Bufs
  BY <1>1, Fields
<1>3. m \in Seq(1..MaxBytes) /\ Len(m) \in Nat \ {0} /\ RunFrom(m, e) /\ m # << >>
  <2>1. m \in Seq(1..MaxBytes)
    BY <1>2
  <2> QED BY <2>1
<1>4. b \notin ToSet(t.queue) /\ b \notin ToSet(t.pool)
  BY DEF Aside
<1>5. Len(t.queue) <= e
  BY QueueShort
<1>6. MaxBytes \in Nat /\ BufSize \in Nat
  BY ConstantAssumption
<1>7. CASE TakesMore(t.queue) /\ Fits(Gap(t), Len(m))
  <2>1. v = FreeObuf(u, b)
    BY <1>7 DEF AddObuf, Extended
  <2> HIDE DEF v, u, l
  <2>2. /\ Base(u) /\ Line(u, w, e + Len(m)) /\ OwnLocks(u) = OwnLocks(t) /\ Rest(u, t)
        /\ l \in ToSet(t.queue) /\ l \in Bufs /\ Len(u.mem[l]) = Len(t.mem[l]) + Len(m)
        /\ \A x \in Bufs : x # l => u.mem[x] = t.mem[x]
        /\ u.queue = t.queue /\ u.pool = t.pool
    <3> HIDE DEF m
    <3> QED BY <1>3, <1>7, ExtendOK DEF u, l
  <2>3. u \in StateRec /\ Places(u)
    BY <2>2 DEF Base
  <2>4. v \in StateRec /\ Places(v) /\ PoolOnly(v, u)
    BY <1>2, <1>4, <2>1, <2>2, <2>3, FreeObufOK
  <2>5. Base(v) /\ OwnLocks(v) = OwnLocks(u) /\ Line(v, w, e + Len(m)) = Line(u, w, e + Len(m))
    BY <2>2, <2>4, PoolOnlyOK
  <2>6. v.mem = u.mem /\ v.queue = t.queue /\ Rest(v, t) /\ v.obuf = b
    BY <2>2, <2>4 DEF PoolOnly, Rest
  <2>7. Len(t.mem[l]) \in Nat /\ BufSize - Len(t.mem[l]) >= Len(m)
    <3>1. t.mem[l] \in Seq(1..MaxBytes)
      BY <1>2, <2>2
    <3> QED BY <1>7, <3>1 DEF Fits, Gap, l
  <2>8. \A x \in Bufs : Len(v.mem[x]) <= BufSize
    <3> SUFFICES ASSUME NEW x \in Bufs PROVE Len(u.mem[x]) <= BufSize
      BY <2>6
    <3>1. CASE x = l
      <4> HIDE DEF m
      <4> QED BY <1>3, <1>6, <2>2, <2>7, <3>1
    <3>2. CASE x # l
      BY <2>2, <3>2
    <3> QED BY <3>1, <3>2
  <2>9. Cardinality(ToSet(v.queue) \cup {v.obuf}) + 1 <= Cardinality(Bufs)
    <3>1. Len(t.queue) + 1 + 1 <= MaxBytes + 1
      <4>1. e + Len(m) <= MaxBytes
        OBVIOUS
      <4> HIDE DEF m
      <4> QED BY <1>2, <1>3, <1>5, <1>6, <4>1
    <3> QED BY <1>2, <2>6, <3>1, Spare
  <2> QED BY <2>2, <2>5, <2>6, <2>8, <2>9 DEF v, Added
<1>8. CASE ~(TakesMore(t.queue) /\ Fits(Gap(t), Len(m)))
  <2>1. v = AppendObuf(t, b)
    BY <1>8 DEF AddObuf
  <2> HIDE DEF v
  <2>2. /\ Added(v, t, w, e + Len(m))
        /\ v.mem = t.mem /\ v.pool = t.pool /\ v.queue = Append(t.queue, b)
    BY <1>3, <2>1, AppendObufOK
  <2>3. v.queue \in Seq(Bufs) /\ Len(v.queue) = Len(t.queue) + 1 /\ b \in ToSet(v.queue)
    BY <1>2, <2>2, AppendMembers
  <2>4. v.obuf = b
    BY <2>2 DEF Added, Rest
  <2>5. Cardinality(ToSet(v.queue) \cup {v.obuf}) + 1 <= Cardinality(Bufs)
    <3>1. Len(v.queue) + 1 <= MaxBytes + 1
      <4>1. e + Len(m) <= MaxBytes
        OBVIOUS
      <4> HIDE DEF m
      <4> QED BY <1>2, <1>3, <1>5, <1>6, <2>3, <4>1
    <3> QED BY <2>3, <2>4, <3>1, Spare
  <2> QED BY <2>2, <2>5 DEF v
<1> QED BY <1>7, <1>8

-----------------------------------------------------------------------------
(* output_queue_add().                                                      *)

\* The buffers other than obuf hold no more than fits.
Fit(t) == \A b \in Bufs : b # t.obuf => Len(t.mem[b]) <= BufSize

\* New buffers for the chunks d.
LEMMA AddNewOK ==
    ASSUME NEW t, Base(t), Aside(t), Fit(t), ~t.error,
           NEW w \in Nat, NEW e \in Nat, NEW g \in Nat, Line(t, w, e), g <= MaxBytes,
           NEW d \in Seq(Seq(1..MaxBytes)), d \in Seq(Seq(Nat)), Chain(d, e, g),
           \A i \in 1..Len(d) : Len(d[i]) <= BufSize
    PROVE  LET v == AddNew(t, d)
           IN  Added(v, t, w, g) /\ Aside(v) /\ Fit(v) /\ v.mem[t.obuf] = t.mem[t.obuf]
<1> DEFINE n == Len(d)
           a == AllocObufs(t, n)
           at(b) == CHOOSE i \in DOMAIN a : a[i] = b
           mem == [b \in Bufs |-> IF b \in ToSet(a) THEN d[at(b)] ELSE t.mem[b]]
           pos == [b \in Bufs |-> IF b \in ToSet(a) THEN 0 ELSE t.pos[b]]
           pool == SubSeq(t.pool, n + 1, Len(t.pool))
           u == [t EXCEPT !.mem = mem, !.pos = pos, !.pool = pool, !.queue = t.queue \o a]
           v == AddNew(t, d)
<1>1. t \in StateRec /\ Places(t) /\ n \in Nat
  BY DEF Base
<1>2. /\ t.queue \in Seq(Bufs) /\ t.mem \in [Bufs -> Seq(1..MaxBytes)] /\ t.pos \in [Bufs -> Nat]
      /\ t.obuf \in Bufs /\ t.pool \in Seq(Bufs) /\ Len(t.queue) \in Nat /\ Len(t.pool) \in Nat
  BY <1>1, Fields
<1>3. Allocated(t, n, a)
  <2> HIDE DEF n
  <2>1. Len(t.queue) <= e
    BY QueueShort
  <2>2. n <= g - e
    BY ChainLength DEF n
  <2>3. Len(t.queue) + 1 + n <= MaxBytes + 1
    BY <1>1, <1>2, <2>1, <2>2, ConstantAssumption
  <2>4. Cardinality(ToSet(t.queue) \cup {t.obuf}) + n <= Cardinality(Bufs)
    BY <1>1, <1>2, <2>3, Spare
  <2> QED BY <1>1, <2>4, AllocObufsOK DEF Places
<1>4. v = IF d # << >> /\ PostsNow(t.queue) THEN PostIoRequest(u) ELSE u
  BY DEF AddNew
<1>5. /\ a \in Seq(Bufs) /\ Len(a) = n /\ NoRepeat(a)
      /\ \A b \in ToSet(a) : b \in ToSet(t.pool) \/ b \notin InUse(t)
      /\ ToSet(a) \cap ToSet(pool) = {} /\ pool \in Seq(Bufs) /\ NoRepeat(pool)
      /\ ToSet(pool) \subseteq ToSet(t.pool) /\ Len(pool) <= Len(t.pool)
  BY <1>3 DEF Allocated
<1> HIDE DEF a, pool, n
<1>6. /\ ToSet(t.queue) \cap ToSet(t.pool) = {} /\ Len(t.pool) <= MaxPool
      /\ t.obuf \notin ToSet(t.queue) /\ t.obuf \notin ToSet(t.pool)
      /\ NoRepeat(t.queue)
  BY <1>1 DEF Places, Aside
<1>7. ToSet(a) \cap ToSet(t.queue) = {} /\ t.obuf \notin ToSet(a)
  BY <1>5, <1>6 DEF InUse
<1>8. \A i \in 1..n : a[i] \in ToSet(a) /\ a[i] \in Bufs /\ at(a[i]) = i
  <2>1. \A i \in 1..n : a[i] \in ToSet(a) /\ a[i] \in Bufs
    BY <1>5, MemberAt
  <2>2. DOMAIN a = 1..n
    BY <1>5
  <2>3. \A i \in 1..n : \A j \in 1..n : a[i] = a[j] => i = j
    BY <1>5 DEF NoRepeat
  <2> QED BY <2>1, <2>2, <2>3
<1>9. ASSUME NEW b \in ToSet(a)
      PROVE  at(b) \in 1..n /\ a[at(b)] = b
  <2>1. PICK i \in 1..n : a[i] = b
    BY <1>5, <1>9, MemberAt
  <2> QED BY <1>8, <2>1
<1> HIDE DEF at
<1>10. \A b \in ToSet(a) : d[at(b)] \in Seq(1..MaxBytes) /\ Len(d[at(b)]) <= BufSize
  BY <1>9 DEF n
<1>11. mem \in [Bufs -> Seq(1..MaxBytes)] /\ pos \in [Bufs -> Nat]
  BY <1>2, <1>10
<1>12. t.queue \o a \in Seq(Bufs)
  BY <1>2, <1>5
<1>13. /\ \A b \in Bufs : b \notin ToSet(a) => mem[b] = t.mem[b] /\ pos[b] = t.pos[b]
       /\ \A b \in Bufs : b \in ToSet(a) => mem[b] = d[at(b)] /\ pos[b] = 0
  OBVIOUS
<1> HIDE DEF mem, pos, u
<1>14. u \in StateRec
  BY <1>1, <1>5, <1>11, <1>12 DEF StateRec, u
<1>15. /\ u.mem = mem /\ u.pos = pos /\ u.pool = pool /\ u.queue = t.queue \o a
       /\ u.wr = t.wr /\ u.lock_cnt = t.lock_cnt /\ Rest(u, t)
  BY <1>1 DEF StateRec, Rest, u
<1>16. Linked(t, u, a, d)
  <2>1. \A i \in 1..Len(t.queue) : /\ u.mem[t.queue[i]] = t.mem[t.queue[i]]
                                   /\ u.pos[t.queue[i]] = t.pos[t.queue[i]]
    <3>1. \A i \in 1..Len(t.queue) : t.queue[i] \in Bufs /\ t.queue[i] \notin ToSet(a)
      BY <1>2, <1>7, MemberAt
    <3> QED BY <1>13, <1>15, <3>1
  <2>2. \A i \in 1..Len(a) : u.mem[a[i]] = d[i] /\ u.pos[a[i]] = 0
    BY <1>5, <1>8, <1>13, <1>15
  <2> QED BY <1>5, <1>15, <2>1, <2>2 DEF Linked, Rest, n
<1>17. /\ NoRepeat(u.pool) /\ Len(u.pool) <= MaxPool
       /\ ToSet(u.pool) \cap (ToSet(t.queue) \cup ToSet(a)) = {}
  <2>1. Len(pool) \in Nat /\ MaxPool \in Nat
    BY <1>5, ConstantAssumption
  <2> QED BY <1>2, <1>5, <1>6, <1>15, <2>1
<1>18. v = IF a # << >> /\ PostsNow(t.queue) THEN PostIoRequest(u) ELSE u
  <2>1. a = << >> <=> d = << >>
    BY <1>5 DEF n
  <2> HIDE DEF v
  <2> QED BY <1>4, <2>1
<1> HIDE DEF v
<1>19. Base(v) /\ Same(v, u) /\ Line(v, w, g) /\ OwnLocks(v) = OwnLocks(t)
  BY <1>5, <1>7, <1>14, <1>16, <1>17, <1>18, LinkOK
<1>20. v.mem = mem /\ v.pool = pool /\ v.queue = t.queue \o a /\ Rest(v, t) /\ v.obuf = t.obuf
  BY <1>15, <1>19 DEF Same, Rest
<1>21. Aside(v)
  <2>1. ToSet(v.queue) = ToSet(t.queue) \cup ToSet(a)
    BY <1>2, <1>5, <1>20, ConcatMembers
  <2> QED BY <1>5, <1>6, <1>7, <1>20, <2>1 DEF Aside
<1>22. Fit(v)
  BY <1>10, <1>13, <1>20 DEF Fit
<1> QED BY <1>2, <1>7, <1>13, <1>19, <1>20, <1>21, <1>22 DEF v, Added

\* Bytes for the last buffer, and new buffers for the rest.
LEMMA QueueAddOK ==
    ASSUME NEW t, Base(t), Aside(t), Fit(t), ~t.error,
           NEW w \in Nat, NEW e \in Nat, Line(t, w, e),
           NEW bytes \in Seq(1..MaxBytes), RunFrom(bytes, e), e + Len(bytes) <= MaxBytes
    PROVE  LET v == QueueAdd(t, bytes)
           IN  /\ Added(v, t, w, e + Len(bytes)) /\ Aside(v) /\ Fit(v)
               /\ v.mem[t.obuf] = t.mem[t.obuf]
<1> DEFINE l == Len(bytes)
           n == IF TakesMore(t.queue) THEN MinOf(Gap(t), l) ELSE 0
           m == SubSeq(bytes, 1, n)
           r == SubSeq(bytes, n + 1, l)
           u == IF n = 0 THEN t ELSE Extended(t, m)
           v == QueueAdd(t, bytes)
<1>1. t \in StateRec /\ Places(t) /\ l \in Nat
  BY DEF Base
<1>2. /\ t.queue \in Seq(Bufs) /\ t.mem \in [Bufs -> Seq(1..MaxBytes)] /\ t.obuf \in Bufs
      /\ Len(t.queue) \in Nat
  BY <1>1, Fields
<1>3. t.obuf \notin ToSet(t.queue) /\ t.obuf \notin ToSet(t.pool)
  BY DEF Aside
<1>4. ASSUME TakesMore(t.queue)
      PROVE  /\ Last(t.queue) \in Bufs /\ Last(t.queue) # t.obuf
             /\ Len(t.mem[Last(t.queue)]) \in Nat /\ Len(t.mem[Last(t.queue)]) <= BufSize
  <2>1. Len(t.queue) \in 1..Len(t.queue) /\ Last(t.queue) = t.queue[Len(t.queue)]
    BY <1>2, <1>4 DEF TakesMore, Last
  <2>2. Last(t.queue) \in Bufs /\ Last(t.queue) \in ToSet(t.queue)
    BY <1>2, <2>1, MemberAt
  <2>3. t.mem[Last(t.queue)] \in Seq(1..MaxBytes) /\ Last(t.queue) # t.obuf
    BY <1>2, <1>3, <2>2
  <2> QED BY <2>2, <2>3 DEF Fit
<1>5. n \in 0..l /\ (n # 0 => TakesMore(t.queue) /\ n <= BufSize - Len(t.mem[Last(t.queue)]))
  <2>1. CASE TakesMore(t.queue)
    <3>1. Gap(t) = BufSize - Len(t.mem[Last(t.queue)]) /\ Gap(t) \in Nat
      <4> DEFINE x == Len(t.mem[Last(t.queue)])
      <4>1. x \in Nat /\ x <= BufSize
        BY <1>4, <2>1
      <4>2. BufSize \in Nat
        BY ConstantAssumption
      <4>3. Gap(t) = BufSize - x
        BY DEF Gap
      <4> HIDE DEF x
      <4>4. BufSize - x \in Nat
        BY <4>1, <4>2
      <4> QED BY <4>3, <4>4 DEF x
    <3>2. n = IF Gap(t) < l THEN Gap(t) ELSE l
      BY <2>1 DEF MinOf
    <3> HIDE DEF n
    <3> QED BY <1>1, <2>1, <3>1, <3>2
  <2>2. CASE ~TakesMore(t.queue)
    BY <1>1, <2>2
  <2> QED BY <2>1, <2>2
<1> HIDE DEF n
<1>6. \A k \in 1..l : bytes[k] = e + k
  BY DEF RunFrom
<1> HIDE DEF l
<1>7. m \in Seq(1..MaxBytes) /\ Len(m) = n /\ RunFrom(m, e)
  <2>1. m \in Seq(1..MaxBytes) /\ Len(m) = n /\ \A k \in 1..n : m[k] = bytes[k]
    BY <1>5, SplitEntries DEF l
  <2> HIDE DEF m
  <2>2. \A k \in 1..n : m[k] = e + k
    BY <1>1, <1>5, <1>6, <2>1
  <2> QED BY <2>1, <2>2 DEF RunFrom
<1>8. r \in Seq(1..MaxBytes) /\ Len(r) = l - n /\ RunFrom(r, e + n)
  <2>1. r \in Seq(1..MaxBytes) /\ Len(r) = l - n /\ \A k \in 1..(l - n) : r[k] = bytes[n + k]
    BY <1>5, SplitEntries DEF l
  <2> HIDE DEF r
  <2>2. ASSUME NEW k \in 1..(l - n) PROVE r[k] = (e + n) + k
    <3>1. n + k \in 1..l
      BY <1>1, <1>5
    <3>2. bytes[n + k] = e + (n + k)
      BY <1>6, <3>1
    <3>3. e + (n + k) = (e + n) + k
      BY <1>5
    <3> QED BY <2>1, <3>2, <3>3
  <2> QED BY <2>1, <2>2 DEF RunFrom
<1>9. v = AddNew(u, Chunks(r))
  BY DEF QueueAdd, Extended, l, n
<1>10. /\ Base(u) /\ Line(u, w, e + n) /\ Aside(u) /\ Fit(u) /\ Rest(u, t)
       /\ OwnLocks(u) = OwnLocks(t) /\ u.mem[t.obuf] = t.mem[t.obuf]
  <2>1. CASE n = 0
    <3>1. u = t /\ e + n = e
      BY <2>1
    <3> QED BY <3>1 DEF Rest
  <2>2. CASE n # 0
    <3> DEFINE la == Last(t.queue)
    <3>1. u = Extended(t, m)
      BY <2>2
    <3>2. /\ Base(u) /\ Line(u, w, e + Len(m)) /\ OwnLocks(u) = OwnLocks(t) /\ Rest(u, t)
          /\ la \in ToSet(t.queue) /\ la \in Bufs /\ Len(u.mem[la]) = Len(t.mem[la]) + Len(m)
          /\ \A b \in Bufs : b # la => u.mem[b] = t.mem[b]
          /\ u.queue = t.queue /\ u.pool = t.pool
      <4>1. TakesMore(t.queue) /\ m \in Seq(1..MaxBytes) /\ RunFrom(m, e)
        BY <1>5, <1>7, <2>2
      <4> HIDE DEF m, u
      <4> QED BY <3>1, <4>1, ExtendOK
    <3> HIDE DEF u, m
    <3>3. u.obuf = t.obuf
      BY <3>2 DEF Rest
    <3>4. Aside(u)
      BY <1>3, <3>2, <3>3 DEF Aside
    <3>5. u.mem[t.obuf] = t.mem[t.obuf]
      BY <1>2, <1>3, <3>2
    <3>6. Len(u.mem[la]) <= BufSize
      <4>1. n <= BufSize - Len(t.mem[la]) /\ Len(t.mem[la]) \in Nat
        BY <1>4, <1>5, <2>2
      <4>2. Len(u.mem[la]) = Len(t.mem[la]) + n
        BY <1>7, <3>2
      <4> HIDE DEF la
      <4> QED BY <1>5, <4>1, <4>2, ConstantAssumption
    <3>7. Fit(u)
      BY <3>2, <3>3, <3>6 DEF Fit
    <3> QED BY <1>7, <3>2, <3>4, <3>5, <3>7
  <2> QED BY <2>1, <2>2
<1> HIDE DEF u, r, v
<1>11. e + n \in Nat /\ (e + n) + Len(r) = e + l /\ e + l \in Nat /\ e + l <= MaxBytes
  BY <1>1, <1>5, <1>8 DEF l
<1>12. /\ Chunks(r) \in Seq(Seq(1..MaxBytes)) /\ Chunks(r) \in Seq(Seq(Nat))
       /\ Chain(Chunks(r), e + n, e + l)
       /\ \A i \in 1..Len(Chunks(r)) : Len(Chunks(r)[i]) <= BufSize
  <2>1. 1..MaxBytes \in SUBSET Nat
    OBVIOUS
  <2> QED BY <1>8, <1>11, <2>1, ChunksInOrder
<1>13. ~u.error /\ u.obuf = t.obuf
  BY <1>10 DEF Rest
<1> DEFINE d == Chunks(r)
           g == e + l
           f == e + n
<1>a. /\ Base(u) /\ Aside(u) /\ Fit(u) /\ ~u.error /\ f \in Nat /\ g \in Nat /\ Line(u, w, f)
      /\ g <= MaxBytes /\ d \in Seq(Seq(1..MaxBytes)) /\ d \in Seq(Seq(Nat)) /\ Chain(d, f, g)
      /\ \A i \in 1..Len(d) : Len(d[i]) <= BufSize
  BY <1>10, <1>11, <1>12, <1>13
<1>b. v = AddNew(u, d)
  BY <1>9
<1> HIDE DEF d, g, f
<1>c. LET y == AddNew(u, d)
      IN  Added(y, u, w, g) /\ Aside(y) /\ Fit(y) /\ y.mem[u.obuf] = u.mem[u.obuf]
  BY <1>a, AddNewOK
<1>14. Added(v, u, w, e + l) /\ Aside(v) /\ Fit(v) /\ v.mem[u.obuf] = u.mem[u.obuf]
  BY <1>b, <1>c DEF g
<1>15. Added(v, t, w, e + l)
  BY <1>10, <1>14 DEF Added, Rest
<1> QED BY <1>10, <1>13, <1>14, <1>15 DEF v, l

-----------------------------------------------------------------------------
(* output_queue_done().                                                     *)

\* What is left of the queue is posted.
LEMMA RepostOK ==
    ASSUME NEW v \in StateRec, v.wr = None, Places(v), ~v.error, NEW w \in Nat, NEW e,
           v.queue # << >> => v.pos[v.queue[1]] < Len(v.mem[v.queue[1]]),
           \A i \in 2..Len(v.queue) : v.pos[v.queue[i]] = 0,
           Chain(Blocks(v), w - (IF v.queue = << >> THEN 0 ELSE v.pos[v.queue[1]]), e)
    PROVE  LET z == IF v.queue = << >> THEN v ELSE PostIoRequest(v)
           IN  Base(z) /\ Same(z, v) /\ Line(z, w, e) /\ OwnLocks(z) = v.lock_cnt
<1> DEFINE z == IF v.queue = << >> THEN v ELSE PostIoRequest(v)
<1>1. v.lock_cnt \in Nat /\ v.queue \in Seq(Bufs) /\ v.pos \in [Bufs -> Nat]
  BY Fields
<1>2. CASE v.queue = << >>
  <2>1. z = v
    BY <1>2
  <2>2. InFlight(v)
    BY <1>2 DEF InFlight
  <2>3. Base(v) /\ Same(v, v)
    BY <2>2 DEF Base, Same, Rest
  <2>4. HeadSent(v) = 0 /\ Line(v, w, e)
    BY <1>2 DEF HeadSent, Line
  <2>5. OwnLocks(v) = v.lock_cnt
    BY <1>1 DEF OwnLocks, Holds
  <2> QED BY <2>1, <2>3, <2>4, <2>5
<1>3. CASE v.queue # << >>
  <2>1. z = PostIoRequest(v)
    BY <1>3
  <2>2. /\ z \in StateRec /\ Same(z, v)
        /\ z.wr \in Request /\ z.wr.buf = v.queue[1] /\ z.wr.from = v.pos[v.queue[1]]
        /\ z.wr.to = Len(v.mem[v.queue[1]]) /\ z.wr.st = "run" /\ z.wr.size = 0
        /\ z.wr.error = FALSE
        /\ z.lock_cnt = v.lock_cnt + 1
    BY <1>3, <2>1, PostOK
  <2> HIDE DEF z
  <2>3. z.mem = v.mem /\ z.pos = v.pos /\ z.queue = v.queue /\ z.pool = v.pool /\ z.error = v.error
    BY <2>2 DEF Same, Rest
  <2>4. z.wr # None
    BY <2>2, RequestFields
  <2>5. v.pos[v.queue[1]] \in Nat
    BY <1>1, <1>3
  <2>6. Asks(z.wr, z)
    <3>1. z.wr.from < z.wr.to /\ z.wr.from + z.wr.size <= z.wr.to
      <4>1. ASSUME NEW a \in Nat, NEW b \in Nat, a < b PROVE a + 0 <= b
        BY <4>1
      <4>2. Len(v.mem[v.queue[1]]) \in Nat
        BY <2>2, RequestFields
      <4>3. v.pos[v.queue[1]] + 0 <= Len(v.mem[v.queue[1]])
        BY <1>3, <2>5, <4>1, <4>2
      <4> QED BY <1>3, <2>2, <4>3
    <3> QED BY <2>2, <2>3, <3>1 DEF Asks
  <2>7. InFlight(z)
    BY <1>3, <2>3, <2>4, <2>6 DEF InFlight
  <2>8. Places(z)
    BY <2>3 DEF Places
  <2>9. Base(z)
    BY <2>2, <2>3, <2>7, <2>8 DEF Base
  <2>10. HeadSent(z) = v.pos[v.queue[1]]
    BY <1>3, <2>2, <2>3, <2>5 DEF HeadSent
  <2>11. Blocks(z) = Blocks(v)
    BY <2>3 DEF Blocks
  <2>12. Line(z, w, e)
    BY <1>3, <2>10, <2>11 DEF Line
  <2>13. OwnLocks(z) = v.lock_cnt
    BY <1>1, <2>2, <2>4 DEF OwnLocks, Holds
  <2> QED BY <2>2, <2>9, <2>12, <2>13 DEF z
<1> QED BY <1>2, <1>3

\* What the end of a request leaves alone.
Kept(z, t) == z.mem = t.mem /\ z.obuf = t.obuf /\ z.eom_cnt = t.eom_cnt /\ z.flush_cnt = t.flush_cnt

\* The request failed: the queue is cleared.
LEMMA DoneErrorOK ==
    ASSUME NEW t, Base(t), Aside(t), t.wr # None, t.wr.error
    PROVE  LET z == QueueDone(t)
           IN  /\ Base(z) /\ Aside(z) /\ Kept(z, t) /\ z.error /\ z.queue = << >>
               /\ OwnLocks(z) = OwnLocks(t) + 1
<1> DEFINE k == MinOf(Len(t.queue), MaxPool - Len(t.pool))
           a == SubSeq(t.queue, 1, k)
           p == t.pool \o a
           z == [t EXCEPT !.error = TRUE, !.pool = p, !.queue = << >>, !.wr = None]
<1>1. t \in StateRec /\ Places(t) /\ InFlight(t)
  BY DEF Base
<1>2. /\ t.queue \in Seq(Bufs) /\ Len(t.queue) \in Nat /\ t.pool \in Seq(Bufs)
      /\ Len(t.pool) \in Nat /\ t.lock_cnt \in Nat
  BY <1>1, Fields
<1>3. k \in 0..Len(t.queue) /\ k <= MaxPool - Len(t.pool) /\ MaxPool \in Nat /\ Len(t.pool) <= MaxPool
  <2>1. MaxPool \in Nat /\ Len(t.pool) <= MaxPool
    BY <1>1, ConstantAssumption DEF Places
  <2>2. MaxPool - Len(t.pool) \in Nat
    BY <1>2, <2>1
  <2>3. ASSUME NEW x \in Nat, NEW y \in Nat PROVE MinOf(x, y) \in 0..x /\ MinOf(x, y) <= y
    BY DEF MinOf
  <2> QED BY <1>2, <2>1, <2>2, <2>3
<1> HIDE DEF k
<1>4. a \in Seq(Bufs) /\ Len(a) = k /\ NoRepeat(a) /\ ToSet(a) \subseteq ToSet(t.queue)
  BY <1>1, <1>2, <1>3, SplitMembers DEF Places
<1>5. QueueDone(t) = z
  <2> DEFINE y == [t EXCEPT !.error = TRUE]
             x == [y EXCEPT !.pool = p, !.queue = << >>]
  <2>1. y.queue = t.queue /\ y.pool = t.pool
    BY <1>1 DEF StateRec
  <2>2. QueueClear(y) = [y EXCEPT !.pool = y.pool \o SubSeq(y.queue, 1, MinOf(Len(y.queue), MaxPool - Len(y.pool))), !.queue = << >>]
    BY DEF QueueClear
  <2>3. QueueClear(y) = x
    BY <2>1, <2>2 DEF k
  <2>4. [x EXCEPT !.wr = None] = z
    BY <1>1 DEF StateRec
  <2>5. z.queue = << >>
    BY <1>1 DEF StateRec
  <2> HIDE DEF x, z
  <2> QED BY <2>3, <2>4, <2>5 DEF QueueDone
<1> HIDE DEF a
<1>6. /\ p \in Seq(Bufs) /\ Len(p) = Len(t.pool) + k /\ NoRepeat(p)
      /\ ToSet(p) = ToSet(t.pool) \cup ToSet(a)
  <2>1. ToSet(t.pool) \cap ToSet(a) = {} /\ NoRepeat(t.pool)
    BY <1>1, <1>4 DEF Places
  <2>2. p \in Seq(Bufs) /\ Len(p) = Len(t.pool) + Len(a)
    BY <1>2, <1>4, ConcatEntries
  <2> QED BY <1>2, <1>4, <2>1, <2>2, ConcatMembers
<1> HIDE DEF p
<1>7. z \in StateRec
  <2>1. << >> \in Seq(Bufs) /\ None \in Request \cup {None} /\ TRUE \in BOOLEAN
    OBVIOUS
  <2> QED BY <1>1, <1>6, <2>1 DEF StateRec
<1>8. /\ z.error = TRUE /\ z.pool = p /\ z.queue = << >> /\ z.wr = None /\ Kept(z, t)
      /\ z.lock_cnt = t.lock_cnt /\ z.obuf = t.obuf
  BY <1>1 DEF StateRec, Kept
<1> HIDE DEF z
<1>9. ToSet(z.queue) = {} /\ NoRepeat(z.queue) /\ Len(z.queue) = 0
  <2>1. z.queue \in Seq(Bufs) /\ Len(z.queue) = 0
    BY <1>7, <1>8, Fields
  <2>2. 1..Len(z.queue) = {}
    BY <2>1
  <2> QED BY <2>1, <2>2, MemberAt DEF NoRepeat
<1>10. Places(z)
  <2>1. Len(p) <= MaxPool
    BY <1>2, <1>3, <1>6
  <2> QED BY <1>6, <1>8, <1>9, <2>1 DEF Places
<1>11. InFlight(z)
  BY <1>8, <1>9 DEF InFlight
<1>12. Base(z)
  BY <1>7, <1>8, <1>10, <1>11 DEF Base
<1>13. Aside(z)
  BY <1>4, <1>6, <1>8, <1>9 DEF Aside
<1>14. OwnLocks(z) = OwnLocks(t) + 1
  BY <1>2, <1>8 DEF OwnLocks, Holds
<1> QED BY <1>5, <1>8, <1>12, <1>13, <1>14

\* A part of the first buffer was sent, and there is more of it.
LEMMA DonePartOK ==
    ASSUME NEW t, Base(t), ~t.error, t.wr # None, ~t.wr.error,
           NEW w \in Nat, NEW e, Line(t, w, e),
           t.pos[t.queue[1]] + t.wr.size < Len(t.mem[t.queue[1]])
    PROVE  LET z == QueueDone(t)
           IN  /\ Base(z) /\ Line(z, w, e) /\ OwnLocks(z) = OwnLocks(t) + 1
               /\ Kept(z, t) /\ z.pool = t.pool /\ z.queue = t.queue /\ z.error = t.error
<1> DEFINE q == t.queue
           b == q[1]
           n == t.wr.size
           x == t.pos[b] + n
           v == [t EXCEPT !.pos = [t.pos EXCEPT ![b] = x], !.wr = None]
           z == PostIoRequest(v)
<1>1. t \in StateRec /\ Places(t) /\ InFlight(t) /\ t.queue # << >>
  BY DEF Base, InFlight
<1>2. /\ q \in Seq(Bufs) /\ Len(q) \in Nat /\ t.pos \in [Bufs -> Nat] /\ t.lock_cnt \in Nat
  BY <1>1, Fields
<1>3. HeadSent(t) = x /\ x \in Nat /\ b \in Bufs /\ t.wr \in Request
  BY <1>1, HeadSentTyped
<1>4. Head(q) = b
  BY <1>1, <1>2
<1> HIDE DEF x
<1>5. [t.pos EXCEPT ![b] = x] \in [Bufs -> Nat]
  BY <1>2, <1>3
<1>6. QueueDone(t) = z
  <2> DEFINE y == [t EXCEPT !.pos[b] = @ + n]
  <2>1. y = [t EXCEPT !.pos = [t.pos EXCEPT ![b] = x]]
    BY DEF x
  <2>2. y.pos[b] = x /\ y.mem = t.mem
    BY <1>1, <1>2, <1>3, <2>1 DEF StateRec
  <2>3. x < Len(t.mem[b])
    BY DEF x
  <2>4. Sent(t, n) = y
    BY <1>4, <2>2, <2>3 DEF Sent
  <2>5. [y EXCEPT !.wr = None] = v
    BY <1>1, <2>1 DEF StateRec
  <2>6. v.queue # << >>
    BY <1>1 DEF StateRec
  <2> HIDE DEF y, v
  <2> QED BY <2>4, <2>5, <2>6 DEF QueueDone
<1>7. v \in StateRec
  BY <1>1, <1>5 DEF StateRec
<1>8. /\ v.pos = [t.pos EXCEPT ![b] = x] /\ v.wr = None /\ v.mem = t.mem /\ v.queue = q
      /\ v.pool = t.pool /\ v.lock_cnt = t.lock_cnt /\ Rest(v, t)
  BY <1>1 DEF StateRec, Rest
<1> HIDE DEF v
<1>9. v.pos[b] = x /\ \A c \in Bufs : c # b => v.pos[c] = t.pos[c]
  BY <1>2, <1>3, <1>8
<1>10. \A i \in 2..Len(q) : v.pos[q[i]] = 0
  <2> SUFFICES ASSUME NEW i \in 2..Len(q) PROVE v.pos[q[i]] = 0
    OBVIOUS
  <2>1. i \in 1..Len(q) /\ 1 \in 1..Len(q) /\ i # 1
    BY <1>2
  <2>2. q[i] # b /\ q[i] \in Bufs
    BY <1>1, <1>2, <2>1 DEF Places, NoRepeat
  <2>3. t.pos[q[i]] = 0
    BY <1>1 DEF InFlight
  <2> QED BY <1>9, <2>2, <2>3
<1>11. Places(v)
  BY <1>1, <1>8 DEF Places
<1>12. Blocks(v) = Blocks(t)
  BY <1>8 DEF Blocks
<1>13. v.queue # << >> /\ v.pos[v.queue[1]] < Len(v.mem[v.queue[1]]) /\ ~v.error
  BY <1>1, <1>8, <1>9 DEF x, Rest
<1>14. Chain(Blocks(v), w - (IF v.queue = << >> THEN 0 ELSE v.pos[v.queue[1]]), e)
  BY <1>3, <1>8, <1>9, <1>12, <1>13 DEF Line
<1>15. z = IF v.queue = << >> THEN v ELSE PostIoRequest(v)
  BY <1>13
<1> HIDE DEF z
<1>16. Base(z) /\ Same(z, v) /\ Line(z, w, e) /\ OwnLocks(z) = v.lock_cnt
  <2>1. v \in StateRec /\ v.wr = None
    BY <1>7, <1>8
  <2> HIDE DEF v
  <2>2. v.queue # << >> => v.pos[v.queue[1]] < Len(v.mem[v.queue[1]])
    BY <1>13
  <2>3. \A i \in 2..Len(v.queue) : v.pos[v.queue[i]] = 0
    BY <1>8, <1>10
  <2>4. ~v.error
    BY <1>13
  <2> QED BY <1>11, <1>14, <1>15, <2>1, <2>2, <2>3, <2>4, RepostOK
<1>17. OwnLocks(t) + 1 = t.lock_cnt
  BY <1>2 DEF OwnLocks, Holds
<1>18. Kept(z, t) /\ z.pool = t.pool /\ z.queue = t.queue /\ z.error = t.error
  BY <1>8, <1>16 DEF Same, Rest, Kept
<1> QED BY <1>6, <1>8, <1>16, <1>17, <1>18

\* The first buffer was sent: it is freed, and the next one is posted.
LEMMA DoneBufferOK ==
    ASSUME NEW t, Base(t), Aside(t), ~t.error, t.wr # None, ~t.wr.error,
           NEW w \in Nat, NEW e \in Nat, Line(t, w, e),
           ~(t.pos[t.queue[1]] + t.wr.size < Len(t.mem[t.queue[1]]))
    PROVE  LET z == QueueDone(t)
           IN  /\ Base(z) /\ Aside(z) /\ Line(z, w, e) /\ OwnLocks(z) = OwnLocks(t) + 1
               /\ Kept(z, t) /\ z.error = t.error
<1> DEFINE q == t.queue
           b == q[1]
           n == t.wr.size
           x == t.pos[b] + n
           u == [t EXCEPT !.pos = [t.pos EXCEPT ![b] = x], !.queue = Tail(q), !.wr = None]
           v == FreeObuf(u, b)
           z == IF v.queue = << >> THEN v ELSE PostIoRequest(v)
<1>1. t \in StateRec /\ Places(t) /\ InFlight(t) /\ t.queue # << >> /\ Asks(t.wr, t)
  BY DEF Base, InFlight
<1>2. /\ q \in Seq(Bufs) /\ Len(q) \in Nat /\ t.pos \in [Bufs -> Nat] /\ t.lock_cnt \in Nat
      /\ t.mem \in [Bufs -> Seq(1..MaxBytes)]
  BY <1>1, Fields
<1>3. HeadSent(t) = x /\ x \in Nat /\ b \in Bufs /\ t.wr \in Request
  BY <1>1, HeadSentTyped
<1>4. Head(q) = b /\ 1 \in 1..Len(q)
  BY <1>1, <1>2
<1>a. ~(x < Len(t.mem[b])) /\ x <= Len(t.mem[b])
  BY <1>1 DEF Asks
<1> HIDE DEF x
<1>5. x = Len(t.mem[b])
  <2>1. t.mem[b] \in Seq(1..MaxBytes)
    BY <1>2, <1>3
  <2>2. Len(t.mem[b]) \in Nat
    BY <2>1
  <2> QED BY <1>3, <1>a, <2>2
<1>6. [t.pos EXCEPT ![b] = x] \in [Bufs -> Nat]
  BY <1>2, <1>3
<1>7. /\ Tail(q) \in Seq(Bufs) /\ Len(Tail(q)) = Len(q) - 1 /\ NoRepeat(Tail(q))
      /\ ToSet(Tail(q)) = ToSet(q) \ {b} /\ b \in ToSet(q)
  <2>1. NoRepeat(q)
    BY <1>1 DEF Places
  <2> HIDE DEF q, b
  <2>2. q # << >> /\ Head(q) = b
    BY <1>1, <1>4 DEF q
  <2> QED BY <1>2, <2>1, <2>2, TailMembers
<1>8. QueueDone(t) = z
  <2> DEFINE y == [t EXCEPT !.pos[b] = @ + n]
             r == [y EXCEPT !.queue = Tail(@)]
             c == FreeObuf(r, b)
  <2>1. y = [t EXCEPT !.pos = [t.pos EXCEPT ![b] = x]]
    BY DEF x
  <2>2. y.pos[b] = x /\ y.mem = t.mem /\ y.queue = q
    BY <1>1, <1>2, <1>3, <2>1 DEF StateRec
  <2>3. Sent(t, n) = c
    BY <1>4, <1>a, <2>2 DEF Sent
  <2>4. r = [t EXCEPT !.pos = [t.pos EXCEPT ![b] = x], !.queue = Tail(q)]
    BY <2>1, <2>2
  <2>5. [r EXCEPT !.wr = None] = u /\ r.pool = u.pool
    BY <1>1, <2>4 DEF StateRec
  <2>6. DOMAIN r = DOMAIN t /\ "pool" \in DOMAIN r /\ "wr" \in DOMAIN r
    BY <1>1, <2>4 DEF StateRec
  <2>7. [c EXCEPT !.wr = None] = v
    <3>1. CASE PoolHasRoom(r.pool)
      <4>1. c = [r EXCEPT !.pool = Append(r.pool, b)] /\ v = [u EXCEPT !.pool = Append(u.pool, b)]
        BY <2>5, <3>1 DEF FreeObuf
      <4> HIDE DEF r, u, c, v
      <4>2. v = [[r EXCEPT !.wr = None] EXCEPT !.pool = Append(r.pool, b)]
        BY <2>5, <4>1
      <4>3. [[r EXCEPT !.pool = Append(r.pool, b)] EXCEPT !.wr = None] =
              [[r EXCEPT !.wr = None] EXCEPT !.pool = Append(r.pool, b)]
        OBVIOUS
      <4> QED BY <4>1, <4>2, <4>3
    <3>2. CASE ~PoolHasRoom(r.pool)
      <4>1. c = r /\ v = u
        BY <2>5, <3>2 DEF FreeObuf
      <4> HIDE DEF r, u, c, v
      <4> QED BY <2>5, <4>1
    <3> QED BY <3>1, <3>2
  <2> HIDE DEF c, v, y
  <2> QED BY <2>3, <2>7 DEF QueueDone
<1>9. u \in StateRec
  BY <1>1, <1>6, <1>7 DEF StateRec
<1>10. /\ u.pos = [t.pos EXCEPT ![b] = x] /\ u.wr = None /\ u.mem = t.mem /\ u.queue = Tail(q)
       /\ u.pool = t.pool /\ u.lock_cnt = t.lock_cnt /\ Rest(u, t)
  BY <1>1 DEF StateRec, Rest
<1> HIDE DEF u
<1>11. Places(u) /\ b \notin ToSet(u.queue) /\ b \notin ToSet(u.pool)
  BY <1>1, <1>7, <1>10 DEF Places
<1>12. /\ v \in StateRec /\ Places(v) /\ PoolOnly(v, u)
       /\ ToSet(v.pool) \subseteq ToSet(u.pool) \cup {b}
  BY <1>3, <1>9, <1>11, FreeObufOK
<1> HIDE DEF v
<1>13. /\ v.pos = [t.pos EXCEPT ![b] = x] /\ v.wr = None /\ v.mem = t.mem /\ v.queue = Tail(q)
       /\ v.lock_cnt = t.lock_cnt /\ Rest(v, t)
  BY <1>10, <1>12 DEF PoolOnly, Rest
<1>14. \A i \in 1..(Len(q) - 1) : v.queue[i] = q[i + 1] /\ v.pos[v.queue[i]] = 0
  <2> SUFFICES ASSUME NEW i \in 1..(Len(q) - 1) PROVE v.queue[i] = q[i + 1] /\ v.pos[v.queue[i]] = 0
    OBVIOUS
  <2>1. v.queue[i] = q[i + 1]
    BY <1>1, <1>2, <1>13
  <2>2. i + 1 \in 2..Len(q) /\ i + 1 \in 1..Len(q) /\ i + 1 # 1
    BY <1>2
  <2>3. q[i + 1] # b /\ q[i + 1] \in Bufs
    BY <1>1, <1>2, <1>4, <2>2 DEF Places, NoRepeat
  <2>4. t.pos[q[i + 1]] = 0
    BY <1>1, <2>2 DEF InFlight
  <2> QED BY <1>2, <1>13, <2>1, <2>3, <2>4
<1>15. \A i \in 2..Len(v.queue) : v.pos[v.queue[i]] = 0
  <2>1. Len(v.queue) = Len(q) - 1
    BY <1>7, <1>13
  <2>2. \A i \in 2..Len(v.queue) : i \in 1..(Len(q) - 1)
    BY <1>2, <2>1
  <2> QED BY <1>14, <2>2
<1>16. /\ Blocks(t) \in Seq(Seq(Nat)) /\ Len(Blocks(t)) = Len(q) /\ Blocks(t)[1] = t.mem[b]
       /\ \A i \in 1..Len(q) : Blocks(t)[i] = t.mem[q[i]]
  BY <1>1, <1>4, BlocksTyped
<1>17. Blocks(t) # << >>
  BY <1>4, <1>16
<1>18. Tail(Blocks(t)) \in Seq(Seq(Nat)) /\ Chain(Tail(Blocks(t)), (w - x) + Len(Blocks(t)[1]), e)
  <2>1. Chain(Blocks(t), w - x, e) /\ w - x \in Int
    BY <1>3 DEF Line
  <2> QED BY <1>16, <1>17, <2>1, ChainTail
<1>19. (w - x) + Len(Blocks(t)[1]) = w
  BY <1>3, <1>5, <1>16
<1>20. Blocks(v) = Tail(Blocks(t))
  <2>1. /\ Blocks(v) \in Seq(Seq(Nat)) /\ Len(Blocks(v)) = Len(v.queue)
        /\ \A i \in 1..Len(v.queue) : Blocks(v)[i] = v.mem[v.queue[i]]
    BY <1>12, BlocksTyped
  <2>2. Len(v.queue) = Len(q) - 1
    BY <1>7, <1>13
  <2>3. /\ Len(Tail(Blocks(t))) = Len(q) - 1
        /\ \A i \in 1..(Len(q) - 1) : Tail(Blocks(t))[i] = Blocks(t)[i + 1]
    <3> DEFINE c == Blocks(t)
    <3>1. c \in Seq(Seq(Nat)) /\ c # << >> /\ Len(c) = Len(q)
      BY <1>16, <1>17
    <3> HIDE DEF c
    <3>2. Len(Tail(c)) = Len(c) - 1 /\ \A i \in 1..(Len(c) - 1) : Tail(c)[i] = c[i + 1]
      BY <3>1
    <3> QED BY <3>1, <3>2 DEF c
  <2>4. ASSUME NEW i \in 1..(Len(q) - 1) PROVE Blocks(v)[i] = Tail(Blocks(t))[i]
    <3>1. i + 1 \in 1..Len(q)
      BY <1>2
    <3>2. Tail(Blocks(t))[i] = Blocks(t)[i + 1]
      BY <2>3
    <3>3. Blocks(t)[i + 1] = t.mem[q[i + 1]]
      BY <1>16, <3>1
    <3>4. v.queue[i] = q[i + 1]
      BY <1>14
    <3>5. i \in 1..Len(v.queue)
      BY <2>2
    <3>6. Blocks(v)[i] = v.mem[v.queue[i]]
      BY <2>1, <3>5
    <3> QED BY <1>13, <3>2, <3>3, <3>4, <3>6
  <2>5. Len(Blocks(v)) = Len(Tail(Blocks(t))) /\ \A i \in 1..Len(Blocks(v)) : Blocks(v)[i] = Tail(Blocks(t))[i]
    BY <2>1, <2>2, <2>3, <2>4
  <2> QED BY <1>18, <2>1, <2>5, SeqEqual
<1>21. Chain(Blocks(v), w, e)
  BY <1>18, <1>19, <1>20
<1>22. ASSUME v.queue # << >>
       PROVE  v.pos[v.queue[1]] = 0 /\ v.pos[v.queue[1]] < Len(v.mem[v.queue[1]])
  <2>1. 1 \in 1..(Len(q) - 1) /\ 1 \in 1..Len(v.queue)
    BY <1>2, <1>7, <1>13, <1>22
  <2>2. v.pos[v.queue[1]] = 0
    BY <1>14, <2>1
  <2>3. /\ Blocks(v)[1] = v.mem[v.queue[1]] /\ Len(Blocks(v)) = Len(v.queue)
        /\ Blocks(v) \in Seq(Seq(Nat))
    BY <1>12, <2>1, BlocksTyped
  <2>4. Blocks(v)[1] \in Seq(Nat) /\ IsRun(Blocks(v)[1])
    BY <1>21, <2>1, <2>3, BlockTypes
  <2>5. Len(Blocks(v)[1]) > 0
    BY <2>4 DEF IsRun
  <2> QED BY <2>2, <2>3, <2>5
<1>23. Chain(Blocks(v), w - (IF v.queue = << >> THEN 0 ELSE v.pos[v.queue[1]]), e)
  <2>1. (IF v.queue = << >> THEN 0 ELSE v.pos[v.queue[1]]) = 0
    BY <1>22
  <2>2. w - (IF v.queue = << >> THEN 0 ELSE v.pos[v.queue[1]]) = w
    BY <2>1
  <2> QED BY <1>21, <2>2
<1>24. ~v.error
  BY <1>13 DEF Rest
<1> HIDE DEF z
<1>25. Base(z) /\ Same(z, v) /\ Line(z, w, e) /\ OwnLocks(z) = v.lock_cnt
  BY <1>12, <1>13, <1>15, <1>22, <1>23, <1>24, RepostOK DEF z
<1>26. OwnLocks(t) + 1 = t.lock_cnt
  BY <1>2 DEF OwnLocks, Holds
<1>27. Kept(z, t) /\ z.error = t.error /\ z.queue = Tail(q) /\ z.pool = v.pool /\ z.obuf = t.obuf
  BY <1>13, <1>25 DEF Same, Rest, Kept
<1>28. Aside(z)
  BY <1>7, <1>10, <1>12, <1>27 DEF Aside
<1> QED BY <1>8, <1>13, <1>25, <1>26, <1>27, <1>28

-----------------------------------------------------------------------------
(* Flushing.                                                                *)

\* z and u have the same queue: the same buffers, bytes, request and locks.
SameQueue(z, u) ==
    /\ z.queue = u.queue /\ z.wr = u.wr /\ z.lock_cnt = u.lock_cnt /\ z.error = u.error
    /\ \A b \in ToSet(u.queue) : z.mem[b] = u.mem[b] /\ z.pos[b] = u.pos[b]

\* Buffers that are not queued do not matter to the queue.
LEMMA SameQueueOK ==
    ASSUME NEW u, Base(u), NEW z \in StateRec, Places(z), SameQueue(z, u)
    PROVE  /\ Base(z) /\ OwnLocks(z) = OwnLocks(u)
           /\ \A w, e : Line(z, w, e) = Line(u, w, e)
<1>1. /\ z.queue = u.queue /\ z.wr = u.wr /\ z.lock_cnt = u.lock_cnt /\ z.error = u.error
      /\ \A b \in ToSet(u.queue) : z.mem[b] = u.mem[b] /\ z.pos[b] = u.pos[b]
  BY DEF SameQueue
<1>2. u \in StateRec /\ InFlight(u) /\ (u.error => u.queue = << >>)
  BY DEF Base
<1>3. u.queue \in Seq(Bufs) /\ Len(u.queue) \in Nat
  BY <1>2, Fields
<1>4. ASSUME NEW i \in 1..Len(u.queue)
      PROVE  z.mem[u.queue[i]] = u.mem[u.queue[i]] /\ z.pos[u.queue[i]] = u.pos[u.queue[i]]
  <2>1. u.queue[i] \in ToSet(u.queue)
    BY <1>3, MemberAt
  <2> QED BY <1>1, <2>1
<1>5. Blocks(z) = Blocks(u)
  BY <1>1, <1>4 DEF Blocks
<1>6. ASSUME u.queue # << >>
      PROVE  /\ z.mem[u.queue[1]] = u.mem[u.queue[1]] /\ z.pos[u.queue[1]] = u.pos[u.queue[1]]
  <2>1. 1 \in 1..Len(u.queue)
    BY <1>3, <1>6
  <2> QED BY <1>4, <2>1
<1>7. HeadSent(z) = HeadSent(u)
  BY <1>1, <1>6 DEF HeadSent
<1>8. ASSUME z.wr # None PROVE Asks(z.wr, z)
  <2>1. Asks(u.wr, u) /\ u.queue # << >>
    BY <1>1, <1>2, <1>8 DEF InFlight
  <2>2. z.mem[u.queue[1]] = u.mem[u.queue[1]] /\ z.pos[u.queue[1]] = u.pos[u.queue[1]]
    BY <1>6, <2>1
  <2> QED BY <1>1, <2>1, <2>2 DEF Asks
<1>9. \A i \in 2..Len(z.queue) : z.pos[z.queue[i]] = 0
  <2> SUFFICES ASSUME NEW i \in 2..Len(u.queue) PROVE z.pos[u.queue[i]] = 0
    BY <1>1
  <2>1. i \in 1..Len(u.queue)
    BY <1>3
  <2>2. u.pos[u.queue[i]] = 0
    BY <1>2 DEF InFlight
  <2> QED BY <1>4, <2>1, <2>2
<1>10. InFlight(z)
  BY <1>1, <1>2, <1>8, <1>9 DEF InFlight
<1>11. Base(z)
  BY <1>1, <1>2, <1>10 DEF Base
<1>12. OwnLocks(z) = OwnLocks(u)
  BY <1>1 DEF OwnLocks
<1> QED BY <1>5, <1>7, <1>11, <1>12 DEF Line

\* A new buffer for the next output.
Renewed(v) == [[AllocState(v) EXCEPT !.obuf = AllocObuf(v)] EXCEPT !.eom_cnt = 0]

\* output_queue_alloc_obuf() for obuf.
LEMMA RenewedOK ==
    ASSUME NEW v, Base(v), \A b \in Bufs : Len(v.mem[b]) <= BufSize,
           Cardinality(ToSet(v.queue) \cup {v.obuf}) + 1 <= Cardinality(Bufs)
    PROVE  LET z == Renewed(v)
           IN  /\ Good(z, "tcp") /\ SameQueue(z, v) /\ z.mem[z.obuf] = << >>
               /\ z.flush_cnt = v.flush_cnt
<1> DEFINE x == AllocObuf(v)
           p == SubSeq(v.pool, 2, Len(v.pool))
           mem == [v.mem EXCEPT ![x] = << >>]
           pos == [v.pos EXCEPT ![x] = 0]
           z == Renewed(v)
<1>1. v \in StateRec /\ Places(v)
  BY DEF Base
<1>2. /\ v.queue \in Seq(Bufs) /\ v.mem \in [Bufs -> Seq(1..MaxBytes)] /\ v.pos \in [Bufs -> Nat]
  BY <1>1, Fields
<1>3. Allocated(v, 1, AllocObufs(v, 1))
  BY <1>1, AllocObufsOK DEF Places
<1>4. /\ x \in Bufs /\ x \in ToSet(AllocObufs(v, 1))
      /\ x \in ToSet(v.pool) \/ x \notin InUse(v)
  <2> DEFINE a == AllocObufs(v, 1)
  <2>1. a \in Seq(Bufs) /\ Len(a) = 1 /\ \A b \in ToSet(a) : b \in ToSet(v.pool) \/ b \notin InUse(v)
    BY <1>3 DEF Allocated
  <2>2. x = a[1]
    BY DEF AllocObuf
  <2> HIDE DEF a, x
  <2>3. a[1] \in ToSet(a) /\ a[1] \in Bufs
    BY <2>1, MemberAt
  <2> QED BY <2>1, <2>2, <2>3 DEF a
<1>5. /\ p \in Seq(Bufs) /\ NoRepeat(p) /\ ToSet(p) \subseteq ToSet(v.pool) /\ Len(p) <= Len(v.pool)
      /\ x \notin ToSet(p)
  <2>1. 1 + 1 = 2
    OBVIOUS
  <2> HIDE DEF x
  <2> QED BY <1>3, <1>4, <2>1 DEF Allocated
<1>6. x \notin ToSet(v.queue)
  BY <1>1, <1>4 DEF InUse, Places
<1>7. mem \in [Bufs -> Seq(1..MaxBytes)] /\ pos \in [Bufs -> Nat]
  <2>1. << >> \in Seq(1..MaxBytes) /\ 0 \in Nat
    OBVIOUS
  <2> HIDE DEF x
  <2> QED BY <1>2, <1>4, <2>1
<1>8. z = [v EXCEPT !.mem = mem, !.pos = pos, !.pool = p, !.obuf = x, !.eom_cnt = 0]
  <2>1. AllocState(v) = [v EXCEPT !.mem = mem, !.pos = pos, !.pool = p]
    BY <1>1 DEF AllocState, StateRec
  <2> HIDE DEF mem, pos, p
  <2>2. z = [[[v EXCEPT !.mem = mem, !.pos = pos, !.pool = p] EXCEPT !.obuf = x] EXCEPT !.eom_cnt = 0]
    BY <2>1 DEF Renewed
  <2> HIDE DEF z, x
  <2> QED BY <1>1, <2>2 DEF StateRec
<1> HIDE DEF z, x, p, mem, pos
<1>9. z \in StateRec
  BY <1>1, <1>4, <1>5, <1>7, <1>8 DEF StateRec
<1>10. /\ z.mem = mem /\ z.pos = pos /\ z.pool = p /\ z.obuf = x /\ z.queue = v.queue
       /\ z.wr = v.wr /\ z.lock_cnt = v.lock_cnt /\ z.error = v.error /\ z.flush_cnt = v.flush_cnt
  BY <1>1, <1>8 DEF StateRec
<1>11. mem[x] = << >> /\ \A b \in Bufs : b # x => mem[b] = v.mem[b] /\ pos[b] = v.pos[b]
  BY <1>2, <1>4 DEF mem, pos
<1>12. ToSet(v.queue) \subseteq Bufs
  BY <1>2, ToSetSeq
<1>13. SameQueue(z, v)
  BY <1>6, <1>10, <1>11, <1>12 DEF SameQueue
<1>14. Places(z)
  <2>1. Len(p) <= MaxPool
    BY <1>1, <1>5, ConstantAssumption, Fields DEF Places
  <2> QED BY <1>1, <1>5, <1>10, <2>1 DEF Places
<1>15. Base(z)
  BY <1>9, <1>13, <1>14, SameQueueOK
<1>16. Aside(z)
  BY <1>5, <1>6, <1>10 DEF Aside
<1>17. Sizes(z, "tcp")
  <2>1. Len(<< >>) <= BufSize
    BY ConstantAssumption
  <2> QED BY <1>10, <1>11, <2>1 DEF Sizes, Room
<1> QED BY <1>10, <1>11, <1>13, <1>15, <1>16, <1>17 DEF Good, z

\* obuf of t gets the bytes m, and the message count c.
Refilled(t, m, c) == [t EXCEPT !.mem[t.obuf] = m, !.eom_cnt = c]

\* What is in obuf does not matter to the queue.
LEMMA RefilledOK ==
    ASSUME NEW t, Base(t), Aside(t), Fit(t), NEW k \in {"tcp", "pipe"},
           NEW m \in Seq(1..MaxBytes), Len(m) <= Room(k), NEW c \in Nat
    PROVE  LET z == Refilled(t, m, c)
           IN  /\ Good(z, k) /\ SameQueue(z, t) /\ z.obuf = t.obuf /\ z.mem[z.obuf] = m
               /\ z.flush_cnt = t.flush_cnt /\ z.eom_cnt = c
<1> DEFINE b == t.obuf
           mem == [t.mem EXCEPT ![b] = m]
           z == Refilled(t, m, c)
<1>1. t \in StateRec /\ Places(t)
  BY DEF Base
<1>2. t.mem \in [Bufs -> Seq(1..MaxBytes)] /\ b \in Bufs /\ t.queue \in Seq(Bufs)
  BY <1>1, Fields
<1>3. /\ mem \in [Bufs -> Seq(1..MaxBytes)] /\ mem[b] = m
      /\ \A x \in Bufs : x # b => mem[x] = t.mem[x]
  BY <1>2
<1>4. z = [t EXCEPT !.mem = mem, !.eom_cnt = c]
  BY <1>1 DEF Refilled, StateRec
<1> HIDE DEF mem, z
<1>5. z \in StateRec
  BY <1>1, <1>3, <1>4 DEF StateRec
<1>6. /\ z.mem = mem /\ z.eom_cnt = c /\ z.pos = t.pos /\ z.queue = t.queue /\ z.pool = t.pool
      /\ z.obuf = t.obuf /\ z.wr = t.wr /\ z.error = t.error /\ z.flush_cnt = t.flush_cnt
      /\ z.lock_cnt = t.lock_cnt
  BY <1>1, <1>4 DEF StateRec
<1>7. ToSet(t.queue) \subseteq Bufs /\ b \notin ToSet(t.queue)
  BY <1>2, ToSetSeq DEF Aside
<1>8. SameQueue(z, t)
  BY <1>3, <1>6, <1>7 DEF SameQueue
<1>9. Places(z) /\ Aside(z)
  BY <1>1, <1>6 DEF Places, Aside
<1>10. Base(z)
  BY <1>5, <1>8, <1>9, SameQueueOK
<1>11. Sizes(z, k)
  BY <1>3, <1>6 DEF Fit, Sizes
<1> QED BY <1>3, <1>6, <1>8, <1>9, <1>10, <1>11 DEF Good, z

\* Sizes for obuf and for the others.
LEMMA GoodFit ==
    ASSUME NEW t, NEW k, Good(t, k)
    PROVE  Base(t) /\ Aside(t) /\ Fit(t) /\ Len(t.mem[t.obuf]) <= Room(k)
<1>1. t \in StateRec
  BY DEF Good, Base
<1>2. t.obuf \in Bufs
  BY <1>1, Fields
<1> QED BY <1>2 DEF Good, Sizes, Fit

\* The queue and obuf of t, of which w bytes were sent, hold the bytes up to n.
Carries(t, w, n) ==
    ~t.error => LET e == n - Len(t.mem[t.obuf])
                IN  e \in Nat /\ Line(t, w, e) /\ RunFrom(t.mem[t.obuf], e)

\* The request, a posted flush and h others hold the locks.
Locked(t, h) == OwnLocks(t) = h + Holds(t.flush_cnt > 0)

\* A closed or broken channel drops what is in obuf.
LEMMA FlushDrops ==
    ASSUME kind \in {"tcp", "pipe"}, NEW t, Good(t, kind), state # "open" \/ t.error
    PROVE  LET z == Flush(t)
           IN  /\ Good(z, kind) /\ SameQueue(z, t) /\ z.obuf = t.obuf /\ z.mem[z.obuf] = << >>
               /\ z.flush_cnt = t.flush_cnt
<1> DEFINE z == Flush(t)
<1>1. Base(t) /\ Aside(t) /\ Fit(t) /\ Len(t.mem[t.obuf]) <= Room(kind)
  BY GoodFit
<1>2. CASE t.mem[t.obuf] = << >>
  <2>1. z = t
    BY <1>2 DEF Flush
  <2> QED BY <1>2, <2>1 DEF SameQueue
<1>3. CASE t.mem[t.obuf] # << >>
  <2>1. z = Refilled(t, << >>, 0)
    BY <1>3 DEF Flush, Refilled
  <2> DEFINE o == << >>
  <2>2. o \in Seq(1..MaxBytes) /\ Len(o) <= Room(kind) /\ 0 \in Nat
    BY ConstantAssumption DEF Room
  <2>3. z = Refilled(t, o, 0)
    BY <2>1
  <2> HIDE DEF o, z
  <2>4. Good(z, kind) /\ SameQueue(z, t) /\ z.obuf = t.obuf /\ z.mem[z.obuf] = o
        /\ z.flush_cnt = t.flush_cnt
    BY <1>1, <2>2, <2>3, RefilledOK
  <2> QED BY <2>4 DEF o, z
<1> QED BY <1>2, <1>3

\* tcp_flush_with_flags() of an open channel.
LEMMA FlushTcp ==
    ASSUME kind = "tcp", state = "open", NEW t, Good(t, kind), ~t.error, t.mem[t.obuf] # << >>,
           NEW w \in Nat, NEW e \in Nat, Line(t, w, e), RunFrom(t.mem[t.obuf], e),
           e + Len(t.mem[t.obuf]) <= MaxBytes
    PROVE  LET z == Flush(t)
           IN  /\ Good(z, kind) /\ Line(z, w, e + Len(t.mem[t.obuf])) /\ z.mem[z.obuf] = << >>
               /\ z.flush_cnt = t.flush_cnt /\ z.error = t.error /\ OwnLocks(z) = OwnLocks(t)
<1> DEFINE b == t.obuf
           v == AddObuf(t, b)
           g == e + Len(t.mem[b])
           z == Renewed(v)
<1>1. Flush(t) = z
  BY DEF Flush, Renewed
<1>2. Base(t) /\ Aside(t)
  BY DEF Good
<1>3. \A x \in Bufs : Len(t.mem[x]) <= BufSize
  BY DEF Good, Sizes, Room
<1>4. /\ Added(v, t, w, g) /\ \A x \in Bufs : Len(v.mem[x]) <= BufSize
      /\ Cardinality(ToSet(v.queue) \cup {v.obuf}) + 1 <= Cardinality(Bufs)
  BY <1>2, <1>3, AddObufOK
<1> HIDE DEF v, g
<1>5. Base(v) /\ Line(v, w, g) /\ OwnLocks(v) = OwnLocks(t) /\ v.error = t.error /\ v.flush_cnt = t.flush_cnt
  BY <1>4 DEF Added, Rest
<1>6. Good(z, "tcp") /\ SameQueue(z, v) /\ z.mem[z.obuf] = << >> /\ z.flush_cnt = v.flush_cnt
  BY <1>4, <1>5, RenewedOK
<1> HIDE DEF z
<1>7. z \in StateRec /\ Places(z) /\ z.error = v.error
  BY <1>6 DEF Good, Base, SameQueue
<1>8. OwnLocks(z) = OwnLocks(v) /\ Line(z, w, g)
  BY <1>5, <1>6, <1>7, SameQueueOK
<1> QED BY <1>1, <1>5, <1>6, <1>7, <1>8 DEF g

\* pipe_flush() of an open channel.
LEMMA FlushPipe ==
    ASSUME kind = "pipe", state = "open", NEW t, Good(t, kind), ~t.error, t.mem[t.obuf] # << >>,
           NEW w \in Nat, NEW e \in Nat, Line(t, w, e), RunFrom(t.mem[t.obuf], e),
           e + Len(t.mem[t.obuf]) <= MaxBytes
    PROVE  LET z == Flush(t)
           IN  /\ Good(z, kind) /\ Line(z, w, e + Len(t.mem[t.obuf])) /\ z.mem[z.obuf] = << >>
               /\ z.flush_cnt = t.flush_cnt /\ z.error = t.error /\ OwnLocks(z) = OwnLocks(t)
<1> DEFINE b == t.obuf
           m == t.mem[b]
           v == QueueAdd(t, m)
           g == e + Len(m)
           o == << >>
           z == Refilled(v, o, 0)
<1>1. Base(t) /\ Aside(t) /\ Fit(t)
  BY GoodFit
<1>2. m \in Seq(1..MaxBytes)
  BY <1>1, Fields DEF Base
<1>3. Added(v, t, w, g) /\ Aside(v) /\ Fit(v)
  BY <1>1, <1>2, QueueAddOK
<1>4. Flush(t) = [[v EXCEPT !.mem[b] = << >>] EXCEPT !.eom_cnt = 0]
  BY DEF Flush
<1> HIDE DEF v, g
<1>5. /\ Base(v) /\ Line(v, w, g) /\ OwnLocks(v) = OwnLocks(t) /\ v.error = t.error
      /\ v.flush_cnt = t.flush_cnt /\ v.obuf = b
  BY <1>3 DEF Added, Rest
<1>6. v \in StateRec
  BY <1>5 DEF Base
<1> HIDE DEF b
<1>7. Flush(t) = z
  BY <1>4, <1>5, <1>6 DEF Refilled, StateRec
<1>8. o \in Seq(1..MaxBytes) /\ Len(o) <= Room(kind) /\ 0 \in Nat
  BY ConstantAssumption DEF Room
<1> HIDE DEF o
<1>9. Good(z, kind) /\ SameQueue(z, v) /\ z.mem[z.obuf] = o /\ z.flush_cnt = v.flush_cnt
  BY <1>3, <1>5, <1>8, RefilledOK
<1> HIDE DEF z
<1>10. z \in StateRec /\ Places(z) /\ z.error = v.error
  BY <1>9 DEF Good, Base, SameQueue
<1>11. OwnLocks(z) = OwnLocks(v) /\ Line(z, w, g)
  BY <1>5, <1>9, <1>10, SameQueueOK
<1> QED BY <1>5, <1>7, <1>9, <1>10, <1>11 DEF g, m, b, o

\* tcp_flush_with_flags(), pipe_flush(): what was in obuf is at the end of the
\* queue, and obuf is empty.
LEMMA FlushOK ==
    ASSUME kind \in {"tcp", "pipe"}, state = "open", NEW t, Good(t, kind),
           NEW w \in Nat, NEW n \in 0..MaxBytes, NEW h, Carries(t, w, n), Locked(t, h)
    PROVE  LET z == Flush(t)
           IN  /\ Good(z, kind) /\ Carries(z, w, n) /\ Locked(z, h) /\ z.mem[z.obuf] = << >>
               /\ z.error = t.error
<1> DEFINE m == t.mem[t.obuf]
           e == n - Len(m)
           z == Flush(t)
<1>1. Base(t) /\ Aside(t) /\ t \in StateRec
  BY DEF Good, Base
<1>2. m \in Seq(1..MaxBytes) /\ Len(m) \in Nat /\ n \in Nat /\ n <= MaxBytes
  <2>1. m \in Seq(1..MaxBytes)
    BY <1>1, Fields
  <2> QED BY <2>1, ConstantAssumption
<1>3. CASE t.error
  <2>1. /\ Good(z, kind) /\ SameQueue(z, t) /\ z.mem[z.obuf] = << >> /\ z.flush_cnt = t.flush_cnt
    BY <1>3, FlushDrops
  <2> HIDE DEF z
  <2>2. z \in StateRec /\ Places(z) /\ z.error = t.error
    BY <2>1 DEF Good, Base, SameQueue
  <2>3. OwnLocks(z) = OwnLocks(t)
    BY <1>1, <2>1, <2>2, SameQueueOK
  <2> QED BY <1>3, <2>1, <2>2, <2>3 DEF Locked, Carries, z
<1>4. CASE ~t.error /\ m = << >>
  <2>1. z = t
    BY <1>4 DEF Flush
  <2> QED BY <1>4, <2>1
<1>5. CASE ~t.error /\ m # << >>
  <2>1. e \in Nat /\ Line(t, w, e) /\ RunFrom(m, e)
    BY <1>5 DEF Carries
  <2>2. e + Len(m) = n
    BY <1>2
  <2>3. /\ Good(z, kind) /\ Line(z, w, e + Len(m)) /\ z.mem[z.obuf] = << >>
        /\ z.flush_cnt = t.flush_cnt /\ z.error = t.error /\ OwnLocks(z) = OwnLocks(t)
    <3> HIDE DEF e, z
    <3>1. CASE kind = "tcp"
      BY <1>2, <1>5, <2>1, <2>2, <3>1, FlushTcp DEF z
    <3>2. CASE kind = "pipe"
      BY <1>2, <1>5, <2>1, <2>2, <3>2, FlushPipe DEF z
    <3> QED BY <3>1, <3>2
  <2> HIDE DEF z, e
  <2>4. n - Len(z.mem[z.obuf]) = n
    BY <1>2, <2>3
  <2>5. RunFrom(z.mem[z.obuf], n)
    BY <2>3 DEF RunFrom
  <2>6. Carries(z, w, n)
    BY <1>2, <2>2, <2>3, <2>4, <2>5 DEF Carries
  <2> QED BY <2>3, <2>6 DEF Locked, z
<1> QED BY <1>3, <1>4, <1>5

-----------------------------------------------------------------------------
(* Writing.                                                                 *)

\* z and u differ in their counters at most.
Counted(z, u) ==
    /\ z.mem = u.mem /\ z.pos = u.pos /\ z.queue = u.queue /\ z.pool = u.pool
    /\ z.obuf = u.obuf /\ z.wr = u.wr /\ z.error = u.error

\* The counters do not matter to the queue.
LEMMA CountedOK ==
    ASSUME NEW u, NEW k, Good(u, k), NEW z \in StateRec, Counted(z, u)
    PROVE  /\ Good(z, k)
           /\ \A w, e : Line(z, w, e) = Line(u, w, e)
           /\ \A w, n : Carries(u, w, n) => Carries(z, w, n)
           /\ z.lock_cnt = u.lock_cnt => OwnLocks(z) = OwnLocks(u)
           /\ z.lock_cnt = u.lock_cnt + 1 => OwnLocks(z) = OwnLocks(u) + 1
           /\ z.lock_cnt = u.lock_cnt - 1 => OwnLocks(z) = OwnLocks(u) - 1
<1>1. /\ z.mem = u.mem /\ z.pos = u.pos /\ z.queue = u.queue /\ z.pool = u.pool
      /\ z.obuf = u.obuf /\ z.wr = u.wr /\ z.error = u.error
  BY DEF Counted
<1>2. Base(u) /\ Aside(u) /\ Sizes(u, k) /\ u \in StateRec /\ Places(u) /\ InFlight(u)
  BY DEF Good, Base
<1>3. InFlight(z)
  BY <1>1, <1>2 DEF InFlight, Asks
<1>4. Places(z) /\ Aside(z)
  BY <1>1, <1>2 DEF Places, Aside
<1>5. Base(z)
  BY <1>1, <1>2, <1>3, <1>4 DEF Base
<1>6. Good(z, k)
  BY <1>1, <1>2, <1>4, <1>5 DEF Good, Sizes
<1>7. Blocks(z) = Blocks(u) /\ HeadSent(z) = HeadSent(u)
  BY <1>1 DEF Blocks, HeadSent
<1>8. \A w, e : Line(z, w, e) = Line(u, w, e)
  BY <1>7 DEF Line
<1>9. \A w, n : Carries(u, w, n) => Carries(z, w, n)
  BY <1>1, <1>8 DEF Carries
<1>10. u.lock_cnt \in Nat /\ Holds(u.wr # None) \in 0..1
  BY <1>2, Fields DEF Holds
<1>11. /\ OwnLocks(z) = z.lock_cnt - Holds(u.wr # None)
       /\ OwnLocks(u) = u.lock_cnt - Holds(u.wr # None)
  BY <1>1 DEF OwnLocks
<1> QED BY <1>6, <1>8, <1>9, <1>10, <1>11

\* One more byte in obuf.
Filled(u, byte) == [u EXCEPT !.mem[u.obuf] = Append(@, byte)]

\* What one more byte in obuf leaves alone.
LEMMA FilledOK ==
    ASSUME NEW u, NEW k \in {"tcp", "pipe"}, Good(u, k), Len(u.mem[u.obuf]) < Room(k),
           NEW byte \in 1..MaxBytes
    PROVE  LET v == Filled(u, byte)
           IN  /\ Good(v, k) /\ SameQueue(v, u) /\ v.obuf = u.obuf
               /\ v.mem[v.obuf] = Append(u.mem[u.obuf], byte) /\ v.flush_cnt = u.flush_cnt
<1> DEFINE m == u.mem[u.obuf]
           x == Append(m, byte)
           c == u.eom_cnt
           v == Filled(u, byte)
<1>1. Base(u) /\ Aside(u) /\ Fit(u) /\ u \in StateRec
  BY GoodFit DEF Base
<1>2. u.mem \in [Bufs -> Seq(1..MaxBytes)] /\ u.obuf \in Bufs /\ c \in Nat
  BY <1>1, Fields
<1>3. m \in Seq(1..MaxBytes)
  BY <1>2
<1>4. x \in Seq(1..MaxBytes) /\ Len(x) = Len(m) + 1 /\ Len(m) \in Nat
  <2> HIDE DEF m
  <2> QED BY <1>3
<1>5. Len(x) <= Room(k)
  <2>1. Room(k) \in Nat
    BY ConstantAssumption DEF Room
  <2> HIDE DEF x
  <2> QED BY <1>4, <2>1
<1>6. v = Refilled(u, x, c)
  BY <1>1 DEF Filled, Refilled, StateRec
<1> HIDE DEF v, x, c
<1>7. /\ Good(v, k) /\ SameQueue(v, u) /\ v.obuf = u.obuf /\ v.mem[v.obuf] = x
      /\ v.flush_cnt = u.flush_cnt
  BY <1>1, <1>2, <1>4, <1>5, <1>6, RefilledOK
<1> QED BY <1>7 DEF v, x

\* The end of a message: a posted flush has one lock.
LEMMA EndOfMessageOK ==
    ASSUME NEW v, NEW k, Good(v, k), NEW h \in Nat, Locked(v, h)
    PROVE  LET z == EndOfMessage(v)
           IN  /\ Good(z, k) /\ Counted(z, v) /\ Locked(z, h) /\ z.lock_cnt >= v.lock_cnt
               /\ \A w, n : Carries(v, w, n) => Carries(z, w, n)
               /\ \A w, e : Line(z, w, e) = Line(v, w, e)
<1> DEFINE z == EndOfMessage(v)
           f == v.flush_cnt
           l == v.lock_cnt
           c == v.eom_cnt + 1
<1>1. v \in StateRec
  BY DEF Good, Base
<1>2. f \in 0..2 /\ l \in Nat /\ v.eom_cnt \in Nat
  BY <1>1, Fields
<1>3. OwnLocks(v) = h + Holds(f > 0)
  BY DEF Locked
<1>4. CASE ~AsksFlush(f)
  <2>1. z = [v EXCEPT !.eom_cnt = c]
    BY <1>4 DEF EndOfMessage
  <2>2. c \in Nat
    BY <1>2
  <2> HIDE DEF z, c
  <2>3. z \in StateRec /\ Counted(z, v) /\ z.flush_cnt = f /\ z.lock_cnt = l
    BY <1>1, <2>1, <2>2 DEF StateRec, Counted
  <2>4. OwnLocks(z) = OwnLocks(v)
    BY <2>3, CountedOK
  <2>5. Locked(z, h) /\ z.lock_cnt >= l
    BY <1>2, <1>3, <2>3, <2>4 DEF Locked
  <2> QED BY <2>3, <2>5, CountedOK DEF z
<1>5. CASE AsksFlush(f)
  <2> DEFINE k1 == IF f = 0 THEN l + 1 ELSE l
             f1 == f + 1
  <2>1. z = [v EXCEPT !.eom_cnt = c, !.flush_cnt = f1, !.lock_cnt = k1]
    BY <1>1, <1>5 DEF EndOfMessage, StateRec
  <2>2. c \in Nat /\ f1 \in 0..2 /\ k1 \in Nat
    BY <1>2, <1>5 DEF AsksFlush
  <2> HIDE DEF z, c, k1, f1
  <2>3. z \in StateRec /\ Counted(z, v) /\ z.flush_cnt = f1 /\ z.lock_cnt = k1
    BY <1>1, <2>1, <2>2 DEF StateRec, Counted
  <2>4. OwnLocks(z) = OwnLocks(v) + (IF f = 0 THEN 1 ELSE 0)
    <3>1. OwnLocks(v) \in Int
      BY <1>2 DEF OwnLocks, Holds
    <3>2. CASE f = 0
      <4>1. z.lock_cnt = v.lock_cnt + 1
        BY <2>3, <3>2 DEF k1
      <4> QED BY <2>3, <3>1, <3>2, <4>1, CountedOK
    <3>3. CASE f # 0
      <4>1. z.lock_cnt = v.lock_cnt
        BY <2>3, <3>3 DEF k1
      <4> QED BY <2>3, <3>1, <3>3, <4>1, CountedOK
    <3> QED BY <3>2, <3>3
  <2>5. Locked(z, h)
    <3>1. Holds(f1 > 0) = 1 /\ Holds(f > 0) = (IF f = 0 THEN 0 ELSE 1)
      BY <1>2 DEF f1, Holds
    <3> QED BY <1>3, <2>3, <2>4, <3>1 DEF Locked
  <2>6. z.lock_cnt >= l
    BY <1>2, <2>3 DEF k1
  <2> QED BY <2>3, <2>5, <2>6, CountedOK DEF z
<1> QED BY <1>4, <1>5

\* One byte more behind the bytes of an open channel.
LEMMA PutOK ==
    ASSUME kind \in {"tcp", "pipe"}, state = "open", NEW t, Good(t, kind),
           NEW w \in Nat, NEW n \in Nat, n + 1 <= MaxBytes, NEW h \in Nat,
           Carries(t, w, n), Locked(t, h), NEW eom \in BOOLEAN
    PROVE  LET z == Put(t, n + 1, eom)
           IN  Good(z, kind) /\ Carries(z, w, n + 1) /\ Locked(z, h) /\ z.error = t.error
<1> DEFINE u == IF Len(t.mem[t.obuf]) = Capacity THEN Flush(t) ELSE t
           v == Filled(u, n + 1)
           m == u.mem[u.obuf]
           z == Put(t, n + 1, eom)
<1>1. Capacity = Room(kind) /\ Room(kind) \in Nat \ {0} /\ MaxBytes \in Nat
  BY ConstantAssumption DEF Capacity, Room
<1>2. z = IF eom THEN EndOfMessage(v) ELSE v
  BY DEF Put, Filled
<1>3. /\ Good(u, kind) /\ Carries(u, w, n) /\ Locked(u, h) /\ u.error = t.error
      /\ Len(m) < Room(kind)
  <2>1. CASE Len(t.mem[t.obuf]) = Capacity
    <3>1. u = Flush(t) /\ n \in 0..MaxBytes
      BY <1>1, <2>1
    <3>2. /\ Good(u, kind) /\ Carries(u, w, n) /\ Locked(u, h) /\ u.error = t.error /\ m = << >>
      BY <3>1, FlushOK
    <3> QED BY <1>1, <3>2
  <2>2. CASE Len(t.mem[t.obuf]) # Capacity
    <3>1. u = t
      BY <2>2
    <3>2. Len(t.mem[t.obuf]) <= Room(kind)
      BY GoodFit
    <3>3. Len(t.mem[t.obuf]) \in Nat
      <4>1. t.mem[t.obuf] \in Seq(1..MaxBytes)
        BY Fields DEF Good, Base
      <4> QED BY <4>1
    <3> QED BY <1>1, <2>2, <3>1, <3>2, <3>3
  <2> QED BY <2>1, <2>2
<1> HIDE DEF u
<1>4. n + 1 \in 1..MaxBytes /\ m \in Seq(1..MaxBytes)
  <2>1. m \in Seq(1..MaxBytes)
    BY <1>3, Fields DEF Good, Base
  <2> QED BY <1>1, <2>1
<1>5. /\ Good(v, kind) /\ SameQueue(v, u) /\ v.obuf = u.obuf
      /\ v.mem[v.obuf] = Append(m, n + 1) /\ v.flush_cnt = u.flush_cnt
  BY <1>3, <1>4, FilledOK
<1> HIDE DEF v
<1>6. v \in StateRec /\ Places(v) /\ Base(u) /\ v.error = u.error
  BY <1>3, <1>5 DEF Good, Base, SameQueue
<1>7. OwnLocks(v) = OwnLocks(u) /\ \A x, y : Line(v, x, y) = Line(u, x, y)
  BY <1>5, <1>6, SameQueueOK
<1>8. Locked(v, h)
  BY <1>3, <1>5, <1>7 DEF Locked
<1>9. Carries(v, w, n + 1)
  <2> SUFFICES ASSUME ~v.error
               PROVE  LET e == (n + 1) - Len(v.mem[v.obuf])
                      IN  e \in Nat /\ Line(v, w, e) /\ RunFrom(v.mem[v.obuf], e)
    BY DEF Carries
  <2> DEFINE e == n - Len(m)
             x == Append(m, n + 1)
  <2>1. e \in Nat /\ Line(u, w, e) /\ RunFrom(m, e)
    BY <1>3, <1>6 DEF Carries
  <2> HIDE DEF m
  <2>2. /\ Len(m) \in Nat /\ Len(x) = Len(m) + 1 /\ x[Len(m) + 1] = n + 1
        /\ \A i \in 1..Len(m) : x[i] = m[i]
    BY <1>4
  <2> HIDE DEF x
  <2>3. (n + 1) - Len(x) = e
    BY <2>2
  <2>4. e + Len(m) = n
    BY <2>1, <2>2
  <2> HIDE DEF e
  <2>5. ASSUME NEW i \in 1..Len(x) PROVE x[i] = e + i
    <3>1. i \in 1..Len(m) \/ i = Len(m) + 1
      BY <2>2
    <3>2. CASE i \in 1..Len(m)
      BY <2>1, <2>2, <3>2 DEF RunFrom
    <3>3. CASE i = Len(m) + 1
      BY <2>1, <2>2, <2>4, <3>3
    <3> QED BY <3>1, <3>2, <3>3
  <2>6. RunFrom(x, e)
    BY <2>5 DEF RunFrom
  <2> QED BY <1>5, <1>7, <2>1, <2>3, <2>6 DEF x, m
<1>10. CASE eom
  <2>1. z = EndOfMessage(v)
    BY <1>2, <1>10
  <2>2. Good(z, kind) /\ Counted(z, v) /\ Locked(z, h) /\ Carries(z, w, n + 1)
    BY <1>5, <1>8, <1>9, <2>1, EndOfMessageOK
  <2> QED BY <1>3, <1>6, <2>2 DEF Counted
<1>11. CASE ~eom
  BY <1>2, <1>3, <1>5, <1>6, <1>8, <1>9, <1>11
<1> QED BY <1>10, <1>11

\* A closed channel takes a byte, which does not get to the queue.
LEMMA PutDrops ==
    ASSUME kind \in {"tcp", "pipe"}, state # "open", NEW t, Good(t, kind),
           NEW byte \in 1..MaxBytes, NEW h \in Nat, Locked(t, h), NEW eom \in BOOLEAN
    PROVE  LET z == Put(t, byte, eom)
           IN  /\ Good(z, kind) /\ Locked(z, h) /\ z.error = t.error /\ z.queue = t.queue
               /\ z.lock_cnt >= t.lock_cnt
               /\ \A w, e : Line(z, w, e) = Line(t, w, e)
<1> DEFINE u == IF Len(t.mem[t.obuf]) = Capacity THEN Flush(t) ELSE t
           v == Filled(u, byte)
           m == u.mem[u.obuf]
           z == Put(t, byte, eom)
<1>1. Capacity = Room(kind) /\ Room(kind) \in Nat \ {0}
  BY ConstantAssumption DEF Capacity, Room
<1>2. z = IF eom THEN EndOfMessage(v) ELSE v
  BY DEF Put, Filled
<1>3. Good(u, kind) /\ SameQueue(u, t) /\ u.flush_cnt = t.flush_cnt /\ Len(m) < Room(kind)
  <2>1. CASE Len(t.mem[t.obuf]) = Capacity
    <3>1. u = Flush(t)
      BY <2>1
    <3>2. Good(u, kind) /\ SameQueue(u, t) /\ u.flush_cnt = t.flush_cnt /\ m = << >>
      BY <3>1, FlushDrops
    <3> QED BY <1>1, <3>2
  <2>2. CASE Len(t.mem[t.obuf]) # Capacity
    <3>1. u = t
      BY <2>2
    <3>2. Len(t.mem[t.obuf]) <= Room(kind)
      BY GoodFit
    <3>3. Len(t.mem[t.obuf]) \in Nat
      <4>1. t.mem[t.obuf] \in Seq(1..MaxBytes)
        BY Fields DEF Good, Base
      <4> QED BY <4>1
    <3>4. SameQueue(u, t)
      BY <3>1 DEF SameQueue
    <3> QED BY <1>1, <2>2, <3>1, <3>2, <3>3, <3>4
  <2> QED BY <2>1, <2>2
<1> HIDE DEF u
<1>4. Good(v, kind) /\ SameQueue(v, u) /\ v.flush_cnt = u.flush_cnt
  BY <1>3, FilledOK
<1> HIDE DEF v
<1>5. /\ v \in StateRec /\ Places(v) /\ Base(u) /\ u \in StateRec /\ Places(u) /\ Base(t)
      /\ v.error = t.error /\ v.queue = t.queue /\ v.lock_cnt = t.lock_cnt /\ t.lock_cnt \in Nat
  BY <1>3, <1>4, Fields DEF Good, Base, SameQueue
<1>6. OwnLocks(u) = OwnLocks(t) /\ \A x, y : Line(u, x, y) = Line(t, x, y)
  BY <1>3, <1>5, SameQueueOK
<1>7. OwnLocks(v) = OwnLocks(u) /\ \A x, y : Line(v, x, y) = Line(u, x, y)
  BY <1>4, <1>5, SameQueueOK
<1>8. Locked(v, h)
  BY <1>3, <1>4, <1>6, <1>7 DEF Locked
<1>9. CASE eom
  <2>1. z = EndOfMessage(v)
    BY <1>2, <1>9
  <2> HIDE DEF z
  <2>2. /\ Good(z, kind) /\ Counted(z, v) /\ Locked(z, h) /\ z.lock_cnt >= v.lock_cnt
        /\ \A w, e : Line(z, w, e) = Line(v, w, e)
    BY <1>4, <1>8, <2>1, EndOfMessageOK
  <2> QED BY <1>5, <1>6, <1>7, <2>2 DEF Counted, z
<1>10. CASE ~eom
  <2>1. z = v
    BY <1>2, <1>10
  <2> QED BY <1>4, <1>5, <1>6, <1>7, <1>8, <2>1
<1> QED BY <1>9, <1>10

-----------------------------------------------------------------------------
(* The invariant and the steps of the channel.                              *)

\* n bytes more are written.
LEMMA WrittenOK ==
    ASSUME VarTypes, Ghosts, NEW n \in Nat, cnt + n <= MaxBytes
    PROVE  /\ Bytes(n) \in Seq(1..MaxBytes) /\ Len(Bytes(n)) = n /\ RunFrom(Bytes(n), cnt)
           /\ Written(n) \in Seq(1..MaxBytes) /\ RunFrom(Written(n), 0)
           /\ Len(Written(n)) = Len(written) + (IF state = "open" THEN n ELSE 0)
           /\ \A i \in 1..Len(written) : Written(n)[i] = written[i]
<1> DEFINE b == Bytes(n)
           x == written \o b
<1>1. written \in Seq(1..MaxBytes) /\ Len(written) \in Nat /\ cnt \in Nat /\ RunFrom(written, 0)
  BY DEF VarTypes, Ghosts
<1>2. b \in [1..n -> 1..MaxBytes] /\ \A i \in 1..n : b[i] = cnt + i
  BY <1>1, ConstantAssumption DEF Bytes
<1>3. b \in Seq(1..MaxBytes) /\ Len(b) = n
  BY <1>2, FunctionIsList
<1>4. RunFrom(b, cnt)
  BY <1>2, <1>3 DEF RunFrom
<1> HIDE DEF b
<1>5. /\ x \in Seq(1..MaxBytes) /\ Len(x) = Len(written) + n
      /\ \A i \in 1..(Len(written) + n) :
           /\ i <= Len(written) => x[i] = written[i]
           /\ i > Len(written) => x[i] = b[i - Len(written)] /\ i - Len(written) \in 1..n
  BY <1>1, <1>3, ConcatEntries
<1> HIDE DEF x
<1>6. CASE state = "open"
  <2>1. Written(n) = x /\ cnt = Len(written)
    BY <1>6 DEF Written, Ghosts, x, b
  <2>2. \A i \in 1..Len(written) : x[i] = written[i]
    BY <1>1, <1>5
  <2>3. ASSUME NEW i \in 1..Len(x) PROVE x[i] = 0 + i
    <3>1. CASE i <= Len(written)
      <4>1. i \in 1..Len(written)
        BY <1>1, <3>1
      <4> QED BY <1>1, <2>2, <4>1 DEF RunFrom
    <3>2. CASE i > Len(written)
      <4>1. i \in 1..(Len(written) + n)
        BY <1>5
      <4>2. x[i] = b[i - Len(written)] /\ i - Len(written) \in 1..n
        BY <1>5, <3>2, <4>1
      <4>3. b[i - Len(written)] = cnt + (i - Len(written))
        BY <1>2, <4>2
      <4> QED BY <1>1, <2>1, <4>2, <4>3
    <3> QED BY <1>1, <3>1, <3>2
  <2>4. RunFrom(x, 0)
    BY <2>3 DEF RunFrom
  <2> QED BY <1>3, <1>4, <1>5, <1>6, <2>1, <2>2, <2>4 DEF b
<1>7. CASE state # "open"
  BY <1>1, <1>3, <1>4, <1>7 DEF Written, b
<1> QED BY <1>6, <1>7

\* An open channel holds what was written and not sent.
LEMMA OpenCarries ==
    ASSUME Inv, state = "open", ~splicing
    PROVE  /\ Good(s, kind) /\ Carries(s, Len(wire), cnt) /\ Locked(s, 1)
           /\ kind \in {"tcp", "pipe"} /\ Len(wire) \in Nat /\ cnt \in Nat
<1> DEFINE m == s.mem[s.obuf]
<1>1. Good(s, kind) /\ kind \in {"tcp", "pipe"} /\ Len(wire) \in Nat /\ cnt \in Nat /\ s \in StateRec
  BY DEF Inv, VarTypes, Good, Base
<1>2. m \in Seq(1..MaxBytes) /\ Len(m) \in Nat
  <2>1. m \in Seq(1..MaxBytes)
    BY <1>1, Fields
  <2> QED BY <2>1
<1>3. Locked(s, 1)
  <2>1. reading
    BY DEF Inv, Control
  <2>2. OwnLocks(s) = Holds(reading) + Holds(s.flush_cnt > 0)
    BY DEF Inv, Control
  <2>3. Holds(reading) = 1
    BY <2>1 DEF Holds
  <2> QED BY <2>2, <2>3 DEF Locked
<1>4. ASSUME ~s.error PROVE cnt - Len(m) \in Nat /\ Line(s, Len(wire), cnt - Len(m)) /\ RunFrom(m, cnt - Len(m))
  <2>1. Line(s, Len(wire), EndOfQueue) /\ RunFrom(m, cnt - Len(m))
    BY <1>4 DEF Inv, Output
  <2>2. EndOfQueue = cnt - Len(m)
    BY <1>1, <1>2 DEF EndOfQueue, Holds
  <2>3. cnt - Len(m) \in Nat
    <3>1. CASE m = << >>
      BY <1>1, <3>1
    <3>2. CASE m # << >>
      <4> HIDE DEF m
      <4>a. ASSUME NEW S, NEW x \in Seq(S), x # << >> PROVE 1 \in 1..Len(x) /\ x[1] \in S
        BY <4>a
      <4>1. 1 \in 1..Len(m) /\ m[1] \in 1..MaxBytes
        BY <1>2, <3>2, <4>a
      <4>2. m[1] = (cnt - Len(m)) + 1
        BY <2>1, <4>1 DEF RunFrom
      <4> QED BY <1>1, <1>2, <4>1, <4>2
    <3> QED BY <3>1, <3>2
  <2> QED BY <2>1, <2>2, <2>3
<1> QED BY <1>1, <1>3, <1>4 DEF Carries

\* A state with a lock besides that of the request has a positive lock count.
LEMMA LockedPositive ==
    ASSUME NEW t \in StateRec, NEW h \in Nat, Locked(t, h)
    PROVE  /\ t.lock_cnt = h + Holds(t.flush_cnt > 0) + Holds(t.wr # None)
           /\ h > 0 => t.lock_cnt # 0
<1>1. t.lock_cnt \in Nat /\ Holds(t.flush_cnt > 0) \in 0..1 /\ Holds(t.wr # None) \in 0..1
  BY Fields DEF Holds
<1>2. t.lock_cnt - Holds(t.wr # None) = h + Holds(t.flush_cnt > 0)
  BY DEF Locked, OwnLocks
<1> QED BY <1>1, <1>2

\* What was written is held: the step of a channel that stays open.
LEMMA OpenStep ==
    ASSUME Inv, state = "open", ~splicing, UNCHANGED <<kind, state, wr_shut, wire, reading, splicing>>,
           NEW n \in Nat, cnt' = cnt + n, cnt + n < MaxBytes, written' = Written(n),
           Good(s', kind), Carries(s', Len(wire), cnt + n), Locked(s', 1)
    PROVE  Inv'
<1>1. VarTypes /\ Ghosts /\ Control
  BY DEF Inv
<1>2. /\ kind \in {"tcp", "pipe"} /\ cnt \in Nat /\ wire \in Seq(1..MaxBytes) /\ Len(wire) \in Nat
      /\ Len(written) \in Nat /\ MaxBytes \in Nat /\ reading /\ ~wr_shut
  BY <1>1, ConstantAssumption DEF VarTypes, Control
<1>3. /\ written' \in Seq(1..MaxBytes) /\ RunFrom(written', 0) /\ Len(written') = Len(written) + n
  BY <1>1, <1>2, WrittenOK
<1>4. VarTypes'
  BY <1>1, <1>2, <1>3 DEF VarTypes
<1>5. cnt = Len(written) /\ Len(wire) <= Len(written) /\ RunFrom(wire, 0)
  BY <1>1 DEF Ghosts
<1>6. Len(wire) <= Len(written') /\ cnt' = Len(written') /\ cnt' < MaxBytes
  BY <1>2, <1>3, <1>5
<1>7. Ghosts'
  BY <1>2, <1>3, <1>5, <1>6 DEF Ghosts
<1> DEFINE m == s'.mem[s'.obuf]
           e == (cnt + n) - Len(m)
<1>8. s' \in StateRec
  BY DEF Good, Base
<1>9. ASSUME ~s'.error
      PROVE  Line(s', Len(wire'), EndOfQueue') /\ RunFrom(m, cnt' - Len(m))
  <2>1. e \in Nat /\ Line(s', Len(wire), e) /\ RunFrom(m, e)
    BY <1>9 DEF Carries
  <2>2. EndOfQueue' = e - 0
    BY <1>2 DEF EndOfQueue, Holds
  <2>3. e - 0 = e
    BY <2>1
  <2> QED BY <2>1, <2>2, <2>3
<1>10. Output'
  BY <1>9 DEF Output
<1>11. s'.lock_cnt # 0
  BY <1>8, LockedPositive
<1>12. OwnLocks(s') = Holds(reading) + Holds(s'.flush_cnt > 0)
  <2>1. Holds(reading) = 1
    BY <1>2 DEF Holds
  <2> QED BY <2>1 DEF Locked
<1>13. Control'
  BY <1>2, <1>11, <1>12 DEF Control
<1> QED BY <1>4, <1>7, <1>10, <1>13 DEF Inv

\* tcp_write_stream(), pipe_write_stream().
LEMMA WriteStreamInv ==
    ASSUME Inv, NEW eom \in BOOLEAN, WriteStream(eom)
    PROVE  Inv' /\ s'.error = s.error
<1>1. /\ ~splicing /\ cnt + 1 < MaxBytes /\ cnt' = cnt + 1 /\ written' = Written(1)
      /\ s' = Put(s, cnt + 1, eom) /\ UNCHANGED <<kind, state, wr_shut, wire, reading, splicing>>
      /\ state \in {"open", "disconnected"}
  BY DEF WriteStream
<1>2. MaxBytes \in Nat /\ cnt \in Nat /\ kind \in {"tcp", "pipe"} /\ Good(s, kind)
  BY ConstantAssumption DEF Inv, VarTypes
<1>3. CASE state = "open"
  <2>1. Good(s, kind) /\ Carries(s, Len(wire), cnt) /\ Locked(s, 1) /\ Len(wire) \in Nat
    BY <1>1, <1>3, OpenCarries
  <2>2. Good(s', kind) /\ Carries(s', Len(wire), cnt + 1) /\ Locked(s', 1) /\ s'.error = s.error
    <3>1. cnt + 1 <= MaxBytes
      BY <1>1, <1>2
    <3> QED BY <1>1, <1>2, <1>3, <2>1, <3>1, PutOK
  <2> QED BY <1>1, <1>3, <2>2, OpenStep
<1>4. CASE state = "disconnected"
  <2> DEFINE h == Holds(reading)
  <2>1. h \in Nat /\ Locked(s, h) /\ VarTypes /\ Ghosts
    BY DEF Inv, Control, Locked, Holds
  <2>2. cnt + 1 \in 1..MaxBytes /\ state # "open" /\ cnt + 1 <= MaxBytes
    BY <1>1, <1>2, <1>4
  <2> HIDE DEF h
  <2>3. /\ Good(s', kind) /\ Locked(s', h) /\ s'.error = s.error /\ s'.queue = s.queue
        /\ s'.lock_cnt >= s.lock_cnt /\ \A w, e : Line(s', w, e) = Line(s, w, e)
    BY <1>1, <1>2, <2>1, <2>2, PutDrops
  <2>4. written' = written
    BY <1>1, <2>2 DEF Written
  <2>5. VarTypes'
    BY <1>1, <2>1, <2>2, <2>4 DEF VarTypes
  <2>6. Ghosts'
    <3>1. Len(written) \in Nat /\ Len(written) <= cnt
      BY <2>1 DEF VarTypes, Ghosts
    <3>2. Len(written) <= cnt + 1
      BY <1>2, <3>1
    <3> QED BY <1>1, <2>1, <2>2, <2>4, <3>2 DEF Ghosts
  <2>7. Output'
    <3>1. EndOfQueue' = Len(written) /\ EndOfQueue = Len(written)
      BY <1>1, <2>2, <2>4 DEF EndOfQueue
    <3> QED BY <1>1, <2>2, <2>3, <3>1 DEF Inv, Output
  <2>8. Control'
    <3>1. s.lock_cnt # 0 /\ s.lock_cnt \in Nat /\ s'.lock_cnt \in Nat
      BY <1>2, <2>3, <1>4, Fields DEF Inv, Control, Good, Base
    <3>2. s'.lock_cnt # 0
      BY <2>3, <3>1
    <3>3. OwnLocks(s') = Holds(reading) + Holds(s'.flush_cnt > 0)
      BY <2>3 DEF Locked, h
    <3> QED BY <1>1, <1>4, <2>3, <3>2, <3>3 DEF Inv, Control
  <2> QED BY <1>1, <2>3, <2>5, <2>6, <2>7, <2>8 DEF Inv
<1> QED BY <1>1, <1>3, <1>4

\* output_queue_add() of a block, behind an empty obuf.
LEMMA BlockOK ==
    ASSUME NEW u, Good(u, "pipe"), u.mem[u.obuf] = << >>, NEW w \in Nat, NEW k \in Nat,
           Carries(u, w, k), NEW h, Locked(u, h),
           NEW bytes \in Seq(1..MaxBytes), RunFrom(bytes, k), k + Len(bytes) <= MaxBytes
    PROVE  LET z == QueueAdd(u, bytes)
           IN  /\ Good(z, "pipe") /\ Carries(z, w, k + Len(bytes)) /\ Locked(z, h)
               /\ z.error = u.error
<1> DEFINE z == QueueAdd(u, bytes)
           g == k + Len(bytes)
<1>1. CASE u.error
  <2>1. z = u
    BY <1>1 DEF QueueAdd
  <2> QED BY <1>1, <2>1 DEF Carries
<1>2. CASE ~u.error
  <2>1. Base(u) /\ Aside(u) /\ Fit(u)
    BY GoodFit
  <2>2. Line(u, w, k)
    <3>1. k - Len(u.mem[u.obuf]) = k
      OBVIOUS
    <3> QED BY <1>2, <3>1 DEF Carries
  <2>3. Added(z, u, w, g) /\ Aside(z) /\ Fit(z) /\ z.mem[u.obuf] = << >>
    BY <1>2, <2>1, <2>2, QueueAddOK
  <2> HIDE DEF z
  <2>4. /\ Base(z) /\ Line(z, w, g) /\ z.obuf = u.obuf /\ z.flush_cnt = u.flush_cnt
        /\ z.error = u.error /\ OwnLocks(z) = OwnLocks(u)
    BY <2>3 DEF Added, Rest
  <2>5. Sizes(z, "pipe")
    <3>1. Len(<< >>) <= Room("pipe")
      BY ConstantAssumption DEF Room
    <3> QED BY <2>3, <2>4, <3>1 DEF Fit, Sizes
  <2>6. g \in Nat /\ g - Len(z.mem[z.obuf]) = g /\ RunFrom(z.mem[z.obuf], g)
    <3>1. g \in Nat
      OBVIOUS
    <3> HIDE DEF g
    <3>2. z.mem[z.obuf] = << >>
      BY <2>3, <2>4
    <3> QED BY <3>1, <3>2 DEF RunFrom
  <2>7. Carries(z, w, g)
    <3> HIDE DEF g
    <3> QED BY <2>4, <2>6 DEF Carries
  <2> QED BY <2>3, <2>4, <2>5, <2>7 DEF Locked, Good, z
<1> QED BY <1>1, <1>2

\* pipe_write_block_stream().
LEMMA PipeWriteBlockInv ==
    ASSUME Inv, NEW n \in 1..MaxBytes, PipeWriteBlock(n)
    PROVE  Inv' /\ s'.error = s.error
<1> DEFINE t == Put(s, cnt + 1, FALSE)
           u == Flush(t)
           b == Bytes(n + 1)
           w == Len(wire)
<1>1. /\ kind = "pipe" /\ state = "open" /\ cnt + n + 1 < MaxBytes /\ cnt' = cnt + n + 1
      /\ written' = Written(n + 1) /\ s' = QueueAdd(u, Tail(b))
      /\ UNCHANGED <<kind, state, wr_shut, wire, reading, splicing>>
  BY DEF PipeWriteBlock
<1>2. ~splicing /\ VarTypes /\ Ghosts
  BY <1>1 DEF Inv, Control, VarTypes
<1>3. Good(s, kind) /\ Carries(s, w, cnt) /\ Locked(s, 1) /\ w \in Nat /\ cnt \in Nat
  BY <1>1, <1>2, OpenCarries
<1>4. MaxBytes \in Nat /\ n \in Nat /\ cnt + 1 <= MaxBytes /\ cnt + 1 \in 0..MaxBytes /\ n >= 1
  BY <1>1, <1>3, ConstantAssumption
<1> HIDE DEF w
<1>5. Good(t, kind) /\ Carries(t, w, cnt + 1) /\ Locked(t, 1) /\ t.error = s.error
  <2>1. FALSE \in BOOLEAN /\ 1 \in Nat
    OBVIOUS
  <2> QED BY <1>1, <1>3, <1>4, <2>1, PutOK
<1> HIDE DEF t
<1>6. /\ Good(u, kind) /\ Carries(u, w, cnt + 1) /\ Locked(u, 1) /\ u.mem[u.obuf] = << >>
      /\ u.error = t.error
  BY <1>1, <1>3, <1>4, <1>5, FlushOK
<1> HIDE DEF u
<1>7. b \in Seq(1..MaxBytes) /\ Len(b) = n + 1 /\ RunFrom(b, cnt)
  <2>1. n + 1 \in Nat /\ cnt + (n + 1) <= MaxBytes
    BY <1>1, <1>3, <1>4
  <2> QED BY <1>2, <2>1, WrittenOK
<1> HIDE DEF b
<1>8. /\ Tail(b) \in Seq(1..MaxBytes) /\ Len(Tail(b)) = n /\ RunFrom(Tail(b), cnt + 1)
  <2>1. b # << >>
    BY <1>4, <1>7
  <2>2. Tail(b) \in Seq(1..MaxBytes) /\ Len(Tail(b)) = n /\ \A i \in 1..n : Tail(b)[i] = b[i + 1]
    BY <1>4, <1>7, <2>1
  <2>3. ASSUME NEW i \in 1..n PROVE Tail(b)[i] = (cnt + 1) + i
    <3>1. i + 1 \in 1..Len(b)
      BY <1>4, <1>7
    <3>2. b[i + 1] = cnt + (i + 1)
      BY <1>7, <3>1 DEF RunFrom
    <3> QED BY <1>3, <2>2, <3>2
  <2> QED BY <2>2, <2>3 DEF RunFrom
<1>9. cnt + 1 \in Nat /\ (cnt + 1) + n <= MaxBytes /\ (cnt + 1) + n = cnt + (n + 1)
  BY <1>1, <1>3, <1>4
<1>10. Good(s', kind) /\ Carries(s', w, cnt + (n + 1)) /\ Locked(s', 1) /\ s'.error = u.error
  BY <1>1, <1>3, <1>6, <1>8, <1>9, BlockOK
<1>11. n + 1 \in Nat /\ cnt' = cnt + (n + 1) /\ cnt + (n + 1) < MaxBytes
  BY <1>1, <1>3, <1>4
<1> QED BY <1>1, <1>2, <1>5, <1>6, <1>10, <1>11, OpenStep DEF w

\* An empty queue ends where the wire does.
LEMMA EmptyLine ==
    ASSUME NEW t \in StateRec, t.queue = << >>, NEW w \in Nat, NEW e \in Int
    PROVE  Line(t, w, e) <=> e = w
<1>1. Blocks(t) \in Seq(Seq(Nat)) /\ Len(Blocks(t)) = 0
  BY BlocksTyped
<1>2. Blocks(t) = << >> /\ HeadSent(t) = 0 /\ w - 0 = w
  BY <1>1 DEF HeadSent
<1>3. Line(t, w, e) <=> Chain(<< >>, w, e)
  BY <1>2 DEF Line
<1> QED BY <1>3 DEF Chain, InOrder, Ascending

\* A byte and a flush of an open channel.
LEMMA PutAndFlush ==
    ASSUME Inv, state = "open", ~splicing, NEW eom \in BOOLEAN
    PROVE  LET z == Flush(Put(s, cnt + 1, eom))
           IN  /\ Good(z, kind) /\ Carries(z, Len(wire), cnt + 1) /\ Locked(z, 1)
               /\ z.mem[z.obuf] = << >> /\ z.error = s.error
               /\ ~z.error => Line(z, Len(wire), cnt + 1)
<1> DEFINE t == Put(s, cnt + 1, eom)
           z == Flush(t)
           w == Len(wire)
<1>1. /\ Good(s, kind) /\ Carries(s, w, cnt) /\ Locked(s, 1) /\ w \in Nat /\ cnt \in Nat
      /\ kind \in {"tcp", "pipe"}
  BY OpenCarries
<1>2. cnt < MaxBytes /\ MaxBytes \in Nat
  BY ConstantAssumption DEF Inv, Ghosts
<1>3. cnt + 1 <= MaxBytes /\ cnt + 1 \in 0..MaxBytes /\ 1 \in Nat
  BY <1>1, <1>2
<1> HIDE DEF w
<1>4. Good(t, kind) /\ Carries(t, w, cnt + 1) /\ Locked(t, 1) /\ t.error = s.error
  BY <1>1, <1>3, PutOK
<1> HIDE DEF t
<1>5. /\ Good(z, kind) /\ Carries(z, w, cnt + 1) /\ Locked(z, 1) /\ z.mem[z.obuf] = << >>
      /\ z.error = t.error
  BY <1>1, <1>3, <1>4, FlushOK
<1> HIDE DEF z
<1>6. (cnt + 1) - Len(z.mem[z.obuf]) = cnt + 1
  BY <1>1, <1>5
<1>7. ~z.error => Line(z, w, cnt + 1)
  BY <1>5, <1>6 DEF Carries
<1> QED BY <1>4, <1>5, <1>7 DEF z, t, w

\* tcp_splice_block_stream() up to the wait.
LEMMA SpliceStartInv ==
    ASSUME Inv, SpliceStart
    PROVE  Inv' /\ s'.error = s.error
<1>1. /\ kind = "tcp" /\ state = "open" /\ ~splicing /\ cnt + 2 < MaxBytes /\ cnt' = cnt + 2
      /\ written' = Written(2) /\ s' = Flush(Put(s, cnt + 1, FALSE)) /\ splicing' = TRUE
      /\ UNCHANGED <<kind, state, wr_shut, wire, reading>>
  BY DEF SpliceStart
<1>2. /\ Good(s', kind) /\ Locked(s', 1) /\ s'.mem[s'.obuf] = << >> /\ s'.error = s.error
      /\ ~s'.error => Line(s', Len(wire), cnt + 1)
  <2>1. FALSE \in BOOLEAN
    OBVIOUS
  <2> QED BY <1>1, <2>1, PutAndFlush
<1>3. VarTypes /\ Ghosts /\ Control
  BY DEF Inv
<1>4. /\ cnt \in Nat /\ Len(wire) \in Nat /\ Len(written) \in Nat /\ MaxBytes \in Nat
      /\ reading /\ ~wr_shut
  BY <1>1, <1>3, ConstantAssumption DEF VarTypes, Control
<1>5. /\ written' \in Seq(1..MaxBytes) /\ RunFrom(written', 0) /\ Len(written') = Len(written) + 2
  <2>1. 2 \in Nat /\ cnt + 2 <= MaxBytes
    BY <1>1, <1>4
  <2> QED BY <1>1, <1>3, <2>1, WrittenOK
<1>6. VarTypes'
  <2>1. cnt + 2 \in 0..MaxBytes /\ TRUE \in BOOLEAN
    BY <1>1, <1>4
  <2> QED BY <1>1, <1>3, <1>5, <2>1 DEF VarTypes
<1>7. Ghosts'
  <2>1. cnt = Len(written) /\ Len(wire) <= Len(written) /\ RunFrom(wire, 0)
    BY <1>1, <1>3 DEF Ghosts
  <2>2. Len(wire) <= Len(written') /\ cnt' = Len(written') /\ Len(written') <= cnt'
    BY <1>1, <1>4, <1>5, <2>1
  <2> QED BY <1>1, <1>5, <2>1, <2>2 DEF Ghosts
<1>8. Output'
  <2>1. EndOfQueue' = cnt + 1
    <3>1. EndOfQueue' = ((cnt + 2) - Len(s'.mem[s'.obuf])) - 1
      <4>1. Holds(splicing') = 1
        BY <1>1 DEF Holds
      <4>2. EndOfQueue' = (cnt' - Len(s'.mem[s'.obuf])) - Holds(splicing')
        BY <1>1 DEF EndOfQueue
      <4> QED BY <1>1, <4>1, <4>2
    <3>2. Len(s'.mem[s'.obuf]) = 0
      BY <1>2
    <3> QED BY <1>4, <3>1, <3>2
  <2>2. \A x : RunFrom(s'.mem[s'.obuf], x)
    BY <1>2 DEF RunFrom
  <2> QED BY <1>1, <1>2, <2>1, <2>2 DEF Output
<1>9. Control'
  <2>1. s'.lock_cnt # 0
    BY <1>2, LockedPositive DEF Good, Base
  <2>2. OwnLocks(s') = Holds(reading) + Holds(s'.flush_cnt > 0)
    <3>1. Holds(reading) = 1
      BY <1>4 DEF Holds
    <3> QED BY <1>2, <3>1 DEF Locked
  <2> QED BY <1>1, <1>2, <1>4, <2>1, <2>2 DEF Control
<1> QED BY <1>1, <1>2, <1>6, <1>7, <1>8, <1>9 DEF Inv

\* send_eof_and_close().
LEMMA SendEofAndCloseInv ==
    ASSUME Inv, SendEofAndClose
    PROVE  /\ Inv' /\ s'.error = s.error
           /\ ~s.error => s'.queue # << >>
<1>1. /\ state = "open" /\ ~splicing /\ cnt' = cnt + 1 /\ written' = Written(1)
      /\ s' = Flush(Put(s, cnt + 1, TRUE)) /\ wr_shut' = MayShut(s'.queue)
      /\ state' = "disconnected" /\ UNCHANGED <<kind, wire, reading, splicing>>
  BY DEF SendEofAndClose
<1>2. /\ Good(s', kind) /\ Locked(s', 1) /\ s'.mem[s'.obuf] = << >> /\ s'.error = s.error
      /\ ~s'.error => Line(s', Len(wire), cnt + 1)
  <2>1. TRUE \in BOOLEAN
    OBVIOUS
  <2> QED BY <1>1, <2>1, PutAndFlush
<1>3. VarTypes /\ Ghosts /\ Control
  BY DEF Inv
<1>4. cnt \in Nat /\ Len(wire) \in Nat /\ Len(written) \in Nat /\ MaxBytes \in Nat /\ reading
  BY <1>1, <1>3, ConstantAssumption DEF VarTypes, Control
<1>a. cnt = Len(written) /\ Len(wire) <= Len(written) /\ RunFrom(wire, 0) /\ cnt < MaxBytes
  BY <1>1, <1>3 DEF Ghosts
<1>5. /\ written' \in Seq(1..MaxBytes) /\ RunFrom(written', 0) /\ Len(written') = Len(written) + 1
  <2>1. 1 \in Nat /\ cnt + 1 <= MaxBytes
    BY <1>4, <1>a
  <2> QED BY <1>1, <1>3, <2>1, WrittenOK
<1>6. VarTypes'
  <2>1. cnt + 1 \in 0..MaxBytes /\ wr_shut' \in BOOLEAN
    BY <1>1, <1>4, <1>a DEF MayShut
  <2> QED BY <1>1, <1>3, <1>5, <2>1 DEF VarTypes
<1>7. Ghosts'
  <2>1. Len(wire) <= Len(written') /\ Len(written') <= cnt' /\ Len(written') = cnt + 1
    BY <1>1, <1>4, <1>5, <1>a
  <2> QED BY <1>1, <1>5, <1>a, <2>1 DEF Ghosts
<1>8. Output'
  <2>1. EndOfQueue' = cnt + 1
    BY <1>1, <1>5, <1>a DEF EndOfQueue
  <2> QED BY <1>1, <1>2, <2>1 DEF Output
<1>9. Control'
  <2>1. s'.lock_cnt # 0
    BY <1>2, LockedPositive DEF Good, Base
  <2>2. OwnLocks(s') = Holds(reading) + Holds(s'.flush_cnt > 0)
    <3>1. Holds(reading) = 1
      BY <1>4 DEF Holds
    <3> QED BY <1>2, <3>1 DEF Locked
  <2> QED BY <1>1, <1>4, <2>1, <2>2 DEF Control, MayShut
<1>10. ASSUME ~s.error, s'.queue = << >> PROVE FALSE
  <2>1. Line(s', Len(wire), cnt + 1) /\ s' \in StateRec /\ cnt + 1 \in Int
    BY <1>2, <1>4, <1>10 DEF Good, Base
  <2>2. cnt + 1 = Len(wire)
    BY <1>4, <1>10, <2>1, EmptyLine
  <2> QED BY <1>4, <1>a, <2>2
<1> QED BY <1>1, <1>2, <1>6, <1>7, <1>8, <1>9, <1>10 DEF Inv

\* The end of tcp_splice_block_stream().
LEMMA SpliceEndInv ==
    ASSUME Inv, SpliceEnd
    PROVE  Inv' /\ (wire' # wire => Len(wire) + 1 = Len(written) /\ wire' = Append(wire, cnt)
                                    /\ cnt = Len(written))
<1>1. /\ splicing /\ s.queue = << >> /\ splicing' = FALSE
      /\ UNCHANGED <<kind, state, wr_shut, cnt, written, reading>>
  BY DEF SpliceEnd, SpliceReady
<1>2. VarTypes /\ Ghosts /\ Control /\ Good(s, kind) /\ s \in StateRec /\ Base(s)
  BY DEF Inv, Good, Base
<1>3. state = "open" /\ s.mem[s.obuf] = << >>
  BY <1>1, <1>2 DEF Control
<1>4. /\ cnt \in Nat /\ wire \in Seq(1..MaxBytes) /\ Len(wire) \in Nat /\ Len(written) \in Nat
      /\ MaxBytes \in Nat
  BY <1>2, ConstantAssumption DEF VarTypes
<1>5. cnt = Len(written) /\ Len(wire) <= Len(written) /\ RunFrom(wire, 0) /\ cnt < MaxBytes
  BY <1>2, <1>3 DEF Ghosts
<1>6. CASE ~s.error /\ wire' = Append(wire, cnt) /\ UNCHANGED s
  <2>1. EndOfQueue = cnt - 1 /\ Line(s, Len(wire), EndOfQueue)
    <3>1. EndOfQueue = (cnt - Len(s.mem[s.obuf])) - 1
      BY <1>1, <1>3 DEF EndOfQueue, Holds
    <3>2. Len(s.mem[s.obuf]) = 0
      BY <1>3
    <3>3. Line(s, Len(wire), EndOfQueue)
      BY <1>6 DEF Inv, Output
    <3> QED BY <1>4, <3>1, <3>2, <3>3
  <2>2. cnt - 1 = Len(wire)
    <3>1. cnt - 1 \in Int
      BY <1>4
    <3> QED BY <1>1, <1>2, <1>4, <2>1, <3>1, EmptyLine
  <2>3. cnt = Len(wire) + 1 /\ cnt \in 1..MaxBytes
    BY <1>4, <1>5, <2>2
  <2>4. /\ wire' \in Seq(1..MaxBytes) /\ Len(wire') = Len(wire) + 1 /\ wire'[Len(wire) + 1] = cnt
        /\ \A i \in 1..Len(wire) : wire'[i] = wire[i]
    BY <1>4, <1>6, <2>3
  <2>5. ASSUME NEW i \in 1..Len(wire') PROVE wire'[i] = 0 + i
    <3>1. CASE i = Len(wire) + 1
      BY <1>4, <2>3, <2>4, <3>1
    <3>2. CASE i # Len(wire) + 1
      <4>1. i \in 1..Len(wire)
        BY <1>4, <2>4, <3>2
      <4> QED BY <1>5, <2>4, <4>1 DEF RunFrom
    <3> QED BY <3>1, <3>2
  <2>6. RunFrom(wire', 0)
    BY <2>5 DEF RunFrom
  <2>7. VarTypes'
    BY <1>1, <1>2, <2>4 DEF VarTypes
  <2>8. Ghosts'
    <3>1. Len(wire') <= Len(written)
      BY <1>5, <2>3, <2>4
    <3> QED BY <1>1, <1>2, <2>6, <3>1 DEF Ghosts
  <2>9. Output'
    <3>1. EndOfQueue' = (cnt - Len(s.mem[s.obuf])) - 0
      BY <1>1, <1>3, <1>6 DEF EndOfQueue, Holds
    <3>2. Len(s.mem[s.obuf]) = 0
      BY <1>3
    <3>3. EndOfQueue' = cnt /\ cnt = Len(wire')
      BY <1>4, <2>3, <2>4, <3>1, <3>2
    <3>4. Line(s, Len(wire'), cnt)
      BY <1>1, <1>2, <1>4, <3>3, EmptyLine
    <3>5. \A x : RunFrom(s.mem[s.obuf], x)
      BY <1>3 DEF RunFrom
    <3> QED BY <1>1, <1>6, <3>3, <3>4, <3>5 DEF Output
  <2>10. Control'
    BY <1>1, <1>2, <1>6 DEF Control
  <2> QED BY <1>1, <1>2, <1>5, <1>6, <2>3, <2>7, <2>8, <2>9, <2>10 DEF Inv
<1>7. CASE s' = [s EXCEPT !.error = TRUE] /\ UNCHANGED wire
  <2>1. s' \in StateRec
    <3>1. TRUE \in BOOLEAN
      OBVIOUS
    <3> QED BY <1>2, <1>7, <3>1 DEF StateRec
  <2>2. /\ s'.mem = s.mem /\ s'.pos = s.pos /\ s'.queue = s.queue /\ s'.pool = s.pool
        /\ s'.obuf = s.obuf /\ s'.wr = s.wr /\ s'.error = TRUE /\ s'.lock_cnt = s.lock_cnt
        /\ s'.flush_cnt = s.flush_cnt
    BY <1>2, <1>7 DEF StateRec
  <2>3. Base(s')
    BY <1>1, <1>2, <2>1, <2>2 DEF Base, Places, InFlight, Asks
  <2>4. Good(s', kind)
    BY <1>2, <2>2, <2>3 DEF Good, Aside, Sizes
  <2>5. OwnLocks(s') = OwnLocks(s)
    BY <2>2 DEF OwnLocks
  <2>6. VarTypes' /\ Ghosts' /\ Output'
    BY <1>1, <1>2, <1>7, <2>2 DEF VarTypes, Ghosts, Output
  <2>7. Control'
    BY <1>1, <1>2, <2>2, <2>5 DEF Control
  <2> QED BY <1>1, <1>7, <2>4, <2>6, <2>7 DEF Inv
<1> QED BY <1>6, <1>7 DEF SpliceEnd

-----------------------------------------------------------------------------
(* The worker.                                                              *)

\* The answer of the worker: n bytes were sent, or err.
Answered(t, n, err) == [t EXCEPT !.wr = [t.wr EXCEPT !.st = "done", !.size = n, !.error = err]]

\* What an answer leaves alone.
LEMMA AnsweredOK ==
    ASSUME NEW t, NEW k, Good(t, k), t.wr # None, t.wr.st = "run",
           NEW n \in Nat, n <= t.wr.to - t.wr.from, NEW err \in BOOLEAN, err => n = 0
    PROVE  LET z == Answered(t, n, err)
           IN  /\ Good(z, k) /\ OwnLocks(z) = OwnLocks(t) /\ Blocks(z) = Blocks(t)
               /\ HeadSent(z) = HeadSent(t) + n
               /\ z.mem = t.mem /\ z.queue = t.queue /\ z.obuf = t.obuf /\ z.error = t.error
               /\ z.flush_cnt = t.flush_cnt /\ z.lock_cnt = t.lock_cnt
<1> DEFINE r == [t.wr EXCEPT !.st = "done", !.size = n, !.error = err]
           z == Answered(t, n, err)
<1>1. /\ t \in StateRec /\ Places(t) /\ InFlight(t) /\ Asks(t.wr, t) /\ t.queue # << >> /\ Base(t)
  BY DEF Good, Base, InFlight
<1>2. HeadSent(t) = t.pos[t.queue[1]] + t.wr.size /\ t.queue[1] \in Bufs /\ t.wr \in Request
  BY <1>1, HeadSentTyped
<1>3. t.pos[t.queue[1]] \in Nat /\ t.wr.size = 0 /\ t.wr.from \in Nat /\ t.wr.to \in Nat
  BY <1>1, <1>2, Fields, RequestFields DEF Asks
<1>4. r \in Request
  <2>1. "done" \in {"run", "done"}
    OBVIOUS
  <2> QED BY <1>2, <2>1 DEF Request
<1>5. /\ r.buf = t.wr.buf /\ r.from = t.wr.from /\ r.to = t.wr.to /\ r.st = "done" /\ r.size = n
      /\ r.error = err
  BY <1>2 DEF Request
<1>6. r # None
  BY <1>4, RequestFields
<1>7. z = [t EXCEPT !.wr = r]
  BY DEF Answered
<1> HIDE DEF r, z
<1>8. z \in StateRec
  <2>1. r \in Request \cup {None}
    BY <1>4
  <2> QED BY <1>1, <1>7, <2>1 DEF StateRec
<1>9. /\ z.wr = r /\ z.mem = t.mem /\ z.pos = t.pos /\ z.queue = t.queue /\ z.pool = t.pool
      /\ z.obuf = t.obuf /\ z.error = t.error /\ z.flush_cnt = t.flush_cnt /\ z.lock_cnt = t.lock_cnt
  BY <1>1, <1>7 DEF StateRec
<1>10. Asks(z.wr, z)
  <2>1. r.from + r.size <= r.to
    <3>1. ASSUME NEW a \in Nat, NEW b \in Nat, NEW c \in Nat, a <= b - c PROVE c + a <= b
      BY <3>1
    <3> QED BY <1>3, <1>5, <3>1
  <2>2. r.from < r.to
    BY <1>1, <1>5 DEF Asks
  <2>3. /\ r.buf = t.queue[1] /\ r.from = t.pos[t.queue[1]] /\ r.to = Len(t.mem[t.queue[1]])
    BY <1>1, <1>5 DEF Asks
  <2>4. r.error => r.size = 0
    BY <1>5
  <2> QED BY <1>5, <1>9, <2>1, <2>2, <2>3, <2>4 DEF Asks
<1>11. InFlight(z)
  BY <1>1, <1>6, <1>9, <1>10 DEF InFlight
<1>12. Base(z)
  BY <1>1, <1>8, <1>9, <1>11 DEF Base, Places
<1>13. Good(z, k)
  BY <1>9, <1>12 DEF Good, Aside, Sizes
<1>14. OwnLocks(z) = OwnLocks(t)
  BY <1>6, <1>9 DEF OwnLocks, Holds
<1>15. Blocks(z) = Blocks(t)
  BY <1>9 DEF Blocks
<1>16. HeadSent(z) = t.pos[t.queue[1]] + n
  BY <1>1, <1>5, <1>9 DEF HeadSent
<1>17. HeadSent(z) = HeadSent(t) + n
  BY <1>2, <1>3, <1>16
<1> QED BY <1>9, <1>13, <1>14, <1>15, <1>17 DEF z

\* A part of a run.
LEMMA RunPart ==
    ASSUME NEW m \in Seq(1..MaxBytes), IsRun(m), NEW p \in Nat, NEW n \in Nat, NEW w \in Nat,
           Start(m) = (w - p) + 1, p + n <= Len(m)
    PROVE  LET x == SubSeq(m, p + 1, p + n)
           IN  x \in Seq(1..MaxBytes) /\ Len(x) = n /\ RunFrom(x, w)
<1> DEFINE x == SubSeq(m, p + 1, p + n)
<1>1. Len(m) \in Nat
  OBVIOUS
<1>2. x \in Seq(1..MaxBytes) /\ Len(x) = n /\ \A i \in 1..n : x[i] = m[p + i]
  <2>1. ASSUME NEW S, NEW y \in Seq(S), NEW a \in Nat, NEW b \in Nat, b + a <= Len(y)
        PROVE  LET z == SubSeq(y, b + 1, b + a)
               IN  z \in Seq(S) /\ Len(z) = a /\ \A i \in 1..a : z[i] = y[b + i]
    <3> DEFINE z == SubSeq(y, b + 1, b + a)
    <3>1. Len(y) \in Nat /\ (b + a + 1) - (b + 1) = a
      OBVIOUS
    <3>2. Len(z) = a
      BY <2>1, <3>1
    <3>3. \A i \in 1..a : z[i] = y[b + i]
      <4>1. \A i \in 1..a : z[i] = y[(b + 1) + i - 1]
        BY <2>1, <3>1
      <4>2. \A i \in 1..a : (b + 1) + i - 1 = b + i
        OBVIOUS
      <4> QED BY <4>1, <4>2
    <3>4. z \in Seq(S)
      BY <2>1, <3>1
    <3> QED BY <3>2, <3>3, <3>4
  <2> QED BY <2>1
<1>3. m[1] = (w - p) + 1 /\ \A k \in 1..Len(m) : m[k] = m[1] + k - 1
  BY DEF IsRun, Start
<1>4. ASSUME NEW i \in 1..n PROVE x[i] = w + i
  <2>1. p + i \in 1..Len(m)
    BY <1>1
  <2>2. m[p + i] = m[1] + (p + i) - 1
    BY <1>3, <2>1
  <2>3. x[i] = m[p + i]
    BY <1>2
  <2> HIDE DEF x
  <2> QED BY <1>3, <2>2, <2>3
<1> QED BY <1>2, <1>4 DEF RunFrom

\* The first of the blocks ends before the last one, or is the last one.
LEMMA FirstEnds ==
    ASSUME NEW c \in Seq(Seq(Nat)), NEW f \in Int, NEW e \in Int, Chain(c, f, e), c # << >>
    PROVE  f + Len(c[1]) <= e
<1> DEFINE l == Len(Tail(c))
           g == f + Len(c[1])
<1>1. Chain(Tail(c), g, e) /\ Tail(c) \in Seq(Seq(Nat))
  BY ChainTail
<1>2. c[1] \in Seq(Nat)
  <2>1. 1 \in 1..Len(c)
    OBVIOUS
  <2> QED BY <2>1
<1>3. g \in Int /\ l \in Nat
  BY <1>1, <1>2
<1>4. l <= e - g
  BY <1>1, <1>3, ChainLength
<1> HIDE DEF g, l
<1>5. g <= e
  BY <1>3, <1>4
<1> QED BY <1>5 DEF g

\* What a worker sends are the bytes behind those on the wire.
LEMMA NextBytes ==
    ASSUME NEW t, Base(t), t.wr # None, t.wr.st = "run", NEW w \in Nat, NEW e \in Int, Line(t, w, e),
           NEW n \in Nat, n <= t.wr.to - t.wr.from
    PROVE  LET x == SubSeq(t.mem[t.wr.buf], t.wr.from + 1, t.wr.from + n)
           IN  /\ x \in Seq(1..MaxBytes) /\ Len(x) = n /\ RunFrom(x, w)
               /\ w + n <= e
<1> DEFINE c == Blocks(t)
           m == t.mem[t.wr.buf]
           p == t.wr.from
           x == SubSeq(m, p + 1, p + n)
<1>1. /\ t \in StateRec /\ InFlight(t) /\ Asks(t.wr, t) /\ t.queue # << >>
  BY DEF Base, InFlight
<1>2. HeadSent(t) = t.pos[t.queue[1]] + t.wr.size /\ t.queue[1] \in Bufs /\ t.wr \in Request
  BY <1>1, HeadSentTyped
<1>3. /\ t.wr.buf = t.queue[1] /\ p = t.pos[t.queue[1]] /\ t.wr.size = 0 /\ p \in Nat
      /\ t.wr.to = Len(m)
  BY <1>1, <1>2, RequestFields DEF Asks
<1>4. m \in Seq(1..MaxBytes) /\ Len(m) \in Nat /\ m \in Seq(Nat)
  <2>1. m \in Seq(1..MaxBytes)
    BY <1>1, <1>2, <1>3, Fields
  <2> QED BY <2>1, BytesTyped
<1>5. HeadSent(t) = p /\ p + n <= Len(m)
  <2>1. ASSUME NEW a \in Nat, NEW b \in Nat, NEW d \in Nat, a <= b - d PROVE d + a <= b
    BY <2>1
  <2> QED BY <1>2, <1>3, <1>4, <2>1
<1>6. c \in Seq(Seq(Nat)) /\ c # << >> /\ c[1] = m /\ 1 \in 1..Len(c)
  <2>1. 1 \in 1..Len(t.queue)
    BY <1>1, Fields
  <2>2. c \in Seq(Seq(Nat)) /\ Len(c) = Len(t.queue) /\ c[1] = t.mem[t.queue[1]]
    BY <1>1, <2>1, BlocksTyped
  <2> QED BY <1>3, <2>1, <2>2
<1>7. Chain(c, w - p, e) /\ w - p \in Int
  BY <1>3, <1>5 DEF Line
<1> HIDE DEF c, m, p
<1>8. Start(m) = (w - p) + 1 /\ IsRun(m)
  BY <1>6, <1>7 DEF Chain, InOrder
<1>9. /\ x \in Seq(1..MaxBytes) /\ Len(x) = n /\ RunFrom(x, w)
  BY <1>3, <1>4, <1>5, <1>8, RunPart
<1>10. (w - p) + Len(m) <= e
  BY <1>6, <1>7, FirstEnds
<1>11. w + n <= e
  <2>1. ASSUME NEW a \in Nat, NEW b \in Nat, b + n <= a, (w - b) + a <= e PROVE w + n <= e
    BY <2>1
  <2> QED BY <1>3, <1>4, <1>5, <1>10, <2>1
<1> QED BY <1>9, <1>11 DEF m, p

\* The queue ends with a byte that was written.
LEMMA EndTyped ==
    ASSUME Inv
    PROVE  EndOfQueue \in Int /\ EndOfQueue <= Len(written) /\ Len(s.mem[s.obuf]) \in Nat
<1> DEFINE l == Len(s.mem[s.obuf])
<1>1. s \in StateRec /\ cnt \in Nat /\ Len(written) \in Nat
  BY DEF Inv, VarTypes, Good, Base
<1>2. l \in Nat
  <2>1. s.mem[s.obuf] \in Seq(1..MaxBytes)
    BY <1>1, Fields
  <2> QED BY <2>1
<1>3. Holds(splicing) \in 0..1
  BY DEF Holds
<1> HIDE DEF l
<1>4. CASE state = "open"
  <2>1. EndOfQueue = (cnt - l) - Holds(splicing)
    BY <1>4 DEF EndOfQueue, l
  <2>2. cnt = Len(written)
    BY <1>4 DEF Inv, Ghosts
  <2>3. ASSUME NEW a \in Nat, NEW x \in 0..1, NEW c \in Nat
        PROVE  (c - a) - x \in Int /\ (c - a) - x <= c
    OBVIOUS
  <2>4. EndOfQueue \in Int /\ EndOfQueue <= cnt
    BY <1>1, <1>2, <1>3, <2>1, <2>3
  <2> QED BY <1>2, <2>2, <2>4 DEF l
<1>5. CASE state # "open"
  BY <1>1, <1>2, <1>5 DEF EndOfQueue, l
<1> QED BY <1>4, <1>5

\* A worker sends a part of the first buffer.
LEMMA WorkerSendInv ==
    ASSUME Inv, NEW n \in 1..BufSize, WorkerSend(n)
    PROVE  /\ Inv' /\ s'.error = s.error /\ ~s.error /\ s.queue # << >>
           /\ Len(wire') = Len(wire) + n
<1> DEFINE x == SubSeq(s.mem[s.wr.buf], s.wr.from + 1, s.wr.from + n)
           w == Len(wire)
           z == Answered(s, n, FALSE)
<1>1. /\ s.wr # None /\ s.wr.st = "run" /\ n <= s.wr.to - s.wr.from /\ wire' = wire \o x
      /\ s' = [s EXCEPT !.wr.st = "done", !.wr.size = n]
      /\ UNCHANGED <<kind, state, wr_shut, cnt, written, reading, splicing>>
  BY DEF WorkerSend
<1>2. VarTypes /\ Ghosts /\ Control /\ Good(s, kind) /\ Base(s) /\ s \in StateRec
  BY DEF Inv, Good, Base
<1>3. s.queue # << >> /\ Asks(s.wr, s) /\ ~s.error
  BY <1>1, <1>2 DEF Base, InFlight
<1>4. HeadSent(s) \in Nat /\ s.wr \in Request
  BY <1>2, <1>3, HeadSentTyped DEF Base
<1>5. s' = z
  <2>1. s.wr.error = FALSE
    BY <1>1, <1>3, <1>4, RequestFields DEF Asks
  <2> QED BY <1>1, <1>2, <1>4, <2>1 DEF Answered, StateRec, Request
<1>6. /\ Good(s', kind) /\ OwnLocks(s') = OwnLocks(s) /\ Blocks(s') = Blocks(s)
      /\ HeadSent(s') = HeadSent(s) + n
      /\ s'.mem = s.mem /\ s'.queue = s.queue /\ s'.obuf = s.obuf /\ s'.error = s.error
      /\ s'.flush_cnt = s.flush_cnt /\ s'.lock_cnt = s.lock_cnt
  <2> DEFINE err == FALSE
  <2>1. n \in Nat /\ err \in BOOLEAN /\ (err => n = 0) /\ s' = Answered(s, n, err)
    BY <1>5
  <2> HIDE DEF z, err
  <2> QED BY <1>1, <1>2, <2>1, AnsweredOK
<1>7. Line(s, w, EndOfQueue) /\ EndOfQueue \in Int /\ EndOfQueue <= Len(written)
  BY <1>3, EndTyped DEF Inv, Output
<1>8. /\ w \in Nat /\ n \in Nat /\ wire \in Seq(1..MaxBytes) /\ RunFrom(wire, 0) /\ Len(written) \in Nat
  BY <1>2 DEF VarTypes, Ghosts
<1>9. x \in Seq(1..MaxBytes) /\ Len(x) = n /\ RunFrom(x, w) /\ w + n <= EndOfQueue
  <2> HIDE DEF w
  <2> QED BY <1>1, <1>2, <1>7, <1>8, NextBytes
<1> HIDE DEF x, z
<1>10. /\ wire' \in Seq(1..MaxBytes) /\ Len(wire') = w + n
       /\ \A i \in 1..(w + n) : /\ i <= w => wire'[i] = wire[i]
                                /\ i > w => wire'[i] = x[i - w] /\ i - w \in 1..n
  BY <1>1, <1>8, <1>9, ConcatEntries
<1>11. ASSUME NEW i \in 1..Len(wire') PROVE wire'[i] = 0 + i
  <2>0. i \in 1..(w + n)
    BY <1>10
  <2> HIDE DEF w
  <2>1. CASE i <= w
    <3>1. i \in 1..w
      BY <1>8, <2>1
    <3>2. wire[i] = 0 + i
      BY <1>8, <3>1 DEF RunFrom, w
    <3> QED BY <1>10, <2>0, <2>1, <3>2
  <2>2. CASE i > w
    <3>1. wire'[i] = x[i - w] /\ i - w \in 1..n
      BY <1>10, <2>0, <2>2
    <3>2. x[i - w] = w + (i - w)
      BY <1>9, <3>1 DEF RunFrom
    <3> QED BY <1>8, <3>1, <3>2
  <2> QED BY <1>8, <2>1, <2>2
<1>12. Ghosts'
  <2>1. RunFrom(wire', 0)
    BY <1>11 DEF RunFrom
  <2>2. Len(wire') <= Len(written)
    <3> HIDE DEF w
    <3> QED BY <1>7, <1>8, <1>9, <1>10
  <2> QED BY <1>1, <1>2, <2>1, <2>2 DEF Ghosts
<1>13. VarTypes'
  BY <1>1, <1>2, <1>10 DEF VarTypes
<1>14. Output'
  <2>1. EndOfQueue' = EndOfQueue
    BY <1>1, <1>6 DEF EndOfQueue
  <2>2. (w + n) - (HeadSent(s) + n) = w - HeadSent(s)
    <3> HIDE DEF w
    <3> QED BY <1>4, <1>8
  <2>3. Line(s', Len(wire'), EndOfQueue)
    BY <1>6, <1>7, <1>10, <2>2 DEF Line
  <2> QED BY <1>1, <1>3, <1>6, <2>1, <2>3 DEF Inv, Output
<1>15. Control'
  BY <1>1, <1>2, <1>6 DEF Control
<1> QED BY <1>1, <1>3, <1>6, <1>10, <1>12, <1>13, <1>14, <1>15 DEF Inv

\* The connection is broken, or not ready.
LEMMA WorkerSendNothingInv ==
    ASSUME Inv, NEW error \in BOOLEAN, WorkerSendNothing(error)
    PROVE  Inv' /\ s'.error = s.error
<1>1. /\ s.wr # None /\ s.wr.st = "run"
      /\ s' = [s EXCEPT !.wr.st = "done", !.wr.error = error]
      /\ UNCHANGED <<kind, state, wr_shut, cnt, written, wire, reading, splicing>>
  BY DEF WorkerSendNothing
<1>2. VarTypes /\ Ghosts /\ Control /\ Good(s, kind) /\ Base(s) /\ s \in StateRec
  BY DEF Inv, Good, Base
<1>3. s.queue # << >> /\ Asks(s.wr, s)
  BY <1>1, <1>2 DEF Base, InFlight
<1>4. HeadSent(s) \in Nat /\ s.wr \in Request
  BY <1>2, <1>3, HeadSentTyped DEF Base
<1>5. s' = Answered(s, 0, error)
  <2>1. s.wr.size = 0
    BY <1>1, <1>3 DEF Asks
  <2> QED BY <1>1, <1>2, <1>4, <2>1 DEF Answered, StateRec, Request
<1>6. /\ Good(s', kind) /\ OwnLocks(s') = OwnLocks(s) /\ Blocks(s') = Blocks(s)
      /\ HeadSent(s') = HeadSent(s) + 0
      /\ s'.mem = s.mem /\ s'.queue = s.queue /\ s'.obuf = s.obuf /\ s'.error = s.error
      /\ s'.flush_cnt = s.flush_cnt /\ s'.lock_cnt = s.lock_cnt
  <2>1. 0 \in Nat /\ 0 <= s.wr.to - s.wr.from /\ (error => 0 = 0)
    BY <1>3, <1>4, RequestFields DEF Asks
  <2> QED BY <1>1, <1>2, <1>5, <2>1, AnsweredOK
<1>7. \A w, e : Line(s', w, e) = Line(s, w, e)
  <2>1. HeadSent(s') = HeadSent(s)
    BY <1>4, <1>6
  <2> QED BY <1>6, <2>1 DEF Line
<1>8. EndOfQueue' = EndOfQueue
  BY <1>1, <1>6 DEF EndOfQueue
<1>9. Output'
  BY <1>1, <1>6, <1>7, <1>8 DEF Inv, Output
<1>10. VarTypes' /\ Ghosts' /\ Control'
  BY <1>1, <1>2, <1>6 DEF VarTypes, Ghosts, Control
<1> QED BY <1>1, <1>6, <1>9, <1>10 DEF Inv

-----------------------------------------------------------------------------
(* Completed requests, posted flushes, and the end of the channel.          *)

\* t holds the bytes that were written before the channel was closed.
Held(t) ==
    /\ splicing => t.mem[t.obuf] = << >>
    /\ state = "open" /\ ~t.error =>
         /\ Line(t, Len(wire), (cnt - Len(t.mem[t.obuf])) - Holds(splicing))
         /\ RunFrom(t.mem[t.obuf], cnt - Len(t.mem[t.obuf]))
    /\ state # "open" /\ ~t.error => Line(t, Len(wire), Len(written))

\* tcp_unlock(), pipe_unlock(): the last lock deletes the channel.
LEMMA UnlockInv ==
    ASSUME Inv, state # "deleted", UNCHANGED <<kind, cnt, written, wire, splicing>>,
           reading' \in BOOLEAN, wr_shut' \in BOOLEAN, Good(s', kind), Held(s'),
           OwnLocks(s') = Holds(reading') + Holds(s'.flush_cnt > 0),
           state' = StateAfter(s'), state = "open" => reading' /\ ~wr_shut',
           wr_shut' => s'.queue = << >>
    PROVE  Inv' /\ (state = "open" => state' = "open") /\ (state # "open" => state' # "open")
<1>1. VarTypes /\ Ghosts /\ Control
  BY DEF Inv
<1>2. s' \in StateRec /\ Holds(reading') \in Nat
  BY DEF Good, Base, Holds
<1>3. state' = IF s'.lock_cnt = 0 THEN "deleted" ELSE state
  BY DEF StateAfter, Deleted
<1>4. s'.lock_cnt = Holds(reading') + Holds(s'.flush_cnt > 0) + Holds(s'.wr # None)
  <2>1. Locked(s', Holds(reading'))
    BY DEF Locked
  <2> QED BY <1>2, <2>1, LockedPositive
<1>5. state = "open" => s'.lock_cnt # 0
  <2> SUFFICES ASSUME state = "open" PROVE s'.lock_cnt # 0
    OBVIOUS
  <2>1. Holds(reading') = 1
    BY DEF Holds
  <2>2. Locked(s', 1)
    BY <2>1 DEF Locked
  <2> QED BY <1>2, <2>2, LockedPositive
<1>6. (state = "open" => state' = "open") /\ (state # "open" => state' # "open")
  BY <1>3, <1>5
<1>7. VarTypes'
  BY <1>1, <1>3 DEF VarTypes
<1>8. Ghosts'
  BY <1>1, <1>6 DEF Ghosts
<1>9. Output'
  <2>1. CASE state = "open"
    <3>1. EndOfQueue' = (cnt - Len(s'.mem[s'.obuf])) - Holds(splicing)
      BY <1>6, <2>1 DEF EndOfQueue
    <3> QED BY <1>6, <2>1, <3>1 DEF Output, Held
  <2>2. CASE state # "open"
    <3>1. EndOfQueue' = Len(written)
      BY <1>6, <2>2 DEF EndOfQueue
    <3> QED BY <1>6, <2>2, <3>1 DEF Output, Held
  <2> QED BY <2>1, <2>2
<1>10. Control'
  <2>1. splicing' => state' = "open" /\ kind' = "tcp" /\ s'.mem[s'.obuf] = << >>
    BY <1>1, <1>6 DEF Control, Held
  <2>2. state' = "deleted" <=> s'.lock_cnt = 0
    BY <1>3
  <2>3. state' = "open" => reading' /\ ~wr_shut'
    BY <1>6
  <2> QED BY <2>1, <2>2, <2>3 DEF Control
<1> QED BY <1>6, <1>7, <1>8, <1>9, <1>10 DEF Inv

\* What the invariant says of the bytes that are held.
LEMMA InvHeld ==
    ASSUME Inv
    PROVE  Held(s)
<1>1. splicing => s.mem[s.obuf] = << >>
  BY DEF Inv, Control
<1>2. CASE state = "open"
  <2>1. EndOfQueue = (cnt - Len(s.mem[s.obuf])) - Holds(splicing)
    BY <1>2 DEF EndOfQueue
  <2> QED BY <1>1, <1>2, <2>1 DEF Inv, Output, Held
<1>3. CASE state # "open"
  <2>1. EndOfQueue = Len(written)
    BY <1>3 DEF EndOfQueue
  <2> QED BY <1>1, <1>3, <2>1 DEF Inv, Output, Held
<1> QED BY <1>2, <1>3

\* The last read of a closed channel.
LEMMA LastReadDoneInv ==
    ASSUME Inv, LastReadDone
    PROVE  Inv' /\ s'.error = s.error /\ state' # "open"
<1>1. /\ state = "disconnected" /\ ~splicing /\ reading /\ reading' = FALSE
      /\ s' = [s EXCEPT !.lock_cnt = s.lock_cnt - 1] /\ state' = StateAfter(s')
      /\ UNCHANGED <<kind, wr_shut, cnt, written, wire, splicing>>
  BY DEF LastReadDone
<1>2. VarTypes /\ Control /\ Good(s, kind) /\ s \in StateRec /\ Held(s)
  BY InvHeld DEF Inv, Good, Base
<1>3. OwnLocks(s) = 1 + Holds(s.flush_cnt > 0)
  <2>1. Holds(reading) = 1
    BY <1>1 DEF Holds
  <2> QED BY <1>2, <2>1 DEF Control
<1>4. s.lock_cnt # 0 /\ s.lock_cnt \in Nat
  <2>1. Locked(s, 1)
    BY <1>3 DEF Locked
  <2> QED BY <1>2, <2>1, LockedPositive, Fields
<1>5. s.lock_cnt - 1 \in Nat
  BY <1>4
<1>6. s' \in StateRec /\ Counted(s', s) /\ s'.lock_cnt = s.lock_cnt - 1 /\ s'.flush_cnt = s.flush_cnt
  BY <1>1, <1>2, <1>5 DEF StateRec, Counted
<1>7. Good(s', kind) /\ OwnLocks(s') = OwnLocks(s) - 1 /\ \A w, e : Line(s', w, e) = Line(s, w, e)
  BY <1>2, <1>6, CountedOK
<1>8. OwnLocks(s') = Holds(reading') + Holds(s'.flush_cnt > 0)
  <2>1. Holds(reading') = 0 /\ Holds(s.flush_cnt > 0) \in Nat
    BY <1>1 DEF Holds
  <2> QED BY <1>3, <1>6, <1>7, <2>1
<1>9. s'.queue = s.queue /\ s'.error = s.error /\ s'.mem = s.mem /\ s'.obuf = s.obuf
  BY <1>6 DEF Counted
<1>10. Held(s')
  BY <1>1, <1>2, <1>7, <1>9 DEF Held
<1>11. reading' \in BOOLEAN /\ wr_shut' \in BOOLEAN /\ (wr_shut' => s'.queue = << >>)
  BY <1>1, <1>2, <1>9 DEF VarTypes, Control
<1>12. state # "deleted" /\ state # "open"
  BY <1>1
<1> QED BY <1>1, <1>7, <1>8, <1>9, <1>10, <1>11, <1>12, UnlockInv

\* output_queue_done() in a state of the channel.
LEMMA QueueDoneOK ==
    ASSUME Inv, s.wr # None, s.wr.st = "done"
    PROVE  LET z == QueueDone(s)
           IN  /\ Good(z, kind) /\ Held(z) /\ Kept(z, s) /\ OwnLocks(z) = OwnLocks(s) + 1
               /\ ~s.error /\ s.queue # << >>
               /\ z.error => z.queue = << >>
<1> DEFINE z == QueueDone(s)
           w == Len(wire)
           e == EndOfQueue
<1>1. Base(s) /\ Aside(s) /\ Sizes(s, kind) /\ s \in StateRec /\ VarTypes /\ w \in Nat
  BY DEF Inv, Good, Base, VarTypes
<1>2. s.queue # << >> /\ ~s.error
  BY <1>1 DEF Base, InFlight
<1>3. Line(s, w, e) /\ e \in Int
  BY <1>2, EndTyped DEF Inv, Output
<1>4. e \in Nat
  <2> DEFINE c == Blocks(s)
             f == w - HeadSent(s)
  <2>1. c \in Seq(Seq(Nat)) /\ c # << >> /\ 1 \in 1..Len(c) /\ f \in Int /\ Chain(c, f, e)
    <3>1. c \in Seq(Seq(Nat)) /\ Len(c) = Len(s.queue) /\ HeadSent(s) \in Nat
      BY <1>1, BlocksTyped, HeadSentTyped DEF Base
    <3>2. Len(s.queue) \in Nat \ {0}
      BY <1>1, <1>2, Fields
    <3> HIDE DEF w, e
    <3> QED BY <1>1, <1>3, <3>1, <3>2 DEF Line
  <2> HIDE DEF c, f, e
  <2>2. Start(c[1]) \in Nat /\ Start(c[1]) = f + 1
    BY <2>1, BlockTypes DEF Chain, InOrder
  <2>3. Len(c) <= e - f /\ Len(c) \in Nat
    BY <1>3, <2>1, ChainLength
  <2> QED BY <1>3, <2>1, <2>2, <2>3
<1> HIDE DEF w, e
<1>5. /\ Base(z) /\ Aside(z) /\ Kept(z, s) /\ OwnLocks(z) = OwnLocks(s) + 1
      /\ ~z.error => Line(z, w, e)
  <2>1. CASE s.wr.error
    BY <1>1, <2>1, DoneErrorOK
  <2>2. CASE ~s.wr.error /\ s.pos[s.queue[1]] + s.wr.size < Len(s.mem[s.queue[1]])
    <3>1. /\ Base(z) /\ Line(z, w, e) /\ OwnLocks(z) = OwnLocks(s) + 1
          /\ Kept(z, s) /\ z.pool = s.pool /\ z.queue = s.queue
      BY <1>1, <1>2, <1>3, <2>2, DonePartOK
    <3> HIDE DEF z
    <3>2. Aside(z)
      BY <1>1, <3>1 DEF Aside, Kept
    <3> QED BY <3>1, <3>2
  <2>3. CASE ~s.wr.error /\ ~(s.pos[s.queue[1]] + s.wr.size < Len(s.mem[s.queue[1]]))
    BY <1>1, <1>2, <1>3, <1>4, <2>3, DoneBufferOK
  <2> QED BY <2>1, <2>2, <2>3
<1> HIDE DEF z
<1>6. Good(z, kind)
  BY <1>1, <1>5 DEF Good, Sizes, Kept
<1>7. Held(z)
  <2>1. z.mem = s.mem /\ z.obuf = s.obuf /\ Held(s)
    BY <1>5, InvHeld DEF Kept
  <2>2. state = "open" => e = (cnt - Len(s.mem[s.obuf])) - Holds(splicing)
    BY DEF e, EndOfQueue
  <2>3. state # "open" => e = Len(written)
    BY DEF e, EndOfQueue
  <2> QED BY <1>2, <1>5, <2>1, <2>2, <2>3 DEF Held, w
<1>8. z.error => z.queue = << >>
  BY <1>5 DEF Base
<1> QED BY <1>2, <1>5, <1>6, <1>7, <1>8 DEF z

\* done_write_request().
LEMMA DoneWriteRequestInv ==
    ASSUME Inv, DoneWriteRequest
    PROVE  /\ Inv' /\ (state = "open" => state' = "open") /\ (state # "open" => state' # "open")
           /\ ~s.error /\ ~wr_shut /\ (s'.error => s'.queue = << >>)
           /\ wr_shut' => state = "disconnected" /\ s'.queue = << >>
           /\ state = "disconnected" /\ s'.queue = << >> => wr_shut'
<1> DEFINE t == QueueDone(s)
<1>1. /\ s.wr # None /\ s.wr.st = "done" /\ s' = [t EXCEPT !.lock_cnt = t.lock_cnt - 1]
      /\ wr_shut' = (wr_shut \/ (state = "disconnected" /\ t.queue = << >>))
      /\ state' = StateAfter(s') /\ UNCHANGED <<kind, cnt, written, wire, reading, splicing>>
  BY DEF DoneWriteRequest, MayShut
<1>2. /\ Good(t, kind) /\ Held(t) /\ Kept(t, s) /\ OwnLocks(t) = OwnLocks(s) + 1
      /\ ~s.error /\ s.queue # << >> /\ (t.error => t.queue = << >>)
  BY <1>1, QueueDoneOK
<1> HIDE DEF t
<1>3. VarTypes /\ Control /\ s \in StateRec /\ t \in StateRec
  BY <1>2 DEF Inv, Good, Base
<1>4. t.flush_cnt = s.flush_cnt
  BY <1>2 DEF Kept
<1> DEFINE h == Holds(reading)
           f == Holds(s.flush_cnt > 0)
<1>5. h \in Nat /\ f \in Nat /\ OwnLocks(s) = h + f
  BY <1>3 DEF Control, Holds
<1>6. Locked(t, h + 1)
  <2> HIDE DEF h, f
  <2>1. OwnLocks(t) = (h + 1) + f
    BY <1>2, <1>5
  <2> QED BY <1>4, <2>1 DEF Locked, f
<1>7. t.lock_cnt # 0 /\ t.lock_cnt \in Nat
  <2>1. h + 1 \in Nat /\ h + 1 > 0
    BY <1>5
  <2> HIDE DEF h
  <2> QED BY <1>3, <1>6, <2>1, LockedPositive, Fields
<1>8. t.lock_cnt - 1 \in Nat
  BY <1>7
<1>9. s' \in StateRec /\ Counted(s', t) /\ s'.lock_cnt = t.lock_cnt - 1 /\ s'.flush_cnt = t.flush_cnt
  BY <1>1, <1>3, <1>8 DEF StateRec, Counted
<1>10. Good(s', kind) /\ OwnLocks(s') = OwnLocks(t) - 1 /\ \A w, e : Line(s', w, e) = Line(t, w, e)
  BY <1>2, <1>9, CountedOK
<1>11. OwnLocks(s') = h + Holds(s'.flush_cnt > 0)
  <2>1. OwnLocks(s') = h + f
    <3> HIDE DEF h, f
    <3> QED BY <1>2, <1>5, <1>10
  <2> QED BY <1>4, <1>9, <2>1
<1>12. s'.queue = t.queue /\ s'.error = t.error /\ s'.mem = t.mem /\ s'.obuf = t.obuf
  BY <1>9 DEF Counted
<1>13. Held(s')
  BY <1>2, <1>10, <1>12 DEF Held
<1>14. ~wr_shut /\ state # "deleted"
  <2>1. s.lock_cnt # 0
    <3>1. Locked(s, h)
      BY <1>5 DEF Locked
    <3>2. s.lock_cnt = h + f + Holds(s.wr # None)
      <4> HIDE DEF h
      <4> QED BY <1>3, <1>5, <3>1, LockedPositive
    <3>3. Holds(s.wr # None) = 1
      BY <1>1 DEF Holds
    <3> HIDE DEF h, f
    <3> QED BY <1>5, <3>2, <3>3
  <2> QED BY <1>2, <1>3, <2>1 DEF Control
<1>15. /\ wr_shut' \in BOOLEAN /\ reading' \in BOOLEAN
       /\ wr_shut' <=> (state = "disconnected" /\ s'.queue = << >>)
  BY <1>1, <1>3, <1>12, <1>14 DEF VarTypes
<1>16. state = "open" => reading' /\ ~wr_shut'
  BY <1>1, <1>3, <1>15 DEF Control
<1>17. Inv' /\ (state = "open" => state' = "open") /\ (state # "open" => state' # "open")
  BY <1>1, <1>10, <1>11, <1>13, <1>14, <1>15, <1>16, UnlockInv
<1> QED BY <1>2, <1>12, <1>14, <1>15, <1>17

\* A flush in a state that differs from the present one in its counters.
LEMMA FlushHeld ==
    ASSUME Inv, ~splicing, NEW t, Good(t, kind), Counted(t, s), NEW h \in Nat, Locked(t, h)
    PROVE  LET z == Flush(t)
           IN  /\ Good(z, kind) /\ Held(z) /\ Locked(z, h) /\ z.error = s.error
               /\ state # "open" => z.queue = s.queue
<1> DEFINE z == Flush(t)
           w == Len(wire)
<1>1. /\ kind \in {"tcp", "pipe"} /\ w \in Nat /\ cnt \in 0..MaxBytes /\ cnt \in Nat /\ Good(s, kind)
      /\ t \in StateRec /\ Base(t)
  BY DEF Inv, VarTypes, Good, Base
<1>2. t.queue = s.queue /\ t.error = s.error /\ t.mem = s.mem /\ t.obuf = s.obuf
  BY DEF Counted
<1>3. \A x, y : Line(t, x, y) = Line(s, x, y) /\ (Carries(s, x, y) => Carries(t, x, y))
  BY <1>1, CountedOK
<1>4. CASE state = "open"
  <2>1. Carries(t, w, cnt)
    <3>1. Carries(s, w, cnt)
      BY <1>4, OpenCarries
    <3> QED BY <1>3, <3>1
  <2>2. /\ Good(z, kind) /\ Carries(z, w, cnt) /\ Locked(z, h) /\ z.error = t.error
    <3> HIDE DEF w
    <3> QED BY <1>1, <1>4, <2>1, FlushOK
  <2> HIDE DEF z
  <2>3. Held(z)
    <3> DEFINE l == Len(z.mem[z.obuf])
    <3>1. ASSUME ~z.error PROVE cnt - l \in Nat /\ Line(z, w, cnt - l) /\ RunFrom(z.mem[z.obuf], cnt - l)
      BY <2>2, <3>1 DEF Carries
    <3> HIDE DEF l
    <3>2. Holds(splicing) = 0
      BY DEF Holds
    <3>3. ASSUME ~z.error PROVE (cnt - l) - Holds(splicing) = cnt - l
      BY <3>1, <3>2, <3>3
    <3>4. ASSUME ~z.error PROVE Line(z, w, (cnt - l) - Holds(splicing)) /\ RunFrom(z.mem[z.obuf], cnt - l)
      BY <3>1, <3>3, <3>4
    <3> QED BY <1>4, <3>4 DEF Held, l, w
  <2> QED BY <1>2, <1>4, <2>2, <2>3 DEF z
<1>5. CASE state # "open"
  <2>1. Good(z, kind) /\ SameQueue(z, t) /\ z.flush_cnt = t.flush_cnt
    BY <1>1, <1>5, FlushDrops
  <2> HIDE DEF z
  <2>2. z \in StateRec /\ Places(z) /\ z.error = t.error /\ z.queue = t.queue
    BY <2>1 DEF Good, Base, SameQueue
  <2>3. OwnLocks(z) = OwnLocks(t) /\ \A x, y : Line(z, x, y) = Line(t, x, y)
    BY <1>1, <2>1, <2>2, SameQueueOK
  <2>4. Locked(z, h)
    BY <2>1, <2>3 DEF Locked
  <2>5. Held(s)
    BY InvHeld
  <2>6. Held(z)
    BY <1>2, <1>3, <1>5, <2>2, <2>3, <2>5 DEF Held
  <2> QED BY <1>2, <2>1, <2>2, <2>4, <2>6 DEF z
<1> QED BY <1>4, <1>5

\* tcp_flush_event(), pipe_flush_event().
LEMMA FlushEventInv ==
    ASSUME Inv, FlushEvent
    PROVE  /\ Inv' /\ s'.error = s.error
           /\ (state = "open" => state' = "open") /\ (state # "open" => state' # "open")
<1> DEFINE t == [s EXCEPT !.flush_cnt = s.flush_cnt - 1]
           h == Holds(reading)
<1>1. /\ state # "deleted" /\ ~splicing /\ s.flush_cnt > 0 /\ state' = StateAfter(s')
      /\ UNCHANGED <<kind, wr_shut, cnt, written, wire, reading, splicing>>
      /\ s' = IF t.flush_cnt = 0 THEN [Flush(t) EXCEPT !.lock_cnt = Flush(t).lock_cnt - 1]
              ELSE IF kind = "tcp" /\ t.eom_cnt > EomLimit THEN Flush(t) ELSE t
  BY DEF FlushEvent
<1>2. VarTypes /\ Control /\ Good(s, kind) /\ s \in StateRec /\ Held(s)
  BY InvHeld DEF Inv, Good, Base
<1>3. s.flush_cnt \in 0..2 /\ s.flush_cnt - 1 \in 0..2
  <2>1. s.flush_cnt \in 0..2
    BY <1>2, Fields
  <2> QED BY <1>1, <2>1
<1>4. /\ t \in StateRec /\ Counted(t, s) /\ t.flush_cnt = s.flush_cnt - 1 /\ t.lock_cnt = s.lock_cnt
  BY <1>2, <1>3 DEF StateRec, Counted
<1> HIDE DEF t
<1>5. Good(t, kind) /\ OwnLocks(t) = OwnLocks(s) /\ \A w, e : Line(t, w, e) = Line(s, w, e)
  BY <1>2, <1>4, CountedOK
<1>6. h \in Nat /\ OwnLocks(t) = h + 1 /\ h + 1 \in Nat /\ h + 1 > 0
  <2>1. Holds(s.flush_cnt > 0) = 1 /\ h \in Nat
    BY <1>1 DEF Holds
  <2>2. OwnLocks(t) = h + Holds(s.flush_cnt > 0)
    BY <1>2, <1>5 DEF Control
  <2> HIDE DEF h
  <2> QED BY <2>1, <2>2
<1>7. wr_shut' \in BOOLEAN /\ reading' \in BOOLEAN /\ (state = "open" => reading' /\ ~wr_shut')
  BY <1>1, <1>2 DEF VarTypes, Control
<1>8. wr_shut' => s.queue = << >> /\ state # "open"
  BY <1>1, <1>2 DEF Control
<1> HIDE DEF h
<1>9. /\ Good(s', kind) /\ Held(s') /\ Locked(s', h) /\ s'.error = s.error
      /\ state # "open" => s'.queue = s.queue
  <2>1. CASE t.flush_cnt = 0
    <3> DEFINE u == Flush(t)
    <3>1. s' = [u EXCEPT !.lock_cnt = u.lock_cnt - 1]
      BY <1>1, <2>1
    <3>2. Locked(t, h + 1)
      <4>1. Holds(t.flush_cnt > 0) = 0
        BY <2>1 DEF Holds
      <4> QED BY <1>6, <4>1 DEF Locked
    <3>3. /\ Good(u, kind) /\ Held(u) /\ Locked(u, h + 1) /\ u.error = s.error
          /\ state # "open" => u.queue = s.queue
      BY <1>1, <1>4, <1>5, <1>6, <3>2, FlushHeld
    <3> HIDE DEF u
    <3>4. u \in StateRec /\ u.lock_cnt # 0 /\ u.lock_cnt \in Nat
      BY <1>6, <3>3, LockedPositive, Fields DEF Good, Base
    <3>5. u.lock_cnt - 1 \in Nat
      BY <3>4
    <3>6. s' \in StateRec /\ Counted(s', u) /\ s'.lock_cnt = u.lock_cnt - 1 /\ s'.flush_cnt = u.flush_cnt
      BY <3>1, <3>4, <3>5 DEF StateRec, Counted
    <3>7. Good(s', kind) /\ OwnLocks(s') = OwnLocks(u) - 1 /\ \A w, e : Line(s', w, e) = Line(u, w, e)
      BY <3>3, <3>6, CountedOK
    <3>8. Locked(s', h)
      <4>1. OwnLocks(u) = (h + 1) + Holds(u.flush_cnt > 0) /\ Holds(u.flush_cnt > 0) \in Nat
        BY <3>3 DEF Locked, Holds
      <4>2. OwnLocks(s') = h + Holds(u.flush_cnt > 0)
        BY <1>6, <3>7, <4>1
      <4> QED BY <3>6, <4>2 DEF Locked
    <3>9. s'.queue = u.queue /\ s'.error = u.error /\ s'.mem = u.mem /\ s'.obuf = u.obuf
      BY <3>6 DEF Counted
    <3>10. Held(s')
      BY <3>3, <3>7, <3>9 DEF Held
    <3> QED BY <3>3, <3>7, <3>8, <3>9, <3>10
  <2>2. CASE t.flush_cnt # 0
    <3>1. Locked(t, h)
      <4>1. t.flush_cnt > 0
        BY <1>3, <1>4, <2>2
      <4>2. Holds(t.flush_cnt > 0) = 1
        BY <4>1 DEF Holds
      <4> QED BY <1>6, <4>2 DEF Locked
    <3>2. CASE s' = Flush(t)
      BY <1>1, <1>4, <1>5, <1>6, <3>1, <3>2, FlushHeld
    <3>3. CASE s' = t
      <4>1. t.queue = s.queue /\ t.error = s.error /\ t.mem = s.mem /\ t.obuf = s.obuf
        BY <1>4 DEF Counted
      <4>2. Held(t)
        BY <1>2, <1>5, <4>1 DEF Held
      <4> QED BY <1>5, <3>1, <3>3, <4>1, <4>2
    <3> QED BY <1>1, <2>2, <3>2, <3>3
  <2> QED BY <2>1, <2>2
<1>10. OwnLocks(s') = Holds(reading') + Holds(s'.flush_cnt > 0)
  BY <1>1, <1>9 DEF Locked, h
<1>11. wr_shut' => s'.queue = << >>
  BY <1>8, <1>9
<1> QED BY <1>1, <1>7, <1>9, <1>10, <1>11, UnlockInv

-----------------------------------------------------------------------------
(* The invariant holds.                                                     *)

\* A new channel has one lock, that of its reader.
LEMMA InitInv ==
    ASSUME Init
    PROVE  Inv
<1>1. /\ kind \in {"tcp", "pipe"} /\ state = "open" /\ wr_shut = FALSE /\ cnt = 0 /\ written = << >>
      /\ wire = << >> /\ reading = TRUE /\ splicing = FALSE
  BY DEF Init
<1>2. FirstBuf \in Bufs
  <2>1. Bufs # {}
    <3>1. IsFiniteSet(Bufs) /\ Cardinality(Bufs) > MaxBytes /\ MaxBytes \in Nat
      BY ConstantAssumption
    <3>2. Cardinality(Bufs) # 0
      BY <3>1
    <3> QED BY <3>1, <3>2, FS_EmptySet
  <2> QED BY <2>1 DEF FirstBuf
<1>3. /\ s.mem = [b \in Bufs |-> << >>] /\ s.pos = [b \in Bufs |-> 0] /\ s.queue = << >>
      /\ s.pool = << >> /\ s.obuf = FirstBuf /\ s.wr = None /\ s.error = FALSE
      /\ s.eom_cnt = 0 /\ s.flush_cnt = 0 /\ s.lock_cnt = 1
  BY DEF Init
<1>4. s \in StateRec
  <2>1. << >> \in Seq(1..MaxBytes) /\ << >> \in Seq(Bufs) /\ None \in Request \cup {None}
    OBVIOUS
  <2>2. [b \in Bufs |-> << >>] \in [Bufs -> Seq(1..MaxBytes)] /\ [b \in Bufs |-> 0] \in [Bufs -> Nat]
    BY <2>1
  <2>3. 0 \in Nat /\ 1 \in Nat /\ 0 \in 0..2 /\ FALSE \in BOOLEAN
    OBVIOUS
  <2> QED BY <1>2, <2>1, <2>2, <2>3 DEF Init, StateRec
<1>5. s.mem[s.obuf] = << >> /\ Len(s.mem[s.obuf]) = 0
  BY <1>2, <1>3
<1>6. ToSet(s.queue) = {} /\ ToSet(s.pool) = {}
  BY <1>3 DEF ToSet
<1>7. Places(s)
  <2>1. MaxPool \in Nat
    BY ConstantAssumption
  <2> QED BY <1>3, <1>6, <2>1 DEF Places, NoRepeat
<1>8. InFlight(s)
  BY <1>3 DEF InFlight
<1>9. Good(s, kind)
  <2>1. Sizes(s, kind)
    BY <1>3, ConstantAssumption DEF Sizes, Room
  <2> QED BY <1>3, <1>4, <1>6, <1>7, <1>8, <2>1 DEF Good, Base, Aside
<1>10. VarTypes
  <2>1. 0 \in 0..MaxBytes /\ << >> \in Seq(1..MaxBytes)
    BY ConstantAssumption
  <2> QED BY <1>1, <2>1 DEF VarTypes
<1>11. Ghosts
  BY <1>1, ConstantAssumption DEF Ghosts, RunFrom
<1>12. Output
  <2>1. EndOfQueue = (0 - 0) - 0
    BY <1>1, <1>5 DEF EndOfQueue, Holds
  <2>2. EndOfQueue = 0 /\ Len(wire) = 0
    BY <1>1, <2>1
  <2>3. Line(s, 0, 0)
    BY <1>3, <1>4, EmptyLine
  <2>4. \A x : RunFrom(s.mem[s.obuf], x)
    BY <1>5 DEF RunFrom
  <2> QED BY <2>2, <2>3, <2>4 DEF Output
<1>13. Control
  <2>1. OwnLocks(s) = 1 /\ Holds(reading) = 1 /\ Holds(s.flush_cnt > 0) = 0
    BY <1>1, <1>3 DEF OwnLocks, Holds
  <2> QED BY <1>1, <1>3, <2>1 DEF Control
<1> QED BY <1>9, <1>10, <1>11, <1>12, <1>13 DEF Inv

\* A step that changes nothing.
LEMMA StutterInv ==
    ASSUME Inv, UNCHANGED vars
    PROVE  Inv'
<1>1. /\ kind' = kind /\ s' = s /\ state' = state /\ wr_shut' = wr_shut /\ cnt' = cnt
      /\ written' = written /\ wire' = wire /\ reading' = reading /\ splicing' = splicing
  BY DEF vars
<1>2. EndOfQueue' = EndOfQueue
  BY <1>1 DEF EndOfQueue
<1>3. VarTypes' /\ Ghosts' /\ Control' /\ Output'
  BY <1>1, <1>2 DEF Inv, VarTypes, Ghosts, Control, Output
<1> QED BY <1>1, <1>3 DEF Inv

\* Every step keeps the invariant.
LEMMA NextInv ==
    ASSUME Inv, [Next]_vars
    PROVE  Inv'
<1>1. CASE \E eom \in BOOLEAN : WriteStream(eom)
  BY <1>1, WriteStreamInv
<1>2. CASE \E n \in 1..MaxBytes : PipeWriteBlock(n)
  BY <1>2, PipeWriteBlockInv
<1>3. CASE SpliceStart
  BY <1>3, SpliceStartInv
<1>4. CASE SpliceEnd
  BY <1>4, SpliceEndInv
<1>5. CASE FlushEvent
  BY <1>5, FlushEventInv
<1>6. CASE \E n \in 1..BufSize : WorkerSend(n)
  BY <1>6, WorkerSendInv
<1>7. CASE \E error \in BOOLEAN : WorkerSendNothing(error)
  BY <1>7, WorkerSendNothingInv
<1>8. CASE DoneWriteRequest
  BY <1>8, DoneWriteRequestInv
<1>9. CASE SendEofAndClose
  BY <1>9, SendEofAndCloseInv
<1>10. CASE LastReadDone
  BY <1>10, LastReadDoneInv
<1>11. CASE UNCHANGED vars
  BY <1>11, StutterInv
<1> QED BY <1>1, <1>2, <1>3, <1>4, <1>5, <1>6, <1>7, <1>8, <1>9, <1>10, <1>11 DEF Next

-----------------------------------------------------------------------------
(* The theorems.                                                            *)

\* The invariant, for every behaviour.
LEMMA InvCorrect == Spec => []Inv
<1>1. Init => Inv
  BY InitInv
<1>2. Inv /\ [Next]_vars => Inv'
  BY NextInv
<1> QED BY <1>1, <1>2, PTL DEF Spec

\* The invariant says that every buffer is in one place.
LEMMA InvBufferOnce ==
    ASSUME Inv
    PROVE  BufferOnce
<1>1. VarTypes /\ Good(s, kind) /\ s \in StateRec /\ Places(s) /\ Aside(s)
  BY DEF Inv, Good, Base
<1>2. TypeOK
  BY <1>1 DEF VarTypes, TypeOK
<1>3. Len(s.pool) <= MaxPool
  BY <1>1 DEF Places
<1>4. IsInjective(<<s.obuf>> \o s.queue \o s.pool)
  <2> DEFINE a == <<s.obuf>> \o s.queue
             x == a \o s.pool
  <2>1. s.queue \in Seq(Bufs) /\ s.pool \in Seq(Bufs) /\ s.obuf \in Bufs
    BY <1>1, Fields
  <2>2. /\ NoRepeat(s.queue) /\ NoRepeat(s.pool) /\ ToSet(s.queue) \cap ToSet(s.pool) = {}
        /\ s.obuf \notin ToSet(s.queue) /\ s.obuf \notin ToSet(s.pool)
    BY <1>1 DEF Places, Aside
  <2>3. a \in Seq(Bufs) /\ ToSet(a) = ToSet(s.queue) \cup {s.obuf} /\ NoRepeat(a)
    BY <2>1, <2>2, PrependMembers
  <2> HIDE DEF a
  <2>4. ToSet(a) \cap ToSet(s.pool) = {}
    BY <2>2, <2>3
  <2>5. NoRepeat(x)
    BY <2>1, <2>2, <2>3, <2>4, ConcatMembers
  <2>6. x \in Seq(Bufs)
    BY <2>1, <2>3, ConcatEntries
  <2> HIDE DEF x
  <2>7. DOMAIN x = 1..Len(x)
    BY <2>6
  <2> QED BY <2>5, <2>7 DEF NoRepeat, IsInjective, x, a
<1>5. \A b \in Bufs : Len(s.mem[b]) <= IF b = s.obuf THEN Capacity ELSE BufSize
  <2>1. Capacity = Room(kind)
    BY DEF Capacity, Room
  <2> QED BY <1>1, <2>1 DEF Good, Sizes
<1> QED BY <1>2, <1>3, <1>4, <1>5 DEF BufferOnce

\* The invariant says that the first buffer is being sent.
LEMMA InvHeadInFlight ==
    ASSUME Inv
    PROVE  HeadInFlight
<1>1. s \in StateRec /\ InFlight(s)
  BY DEF Inv, Good, Base
<1>2. s.queue \in Seq(Bufs)
  BY <1>1, Fields
<1>3. ASSUME s.wr # None PROVE s.wr.buf = Head(s.queue) /\ s.wr.from = s.pos[s.wr.buf]
  <2>1. s.queue # << >> /\ Asks(s.wr, s)
    BY <1>1, <1>3 DEF InFlight
  <2>2. Head(s.queue) = s.queue[1]
    BY <1>2, <2>1
  <2> QED BY <2>1, <2>2 DEF Asks
<1> QED BY <1>1, <1>3 DEF InFlight, HeadInFlight

\* The invariant says that the bytes are in order.
LEMMA InvBytesInOrder ==
    ASSUME Inv
    PROVE  BytesInOrder
<1> SUFFICES ASSUME ~s.error PROVE BytesInOrder
  BY DEF BytesInOrder
<1> DEFINE kept == IF state = "open" THEN s.mem[s.obuf] ELSE << >>
           after == Len(written) - Len(kept)
<1>1. Line(s, Len(wire), EndOfQueue) /\ Len(s.mem[s.obuf]) \in Nat
  BY EndTyped DEF Inv, Output
<1>2. Len(written) \in Nat /\ Ghosts /\ Control
  BY DEF Inv, VarTypes
<1>3. \A i \in 1..Len(written) : written[i] = i
  BY <1>2 DEF Ghosts, RunFrom
<1>4. \A i \in 1..Len(wire) : wire[i] = i
  BY <1>2 DEF Ghosts, RunFrom
<1>5. /\ after \in Int /\ EndOfQueue = IF splicing THEN after - 1 ELSE after
      /\ splicing => cnt = after
      /\ \A k \in 1..Len(kept) : kept[k] = after + k
  <2>1. CASE state = "open"
    <3> DEFINE m == s.mem[s.obuf]
    <3>1. kept = m /\ cnt = Len(written) /\ RunFrom(m, cnt - Len(m))
      BY <1>2, <2>1 DEF Inv, Output, Ghosts
    <3>2. after = cnt - Len(m) /\ after \in Int
      BY <1>1, <1>2, <3>1
    <3>3. EndOfQueue = after - Holds(splicing)
      BY <2>1, <3>2 DEF EndOfQueue
    <3>4. splicing => Len(m) = 0
      BY <1>2 DEF Control
    <3>5. splicing => cnt = after
      BY <1>2, <3>1, <3>2, <3>4
    <3>6. EndOfQueue = IF splicing THEN after - 1 ELSE after
      <4> HIDE DEF after
      <4> QED BY <3>2, <3>3 DEF Holds
    <3>7. \A k \in 1..Len(kept) : kept[k] = after + k
      <4> HIDE DEF after, kept, m
      <4> QED BY <3>1, <3>2 DEF RunFrom
    <3> QED BY <3>2, <3>5, <3>6, <3>7
  <2>2. CASE state # "open"
    <3>1. kept = << >> /\ ~splicing
      BY <1>2, <2>2 DEF Control
    <3>2. after = Len(written)
      BY <1>2, <3>1
    <3>3. EndOfQueue = Len(written)
      BY <2>2 DEF EndOfQueue
    <3>4. \A k \in 1..Len(kept) : kept[k] = after + k
      <4> HIDE DEF after, kept
      <4>1. 1..Len(kept) = {}
        BY <3>1
      <4> QED BY <4>1
    <3> HIDE DEF after, kept
    <3> QED BY <1>2, <3>1, <3>2, <3>3, <3>4
  <2> QED BY <2>1, <2>2
<1>6. InOrder(Blocks(s), Len(wire) - HeadSent(s), IF splicing THEN after - 1 ELSE after)
  BY <1>1, <1>5 DEF Line, Chain
<1> QED BY <1>3, <1>4, <1>5, <1>6 DEF BytesInOrder

\* QueueSound (outputbuf.c): a buffer is in one place and the first one of the
\* queue is being sent; what was sent and what is queued is what was written,
\* in order, whatever the sizes of buffers, pool and blocks.
THEOREM QueueCorrect == Spec => []QueueSound
<1>1. Inv => QueueSound
  BY InvBufferOnce, InvHeadInFlight, InvBytesInOrder DEF QueueSound
<1> QED BY <1>1, InvCorrect, PTL

\* LocksExact (channel_tcp.c, channel_pipe.c): the lock count of a channel is
\* the number of its holders, and the channel is deleted exactly when it is 0.
THEOREM LocksCorrect == Spec => []LocksExact
<1>1. ASSUME Inv PROVE LocksExact
  <2>1. s \in StateRec /\ Holds(reading) \in Nat /\ Locked(s, Holds(reading))
    BY <1>1 DEF Inv, Good, Base, Control, Locked, Holds
  <2>2. s.lock_cnt = Holds(reading) + Holds(s.flush_cnt > 0) + Holds(s.wr # None)
    BY <2>1, LockedPositive
  <2>3. s.lock_cnt = (IF reading THEN 1 ELSE 0) + (IF s.wr # None THEN 1 ELSE 0)
                       + (IF s.flush_cnt > 0 THEN 1 ELSE 0)
    BY <2>2 DEF Holds
  <2>4. state = "deleted" <=> s.lock_cnt = 0
    BY <1>1 DEF Inv, Control
  <2> QED BY <2>3, <2>4 DEF LocksExact
<1> QED BY <1>1, InvCorrect, PTL

-----------------------------------------------------------------------------
(* The channel implements ByteStream.                                       *)

\* A list of the bytes from 1 on is the beginning of a longer one.
LEMMA RunPrefix ==
    ASSUME NEW x \in Seq(1..MaxBytes), NEW y \in Seq(1..MaxBytes), RunFrom(x, 0), RunFrom(y, 0),
           Len(x) <= Len(y)
    PROVE  x = SubSeq(y, 1, Len(x)) /\ Len(x) \in 0..Len(y)
<1> DEFINE z == SubSeq(y, 1, Len(x))
<1>1. Len(x) \in Nat /\ Len(y) \in Nat /\ Len(x) \in 0..Len(y)
  OBVIOUS
<1>2. z \in Seq(1..MaxBytes) /\ Len(z) = Len(x) /\ \A i \in 1..Len(x) : z[i] = y[i]
  BY <1>1, SplitEntries
<1> HIDE DEF z
<1>3. ASSUME NEW i \in 1..Len(x) PROVE x[i] = z[i]
  <2>1. x[i] = 0 + i
    BY DEF RunFrom
  <2>2. i \in 1..Len(y)
    BY <1>1
  <2>3. y[i] = 0 + i
    BY <2>2 DEF RunFrom
  <2> QED BY <1>2, <2>1, <2>3
<1>4. x = z
  BY <1>2, <1>3, SeqEqual
<1> QED BY <1>1, <1>4 DEF z

\* Bytes that are written to an open channel extend the stream.
LEMMA StreamExtends ==
    ASSUME Inv, Inv', state = "open", NEW n \in Nat, n > 0, cnt + n <= MaxBytes,
           written' = Written(n)
    PROVE  Stream!Extend
<1>1. VarTypes /\ Ghosts /\ written \in Seq(1..MaxBytes) /\ Len(written) \in Nat /\ RunFrom(written, 0)
  BY DEF Inv, VarTypes, Ghosts
<1>2. /\ written' \in Seq(1..MaxBytes) /\ Len(written') = Len(written) + n /\ RunFrom(written', 0)
  BY <1>1, WrittenOK
<1>3. Len(written') > Len(written) /\ Len(written) <= Len(written')
  BY <1>1, <1>2
<1>4. written = SubSeq(written', 1, Len(written))
  BY <1>1, <1>2, <1>3, RunPrefix
<1> QED BY <1>2, <1>3, <1>4 DEF Stream!Extend

\* Bytes that are sent are the next ones of the stream.
LEMMA StreamSends ==
    ASSUME Inv, Inv', UNCHANGED <<written, state, wr_shut>>, s'.error = s.error, ~s.error, ~wr_shut,
           Len(wire') > Len(wire)
    PROVE  Stream!Send
<1>1. /\ wire' \in Seq(1..MaxBytes) /\ RunFrom(wire', 0) /\ Len(wire') <= Len(written)
      /\ written \in Seq(1..MaxBytes) /\ RunFrom(written, 0)
  BY DEF Inv, VarTypes, Ghosts
<1>2. wire' = SubSeq(written, 1, Len(wire')) /\ Len(wire') \in 0..Len(written)
  BY <1>1, RunPrefix
<1> QED BY <1>2 DEF Stream!Send

\* What the abstract stream sees of the state.
StreamSame ==
    /\ written' = written /\ wire' = wire /\ s'.error = s.error /\ wr_shut' = wr_shut
    /\ state' = "open" <=> state = "open"

\* Steps that write.
LEMMA WriteRefines ==
    ASSUME Inv, Inv', NEW n \in Nat, n > 0, cnt + n <= MaxBytes, written' = Written(n),
           UNCHANGED <<state, wr_shut, wire>>, s'.error = s.error
    PROVE  Stream!Write \/ StreamSame
<1>1. CASE state = "open"
  <2>1. Stream!Extend
    BY <1>1, StreamExtends
  <2> QED BY <1>1, <2>1 DEF Stream!Write
<1>2. CASE state # "open"
  BY <1>2 DEF Written, StreamSame
<1> QED BY <1>1, <1>2

\* The end of a splice sends its block, or fails.
LEMMA SpliceEndRefines ==
    ASSUME Inv, SpliceEnd
    PROVE  Stream!Send \/ Stream!Fail \/ StreamSame
<1>1. Inv' /\ UNCHANGED <<state, wr_shut, written>> /\ splicing
  BY SpliceEndInv DEF SpliceEnd
<1>2. ~wr_shut /\ s \in StateRec /\ s.error \in BOOLEAN /\ wire \in Seq(1..MaxBytes)
  BY <1>1, Fields DEF Inv, Control, Good, Base, VarTypes
<1>3. CASE ~s.error /\ wire' = Append(wire, cnt) /\ UNCHANGED s
  <2>1. Len(wire') > Len(wire)
    BY <1>2, <1>3
  <2>2. s'.error = s.error
    BY <1>3
  <2> QED BY <1>1, <1>2, <1>3, <2>1, <2>2, StreamSends
<1>4. CASE s' = [s EXCEPT !.error = TRUE] /\ UNCHANGED wire
  <2>1. s'.error = TRUE
    BY <1>2, <1>4 DEF StateRec
  <2>2. CASE s.error
    BY <1>1, <1>2, <1>4, <2>1, <2>2 DEF StreamSame
  <2>3. CASE ~s.error
    BY <1>1, <1>2, <1>4, <2>1, <2>3 DEF Stream!Fail
  <2> QED BY <2>2, <2>3
<1> QED BY <1>3, <1>4 DEF SpliceEnd

\* A completed request shuts the connection down, fails, or changes nothing.
LEMMA DoneRefines ==
    ASSUME Inv, DoneWriteRequest
    PROVE  Stream!Shut \/ Stream!Fail \/ StreamSame
<1>1. /\ Inv' /\ (state = "open" => state' = "open") /\ (state # "open" => state' # "open")
      /\ ~s.error /\ ~wr_shut
      /\ wr_shut' => state = "disconnected" /\ s'.queue = << >>
  BY DoneWriteRequestInv
<1>2. UNCHANGED <<written, wire>>
  BY DEF DoneWriteRequest
<1>3. s'.error \in BOOLEAN /\ s.error \in BOOLEAN /\ wr_shut' \in BOOLEAN /\ wr_shut \in BOOLEAN
  BY <1>1, Fields DEF Inv, Good, Base, VarTypes
<1>4. CASE wr_shut'
  <2>1. ASSUME ~s'.error PROVE wire = written
    <3>1. Inv' /\ state' # "open" /\ s'.queue = << >>
      BY <1>1, <1>4
    <3>2. /\ wire \in Seq(1..MaxBytes) /\ RunFrom(wire, 0) /\ s' \in StateRec /\ Len(wire) \in Nat
          /\ written \in Seq(1..MaxBytes) /\ RunFrom(written, 0) /\ Len(written) \in Nat
      BY <1>2, <3>1 DEF Inv, VarTypes, Ghosts, Good, Base
    <3>3. Line(s', Len(wire), Len(written))
      <4>1. EndOfQueue' = Len(written)
        BY <1>2, <3>1 DEF EndOfQueue
      <4> QED BY <1>2, <2>1, <3>1, <4>1 DEF Inv, Output
    <3>4. Len(written) = Len(wire)
      BY <3>1, <3>2, <3>3, EmptyLine
    <3>5. wire = SubSeq(written, 1, Len(wire))
      BY <3>2, <3>4, RunPrefix
    <3>6. written = SubSeq(written, 1, Len(written))
      BY <3>2, RunPrefix
    <3> QED BY <3>4, <3>5, <3>6
  <2> QED BY <1>1, <1>2, <1>3, <1>4, <2>1 DEF Stream!Shut
<1>5. CASE ~wr_shut' /\ s'.error
  BY <1>1, <1>2, <1>3, <1>5 DEF Stream!Fail
<1>6. CASE ~wr_shut' /\ ~s'.error
  BY <1>1, <1>2, <1>3, <1>6 DEF StreamSame
<1> QED BY <1>4, <1>5, <1>6

\* Closing writes the last message.
LEMMA CloseRefines ==
    ASSUME Inv, SendEofAndClose
    PROVE  Stream!Close
<1>1. Inv' /\ s'.error = s.error /\ (~s.error => s'.queue # << >>)
  BY SendEofAndCloseInv
<1>2. /\ state = "open" /\ written' = Written(1) /\ wr_shut' = (s'.queue = << >>)
      /\ state' = "disconnected" /\ UNCHANGED wire
  BY DEF SendEofAndClose, MayShut
<1>3. cnt \in Nat /\ MaxBytes \in Nat /\ cnt < MaxBytes /\ s.error \in BOOLEAN
  BY <1>2, ConstantAssumption, Fields DEF Inv, VarTypes, Ghosts, Good, Base
<1>4. Stream!Extend
  <2>1. 1 \in Nat /\ 1 > 0 /\ cnt + 1 <= MaxBytes
    BY <1>3
  <2> QED BY <1>1, <1>2, <2>1, StreamExtends
<1>5. s.error => s'.queue = << >>
  BY <1>1 DEF Inv, Good, Base
<1>6. wr_shut' = s.error
  BY <1>1, <1>2, <1>3, <1>5
<1> QED BY <1>1, <1>2, <1>4, <1>6 DEF Stream!Close

\* Every step is a step of the stream or changes nothing of it.
LEMMA NextRefines ==
    ASSUME Inv, Next
    PROVE  Stream!Next \/ StreamSame
<1>0. cnt \in Nat /\ MaxBytes \in Nat
  BY ConstantAssumption DEF Inv, VarTypes
<1>1. CASE \E eom \in BOOLEAN : WriteStream(eom)
  <2>1. PICK eom \in BOOLEAN : WriteStream(eom)
    BY <1>1
  <2>2. Inv' /\ s'.error = s.error
    BY <2>1, WriteStreamInv
  <2>3. /\ 1 \in Nat /\ 1 > 0 /\ cnt + 1 <= MaxBytes /\ written' = Written(1)
        /\ UNCHANGED <<state, wr_shut, wire>>
    BY <1>0, <2>1 DEF WriteStream
  <2>4. Stream!Write \/ StreamSame
    BY <2>2, <2>3, WriteRefines
  <2> QED BY <2>4 DEF Stream!Next
<1>2. CASE \E n \in 1..MaxBytes : PipeWriteBlock(n)
  <2>1. PICK n \in 1..MaxBytes : PipeWriteBlock(n)
    BY <1>2
  <2>2. Inv' /\ s'.error = s.error
    BY <2>1, PipeWriteBlockInv
  <2>3. written' = Written(n + 1) /\ UNCHANGED <<state, wr_shut, wire>> /\ cnt + n + 1 < MaxBytes
    BY <2>1 DEF PipeWriteBlock
  <2>4. n + 1 \in Nat /\ n + 1 > 0 /\ cnt + (n + 1) <= MaxBytes
    BY <1>0, <2>3
  <2>5. Stream!Write \/ StreamSame
    BY <2>2, <2>3, <2>4, WriteRefines
  <2> QED BY <2>5 DEF Stream!Next
<1>3. CASE SpliceStart
  <2>1. Inv' /\ s'.error = s.error
    BY <1>3, SpliceStartInv
  <2>2. /\ 2 \in Nat /\ 2 > 0 /\ cnt + 2 <= MaxBytes /\ written' = Written(2)
        /\ UNCHANGED <<state, wr_shut, wire>>
    BY <1>0, <1>3 DEF SpliceStart
  <2>3. Stream!Write \/ StreamSame
    BY <2>1, <2>2, WriteRefines
  <2> QED BY <2>3 DEF Stream!Next
<1>4. CASE SpliceEnd
  BY <1>4, SpliceEndRefines DEF Stream!Next
<1>5. CASE FlushEvent
  <2>1. s'.error = s.error /\ (state = "open" => state' = "open") /\ (state # "open" => state' # "open")
    BY <1>5, FlushEventInv
  <2>2. UNCHANGED <<written, wire, wr_shut>>
    BY <1>5 DEF FlushEvent
  <2> QED BY <2>1, <2>2 DEF StreamSame
<1>6. CASE \E n \in 1..BufSize : WorkerSend(n)
  <2>1. PICK n \in 1..BufSize : WorkerSend(n)
    BY <1>6
  <2>2. /\ Inv' /\ s'.error = s.error /\ ~s.error /\ s.queue # << >> /\ Len(wire') = Len(wire) + n
    BY <2>1, WorkerSendInv
  <2>3. UNCHANGED <<written, state, wr_shut>>
    BY <2>1 DEF WorkerSend
  <2>4. Len(wire') > Len(wire) /\ ~wr_shut
    BY <2>2 DEF Inv, VarTypes, Control
  <2>5. Stream!Send
    BY <2>2, <2>3, <2>4, StreamSends
  <2> QED BY <2>5 DEF Stream!Next
<1>7. CASE \E error \in BOOLEAN : WorkerSendNothing(error)
  <2>1. PICK error \in BOOLEAN : WorkerSendNothing(error)
    BY <1>7
  <2>2. s'.error = s.error
    BY <2>1, WorkerSendNothingInv
  <2> QED BY <2>1, <2>2 DEF WorkerSendNothing, StreamSame
<1>8. CASE DoneWriteRequest
  BY <1>8, DoneRefines DEF Stream!Next
<1>9. CASE SendEofAndClose
  BY <1>9, CloseRefines DEF Stream!Next
<1>10. CASE LastReadDone
  <2>1. s'.error = s.error /\ state' # "open"
    BY <1>10, LastReadDoneInv
  <2> QED BY <1>10, <2>1 DEF LastReadDone, StreamSame
<1> QED BY <1>1, <1>2, <1>3, <1>4, <1>5, <1>6, <1>7, <1>8, <1>9, <1>10 DEF Next

\* ImplementsByteStream: the peer receives a prefix of what was written before
\* the channel was closed, and the connection is shut down only when all of it
\* was sent or sending failed.
THEOREM StreamRefined == Spec => ImplementsByteStream
<1>1. Init => Stream!Init
  BY DEF Init, Stream!Init
<1>2. Inv /\ [Next]_vars => [Stream!Next]_(Stream!vars)
  <2> SUFFICES ASSUME Inv, [Next]_vars PROVE Stream!Next \/ UNCHANGED Stream!vars
    OBVIOUS
  <2>1. CASE Next
    BY <2>1, NextRefines DEF StreamSame, Stream!vars
  <2>2. CASE UNCHANGED vars
    BY <2>2 DEF vars, Stream!vars
  <2> QED BY <2>1, <2>2
<1> QED BY <1>1, <1>2, InvCorrect, PTL DEF Spec, ImplementsByteStream, Stream!Spec
=============================================================================
