----------------------------- MODULE ListLemmas -----------------------------
(* Facts about the sequences that model the linked lists of the agent        *)
(* (framework/link.h): linking, unlinking and splicing.                     *)
EXTENDS Integers, Sequences, SequencesExt, SequenceTheorems, TLAPS

-----------------------------------------------------------------------------
(* Entries by position.                                                     *)

\* The entries of a concatenation.
LEMMA ConcatEntries ==
    ASSUME NEW S, NEW a \in Seq(S), NEW b \in Seq(S)
    PROVE  /\ a \o b \in Seq(S)
           /\ Len(a \o b) = Len(a) + Len(b)
           /\ \A i \in 1..(Len(a) + Len(b)) :
                /\ i <= Len(a) => (a \o b)[i] = a[i]
                /\ i > Len(a) => (a \o b)[i] = b[i - Len(a)] /\ i - Len(a) \in 1..Len(b)
  OBVIOUS

\* The entries of the first k of a list, and of the others.
LEMMA SplitEntries ==
    ASSUME NEW S, NEW s \in Seq(S), NEW k \in 0..Len(s)
    PROVE  LET a == SubSeq(s, 1, k)
               b == SubSeq(s, k + 1, Len(s))
           IN  /\ a \in Seq(S) /\ Len(a) = k /\ \A i \in 1..k : a[i] = s[i]
               /\ b \in Seq(S) /\ Len(b) = Len(s) - k /\ \A i \in 1..(Len(s) - k) : b[i] = s[k + i]
<1>1. Len(s) \in Nat /\ k \in Nat /\ k <= Len(s)
  OBVIOUS
<1> QED BY <1>1

\* t is s with e linked behind the first k entries.
Inserted(t, s, k, e) ==
    /\ Len(t) = Len(s) + 1
    /\ \A i \in 1..(Len(s) + 1) :
          /\ i <= k => t[i] = s[i]
          /\ i = k + 1 => t[i] = e
          /\ i > k + 1 => t[i] = s[i - 1]

\* t is s without entry k.
Removed(t, s, k) ==
    /\ Len(t) = Len(s) - 1
    /\ \A i \in 1..(Len(s) - 1) :
          /\ i < k => t[i] = s[i]
          /\ i >= k => t[i] = s[i + 1]

\* a is q with the first k entries of s in front of it, b the rest of s.
Splices(a, b, s, q, k) ==
    /\ Len(a) = k + Len(q)
    /\ \A i \in 1..k : a[i] = s[i]
    /\ \A i \in 1..Len(q) : a[i + k] = q[i]
    /\ Len(b) = Len(s) - k
    /\ \A i \in 1..Len(b) : b[i] = s[i + k]

\* What linking a node in the middle of a list does.
LEMMA InsertAtInserts ==
    ASSUME NEW S, NEW s \in Seq(S), NEW k \in 0..Len(s), NEW e \in S
    PROVE  /\ InsertAt(s, k + 1, e) \in Seq(S)
           /\ Inserted(InsertAt(s, k + 1, e), s, k, e)
<1> DEFINE a == SubSeq(s, 1, k)
           b == SubSeq(s, k + 1, Len(s))
           m == a \o <<e>>
<1>0. Len(s) \in Nat /\ k \in Nat /\ (k + 1) - 1 = k
  OBVIOUS
<1>1. a \in Seq(S) /\ Len(a) = k /\ \A i \in 1..k : a[i] = s[i]
  OBVIOUS
<1>2. /\ b \in Seq(S) /\ Len(b) = Len(s) - k
      /\ \A i \in 1..(Len(s) - k) : b[i] = s[i + k]
  OBVIOUS
<1>3. InsertAt(s, k + 1, e) = m \o b
  BY <1>0 DEF InsertAt
<1> HIDE DEF a, b
<1>4. /\ m \in Seq(S) /\ Len(m) = k + 1
      /\ \A i \in 1..k : m[i] = s[i]
      /\ m[k + 1] = e
  BY <1>1
<1> HIDE DEF m
<1>5. /\ m \o b \in Seq(S) /\ Len(m \o b) = Len(s) + 1
  <2>1. m \o b \in Seq(S) /\ Len(m \o b) = Len(m) + Len(b)
    BY <1>2, <1>4, ConcatEntries
  <2>2. Len(m) + Len(b) = Len(s) + 1
    BY <1>0, <1>2, <1>4
  <2> QED BY <2>1, <2>2
<1>6. ASSUME NEW i \in 1..(Len(s) + 1)
      PROVE  /\ i <= k => (m \o b)[i] = s[i]
             /\ i = k + 1 => (m \o b)[i] = e
             /\ i > k + 1 => (m \o b)[i] = s[i - 1]
  <2>1. CASE i <= k + 1
    <3>1. (m \o b)[i] = m[i]
      BY <2>1, <1>2, <1>4, ConcatEntries
    <3> QED BY <2>1, <3>1, <1>4
  <2>2. CASE i > k + 1
    <3>1. (m \o b)[i] = b[i - (k + 1)]
      BY <2>2, <1>2, <1>4, ConcatEntries
    <3>2. i - (k + 1) \in 1..(Len(s) - k) /\ (i - (k + 1)) + k = i - 1
      BY <2>2
    <3>3. b[i - (k + 1)] = s[(i - (k + 1)) + k]
      BY <3>2, <1>2
    <3>4. (m \o b)[i] = s[i - 1]
      BY <3>1, <3>2, <3>3
    <3>5. ~(i <= k) /\ i # k + 1
      BY <2>2, <1>0
    <3> QED BY <3>4, <3>5
  <2>3. i <= k + 1 \/ i > k + 1
    BY <1>0
  <2> QED BY <2>1, <2>2, <2>3
<1>7. Inserted(m \o b, s, k, e)
  BY <1>5, <1>6 DEF Inserted
<1> QED BY <1>3, <1>5, <1>7

\* Every entry afterwards is the new one or an old one.
LEMMA InsertedEntries ==
    ASSUME NEW S, NEW s \in Seq(S), NEW k \in 0..Len(s), NEW e, NEW x,
           Inserted(x, s, k, e), NEW i \in 1..Len(x)
    PROVE  x[i] = e \/ \E j \in 1..Len(s) : x[i] = s[j]
<1>1. Len(s) \in Nat /\ Len(x) = Len(s) + 1 /\ k \in Nat /\ k <= Len(s)
  BY DEF Inserted
<1>3. i \in 1..(Len(s) + 1)
  BY <1>1
<1>4. CASE i <= k
  <2>1. i \in 1..Len(s)
    BY <1>1, <1>3, <1>4
  <2> QED BY <1>3, <1>4, <2>1 DEF Inserted
<1>5. CASE i = k + 1
  BY <1>3, <1>5 DEF Inserted
<1>6. CASE i > k + 1
  <2>1. i - 1 \in 1..Len(s)
    BY <1>1, <1>3, <1>6
  <2>2. x[i] = s[i - 1]
    BY <1>3, <1>6 DEF Inserted
  <2> QED BY <2>1, <2>2
<1> QED BY <1>1, <1>3, <1>4, <1>5, <1>6

\* What unlinking a node of a list does.
LEMMA RemoveAtRemoves ==
    ASSUME NEW S, NEW s \in Seq(S), NEW k \in 1..Len(s)
    PROVE  RemoveAt(s, k) \in Seq(S) /\ Removed(RemoveAt(s, k), s, k)
<1> DEFINE a == SubSeq(s, 1, k - 1)
           b == SubSeq(s, k + 1, Len(s))
<1>0. Len(s) \in Nat /\ k \in Nat
  OBVIOUS
<1>1. a \in Seq(S) /\ Len(a) = k - 1 /\ \A i \in 1..(k - 1) : a[i] = s[i]
  OBVIOUS
<1>2. /\ b \in Seq(S) /\ Len(b) = Len(s) - k
      /\ \A i \in 1..(Len(s) - k) : b[i] = s[i + k]
  OBVIOUS
<1>3. RemoveAt(s, k) = a \o b
  BY DEF RemoveAt
<1> HIDE DEF a, b
<1>4. a \o b \in Seq(S) /\ Len(a \o b) = Len(s) - 1
  <2>1. a \o b \in Seq(S) /\ Len(a \o b) = Len(a) + Len(b)
    BY <1>1, <1>2, ConcatEntries
  <2>2. Len(a) + Len(b) = Len(s) - 1
    BY <1>0, <1>1, <1>2
  <2> QED BY <2>1, <2>2
<1>5. ASSUME NEW i \in 1..(Len(s) - 1)
      PROVE  /\ i < k => (a \o b)[i] = s[i]
             /\ i >= k => (a \o b)[i] = s[i + 1]
  <2>1. CASE i < k
    <3>1. (a \o b)[i] = a[i]
      BY <2>1, <1>1, <1>2, ConcatEntries
    <3> QED BY <2>1, <3>1, <1>1
  <2>2. CASE i >= k
    <3>0. i \in 1..(Len(a) + Len(b)) /\ i > Len(a) /\ i - Len(a) = i - (k - 1)
      BY <2>2, <1>0, <1>1, <1>2
    <3>1. (a \o b)[i] = b[i - (k - 1)]
      BY <3>0, <1>1, <1>2, ConcatEntries
    <3>2. i - (k - 1) \in 1..(Len(s) - k) /\ (i - (k - 1)) + k = i + 1
      BY <2>2, <1>0
    <3>3. b[i - (k - 1)] = s[(i - (k - 1)) + k]
      BY <3>2, <1>2
    <3>4. (a \o b)[i] = s[i + 1]
      BY <3>1, <3>2, <3>3
    <3>5. ~(i < k)
      BY <2>2, <1>0
    <3> QED BY <3>4, <3>5
  <2>3. i < k \/ i >= k
    BY <1>0
  <2> QED BY <2>1, <2>2, <2>3
<1>6. Removed(a \o b, s, k)
  BY <1>4, <1>5 DEF Removed
<1> QED BY <1>3, <1>4, <1>6

\* What splicing the first k nodes of one list in front of another does.
LEMMA SubSeqSplices ==
    ASSUME NEW S, NEW s \in Seq(S), NEW q \in Seq(S), NEW k \in 1..Len(s)
    PROVE  /\ SubSeq(s, 1, k) \o q \in Seq(S)
           /\ SubSeq(s, k + 1, Len(s)) \in Seq(S)
           /\ Splices(SubSeq(s, 1, k) \o q, SubSeq(s, k + 1, Len(s)), s, q, k)
<1> DEFINE a == SubSeq(s, 1, k)
           b == SubSeq(s, k + 1, Len(s))
<1>0. Len(s) \in Nat /\ Len(q) \in Nat /\ k \in Nat
  OBVIOUS
<1>1. a \in Seq(S) /\ Len(a) = k /\ \A i \in 1..k : a[i] = s[i]
  OBVIOUS
<1>2. /\ b \in Seq(S) /\ Len(b) = Len(s) - k
      /\ \A i \in 1..(Len(s) - k) : b[i] = s[i + k]
  OBVIOUS
<1> HIDE DEF a, b
<1>3. a \o q \in Seq(S) /\ Len(a \o q) = k + Len(q)
  BY <1>1, ConcatEntries
<1>4. ASSUME NEW i \in 1..k
      PROVE  (a \o q)[i] = s[i]
  <2>1. i \in 1..(Len(a) + Len(q)) /\ i <= Len(a)
    BY <1>0, <1>1
  <2>2. (a \o q)[i] = a[i]
    BY <1>1, <2>1, ConcatEntries
  <2> QED BY <1>1, <2>2
<1>5. ASSUME NEW i \in 1..Len(q)
      PROVE  (a \o q)[i + k] = q[i]
  <2>1. i + k \in 1..(Len(a) + Len(q)) /\ i + k > Len(a) /\ (i + k) - Len(a) = i
    BY <1>0, <1>1
  <2>2. (a \o q)[i + k] = q[(i + k) - Len(a)]
    BY <1>1, <2>1, ConcatEntries
  <2> QED BY <2>1, <2>2
<1>6. Splices(a \o q, b, s, q, k)
  BY <1>2, <1>3, <1>4, <1>5 DEF Splices
<1> QED BY <1>2, <1>3, <1>6 DEF a, b

-----------------------------------------------------------------------------
(* Members.                                                                 *)

\* The members of a list.
LEMMA ToSetSeq ==
    ASSUME NEW S, NEW s \in Seq(S)
    PROVE  ToSet(s) = {s[i] : i \in 1..Len(s)} /\ ToSet(s) \subseteq S
  BY DEF ToSet

\* No entry occurs twice.
NoRepeat(s) == \A i, j \in 1..Len(s) : s[i] = s[j] => i = j

\* Linking a new entry behind the others.
LEMMA AppendMembers ==
    ASSUME NEW S, NEW s \in Seq(S), NEW x \in S
    PROVE  /\ Append(s, x) \in Seq(S)
           /\ Len(Append(s, x)) = Len(s) + 1
           /\ ToSet(Append(s, x)) = ToSet(s) \cup {x}
           /\ NoRepeat(s) /\ x \notin ToSet(s) => NoRepeat(Append(s, x))
<1> DEFINE t == Append(s, x)
<1>1. /\ t \in Seq(S) /\ Len(t) = Len(s) + 1 /\ Len(s) \in Nat
      /\ \A i \in 1..Len(s) : t[i] = s[i]
      /\ t[Len(s) + 1] = x
  OBVIOUS
<1>a. Append(s, x) = t
  OBVIOUS
<1> HIDE DEF t
<1>2. ToSet(t) = {t[i] : i \in 1..Len(t)} /\ ToSet(s) = {s[i] : i \in 1..Len(s)}
  BY <1>1, ToSetSeq
<1>3. \A i \in 1..Len(t) : i \in 1..Len(s) \/ i = Len(s) + 1
  BY <1>1
<1>4. ToSet(t) \subseteq ToSet(s) \cup {x}
  BY <1>1, <1>2, <1>3
<1>5. ToSet(s) \cup {x} \subseteq ToSet(t)
  <2>1. \A i \in 1..Len(s) : i \in 1..Len(t) /\ t[i] = s[i]
    BY <1>1
  <2>2. Len(s) + 1 \in 1..Len(t) /\ t[Len(s) + 1] = x
    BY <1>1
  <2> QED BY <1>2, <2>1, <2>2
<1>6. ASSUME NoRepeat(s), x \notin ToSet(s), NEW i \in 1..Len(t), NEW j \in 1..Len(t), t[i] = t[j]
      PROVE  i = j
  <2>1. \A m \in 1..Len(s) : s[m] # x
    BY <1>2, <1>6
  <2> QED BY <2>1, <1>1, <1>3, <1>6 DEF NoRepeat
<1> QED BY <1>a, <1>1, <1>4, <1>5, <1>6 DEF NoRepeat

\* Unlinking entry k of a list without repetitions.
LEMMA RemoveAtMembers ==
    ASSUME NEW S, NEW s \in Seq(S), NEW k \in 1..Len(s), NoRepeat(s)
    PROVE  /\ RemoveAt(s, k) \in Seq(S)
           /\ ToSet(RemoveAt(s, k)) = ToSet(s) \ {s[k]}
           /\ NoRepeat(RemoveAt(s, k))
<1> DEFINE t == RemoveAt(s, k)
           f(i) == IF i < k THEN i ELSE i + 1
<1>0. Len(s) \in Nat /\ k \in Nat /\ k >= 1 /\ k <= Len(s)
  OBVIOUS
<1>a. RemoveAt(s, k) = t
  OBVIOUS
<1>b. t \in Seq(S) /\ Removed(t, s, k)
  BY RemoveAtRemoves
<1> HIDE DEF t
<1>4. /\ t \in Seq(S) /\ Len(t) = Len(s) - 1
      /\ \A i \in 1..(Len(s) - 1) : /\ i < k => t[i] = s[i]
                                    /\ i >= k => t[i] = s[i + 1]
  BY <1>b DEF Removed
<1>5. \A i \in 1..Len(t) : f(i) \in 1..Len(s) /\ f(i) # k /\ t[i] = s[f(i)]
  <2> TAKE i \in 1..Len(t)
  <2>1. i \in 1..(Len(s) - 1) /\ f(i) \in 1..Len(s) /\ f(i) # k
    BY <1>0, <1>4
  <2>2. t[i] = s[f(i)]
    BY <2>1, <1>0, <1>4
  <2> QED BY <2>1, <2>2
<1>6. \A j \in 1..Len(s) : j # k => \E i \in 1..Len(t) : f(i) = j
  <2> TAKE j \in 1..Len(s)
  <2>1. CASE j < k
    <3>1. j \in 1..Len(t) /\ f(j) = j
      BY <2>1, <1>0, <1>4
    <3> QED BY <3>1
  <2>2. CASE j > k
    <3>1. j - 1 \in 1..Len(t) /\ f(j - 1) = j
      BY <2>2, <1>0, <1>4
    <3> QED BY <3>1
  <2> QED BY <2>1, <2>2, <1>0
<1>7. \A i, j \in 1..Len(t) : f(i) = f(j) => i = j
  BY <1>0, <1>4
<1> HIDE DEF f
<1>8. ToSet(t) = {t[i] : i \in 1..Len(t)} /\ ToSet(s) = {s[i] : i \in 1..Len(s)}
  BY <1>4, ToSetSeq
<1>9. \A j \in 1..Len(s) : s[j] = s[k] => j = k
  BY DEF NoRepeat
<1>10. ToSet(t) \subseteq ToSet(s) \ {s[k]}
  BY <1>5, <1>8, <1>9
<1>11. ASSUME NEW x \in ToSet(s) \ {s[k]}
       PROVE  x \in ToSet(t)
  <2>1. PICK j \in 1..Len(s) : s[j] = x
    BY <1>8
  <2>2. PICK i \in 1..Len(t) : f(i) = j
    BY <2>1, <1>6
  <2> QED BY <1>5, <1>8, <2>1, <2>2
<1>12. NoRepeat(t)
  BY <1>5, <1>7 DEF NoRepeat
<1> QED BY <1>a, <1>4, <1>10, <1>11, <1>12

\* Unlinking the first entry of a list without repetitions.
LEMMA TailMembers ==
    ASSUME NEW S, NEW s \in Seq(S), s # << >>, NoRepeat(s)
    PROVE  /\ Head(s) \in ToSet(s) /\ Head(s) \in S
           /\ Tail(s) \in Seq(S)
           /\ Len(Tail(s)) = Len(s) - 1
           /\ ToSet(Tail(s)) = ToSet(s) \ {Head(s)}
           /\ NoRepeat(Tail(s))
<1> DEFINE t == Tail(s)
<1>0. Len(s) \in Nat /\ 1 \in 1..Len(s) /\ Head(s) = s[1]
  OBVIOUS
<1>1. /\ t \in Seq(S) /\ Len(t) = Len(s) - 1
      /\ \A i \in 1..(Len(s) - 1) : t[i] = s[i + 1]
  OBVIOUS
<1> HIDE DEF t
<1>2. \A i \in 1..(Len(s) - 1) : i + 1 \in 1..Len(s) /\ i + 1 # 1
  BY <1>0
<1>3. \A i \in 1..Len(s) : i = 1 \/ (i - 1 \in 1..(Len(s) - 1) /\ (i - 1) + 1 = i)
  BY <1>0
<1>4. \A i, j \in 1..Len(s) : s[i] = s[j] => i = j
  BY DEF NoRepeat
<1>5. ToSet(s) = {s[i] : i \in 1..Len(s)}
  BY ToSetSeq
<1>6. ToSet(t) = {t[i] : i \in 1..(Len(s) - 1)}
  BY <1>1, ToSetSeq
<1>7. ASSUME NEW x \in ToSet(t)
      PROVE  x \in ToSet(s) \ {s[1]}
  <2>1. PICK i \in 1..(Len(s) - 1) : x = s[i + 1]
    BY <1>1, <1>6
  <2> QED BY <2>1, <1>0, <1>2, <1>4, <1>5
<1>8. ASSUME NEW x \in ToSet(s), x # s[1]
      PROVE  x \in ToSet(t)
  <2>1. PICK i \in 1..Len(s) : x = s[i]
    BY <1>5
  <2>2. i - 1 \in 1..(Len(s) - 1) /\ (i - 1) + 1 = i
    BY <1>3, <1>8, <2>1
  <2>3. x = t[i - 1]
    BY <1>1, <2>1, <2>2
  <2> QED BY <1>6, <2>2, <2>3
<1>9. NoRepeat(t)
  <2> SUFFICES ASSUME NEW i \in 1..Len(t), NEW j \in 1..Len(t), t[i] = t[j]
               PROVE  i = j
    BY DEF NoRepeat
  <2>1. s[i + 1] = s[j + 1] /\ i + 1 \in 1..Len(s) /\ j + 1 \in 1..Len(s)
    BY <1>1, <1>2
  <2>2. i + 1 = j + 1
    BY <1>4, <2>1
  <2> QED BY <2>2
<1>10. Head(s) \in ToSet(s) /\ Head(s) \in S
  BY <1>0, <1>5
<1> QED BY <1>0, <1>1, <1>7, <1>8, <1>9, <1>10 DEF t

\* Linking a new entry before the others.
LEMMA PrependMembers ==
    ASSUME NEW S, NEW s \in Seq(S), NEW x \in S
    PROVE  /\ <<x>> \o s \in Seq(S)
           /\ ToSet(<<x>> \o s) = ToSet(s) \cup {x}
           /\ NoRepeat(s) /\ x \notin ToSet(s) => NoRepeat(<<x>> \o s)
<1> DEFINE a == <<x>>
           t == a \o s
<1>0. a \in Seq(S) /\ Len(a) = 1 /\ a[1] = x /\ Len(s) \in Nat
  OBVIOUS
<1> HIDE DEF a
<1>1. /\ t \in Seq(S) /\ Len(t) = 1 + Len(s)
      /\ \A i \in 1..(1 + Len(s)) : /\ i <= 1 => t[i] = a[i]
                                    /\ i > 1 => t[i] = s[i - 1] /\ i - 1 \in 1..Len(s)
  <2>1. /\ t \in Seq(S) /\ Len(t) = Len(a) + Len(s)
        /\ \A i \in 1..(Len(a) + Len(s)) :
              /\ i <= Len(a) => t[i] = a[i]
              /\ i > Len(a) => t[i] = s[i - Len(a)] /\ i - Len(a) \in 1..Len(s)
    BY <1>0, ConcatEntries
  <2> QED BY <1>0, <2>1
<1> HIDE DEF t
<1>2. t[1] = x /\ 1 \in 1..Len(t)
  BY <1>0, <1>1
<1>3. \A i \in 1..Len(t) : i = 1 \/ (i - 1 \in 1..Len(s) /\ t[i] = s[i - 1])
  BY <1>0, <1>1
<1>4. \A i \in 1..Len(s) : i + 1 \in 1..Len(t) /\ t[i + 1] = s[i]
  <2> TAKE i \in 1..Len(s)
  <2>1. i + 1 \in 1..(1 + Len(s)) /\ i + 1 > 1 /\ (i + 1) - 1 = i
    BY <1>0
  <2> QED BY <1>1, <2>1
<1>5. ToSet(t) = {t[i] : i \in 1..Len(t)} /\ ToSet(s) = {s[i] : i \in 1..Len(s)}
  BY <1>1, ToSetSeq
<1>6. ToSet(t) = ToSet(s) \cup {x}
  <2>1. ToSet(t) \subseteq ToSet(s) \cup {x}
    BY <1>2, <1>3, <1>5
  <2>2. x \in ToSet(t)
    BY <1>2, <1>5
  <2>3. ToSet(s) \subseteq ToSet(t)
    BY <1>4, <1>5
  <2> QED BY <2>1, <2>2, <2>3
<1>7. ASSUME NoRepeat(s), x \notin ToSet(s), NEW i \in 1..Len(t), NEW j \in 1..Len(t), t[i] = t[j]
      PROVE  i = j
  <2>1. CASE i = 1 \/ j = 1
    BY <1>2, <1>3, <1>5, <1>7, <2>1
  <2>2. CASE i # 1 /\ j # 1
    <3>1. i - 1 \in 1..Len(s) /\ j - 1 \in 1..Len(s) /\ s[i - 1] = s[j - 1]
      BY <1>3, <1>7, <2>2
    <3>2. i - 1 = j - 1
      BY <1>7, <3>1 DEF NoRepeat
    <3> QED BY <1>0, <1>1, <3>2
  <2> QED BY <2>1, <2>2
<1>8. NoRepeat(s) /\ x \notin ToSet(s) => NoRepeat(t)
  BY <1>7 DEF NoRepeat
<1> QED BY <1>1, <1>6, <1>8 DEF t, a

\* A member has a position.
LEMMA MemberAt ==
    ASSUME NEW S, NEW s \in Seq(S)
    PROVE  /\ \A x : x \in ToSet(s) <=> \E i \in 1..Len(s) : s[i] = x
           /\ \A i \in 1..Len(s) : s[i] \in ToSet(s) /\ s[i] \in S
  BY ToSetSeq

\* The members of two lists, one behind the other.
LEMMA ConcatMembers ==
    ASSUME NEW S, NEW a \in Seq(S), NEW b \in Seq(S)
    PROVE  /\ ToSet(a \o b) = ToSet(a) \cup ToSet(b)
           /\ NoRepeat(a) /\ NoRepeat(b) /\ ToSet(a) \cap ToSet(b) = {} => NoRepeat(a \o b)
<1> DEFINE t == a \o b
<1>1. /\ t \in Seq(S) /\ Len(t) = Len(a) + Len(b) /\ Len(a) \in Nat /\ Len(b) \in Nat
      /\ \A i \in 1..(Len(a) + Len(b)) :
           /\ i <= Len(a) => t[i] = a[i]
           /\ i > Len(a) => t[i] = b[i - Len(a)] /\ i - Len(a) \in 1..Len(b)
  BY ConcatEntries
<1>a. a \o b = t
  OBVIOUS
<1> HIDE DEF t
<1>2. ASSUME NEW x \in ToSet(t) PROVE x \in ToSet(a) \cup ToSet(b)
  <2>1. PICK i \in 1..Len(t) : t[i] = x
    BY <1>1, <1>2, MemberAt
  <2>2. CASE i <= Len(a)
    <3>1. i \in 1..Len(a) /\ t[i] = a[i]
      BY <1>1, <2>2
    <3> QED BY <2>1, <3>1, MemberAt
  <2>3. CASE i > Len(a)
    <3>1. t[i] = b[i - Len(a)] /\ i - Len(a) \in 1..Len(b)
      BY <1>1, <2>3
    <3> QED BY <2>1, <3>1, MemberAt
  <2> QED BY <1>1, <2>2, <2>3
<1>3. ASSUME NEW x \in ToSet(a) PROVE x \in ToSet(t)
  <2>1. PICK i \in 1..Len(a) : a[i] = x
    BY <1>3, MemberAt
  <2>2. i \in 1..Len(t) /\ t[i] = x
    BY <1>1, <2>1
  <2> QED BY <1>1, <2>2, MemberAt
<1>4. ASSUME NEW x \in ToSet(b) PROVE x \in ToSet(t)
  <2>1. PICK i \in 1..Len(b) : b[i] = x
    BY <1>4, MemberAt
  <2>2. i + Len(a) \in 1..(Len(a) + Len(b)) /\ i + Len(a) > Len(a) /\ (i + Len(a)) - Len(a) = i
    BY <1>1
  <2>3. t[i + Len(a)] = x /\ i + Len(a) \in 1..Len(t)
    BY <1>1, <2>1, <2>2
  <2> QED BY <1>1, <2>3, MemberAt
<1>5. ASSUME NoRepeat(a), NoRepeat(b), ToSet(a) \cap ToSet(b) = {},
             NEW i \in 1..Len(t), NEW j \in 1..Len(t), t[i] = t[j]
      PROVE  i = j
  <2>1. /\ i \in 1..(Len(a) + Len(b)) /\ j \in 1..(Len(a) + Len(b))
    BY <1>1
  <2>2. CASE i <= Len(a) /\ j <= Len(a)
    <3>1. a[i] = a[j] /\ i \in 1..Len(a) /\ j \in 1..Len(a)
      BY <1>1, <1>5, <2>1, <2>2
    <3> QED BY <1>5, <3>1 DEF NoRepeat
  <2>3. CASE i > Len(a) /\ j > Len(a)
    <3>1. b[i - Len(a)] = b[j - Len(a)] /\ i - Len(a) \in 1..Len(b) /\ j - Len(a) \in 1..Len(b)
      BY <1>1, <1>5, <2>1, <2>3
    <3>2. i - Len(a) = j - Len(a)
      BY <1>5, <3>1 DEF NoRepeat
    <3> QED BY <1>1, <2>1, <3>2
  <2>4. CASE i <= Len(a) /\ j > Len(a)
    <3>1. t[i] = a[i] /\ i \in 1..Len(a) /\ t[j] = b[j - Len(a)] /\ j - Len(a) \in 1..Len(b)
      BY <1>1, <2>1, <2>4
    <3>2. t[i] \in ToSet(a) /\ t[j] \in ToSet(b)
      BY <3>1, MemberAt
    <3> QED BY <1>5, <3>2
  <2>5. CASE i > Len(a) /\ j <= Len(a)
    <3>1. t[j] = a[j] /\ j \in 1..Len(a) /\ t[i] = b[i - Len(a)] /\ i - Len(a) \in 1..Len(b)
      BY <1>1, <2>1, <2>5
    <3>2. t[j] \in ToSet(a) /\ t[i] \in ToSet(b)
      BY <3>1, MemberAt
    <3> QED BY <1>5, <3>2
  <2> QED BY <1>1, <2>1, <2>2, <2>3, <2>4, <2>5
<1> QED BY <1>a, <1>2, <1>3, <1>4, <1>5 DEF NoRepeat

\* The first k entries of a list, and the others.
LEMMA SplitMembers ==
    ASSUME NEW S, NEW s \in Seq(S), NEW k \in 0..Len(s), NoRepeat(s)
    PROVE  LET a == SubSeq(s, 1, k)
               b == SubSeq(s, k + 1, Len(s))
           IN  /\ a \in Seq(S) /\ Len(a) = k /\ NoRepeat(a) /\ ToSet(a) \subseteq ToSet(s)
               /\ b \in Seq(S) /\ Len(b) = Len(s) - k /\ NoRepeat(b) /\ ToSet(b) \subseteq ToSet(s)
               /\ ToSet(a) \cap ToSet(b) = {}
<1> DEFINE a == SubSeq(s, 1, k)
           b == SubSeq(s, k + 1, Len(s))
<1>0. Len(s) \in Nat /\ k \in Nat /\ k <= Len(s)
  OBVIOUS
<1>1. a \in Seq(S) /\ Len(a) = k /\ \A i \in 1..k : a[i] = s[i]
  BY <1>0
<1>2. b \in Seq(S) /\ Len(b) = Len(s) - k /\ \A i \in 1..(Len(s) - k) : b[i] = s[i + k]
  BY <1>0
<1> HIDE DEF a, b
<1>3. \A x \in ToSet(a) : \E i \in 1..k : a[i] = x
  BY <1>1, MemberAt
<1>4. \A x \in ToSet(b) : \E i \in 1..(Len(s) - k) : b[i] = x
  BY <1>2, MemberAt
<1>5. ASSUME NEW x \in ToSet(a) PROVE \E i \in 1..Len(s) : i <= k /\ s[i] = x
  <2>1. PICK i \in 1..k : a[i] = x
    BY <1>3, <1>5
  <2>2. i \in 1..Len(s) /\ i <= k /\ s[i] = x
    BY <1>0, <1>1, <2>1
  <2> QED BY <2>2
<1>6. ASSUME NEW x \in ToSet(b) PROVE \E i \in 1..Len(s) : i > k /\ s[i] = x
  <2>1. PICK i \in 1..(Len(s) - k) : b[i] = x
    BY <1>4, <1>6
  <2>2. i + k \in 1..Len(s) /\ i + k > k /\ s[i + k] = x
    BY <1>0, <1>2, <2>1
  <2> QED BY <2>2
<1>7. ToSet(a) \subseteq ToSet(s) /\ ToSet(b) \subseteq ToSet(s)
  BY <1>5, <1>6, MemberAt
<1>8. ASSUME NEW x \in ToSet(a), x \in ToSet(b) PROVE FALSE
  <2>1. PICK i \in 1..Len(s) : i <= k /\ s[i] = x
    BY <1>5
  <2>2. PICK j \in 1..Len(s) : j > k /\ s[j] = x
    BY <1>6, <1>8
  <2>3. i = j
    BY <2>1, <2>2 DEF NoRepeat
  <2> QED BY <1>0, <2>1, <2>2, <2>3
<1>9. NoRepeat(a)
  <2> SUFFICES ASSUME NEW i \in 1..k, NEW j \in 1..k, a[i] = a[j] PROVE i = j
    BY <1>1 DEF NoRepeat
  <2>1. i \in 1..Len(s) /\ j \in 1..Len(s) /\ s[i] = s[j]
    BY <1>0, <1>1
  <2> QED BY <2>1 DEF NoRepeat
<1>10. NoRepeat(b)
  <2> SUFFICES ASSUME NEW i \in 1..(Len(s) - k), NEW j \in 1..(Len(s) - k), b[i] = b[j] PROVE i = j
    BY <1>2 DEF NoRepeat
  <2>1. i + k \in 1..Len(s) /\ j + k \in 1..Len(s) /\ s[i + k] = s[j + k]
    BY <1>0, <1>2
  <2>2. i + k = j + k
    BY <2>1 DEF NoRepeat
  <2> QED BY <1>0, <2>2
<1> QED BY <1>1, <1>2, <1>7, <1>8, <1>9, <1>10 DEF a, b
=============================================================================
