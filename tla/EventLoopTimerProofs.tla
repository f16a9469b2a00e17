------------------------- MODULE EventLoopTimerProofs -------------------------
(***************************************************************************)
(* Proofs about EventLoopTimer: the wrapping clock values of the code mean *)
(* the absolute times of the model, the timer list is sorted by them, and  *)
(* so the loop neither calls a timer back early nor oversleeps.            *)
(***************************************************************************)
EXTENDS EventLoopTimer, SequenceTheorems, WellFoundedInduction, TLAPS

-----------------------------------------------------------------------------
(***************************************************************************)
(* Arithmetic of a clock that wraps around.                                *)
(***************************************************************************)

(***************************************************************************)
(* Every number is a multiple of the modulus and its remainder.            *)
(***************************************************************************)
LEMMA DivMod ==
    ASSUME NEW m \in Nat \ {0}, NEW x \in Int
    PROVE  \E q \in Int, r \in 0..(m - 1) : x % m = r /\ x = m * q + r
<1> DEFINE q == x \div m
           r == x % m
           p == m * q
<1>1. q \in Int /\ r \in 0..(m - 1)
  OBVIOUS
<1>2. r = x - p
  OBVIOUS
<1> HIDE DEF q
<1>3. p \in Int
  BY <1>1
<1> HIDE DEF r, p
<1>4. x = p + r
  BY <1>1, <1>2, <1>3
<1> QED BY <1>1, <1>4 DEF p, r

(***************************************************************************)
(* The remainder is the only one in the range of the modulus.              *)
(***************************************************************************)
LEMMA ModUnique ==
    ASSUME NEW m \in Nat \ {0}, NEW q \in Int, NEW r \in 0..(m - 1)
    PROVE  (m * q + r) % m = r
OBVIOUS

(***************************************************************************)
(* Products are distributed over sums and differences.                     *)
(***************************************************************************)
LEMMA Distributes ==
    ASSUME NEW m \in Nat \ {0}, NEW p \in Int, NEW q \in Int
    PROVE  /\ m * (p + q) = m * p + m * q
           /\ m * (p - q) = m * p - m * q
           /\ m * p \in Int /\ m * q \in Int
OBVIOUS

(***************************************************************************)
(* Numbers that differ by a multiple of the modulus have one remainder.    *)
(***************************************************************************)
LEMMA ModShift ==
    ASSUME NEW m \in Nat \ {0}, NEW a \in Int, NEW b \in Int, NEW q \in Int, a = b + m * q
    PROVE  a % m = b % m
<1>1. PICK p \in Int, r \in 0..(m - 1) : b % m = r /\ b = m * p + r
  BY DivMod
<1>2. a = m * (p + q) + r
  <2> DEFINE mp == m * p
             mq == m * q
  <2>1. m * (p + q) = mp + mq /\ mp \in Int /\ mq \in Int
    BY Distributes
  <2>2. b = mp + r /\ a = b + mq
    BY <1>1
  <2> HIDE DEF mp, mq
  <2>3. a = (mp + mq) + r
    BY <2>1, <2>2
  <2> QED BY <2>1, <2>3
<1>3. (m * (p + q) + r) % m = r
  BY ModUnique
<1> QED BY <1>1, <1>2, <1>3

(***************************************************************************)
(* Numbers with one remainder differ by a multiple of the modulus.         *)
(***************************************************************************)
LEMMA ModEqual ==
    ASSUME NEW m \in Nat \ {0}, NEW a \in Int, NEW b \in Int, a % m = b % m
    PROVE  \E q \in Int : a = b + m * q
<1>1. PICK p \in Int, r \in 0..(m - 1) : a % m = r /\ a = m * p + r
  BY DivMod
<1>2. PICK q \in Int, s \in 0..(m - 1) : b % m = s /\ b = m * q + s
  BY DivMod
<1>3. a = b + m * (p - q)
  <2> DEFINE mp == m * p
             mq == m * q
  <2>1. m * (p - q) = mp - mq /\ mp \in Int /\ mq \in Int
    BY Distributes
  <2>2. b = mq + r /\ a = mp + r
    BY <1>1, <1>2
  <2> HIDE DEF mp, mq
  <2>3. a = b + (mp - mq)
    BY <2>1, <2>2
  <2> QED BY <2>1, <2>3
<1> QED BY <1>3

(***************************************************************************)
(* The difference of two clock values that wrap around is the time between *)
(* them, if it fits the clock: c is the time now, and the timer with the   *)
(* start value s and the interval i expires at d.                          *)
(***************************************************************************)
LEMMA WrapLemma ==
    ASSUME NEW m \in Nat \ {0}, NEW c \in Nat, NEW s \in 0..(m - 1), NEW i \in Nat, NEW d \in Int,
           (s + i) % m = d % m, d <= c + i, c - d + i < m
    PROVE  ((c % m) - s) % m = c - d + i
<1>0. s + i \in Int /\ c \in Int
  OBVIOUS
<1>1. PICK q \in Int : s + i = d + m * q
  BY <1>0, ModEqual, Zenon
<1>2. PICK p \in Int, r \in 0..(m - 1) : c % m = r /\ c = m * p + r
  BY <1>0, DivMod, Zenon
<1> DEFINE x == c - d + i
<1>3. x \in 0..(m - 1)
  OBVIOUS
<1>4. r - s = x + m * (0 - (p + q))
  <2> DEFINE mp == m * p
             mq == m * q
             n == m * (0 - (p + q))
  <2>1. m * (p + q) = mp + mq /\ mp \in Int /\ mq \in Int /\ p + q \in Int
    BY Distributes
  <2>2. m * (0 - (p + q)) = m * 0 - m * (p + q)
    BY <2>1, Distributes
  <2>3. n = 0 - (mp + mq)
    BY <2>1, <2>2
  <2>4. s + i = d + mq /\ c = mp + r
    BY <1>1, <1>2
  <2> HIDE DEF mp, mq, n
  <2>5. r - s = x + n
    BY <2>1, <2>3, <2>4
  <2> QED BY <2>5 DEF n
<1>5. (r - s) % m = x % m
  <2>1. 0 - (p + q) \in Int /\ r - s \in Int /\ x \in Int
    OBVIOUS
  <2> HIDE DEF x
  <2> QED BY <1>4, <2>1, ModShift, Zenon
<1>6. x % m = x
  <2> HIDE DEF x
  <2>1. m * 0 + x = x
    BY <1>3
  <2>2. (m * 0 + x) % m = x
    BY <1>3, ModUnique
  <2> QED BY <2>1, <2>2
<1> QED BY <1>2, <1>5, <1>6

(***************************************************************************)
(* A multiple of the period more on both sides keeps a periodic timer in   *)
(* phase.                                                                  *)
(***************************************************************************)
LEMMA PhaseLemma ==
    ASSUME NEW m \in Nat \ {0}, NEW s \in Nat, NEW i \in Nat, NEW d \in Int, NEW n \in Int,
           (s + i) % m = d % m
    PROVE  (((s + n) % m) + i) % m = (d + n) % m
<1>0. s + i \in Int /\ s + n \in Int /\ d + n \in Int
  OBVIOUS
<1>1. PICK q \in Int : s + i = d + m * q
  BY <1>0, ModEqual, Zenon
<1>2. PICK p \in Int, r \in 0..(m - 1) : (s + n) % m = r /\ s + n = m * p + r
  BY <1>0, DivMod, Zenon
<1>3. r + i = (d + n) + m * (q - p)
  <2> DEFINE mp == m * p
             mq == m * q
  <2>1. m * (q - p) = mq - mp /\ mp \in Int /\ mq \in Int
    BY Distributes
  <2>2. s + i = d + mq /\ s + n = mp + r
    BY <1>1, <1>2
  <2> HIDE DEF mp, mq
  <2>3. r + i = (d + n) + (mq - mp)
    BY <2>1, <2>2
  <2> QED BY <2>1, <2>3
<1>4. r + i \in Int /\ q - p \in Int
  BY <1>2
<1>5. (r + i) % m = (d + n) % m
  BY <1>0, <1>3, <1>4, ModShift, Zenon
<1> QED BY <1>2, <1>5

(***************************************************************************)
(* The deadlines of a periodic timer that missed some periods: of those in *)
(* its phase, one lies less than a period ahead.                           *)
(***************************************************************************)
LEMMA NextLemma ==
    ASSUME NEW i \in Nat \ {0}, NEW c \in Nat, NEW d \in Int, d <= c
    PROVE  /\ d + i * ((c - d + i) \div i) \in (c + 1)..(c + i)
           /\ (CHOOSE x \in (c + 1)..(c + i) : (x - d) % i = 0) = d + i * ((c - d + i) \div i)
<1> DEFINE q == (c - d + i) \div i
           n == i * q
           e == c - d + i
<1>1. e \in Int /\ q \in Int
  OBVIOUS
<1>2. i * (e \div i) <= e /\ e < i * (e \div i) + i
  OBVIOUS
<1>3. n <= e /\ e < n + i
  BY <1>2
<1> HIDE DEF q
<1>4. n \in Int
  BY <1>1
<1>5. n % i = 0
  <2>1. 0 \in 0..(i - 1)
    OBVIOUS
  <2>2. (i * q + 0) % i = 0
    BY <1>1, <2>1, ModUnique, Zenon
  <2> QED BY <1>4, <2>2
<1>6. d + n \in (c + 1)..(c + i)
  <2> HIDE DEF n
  <2> QED BY <1>3, <1>4
<1>7. (d + n - d) % i = 0
  <2> HIDE DEF n
  <2>1. d + n - d = n
    BY <1>4
  <2> QED BY <1>5, <2>1
<1>8. ASSUME NEW x \in (c + 1)..(c + i), (x - d) % i = 0
      PROVE  x = d + n
  <2>0. x - d \in Int
    OBVIOUS
  <2>1. PICK p \in Int, r \in 0..(i - 1) : (x - d) % i = r /\ x - d = i * p + r
    BY <2>0, DivMod, Zenon
  <2> DEFINE l == i * p
  <2>2. x - d = l /\ l \in Int
    BY <1>8, <2>1
  <2>3. l < n + i /\ n < l + i
    <3> HIDE DEF n, l
    <3> QED BY <1>4, <1>6, <2>2
  <2>4. p = q
    BY <1>1, <2>3
  <2> QED BY <2>2, <2>4
<1>9. (CHOOSE x \in (c + 1)..(c + i) : (x - d) % i = 0) = d + n
  <2> HIDE DEF n
  <2> QED BY <1>6, <1>7, <1>8
<1> QED BY <1>6, <1>9 DEF q

-----------------------------------------------------------------------------
(***************************************************************************)
(* The intrusive lists.                                                    *)
(***************************************************************************)

\* The list s is sorted by the deadlines d, but for those that have passed.
Sorted(s, d) ==
    \A i, j \in 1..Len(s) : i < j => d[s[i]] <= d[s[j]] \/ d[s[i]] <= clock

(***************************************************************************)
(* A node's unlinking leaves the others in their order.                    *)
(***************************************************************************)
LEMMA RemoveLemma ==
    ASSUME NEW s \in Seq(Timers), NEW k \in 1..Len(s)
    PROVE  /\ RemoveAt(s, k) \in Seq(Timers)
           /\ Len(RemoveAt(s, k)) = Len(s) - 1
           /\ \A i \in 1..(Len(s) - 1) : RemoveAt(s, k)[i] = IF i < k THEN s[i] ELSE s[i + 1]
<1> DEFINE a == SubSeq(s, 1, k - 1)
           b == SubSeq(s, k + 1, Len(s))
           r == RemoveAt(s, k)
<1>1. /\ a \in Seq(Timers) /\ Len(a) = k - 1
      /\ \A i \in 1..(k - 1) : a[i] = s[i]
  BY SubSeqProperties
<1>2. /\ b \in Seq(Timers) /\ Len(b) = Len(s) - k
      /\ \A i \in 1..(Len(s) - k) : b[i] = s[k + i]
  BY SubSeqProperties
<1>3. r = a \o b
  BY DEF RemoveAt
<1> HIDE DEF a, b, r
<1>4. /\ r \in Seq(Timers) /\ Len(r) = Len(a) + Len(b)
      /\ \A i \in 1..(Len(a) + Len(b)) : r[i] = IF i <= Len(a) THEN a[i] ELSE b[i - Len(a)]
  BY <1>1, <1>2, <1>3, ConcatProperties
<1>5. Len(s) \in Nat /\ Len(r) = Len(s) - 1
  BY <1>1, <1>2, <1>4
<1>6. ASSUME NEW i \in 1..(Len(s) - 1)
      PROVE  r[i] = IF i < k THEN s[i] ELSE s[i + 1]
  <2>1. CASE i < k
    <3>1. i \in 1..(k - 1) /\ i <= Len(a) /\ i \in 1..(Len(a) + Len(b))
      BY <2>1, <1>1, <1>2, <1>5
    <3>2. r[i] = a[i]
      BY <1>4, <3>1
    <3> QED BY <2>1, <1>1, <3>1, <3>2
  <2>2. CASE ~(i < k)
    <3>1. r[i] = b[i - (k - 1)]
      BY <2>2, <1>1, <1>2, <1>4, <1>5
    <3>2. i - (k - 1) \in 1..(Len(s) - k) /\ k + (i - (k - 1)) = i + 1
      BY <2>2, <1>5
    <3> QED BY <2>2, <3>1, <3>2, <1>2
  <2> QED BY <2>1, <2>2
<1> QED BY <1>4, <1>5, <1>6 DEF r

(***************************************************************************)
(* TimerList_unlink and TimerQueue_unlink take one timer out of a list and *)
(* leave it sorted.                                                        *)
(***************************************************************************)
LEMMA UnlinkLemma ==
    ASSUME NEW s \in Seq(Timers), NEW t, IsInjective(s)
    PROVE  /\ Unlinked(s, t) \in Seq(Timers)
           /\ IsInjective(Unlinked(s, t))
           /\ ToSet(Unlinked(s, t)) = ToSet(s) \ {t}
           /\ \A d : Sorted(s, d) => Sorted(Unlinked(s, t), d)
<1>1. CASE t \notin ToSet(s)
  BY <1>1 DEF Unlinked
<1>2. CASE t \in ToSet(s)
  <2> DEFINE k == CHOOSE i \in 1..Len(s) : s[i] = t
             r == RemoveAt(s, k)
  <2>1. k \in 1..Len(s) /\ s[k] = t
    BY <1>2 DEF ToSet
  <2>2. Unlinked(s, t) = r
    BY <1>2 DEF Unlinked
  <2> HIDE DEF k
  <2>3. /\ r \in Seq(Timers) /\ Len(r) = Len(s) - 1 /\ Len(s) \in Nat
        /\ \A i \in 1..Len(r) : r[i] = IF i < k THEN s[i] ELSE s[i + 1]
    BY <2>1, RemoveLemma
  <2> HIDE DEF r
  <2> DEFINE Old(i) == IF i < k THEN i ELSE i + 1
             New(i) == IF i < k THEN i ELSE i - 1
  <2>4. \A i \in 1..Len(r) : Old(i) \in 1..Len(s) /\ Old(i) # k /\ r[i] = s[Old(i)]
    BY <2>1, <2>3
  <2>5. \A i \in 1..Len(s) : i # k => New(i) \in 1..Len(r) /\ r[New(i)] = s[i]
    BY <2>1, <2>3
  <2>6. \A i, j \in 1..Len(r) : (Old(i) = Old(j) => i = j) /\ (i < j => Old(i) < Old(j))
    BY <2>1, <2>3
  <2> HIDE DEF Old, New
  <2>7. IsInjective(r)
    BY <2>3, <2>4, <2>6 DEF IsInjective
  <2>8. ToSet(r) = ToSet(s) \ {t}
    <3>1. ASSUME NEW x \in ToSet(r) PROVE x \in ToSet(s) \ {t}
      <4>1. PICK i \in 1..Len(r) : r[i] = x
        BY <2>3 DEF ToSet
      <4> QED BY <2>1, <2>4, <4>1 DEF ToSet, IsInjective
    <3>2. ASSUME NEW x \in ToSet(s) \ {t} PROVE x \in ToSet(r)
      <4>1. PICK i \in 1..Len(s) : s[i] = x
        BY DEF ToSet
      <4>2. New(i) \in 1..Len(r) /\ r[New(i)] = x
        BY <2>1, <2>5, <4>1
      <4> QED BY <2>3, <4>2 DEF ToSet
    <3> QED BY <3>1, <3>2
  <2>9. ASSUME NEW d, Sorted(s, d) PROVE Sorted(r, d)
    BY <2>4, <2>6, <2>9 DEF Sorted
  <2> QED BY <2>2, <2>3, <2>7, <2>8, <2>9
<1> QED BY <1>1, <1>2

(***************************************************************************)
(* TimerQueue_pop_front takes the front out of a list.                     *)
(***************************************************************************)
LEMMA TailLemma ==
    ASSUME NEW s \in Seq(Timers), s # <<>>, IsInjective(s)
    PROVE  /\ Head(s) \in Timers /\ Head(s) \in ToSet(s)
           /\ Tail(s) \in Seq(Timers)
           /\ IsInjective(Tail(s))
           /\ ToSet(Tail(s)) = ToSet(s) \ {Head(s)}
           /\ \A d : Sorted(s, d) => Sorted(Tail(s), d)
<1> DEFINE r == Tail(s)
<1>1. /\ Len(s) \in Nat \ {0} /\ Head(s) = s[1] /\ 1 \in 1..Len(s)
      /\ r \in Seq(Timers) /\ Len(r) = Len(s) - 1
      /\ \A i \in 1..Len(r) : r[i] = s[i + 1] /\ i + 1 \in 1..Len(s)
  OBVIOUS
<1>2. Head(s) \in Timers /\ Head(s) \in ToSet(s)
  BY <1>1 DEF ToSet
<1> HIDE DEF r
<1>3. IsInjective(r)
  <2> SUFFICES ASSUME NEW i \in 1..Len(r), NEW j \in 1..Len(r), r[i] = r[j]
               PROVE  i = j
    BY <1>1 DEF IsInjective
  <2>1. i + 1 \in 1..Len(s) /\ j + 1 \in 1..Len(s) /\ s[i + 1] = s[j + 1]
    BY <1>1
  <2>2. i + 1 = j + 1
    BY <2>1 DEF IsInjective
  <2> QED BY <1>1, <2>2
<1>4. ToSet(r) = ToSet(s) \ {Head(s)}
  <2>1. ASSUME NEW x \in ToSet(r) PROVE x \in ToSet(s) \ {Head(s)}
    <3>1. PICK i \in 1..Len(r) : r[i] = x
      BY <1>1 DEF ToSet
    <3>2. i + 1 \in 1..Len(s) /\ s[i + 1] = x /\ i + 1 # 1
      BY <1>1, <3>1
    <3> QED BY <1>1, <3>2 DEF ToSet, IsInjective
  <2>2. ASSUME NEW x \in ToSet(s) \ {Head(s)} PROVE x \in ToSet(r)
    <3>1. PICK i \in 1..Len(s) : s[i] = x
      BY DEF ToSet
    <3>2. i - 1 \in 1..Len(r) /\ (i - 1) + 1 = i
      BY <1>1, <3>1
    <3>3. r[i - 1] = x
      BY <1>1, <3>1, <3>2
    <3> QED BY <1>1, <3>2, <3>3 DEF ToSet
  <2> QED BY <2>1, <2>2
<1>5. ASSUME NEW d, Sorted(s, d) PROVE Sorted(r, d)
  <2> SUFFICES ASSUME NEW i \in 1..Len(r), NEW j \in 1..Len(r), i < j
               PROVE  d[r[i]] <= d[r[j]] \/ d[r[i]] <= clock
    BY DEF Sorted
  <2>1. i + 1 \in 1..Len(s) /\ j + 1 \in 1..Len(s) /\ i + 1 < j + 1
    BY <1>1
  <2> QED BY <1>1, <1>5, <2>1 DEF Sorted
<1> QED BY <1>1, <1>2, <1>3, <1>4, <1>5 DEF r

(***************************************************************************)
(* TimerQueue_push_back puts a timer that is not there at the end.         *)
(***************************************************************************)
LEMMA AppendLemma ==
    ASSUME NEW s \in Seq(Timers), NEW t \in Timers, IsInjective(s), t \notin ToSet(s)
    PROVE  /\ Append(s, t) \in Seq(Timers)
           /\ IsInjective(Append(s, t))
           /\ ToSet(Append(s, t)) = ToSet(s) \cup {t}
<1> DEFINE r == Append(s, t)
<1>1. /\ r \in Seq(Timers) /\ Len(s) \in Nat /\ Len(r) = Len(s) + 1
      /\ \A i \in 1..Len(s) : r[i] = s[i]
      /\ r[Len(s) + 1] = t
      /\ \A i \in 1..Len(s) : s[i] # t
  BY DEF ToSet
<1> HIDE DEF r
<1>2. \A i \in 1..Len(r) : i \in 1..Len(s) \/ i = Len(s) + 1
  BY <1>1
<1>3. ASSUME NEW i \in 1..Len(r), NEW j \in 1..Len(r), r[i] = r[j] PROVE i = j
  <2>1. CASE i \in 1..Len(s) /\ j \in 1..Len(s)
    BY <1>1, <1>3, <2>1 DEF IsInjective
  <2>2. CASE ~(i \in 1..Len(s) /\ j \in 1..Len(s))
    BY <1>1, <1>2, <1>3, <2>2
  <2> QED BY <2>1, <2>2
<1>4. IsInjective(r)
  BY <1>1, <1>3 DEF IsInjective
<1>5. ToSet(r) = ToSet(s) \cup {t}
  <2>1. ASSUME NEW x \in ToSet(r) PROVE x \in ToSet(s) \cup {t}
    <3>1. PICK i \in 1..Len(r) : r[i] = x
      BY <1>1 DEF ToSet
    <3> QED BY <1>1, <1>2, <3>1 DEF ToSet
  <2>2. ASSUME NEW x \in ToSet(s) PROVE x \in ToSet(r)
    <3>1. PICK i \in 1..Len(s) : s[i] = x
      BY DEF ToSet
    <3>2. i \in 1..Len(r) /\ r[i] = x
      BY <1>1, <3>1
    <3> QED BY <1>1, <3>2 DEF ToSet
  <2>3. t \in ToSet(r)
    <3>1. Len(s) + 1 \in 1..Len(r)
      BY <1>1
    <3> QED BY <1>1, <3>1 DEF ToSet
  <2> QED BY <2>1, <2>2, <2>3
<1> QED BY <1>1, <1>4, <1>5 DEF r

(***************************************************************************)
(* A set of places in a list has a last one (the least number principle).  *)
(***************************************************************************)
LEMMA LastLemma ==
    ASSUME NEW n \in Nat, NEW S \in SUBSET (1..n), S # {}
    PROVE  \E i \in S : \A j \in S : j <= i
<1> DEFINE R == OpToRel(<, Nat)
           T == {n - i : i \in S}
<1>1. IsWellFoundedOn(R, Nat)
  BY NatLessThanWellFounded
<1>2. T \subseteq Nat /\ T # {}
  <2>1. \A i \in S : n - i \in Nat
    OBVIOUS
  <2> QED BY <2>1
<1>3. \A x, y \in Nat : <<x, y>> \in R <=> x < y
  BY DEF OpToRel
<1> HIDE DEF R, T
<1>4. PICK x \in T : \A y \in T : <<y, x>> \notin R
  BY <1>1, <1>2, WFMin, Zenon
<1>5. \A y \in T : x \in Nat /\ y \in Nat /\ ~(y < x)
  BY <1>2, <1>3, <1>4
<1>6. PICK i \in S : x = n - i
  BY DEF T
<1>7. ASSUME NEW j \in S PROVE j <= i
  <2>1. n - j \in T
    BY DEF T
  <2>2. ~(n - j < n - i)
    BY <1>5, <1>6, <2>1
  <2>3. i \in Nat /\ j \in Nat
    OBVIOUS
  <2> QED BY <2>2, <2>3
<1> QED BY <1>7

(***************************************************************************)
(* InsertAt puts a timer behind the first k of a list.                     *)
(***************************************************************************)
LEMMA InsertLemma ==
    ASSUME NEW s \in Seq(Timers), NEW k \in 0..Len(s), NEW t \in Timers
    PROVE  /\ InsertAt(s, k + 1, t) \in Seq(Timers)
           /\ Len(InsertAt(s, k + 1, t)) = Len(s) + 1
           /\ \A i \in 1..(Len(s) + 1) :
                 InsertAt(s, k + 1, t)[i] = IF i <= k THEN s[i] ELSE IF i = k + 1 THEN t ELSE s[i - 1]
<1> DEFINE a == SubSeq(s, 1, k)
           b == SubSeq(s, k + 1, Len(s))
           c == a \o <<t>>
           r == c \o b
<1>0. Len(s) \in Nat /\ InsertAt(s, k + 1, t) = r
  <2>1. (k + 1) - 1 = k
    OBVIOUS
  <2> QED BY <2>1 DEF InsertAt
<1>1. /\ a \in Seq(Timers) /\ Len(a) = k
      /\ \A i \in 1..k : a[i] = s[i]
  BY SubSeqProperties
<1>2. /\ b \in Seq(Timers) /\ Len(b) = Len(s) - k
      /\ \A i \in 1..(Len(s) - k) : b[i] = s[k + i]
  BY SubSeqProperties
<1> HIDE DEF a, b
<1>3. /\ c \in Seq(Timers) /\ Len(c) = k + 1
      /\ \A i \in 1..k : c[i] = s[i]
      /\ c[k + 1] = t
  BY <1>1
<1> HIDE DEF c
<1>4. /\ r \in Seq(Timers) /\ Len(r) = Len(c) + Len(b)
      /\ \A i \in 1..(Len(c) + Len(b)) : r[i] = IF i <= Len(c) THEN c[i] ELSE b[i - Len(c)]
  BY <1>2, <1>3, ConcatProperties
<1> HIDE DEF r
<1>5. Len(r) = Len(s) + 1
  BY <1>0, <1>2, <1>3, <1>4
<1>6. ASSUME NEW i \in 1..(Len(s) + 1)
      PROVE  r[i] = IF i <= k THEN s[i] ELSE IF i = k + 1 THEN t ELSE s[i - 1]
  <2>0. i \in 1..(Len(c) + Len(b))
    BY <1>0, <1>2, <1>3
  <2>1. CASE i <= k + 1
    <3>1. r[i] = c[i]
      BY <1>3, <1>4, <2>0, <2>1
    <3> QED BY <1>3, <2>1, <3>1
  <2>2. CASE i > k + 1
    <3>1. r[i] = b[i - (k + 1)]
      BY <1>3, <1>4, <2>0, <2>2
    <3>2. i - (k + 1) \in 1..(Len(s) - k) /\ k + (i - (k + 1)) = i - 1
      BY <1>0, <2>2
    <3> QED BY <1>2, <2>2, <3>1, <3>2
  <2> QED BY <2>1, <2>2
<1> QED BY <1>0, <1>4, <1>5, <1>6

\* A deadline d fits the fields x of a timer: the clock values in x mean the
\* absolute times around d, and the loop is not later than MaxLate.
Fits(x, d) ==
    /\ clock <= d + MaxLate
    /\ d <= clock + x.interval
    /\ x.interval # 0 => (x.start + x.interval) % Modulus = d % Modulus

(***************************************************************************)
(* furi_event_loop_timer_get_remaining_time_private computes the absolute  *)
(* time up to the deadline, and furi_event_loop_timer_is_expired knows     *)
(* when it has passed.                                                     *)
(***************************************************************************)
LEMMA RemainingLemma ==
    ASSUME clock \in Nat, NEW x, x.interval \in Intervals \cup {0}, x.start \in 0..(Modulus - 1),
           NEW d \in Int, Fits(x, d)
    PROVE  /\ x.interval # 0 => Elapsed(x) = clock - d + x.interval
           /\ Remaining(x) = IF d > clock THEN d - clock ELSE 0
           /\ IsExpired(x) <=> d <= clock
<1> DEFINE i == x.interval
<1>0. Modulus \in Nat \ {0} /\ MaxLate \in Nat
  BY ClockAssumption
<1>1. i \in Nat /\ (i # 0 => i + MaxLate < Modulus)
  <2>1. i = 0 \/ i \in Intervals
    OBVIOUS
  <2>2. \A j \in Intervals : j \in Nat /\ j + MaxLate < Modulus
    BY ClockAssumption
  <2> QED BY <2>1, <2>2
<1> HIDE DEF i
<1>2. CASE i = 0
  <2>1. d <= clock
    BY <1>2 DEF Fits, i
  <2>2. Elapsed(x) \in Nat
    BY <1>0 DEF Elapsed, Now
  <2> QED BY <1>2, <2>1, <2>2 DEF Remaining, IsExpired, i
<1>3. CASE i # 0
  <2>1. d <= clock + i /\ (x.start + i) % Modulus = d % Modulus /\ clock <= d + MaxLate
    BY <1>3 DEF Fits, i
  <2>2. clock - d + i < Modulus
    BY <1>0, <1>1, <1>3, <2>1
  <2>3. ((clock % Modulus) - x.start) % Modulus = clock - d + i
    BY <1>0, <1>1, <2>1, <2>2, WrapLemma, Zenon
  <2>4. Elapsed(x) = clock - d + i
    BY <2>3 DEF Elapsed, Now
  <2> QED BY <1>1, <1>3, <2>1, <2>4 DEF Remaining, IsExpired, i
<1> QED BY <1>2, <1>3

(***************************************************************************)
(* furi_event_loop_schedule_timer puts a timer that is not there into the  *)
(* list, and the list stays sorted by deadlines.                           *)
(***************************************************************************)
LEMMA ScheduleLemma ==
    ASSUME clock \in Nat, NEW s \in Seq(Timers), IsInjective(s),
           NEW t \in Timers, t \notin ToSet(s), NEW f, NEW d,
           \A u \in ToSet(s) \cup {t} :
               /\ f[u].interval \in Intervals \cup {0} /\ f[u].start \in 0..(Modulus - 1)
               /\ d[u] \in Int /\ Fits(f[u], d[u]),
           Sorted(s, d)
    PROVE  /\ Schedule(s, f, t) \in Seq(Timers)
           /\ IsInjective(Schedule(s, f, t))
           /\ ToSet(Schedule(s, f, t)) = ToSet(s) \cup {t}
           /\ Sorted(Schedule(s, f, t), d)
<1> DEFINE before == {i \in 1..Len(s) : Remaining(f[s[i]]) <= Remaining(f[t])}
           k == IF before = {} THEN 0 ELSE CHOOSE i \in before : \A j \in before : j <= i
           r == InsertAt(s, k + 1, t)
           Left(u) == IF d[u] > clock THEN d[u] - clock ELSE 0
<1>1. Schedule(s, f, t) = r
  BY DEF Schedule
<1>2. Len(s) \in Nat /\ \A i \in 1..Len(s) : s[i] \in ToSet(s) /\ s[i] # t /\ d[s[i]] \in Int
  BY DEF ToSet
<1>3. \A u \in ToSet(s) \cup {t} : Remaining(f[u]) = Left(u)
  BY RemainingLemma
<1>4. before = {i \in 1..Len(s) : Left(s[i]) <= Left(t)}
  BY <1>2, <1>3
<1>5. /\ k \in 0..Len(s)
      /\ k # 0 => k \in before
      /\ \A j \in before : j <= k
  <2>1. CASE before = {}
    BY <1>2, <2>1
  <2>2. CASE before # {}
    <3>1. before \in SUBSET (1..Len(s))
      OBVIOUS
    <3>2. \E i \in before : \A j \in before : j <= i
      <4> HIDE DEF before
      <4> QED BY <1>2, <2>2, <3>1, LastLemma
    <3>3. k \in before /\ \A j \in before : j <= k
      <4> HIDE DEF before
      <4> QED BY <2>2, <3>2
    <3> HIDE DEF before, k
    <3>4. k \in 1..Len(s)
      BY <3>1, <3>3
    <3> QED BY <1>2, <3>3, <3>4
  <2> QED BY <2>1, <2>2
<1> HIDE DEF k, before
<1>6. /\ r \in Seq(Timers) /\ Len(r) = Len(s) + 1
      /\ \A i \in 1..(Len(s) + 1) : r[i] = IF i <= k THEN s[i] ELSE IF i = k + 1 THEN t ELSE s[i - 1]
  BY <1>5, InsertLemma
<1> HIDE DEF r
<1>7. \A i \in 1..Len(r) : \/ i = k + 1 /\ r[i] = t
                           \/ i <= k /\ i \in 1..Len(s) /\ r[i] = s[i]
                           \/ i > k + 1 /\ i - 1 \in 1..Len(s) /\ r[i] = s[i - 1]
  BY <1>2, <1>5, <1>6
<1>8. IsInjective(r)
  <2> SUFFICES ASSUME NEW i \in 1..Len(r), NEW j \in 1..Len(r), r[i] = r[j]
               PROVE  i = j
    BY <1>6 DEF IsInjective
  <2> DEFINE From(n) == IF n <= k THEN n ELSE n - 1
  <2>1. \A n \in 1..Len(r) : n # k + 1 => From(n) \in 1..Len(s) /\ r[n] = s[From(n)]
    BY <1>2, <1>5, <1>7
  <2>2. CASE i = k + 1 \/ j = k + 1
    <3>1. ASSUME NEW n \in 1..Len(r), n # k + 1 PROVE r[n] # t
      BY <1>2, <2>1, <3>1
    <3>2. ASSUME NEW n \in 1..Len(r), n = k + 1 PROVE r[n] = t
      BY <1>5, <1>7, <3>2
    <3> QED BY <2>2, <3>1, <3>2
  <2>3. CASE i # k + 1 /\ j # k + 1
    <3>1. From(i) \in 1..Len(s) /\ From(j) \in 1..Len(s) /\ s[From(i)] = s[From(j)]
      BY <2>1, <2>3
    <3>2. From(i) = From(j)
      <4> HIDE DEF From
      <4> QED BY <3>1 DEF IsInjective
    <3> QED BY <1>5, <2>3, <3>2
  <2> QED BY <2>2, <2>3
<1>9. ToSet(r) = ToSet(s) \cup {t}
  <2>1. ASSUME NEW x \in ToSet(r) PROVE x \in ToSet(s) \cup {t}
    <3>1. PICK i \in 1..Len(r) : r[i] = x
      BY <1>6 DEF ToSet
    <3> QED BY <1>2, <1>7, <3>1
  <2>2. ASSUME NEW x \in ToSet(s) PROVE x \in ToSet(r)
    <3>1. PICK i \in 1..Len(s) : s[i] = x
      BY DEF ToSet
    <3> DEFINE j == IF i <= k THEN i ELSE i + 1
    <3>2. j \in 1..Len(r) /\ r[j] = x
      BY <1>2, <1>5, <1>6, <3>1
    <3> HIDE DEF j
    <3> QED BY <1>6, <3>2 DEF ToSet
  <2>3. t \in ToSet(r)
    <3>1. k + 1 \in 1..Len(r) /\ r[k + 1] = t
      BY <1>2, <1>5, <1>6
    <3> QED BY <1>6, <3>1 DEF ToSet
  <2> QED BY <2>1, <2>2, <2>3
<1>10. \A i \in 1..Len(s) : i <= k => Left(s[i]) <= Left(t)
  <2> SUFFICES ASSUME NEW i \in 1..Len(s), i <= k PROVE Left(s[i]) <= Left(t)
    OBVIOUS
  <2>1. k \in 1..Len(s) /\ Left(s[k]) <= Left(t)
    BY <1>2, <1>4, <1>5
  <2>2. i = k \/ d[s[i]] <= d[s[k]] \/ d[s[i]] <= clock
    <3>1. i = k \/ i < k
      BY <1>2, <2>1
    <3> QED BY <2>1, <3>1 DEF Sorted
  <2>3. d[s[i]] \in Int /\ d[s[k]] \in Int /\ d[t] \in Int
    BY <1>2, <2>1
  <2> QED BY <2>1, <2>2, <2>3
<1>11. \A i \in 1..Len(s) : i > k => Left(s[i]) > Left(t)
  <2> SUFFICES ASSUME NEW i \in 1..Len(s), i > k PROVE Left(s[i]) > Left(t)
    OBVIOUS
  <2>1. i \notin before
    BY <1>2, <1>5
  <2>2. ~(Left(s[i]) <= Left(t))
    BY <1>4, <2>1
  <2>3. d[s[i]] \in Int /\ d[t] \in Int
    BY <1>2
  <2> QED BY <2>2, <2>3
<1>12. Sorted(r, d)
  <2> SUFFICES ASSUME NEW i \in 1..Len(r), NEW j \in 1..Len(r), i < j
               PROVE  d[r[i]] <= d[r[j]] \/ d[r[i]] <= clock
    BY DEF Sorted
  <2>0. d[t] \in Int /\ \A n \in 1..Len(s) : d[s[n]] \in Int
    BY <1>2
  <2>1. CASE i = k + 1
    <3>1. r[i] = t /\ j - 1 \in 1..Len(s) /\ j - 1 > k /\ r[j] = s[j - 1]
      BY <1>2, <1>5, <1>7, <2>1
    <3>2. Left(s[j - 1]) > Left(t)
      BY <1>11, <3>1
    <3> QED BY <2>0, <3>1, <3>2
  <2>2. CASE j = k + 1
    <3>1. r[j] = t /\ i \in 1..Len(s) /\ i <= k /\ r[i] = s[i]
      BY <1>2, <1>5, <1>7, <2>2
    <3>2. Left(s[i]) <= Left(t)
      BY <1>10, <3>1
    <3> QED BY <2>0, <3>1, <3>2
  <2>3. CASE i # k + 1 /\ j # k + 1
    <3>1. PICK m \in 1..Len(s), n \in 1..Len(s) : m < n /\ r[i] = s[m] /\ r[j] = s[n]
      <4>1. CASE j <= k
        BY <1>2, <1>5, <1>7, <4>1
      <4>2. CASE i <= k /\ j > k + 1
        BY <1>2, <1>5, <1>7, <4>2
      <4>3. CASE i > k + 1
        BY <1>2, <1>5, <1>7, <4>3
      <4> QED BY <1>2, <1>5, <1>6, <2>3, <4>1, <4>2, <4>3
    <3> QED BY <3>1 DEF Sorted
  <2> QED BY <2>1, <2>2, <2>3
<1> QED BY <1>1, <1>6, <1>8, <1>9, <1>12

-----------------------------------------------------------------------------
(***************************************************************************)
(* The inductive invariant.                                                *)
(***************************************************************************)

\* The intervals in use: those of clients, and zero before the first start.
IntervalsOK ==
    /\ \A t \in Timers : tm[t].interval \in Intervals \cup {0} /\ tm[t].next \in Intervals \cup {0}
    /\ tick.interval \in TickIntervals \cup {0}

\* A freed timer is in neither list, and only a running timer has a deadline.
StateOK ==
    \A t \in Timers :
        /\ ~tm[t].alloc => ~tm[t].active /\ tm[t].request = "None"
        /\ tm[t].active <=> deadline[t] # Never

\* The deadline of a running timer fits its fields.
TimeOK == \A t \in Timers : tm[t].active => Fits(tm[t], deadline[t])

\* timer_list is sorted by the time that remains.
SortedOK == Sorted(list, deadline)

\* The loop neither waits nor computes how long to.
Resting == pc \notin {"wait", "sleep", "blocked"}

\* If the loop blocked for w ticks from now on it would sleep past the timers,
\* or past the tick, by the lag at most.
TimersIn(w) ==
    w # 0 => \A t \in Timers : tm[t].active => clock + w <= deadline[t] + lag
TickIn(w) ==
    w # 0 /\ tick.interval # 0 => TickElapsed + w <= tick.interval + lag

\* What has been read of the wait time, and the wait in progress, end late by
\* the lag at most.
WakeOK ==
    /\ Reading => TimersIn(wait)
    /\ pc = "sleep" => TickIn(wait)
    /\ pc = "blocked" /\ clock < wake => TimersIn(wake - clock) /\ TickIn(wake - clock)

\* A request is announced until it is processed, and a timer that runs without
\* one has been started last.
AskedOK ==
    stops = 0 =>
        /\ queue # <<>> => flag \/ pc = "queue"
        /\ \A t \in Timers : tm[t].request = "Start" \/ (tm[t].active /\ tm[t].request = "None")
                                 => asked[t]

IndInv ==
    /\ TypeOK
    /\ IntervalsOK
    /\ ListsMatchTimers
    /\ StateOK
    /\ TimeOK
    /\ SortedOK
    /\ WakeOK
    /\ AskedOK

TimerRec == [alloc: BOOLEAN, active: BOOLEAN, interval: Nat, start: 0..(Modulus - 1),
             next: Nat, request: Requests]

(***************************************************************************)
(* A clock value that wraps around goes on by one with the clock.          *)
(***************************************************************************)
LEMMA TickLemma ==
    ASSUME NEW m \in Nat \ {0}, NEW c \in Nat, NEW p \in 0..(m - 1), (((c % m) - p) % m) + 1 < m
    PROVE  (((c + 1) % m) - p) % m = (((c % m) - p) % m) + 1
<1>1. PICK q \in Int, r \in 0..(m - 1) : c % m = r /\ c = m * q + r
  <2>1. c \in Int
    OBVIOUS
  <2> QED BY <2>1, DivMod, Zenon
<1>2. PICK n \in Int, x \in 0..(m - 1) : (r - p) % m = x /\ r - p = m * n + x
  <2>1. r - p \in Int
    OBVIOUS
  <2> QED BY <2>1, DivMod, Zenon
<1>3. c - x = p + m * (q + n)
  <2> DEFINE mq == m * q
             mn == m * n
  <2>1. m * (q + n) = mq + mn /\ mq \in Int /\ mn \in Int
    BY Distributes
  <2>2. c = mq + r /\ r - p = mn + x
    BY <1>1, <1>2
  <2> HIDE DEF mq, mn
  <2>3. c - x = p + (mq + mn)
    BY <2>1, <2>2
  <2> QED BY <2>1, <2>3
<1>4. c - x \in Int /\ p \in Int /\ q + n \in Int
  OBVIOUS
<1>5. (p + 0) % m = (c - x) % m
  <2>1. (c - x) % m = p % m
    BY <1>3, <1>4, ModShift, Zenon
  <2> QED BY <2>1
<1>6. \E b \in Nat, d \in Int, i \in Nat :
          b = c + 1 /\ d = c - x /\ i = 0
  <2>1. c + 1 \in Nat /\ c - x \in Int /\ 0 \in Nat
    OBVIOUS
  <2> QED BY <2>1, Zenon
<1>7. PICK b \in Nat, d \in Int, i \in Nat : b = c + 1 /\ d = c - x /\ i = 0
  BY <1>6, Zenon
<1>8. (p + i) % m = d % m
  BY <1>5, <1>7
<1>9. d <= b + i
  BY <1>7
<1>10. b - d + i < m
  BY <1>1, <1>2, <1>7
<1>11. ((b % m) - p) % m = b - d + i
  <2>1. m \in Nat \ {0} /\ p \in 0..(m - 1) /\ b \in Nat /\ d \in Int /\ i \in Nat
    OBVIOUS
  <2>2. \A e \in Nat, j \in Nat, f \in Int :
            (p + j) % m = f % m => (f <= e + j => (e - f + j < m => ((e % m) - p) % m = e - f + j))
    BY <2>1, WrapLemma, Zenon
  <2>3. (p + i) % m = d % m => (d <= b + i => (b - d + i < m => ((b % m) - p) % m = b - d + i))
    BY <2>1, <2>2, Zenon
  <2> QED BY <1>8, <1>9, <1>10, <2>3, Zenon
<1>12. b - d + i = x + 1
  BY <1>7
<1> QED BY <1>1, <1>2, <1>7, <1>11, <1>12

USE TimersAssumption DEF Requests, UserPcs, Pcs

(***************************************************************************)
(* The tick interrupt: no timer becomes later than the loop may be, and    *)
(* the wait in progress stays short enough.                                *)
(***************************************************************************)
LEMMA AdvanceStep == IndInv /\ Advance => IndInv'
<1> SUFFICES ASSUME IndInv, Advance PROVE IndInv'
  OBVIOUS
<1>0. /\ clock' = clock + 1
      /\ UNCHANGED <<tm, list, queue, tick, flag, stop, pc, wait, wake, stops, deadline, asked>>
      /\ lag' = IF Reading THEN lag + 1 ELSE lag
  BY DEF Advance, timerVars
<1>1. TypeOK'
  BY <1>0 DEF IndInv, TypeOK
<1>2. IntervalsOK' /\ ListsMatchTimers' /\ StateOK' /\ AskedOK'
  BY <1>0 DEF IndInv, IntervalsOK, ListsMatchTimers, StateOK, AskedOK
<1>3. TimeOK'
  <2> SUFFICES ASSUME NEW t \in Timers, tm[t].active PROVE Fits(tm[t], deadline[t])'
    BY <1>0 DEF TimeOK
  <2>1. deadline[t] # Never /\ Fits(tm[t], deadline[t])
    BY DEF IndInv, StateOK, TimeOK
  <2>2. clock < deadline[t] + MaxLate
    BY <2>1 DEF Advance
  <2>3. clock \in Nat /\ deadline[t] \in Int /\ tm[t].interval \in Nat /\ MaxLate \in Nat
    BY ClockAssumption DEF IndInv, TypeOK, Never
  <2>4. clock' <= deadline[t] + MaxLate /\ deadline[t] <= clock' + tm[t].interval
    BY <1>0, <2>1, <2>2, <2>3 DEF Fits
  <2> QED BY <1>0, <2>1, <2>4 DEF Fits
<1>4. SortedOK'
  <2> SUFFICES ASSUME NEW i \in 1..Len(list), NEW j \in 1..Len(list), i < j
               PROVE  deadline[list[i]] <= deadline[list[j]] \/ deadline[list[i]] <= clock'
    BY <1>0 DEF SortedOK, Sorted
  <2>1. deadline[list[i]] <= deadline[list[j]] \/ deadline[list[i]] <= clock
    BY DEF IndInv, SortedOK, Sorted
  <2>2. deadline[list[i]] \in Int /\ clock \in Nat
    <3>1. list[i] \in Timers
      BY DEF IndInv, TypeOK
    <3>2. deadline[list[i]] \in Nat \cup {Never} /\ clock \in Nat
      BY <3>1 DEF IndInv, TypeOK
    <3> QED BY <3>2 DEF Never
  <2> QED BY <1>0, <2>1, <2>2
<1>5. WakeOK'
  <2>1. /\ clock \in Nat /\ wait \in Nat /\ wake \in Nat /\ lag \in Nat /\ lag' \in Nat
        /\ tick.interval \in Nat /\ TickElapsed \in Int
    BY <1>1, ClockAssumption DEF IndInv, TypeOK, TickElapsed, Now
  <2>2. ASSUME tick.interval # 0 PROVE TickElapsed' = TickElapsed + 1
    <3>1. tick.interval + MaxLate < Modulus /\ tick.interval \in Nat /\ MaxLate \in Nat
      <4>1. tick.interval \in TickIntervals
        BY <2>2 DEF IndInv, IntervalsOK
      <4> QED BY <4>1, ClockAssumption
    <3>2. TickElapsed < tick.interval + MaxLate
      BY <2>2 DEF Advance
    <3>3. Modulus \in Nat \ {0} /\ tick.prev \in 0..(Modulus - 1) /\ TickElapsed \in Int
      BY <2>1, ClockAssumption DEF IndInv, TypeOK, TickElapsed, Now
    <3>4. TickElapsed + 1 < Modulus
      BY <3>1, <3>2, <3>3
    <3>5. (((clock + 1) % Modulus) - tick.prev) % Modulus = (((clock % Modulus) - tick.prev) % Modulus) + 1
      BY <2>1, <3>3, <3>4, TickLemma, Zenon DEF TickElapsed, Now
    <3> QED BY <1>0, <3>5 DEF TickElapsed, Now
  <2>3. \A t \in Timers : deadline[t] \in Int
    BY DEF IndInv, TypeOK, Never
  <2>4. ASSUME Reading PROVE TimersIn(wait)' /\ lag' = lag + 1
    <3>1. lag' = lag + 1 /\ TimersIn(wait)
      BY <1>0, <2>4 DEF IndInv, WakeOK
    <3> QED BY <1>0, <2>1, <2>3, <3>1 DEF TimersIn
  <2>5. ASSUME pc = "sleep" PROVE TickIn(wait)'
    <3>1. lag' = lag + 1 /\ TickIn(wait)
      BY <2>4, <2>5 DEF IndInv, WakeOK, Reading
    <3> QED BY <1>0, <2>1, <2>2, <3>1 DEF TickIn
  <2>6. ASSUME pc = "blocked", clock' < wake
        PROVE  TimersIn(wake - clock)' /\ TickIn(wake - clock)'
    <3>1. clock < wake /\ lag' = lag
      BY <1>0, <2>1, <2>6 DEF Reading
    <3>2. TimersIn(wake - clock) /\ TickIn(wake - clock)
      BY <2>6, <3>1 DEF IndInv, WakeOK
    <3>3. TimersIn(wake - clock)'
      BY <1>0, <2>1, <2>3, <2>6, <3>1, <3>2 DEF TimersIn
    <3>4. TickIn(wake - clock)'
      BY <1>0, <2>1, <2>2, <2>6, <3>1, <3>2 DEF TickIn
    <3> QED BY <3>3, <3>4
  <2> QED BY <1>0, <2>4, <2>5, <2>6 DEF WakeOK, Reading
<1> QED BY <1>1, <1>2, <1>3, <1>4, <1>5 DEF IndInv

(***************************************************************************)
(* What a client's request leaves behind: the timer is at the end of the   *)
(* queue, once, and the loop is told.                                      *)
(***************************************************************************)
LEMMA RequestStep ==
    ASSUME IndInv, Resting, NEW t \in Timers, NEW r \in Requests \ {"None"},
           tm[t].alloc,
           tm' \in [Timers -> TimerRec],
           \A u \in Timers : u # t => tm'[u] = tm[u],
           tm'[t].alloc = tm[t].alloc, tm'[t].active = tm[t].active,
           tm'[t].interval = tm[t].interval, tm'[t].start = tm[t].start,
           tm'[t].next \in Intervals \cup {0}, tm'[t].request = r,
           queue' = Append(Unlinked(queue, t), t), flag' = TRUE,
           asked' = [asked EXCEPT ![t] = (r = "Start")],
           UNCHANGED <<clock, list, tick, stop, pc, sleepVars, stops, deadline>>
    PROVE  IndInv'
<1> DEFINE rest == Unlinked(queue, t)
<1>0. TypeOK /\ IsInjective(queue) /\ queue \in Seq(Timers)
  BY DEF IndInv, ListsMatchTimers, TypeOK
<1>1. /\ rest \in Seq(Timers) /\ IsInjective(rest) /\ ToSet(rest) = ToSet(queue) \ {t}
  BY <1>0, UnlinkLemma
<1> HIDE DEF rest
<1>2. /\ queue' \in Seq(Timers) /\ IsInjective(queue') /\ ToSet(queue') = ToSet(queue) \cup {t}
  BY <1>1, AppendLemma DEF rest
<1>3. asked' \in [Timers -> BOOLEAN]
  BY <1>0 DEF TypeOK
<1>4. TypeOK'
  BY <1>0, <1>2, <1>3 DEF TypeOK, TimerRec, sleepVars
<1>5. IntervalsOK'
  BY DEF IndInv, IntervalsOK
<1>6. ListsMatchTimers'
  <2> SUFFICES ASSUME NEW u \in Timers
               PROVE  /\ tm'[u].active <=> u \in ToSet(list)
                      /\ tm'[u].request # "None" <=> u \in ToSet(queue')
    BY <1>2 DEF IndInv, ListsMatchTimers
  <2>1. /\ tm[u].active <=> u \in ToSet(list)
        /\ tm[u].request # "None" <=> u \in ToSet(queue)
    BY DEF IndInv, ListsMatchTimers
  <2> QED BY <1>2, <2>1
<1>7. StateOK'
  <2> SUFFICES ASSUME NEW u \in Timers
               PROVE  /\ ~tm'[u].alloc => ~tm'[u].active /\ tm'[u].request = "None"
                      /\ tm'[u].active <=> deadline'[u] # Never
    BY DEF StateOK
  <2>1. /\ ~tm[u].alloc => ~tm[u].active /\ tm[u].request = "None"
        /\ tm[u].active <=> deadline[u] # Never
    BY DEF IndInv, StateOK
  <2>2. tm'[u].alloc = tm[u].alloc /\ tm'[u].active = tm[u].active
    OBVIOUS
  <2> QED BY <2>1, <2>2
<1>8. TimeOK'
  <2> SUFFICES ASSUME NEW u \in Timers, tm'[u].active PROVE Fits(tm[u], deadline[u])'
    BY DEF TimeOK
  <2>1. tm[u].active /\ tm'[u].interval = tm[u].interval /\ tm'[u].start = tm[u].start
    OBVIOUS
  <2> QED BY <2>1 DEF IndInv, TimeOK, Fits
<1>9. SortedOK'
  BY DEF IndInv, SortedOK, Sorted
<1>10. WakeOK'
  BY DEF WakeOK, Reading, Resting
<1>11. AskedOK'
  <2> SUFFICES ASSUME stops = 0, NEW u \in Timers,
                      tm'[u].request = "Start" \/ (tm'[u].active /\ tm'[u].request = "None")
               PROVE  asked'[u]
    BY DEF AskedOK
  <2>1. CASE u = t
    BY <1>0, <2>1 DEF TypeOK
  <2>2. CASE u # t
    <3>1. asked[u]
      BY <2>2 DEF IndInv, AskedOK
    <3> QED BY <1>0, <2>2, <3>1 DEF TypeOK
  <2> QED BY <2>1, <2>2
<1> QED BY <1>4, <1>5, <1>6, <1>7, <1>8, <1>9, <1>10, <1>11 DEF IndInv

(***************************************************************************)
(* furi_event_loop_timer_start, restart, stop and free.                    *)
(***************************************************************************)
LEMMA EnqueueStep ==
    ASSUME IndInv, NEW t \in Timers,
           \/ \E i \in Intervals : TimerStart(t, i)
           \/ TimerRestart(t) \/ TimerStop(t) \/ TimerFree(t)
    PROVE  IndInv'
<1>0. /\ TypeOK /\ tm \in [Timers -> TimerRec] /\ Intervals \subseteq Nat
      /\ tm[t].interval \in Intervals \cup {0} /\ tm[t].next \in Intervals \cup {0}
  BY ClockAssumption DEF IndInv, IntervalsOK, TypeOK, TimerRec
<1>1. ASSUME NEW f \in [Timers -> TimerRec], NEW r \in Requests \ {"None"}, NEW n \in Intervals \cup {0},
             f = [tm EXCEPT ![t].next = n], pc \in UserPcs, Enqueue(t, r, f),
             asked' = [asked EXCEPT ![t] = (r = "Start")],
             UNCHANGED <<clock, list, tick, stop, pc, sleepVars, stops, deadline>>
      PROVE  IndInv'
  <2>1. tm' = [f EXCEPT ![t].request = r] /\ tm[t].alloc
    BY <1>1 DEF Enqueue
  <2>2. tm' \in [Timers -> TimerRec]
    <3>1. f[t] \in TimerRec
      BY <1>1
    <3>2. [f[t] EXCEPT !.request = r] \in TimerRec
      BY <3>1 DEF TimerRec
    <3>3. tm' = [f EXCEPT ![t] = [f[t] EXCEPT !.request = r]]
      BY <1>1, <2>1
    <3> QED BY <1>1, <3>2, <3>3
  <2>3. \A u \in Timers : u # t => tm'[u] = tm[u]
    BY <1>0, <1>1, <2>1
  <2>4. tm[t] \in TimerRec /\ tm'[t] = [[tm[t] EXCEPT !.next = n] EXCEPT !.request = r]
    BY <1>0, <1>1, <2>1
  <2>5. /\ tm'[t].alloc = tm[t].alloc /\ tm'[t].active = tm[t].active
        /\ tm'[t].interval = tm[t].interval /\ tm'[t].start = tm[t].start
        /\ tm'[t].next = n /\ tm'[t].request = r
    BY <2>4 DEF TimerRec
  <2>6. queue' = Append(Unlinked(queue, t), t) /\ flag' = TRUE /\ Resting
    BY <1>1 DEF Enqueue, Resting
  <2>7. tm'[t].next \in Intervals \cup {0} /\ tm'[t].request = r
    BY <1>1, <2>5
  <2>8. r \in Requests \ {"None"}
    BY <1>1
  <2>9. asked' = [asked EXCEPT ![t] = (r = "Start")]
    BY <1>1, Zenon
  <2> QED BY <1>1, <2>1, <2>2, <2>3, <2>5, <2>6, <2>7, <2>8, <2>9, RequestStep, Zenon
<1>2. ASSUME NEW n \in Intervals \cup {0}
      PROVE  [tm EXCEPT ![t].next = n] \in [Timers -> TimerRec]
  BY <1>0, <1>2 DEF TimerRec
<1>3. tm = [tm EXCEPT ![t].next = tm[t].next]
  BY <1>0 DEF TimerRec
<1>4. CASE \E i \in Intervals : TimerStart(t, i)
  <2>1. PICK i \in Intervals : TimerStart(t, i)
    BY <1>4
  <2>2. asked' = [asked EXCEPT ![t] = ("Start" = "Start")]
    BY <2>1 DEF TimerStart
  <2> QED BY <1>1, <1>2, <2>1, <2>2 DEF TimerStart
<1>5. CASE TimerRestart(t)
  <2>2. asked' = [asked EXCEPT ![t] = ("Start" = "Start")]
    BY <1>5 DEF TimerRestart
  <2> QED BY <1>0, <1>1, <1>2, <1>5, <2>2 DEF TimerRestart
<1>6. CASE TimerStop(t)
  <2>2. asked' = [asked EXCEPT ![t] = ("Stop" = "Start")]
    BY <1>6 DEF TimerStop
  <2> QED BY <1>0, <1>1, <1>3, <1>6, <2>2 DEF TimerStop
<1>7. CASE TimerFree(t)
  <2>2. asked' = [asked EXCEPT ![t] = ("Free" = "Start")]
    BY <1>7 DEF TimerFree
  <2> QED BY <1>0, <1>1, <1>3, <1>7, <2>2 DEF TimerFree
<1> QED BY <1>4, <1>5, <1>6, <1>7

(***************************************************************************)
(* A step of the loop or a call that leaves the timers alone.              *)
(***************************************************************************)
LEMMA QuietStep ==
    ASSUME IndInv, UNCHANGED <<clock, tm, list, queue, deadline, asked>>,
           tick' \in [interval: TickIntervals \cup {0}, prev: 0..(Modulus - 1)],
           flag' \in BOOLEAN, stop' \in BOOLEAN, pc' \in Pcs, stops' \in Nat,
           wait' \in Nat, wake' \in Nat, lag' \in Nat, WakeOK',
           stops' = 0 => stops = 0 /\ (queue # <<>> => flag' \/ pc' = "queue")
    PROVE  IndInv'
<1>1. tick' \in [interval: Nat, prev: 0..(Modulus - 1)] /\ tick'.interval \in TickIntervals \cup {0}
  <2>1. TickIntervals \cup {0} \subseteq Nat
    BY ClockAssumption
  <2>2. \A k \in [interval: TickIntervals \cup {0}, prev: 0..(Modulus - 1)] :
            k \in [interval: Nat, prev: 0..(Modulus - 1)] /\ k.interval \in TickIntervals \cup {0}
    BY <2>1
  <2> QED BY <2>2
<1>2. TypeOK'
  BY <1>1 DEF IndInv, TypeOK
<1>3. IntervalsOK' /\ StateOK'
  BY <1>1 DEF IndInv, IntervalsOK, StateOK
<1>4. ListsMatchTimers'
  BY DEF IndInv, ListsMatchTimers
<1>5. TimeOK' /\ SortedOK'
  BY DEF IndInv, TimeOK, Fits, SortedOK, Sorted
<1>6. AskedOK'
  BY DEF IndInv, AskedOK
<1> QED BY <1>2, <1>3, <1>4, <1>5, <1>6 DEF IndInv

(***************************************************************************)
(* The wait is as long as the first timer and the tick allow.              *)
(***************************************************************************)
LEMMA SleepLemma ==
    ASSUME IndInv
    PROVE  /\ TimerWait \in Nat /\ TickWait \in Nat
           /\ TimerWait # 0 =>
                  \A t \in Timers : tm[t].active => clock + TimerWait <= deadline[t]
           /\ TickWait # 0 /\ tick.interval # 0 => TickWait = tick.interval - TickElapsed
<1>0. TypeOK /\ Forever \in Nat /\ clock \in Nat /\ Modulus \in Nat \ {0}
  BY ClockAssumption DEF IndInv, TypeOK, Forever
<1>1. tick.interval \in Nat /\ TickElapsed \in Nat
  BY <1>0 DEF TypeOK, TickElapsed, Now
<1>2. TickWait \in Nat /\ (TickWait # 0 /\ tick.interval # 0 => TickWait = tick.interval - TickElapsed)
  BY <1>0, <1>1 DEF TickWait, TickRemaining
<1>3. CASE list = <<>>
  <2>1. \A t \in Timers : ~tm[t].active
    <3>1. ToSet(list) = {}
      BY <1>3 DEF ToSet
    <3> QED BY <3>1 DEF IndInv, ListsMatchTimers
  <2> QED BY <1>0, <1>2, <1>3, <2>1 DEF TimerWait
<1>4. CASE list # <<>>
  <2> DEFINE h == Head(list)
  <2>1. list \in Seq(Timers) /\ IsInjective(list)
    BY <1>0 DEF TypeOK, IndInv, ListsMatchTimers
  <2>2. h \in Timers /\ h \in ToSet(list) /\ h = list[1] /\ Len(list) \in Nat \ {0}
    BY <1>4, <2>1, TailLemma
  <2> HIDE DEF h
  <2>3. tm[h].active /\ Fits(tm[h], deadline[h])
    BY <2>2 DEF IndInv, ListsMatchTimers, TimeOK
  <2>4. deadline[h] \in Int
    <3>1. deadline[h] \in Nat \cup {Never}
      BY <1>0, <2>2 DEF TypeOK
    <3> QED BY <3>1 DEF Never
  <2>5. tm[h].interval \in Intervals \cup {0} /\ tm[h].start \in 0..(Modulus - 1)
    BY <1>0, <2>2 DEF TypeOK, IndInv, IntervalsOK
  <2>6. Remaining(tm[h]) = IF deadline[h] > clock THEN deadline[h] - clock ELSE 0
    BY <1>0, <2>3, <2>4, <2>5, RemainingLemma
  <2>7. TimerWait = Remaining(tm[h])
    BY <1>4 DEF TimerWait, h
  <2>8. TimerWait \in Nat /\ (TimerWait # 0 => deadline[h] > clock /\ clock + TimerWait = deadline[h])
    BY <1>0, <2>4, <2>6, <2>7
  <2>9. ASSUME TimerWait # 0, NEW t \in Timers, tm[t].active
        PROVE  clock + TimerWait <= deadline[t]
    <3>1. t \in ToSet(list)
      BY <2>9 DEF IndInv, ListsMatchTimers
    <3>2. PICK j \in 1..Len(list) : list[j] = t
      BY <2>1, <3>1 DEF ToSet
    <3>3. 1 \in 1..Len(list) /\ (j = 1 \/ 1 < j)
      BY <2>2, <3>2
    <3>4. t = h \/ deadline[h] <= deadline[t] \/ deadline[h] <= clock
      BY <2>2, <3>2, <3>3 DEF IndInv, SortedOK, Sorted
    <3>5. deadline[t] \in Int
      <4>1. deadline[t] \in Nat \cup {Never}
        BY <1>0 DEF TypeOK
      <4> QED BY <4>1 DEF Never
    <3> QED BY <1>0, <2>4, <2>8, <2>9, <3>4, <3>5
  <2> QED BY <1>2, <2>8, <2>9
<1> QED BY <1>3, <1>4

(***************************************************************************)
(* The loop computes its wait time and blocks: it does not sleep past the  *)
(* first deadline by more than the ticks that came in between.             *)
(***************************************************************************)
LEMMA SleepStep == IndInv /\ (ReadTimers \/ ReadTick \/ Block) => IndInv'
<1> SUFFICES ASSUME IndInv, ReadTimers \/ ReadTick \/ Block PROVE IndInv'
  OBVIOUS
<1>0. UNCHANGED <<clock, tm, list, queue, tick, flag, stop, stops, deadline, asked, lag>>
  BY DEF ReadTimers, ReadTick, Block, timerVars
<1>1. /\ tick' \in [interval: TickIntervals \cup {0}, prev: 0..(Modulus - 1)]
      /\ clock \in Nat /\ wait \in Nat /\ wake \in Nat /\ lag \in Nat
      /\ flag' \in BOOLEAN /\ stop' \in BOOLEAN /\ stops' \in Nat
  <2>1. tick' \in [interval: Nat, prev: 0..(Modulus - 1)] /\ tick'.interval \in TickIntervals \cup {0}
    BY <1>0 DEF IndInv, TypeOK, IntervalsOK
  <2> QED BY <1>0, <2>1 DEF IndInv, TypeOK
<1>2. TimerWait \in Nat /\ TickWait \in Nat
  BY SleepLemma
<1>3. tick.interval \in Nat /\ TickElapsed \in Int /\ \A t \in Timers : deadline[t] \in Int
  BY <1>1, ClockAssumption DEF IndInv, TypeOK, TickElapsed, Now, Never
<1>4. TickElapsed' = TickElapsed
  BY <1>0 DEF TickElapsed, Now
<1>5. ASSUME pc' \in Pcs \ {"queue"}, pc # "queue", wait' \in Nat, wake' \in Nat, WakeOK'
      PROVE  IndInv'
  <2>1. stops' = 0 => stops = 0 /\ (queue # <<>> => flag' \/ pc' = "queue")
    BY <1>0, <1>5 DEF IndInv, AskedOK
  <2> QED BY <1>0, <1>1, <1>5, <2>1, QuietStep
<1>6. CASE ReadTimers
  <2>1. pc = "head" /\ pc' = "wait" /\ wait' = TimerWait /\ wake' = wake
    BY <1>6 DEF ReadTimers
  <2>2. TimersIn(wait)'
    <3>1. TimerWait # 0 => \A t \in Timers : tm[t].active => clock + TimerWait <= deadline[t]
      BY SleepLemma
    <3> QED BY <1>0, <1>1, <1>2, <1>3, <2>1, <3>1 DEF TimersIn
  <2>3. WakeOK'
    BY <2>1, <2>2 DEF WakeOK, Reading
  <2> QED BY <1>1, <1>2, <1>5, <2>1, <2>3
<1>7. CASE ReadTick
  <2>1. pc = "wait" /\ pc' = "sleep" /\ wait' = Smaller(wait, TickWait) /\ wake' = wake
    BY <1>7 DEF ReadTick
  <2>2. wait' \in Nat /\ wait' <= wait /\ wait' <= TickWait
    BY <1>1, <1>2, <2>1 DEF Smaller
  <2>3. TimersIn(wait)'
    <3>1. TimersIn(wait)
      BY <2>1 DEF IndInv, WakeOK, Reading
    <3> QED BY <1>0, <1>1, <1>3, <2>2, <3>1 DEF TimersIn
  <2>4. TickIn(wait)'
    <3>1. TickWait # 0 /\ tick.interval # 0 => TickWait = tick.interval - TickElapsed
      BY SleepLemma
    <3> QED BY <1>0, <1>1, <1>2, <1>3, <1>4, <2>2, <3>1 DEF TickIn
  <2>5. WakeOK'
    BY <2>1, <2>3, <2>4 DEF WakeOK, Reading
  <2> QED BY <1>1, <1>5, <2>1, <2>2, <2>5
<1>8. CASE Block
  <2>1. pc = "sleep" /\ pc' = "blocked" /\ wait' = 0 /\ wake' = clock + wait
    BY <1>8 DEF Block
  <2>2. TimersIn(wait) /\ TickIn(wait)
    BY <2>1 DEF IndInv, WakeOK, Reading
  <2>3. wake' - clock' = wait
    BY <1>0, <1>1, <2>1
  <2>4. TimersIn(wake - clock)'
    BY <1>0, <2>2, <2>3 DEF TimersIn
  <2>5. TickIn(wake - clock)'
    BY <1>0, <1>4, <2>2, <2>3 DEF TickIn
  <2>6. WakeOK'
    BY <2>1, <2>4, <2>5 DEF WakeOK, Reading
  <2> QED BY <1>1, <1>5, <2>1, <2>6
<1> QED BY <1>6, <1>7, <1>8

(***************************************************************************)
(* furi_event_loop_tick_set and furi_event_loop_stop, and the steps of the *)
(* loop that leave the timers alone.                                       *)
(***************************************************************************)
LEMMA OtherStep ==
    ASSUME IndInv,
           \/ \E i \in TickIntervals : TickSet(i)
           \/ StopLoop \/ Run \/ TakeStop \/ OtherEvent \/ TakeTimer \/ QueueDone
           \/ FireTick \/ Return
    PROVE  IndInv'
<1> DEFINE Ticks == [interval: TickIntervals \cup {0}, prev: 0..(Modulus - 1)]
<1>1. /\ TypeOK /\ tick \in Ticks /\ Modulus \in Nat \ {0} /\ clock \in Nat
      /\ flag \in BOOLEAN /\ stop \in BOOLEAN /\ pc \in Pcs /\ stops \in Nat
      /\ wait \in Nat /\ wake \in Nat /\ lag \in Nat
  <2>1. tick \in [interval: Nat, prev: 0..(Modulus - 1)] /\ tick.interval \in TickIntervals \cup {0}
    BY DEF IndInv, TypeOK, IntervalsOK
  <2>2. tick \in Ticks
    BY <2>1
  <2> QED BY <2>2, ClockAssumption DEF IndInv, TypeOK
<1>2. Now \in 0..(Modulus - 1) /\ \A x \in Nat : x % Modulus \in 0..(Modulus - 1)
  BY <1>1 DEF Now
<1>3. stops = 0 /\ queue # <<>> => flag \/ pc = "queue"
  BY DEF IndInv, AskedOK
<1> HIDE DEF Ticks
<1>4. ASSUME UNCHANGED <<clock, tm, list, queue, deadline, asked>>, tick' \in Ticks,
             flag' \in BOOLEAN, stop' \in BOOLEAN, pc' \in Pcs \ {"wait", "sleep", "blocked"}, stops' \in Nat,
             Awake \/ UNCHANGED <<wait, wake, lag>>,
             stops' = 0 => stops = 0 /\ (queue # <<>> => flag' \/ pc' = "queue")
      PROVE  IndInv'
  <2>1. WakeOK'
    BY <1>4 DEF WakeOK, Reading
  <2>2. wait' \in Nat /\ wake' \in Nat /\ lag' \in Nat
    BY <1>1, <1>4 DEF Awake
  <2> QED BY <1>4, <2>1, <2>2, QuietStep DEF Ticks
<1>5. ASSUME NEW i \in TickIntervals, TickSet(i) PROVE IndInv'
  <2>1. tick' \in Ticks
    BY <1>2, <1>5 DEF TickSet, Ticks
  <2> QED BY <1>1, <1>3, <1>4, <1>5, <2>1 DEF TickSet, timerVars, loopVars, sleepVars
<1>6. CASE StopLoop
  BY <1>1, <1>3, <1>4, <1>6 DEF StopLoop, timerVars, sleepVars
<1>7. CASE Run
  <2>1. tick' \in Ticks
    BY <1>1, <1>2, <1>7 DEF Run, Ticks
  <2> QED BY <1>1, <1>3, <1>4, <1>7, <2>1 DEF Run, timerVars, sleepVars
<1>8. CASE TakeStop
  <2>1. stops' \in Nat /\ stops' # 0
    BY <1>1, <1>8 DEF TakeStop
  <2>2. UNCHANGED <<clock, tm, list, queue, tick, deadline, asked>>
    BY <1>8 DEF TakeStop, timerVars
  <2>3. flag' = FALSE /\ stop' = FALSE /\ pc' = "idle" /\ Awake
    BY <1>8 DEF TakeStop
  <2> QED BY <1>1, <1>4, <2>1, <2>2, <2>3
<1>9. CASE OtherEvent
  BY <1>1, <1>3, <1>4, <1>9 DEF OtherEvent, timerVars
<1>10. CASE TakeTimer
  BY <1>1, <1>3, <1>4, <1>10 DEF TakeTimer, timerVars
<1>11. CASE QueueDone
  BY <1>1, <1>3, <1>4, <1>11 DEF QueueDone, timerVars, sleepVars
<1>12. CASE FireTick
  <2>1. tick' \in Ticks
    <3>1. tick.interval \in Nat /\ tick.prev \in Nat
      BY <1>1 DEF TypeOK
    <3>2. (tick.prev + tick.interval) % Modulus \in 0..(Modulus - 1)
      BY <1>2, <3>1
    <3> QED BY <1>1, <1>12, <3>2 DEF FireTick, Ticks
  <2>2. flag' = flag /\ stop' = stop /\ pc' \in {"kcb", "head"} /\ Awake /\ stops' = stops /\ pc = "blocked"
    BY <1>12 DEF FireTick, TimedOut
  <2>3. UNCHANGED <<clock, tm, list, queue, deadline, asked>>
    BY <1>12 DEF FireTick, timerVars
  <2> QED BY <1>1, <1>3, <1>4, <2>1, <2>2, <2>3
<1>13. CASE Return
  BY <1>1, <1>3, <1>4, <1>13 DEF Return, timerVars, sleepVars
<1> QED BY <1>5, <1>6, <1>7, <1>8, <1>9, <1>10, <1>11, <1>12, <1>13

(***************************************************************************)
(* furi_event_loop_timer_alloc, into the memory of a timer that was freed. *)
(***************************************************************************)
LEMMA AllocStep ==
    ASSUME IndInv, NEW t \in Timers, TimerAlloc(t)
    PROVE  IndInv'
<1>0. /\ UNCHANGED <<clock, list, queue, tick, flag, stop, pc, sleepVars, stops, deadline, asked>>
      /\ UNCHANGED <<wait, wake, lag>>
      /\ Resting /\ ~tm[t].alloc /\ tm' = [tm EXCEPT ![t] = NewTimer]
  BY DEF TimerAlloc, loopVars, sleepVars, Resting
<1>1. TypeOK /\ tm \in [Timers -> TimerRec]
  BY DEF IndInv, TypeOK, TimerRec
<1>2. NewTimer \in TimerRec /\ ~NewTimer.active /\ NewTimer.request = "None"
      /\ NewTimer.interval = 0 /\ NewTimer.next = 0 /\ NewTimer.alloc
  BY ClockAssumption DEF NewTimer, TimerRec
<1>3. /\ tm' \in [Timers -> TimerRec] /\ tm'[t] = NewTimer
      /\ \A u \in Timers : u # t => tm'[u] = tm[u]
  BY <1>0, <1>1, <1>2
<1>4. ~tm[t].active /\ tm[t].request = "None"
  BY <1>0 DEF IndInv, StateOK
<1>5. TypeOK'
  BY <1>0, <1>1, <1>3 DEF TypeOK, TimerRec
<1>6. IntervalsOK' /\ StateOK'
  <2>1. ASSUME NEW u \in Timers
        PROVE  /\ tm'[u].interval \in Intervals \cup {0} /\ tm'[u].next \in Intervals \cup {0}
               /\ ~tm'[u].alloc => ~tm'[u].active /\ tm'[u].request = "None"
               /\ tm'[u].active <=> deadline[u] # Never
    BY <1>2, <1>3, <1>4 DEF IndInv, IntervalsOK, StateOK
  <2> QED BY <1>0, <2>1 DEF IntervalsOK, StateOK, IndInv
<1>7. ListsMatchTimers'
  <2>1. ASSUME NEW u \in Timers
        PROVE  /\ tm'[u].active <=> u \in ToSet(list)
               /\ tm'[u].request # "None" <=> u \in ToSet(queue)
    <3>1. /\ tm[u].active <=> u \in ToSet(list)
          /\ tm[u].request # "None" <=> u \in ToSet(queue)
      BY DEF IndInv, ListsMatchTimers
    <3> QED BY <1>2, <1>3, <1>4, <3>1
  <2> QED BY <1>0, <2>1 DEF IndInv, ListsMatchTimers
<1>8. TimeOK' /\ SortedOK'
  <2>1. ASSUME NEW u \in Timers, tm'[u].active PROVE Fits(tm[u], deadline[u])'
    <3>1. u # t /\ tm'[u] = tm[u]
      BY <1>2, <1>3, <2>1
    <3> QED BY <1>0, <2>1, <3>1 DEF IndInv, TimeOK, Fits
  <2> QED BY <1>0, <2>1 DEF IndInv, TimeOK, SortedOK, Sorted
<1>9. WakeOK'
  BY <1>0 DEF WakeOK, Resting, Reading
<1>10. AskedOK'
  <2>1. ASSUME stops = 0, NEW u \in Timers,
               tm'[u].request = "Start" \/ (tm'[u].active /\ tm'[u].request = "None")
        PROVE  asked[u]
    <3>1. u # t /\ tm'[u] = tm[u]
      BY <1>2, <1>3, <2>1
    <3> QED BY <2>1, <3>1 DEF IndInv, AskedOK
  <2> QED BY <1>0, <2>1 DEF IndInv, AskedOK
<1> QED BY <1>5, <1>6, <1>7, <1>8, <1>9, <1>10 DEF IndInv

(***************************************************************************)
(* One request of the queue is processed: the timer is started, stopped or *)
(* freed, wherever it was.                                                 *)
(***************************************************************************)
LEMMA ProcessStep == IndInv /\ ProcessRequest => IndInv'
<1> SUFFICES ASSUME IndInv, ProcessRequest PROVE IndInv'
  OBVIOUS
<1> DEFINE t == Head(queue)
           rest == IF tm[t].active THEN Unlinked(list, t) ELSE list
           started == [tm EXCEPT ![t] = [@ EXCEPT !.active = TRUE,
                                                  !.interval = tm[t].next,
                                                  !.start = Now,
                                                  !.request = "None"]]
           Started == /\ tm[t].request = "Start"
                      /\ tm' = started
                      /\ list' = Schedule(rest, started, t)
                      /\ deadline' = [deadline EXCEPT ![t] = clock + tm[t].next]
           Stopped == /\ tm[t].request = "Stop"
                      /\ tm' = [tm EXCEPT ![t] = [@ EXCEPT !.active = FALSE,
                                                           !.request = "None"]]
                      /\ list' = rest
                      /\ deadline' = [deadline EXCEPT ![t] = Never]
           Freed == /\ tm[t].request = "Free"
                    /\ tm' = [tm EXCEPT ![t] = [NewTimer EXCEPT !.alloc = FALSE]]
                    /\ list' = rest
                    /\ deadline' = [deadline EXCEPT ![t] = Never]
<1>0. /\ UNCHANGED <<clock, tick, flag, stop, pc, wait, wake, lag, stops, asked>>
      /\ pc = "queue" /\ queue # <<>> /\ queue' = Tail(queue)
      /\ Started \/ Stopped \/ Freed
  BY DEF ProcessRequest, loopVars, sleepVars
<1>1. /\ TypeOK /\ tm \in [Timers -> TimerRec] /\ Modulus \in Nat \ {0} /\ clock \in Nat
      /\ list \in Seq(Timers) /\ IsInjective(list)
      /\ queue \in Seq(Timers) /\ IsInjective(queue)
  BY ClockAssumption DEF IndInv, TypeOK, TimerRec, ListsMatchTimers
<1>2. /\ t \in Timers /\ t \in ToSet(queue)
      /\ queue' \in Seq(Timers) /\ IsInjective(queue') /\ ToSet(queue') = ToSet(queue) \ {t}
  BY <1>0, <1>1, TailLemma
<1>3. \A u \in Timers : /\ tm[u].active <=> u \in ToSet(list)
                        /\ tm[u].request # "None" <=> u \in ToSet(queue)
  BY DEF IndInv, ListsMatchTimers
<1> HIDE DEF t
<1>4. /\ rest \in Seq(Timers) /\ IsInjective(rest) /\ ToSet(rest) = ToSet(list) \ {t}
      /\ \A d : Sorted(list, d) => Sorted(rest, d)
  <2>1. CASE tm[t].active
    BY <1>1, <2>1, UnlinkLemma
  <2>2. CASE ~tm[t].active
    BY <1>1, <1>2, <1>3, <2>2
  <2> QED BY <2>1, <2>2
<1> HIDE DEF rest
<1>5. Sorted(rest, deadline)
  BY <1>4 DEF IndInv, SortedOK
<1>6. Sorted(rest, deadline')
  <2>1. \A i \in 1..Len(rest) : rest[i] \in Timers /\ rest[i] # t
    BY <1>4 DEF ToSet
  <2>2. \A u \in Timers : u # t => deadline'[u] = deadline[u]
    BY <1>0, <1>1, <1>2 DEF TypeOK
  <2> QED BY <1>5, <2>1, <2>2 DEF Sorted
<1>7. /\ tm[t].interval \in Intervals \cup {0} /\ tm[t].next \in Intervals \cup {0}
      /\ Intervals \subseteq Nat /\ Now \in 0..(Modulus - 1) /\ tm[t] \in TimerRec
  BY <1>1, <1>2, ClockAssumption DEF IndInv, IntervalsOK, Now
<1>8. /\ tm' \in [Timers -> TimerRec]
      /\ \A u \in Timers : u # t => tm'[u] = tm[u] /\ deadline'[u] = deadline[u]
      /\ tm'[t].request = "None"
      /\ tm'[t].interval \in Intervals \cup {0} /\ tm'[t].next \in Intervals \cup {0}
      /\ deadline' \in [Timers -> Nat \cup {Never}]
      /\ deadline'[t] # Never <=> Started
      /\ tm'[t].active <=> Started
      /\ tm'[t].alloc \/ Freed
  <2>1. CASE Started
    <3> DEFINE x == [tm[t] EXCEPT !.active = TRUE, !.interval = tm[t].next, !.start = Now,
                                  !.request = "None"]
    <3>1. x \in TimerRec /\ x.active /\ x.request = "None" /\ x.interval = tm[t].next /\ x.next = tm[t].next
          /\ x.alloc = tm[t].alloc
      BY <1>7 DEF TimerRec
    <3>2. tm' = [tm EXCEPT ![t] = x]
      BY <1>1, <1>2, <2>1
    <3>3. tm[t].next \in Nat
      BY <1>7 DEF TimerRec
    <3>4. tm[t].alloc
      BY <1>2, <2>1 DEF IndInv, StateOK
    <3> HIDE DEF x
    <3>5. tm' \in [Timers -> TimerRec] /\ tm'[t] = x /\ \A u \in Timers : u # t => tm'[u] = tm[u]
      BY <1>1, <1>2, <3>1, <3>2
    <3>6. /\ deadline' \in [Timers -> Nat \cup {Never}] /\ deadline'[t] # Never
          /\ \A u \in Timers : u # t => deadline'[u] = deadline[u]
      BY <1>1, <1>2, <2>1, <3>3 DEF TypeOK, Never
    <3> QED BY <1>7, <2>1, <3>1, <3>4, <3>5, <3>6
  <2>2. CASE Stopped
    <3> DEFINE x == [tm[t] EXCEPT !.active = FALSE, !.request = "None"]
    <3>1. x \in TimerRec /\ ~x.active /\ x.request = "None" /\ x.interval = tm[t].interval /\ x.next = tm[t].next
          /\ x.alloc = tm[t].alloc
      BY <1>7 DEF TimerRec
    <3>2. tm' = [tm EXCEPT ![t] = x]
      BY <1>1, <1>2, <2>2
    <3>4. tm[t].alloc
      BY <1>2, <2>2 DEF IndInv, StateOK
    <3> HIDE DEF x
    <3>5. tm' \in [Timers -> TimerRec] /\ tm'[t] = x /\ \A u \in Timers : u # t => tm'[u] = tm[u]
      BY <1>1, <1>2, <3>1, <3>2
    <3>6. /\ deadline' \in [Timers -> Nat \cup {Never}] /\ deadline'[t] = Never
          /\ \A u \in Timers : u # t => deadline'[u] = deadline[u]
      BY <1>1, <1>2, <2>2 DEF TypeOK
    <3>7. ~Started
      BY <2>2
    <3> QED BY <1>7, <2>2, <3>1, <3>4, <3>5, <3>6, <3>7
  <2>3. CASE Freed
    <3> DEFINE x == [NewTimer EXCEPT !.alloc = FALSE]
    <3>1. x \in TimerRec /\ ~x.active /\ x.request = "None" /\ x.interval = 0 /\ x.next = 0
      <4>1. 0 \in 0..(Modulus - 1)
        BY <1>1
      <4>2. NewTimer \in TimerRec /\ ~NewTimer.active /\ NewTimer.request = "None"
            /\ NewTimer.interval = 0 /\ NewTimer.next = 0
        BY <4>1 DEF NewTimer, TimerRec
      <4> QED BY <4>2 DEF TimerRec
    <3>2. tm' = [tm EXCEPT ![t] = x]
      BY <2>3
    <3> HIDE DEF x
    <3>5. tm' \in [Timers -> TimerRec] /\ tm'[t] = x /\ \A u \in Timers : u # t => tm'[u] = tm[u]
      BY <1>1, <1>2, <3>1, <3>2
    <3>6. /\ deadline' \in [Timers -> Nat \cup {Never}] /\ deadline'[t] = Never
          /\ \A u \in Timers : u # t => deadline'[u] = deadline[u]
      BY <1>1, <1>2, <2>3 DEF TypeOK
    <3>7. ~Started
      BY <2>3
    <3> QED BY <1>7, <2>3, <3>1, <3>5, <3>6, <3>7
  <2> QED BY <1>0, <2>1, <2>2, <2>3
<1>9. TimeOK'
  <2> SUFFICES ASSUME NEW u \in Timers, tm'[u].active PROVE Fits(tm[u], deadline[u])'
    BY DEF TimeOK
  <2>1. CASE u # t
    <3>1. tm'[u] = tm[u] /\ deadline'[u] = deadline[u] /\ clock' = clock
      BY <1>0, <1>8, <2>1
    <3> QED BY <3>1 DEF IndInv, TimeOK, Fits
  <2>2. CASE u = t
    <3>1. Started
      BY <1>8, <2>2
    <3>2. tm'[t].start = Now /\ tm'[t].interval = tm[t].next /\ deadline'[t] = clock + tm[t].next
      BY <1>1, <1>2, <1>7, <3>1 DEF TimerRec, TypeOK
    <3>3. tm[t].next \in Nat /\ MaxLate \in Nat
      BY <1>7, ClockAssumption DEF TimerRec
    <3> DEFINE n == tm[t].next
    <3> HIDE DEF n
    <3>4. ((clock % Modulus) + n) % Modulus = (clock + n) % Modulus
      <4>1. n \in Nat /\ clock + n \in Int /\ 0 \in Int
        BY <1>1, <3>3 DEF n
      <4>4. \A d \in Int, k \in Int :
                (clock + n) % Modulus = d % Modulus => (((clock + k) % Modulus) + n) % Modulus = (d + k) % Modulus
        BY <1>1, <4>1, PhaseLemma, Zenon
      <4>2. (((clock + 0) % Modulus) + n) % Modulus = ((clock + n) + 0) % Modulus
        BY <4>1, <4>4, Zenon
      <4>3. clock + 0 = clock /\ (clock + n) + 0 = clock + n
        BY <1>1, <4>1
      <4> QED BY <4>2, <4>3, Zenon
    <3>5. (Now + tm[t].next) % Modulus = (clock + tm[t].next) % Modulus
      BY <3>4 DEF Now, n
    <3> QED BY <1>0, <1>1, <2>2, <3>2, <3>3, <3>5 DEF Fits
  <2> QED BY <2>1, <2>2
<1>10. /\ list' \in Seq(Timers) /\ IsInjective(list')
       /\ \A u \in Timers : u \in ToSet(list') <=> tm'[u].active
       /\ Sorted(list', deadline')
  <2>1. CASE ~Started
    <3>1. list' = rest /\ ~tm'[t].active
      BY <1>0, <1>8, <2>1
    <3> QED BY <1>3, <1>4, <1>6, <1>8, <3>1
  <2>2. CASE Started
    <3>1. \A u \in ToSet(rest) \cup {t} : u \in Timers /\ tm'[u].active
      <4>1. \A u \in ToSet(rest) : u \in ToSet(list) /\ u # t /\ u \in Timers
        <5>1. \A u \in ToSet(list) : u \in Timers
          BY <1>1 DEF ToSet
        <5> QED BY <1>4, <5>1
      <4> QED BY <1>2, <1>3, <1>8, <2>2, <4>1
    <3>2. ASSUME NEW u \in ToSet(rest) \cup {t}
          PROVE  /\ tm'[u].interval \in Intervals \cup {0} /\ tm'[u].start \in 0..(Modulus - 1)
                 /\ deadline'[u] \in Int /\ Fits(tm'[u], deadline'[u])
      <4>1. tm'[u] \in TimerRec /\ u \in Timers
        BY <1>8, <3>1
      <4>2. tm'[u].start \in 0..(Modulus - 1)
        BY <4>1 DEF TimerRec
      <4>3. tm'[u].interval \in Intervals \cup {0}
        BY <1>8, <4>1 DEF IndInv, IntervalsOK
      <4>4. deadline'[u] \in Int
        <5>1. deadline'[u] \in Nat \cup {Never}
          BY <1>8, <4>1
        <5> QED BY <5>1 DEF Never
      <4>5. Fits(tm[u], deadline[u])'
        BY <1>9, <3>1 DEF TimeOK
      <4>6. Fits(tm'[u], deadline'[u])
        BY <1>0, <4>5 DEF Fits
      <4> QED BY <4>2, <4>3, <4>4, <4>6
    <3>3. Sorted(rest, deadline')
      BY <1>6
    <3>4. list' = Schedule(rest, tm', t)
      BY <2>2
    <3>5. t \notin ToSet(rest)
      BY <1>4
    <3>6. /\ list' \in Seq(Timers) /\ IsInjective(list') /\ ToSet(list') = ToSet(rest) \cup {t}
          /\ Sorted(list', deadline')
      BY <1>1, <1>2, <1>4, <3>2, <3>3, <3>4, <3>5, ScheduleLemma
    <3>7. \A u \in Timers : u \in ToSet(list') <=> tm'[u].active
      BY <1>3, <1>4, <1>8, <2>2, <3>6
    <3> QED BY <3>6, <3>7
  <2> QED BY <2>1, <2>2
<1>11. TypeOK'
  BY <1>0, <1>2, <1>8, <1>10, <1>1 DEF TypeOK, TimerRec
<1>12. IntervalsOK'
  BY <1>0, <1>8 DEF IndInv, IntervalsOK
<1>13. ListsMatchTimers'
  BY <1>2, <1>3, <1>8, <1>10 DEF ListsMatchTimers
<1>14. StateOK'
  <2> SUFFICES ASSUME NEW u \in Timers
               PROVE  /\ ~tm'[u].alloc => ~tm'[u].active /\ tm'[u].request = "None"
                      /\ tm'[u].active <=> deadline'[u] # Never
    BY DEF StateOK
  <2>1. CASE u # t
    BY <1>8, <2>1 DEF IndInv, StateOK
  <2>2. CASE u = t
    BY <1>8, <2>2
  <2> QED BY <2>1, <2>2
<1>15. SortedOK'
  BY <1>0, <1>10 DEF SortedOK, Sorted
<1>16. WakeOK'
  BY <1>0 DEF WakeOK, Reading
<1>17. AskedOK'
  <2> SUFFICES ASSUME stops = 0, NEW u \in Timers,
                      tm'[u].request = "Start" \/ (tm'[u].active /\ tm'[u].request = "None")
               PROVE  asked[u]
    BY <1>0 DEF AskedOK
  <2>1. CASE u # t
    BY <1>8, <2>1 DEF IndInv, AskedOK
  <2>2. CASE u = t
    BY <1>8, <2>2 DEF IndInv, AskedOK
  <2> QED BY <2>1, <2>2
<1> QED BY <1>9, <1>11, <1>12, <1>13, <1>14, <1>15, <1>16, <1>17 DEF IndInv

(***************************************************************************)
(* A periodic timer is set to the first time of its series that lies in    *)
(* the future: the start value the code computes means that time.          *)
(***************************************************************************)
LEMMA AgainLemma ==
    ASSUME clock \in Nat, NEW t \in Timers, NEW i \in Intervals \cup {0}, i = tm[t].interval,
           tm[t].start \in 0..(Modulus - 1), NEW d \in Int, d = deadline[t], d <= clock,
           Fits(tm[t], d)
    PROVE  /\ NextStart(tm[t]) \in 0..(Modulus - 1)
           /\ NextDeadline(t) \in Nat
           /\ clock <= NextDeadline(t) /\ NextDeadline(t) <= clock + i
           /\ i # 0 => (NextStart(tm[t]) + i) % Modulus = NextDeadline(t) % Modulus
<1> DEFINE s == tm[t].start
<1>0. Modulus \in Nat \ {0} /\ i \in Nat /\ s \in Nat /\ Elapsed(tm[t]) \in Nat
  <2>1. Modulus \in Nat \ {0} /\ \A j \in Intervals : j \in Nat
    BY ClockAssumption
  <2>2. Elapsed(tm[t]) \in Nat /\ s \in Nat
    BY <2>1 DEF Elapsed, Now
  <2> QED BY <2>1, <2>2
<1>1. CASE i = 0
  <2>1. NextStart(tm[t]) = (s + 0) % Modulus /\ NextDeadline(t) = clock
    BY <1>1 DEF NextStart, NextDeadline
  <2>2. (s + 0) % Modulus \in 0..(Modulus - 1)
    BY <1>0
  <2> QED BY <1>1, <2>1, <2>2
<1>2. CASE i # 0
  <2> DEFINE e == clock - d + i
             n == i * (e \div i)
  <2>1. Elapsed(tm[t]) = e
    BY <1>0, <1>2, RemainingLemma
  <2>2. i \in Nat \ {0}
    BY <1>0, <1>2
  <2>3. /\ d + n \in (clock + 1)..(clock + i)
        /\ (CHOOSE x \in (clock + 1)..(clock + i) : (x - d) % i = 0) = d + n
    BY <2>2, NextLemma, Zenon
  <2>4. e \in Nat /\ e \div i \in Int
    BY <2>2
  <2>5. n \in Int
    <3> HIDE DEF e
    <3> DEFINE k == e \div i
    <3>1. k \in Int
      BY <2>4
    <3> HIDE DEF k
    <3>2. i * k \in Int
      BY <1>0, <3>1
    <3> QED BY <3>2 DEF k
  <2>6. NextStart(tm[t]) = (s + n) % Modulus
    BY <1>2, <2>1 DEF NextStart
  <2>7. NextDeadline(t) = d + n
    BY <1>2, <2>3 DEF NextDeadline
  <2> HIDE DEF n
  <2>8. (s + n) % Modulus \in 0..(Modulus - 1)
    BY <1>0, <2>5
  <2>9. (s + i) % Modulus = d % Modulus
    BY <1>2 DEF Fits
  <2> HIDE DEF s
  <2>10. (((s + n) % Modulus) + i) % Modulus = (d + n) % Modulus
    <3>1. \A a \in Int, b \in Int :
              (s + i) % Modulus = a % Modulus => (((s + b) % Modulus) + i) % Modulus = (a + b) % Modulus
      BY <1>0, PhaseLemma, Zenon
    <3>2. d \in Int
      OBVIOUS
    <3> QED BY <2>5, <2>9, <3>1, <3>2, Zenon
  <2>11. (NextStart(tm[t]) + i) % Modulus = NextDeadline(t) % Modulus
    BY <2>6, <2>7, <2>10, Zenon
  <2>12. NextDeadline(t) \in (clock + 1)..(clock + i)
    BY <2>3, <2>7
  <2>13. NextStart(tm[t]) \in 0..(Modulus - 1)
    BY <2>6, <2>8
  <2> QED BY <1>0, <2>11, <2>12, <2>13
<1> QED BY <1>1, <1>2

(***************************************************************************)
(* What FireTimer finds: the front timer runs and its time has come.       *)
(***************************************************************************)
LEMMA FrontLemma ==
    ASSUME IndInv, list # <<>>
    PROVE  /\ Head(list) \in Timers /\ tm[Head(list)].active
           /\ Fits(tm[Head(list)], deadline[Head(list)]) /\ deadline[Head(list)] \in Int
           /\ tm[Head(list)].interval \in Intervals \cup {0}
           /\ tm[Head(list)].start \in 0..(Modulus - 1)
           /\ IsExpired(tm[Head(list)]) => deadline[Head(list)] <= clock
<1> DEFINE t == Head(list)
<1>1. list \in Seq(Timers) /\ IsInjective(list) /\ clock \in Nat
  BY DEF IndInv, TypeOK, ListsMatchTimers
<1>2. t \in Timers /\ t \in ToSet(list)
  BY <1>1, TailLemma
<1> HIDE DEF t
<1>3. tm[t].active /\ Fits(tm[t], deadline[t])
  BY <1>2 DEF IndInv, ListsMatchTimers, TimeOK
<1>4. deadline[t] \in Int
  <2>1. deadline[t] \in Nat \cup {Never}
    BY <1>2 DEF IndInv, TypeOK
  <2> QED BY <2>1 DEF Never
<1>5. tm[t].interval \in Intervals \cup {0} /\ tm[t].start \in 0..(Modulus - 1)
  BY <1>2 DEF IndInv, IntervalsOK, TypeOK
<1>6. IsExpired(tm[t]) => deadline[t] <= clock
  BY <1>1, <1>3, <1>4, <1>5, RemainingLemma
<1> QED BY <1>2, <1>3, <1>4, <1>5, <1>6 DEF t

(***************************************************************************)
(* The front timer has expired: it is called and set again or stopped.     *)
(***************************************************************************)
LEMMA FireStep == IndInv /\ FireTimer => IndInv'
<1> SUFFICES ASSUME IndInv, FireTimer PROVE IndInv'
  OBVIOUS
<1> DEFINE t == Head(list)
           again == [tm EXCEPT ![t].start = NextStart(tm[t])]
           Again == /\ t \in Periodic
                    /\ tm' = again
                    /\ list' = Schedule(Tail(list), again, t)
                    /\ deadline' = [deadline EXCEPT ![t] = NextDeadline(t)]
           Over == /\ t \notin Periodic
                   /\ tm' = [tm EXCEPT ![t].active = FALSE]
                   /\ list' = Tail(list)
                   /\ deadline' = [deadline EXCEPT ![t] = Never]
           rest == Tail(list)
<1>0. /\ UNCHANGED <<clock, queue, tick, flag, stop, stops, asked>>
      /\ pc = "blocked" /\ pc' = "tcb" /\ wake' = 0 /\ lag' = 0 /\ wait' = wait /\ list # <<>> /\ IsExpired(tm[t])
      /\ Again \/ Over
  BY DEF FireTimer, TimedOut, FrontExpired, Awake
<1>1. /\ TypeOK /\ tm \in [Timers -> TimerRec] /\ Modulus \in Nat \ {0} /\ clock \in Nat
      /\ list \in Seq(Timers) /\ IsInjective(list) /\ MaxLate \in Nat
  BY ClockAssumption DEF IndInv, TypeOK, TimerRec, ListsMatchTimers
<1>2. /\ t \in Timers /\ t \in ToSet(list)
      /\ rest \in Seq(Timers) /\ IsInjective(rest) /\ ToSet(rest) = ToSet(list) \ {t}
      /\ \A d : Sorted(list, d) => Sorted(rest, d)
  BY <1>0, <1>1, TailLemma
<1>3. \A u \in Timers : /\ tm[u].active <=> u \in ToSet(list)
                        /\ tm[u].request # "None" <=> u \in ToSet(queue)
  BY DEF IndInv, ListsMatchTimers
<1>4. /\ tm[t].active /\ Fits(tm[t], deadline[t]) /\ deadline[t] \in Int
      /\ tm[t].interval \in Intervals \cup {0} /\ tm[t].start \in 0..(Modulus - 1)
      /\ deadline[t] <= clock
  BY <1>0, FrontLemma
<1> HIDE DEF t, rest
<1>5. Sorted(rest, deadline)
  BY <1>2 DEF IndInv, SortedOK
<1>6. /\ NextStart(tm[t]) \in 0..(Modulus - 1) /\ NextDeadline(t) \in Nat
      /\ clock <= NextDeadline(t) /\ NextDeadline(t) <= clock + tm[t].interval
      /\ tm[t].interval # 0 =>
             (NextStart(tm[t]) + tm[t].interval) % Modulus = NextDeadline(t) % Modulus
  BY <1>1, <1>2, <1>4, AgainLemma
<1>7. /\ tm' \in [Timers -> TimerRec]
      /\ \A u \in Timers : u # t => tm'[u] = tm[u] /\ deadline'[u] = deadline[u]
      /\ tm'[t].alloc = tm[t].alloc /\ tm'[t].request = tm[t].request
      /\ tm'[t].interval = tm[t].interval /\ tm'[t].next = tm[t].next
      /\ tm'[t].active <=> Again
      /\ deadline' \in [Timers -> Nat \cup {Never}]
      /\ deadline'[t] # Never <=> Again
      /\ Again => tm'[t].start = NextStart(tm[t]) /\ deadline'[t] = NextDeadline(t)
  <2>0. tm[t] \in TimerRec
    BY <1>1, <1>2
  <2>1. CASE Again
    <3> DEFINE x == [tm[t] EXCEPT !.start = NextStart(tm[t])]
    <3>1. /\ x \in TimerRec /\ x.active = tm[t].active /\ x.request = tm[t].request
          /\ x.interval = tm[t].interval /\ x.next = tm[t].next /\ x.alloc = tm[t].alloc
          /\ x.start = NextStart(tm[t])
      BY <1>6, <2>0 DEF TimerRec
    <3>2. tm' = [tm EXCEPT ![t] = x]
      BY <1>1, <1>2, <2>1
    <3> HIDE DEF x
    <3>3. tm' \in [Timers -> TimerRec] /\ tm'[t] = x /\ \A u \in Timers : u # t => tm'[u] = tm[u]
      BY <1>1, <1>2, <3>1, <3>2
    <3>4. /\ deadline' \in [Timers -> Nat \cup {Never}] /\ deadline'[t] = NextDeadline(t)
          /\ \A u \in Timers : u # t => deadline'[u] = deadline[u]
      BY <1>1, <1>2, <1>6, <2>1 DEF TypeOK
    <3>5. NextDeadline(t) # Never
      BY <1>6 DEF Never
    <3> QED BY <1>4, <2>1, <3>1, <3>3, <3>4, <3>5
  <2>2. CASE Over
    <3> DEFINE x == [tm[t] EXCEPT !.active = FALSE]
    <3>1. /\ x \in TimerRec /\ ~x.active /\ x.request = tm[t].request
          /\ x.interval = tm[t].interval /\ x.next = tm[t].next /\ x.alloc = tm[t].alloc
      BY <2>0 DEF TimerRec
    <3>2. tm' = [tm EXCEPT ![t] = x]
      BY <1>1, <1>2, <2>2
    <3> HIDE DEF x
    <3>3. tm' \in [Timers -> TimerRec] /\ tm'[t] = x /\ \A u \in Timers : u # t => tm'[u] = tm[u]
      BY <1>1, <1>2, <3>1, <3>2
    <3>4. /\ deadline' \in [Timers -> Nat \cup {Never}] /\ deadline'[t] = Never
          /\ \A u \in Timers : u # t => deadline'[u] = deadline[u]
      BY <1>1, <1>2, <2>2 DEF TypeOK
    <3>5. ~Again
      BY <2>2
    <3> QED BY <3>1, <3>3, <3>4, <3>5
  <2> QED BY <1>0, <2>1, <2>2
<1> HIDE DEF Again
<1>8. TimeOK'
  <2> SUFFICES ASSUME NEW u \in Timers, tm'[u].active PROVE Fits(tm[u], deadline[u])'
    BY DEF TimeOK
  <2>1. CASE u # t
    <3>1. tm'[u] = tm[u] /\ deadline'[u] = deadline[u] /\ clock' = clock
      BY <1>0, <1>7, <2>1
    <3> QED BY <3>1 DEF IndInv, TimeOK, Fits
  <2>2. CASE u = t
    <3>1. Again
      BY <1>7, <2>2
    <3>2. tm'[t].start = NextStart(tm[t]) /\ tm'[t].interval = tm[t].interval
          /\ deadline'[t] = NextDeadline(t) /\ clock' = clock
      BY <1>0, <1>7, <3>1
    <3>3. clock <= NextDeadline(t) + MaxLate
      BY <1>1, <1>6
    <3> QED BY <1>6, <2>2, <3>2, <3>3 DEF Fits
  <2> QED BY <2>1, <2>2
<1>9. Sorted(rest, deadline')
  <2>1. \A i \in 1..Len(rest) : rest[i] \in Timers /\ rest[i] # t
    BY <1>2 DEF ToSet
  <2> QED BY <1>5, <1>7, <2>1 DEF Sorted
<1>10. /\ list' \in Seq(Timers) /\ IsInjective(list')
       /\ \A u \in Timers : u \in ToSet(list') <=> tm'[u].active
       /\ Sorted(list', deadline')
  <2>1. CASE ~Again
    <3>1. list' = rest /\ ~tm'[t].active
      BY <1>0, <1>7, <2>1 DEF rest
    <3> QED BY <1>2, <1>3, <1>7, <1>9, <3>1
  <2>2. CASE Again
    <3>1. \A u \in ToSet(rest) \cup {t} : u \in Timers /\ tm'[u].active
      <4>1. \A u \in ToSet(rest) : u \in ToSet(list) /\ u # t /\ u \in Timers
        <5>1. \A u \in ToSet(list) : u \in Timers
          BY <1>1 DEF ToSet
        <5> QED BY <1>2, <5>1
      <4> QED BY <1>2, <1>3, <1>7, <2>2, <4>1
    <3>2. ASSUME NEW u \in ToSet(rest) \cup {t}
          PROVE  /\ tm'[u].interval \in Intervals \cup {0} /\ tm'[u].start \in 0..(Modulus - 1)
                 /\ deadline'[u] \in Int /\ Fits(tm'[u], deadline'[u])
      <4>1. tm'[u] \in TimerRec /\ u \in Timers
        BY <1>7, <3>1
      <4>2. tm'[u].start \in 0..(Modulus - 1)
        BY <4>1 DEF TimerRec
      <4>3. tm'[u].interval \in Intervals \cup {0}
        <5>1. tm'[u].interval = tm[u].interval
          BY <1>7, <4>1
        <5> QED BY <4>1, <5>1 DEF IndInv, IntervalsOK
      <4>4. deadline'[u] \in Int
        <5>1. deadline'[u] \in Nat \cup {Never}
          BY <1>7, <4>1
        <5> QED BY <5>1 DEF Never
      <4>5. Fits(tm[u], deadline[u])'
        BY <1>8, <3>1 DEF TimeOK
      <4>6. Fits(tm'[u], deadline'[u])
        BY <1>0, <4>5 DEF Fits
      <4> QED BY <4>2, <4>3, <4>4, <4>6
    <3>3. list' = Schedule(rest, tm', t)
      BY <2>2 DEF Again, rest
    <3>4. t \notin ToSet(rest)
      BY <1>2
    <3>5. /\ list' \in Seq(Timers) /\ IsInjective(list') /\ ToSet(list') = ToSet(rest) \cup {t}
          /\ Sorted(list', deadline')
      BY <1>1, <1>2, <1>9, <3>2, <3>3, <3>4, ScheduleLemma
    <3>6. \A u \in Timers : u \in ToSet(list') <=> tm'[u].active
      BY <1>2, <1>3, <1>7, <2>2, <3>5
    <3> QED BY <3>5, <3>6
  <2> QED BY <2>1, <2>2
<1>11. TypeOK'
  BY <1>0, <1>1, <1>7, <1>10 DEF TypeOK, TimerRec
<1>12. IntervalsOK'
  <2>1. ASSUME NEW u \in Timers
        PROVE  tm'[u].interval = tm[u].interval /\ tm'[u].next = tm[u].next
    BY <1>7
  <2> QED BY <1>0, <2>1 DEF IndInv, IntervalsOK
<1>13. ListsMatchTimers'
  <2>1. ASSUME NEW u \in Timers PROVE tm'[u].request = tm[u].request
    BY <1>7
  <2> QED BY <1>0, <1>3, <1>10, <2>1 DEF IndInv, ListsMatchTimers
<1>14. StateOK'
  <2> SUFFICES ASSUME NEW u \in Timers
               PROVE  /\ ~tm'[u].alloc => ~tm'[u].active /\ tm'[u].request = "None"
                      /\ tm'[u].active <=> deadline'[u] # Never
    BY DEF StateOK
  <2>1. CASE u # t
    BY <1>7, <2>1 DEF IndInv, StateOK
  <2>2. CASE u = t
    <3>1. tm[t].alloc
      BY <1>2, <1>4 DEF IndInv, StateOK
    <3> QED BY <1>7, <2>2, <3>1
  <2> QED BY <2>1, <2>2
<1>15. SortedOK'
  BY <1>0, <1>10 DEF SortedOK, Sorted
<1>16. WakeOK'
  BY <1>0 DEF WakeOK, Reading
<1>17. AskedOK'
  <2> SUFFICES ASSUME stops = 0
               PROVE  /\ queue # <<>> => flag
                      /\ \A u \in Timers : tm'[u].request = "Start"
                                           \/ (tm'[u].active /\ tm'[u].request = "None")
                                               => asked[u]
    BY <1>0 DEF AskedOK
  <2>1. queue # <<>> => flag
    BY <1>0 DEF IndInv, AskedOK
  <2>2. ASSUME NEW u \in Timers PROVE tm'[u].request = tm[u].request /\ (tm'[u].active => tm[u].active)
    BY <1>4, <1>7
  <2> QED BY <2>1, <2>2 DEF IndInv, AskedOK
<1> QED BY <1>8, <1>11, <1>12, <1>13, <1>14, <1>15, <1>16, <1>17 DEF IndInv

-----------------------------------------------------------------------------
(***************************************************************************)
(* A new loop satisfies the invariant.                                     *)
(***************************************************************************)
LEMMA InitInv == Init => IndInv
<1> SUFFICES ASSUME Init PROVE IndInv
  OBVIOUS
<1>1. /\ Modulus \in Nat \ {0} /\ StartClock \in Nat /\ 0 \in 0..(Modulus - 1)
  BY ClockAssumption
<1>2. NewTimer \in TimerRec /\ ~NewTimer.active /\ NewTimer.request = "None"
      /\ NewTimer.interval = 0 /\ NewTimer.next = 0 /\ NewTimer.alloc
  BY <1>1 DEF NewTimer, TimerRec
<1>3. tm \in [Timers -> TimerRec] /\ \A t \in Timers : tm[t] = NewTimer
  BY <1>2 DEF Init
<1>4. TypeOK
  <2>1. <<>> \in Seq(Timers) /\ deadline \in [Timers -> Nat \cup {Never}] /\ asked \in [Timers -> BOOLEAN]
    BY DEF Init
  <2>2. tick \in [interval: Nat, prev: 0..(Modulus - 1)]
    BY <1>1 DEF Init
  <2> QED BY <1>1, <1>3, <2>1, <2>2 DEF Init, TypeOK, TimerRec
<1>5. IntervalsOK
  BY <1>2, <1>3 DEF Init, IntervalsOK
<1>6. ListsMatchTimers
  <2>1. IsInjective(<<>>) /\ ToSet(<<>>) = {}
    BY DEF IsInjective, ToSet
  <2> QED BY <1>2, <1>3, <2>1 DEF Init, ListsMatchTimers
<1>7. StateOK
  BY <1>2, <1>3 DEF Init, StateOK
<1>8. TimeOK
  BY <1>2, <1>3 DEF TimeOK
<1>9. SortedOK
  BY DEF Init, SortedOK, Sorted
<1>10. WakeOK
  BY DEF Init, WakeOK, Reading
<1>11. AskedOK
  BY <1>2, <1>3 DEF Init, AskedOK
<1> QED BY <1>4, <1>5, <1>6, <1>7, <1>8, <1>9, <1>10, <1>11 DEF IndInv

(***************************************************************************)
(* Every step preserves the invariant.                                     *)
(***************************************************************************)
LEMMA StepInv == IndInv /\ [Next]_vars => IndInv'
<1> SUFFICES ASSUME IndInv, [Next]_vars PROVE IndInv'
  OBVIOUS
<1>1. CASE Advance
  BY <1>1, AdvanceStep
<1>2. CASE Client
  <2>1. ASSUME NEW t \in Timers,
               \/ \E i \in Intervals : TimerStart(t, i)
               \/ TimerRestart(t) \/ TimerStop(t) \/ TimerFree(t)
        PROVE  IndInv'
    BY <2>1, EnqueueStep
  <2>2. ASSUME NEW t \in Timers, TimerAlloc(t) PROVE IndInv'
    BY <2>2, AllocStep
  <2> QED BY <1>2, <2>1, <2>2, OtherStep DEF Client
<1>3. CASE LoopStep
  BY <1>3, SleepStep, ProcessStep, FireStep, OtherStep DEF LoopStep
<1>4. CASE OtherEvent \/ Return
  BY <1>4, OtherStep
<1>5. CASE UNCHANGED vars
  <2>1. UNCHANGED <<clock, tm, list, queue, tick, flag, stop, pc, wait, wake, lag, stops, deadline, asked>>
    BY <1>5 DEF vars, timerVars, loopVars, sleepVars
  <2>2. TypeOK' /\ IntervalsOK' /\ StateOK'
    BY <2>1 DEF IndInv, TypeOK, IntervalsOK, StateOK
  <2>3. ListsMatchTimers'
    BY <2>1 DEF IndInv, ListsMatchTimers
  <2>4. TimeOK' /\ SortedOK'
    BY <2>1 DEF IndInv, TimeOK, Fits, SortedOK, Sorted
  <2>5. WakeOK' /\ AskedOK'
    BY <2>1 DEF IndInv, WakeOK, Reading, TimersIn, TickIn, AskedOK, TickElapsed, Now
  <2> QED BY <2>2, <2>3, <2>4, <2>5 DEF IndInv
<1> QED BY <1>1, <1>2, <1>3, <1>4, <1>5 DEF Next

(***************************************************************************)
(* The inductive invariant holds in every state.                           *)
(***************************************************************************)
LEMMA Invariance == Spec => []IndInv
<1> QED BY InitInv, StepInv, PTL DEF Spec

-----------------------------------------------------------------------------
(***************************************************************************)
(* The variables keep their types: the start values fit TickType_t, no     *)
(* interval or wait time is negative.                                      *)
(***************************************************************************)
THEOREM TypeCorrect == Spec => []TypeOK
<1>1. IndInv => TypeOK
  BY DEF IndInv
<1> QED BY <1>1, Invariance, PTL

(***************************************************************************)
(* However requests overtake each other and whatever a callback does to    *)
(* its own timer, a timer is in timer_list exactly while it runs and in    *)
(* timer_queue exactly while it has a request, once.                       *)
(***************************************************************************)
THEOREM ListsStayMatched == Spec => []ListsMatchTimers
<1>1. IndInv => ListsMatchTimers
  BY DEF IndInv
<1> QED BY <1>1, Invariance, PTL

(***************************************************************************)
(* timer_list is sorted by the time of expiry, the expired timers first:   *)
(* the loop may look at its head alone.                                    *)
(***************************************************************************)
THEOREM ListStaysSorted == Spec => []Sorted(list, deadline)
<1>1. IndInv => Sorted(list, deadline)
  BY DEF IndInv, SortedOK
<1> QED BY <1>1, Invariance, PTL

(***************************************************************************)
(* The start values that wrap around mean absolute times: a running timer  *)
(* expires one interval after its start, and a periodic one stays in phase *)
(* with its first start, whatever the width of the clock.                  *)
(***************************************************************************)
THEOREM StaysInPhase == Spec => []PhaseKept
<1>1. IndInv => PhaseKept
  <2> SUFFICES ASSUME IndInv, NEW t \in Timers
               PROVE  /\ tm[t].active <=> deadline[t] # Never
                      /\ tm[t].active /\ tm[t].interval # 0 =>
                             (tm[t].start + tm[t].interval) % Modulus = deadline[t] % Modulus
    BY DEF PhaseKept
  <2> QED BY DEF IndInv, StateOK, TimeOK, Fits
<1> QED BY <1>1, Invariance, PTL

(***************************************************************************)
(* The loop sleeps past a deadline, of a timer or of the tick, by no more  *)
(* than the ticks that come between its readings of the clock and the      *)
(* beginning of its wait, however many come and whatever clients asked for *)
(* before: the head of timer_list stands for all timers.                   *)
(***************************************************************************)
THEOREM OversleepIsBounded == Spec => []OversleepBounded
<1>1. IndInv => OversleepBounded
  <2> SUFFICES ASSUME IndInv, pc = "blocked", clock < wake
               PROVE  /\ \A t \in Timers : deadline[t] # Never => clock < deadline[t] + lag
                      /\ tick.interval # 0 => TickElapsed < tick.interval + lag
    BY DEF OversleepBounded
  <2>1. /\ clock \in Nat /\ wake \in Nat /\ lag \in Nat /\ tick.interval \in Nat /\ TickElapsed \in Int
        /\ \A t \in Timers : deadline[t] \in Int
    BY ClockAssumption DEF IndInv, TypeOK, TickElapsed, Now, Never
  <2>2. TimersIn(wake - clock) /\ TickIn(wake - clock)
    BY DEF IndInv, WakeOK
  <2>3. ASSUME NEW t \in Timers, deadline[t] # Never PROVE clock < deadline[t] + lag
    <3>1. tm[t].active
      BY <2>3 DEF IndInv, StateOK
    <3> QED BY <2>1, <2>2, <3>1 DEF TimersIn
  <2>4. ASSUME tick.interval # 0 PROVE TickElapsed < tick.interval + lag
    BY <2>1, <2>2, <2>4 DEF TickIn
  <2> QED BY <2>3, <2>4
<1> QED BY <1>1, Invariance, PTL

(***************************************************************************)
(* A callback is never called before its time, although the code compares  *)
(* clock values that wrap around.                                          *)
(***************************************************************************)
THEOREM NotEarly == Spec => NeverEarly
<1>1. IndInv /\ [Next]_vars => [FireTimer => deadline[Head(list)] <= clock]_vars
  <2> SUFFICES ASSUME IndInv, FireTimer PROVE deadline[Head(list)] <= clock
    OBVIOUS
  <2> QED BY FrontLemma DEF FireTimer, FrontExpired
<1> QED BY <1>1, Invariance, PTL DEF Spec, NeverEarly

(***************************************************************************)
(* After a stop or a free has been requested the callback is not called    *)
(* until the next start, though the request only waits in the queue: the   *)
(* requests are processed first.                                           *)
(***************************************************************************)
THEOREM StopIsSilent == Spec => StoppedIsSilent
<1>1. IndInv /\ [Next]_vars => [stops = 0 /\ FireTimer => asked[Head(list)]]_vars
  <2> SUFFICES ASSUME IndInv, stops = 0, FireTimer PROVE asked[Head(list)]
    OBVIOUS
  <2> DEFINE t == Head(list)
  <2>1. t \in Timers /\ tm[t].active
    BY FrontLemma DEF FireTimer, FrontExpired
  <2>2. queue = <<>>
    BY DEF FireTimer, TimedOut, IndInv, AskedOK
  <2> HIDE DEF t
  <2>3. tm[t].request = "None"
    <3>1. ToSet(queue) = {}
      BY <2>2 DEF ToSet
    <3> QED BY <2>1, <3>1 DEF IndInv, ListsMatchTimers
  <2>4. asked[t]
    BY <2>1, <2>3 DEF IndInv, AskedOK
  <2> QED BY <2>4 DEF t
<1> QED BY <1>1, Invariance, PTL DEF Spec, StoppedIsSilent
=============================================================================
