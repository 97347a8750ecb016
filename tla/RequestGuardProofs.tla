------------------------- MODULE RequestGuardProofs -------------------------
(***************************************************************************)
(* The token buckets of the request guard implement the allowance exactly, *)
(* for every capacity, window, table size and number of clients.           *)
(***************************************************************************)
EXTENDS RequestGuard, CountingFacts, SequenceTheorems, TLAPS

\* What a request served as the i-th of some times still takes from the bucket at time t.
Debt(times, i, t) == (Len(times) - i + 1) * Window - (t - times[i]) * Capacity

\* These times leave room for v tokens at time t.
Room(times, v, t) == v <= Full /\ \A i \in 1..Len(times) : v + Debt(times, i, t) <= Full

(* A bucket holds what its history leaves room for; a key without a bucket *)
(* is in no debt, so that making its bucket full is right.                 *)
BucketsAreExact ==
    \A k \in Key :
        /\ k \in DOMAIN buckets =>
              /\ buckets[k].updated <= clock
              /\ \A v \in Nat : v <= buckets[k].tokens <=> Room(served[k], v, buckets[k].updated)
        /\ k \notin DOMAIN buckets => Room(served[k], Full, clock)

\* What was served to a key fits its allowance.
ServedFits == \A k \in Key : Limit!Fits(served[k])

GuardInv == /\ TypeOK
            /\ MemoryIsBounded
            /\ IsFiniteSet(DOMAIN buckets)
            /\ BucketsAreExact
            /\ ServedFits
-----------------------------------------------------------------------------
\* The constants and their product are natural numbers.
LEMMA GuardNumbers ==
    /\ Capacity \in Nat /\ Capacity >= 1 /\ Window \in Nat /\ Window >= 1
    /\ MaxClients \in Nat /\ MaxClients >= 1 /\ MaxBytes \in Nat /\ MaxTime \in Nat
    /\ Full \in Nat /\ Full >= Window /\ Full = Capacity * Window
    /\ Overflow \notin Client
<1>1. Capacity \in Nat \ {0} /\ Window \in Nat \ {0} /\ MaxClients \in Nat \ {0}
  BY GuardAssumption
<1>2. Capacity * Window \in Nat /\ Capacity * Window >= Window
  BY <1>1
<1>. QED  BY <1>1, <1>2, GuardAssumption DEF Full

\* A debt falls by Capacity in a second.
LEMMA DebtFalls ==
    ASSUME NEW times \in Seq(Nat), NEW i \in 1..Len(times), NEW t \in Nat, NEW d \in Nat
    PROVE  /\ Debt(times, i, t) \in Int
           /\ Debt(times, i, t + d) = Debt(times, i, t) - d * Capacity
<1>1. PICK n \in Nat : n = Len(times)
  BY LenProperties
<1>2. PICK x \in Nat : x = times[i]
  BY ElementOfSeq
<1>3. PICK j \in Int : j = i
  OBVIOUS
<1>4. PICK w \in Nat : w = Window
  BY GuardNumbers
<1>5. PICK c \in Nat : c = Capacity
  BY GuardNumbers
<1>6. /\ (n - j + 1) * w - (t - x) * c \in Int
      /\ (n - j + 1) * w - (t + d - x) * c = ((n - j + 1) * w - (t - x) * c) - d * c
  OBVIOUS
<1>7. /\ Debt(times, i, t) = (n - j + 1) * w - (t - x) * c
      /\ Debt(times, i, t + d) = (n - j + 1) * w - (t + d - x) * c
  BY <1>1, <1>2, <1>3, <1>4, <1>5 DEF Debt
<1>. QED  BY <1>5, <1>6, <1>7

\* So a room grows by Capacity in a second, up to a full bucket.
LEMMA RoomGrows ==
    ASSUME NEW times \in Seq(Nat), NEW t \in Nat, NEW d \in Nat, NEW v \in Nat, NEW w \in Nat
    PROVE  /\ Room(times, v, t) /\ w <= Full /\ w <= v + d * Capacity => Room(times, w, t + d)
           /\ Room(times, w, t + d) /\ v <= Full /\ w = v + d * Capacity => Room(times, v, t)
<1>1. PICK e \in Nat : e = d * Capacity
  BY GuardNumbers
<1>2. \A i \in 1..Len(times) : /\ Debt(times, i, t) \in Int
                               /\ Debt(times, i, t + d) = Debt(times, i, t) - e
  BY <1>1, DebtFalls
<1>3. ASSUME Room(times, v, t), w <= Full, w <= v + e PROVE Room(times, w, t + d)
  <2>1. SUFFICES ASSUME NEW i \in 1..Len(times) PROVE w + Debt(times, i, t + d) <= Full
    BY <1>3 DEF Room
  <2>2. PICK b \in Int : b = Debt(times, i, t)
    BY <1>2
  <2>3. v + b <= Full /\ Debt(times, i, t + d) = b - e
    BY <1>2, <1>3, <2>2 DEF Room
  <2>. QED  BY <1>3, <2>3, GuardNumbers
<1>4. ASSUME Room(times, w, t + d), v <= Full, w = v + e PROVE Room(times, v, t)
  <2>1. SUFFICES ASSUME NEW i \in 1..Len(times) PROVE v + Debt(times, i, t) <= Full
    BY <1>4 DEF Room
  <2>2. PICK b \in Int : b = Debt(times, i, t)
    BY <1>2
  <2>3. w + (b - e) <= Full
    BY <1>2, <1>4, <2>2 DEF Room
  <2>. QED  BY <1>4, <2>2, <2>3, GuardNumbers
<1>. QED  BY <1>1, <1>3, <1>4

\* A refilled bucket holds what the history leaves room for now.
LEMMA RefillIsExact ==
    ASSUME NEW times \in Seq(Nat), NEW t \in Nat, NEW d \in Nat, NEW tokens \in Nat,
           tokens <= Full, \A v \in Nat : v <= tokens <=> Room(times, v, t),
           NEW refilled \in Nat,
           refilled = Full \/ refilled = tokens + d * Capacity,
           refilled <= Full, refilled <= tokens + d * Capacity
    PROVE  \A v \in Nat : v <= refilled <=> Room(times, v, t + d)
<1>1. PICK e \in Nat : e = d * Capacity
  BY GuardNumbers
<1>2. SUFFICES ASSUME NEW v \in Nat PROVE v <= refilled <=> Room(times, v, t + d)
  OBVIOUS
<1>3. Room(times, tokens, t) /\ Room(times, 0, t)
  OBVIOUS
<1>4. ASSUME v <= refilled PROVE Room(times, v, t + d)
  <2>1. v <= Full /\ v <= tokens + e
    BY <1>1, <1>4, GuardNumbers
  <2>. QED  BY <1>1, <1>3, <2>1, RoomGrows
<1>5. ASSUME Room(times, v, t + d) PROVE v <= refilled
  <2>1. v <= Full
    BY <1>5 DEF Room
  <2>2. v <= tokens + e
    <3>1. CASE v <= e
      BY <3>1
    <3>2. CASE ~(v <= e)
      <4>1. PICK x \in Nat : v = x + e
        <5>1. v - e \in Nat /\ v = (v - e) + e
          BY <3>2
        <5>. QED  BY <5>1
      <4>2. x <= Full
        BY <2>1, <4>1, GuardNumbers
      <4>3. Room(times, x, t)
        BY <1>1, <1>5, <4>1, <4>2, RoomGrows
      <4>4. x <= tokens
        BY <4>3
      <4>. QED  BY <4>1, <4>4
    <3>. QED  BY <3>1, <3>2
  <2>. QED  BY <1>1, <2>1, <2>2
<1>. QED  BY <1>4, <1>5


\* A request served now takes Window from the room.
LEMMA RoomAfterServing ==
    ASSUME NEW times \in Seq(Nat), NEW t \in Nat, NEW v \in Nat, NEW w \in Nat,
           w = v + Window
    PROVE  Room(Append(times, t), v, t) <=> Room(times, w, t)
<1>1. PICK n \in Nat : n = Len(times)
  BY LenProperties
<1>2. Append(times, t) \in Seq(Nat) /\ Len(Append(times, t)) = n + 1
  BY <1>1, AppendProperties
<1>3. Append(times, t)[n + 1] = t /\ \A i \in 1..n : Append(times, t)[i] = times[i]
  BY <1>1, AppendProperties
<1>4. ASSUME NEW i \in 1..n
      PROVE  Debt(times, i, t) \in Int /\ Debt(Append(times, t), i, t) = Debt(times, i, t) + Window
  <2>1. Debt(times, i, t) \in Int
    <3>1. i \in 1..Len(times)
      BY <1>1
    <3>. QED  BY <3>1, DebtFalls
  <2>2. PICK x \in Nat : x = times[i]
    BY <1>1, ElementOfSeq
  <2>3. PICK a \in Nat : a = Window
    BY GuardNumbers
  <2>4. PICK b \in Int : b = (t - x) * Capacity
    BY GuardNumbers
  <2>5. (n + 1 - i + 1) * a - b = ((n - i + 1) * a - b) + a
    OBVIOUS
  <2>. QED  BY <1>1, <1>2, <1>3, <2>1, <2>2, <2>3, <2>4, <2>5 DEF Debt
<1>5. Debt(Append(times, t), n + 1, t) = Window
  <2>1. PICK a \in Nat : a = Window
    BY GuardNumbers
  <2>2. PICK c \in Nat : c = Capacity
    BY GuardNumbers
  <2>3. (n + 1 - (n + 1) + 1) * a - (t - t) * c = a
    OBVIOUS
  <2>. QED  BY <1>2, <1>3, <2>1, <2>2, <2>3 DEF Debt
<1>6. ASSUME Room(times, w, t) PROVE Room(Append(times, t), v, t)
  <2>1. SUFFICES ASSUME NEW i \in 1..n + 1 PROVE v + Debt(Append(times, t), i, t) <= Full
    BY <1>2, <1>6, GuardNumbers DEF Room
  <2>2. CASE i = n + 1
    BY <1>5, <1>6, <2>2 DEF Room
  <2>3. CASE i # n + 1
    <3>1. i \in 1..n
      BY <2>3
    <3>2. w + Debt(times, i, t) <= Full
      BY <1>1, <1>6, <3>1 DEF Room
    <3>3. PICK b \in Int : b = Debt(times, i, t)
      BY <1>4, <3>1
    <3>4. Debt(Append(times, t), i, t) = b + Window
      BY <1>4, <3>1, <3>3
    <3>. QED  BY <3>2, <3>3, <3>4, GuardNumbers
  <2>. QED  BY <2>2, <2>3
<1>7. ASSUME Room(Append(times, t), v, t) PROVE Room(times, w, t)
  <2>1. \A i \in 1..n + 1 : v + Debt(Append(times, t), i, t) <= Full
    BY <1>2, <1>7 DEF Room
  <2>2. w <= Full
    BY <1>5, <2>1
  <2>3. ASSUME NEW i \in 1..n PROVE w + Debt(times, i, t) <= Full
    <3>1. PICK b \in Int : b = Debt(times, i, t)
      BY <1>4
    <3>2. Debt(Append(times, t), i, t) = b + Window
      BY <1>4, <3>1
    <3>3. v + (b + Window) <= Full
      <4>1. i \in 1..n + 1
        OBVIOUS
      <4>. QED  BY <2>1, <3>2, <4>1
    <3>. QED  BY <3>1, <3>3, GuardNumbers
  <2>. QED  BY <1>1, <2>2, <2>3 DEF Room
<1>. QED  BY <1>6, <1>7

\* The allowance permits n more requests exactly if there is room for n tokens.
LEMMA FitsIsRoom ==
    ASSUME NEW times \in Seq(Nat), NEW all \in Seq(Nat), NEW n \in Nat, n >= 1, NEW t \in Nat,
           Len(all) = Len(times) + n,
           \A i \in 1..Len(times) : all[i] = times[i],
           \A i \in 1..Len(all) : i > Len(times) => all[i] = t,
           Limit!Fits(times)
    PROVE  Limit!Fits(all) <=> Room(times, n * Window, t)
<1>1. PICK m \in Nat : m = Len(times)
  BY LenProperties
<1>2. PICK a \in Nat : a = Window
  BY GuardNumbers
<1>3. PICK c \in Nat : c = Capacity
  BY GuardNumbers
<1>4. /\ Len(all) = m + n
      /\ \A i \in 1..m : all[i] = times[i] /\ times[i] \in Nat
      /\ \A i \in 1..m + n : i > m => all[i] = t
  BY <1>1, ElementOfSeq
<1>5. \A i, j \in 1..m : i <= j =>
         (j - i + 1) * a <= c * a + (times[j] - times[i]) * c
  BY <1>1, <1>2, <1>3 DEF Limit!Fits
<1>6. Limit!Fits(all) <=> \A i, j \in 1..m + n : i <= j =>
         (j - i + 1) * a <= c * a + (all[j] - all[i]) * c
  BY <1>2, <1>3, <1>4 DEF Limit!Fits
<1>7. Full = c * a
  BY <1>2, <1>3, GuardNumbers
<1>8. Room(times, n * Window, t) <=>
         /\ n * a <= c * a
         /\ \A i \in 1..m : n * a + ((m - i + 1) * a - (t - times[i]) * c) <= c * a
  BY <1>1, <1>2, <1>3, <1>7 DEF Room, Debt
<1>9. ASSUME \A i, j \in 1..m + n : i <= j => (j - i + 1) * a <= c * a + (all[j] - all[i]) * c
      PROVE  Room(times, n * Window, t)
  <2>. DEFINE D == 1..m + n
              Permitted(i, j) == i <= j => (j - i + 1) * a <= c * a + (all[j] - all[i]) * c
  <2>0. \A i, j \in D : Permitted(i, j)
    BY <1>9
  <2>1. n * a <= c * a
    <3>1. /\ m + 1 \in 1..m + n /\ m + n \in 1..m + n /\ m + 1 <= m + n
          /\ all[m + 1] = t /\ all[m + n] = t
      BY <1>4
    <3>2. (m + n - (m + 1) + 1) * a <= c * a + (all[m + n] - all[m + 1]) * c
      <4>1. m + 1 \in D /\ m + n \in D
        BY <3>1
      <4>2. Permitted(m + 1, m + n)
        <5>. HIDE DEF D, Permitted
        <5>. QED  BY <2>0, <4>1
      <4>. QED  BY <3>1, <4>2
    <3>3. (m + n - (m + 1) + 1) * a <= c * a + (t - t) * c
      BY <3>1, <3>2, Zenon
    <3>. QED  BY <3>3
  <2>2. ASSUME NEW i \in 1..m PROVE n * a + ((m - i + 1) * a - (t - times[i]) * c) <= c * a
    <3>1. /\ i \in 1..m + n /\ m + n \in 1..m + n /\ i <= m + n
          /\ all[i] = times[i] /\ all[m + n] = t
      BY <1>4
    <3>2. PICK x \in Nat : x = times[i]
      BY <1>4
    <3>3. (m + n - i + 1) * a <= c * a + (t - x) * c
      <4>1. (m + n - i + 1) * a <= c * a + (all[m + n] - all[i]) * c
        <5>1. i \in D /\ m + n \in D
          BY <3>1
        <5>2. Permitted(i, m + n)
          <6>. HIDE DEF D, Permitted
          <6>. QED  BY <2>0, <5>1
        <5>. QED  BY <3>1, <5>2
      <4>. QED  BY <3>1, <3>2, <4>1, Zenon
    <3>4. n * a + ((m - i + 1) * a - (t - x) * c) <= c * a
      BY <3>3
    <3>. QED  BY <3>2, <3>4
  <2>. QED  BY <1>8, <2>1, <2>2
<1>10. ASSUME Room(times, n * Window, t), NEW i \in 1..m + n, NEW j \in 1..m + n, i <= j
       PROVE  (j - i + 1) * a <= c * a + (all[j] - all[i]) * c
  <2>1. CASE j <= m
    <3>1. i \in 1..m /\ j \in 1..m
      BY <1>10, <2>1
    <3>. QED  BY <1>4, <1>5, <1>10, <3>1
  <2>2. CASE i <= m /\ j > m
    <3>1. i \in 1..m /\ all[j] = t /\ all[i] = times[i]
      BY <1>4, <2>2
    <3>2. PICK x \in Nat : x = times[i]
      BY <1>4, <3>1
    <3>3. n * a + ((m - i + 1) * a - (t - x) * c) <= c * a
      BY <1>8, <1>10, <3>1, <3>2
    <3>4. (j - m) * a <= n * a
      <4>1. j - m \in Nat /\ j - m <= n
        BY <2>2
      <4>. QED  BY <4>1
    <3>5. (j - i + 1) * a = (j - m) * a + (m - i + 1) * a
      OBVIOUS
    <3>6. (j - i + 1) * a <= c * a + (t - x) * c
      <4>1. PICK served_after, served_since, all_now, gained, full \in Int :
               /\ served_after = (m - i + 1) * a /\ served_since = (j - m) * a
               /\ all_now = n * a /\ gained = (t - x) * c /\ full = c * a
        OBVIOUS
      <4>2. all_now + (served_after - gained) <= full
        BY <3>3, <4>1
      <4>3. served_since <= all_now /\ (j - i + 1) * a = served_since + served_after
        BY <3>4, <3>5, <4>1
      <4>4. served_since + served_after <= full + gained
        BY <4>2, <4>3
      <4>. QED  BY <4>1, <4>3, <4>4
    <3>. QED  BY <3>1, <3>2, <3>6
  <2>3. CASE i > m
    <3>1. all[j] = t /\ all[i] = t
      BY <1>4, <1>10, <2>3
    <3>2. n * a <= c * a
      BY <1>8, <1>10
    <3>3. (j - i + 1) * a <= n * a
      <4>1. j - i + 1 \in Nat /\ j - i + 1 <= n
        BY <1>10, <2>3
      <4>. QED  BY <4>1
    <3>4. (j - i + 1) * a <= c * a + (t - t) * c
      BY <3>2, <3>3
    <3>. QED  BY <3>1, <3>4
  <2>. QED  BY <1>10, <2>1, <2>2, <2>3
<1>. QED  BY <1>6, <1>9, <1>10


\* The history of a key with n more requests served at time t.
LEMMA ServingIs ==
    ASSUME NEW k \in Key, served[k] \in Seq(Nat), NEW n \in Nat, NEW t \in Nat
    PROVE  LET all == Limit!Serving(k, n, t)
           IN  /\ all \in Seq(Nat) /\ Len(all) = Len(served[k]) + n
               /\ \A i \in 1..Len(served[k]) : all[i] = served[k][i]
               /\ \A i \in 1..Len(all) : i > Len(served[k]) => all[i] = t
<1>1. PICK more : more = [i \in 1..n |-> t]
  OBVIOUS
<1>2. more \in Seq(Nat) /\ Len(more) = n /\ \A i \in 1..n : more[i] = t
  BY <1>1
<1>3. PICK times \in Seq(Nat) : times = served[k]
  OBVIOUS
<1>4. PICK m \in Nat : m = Len(times)
  BY LenProperties
<1>5. /\ times \o more \in Seq(Nat) /\ Len(times \o more) = m + n
      /\ \A i \in 1..m + n : (times \o more)[i] = IF i <= m THEN times[i] ELSE more[i - m]
  BY <1>2, <1>4, ConcatProperties
<1>6. \A i \in 1..m : (times \o more)[i] = times[i]
  BY <1>5
<1>7. ASSUME NEW i \in 1..m + n, i > m PROVE (times \o more)[i] = t
  <2>1. i - m \in 1..n
    BY <1>7
  <2>. QED  BY <1>2, <1>5, <1>7, <2>1
<1>8. Limit!Serving(k, n, t) = times \o more
  BY <1>1, <1>3 DEF Limit!Serving
<1>. QED  BY <1>3, <1>4, <1>5, <1>6, <1>7, <1>8

\* The lesser of two numbers.
LEMMA LesserIs ==
    ASSUME NEW a \in Nat, NEW b \in Nat
    PROVE  /\ Min({a, b}) \in Nat /\ Min({a, b}) <= a /\ Min({a, b}) <= b
           /\ Min({a, b}) = a \/ Min({a, b}) = b
<1>1. \E x \in {a, b} : \A y \in {a, b} : x =< y
  OBVIOUS
<1>2. Min({a, b}) \in {a, b} /\ \A y \in {a, b} : Min({a, b}) =< y
  BY <1>1, Zenon DEF Min
<1>. QED  BY <1>2

\* The types, as the lemmas need them.
LEMMA GuardTypes ==
    ASSUME TypeOK
    PROVE  /\ clock \in Nat /\ DOMAIN buckets \subseteq Key
           /\ \A k \in DOMAIN buckets :
                 buckets[k].tokens \in Nat /\ buckets[k].tokens <= Full /\ buckets[k].updated \in Nat
           /\ \A k \in Key : served[k] \in Seq(Nat)
<1>1. clock \in Nat
  BY GuardNumbers DEF TypeOK
<1>2. ASSUME NEW k \in DOMAIN buckets
      PROVE  buckets[k].tokens \in Nat /\ buckets[k].tokens <= Full /\ buckets[k].updated \in Nat
  <2>1. buckets[k].tokens \in 0..Full /\ buckets[k].updated \in 0..MaxTime
    BY DEF TypeOK, Bucket
  <2>. QED  BY <2>1, GuardNumbers
<1>3. ASSUME NEW k \in Key PROVE served[k] \in Seq(Nat)
  <2>1. served[k] \in Seq(0..MaxTime)
    BY DEF TypeOK
  <2>2. \A x \in 0..MaxTime : x \in Nat
    BY GuardNumbers
  <2>3. PICK times, n : times = served[k] /\ n = Len(served[k])
    OBVIOUS
  <2>4. n \in Nat /\ times \in [1..n -> 0..MaxTime]
    BY <2>1, <2>3, LenProperties
  <2>5. times = [i \in 1..n |-> times[i]] /\ \A i \in 1..n : times[i] \in Nat
    BY <2>2, <2>4
  <2>6. [i \in 1..n |-> times[i]] \in Seq(Nat)
    BY <2>4, <2>5
  <2>. QED  BY <2>3, <2>5, <2>6
<1>. QED  BY <1>1, <1>2, <1>3 DEF TypeOK

\* A bucket that is not there, or was pruned, would be full by now.
LEMMA PrunedIsFull ==
    ASSUME TypeOK, BucketsAreExact, NEW k \in Key, k \notin DOMAIN Pruned
    PROVE  Room(served[k], Full, clock)
<1>1. CASE k \notin DOMAIN buckets
  BY <1>1 DEF BucketsAreExact
<1>2. CASE k \in DOMAIN buckets
  <2>1. PICK u \in Nat : u = buckets[k].updated
    BY <1>2, GuardTypes
  <2>2. PICK times \in Seq(Nat) : times = served[k]
    BY GuardTypes
  <2>3. u <= clock /\ clock \in Nat /\ ~(clock - u <= 2 * Window)
    BY <1>2, <2>1, GuardTypes DEF BucketsAreExact, Pruned, Restrict
  <2>4. PICK d \in Nat : clock = u + d
    <3>1. clock - u \in Nat /\ clock = u + (clock - u)
      BY <2>3
    <3>. QED  BY <3>1
  <2>5. d > 2 * Window
    BY <2>3, <2>4, GuardNumbers
  <2>6. Full <= 0 + d * Capacity
    <3>1. PICK w \in Nat : w = Window
      BY GuardNumbers
    <3>2. PICK c \in Nat : c = Capacity
      BY GuardNumbers
    <3>3. w <= d
      BY <2>5, <3>1
    <3>4. c * w <= 0 + d * c
      BY <3>3
    <3>. QED  BY <3>1, <3>2, <3>4, GuardNumbers
  <2>7. Room(times, 0, u)
    BY <1>2, <2>1, <2>2, GuardTypes DEF BucketsAreExact
  <2>8. Room(times, Full, u + d)
    <3>1. PICK f \in Nat : f = Full /\ f <= Full
      BY GuardNumbers
    <3>2. Room(times, f, u + d)
      BY <2>6, <2>7, <3>1, RoomGrows
    <3>. QED  BY <3>1, <3>2
  <2>. QED  BY <2>2, <2>4, <2>8
<1>. QED  BY <1>1, <1>2


\* What a request finds: the table after pruning, its key, and the tokens it has.
LEMMA ConsumeFinds ==
    ASSUME GuardInv, NEW client \in Client,
           NEW table, table = IF client \in DOMAIN buckets THEN buckets ELSE Pruned,
           NEW key, key = BucketKey(client, table),
           NEW tokens, tokens = Refilled(key, table)
    PROVE  /\ key \in Key /\ DOMAIN table \subseteq DOMAIN buckets
           /\ \A k \in DOMAIN table : table[k] = buckets[k]
           /\ \A k \in Key : k \notin DOMAIN table => Room(served[k], Full, clock)
           /\ IsFiniteSet(DOMAIN table \cup {key})
           /\ Cardinality((DOMAIN table \cup {key}) \ {Overflow}) <= MaxClients
           /\ tokens \in Nat /\ tokens <= Full
           /\ \A v \in Nat : v <= tokens <=> Room(served[key], v, clock)
<1>. USE DEF GuardInv
<1>1. key \in Key /\ client # Overflow
  BY GuardNumbers DEF BucketKey, Key
<1>2. DOMAIN table \subseteq DOMAIN buckets /\ \A k \in DOMAIN table : table[k] = buckets[k]
  BY DEF Pruned, Restrict
<1>3. \A k \in Key : k \notin DOMAIN table => Room(served[k], Full, clock)
  BY PrunedIsFull DEF BucketsAreExact
<1>4. IsFiniteSet(DOMAIN table) /\ Cardinality(DOMAIN table) \in Nat
  BY <1>2, FS_Subset, FS_CardinalityType
<1>5. IsFiniteSet(DOMAIN table \cup {key})
  BY <1>4, FS_AddElement
<1>6. Cardinality((DOMAIN table \cup {key}) \ {Overflow}) <= MaxClients
  <2>1. CASE key = Overflow \/ key \in DOMAIN table
    <3>1. (DOMAIN table \cup {key}) \ {Overflow} \in SUBSET (DOMAIN buckets \ {Overflow})
      BY <1>2, <2>1
    <3>2. IsFiniteSet(DOMAIN buckets \ {Overflow}) /\ Cardinality(DOMAIN buckets \ {Overflow}) <= MaxClients
      BY FS_RemoveElement DEF MemoryIsBounded
    <3>3. /\ IsFiniteSet((DOMAIN table \cup {key}) \ {Overflow})
          /\ Cardinality((DOMAIN table \cup {key}) \ {Overflow}) <= Cardinality(DOMAIN buckets \ {Overflow})
      BY <3>1, <3>2, FS_Subset
    <3>. QED  BY <3>2, <3>3, FS_CardinalityType, GuardNumbers
  <2>2. CASE key # Overflow /\ key \notin DOMAIN table
    <3>1. ~(Cardinality(DOMAIN table) >= MaxClients)
      BY <2>2 DEF BucketKey
    <3>2. Cardinality(DOMAIN table \cup {key}) = Cardinality(DOMAIN table) + 1
      BY <1>4, <2>2, FS_AddElement
    <3>3. (DOMAIN table \cup {key}) \ {Overflow} \in SUBSET (DOMAIN table \cup {key})
      OBVIOUS
    <3>4. /\ IsFiniteSet((DOMAIN table \cup {key}) \ {Overflow})
          /\ Cardinality((DOMAIN table \cup {key}) \ {Overflow}) <= Cardinality(DOMAIN table \cup {key})
      BY <1>5, <3>3, FS_Subset
    <3>. QED  BY <1>4, <3>1, <3>2, <3>4, FS_CardinalityType, GuardNumbers
  <2>. QED  BY <2>1, <2>2
<1>7. PICK times \in Seq(Nat) : times = served[key]
  BY <1>1, GuardTypes
<1>8. CASE key \notin DOMAIN table
  <2>1. tokens = Full
    BY <1>8 DEF Refilled
  <2>2. Room(times, Full, clock) /\ clock \in Nat
    BY <1>1, <1>3, <1>7, <1>8, GuardTypes
  <2>3. PICK f \in Nat : f = Full
    BY GuardNumbers
  <2>4. ASSUME NEW v \in Nat PROVE v <= f <=> Room(times, v, clock)
    <3>1. ASSUME v <= f PROVE Room(times, v, clock + 0)
      <4>1. Room(times, f, clock) /\ v <= Full /\ v <= f + 0 * Capacity
        BY <2>2, <2>3, <3>1, GuardNumbers
      <4>. QED  BY <2>2, <4>1, RoomGrows
    <3>2. clock + 0 = clock
      BY <2>2
    <3>. QED  BY <2>3, <3>1, <3>2 DEF Room
  <2>. QED  BY <1>1, <1>2, <1>3, <1>5, <1>6, <1>7, <2>1, <2>3, <2>4, GuardNumbers
<1>9. CASE key \in DOMAIN table
  <2>1. PICK u \in Nat : u = buckets[key].updated
    BY <1>2, <1>9, GuardTypes
  <2>2. PICK left \in Nat : left = buckets[key].tokens
    BY <1>2, <1>9, GuardTypes
  <2>3. u <= clock /\ clock \in Nat /\ left <= Full
    BY <1>1, <1>2, <1>9, <2>1, <2>2, GuardTypes DEF BucketsAreExact
  <2>4. PICK d \in Nat : clock = u + d
    <3>1. clock - u \in Nat /\ clock = u + (clock - u)
      BY <2>3
    <3>. QED  BY <3>1
  <2>5. PICK gained \in Nat : gained = d * Capacity
    BY GuardNumbers
  <2>6. tokens = Min({Full, left + gained})
    <3>1. tokens = Min({Full, table[key].tokens + (clock - table[key].updated) * Capacity})
      BY <1>9 DEF Refilled
    <3>2. clock - u = d
      BY <2>4
    <3>3. table[key].tokens = left /\ table[key].updated = u
      BY <1>2, <1>9, <2>1, <2>2
    <3>. QED  BY <2>5, <3>1, <3>2, <3>3
  <2>7. /\ tokens \in Nat /\ tokens <= Full /\ tokens <= left + gained
        /\ tokens = Full \/ tokens = left + gained
    <3>1. PICK f, g \in Nat : f = Full /\ g = left + gained
      BY GuardNumbers
    <3>2. Min({f, g}) \in Nat /\ Min({f, g}) <= f /\ Min({f, g}) <= g /\ (Min({f, g}) = f \/ Min({f, g}) = g)
      BY LesserIs
    <3>. QED  BY <2>6, <3>1, <3>2
  <2>8. \A v \in Nat : v <= left <=> Room(times, v, u)
    BY <1>1, <1>2, <1>7, <1>9, <2>1, <2>2 DEF BucketsAreExact
  <2>9. \A v \in Nat : v <= tokens <=> Room(times, v, u + d)
    <3>1. PICK given \in Nat : given = tokens
      BY <2>7
    <3>2. /\ given = Full \/ given = left + d * Capacity
          /\ given <= Full /\ given <= left + d * Capacity
      BY <2>5, <2>7, <3>1
    <3>3. \A v \in Nat : v <= given <=> Room(times, v, u + d)
      BY <2>3, <2>8, <3>2, RefillIsExact
    <3>. QED  BY <3>1, <3>3
  <2>. QED  BY <1>1, <1>2, <1>3, <1>5, <1>6, <1>7, <2>4, <2>7, <2>9
<1>. QED  BY <1>8, <1>9


\* The allowance permits n more requests of a key at time t exactly if its history has room.
LEMMA ServingFits ==
    ASSUME TypeOK, ServedFits, NEW k \in Key, NEW n \in Nat, n >= 1, NEW t \in Nat
    PROVE  Limit!Fits(Limit!Serving(k, n, t)) <=> Room(served[k], n * Window, t)
<1>1. PICK times \in Seq(Nat) : times = served[k]
  BY GuardTypes
<1>2. PICK all : all = Limit!Serving(k, n, t)
  OBVIOUS
<1>3. /\ all \in Seq(Nat) /\ Len(all) = Len(times) + n
      /\ \A i \in 1..Len(times) : all[i] = times[i]
      /\ \A i \in 1..Len(all) : i > Len(times) => all[i] = t
  BY <1>1, <1>2, ServingIs
<1>4. Limit!Fits(times)
  BY <1>1 DEF ServedFits
<1>5. Limit!Fits(all) <=> Room(times, n * Window, t)
  BY <1>3, <1>4, FitsIsRoom
<1>. QED  BY <1>1, <1>2, <1>5

\* The greatest and the least of a set of numbers.
LEMMA GreatestIs ==
    ASSUME NEW S, NEW m \in S, \A x \in S : x \in Nat /\ x <= m
    PROVE  Max(S) = m
<1>1. \E x \in S : \A y \in S : x >= y
  OBVIOUS
<1>2. Max(S) \in S /\ \A y \in S : Max(S) >= y
  BY <1>1, Zenon DEF Max
<1>. QED  BY <1>2

\* The least.
LEMMA LeastIs ==
    ASSUME NEW S, NEW m \in S, \A x \in S : x \in Nat /\ m <= x
    PROVE  Min(S) = m
<1>1. \E x \in S : \A y \in S : x =< y
  OBVIOUS
<1>2. Min(S) \in S /\ \A y \in S : Min(S) =< y
  BY <1>1, Zenon DEF Min
<1>. QED  BY <1>2

\* The answer to a request that is served: X-RateLimit-Remaining is exact.
LEMMA AdmissionIsExact ==
    ASSUME TypeOK, ServedFits, NEW key \in Key, NEW tokens \in Nat, tokens <= Full,
           \A v \in Nat : v <= tokens <=> Room(served[key], v, clock),
           tokens >= Window
    PROVE  /\ Limit!Fits(Limit!Serving(key, 1, clock))
           /\ Append(served[key], clock) = Limit!Serving(key, 1, clock)
           /\ (tokens - Window) \div Window \in 0..Capacity
           /\ Max({n \in 0..Capacity : Limit!Fits(Limit!Serving(key, n + 1, clock))})
                = (tokens - Window) \div Window
<1>1. clock \in Nat
  BY GuardTypes
<1>2. PICK w \in Nat : w = Window /\ w >= 1
  BY GuardNumbers
<1>3. PICK c \in Nat : c = Capacity /\ c >= 1
  BY GuardNumbers
<1>4. tokens <= c * w /\ tokens >= w
  BY <1>2, <1>3, GuardNumbers
<1>5. ASSUME NEW n \in Nat
      PROVE  Limit!Fits(Limit!Serving(key, n + 1, clock)) <=> (n + 1) * w <= tokens
  <2>1. PICK m \in Nat : m = n + 1 /\ m >= 1
    OBVIOUS
  <2>2. m * w \in Nat
    OBVIOUS
  <2>3. Limit!Fits(Limit!Serving(key, m, clock)) <=> Room(served[key], m * w, clock)
    BY <1>1, <1>2, <2>1, ServingFits
  <2>4. m * w <= tokens <=> Room(served[key], m * w, clock)
    BY <2>2
  <2>. QED  BY <2>1, <2>3, <2>4
<1>6. PICK q \in Nat : q = (tokens - w) \div w /\ w * q <= tokens - w /\ tokens - w < w * q + w
  <2>1. tokens - w \in Nat
    BY <1>4
  <2>2. \A a \in Nat : /\ a \div w \in Nat /\ w * (a \div w) <= a
                       /\ a < w * (a \div w) + w
    BY <1>2
  <2>. QED  BY <2>1, <2>2
<1>7. (q + 1) * w <= tokens
  <2>1. (q + 1) * w = w * q + w
    OBVIOUS
  <2>2. PICK p \in Nat : p = w * q
    OBVIOUS
  <2>. QED  BY <1>4, <1>6, <2>1, <2>2
<1>8. ASSUME NEW n \in Nat, (n + 1) * w <= tokens PROVE n <= q
  <2>1. ASSUME n > q PROVE FALSE
    <3>1. (n + 1) * w >= (q + 2) * w
      BY <2>1
    <3>2. (q + 2) * w = w * q + w + w
      OBVIOUS
    <3>3. PICK p \in Nat : p = w * q
      OBVIOUS
    <3>. QED  BY <1>4, <1>6, <1>8, <3>1, <3>2, <3>3
  <2>. QED  BY <2>1
<1>9. q <= c
  <2>1. ASSUME q > c PROVE FALSE
    <3>1. (q + 1) * w > c * w
      BY <1>2, <2>1
    <3>. QED  BY <1>4, <1>7, <3>1
  <2>. QED  BY <2>1
<1>10. Max({n \in 0..Capacity : Limit!Fits(Limit!Serving(key, n + 1, clock))}) = q
  <2>. DEFINE S == {n \in 0..Capacity : Limit!Fits(Limit!Serving(key, n + 1, clock))}
  <2>1. q \in S
    BY <1>3, <1>5, <1>7, <1>9
  <2>2. \A x \in S : x \in Nat /\ x <= q
    BY <1>3, <1>5, <1>8
  <2>. HIDE DEF S
  <2>3. Max(S) = q
    BY <2>1, <2>2, GreatestIs
  <2>. QED  BY <2>3 DEF S
<1>11. Limit!Fits(Limit!Serving(key, 1, clock))
  <2>1. Room(served[key], 1 * Window, clock)
    BY <1>2, <1>4
  <2>. QED  BY <1>1, <2>1, ServingFits
<1>12. Append(served[key], clock) = Limit!Serving(key, 1, clock)
  <2>1. PICK times \in Seq(Nat) : times = served[key]
    BY GuardTypes
  <2>2. PICK n \in Nat : n = Len(times)
    BY LenProperties
  <2>3. PICK all : all = Limit!Serving(key, 1, clock)
    OBVIOUS
  <2>4. /\ all \in Seq(Nat) /\ Len(all) = n + 1
        /\ \A i \in 1..n : all[i] = times[i]
        /\ \A i \in 1..n + 1 : i > n => all[i] = clock
    <3>1. /\ Limit!Serving(key, 1, clock) \in Seq(Nat)
          /\ Len(Limit!Serving(key, 1, clock)) = Len(served[key]) + 1
          /\ \A i \in 1..Len(served[key]) : Limit!Serving(key, 1, clock)[i] = served[key][i]
          /\ \A i \in 1..Len(Limit!Serving(key, 1, clock)) :
                i > Len(served[key]) => Limit!Serving(key, 1, clock)[i] = clock
      BY <1>1, <2>1, ServingIs
    <3>. QED  BY <2>1, <2>2, <2>3, <3>1
  <2>5. PICK longer : longer = Append(times, clock)
    OBVIOUS
  <2>6. /\ longer \in Seq(Nat) /\ Len(longer) = n + 1
        /\ \A i \in 1..n : longer[i] = times[i]
        /\ longer[n + 1] = clock
    BY <1>1, <2>1, <2>2, <2>5, AppendProperties
  <2>7. \A i \in 1..n + 1 : longer[i] = all[i]
    <3>1. SUFFICES ASSUME NEW i \in 1..n + 1 PROVE longer[i] = all[i]
      OBVIOUS
    <3>2. CASE i = n + 1
      BY <2>4, <2>6, <3>2
    <3>3. CASE i # n + 1
      <4>1. i \in 1..n
        BY <3>3
      <4>. QED  BY <2>4, <2>6, <4>1
    <3>. QED  BY <3>2, <3>3
  <2>8. longer = all
    BY <2>4, <2>6, <2>7, SeqEqual
  <2>. QED  BY <2>1, <2>3, <2>5, <2>8
<1>. QED  BY <1>2, <1>3, <1>6, <1>9, <1>10, <1>11, <1>12

\* The answer to a request that is refused: Retry-After is exact.
LEMMA RejectionIsExact ==
    ASSUME TypeOK, ServedFits, NEW key \in Key, NEW tokens \in Nat, tokens <= Full,
           \A v \in Nat : v <= tokens <=> Room(served[key], v, clock),
           tokens < Window
    PROVE  /\ ~Limit!Fits(Limit!Serving(key, 1, clock))
           /\ Max({1, CeilDiv(Window - tokens, Capacity)}) \in 1..Window
           /\ Min({s \in 1..Window : Limit!Fits(Limit!Serving(key, 1, clock + s))})
                = Max({1, CeilDiv(Window - tokens, Capacity)})
<1>1. clock \in Nat
  BY GuardTypes
<1>2. PICK w \in Nat : w = Window /\ w >= 1 /\ w <= Full
  BY GuardNumbers
<1>3. PICK c \in Nat : c = Capacity /\ c >= 1
  BY GuardNumbers
<1>4. ~Limit!Fits(Limit!Serving(key, 1, clock))
  <2>1. ~Room(served[key], 1 * Window, clock)
    BY <1>2
  <2>. QED  BY <1>1, <2>1, ServingFits
<1>5. PICK times \in Seq(Nat) : times = served[key]
  BY GuardTypes
<1>6. ASSUME NEW s \in Nat
      PROVE  Limit!Fits(Limit!Serving(key, 1, clock + s)) <=> w <= tokens + s * c
  <2>1. clock + s \in Nat /\ 1 * Window = w
    BY <1>1, <1>2
  <2>2. Limit!Fits(Limit!Serving(key, 1, clock + s)) <=> Room(times, w, clock + s)
    BY <1>5, <2>1, ServingFits
  <2>3. Room(times, tokens, clock)
    BY <1>5
  <2>4. ASSUME w <= tokens + s * c PROVE Room(times, w, clock + s)
    BY <1>1, <1>2, <1>3, <2>3, <2>4, RoomGrows
  <2>5. ASSUME Room(times, w, clock + s) PROVE w <= tokens + s * c
    <3>1. PICK g \in Nat : g = s * c
      BY <1>3
    <3>2. CASE w <= g
      BY <3>1, <3>2
    <3>3. CASE ~(w <= g)
      <4>1. PICK x \in Nat : w = x + g
        <5>1. w - g \in Nat /\ w = (w - g) + g
          BY <3>3
        <5>. QED  BY <5>1
      <4>2. x <= Full
        BY <1>2, <4>1, GuardNumbers
      <4>3. Room(times, x, clock)
        BY <1>1, <1>3, <2>5, <3>1, <4>1, <4>2, RoomGrows
      <4>4. x <= tokens
        BY <1>5, <4>3
      <4>. QED  BY <3>1, <4>1, <4>4
    <3>. QED  BY <3>2, <3>3
  <2>. QED  BY <2>2, <2>4, <2>5
<1>7. PICK lack \in Nat : lack = Window - tokens /\ lack >= 1 /\ lack <= w /\ w = tokens + lack
  <2>1. w - tokens \in Nat /\ w - tokens >= 1 /\ w - tokens <= w /\ w = tokens + (w - tokens)
    BY <1>2
  <2>. QED  BY <1>2, <2>1
<1>8. PICK r \in Nat : r = CeilDiv(lack, c) /\ lack <= r * c /\ r * c < lack + c
  <2>1. lack + c - 1 \in Nat
    BY <1>3, <1>7
  <2>2. \A a \in Nat : /\ a \div c \in Nat /\ c * (a \div c) <= a
                       /\ a < c * (a \div c) + c
    BY <1>3
  <2>3. PICK q \in Nat : /\ q = (lack + c - 1) \div c
                         /\ c * q <= lack + c - 1 /\ lack + c - 1 < c * q + c
    BY <2>1, <2>2
  <2>4. PICK p \in Nat : p = c * q /\ p = q * c
    OBVIOUS
  <2>5. lack <= p /\ p < lack + c
    BY <1>3, <2>3, <2>4
  <2>. QED  BY <2>3, <2>4, <2>5 DEF CeilDiv
<1>9. r >= 1 /\ r <= w
  <2>1. ASSUME r = 0 PROVE FALSE
    BY <1>7, <1>8, <2>1
  <2>2. ASSUME r > w PROVE FALSE
    <3>1. r * c >= (w + 1) * c
      BY <2>2
    <3>2. (w + 1) * c = w * c + c /\ w * c >= w
      BY <1>3
    <3>3. PICK a, b \in Nat : a = r * c /\ b = w * c
      BY <1>3
    <3>4. a >= b + c /\ b >= w
      BY <3>1, <3>2, <3>3
    <3>5. a < lack + c
      BY <1>8, <3>3
    <3>. QED  BY <1>3, <1>7, <3>4, <3>5
  <2>. QED  BY <2>1, <2>2
<1>10. \A s \in Nat : w <= tokens + s * c => r <= s
  <2>1. SUFFICES ASSUME NEW s \in Nat, w <= tokens + s * c, s < r PROVE FALSE
    OBVIOUS
  <2>2. PICK g \in Nat : g = s * c
    BY <1>3
  <2>3. lack <= g
    BY <1>7, <2>1, <2>2
  <2>4. r * c >= (s + 1) * c
    BY <2>1
  <2>5. (s + 1) * c = g + c
    BY <2>2
  <2>. QED  BY <1>3, <1>7, <1>8, <2>3, <2>4, <2>5
<1>11. w <= tokens + r * c
  BY <1>7, <1>8
<1>12. Max({1, CeilDiv(Window - tokens, Capacity)}) = r
  <2>1. CeilDiv(Window - tokens, Capacity) = r
    BY <1>3, <1>7, <1>8
  <2>2. PICK S : S = {1, r}
    OBVIOUS
  <2>3. r \in S /\ \A x \in S : x \in Nat /\ x <= r
    BY <1>9, <2>2
  <2>4. Max(S) = r
    BY <2>3, GreatestIs
  <2>. QED  BY <2>1, <2>2, <2>4
<1>13. Min({s \in 1..Window : Limit!Fits(Limit!Serving(key, 1, clock + s))}) = r
  <2>. DEFINE S == {s \in 1..Window : Limit!Fits(Limit!Serving(key, 1, clock + s))}
  <2>1. r \in S
    BY <1>2, <1>6, <1>9, <1>11
  <2>2. \A x \in S : x \in Nat /\ r <= x
    BY <1>2, <1>6, <1>10
  <2>. HIDE DEF S
  <2>3. Min(S) = r
    BY <2>1, <2>2, LeastIs
  <2>. QED  BY <2>3 DEF S
<1>. QED  BY <1>2, <1>4, <1>9, <1>12, <1>13

-----------------------------------------------------------------------------
(* A token taken or refused: the buckets stay exact, and the step is one   *)
(* of the allowance.                                                       *)
LEMMA ConsumeIsAllowed ==
    ASSUME GuardInv, NEW client \in Client, Consume(client), clock' = clock
    PROVE  /\ DOMAIN buckets' \subseteq Key
           /\ \A k \in DOMAIN buckets' : buckets'[k] \in Bucket
           /\ served' \in [Key -> Seq(0..MaxTime)]
           /\ answer' \in [admitted : BOOLEAN, remaining : 0..Capacity, retry : 0..Window]
           /\ IsFiniteSet(DOMAIN buckets')
           /\ Cardinality(DOMAIN buckets' \ {Overflow}) <= MaxClients
           /\ BucketsAreExact'
           /\ ServedFits'
           /\ \E k \in Key : Limit!Admit(k) \/ Limit!Reject(k)
<1>. DEFINE table == IF client \in DOMAIN buckets THEN buckets ELSE Pruned
            key == BucketKey(client, table)
            tokens == Refilled(key, table)
            Kept(left) == [k \in DOMAIN table \cup {key} |->
                             IF k = key THEN [tokens |-> left, updated |-> clock] ELSE table[k]]
            retry == Max({1, CeilDiv(Window - tokens, Capacity)})
            remaining == (tokens - Window) \div Window
<1>1. \/ /\ tokens < Window
         /\ buckets' = Kept(tokens)
         /\ answer' = [admitted |-> FALSE, remaining |-> 0, retry |-> retry]
         /\ UNCHANGED served
      \/ /\ tokens >= Window
         /\ buckets' = Kept(tokens - Window)
         /\ answer' = [admitted |-> TRUE, retry |-> 0, remaining |-> remaining]
         /\ served' = [served EXCEPT ![key] = Append(@, clock)]
  BY DEF Consume
<1>2. /\ key \in Key /\ DOMAIN table \subseteq DOMAIN buckets
      /\ \A k \in DOMAIN table : table[k] = buckets[k]
      /\ \A k \in Key : k \notin DOMAIN table => Room(served[k], Full, clock)
      /\ IsFiniteSet(DOMAIN table \cup {key})
      /\ Cardinality((DOMAIN table \cup {key}) \ {Overflow}) <= MaxClients
      /\ tokens \in Nat /\ tokens <= Full
      /\ \A v \in Nat : v <= tokens <=> Room(served[key], v, clock)
  BY ConsumeFinds
<1>. HIDE DEF table, key, tokens, retry, remaining
<1>3. /\ TypeOK /\ ServedFits /\ BucketsAreExact
      /\ clock \in 0..MaxTime /\ clock \in Nat /\ DOMAIN buckets \subseteq Key
      /\ served \in [Key -> Seq(0..MaxTime)]
      /\ \A k \in DOMAIN buckets : buckets[k] \in Bucket
      /\ \A k \in Key : served[k] \in Seq(Nat)
  BY GuardTypes DEF GuardInv, TypeOK
<1>4. ASSUME NEW left \in Nat, left <= Full, buckets' = Kept(left)
      PROVE  /\ DOMAIN buckets' = DOMAIN table \cup {key} /\ DOMAIN buckets' \subseteq Key
             /\ \A k \in DOMAIN buckets' : buckets'[k] \in Bucket
             /\ IsFiniteSet(DOMAIN buckets')
             /\ Cardinality(DOMAIN buckets' \ {Overflow}) <= MaxClients
             /\ buckets'[key] = [tokens |-> left, updated |-> clock]
             /\ \A k \in DOMAIN buckets' : k # key => k \in DOMAIN buckets /\ buckets'[k] = buckets[k]
  <2>1. /\ DOMAIN buckets' = DOMAIN table \cup {key}
        /\ buckets'[key] = [tokens |-> left, updated |-> clock]
        /\ \A k \in DOMAIN buckets' : k # key => k \in DOMAIN table /\ buckets'[k] = table[k]
    BY <1>4
  <2>2. [tokens |-> left, updated |-> clock] \in Bucket
    <3>1. left \in 0..Full
      BY <1>4, GuardNumbers
    <3>. QED  BY <1>3, <3>1 DEF Bucket
  <2>3. \A k \in DOMAIN buckets' : k # key => k \in DOMAIN buckets /\ buckets'[k] = buckets[k]
    BY <1>2, <2>1
  <2>4. \A k \in DOMAIN buckets' : buckets'[k] \in Bucket
    BY <1>3, <2>1, <2>2, <2>3
  <2>5. DOMAIN buckets' \subseteq Key
    BY <1>2, <1>3, <2>1
  <2>. HIDE DEF Kept
  <2>. QED  BY <1>2, <2>1, <2>3, <2>4, <2>5
<1>. HIDE DEF Kept
<1>5. ASSUME NEW left \in Nat, left <= Full, buckets' = Kept(left),
             \A v \in Nat : v <= left <=> Room(served'[key], v, clock),
             \A k \in Key : k # key => served'[k] = served[k]
      PROVE  BucketsAreExact'
  <2>1. SUFFICES ASSUME NEW k \in Key
                 PROVE  /\ k \in DOMAIN buckets' =>
                             /\ buckets'[k].updated <= clock
                             /\ \A v \in Nat : v <= buckets'[k].tokens <=> Room(served'[k], v, buckets'[k].updated)
                        /\ k \notin DOMAIN buckets' => Room(served'[k], Full, clock)
    BY DEF BucketsAreExact, Room, Debt
  <2>2. CASE k = key
    <3>1. /\ k \in DOMAIN buckets' /\ buckets'[k].tokens = left /\ buckets'[k].updated = clock
      <4>1. DOMAIN buckets' = DOMAIN table \cup {key} /\ buckets'[key] = [tokens |-> left, updated |-> clock]
        BY <1>4, <1>5
      <4>. QED  BY <2>2, <4>1
    <3>. QED  BY <1>3, <1>5, <2>2, <3>1
  <2>3. CASE k # key /\ k \in DOMAIN buckets'
    <3>1. k \in DOMAIN buckets /\ buckets'[k] = buckets[k] /\ served'[k] = served[k]
      BY <1>4, <1>5, <2>3
    <3>. QED  BY <1>3, <2>3, <3>1 DEF BucketsAreExact
  <2>4. CASE k # key /\ k \notin DOMAIN buckets'
    <3>1. k \notin DOMAIN table /\ served'[k] = served[k]
      BY <1>4, <1>5, <2>4
    <3>. QED  BY <1>2, <2>4, <3>1
  <2>. QED  BY <2>2, <2>3, <2>4
<1>6. CASE /\ tokens < Window
           /\ buckets' = Kept(tokens)
           /\ answer' = [admitted |-> FALSE, remaining |-> 0, retry |-> retry]
           /\ UNCHANGED served
  <2>1. /\ ~Limit!Fits(Limit!Serving(key, 1, clock))
        /\ retry \in 1..Window
        /\ Min({s \in 1..Window : Limit!Fits(Limit!Serving(key, 1, clock + s))}) = retry
    BY <1>2, <1>3, <1>6, RejectionIsExact DEF retry
  <2>2. Limit!Reject(key)
    <3>1. \A S : Limit!Min(S) = Min(S)
      BY DEF Limit!Min, Min
    <3>. QED  BY <1>6, <2>1, <3>1 DEF Limit!Reject
  <2>3. BucketsAreExact'
    BY <1>2, <1>5, <1>6
  <2>4. ServedFits'
    BY <1>3, <1>6 DEF ServedFits, Limit!Fits
  <2>5. answer' \in [admitted : BOOLEAN, remaining : 0..Capacity, retry : 0..Window]
    <3>1. retry \in 0..Window /\ 0 \in 0..Capacity
      BY <2>1, GuardNumbers
    <3>. QED  BY <1>6, <3>1
  <2>. QED  BY <1>2, <1>3, <1>4, <1>6, <2>2, <2>3, <2>4, <2>5
<1>7. CASE /\ tokens >= Window
           /\ buckets' = Kept(tokens - Window)
           /\ answer' = [admitted |-> TRUE, retry |-> 0, remaining |-> remaining]
           /\ served' = [served EXCEPT ![key] = Append(@, clock)]
  <2>1. /\ Limit!Fits(Limit!Serving(key, 1, clock))
        /\ Append(served[key], clock) = Limit!Serving(key, 1, clock)
        /\ remaining \in 0..Capacity
        /\ Max({n \in 0..Capacity : Limit!Fits(Limit!Serving(key, n + 1, clock))}) = remaining
    BY <1>2, <1>3, <1>7, AdmissionIsExact DEF remaining
  <2>2. served' = [served EXCEPT ![key] = Limit!Serving(key, 1, clock)]
    BY <1>7, <2>1
  <2>3. Limit!Admit(key)
    <3>1. \A S : Limit!Max(S) = Max(S)
      BY DEF Limit!Max, Max
    <3>. QED  BY <1>7, <2>1, <2>2, <3>1 DEF Limit!Admit
  <2>4. PICK left \in Nat : left = tokens - Window /\ left <= Full /\ tokens = left + Window
    <3>1. tokens - Window \in Nat /\ tokens - Window <= Full /\ tokens = (tokens - Window) + Window
      BY <1>2, <1>7, GuardNumbers
    <3>. QED  BY <3>1
  <2>5. served'[key] = Append(served[key], clock) /\ \A k \in Key : k # key => served'[k] = served[k]
    BY <1>2, <1>3, <1>7
  <2>6. \A v \in Nat : v <= left <=> Room(served'[key], v, clock)
    <3>1. SUFFICES ASSUME NEW v \in Nat PROVE v <= left <=> Room(served'[key], v, clock)
      OBVIOUS
    <3>2. PICK w \in Nat : w = v + Window
      BY GuardNumbers
    <3>3. PICK times \in Seq(Nat) : times = served[key]
      BY <1>2, <1>3
    <3>4. Room(Append(times, clock), v, clock) <=> Room(times, w, clock)
      BY <1>3, <3>2, RoomAfterServing
    <3>5. w <= tokens <=> Room(times, w, clock)
      BY <1>2, <3>3
    <3>6. v <= left <=> w <= tokens
      BY <1>2, <2>4, <3>2, GuardNumbers
    <3>. QED  BY <2>5, <3>3, <3>4, <3>5, <3>6
  <2>7. BucketsAreExact'
    BY <1>5, <1>7, <2>4, <2>5, <2>6
  <2>8. ServedFits'
    <3>1. \A k \in Key : Limit!Fits(served'[k])
      BY <1>3, <2>1, <2>5 DEF ServedFits
    <3>. QED  BY <3>1 DEF ServedFits, Limit!Fits
  <2>9. answer' \in [admitted : BOOLEAN, remaining : 0..Capacity, retry : 0..Window]
    <3>1. 0 \in 0..Window
      BY GuardNumbers
    <3>. QED  BY <1>7, <2>1, <3>1
  <2>10. served' \in [Key -> Seq(0..MaxTime)]
    <3>1. Append(served[key], clock) \in Seq(0..MaxTime)
      BY <1>2, <1>3, AppendProperties
    <3>. QED  BY <1>3, <1>7, <3>1
  <2>. QED  BY <1>2, <1>4, <1>7, <2>3, <2>4, <2>7, <2>8, <2>9, <2>10
<1>. QED  BY <1>1, <1>6, <1>7


\* A step that leaves buckets, history and clock alone keeps them exact.
LEMMA QuietSteps ==
    ASSUME GuardInv, UNCHANGED <<clock, buckets, served, answer>>,
           upload' \in Upload \cup {NoUpload},
           upload' # NoUpload /\ upload'.phase \in {"reading", "endpoint"} => upload'.received <= MaxBytes
    PROVE  GuardInv'
<1>1. TypeOK'
  BY DEF GuardInv, TypeOK
<1>2. MemoryIsBounded'
  BY DEF GuardInv, MemoryIsBounded, In
<1>3. IsFiniteSet(DOMAIN buckets')
  BY DEF GuardInv
<1>4. BucketsAreExact'
  BY DEF GuardInv, BucketsAreExact, Room, Debt
<1>5. ServedFits'
  BY DEF GuardInv, ServedFits, Limit!Fits
<1>. QED  BY <1>1, <1>2, <1>3, <1>4, <1>5 DEF GuardInv

\* The first state of the guard.
LEMMA GuardStartsWell == Init => GuardInv
<1>. SUFFICES ASSUME Init PROVE GuardInv
  OBVIOUS
<1>1. /\ clock = 0 /\ buckets = << >> /\ served = [k \in Key |-> << >>]
      /\ answer = [admitted |-> TRUE, remaining |-> Capacity, retry |-> 0] /\ upload = NoUpload
  BY DEF Init
<1>2. DOMAIN buckets = {}
  BY <1>1
<1>3. 0 \in 0..MaxTime /\ Capacity \in 0..Capacity /\ 0 \in 0..Window /\ Full <= Full
  BY GuardNumbers
<1>4. << >> \in Seq(0..MaxTime) /\ Len(<< >>) = 0
  BY EmptySeq
<1>5. TypeOK
  BY <1>1, <1>2, <1>3, <1>4 DEF TypeOK
<1>6. IsFiniteSet({}) /\ Cardinality({}) = 0 /\ {} \ {Overflow} = {}
  BY FS_EmptySet
<1>7. MemoryIsBounded
  BY <1>1, <1>2, <1>6, GuardNumbers DEF MemoryIsBounded, In
<1>8. \A k \in Key : Room(served[k], Full, clock) /\ Limit!Fits(served[k])
  <2>1. SUFFICES ASSUME NEW k \in Key PROVE Room(served[k], Full, clock) /\ Limit!Fits(served[k])
    OBVIOUS
  <2>2. PICK times : times = served[k] /\ Len(times) = 0
    BY <1>1, <1>4
  <2>3. 1..Len(times) = {}
    BY <2>2
  <2>. QED  BY <1>3, <2>2, <2>3 DEF Room, Limit!Fits
<1>9. BucketsAreExact /\ ServedFits
  BY <1>2, <1>8 DEF BucketsAreExact, ServedFits
<1>. QED  BY <1>2, <1>5, <1>6, <1>7, <1>9 DEF GuardInv

(* Every step keeps the invariant, and is a step of the allowance or no    *)
(* step of it.                                                             *)
LEMMA GuardStep ==
    ASSUME GuardInv, [Next]_vars
    PROVE  /\ GuardInv'
           /\ [Limit!Next]_<<clock, served, answer>>
<1>. DEFINE Goal == GuardInv' /\ [Limit!Next]_<<clock, served, answer>>
<1>1. upload \in Upload \cup {NoUpload}
  BY DEF GuardInv, TypeOK
<1>2. ASSUME NEW client \in Client, Consume(client), clock' = clock,
             upload' \in Upload \cup {NoUpload},
             upload' # NoUpload /\ upload'.phase \in {"reading", "endpoint"} => upload'.received <= MaxBytes
      PROVE  Goal
  <2>1. /\ DOMAIN buckets' \subseteq Key
        /\ \A k \in DOMAIN buckets' : buckets'[k] \in Bucket
        /\ served' \in [Key -> Seq(0..MaxTime)]
        /\ answer' \in [admitted : BOOLEAN, remaining : 0..Capacity, retry : 0..Window]
        /\ IsFiniteSet(DOMAIN buckets')
        /\ Cardinality(DOMAIN buckets' \ {Overflow}) <= MaxClients
        /\ BucketsAreExact' /\ ServedFits'
        /\ \E k \in Key : Limit!Admit(k) \/ Limit!Reject(k)
    BY <1>2, ConsumeIsAllowed
  <2>2. TypeOK'
    BY <1>2, <2>1 DEF GuardInv, TypeOK
  <2>3. MemoryIsBounded'
    BY <1>2, <2>1 DEF MemoryIsBounded, In
  <2>4. Limit!Next
    BY <2>1 DEF Limit!Next
  <2>. QED  BY <2>1, <2>2, <2>3, <2>4 DEF GuardInv
<1>3. ASSUME UNCHANGED <<clock, buckets, served, answer>>,
             upload' \in Upload \cup {NoUpload},
             upload' # NoUpload /\ upload'.phase \in {"reading", "endpoint"} => upload'.received <= MaxBytes
      PROVE  Goal
  BY <1>3, QuietSteps
<1>4. upload # NoUpload /\ upload.phase \in {"reading", "endpoint"} => upload.received <= MaxBytes
  BY DEF GuardInv, MemoryIsBounded, In
<1>5. ASSUME UNCHANGED vars PROVE Goal
  BY <1>1, <1>3, <1>4, <1>5 DEF vars
<1>6. ASSUME NEW client \in Client, Request(client) PROVE Goal
  BY <1>1, <1>2, <1>4, <1>6 DEF Request
<1>7. ASSUME NEW client \in Client, Arrive(client) PROVE Goal
  <2>1. PICK phase \in {"reading", "refused"} : upload' = [phase |-> phase, client |-> client, received |-> 0]
    BY <1>7 DEF Arrive
  <2>2. upload' \in Upload /\ upload'.received <= MaxBytes
    BY <2>1, GuardNumbers DEF Upload
  <2>. QED  BY <1>3, <1>7, <2>2 DEF Arrive
<1>8. ASSUME NEW size \in 1..MaxBytes + 1, ReadChunk(size) PROVE Goal
  <2>1. /\ upload \in Upload /\ upload.phase = "reading"
        /\ upload' = [upload EXCEPT !.received = upload.received + size,
                         !.phase = IF upload.received + size > MaxBytes THEN "refused" ELSE upload.phase]
    BY <1>1, <1>8 DEF ReadChunk, In
  <2>2. PICK n \in Nat : n = upload.received
    BY <2>1 DEF Upload
  <2>3. n + size \in Nat
    BY GuardNumbers
  <2>4. CASE n + size > MaxBytes
    <3>1. upload' = [upload EXCEPT !.received = n + size, !.phase = "refused"]
      BY <2>1, <2>2, <2>4
    <3>2. upload' \in Upload /\ upload'.phase = "refused"
      BY <2>1, <2>3, <3>1 DEF Upload
    <3>. QED  BY <1>3, <1>8, <3>2 DEF ReadChunk
  <2>5. CASE ~(n + size > MaxBytes)
    <3>1. upload' = [upload EXCEPT !.received = n + size, !.phase = "reading"]
      BY <2>1, <2>2, <2>5
    <3>2. upload' \in Upload /\ upload'.received = n + size
      BY <2>1, <2>3, <3>1 DEF Upload
    <3>3. upload'.received <= MaxBytes
      BY <2>3, <2>5, <3>2, GuardNumbers
    <3>. QED  BY <1>3, <1>8, <3>2, <3>3 DEF ReadChunk
  <2>. QED  BY <2>4, <2>5
<1>9. ASSUME FinishBody PROVE Goal
  <2>1. /\ upload \in Upload /\ upload # NoUpload /\ upload.phase = "reading"
        /\ Consume(upload.client) /\ clock' = clock
        /\ upload' = [upload EXCEPT !.phase = IF answer'.admitted THEN "endpoint" ELSE "refused"]
    BY <1>1, <1>9 DEF FinishBody, In
  <2>2. upload.client \in Client /\ upload.received <= MaxBytes
    BY <1>4, <2>1 DEF Upload
  <2>3. upload' \in Upload /\ upload'.received = upload.received
    <3>1. CASE answer'.admitted
      <4>1. upload' = [upload EXCEPT !.phase = "endpoint"]
        BY <2>1, <3>1
      <4>. QED  BY <2>1, <4>1 DEF Upload
    <3>2. CASE ~answer'.admitted
      <4>1. upload' = [upload EXCEPT !.phase = "refused"]
        BY <2>1, <3>2
      <4>. QED  BY <2>1, <4>1 DEF Upload
    <3>. QED  BY <3>1, <3>2
  <2>. QED  BY <1>2, <2>1, <2>2, <2>3
<1>10. ASSUME Disconnect \/ Respond PROVE Goal
  BY <1>3, <1>10 DEF Disconnect, Respond
<1>11. ASSUME Tick PROVE Goal
  <2>1. clock' = clock + 1 /\ clock < MaxTime /\ UNCHANGED <<buckets, served, answer, upload>>
    BY <1>11 DEF Tick
  <2>2. clock \in Nat /\ clock' \in 0..MaxTime
    BY <2>1, GuardTypes, GuardNumbers DEF GuardInv
  <2>3. TypeOK'
    BY <2>1, <2>2 DEF GuardInv, TypeOK
  <2>4. MemoryIsBounded' /\ IsFiniteSet(DOMAIN buckets') /\ ServedFits'
    BY <2>1 DEF GuardInv, MemoryIsBounded, In, ServedFits, Limit!Fits
  <2>5. BucketsAreExact'
    <3>1. SUFFICES ASSUME NEW k \in Key
                   PROVE  /\ k \in DOMAIN buckets =>
                               /\ buckets[k].updated <= clock + 1
                               /\ \A v \in Nat : v <= buckets[k].tokens <=> Room(served[k], v, buckets[k].updated)
                          /\ k \notin DOMAIN buckets => Room(served[k], Full, clock + 1)
      BY <2>1 DEF BucketsAreExact, Room, Debt
    <3>2. ASSUME k \in DOMAIN buckets
          PROVE  /\ buckets[k].updated <= clock + 1
                 /\ \A v \in Nat : v <= buckets[k].tokens <=> Room(served[k], v, buckets[k].updated)
      BY <2>2, <3>2, GuardTypes DEF GuardInv, BucketsAreExact
    <3>3. ASSUME k \notin DOMAIN buckets PROVE Room(served[k], Full, clock + 1)
      <4>1. PICK times \in Seq(Nat) : times = served[k]
        BY GuardTypes DEF GuardInv
      <4>2. PICK f \in Nat : f = Full
        BY GuardNumbers
      <4>3. Room(times, f, clock) /\ f <= Full /\ f <= f + 1 * Capacity
        BY <3>3, <4>1, <4>2, GuardNumbers DEF GuardInv, BucketsAreExact
      <4>4. Room(times, f, clock + 1)
        BY <2>2, <4>3, RoomGrows
      <4>. QED  BY <4>1, <4>2, <4>4
    <3>. QED  BY <3>2, <3>3
  <2>6. Limit!Next
    BY <2>1 DEF Limit!Next, Limit!Tick
  <2>. QED  BY <2>3, <2>4, <2>5, <2>6 DEF GuardInv
<1>. HIDE DEF Goal
<1>12. Goal
  <2>1. CASE Next
    BY <1>6, <1>7, <1>8, <1>9, <1>10, <1>11, <2>1, Zenon DEF Next
  <2>. QED  BY <1>5, <2>1
<1>. QED  BY <1>12 DEF Goal

(* Pruning, overflow, refilling and slow uploads keep every bucket worth   *)
(* exactly what the history of its key leaves, and memory bounded.         *)
THEOREM GuardInvHolds == Spec => []GuardInv
<1>1. Init => GuardInv
  BY GuardStartsWell
<1>2. GuardInv /\ [Next]_vars => GuardInv'
  BY GuardStep
<1>. QED  BY <1>1, <1>2, PTL DEF Spec

\* The clock, the buckets, the headers and the upload have their types.
THEOREM GuardTypesHold == Spec => []TypeOK
<1>1. GuardInv => TypeOK
  BY DEF GuardInv
<1>. QED  BY <1>1, GuardInvHolds, PTL

(* However many clients come and however a body is cut into chunks, the    *)
(* table and the body are bounded (_prune_buckets, the body reader).       *)
THEOREM MemoryStaysBounded == Spec => []MemoryIsBounded
<1>1. GuardInv => MemoryIsBounded
  BY DEF GuardInv
<1>. QED  BY <1>1, GuardInvHolds, PTL

(* The token buckets implement the allowance: in every span of time a key  *)
(* is served what it is allowed and is never refused less, and both        *)
(* headers are exact (_consume_token).                                     *)
THEOREM GuardImplementsAllowance == Spec => ImplementsAllowance
<1>1. Init => Limit!Init
  BY DEF Init, Limit!Init
<1>2. GuardInv /\ [Next]_vars => [Limit!Next]_<<clock, served, answer>>
  BY GuardStep
<1>. QED  BY <1>1, <1>2, GuardInvHolds, PTL DEF Spec, ImplementsAllowance, Limit!Spec
=============================================================================
