--------------------------- MODULE EventLifecycleProofs ---------------------------
(***************************************************************************)
(* For every set of objects, outside publishers and blocks, and every      *)
(* length of the queues: reference counts are exact, a block is either     *)
(* free or in somebody's hands, and no reference-count assertion fails.    *)
(* That the counts stay within their limit rests on how often an object    *)
(* can have the same block, which only the order of its steps bounds.      *)
(***************************************************************************)
EXTENDS EventLifecycle, FiniteSetTheorems, FunctionTheorems, SequenceTheorems, TLAPS

(* A place of its own for each thing an actor has in hand. *)
Positioned ==
  /\ \A a \in Actor : work[a] = NONE <=> pc[a] \in {"idle", "handling"}
  /\ \A x \in Outsider : pc[x] \notin {"handling", "recall", "recalled"}
  /\ \A o \in Object : /\ pc[o] = "idle" => current[o] = NONE
                       /\ pc[o] \in {"handling", "recall", "recalled"} => current[o] # NONE
  /\ \A a \in Actor : pc[a] = "release" => work[a] \in Block
  /\ \A a \in Actor : work[a] \notin free

In(q, o, b) == \E i \in DOMAIN q[o] : q[o][i] = b
Once(q, o, b) == \A i, j \in DOMAIN q[o] : q[o][i] = b /\ q[o][j] = b => i = j
Keeps(o, b) == current[o] = b \/ In(queue, o, b) \/ In(deferred, o, b)

(* A block that has not been published yet, or is about to be released, is in nobody *)
(* else's hands; a free one is in no hands.                                          *)
FreshIsAlone ==
  \A a \in Actor : pc[a] \in {"publish", "release"} /\ work[a] \in Block =>
    /\ \A o \in Object : ~Keeps(o, work[a])
    /\ \A x \in Actor : work[x] = work[a] => x = a
FreeIsUnheld ==
  \A b \in free : (\A o \in Object : ~Keeps(o, b)) /\ (\A a \in Actor : work[a] # b)

(* An object comes by a block once, *)
ComesOnce ==
  \A b \in Block, a \in Actor, o \in Object :
    pc[a] = "multicast" /\ work[a] = b /\ o \in subs[a] =>
      ~Keeps(o, b) /\ (work[o] = b => o = a)
OnePublisher ==
  \A a, x \in Actor :
    /\ pc[a] \in {"publish", "multicast"} /\ pc[x] \in {"publish", "multicast"}
    /\ work[a] = work[x] /\ work[a] \in Block
    => a = x
(* and then keeps it in two places at most. *)
KeptTwice ==
  \A b \in Block, o \in Object :
    /\ Once(queue, o, b) /\ Once(deferred, o, b)
    /\ In(queue, o, b) => current[o] # b /\ ~In(deferred, o, b)
    /\ work[o] = b /\ current[o] = b => ~In(deferred, o, b)
    /\ pc[o] = "recall" /\ work[o] = b => ~Keeps(o, b)
RecallIsQueued ==
  \A o \in Object : pc[o] = "recalled" => queue[o] # <<>> /\ Head(queue[o]) = work[o]
OutsidersOwn ==
  \A x \in Outsider : work[x] \in Block =>
    /\ \A y \in Outsider : work[y] = work[x] => y = x
    /\ PREEMPTS => \A o \in Object : /\ work[o] # work[x] /\ current[o] # work[x]
                                     /\ ~In(deferred, o, work[x])

LifeInv ==
  /\ TypeOK /\ Positioned
  /\ FreshIsAlone /\ FreeIsUnheld
  /\ ComesOnce /\ OnePublisher /\ KeptTwice /\ RecallIsQueued /\ OutsidersOwn
  /\ RefCountsHolders /\ NoBlockLeaks
-----------------------------------------------------------------------------
(* Counting. *)

LEMMA ConstantsAre ==
  /\ Object \subseteq Nat /\ IsFiniteSet(Object) /\ IsFiniteSet(Actor)
  /\ Object \subseteq Actor /\ Outsider \subseteq Actor /\ Block \subseteq Event
  /\ NONE \notin Event /\ QUEUE_LENGTH \in Nat \ {0} /\ MAX_ACTIVE_OBJECT \in Nat \ {0}
  /\ Cardinality(Object) \in Nat /\ Cardinality(Object) <= MAX_ACTIVE_OBJECT
  /\ \A o \in Object : o \notin Outsider
  <1>1. /\ MAX_ACTIVE_OBJECT \in Nat \ {0} /\ Object \in SUBSET (1..MAX_ACTIVE_OBJECT)
        /\ IsFiniteSet(Outsider)
    BY LifecycleAssumption
  <1>2. IsFiniteSet(1..MAX_ACTIVE_OBJECT) /\ Cardinality(1..MAX_ACTIVE_OBJECT) = MAX_ACTIVE_OBJECT
    BY <1>1, FS_Interval
  <1>3. IsFiniteSet(Object) /\ Cardinality(Object) <= MAX_ACTIVE_OBJECT
    BY <1>1, <1>2, FS_Subset
  <1>4. Cardinality(Object) \in Nat
    BY <1>3, FS_CardinalityType
  <1>5. IsFiniteSet(Actor)
    BY <1>1, <1>3, FS_Union DEF Actor
  <1> QED
    BY <1>1, <1>3, <1>4, <1>5, LifecycleAssumption DEF Actor, Event

(* Sets whose elements correspond have as many. *)
LEMMA Corresponding ==
  ASSUME NEW S, NEW T, IsFiniteSet(S), NEW f \in [S -> T], NEW g \in [T -> S],
         \A x \in S : g[f[x]] = x, \A y \in T : f[g[y]] = y
  PROVE  Cardinality(T) = Cardinality(S)
  <1>1. f \in Bijection(S, T)
    <2>1. \A x, y \in S : f[x] = f[y] => x = y
      OBVIOUS
    <2>2. \A y \in T : \E x \in S : f[x] = y
      OBVIOUS
    <2> QED
      BY <2>1, <2>2, Fun_IsBij
  <1>2. ExistsBijection(S, T)
    BY <1>1, Fun_ExistsBij
  <1> QED
    BY <1>2, FS_Bijection

(* Sets that differ in one element at most. *)
LEMMA OneDiffers ==
  ASSUME NEW U, IsFiniteSet(U), NEW S \in SUBSET U, NEW T \in SUBSET U, NEW x,
         S \ {x} = T \ {x}
  PROVE  /\ Cardinality(S) \in Nat /\ Cardinality(T) \in Nat
         /\ x \in S /\ x \in T => Cardinality(T) = Cardinality(S)
         /\ x \notin S /\ x \notin T => Cardinality(T) = Cardinality(S)
         /\ x \notin S /\ x \in T => Cardinality(T) = Cardinality(S) + 1
         /\ x \in S /\ x \notin T => Cardinality(T) = Cardinality(S) - 1
  <1>1. /\ IsFiniteSet(S) /\ Cardinality(S) \in Nat
        /\ IsFiniteSet(T) /\ Cardinality(T) \in Nat
    BY FS_Subset, FS_CardinalityType
  <1>2. Cardinality(S \ {x}) = IF x \in S THEN Cardinality(S) - 1 ELSE Cardinality(S)
    BY <1>1, FS_RemoveElement
  <1>3. Cardinality(T \ {x}) = IF x \in T THEN Cardinality(T) - 1 ELSE Cardinality(T)
    BY <1>1, FS_RemoveElement
  <1>4. Cardinality(S \ {x}) = Cardinality(T \ {x})
    OBVIOUS
  <1> QED
    BY <1>1, <1>2, <1>3, <1>4

Queues == [Object -> Seq(Event)]
Bounded(q) == \A o \in Object : Len(q[o]) <= QUEUE_LENGTH

LEMMA PositionsFinite ==
  ASSUME NEW q \in Queues, NEW e
  PROVE  IsFiniteSet(Positions(q, e)) /\ Cardinality(Positions(q, e)) \in Nat
  <1>1. IsFiniteSet(1..QUEUE_LENGTH)
    BY ConstantsAre, FS_Interval
  <1>2. IsFiniteSet(Object \X (1..QUEUE_LENGTH))
    BY <1>1, ConstantsAre, FS_Product
  <1>3. Positions(q, e) \in SUBSET (Object \X (1..QUEUE_LENGTH))
    BY DEF Positions
  <1> QED
    BY <1>2, <1>3, FS_Subset, FS_CardinalityType

LEMMA PositionsAre ==
  ASSUME NEW q \in Queues, Bounded(q), NEW e
  PROVE  /\ \A p \in Positions(q, e) :
              \E o \in Object, i \in 1..QUEUE_LENGTH :
                p = <<o, i>> /\ i <= Len(q[o]) /\ q[o][i] = e
         /\ \A o \in Object, i \in 1..QUEUE_LENGTH :
              <<o, i>> \in Positions(q, e) <=> i <= Len(q[o]) /\ q[o][i] = e
         /\ \A o \in Object : In(q, o, e) <=> \E i \in 1..QUEUE_LENGTH : <<o, i>> \in Positions(q, e)
  <1>1. \A o \in Object : /\ DOMAIN q[o] = 1..Len(q[o]) /\ Len(q[o]) \in Nat
                          /\ Len(q[o]) <= QUEUE_LENGTH
    BY DEF Queues, Bounded
  <1>2. QUEUE_LENGTH \in Nat
    BY ConstantsAre
  <1>3. \A o \in Object, i \in 1..QUEUE_LENGTH :
          <<o, i>> \in Positions(q, e) <=> i <= Len(q[o]) /\ q[o][i] = e
    BY <1>1, <1>2 DEF Positions
  <1>4. \A p \in Positions(q, e) : \E o \in Object, i \in 1..QUEUE_LENGTH : p = <<o, i>>
    BY DEF Positions
  <1>5. \A o \in Object : In(q, o, e) <=> \E i \in 1..QUEUE_LENGTH : <<o, i>> \in Positions(q, e)
    <2> TAKE o \in Object
    <2>1. In(q, o, e) <=> \E i \in 1..Len(q[o]) : q[o][i] = e
      BY <1>1 DEF In
    <2>2. \A i : i \in 1..Len(q[o]) <=> i \in 1..QUEUE_LENGTH /\ i <= Len(q[o])
      BY <1>1, <1>2
    <2>3. In(q, o, e) <=> \E i : i \in 1..QUEUE_LENGTH /\ i <= Len(q[o]) /\ q[o][i] = e
      BY <2>1, <2>2, Zenon
    <2> QED
      BY <1>3, <2>3, Zenon
  <1>6. \A p \in Positions(q, e) :
          \E o \in Object, i \in 1..QUEUE_LENGTH : p = <<o, i>> /\ i <= Len(q[o]) /\ q[o][i] = e
    BY <1>3, <1>4
  <1> QED
    BY <1>3, <1>5, <1>6
(* What a post, a get and a post at the front make of the queues.                  *)
Appended(q, r, o, x) ==
  /\ r \in Queues /\ Bounded(r)
  /\ \A p \in Object : p # o => r[p] = q[p]
  /\ r[o] # <<>> /\ (q[o] # <<>> => Head(r[o]) = Head(q[o]))
  /\ \A i \in 1..Len(q[o]) : r[o][i] = q[o][i]
  /\ Len(r[o]) = Len(q[o]) + 1 /\ r[o][Len(q[o]) + 1] = x

Shortened(q, r, o) ==
  /\ r \in Queues /\ Bounded(r)
  /\ \A p \in Object : p # o => r[p] = q[p]
  /\ Len(q[o]) \in Nat \ {0} /\ Len(r[o]) = Len(q[o]) - 1
  /\ \A i \in 1..(Len(q[o]) - 1) : r[o][i] = q[o][i + 1]
  /\ q[o][1] = Head(q[o]) /\ Head(q[o]) \in Event

Prepended(q, r, o, x) ==
  /\ r \in Queues /\ Bounded(r)
  /\ \A p \in Object : p # o => r[p] = q[p]
  /\ r[o] # <<>> /\ Head(r[o]) = x
  /\ Len(r[o]) = Len(q[o]) + 1 /\ r[o][1] = x
  /\ \A i \in 1..Len(q[o]) : r[o][i + 1] = q[o][i]
  /\ q = [r EXCEPT ![o] = Tail(@)]

LEMMA AppendIs ==
  ASSUME NEW q \in Queues, Bounded(q), NEW o \in Object, Len(q[o]) # QUEUE_LENGTH,
         NEW x \in Event
  PROVE  Appended(q, [q EXCEPT ![o] = Append(@, x)], o, x)
  <1> DEFINE r == [q EXCEPT ![o] = Append(@, x)]
  <1>1. q[o] \in Seq(Event) /\ Len(q[o]) \in Nat /\ Len(q[o]) <= QUEUE_LENGTH /\ QUEUE_LENGTH \in Nat
    BY ConstantsAre DEF Queues, Bounded
  <1>2. r[o] = Append(q[o], x) /\ \A p \in Object : p # o => r[p] = q[p]
    BY DEF Queues
  <1>3. /\ Append(q[o], x) \in Seq(Event) /\ Len(Append(q[o], x)) = Len(q[o]) + 1
        /\ \A i \in 1..Len(q[o]) : Append(q[o], x)[i] = q[o][i]
        /\ Append(q[o], x)[Len(q[o]) + 1] = x
    BY <1>1
  <1>6. Append(q[o], x) # <<>> /\ (q[o] # <<>> => Head(Append(q[o], x)) = Head(q[o]))
    <2>1. Append(q[o], x) # <<>>
      BY <1>1, <1>3
    <2>2. ASSUME q[o] # <<>> PROVE Head(Append(q[o], x)) = Head(q[o])
      <3>1. 1 \in 1..Len(q[o])
        BY <1>1, <2>2
      <3>2. Head(q[o]) = q[o][1] /\ Head(Append(q[o], x)) = Append(q[o], x)[1]
        BY <1>1, <1>3, <2>1, <2>2
      <3> QED
        BY <1>3, <3>1, <3>2
    <2> QED
      BY <2>1, <2>2
  <1>4. r \in Queues
    BY <1>3 DEF Queues
  <1>5. Bounded(r)
    BY <1>1, <1>2, <1>3 DEF Bounded
  <1> HIDE DEF r
  <1> QED
    BY <1>2, <1>3, <1>4, <1>5, <1>6 DEF r, Appended

LEMMA AppendCounts ==
  ASSUME NEW q \in Queues, Bounded(q), NEW o \in Object, Len(q[o]) # QUEUE_LENGTH,
         NEW x \in Event,
         NEW r, Appended(q, r, o, x), NEW e
  PROVE  Cardinality(Positions(r, e))
           = Cardinality(Positions(q, e)) + IF x = e THEN 1 ELSE 0
  <1> DEFINE n == Len(q[o])
             S == Positions(q, e)
             T == Positions(r, e)
  <1>1. /\ r \in Queues /\ Bounded(r)
        /\ \A p \in Object : p # o => r[p] = q[p]
        /\ \A i \in 1..n : r[o][i] = q[o][i]
        /\ Len(r[o]) = n + 1 /\ r[o][n + 1] = x
    BY DEF Appended
  <1>2. n \in Nat /\ n + 1 \in 1..QUEUE_LENGTH /\ QUEUE_LENGTH \in Nat
        /\ \A p \in Object : Len(q[p]) \in Nat
    BY ConstantsAre DEF Queues, Bounded
  <1>3. /\ \A p \in S : \E a \in Object, i \in 1..QUEUE_LENGTH : p = <<a, i>>
        /\ \A p \in T : \E a \in Object, i \in 1..QUEUE_LENGTH : p = <<a, i>>
    BY <1>1, PositionsAre
  <1>4. /\ \A a \in Object, i \in 1..QUEUE_LENGTH :
             <<a, i>> \in S <=> i <= Len(q[a]) /\ q[a][i] = e
        /\ \A a \in Object, i \in 1..QUEUE_LENGTH :
             <<a, i>> \in T <=> i <= Len(r[a]) /\ r[a][i] = e
    BY <1>1, PositionsAre
  <1> HIDE DEF S, T
  <1>5. \A a \in Object, i \in 1..QUEUE_LENGTH :
          <<a, i>> # <<o, n + 1>> => (<<a, i>> \in S <=> <<a, i>> \in T)
    <2> TAKE a \in Object, i \in 1..QUEUE_LENGTH
    <2>1. CASE a # o
      BY <1>1, <1>4, <2>1
    <2>2. CASE a = o
      BY <1>1, <1>2, <1>4, <2>2
    <2> QED
      BY <2>1, <2>2
  <1>6. S \ {<<o, n + 1>>} = T \ {<<o, n + 1>>}
    BY <1>3, <1>5
  <1>7. <<o, n + 1>> \notin S /\ (<<o, n + 1>> \in T <=> x = e)
    BY <1>1, <1>2, <1>4
  <1>8. IsFiniteSet(S) /\ IsFiniteSet(T)
    BY <1>1, PositionsFinite DEF S, T
  <1>9. IsFiniteSet(S \cup T) /\ S \in SUBSET (S \cup T) /\ T \in SUBSET (S \cup T)
    BY <1>8, FS_Union
  <1>10. Cardinality(T) = Cardinality(S) + IF x = e THEN 1 ELSE 0
    BY <1>6, <1>7, <1>9, OneDiffers
  <1> QED
    BY <1>10 DEF S, T


LEMMA TailIs ==
  ASSUME NEW q \in Queues, Bounded(q), NEW o \in Object, q[o] # <<>>
  PROVE  Shortened(q, [q EXCEPT ![o] = Tail(@)], o)
  <1> DEFINE r == [q EXCEPT ![o] = Tail(@)]
  <1>1. q[o] \in Seq(Event) /\ Len(q[o]) <= QUEUE_LENGTH /\ QUEUE_LENGTH \in Nat
    BY ConstantsAre DEF Queues, Bounded
  <1>2. r[o] = Tail(q[o]) /\ \A p \in Object : p # o => r[p] = q[p]
    BY DEF Queues
  <1>3. /\ Tail(q[o]) \in Seq(Event) /\ Len(Tail(q[o])) = Len(q[o]) - 1
        /\ \A i \in 1..(Len(q[o]) - 1) : Tail(q[o])[i] = q[o][i + 1]
        /\ Len(q[o]) \in Nat \ {0}
        /\ q[o][1] = Head(q[o]) /\ Head(q[o]) \in Event
    BY <1>1
  <1>4. r \in Queues
    BY <1>3 DEF Queues
  <1>5. Bounded(r)
    BY <1>1, <1>2, <1>3 DEF Bounded
  <1> HIDE DEF r
  <1> QED
    BY <1>2, <1>3, <1>4, <1>5 DEF r, Shortened

LEMMA TailCounts ==
  ASSUME NEW q \in Queues, Bounded(q), NEW o \in Object, q[o] # <<>>,
         NEW r, Shortened(q, r, o), NEW e
  PROVE  Cardinality(Positions(q, e))
           = Cardinality(Positions(r, e)) + IF Head(q[o]) = e THEN 1 ELSE 0
  <1> DEFINE n == Len(q[o])
             S == Positions(q, e)
             U == S \ {<<o, 1>>}
             T == Positions(r, e)
  <1>1. /\ r \in Queues /\ Bounded(r)
        /\ \A p \in Object : p # o => r[p] = q[p]
        /\ n \in Nat \ {0} /\ Len(r[o]) = n - 1
        /\ \A i \in 1..(n - 1) : r[o][i] = q[o][i + 1]
        /\ q[o][1] = Head(q[o])
    BY DEF Shortened
  <1>2. QUEUE_LENGTH \in Nat \ {0} /\ n <= QUEUE_LENGTH
    BY ConstantsAre DEF Bounded
  <1>3. /\ \A p \in S : \E a \in Object, i \in 1..QUEUE_LENGTH : p = <<a, i>>
        /\ \A p \in T : \E a \in Object, i \in 1..QUEUE_LENGTH : p = <<a, i>>
    BY <1>1, PositionsAre
  <1>4. /\ \A a \in Object, i \in 1..QUEUE_LENGTH :
             <<a, i>> \in S <=> i <= Len(q[a]) /\ q[a][i] = e
        /\ \A a \in Object, i \in 1..QUEUE_LENGTH :
             <<a, i>> \in T <=> i <= Len(r[a]) /\ r[a][i] = e
    BY <1>1, PositionsAre
  <1> DEFINE f == [p \in U |-> IF p[1] = o THEN <<o, p[2] - 1>> ELSE p]
             g == [p \in T |-> IF p[1] = o THEN <<o, p[2] + 1>> ELSE p]
  <1> HIDE DEF S, T
  <1>5. ASSUME NEW a \in Object, NEW i \in 1..QUEUE_LENGTH, <<a, i>> \in U
        PROVE  IF a = o THEN <<o, i - 1>> \in T ELSE <<a, i>> \in T
    <2>1. CASE a # o
      BY <1>1, <1>4, <1>5, <2>1
    <2>2. CASE a = o
      <3>1. i # 1 /\ i <= n /\ q[o][i] = e
        BY <1>4, <1>5, <2>2
      <3>2. i - 1 \in 1..QUEUE_LENGTH /\ i - 1 \in 1..(n - 1) /\ i - 1 <= n - 1 /\ (i - 1) + 1 = i
        BY <1>1, <1>2, <3>1
      <3>3. r[o][i - 1] = e
        BY <1>1, <3>1, <3>2
      <3> QED
        BY <1>1, <1>4, <2>2, <3>2, <3>3
    <2> QED
      BY <2>1, <2>2
  <1>6. ASSUME NEW a \in Object, NEW i \in 1..QUEUE_LENGTH, <<a, i>> \in T
        PROVE  IF a = o THEN <<o, i + 1>> \in U /\ i + 1 \in 1..QUEUE_LENGTH ELSE <<a, i>> \in U
    <2>1. CASE a # o
      BY <1>1, <1>4, <1>6, <2>1
    <2>2. CASE a = o
      <3>1. i <= n - 1 /\ r[o][i] = e
        BY <1>1, <1>4, <1>6, <2>2
      <3>2. i + 1 \in 1..QUEUE_LENGTH /\ i \in 1..(n - 1) /\ i + 1 <= n /\ i + 1 # 1
        BY <1>1, <1>2, <3>1
      <3>3. q[o][i + 1] = e
        BY <1>1, <3>1, <3>2
      <3> QED
        BY <1>4, <2>2, <3>2, <3>3
    <2> QED
      BY <2>1, <2>2
  <1>7. \A p \in U : /\ (IF p[1] = o THEN <<o, p[2] - 1>> ELSE p) \in T
                     /\ g[IF p[1] = o THEN <<o, p[2] - 1>> ELSE p] = p
    <2> TAKE p \in U
    <2>1. PICK a \in Object, i \in 1..QUEUE_LENGTH : p = <<a, i>>
      BY <1>3
    <2>2. IF a = o THEN <<o, i - 1>> \in T ELSE <<a, i>> \in T
      BY <1>5, <2>1
    <2>3. (i - 1) + 1 = i
      OBVIOUS
    <2> QED
      BY <2>1, <2>2, <2>3
  <1>8. \A p \in T : /\ (IF p[1] = o THEN <<o, p[2] + 1>> ELSE p) \in U
                     /\ f[IF p[1] = o THEN <<o, p[2] + 1>> ELSE p] = p
    <2> TAKE p \in T
    <2>1. PICK a \in Object, i \in 1..QUEUE_LENGTH : p = <<a, i>>
      BY <1>3
    <2>2. IF a = o THEN <<o, i + 1>> \in U ELSE <<a, i>> \in U
      BY <1>6, <2>1
    <2>3. (i + 1) - 1 = i
      OBVIOUS
    <2> QED
      BY <2>1, <2>2, <2>3
  <1>9. f \in [U -> T] /\ g \in [T -> U] /\ (\A p \in U : g[f[p]] = p) /\ (\A p \in T : f[g[p]] = p)
    BY <1>7, <1>8
  <1>10. IsFiniteSet(S) /\ Cardinality(S) \in Nat
    BY PositionsFinite DEF S
  <1>11. IsFiniteSet(U) /\ Cardinality(U) = IF <<o, 1>> \in S THEN Cardinality(S) - 1 ELSE Cardinality(S)
    BY <1>10, FS_RemoveElement
  <1>12. Cardinality(T) = Cardinality(U)
    <2> HIDE DEF f, g, U
    <2> QED
      BY <1>9, <1>11, Corresponding
  <1>13. <<o, 1>> \in S <=> Head(q[o]) = e
    BY <1>1, <1>2, <1>4
  <1>14. Cardinality(S) = Cardinality(T) + IF Head(q[o]) = e THEN 1 ELSE 0
    BY <1>10, <1>11, <1>12, <1>13
  <1> QED
    BY <1>14 DEF S, T

LEMMA PrependIs ==
  ASSUME NEW q \in Queues, Bounded(q), NEW o \in Object, Len(q[o]) # QUEUE_LENGTH,
         NEW x \in Event
  PROVE  Prepended(q, [q EXCEPT ![o] = <<x>> \o @], o, x)
  <1> DEFINE r == [q EXCEPT ![o] = <<x>> \o @]
             s == <<x>> \o q[o]
  <1>1. q[o] \in Seq(Event) /\ Len(q[o]) \in Nat /\ Len(q[o]) <= QUEUE_LENGTH /\ QUEUE_LENGTH \in Nat
    BY ConstantsAre DEF Queues, Bounded
  <1>2. r[o] = s /\ \A p \in Object : p # o => r[p] = q[p]
    BY DEF Queues
  <1>3. /\ s \in Seq(Event) /\ Len(s) = Len(q[o]) + 1 /\ s[1] = x
        /\ \A i \in 1..Len(q[o]) : s[i + 1] = q[o][i]
    <2>1. <<x>> \in Seq(Event) /\ Len(<<x>>) = 1 /\ <<x>>[1] = x
      OBVIOUS
    <2> QED
      BY <1>1, <2>1
  <1>4. s # <<>> /\ Head(s) = x /\ Tail(s) \in Seq(Event) /\ Len(Tail(s)) = Len(q[o])
    <2> HIDE DEF s
    <2> QED
      BY <1>1, <1>3
  <1>5. Tail(s) = q[o]
    <2> HIDE DEF s
    <2>1. \A i \in 1..Len(q[o]) : Tail(s)[i] = q[o][i]
      BY <1>1, <1>3, <1>4
    <2> QED
      BY <1>1, <1>4, <2>1, SeqEqual
  <1> HIDE DEF s
  <1>6. r \in Queues
    BY <1>3 DEF Queues, s
  <1>7. Bounded(r)
    BY <1>1, <1>2, <1>3 DEF Bounded
  <1> HIDE DEF r
  <1>8. [r EXCEPT ![o] = Tail(@)] = q
    BY <1>2, <1>5, <1>6 DEF Queues
  <1> QED
    BY <1>2, <1>3, <1>4, <1>6, <1>7, <1>8 DEF r, Prepended


LEMMA PrependCounts ==
  ASSUME NEW q \in Queues, Bounded(q), NEW o \in Object, Len(q[o]) # QUEUE_LENGTH,
         NEW x \in Event, NEW r, Prepended(q, r, o, x), NEW e
  PROVE  Cardinality(Positions(r, e)) = Cardinality(Positions(q, e)) + IF x = e THEN 1 ELSE 0
  <1>1. r \in Queues /\ Bounded(r) /\ r[o] # <<>> /\ Head(r[o]) = x
    BY DEF Prepended
  <1>2. Shortened(r, [r EXCEPT ![o] = Tail(@)], o)
    BY <1>1, TailIs
  <1>3. Shortened(r, q, o)
    BY <1>2, Zenon DEF Prepended
  <1> QED
    BY <1>1, <1>3, TailCounts

(* Which objects have an event in a queue, and how often. *)
LEMMA AppendIn ==
  ASSUME NEW q \in Queues, Bounded(q), NEW o \in Object, Len(q[o]) # QUEUE_LENGTH,
         NEW x \in Event, NEW r, Appended(q, r, o, x), NEW p \in Object, NEW b
  PROVE  /\ In(r, p, b) <=> In(q, p, b) \/ (p = o /\ b = x)
         /\ Once(q, p, b) /\ (p = o /\ b = x => ~In(q, p, b)) => Once(r, p, b)
  <1> DEFINE n == Len(q[o])
  <1>1. /\ r \in Queues /\ \A a \in Object : a # o => r[a] = q[a]
        /\ \A i \in 1..n : r[o][i] = q[o][i]
        /\ Len(r[o]) = n + 1 /\ r[o][n + 1] = x
    BY DEF Appended
  <1>2. DOMAIN r[o] = 1..(n + 1) /\ DOMAIN q[o] = 1..n /\ n \in Nat
    BY <1>1 DEF Queues
  <1>3. CASE p # o
    <2>1. r[p] = q[p]
      BY <1>1, <1>3
    <2> QED
      BY <1>3, <2>1 DEF In, Once
  <1>4. CASE p = o
    <2>1. In(r, o, b) <=> In(q, o, b) \/ b = x
      BY <1>1, <1>2 DEF In
    <2>2. ASSUME Once(q, o, b), b = x => ~In(q, o, b) PROVE Once(r, o, b)
      <3>1. \A i, j \in 1..(n + 1) : r[o][i] = b /\ r[o][j] = b => i = j
        <4> SUFFICES ASSUME NEW i \in 1..(n + 1), NEW j \in 1..(n + 1), r[o][i] = b, r[o][j] = b
                     PROVE  i = j
          OBVIOUS
        <4>1. i \in 1..n => q[o][i] = b
          BY <1>1
        <4>2. j \in 1..n => q[o][j] = b
          BY <1>1
        <4>3. (i = n + 1 \/ j = n + 1) => b = x
          BY <1>1
        <4>4. i \in 1..n \/ i = n + 1
          BY <1>2
        <4>5. j \in 1..n \/ j = n + 1
          BY <1>2
        <4> QED
          BY <1>2, <2>2, <4>1, <4>2, <4>3, <4>4, <4>5 DEF In, Once
      <3> QED
        BY <1>2, <3>1 DEF Once
    <2> QED
      BY <1>4, <2>1, <2>2
  <1> QED
    BY <1>3, <1>4

LEMMA TailIn ==
  ASSUME NEW q \in Queues, Bounded(q), NEW o \in Object, q[o] # <<>>,
         NEW r, Shortened(q, r, o), NEW p \in Object, NEW b
  PROVE  /\ In(q, p, b) <=> In(r, p, b) \/ (p = o /\ b = Head(q[o]))
         /\ Once(q, p, b) => /\ Once(r, p, b)
                             /\ p = o /\ b = Head(q[o]) => ~In(r, p, b)
  <1> DEFINE n == Len(q[o])
  <1>1. /\ r \in Queues /\ \A a \in Object : a # o => r[a] = q[a]
        /\ n \in Nat \ {0} /\ Len(r[o]) = n - 1
        /\ \A i \in 1..(n - 1) : r[o][i] = q[o][i + 1]
        /\ q[o][1] = Head(q[o])
    BY DEF Shortened
  <1>2. DOMAIN r[o] = 1..(n - 1) /\ DOMAIN q[o] = 1..n
    BY <1>1 DEF Queues
  <1>3. CASE p # o
    <2>1. r[p] = q[p]
      BY <1>1, <1>3
    <2> QED
      BY <1>3, <2>1 DEF In, Once
  <1>4. CASE p = o
    <2>1. ASSUME In(q, o, b) PROVE In(r, o, b) \/ b = Head(q[o])
      <3>1. PICK i \in 1..n : q[o][i] = b
        BY <1>2, <2>1 DEF In
      <3>2. CASE i = 1
        BY <1>1, <3>1, <3>2
      <3>3. CASE i # 1
        <4>1. i - 1 \in 1..(n - 1) /\ (i - 1) + 1 = i
          BY <1>1, <3>3
        <4>2. r[o][i - 1] = b
          BY <1>1, <3>1, <4>1
        <4> QED
          BY <1>2, <4>1, <4>2 DEF In
      <3> QED
        BY <3>2, <3>3
    <2>2. ASSUME In(r, o, b) PROVE \E i \in 1..n : i # 1 /\ q[o][i] = b
      <3>1. PICK i \in 1..(n - 1) : r[o][i] = b
        BY <1>2, <2>2 DEF In
      <3>2. i + 1 \in 1..n /\ i + 1 # 1 /\ q[o][i + 1] = b
        BY <1>1, <3>1
      <3> QED
        BY <3>2
    <2>3. b = Head(q[o]) => 1 \in 1..n /\ q[o][1] = b
      BY <1>1
    <2>4. In(q, o, b) <=> In(r, o, b) \/ b = Head(q[o])
      BY <1>2, <2>1, <2>2, <2>3 DEF In
    <2>5. ASSUME Once(q, o, b) PROVE Once(r, o, b)
      <3> SUFFICES ASSUME NEW i \in 1..(n - 1), NEW j \in 1..(n - 1), r[o][i] = b, r[o][j] = b
                   PROVE  i = j
        BY <1>2 DEF Once
      <3>1. /\ i + 1 \in 1..n /\ j + 1 \in 1..n
            /\ q[o][i + 1] = b /\ q[o][j + 1] = b
        BY <1>1
      <3>2. i + 1 = j + 1
        BY <1>2, <2>5, <3>1 DEF Once
      <3> QED
        BY <3>2
    <2>6. ASSUME Once(q, o, b), b = Head(q[o]) PROVE ~In(r, o, b)
      BY <1>2, <2>2, <2>3, <2>6 DEF Once
    <2> QED
      BY <1>4, <2>4, <2>5, <2>6
  <1> QED
    BY <1>3, <1>4

LEMMA PrependIn ==
  ASSUME NEW q \in Queues, Bounded(q), NEW o \in Object, Len(q[o]) # QUEUE_LENGTH,
         NEW x \in Event, NEW r, Prepended(q, r, o, x), NEW p \in Object, NEW b
  PROVE  /\ In(r, p, b) <=> In(q, p, b) \/ (p = o /\ b = x)
         /\ Once(q, p, b) /\ (p = o /\ b = x => ~In(q, p, b)) => Once(r, p, b)
  <1> DEFINE n == Len(q[o])
  <1>1. /\ r \in Queues /\ \A a \in Object : a # o => r[a] = q[a]
        /\ Len(r[o]) = n + 1 /\ r[o][1] = x
        /\ \A i \in 1..n : r[o][i + 1] = q[o][i]
    BY DEF Prepended
  <1>2. DOMAIN r[o] = 1..(n + 1) /\ DOMAIN q[o] = 1..n /\ n \in Nat
    BY <1>1 DEF Queues
  <1>3. CASE p # o
    <2>1. r[p] = q[p]
      BY <1>1, <1>3
    <2> QED
      BY <1>3, <2>1 DEF In, Once
  <1>4. CASE p = o
    <2>1. ASSUME NEW i \in 1..(n + 1), r[o][i] = b
          PROVE  (i = 1 /\ b = x) \/ (i - 1 \in 1..n /\ q[o][i - 1] = b)
      <3>1. CASE i = 1
        BY <1>1, <2>1, <3>1
      <3>2. CASE i # 1
        <4>1. i - 1 \in 1..n /\ (i - 1) + 1 = i
          BY <1>2, <3>2
        <4>2. r[o][(i - 1) + 1] = q[o][i - 1]
          BY <1>1, <4>1
        <4> QED
          BY <2>1, <4>1, <4>2
      <3> QED
        BY <3>1, <3>2
    <2>2. ASSUME NEW i \in 1..n, q[o][i] = b PROVE i + 1 \in 1..(n + 1) /\ r[o][i + 1] = b
      BY <1>1, <1>2, <2>2
    <2>3. 1 \in 1..(n + 1)
      BY <1>2
    <2>4. In(r, o, b) <=> In(q, o, b) \/ b = x
      BY <1>1, <1>2, <2>1, <2>2, <2>3 DEF In
    <2>5. ASSUME Once(q, o, b), b = x => ~In(q, o, b) PROVE Once(r, o, b)
      <3> SUFFICES ASSUME NEW i \in 1..(n + 1), NEW j \in 1..(n + 1), r[o][i] = b, r[o][j] = b
                   PROVE  i = j
        BY <1>2 DEF Once
      <3>1. (i = 1 /\ b = x) \/ (i - 1 \in 1..n /\ q[o][i - 1] = b)
        BY <2>1
      <3>2. (j = 1 /\ b = x) \/ (j - 1 \in 1..n /\ q[o][j - 1] = b)
        BY <2>1
      <3>3. CASE b = x
        <4>1. \A k \in 1..n : q[o][k] # b
          BY <1>2, <2>5, <3>3 DEF In
        <4> QED
          BY <3>1, <3>2, <4>1
      <3>4. CASE b # x
        <4>1. i - 1 = j - 1
          BY <1>2, <2>5, <3>1, <3>2, <3>4 DEF Once
        <4> QED
          BY <4>1
      <3> QED
        BY <3>3, <3>4
    <2> QED
      BY <1>4, <2>4, <2>5
  <1> QED
    BY <1>3, <1>4

(* Nothing is in no queue, and what is in a queue once per object is in as many places *)
(* as objects have it.                                                                 *)
LEMMA NoPositions ==
  ASSUME NEW q \in Queues, Bounded(q), NEW e
  PROVE  Cardinality(Positions(q, e)) = 0 <=> \A o \in Object : ~In(q, o, e)
  <1>1. Positions(q, e) = {} <=> \A o \in Object : ~In(q, o, e)
    <2>1. /\ \A p \in Positions(q, e) : \E o \in Object, i \in 1..QUEUE_LENGTH : p = <<o, i>>
          /\ \A o \in Object :
               In(q, o, e) <=> \E i \in 1..QUEUE_LENGTH : <<o, i>> \in Positions(q, e)
      BY PositionsAre
    <2> QED
      BY <2>1
  <1> DEFINE S == Positions(q, e)
  <1>2. IsFiniteSet(S)
    BY PositionsFinite
  <1>3. Cardinality(S) = 0 <=> S = {}
    <2> HIDE DEF S
    <2> QED
      BY <1>2, FS_EmptySet
  <1> QED
    BY <1>1, <1>3

Having(q, e) == {o \in Object : In(q, o, e)}

LEMMA OnceCounts ==
  ASSUME NEW q \in Queues, Bounded(q), NEW e, \A o \in Object : Once(q, o, e)
  PROVE  Cardinality(Positions(q, e)) = Cardinality(Having(q, e))
  <1> DEFINE S == Positions(q, e)
             T == Having(q, e)
             At(o) == CHOOSE i \in 1..QUEUE_LENGTH : <<o, i>> \in S
             f == [p \in S |-> p[1]]
             g == [o \in T |-> <<o, At(o)>>]
  <1>1. /\ \A p \in S : \E o \in Object, i \in 1..QUEUE_LENGTH :
             p = <<o, i>> /\ i <= Len(q[o]) /\ q[o][i] = e
        /\ \A o \in Object : In(q, o, e) <=> \E i \in 1..QUEUE_LENGTH : <<o, i>> \in S
        /\ \A o \in Object, i \in 1..QUEUE_LENGTH :
             <<o, i>> \in S <=> i <= Len(q[o]) /\ q[o][i] = e
    BY PositionsAre
  <1> HIDE DEF S
  <1>2. \A o \in Object, i, j \in 1..QUEUE_LENGTH :
          <<o, i>> \in S /\ <<o, j>> \in S => i = j
    <2> SUFFICES ASSUME NEW o \in Object, NEW i \in 1..QUEUE_LENGTH, NEW j \in 1..QUEUE_LENGTH,
                        <<o, i>> \in S, <<o, j>> \in S
                 PROVE  i = j
      OBVIOUS
    <2>1. i <= Len(q[o]) /\ q[o][i] = e /\ j <= Len(q[o]) /\ q[o][j] = e
      BY <1>1
    <2>2. i \in DOMAIN q[o] /\ j \in DOMAIN q[o]
      BY <2>1 DEF Queues
    <2> QED
      BY <2>1, <2>2 DEF Once
  <1>3. \A o \in T : At(o) \in 1..QUEUE_LENGTH /\ <<o, At(o)>> \in S
    BY <1>1 DEF Having
  <1>4. \A p \in S : \E o \in Object, i \in 1..QUEUE_LENGTH : p = <<o, i>> /\ o \in T
    BY <1>1 DEF Having
  <1> HIDE DEF At, T
  <1>5. \A p \in S : p[1] \in T /\ p = <<p[1], At(p[1])>>
    <2> TAKE p \in S
    <2>1. PICK o \in Object, i \in 1..QUEUE_LENGTH : p = <<o, i>> /\ o \in T
      BY <1>4
    <2>2. At(o) = i
      BY <1>2, <1>3, <2>1
    <2> QED
      BY <2>1, <2>2
  <1>6. f \in [S -> T] /\ g \in [T -> S]
    BY <1>3, <1>5
  <1>7. \A p \in S : g[f[p]] = p
    BY <1>5
  <1>8. \A o \in T : f[g[o]] = o
    BY <1>3
  <1>9. IsFiniteSet(S)
    BY PositionsFinite DEF S
  <1>10. Cardinality(T) = Cardinality(S)
    <2> HIDE DEF f, g
    <2> QED
      BY <1>6, <1>7, <1>8, <1>9, Corresponding
  <1> QED
    BY <1>10 DEF S, T


-----------------------------------------------------------------------------
(* The limit: in how many places the objects can have a block. *)

LEMMA TypesOfQueues ==
  ASSUME TypeOK
  PROVE  queue \in Queues /\ Bounded(queue) /\ deferred \in Queues /\ Bounded(deferred)
  BY DEF TypeOK, Queues, Bounded

LEMMA HandsFinite ==
  ASSUME NEW b
  PROVE  /\ IsFiniteSet(InHand(b)) /\ Cardinality(InHand(b)) \in Nat
         /\ IsFiniteSet(Dispatching(b)) /\ Cardinality(Dispatching(b)) \in Nat
  <1>1. InHand(b) \in SUBSET Actor /\ Dispatching(b) \in SUBSET Object
    BY DEF InHand, Dispatching
  <1> QED
    BY <1>1, ConstantsAre, FS_Subset, FS_CardinalityType

LEMMA HoldersType ==
  ASSUME TypeOK, NEW b
  PROVE  /\ Cardinality(InHand(b)) \in Nat /\ Cardinality(Dispatching(b)) \in Nat
         /\ Cardinality(Positions(queue, b)) \in Nat
         /\ Cardinality(Positions(deferred, b)) \in Nat
         /\ Holders(b) \in Nat
  BY HandsFinite, PositionsFinite, TypesOfQueues DEF Holders

(* Sets of objects have as many elements as there are objects at most, and fewer when *)
(* one is missing.                                                                    *)
LEMMA ObjectsBound ==
  ASSUME NEW S \in SUBSET Object
  PROVE  /\ IsFiniteSet(S) /\ Cardinality(S) \in Nat /\ Cardinality(S) <= MAX_ACTIVE_OBJECT
         /\ \A o \in Object : o \notin S => Cardinality(S) <= MAX_ACTIVE_OBJECT - 1
  <1>1. /\ IsFiniteSet(Object) /\ Cardinality(Object) \in Nat
        /\ Cardinality(Object) <= MAX_ACTIVE_OBJECT /\ MAX_ACTIVE_OBJECT \in Nat
    BY ConstantsAre
  <1>2. IsFiniteSet(S) /\ Cardinality(S) \in Nat /\ Cardinality(S) <= Cardinality(Object)
    BY <1>1, FS_Subset, FS_CardinalityType
  <1>3. ASSUME NEW o \in Object, o \notin S PROVE Cardinality(S) <= MAX_ACTIVE_OBJECT - 1
    <2>1. IsFiniteSet(S \cup {o}) /\ Cardinality(S \cup {o}) = Cardinality(S) + 1
      BY <1>2, <1>3, FS_AddElement
    <2>2. S \cup {o} \in SUBSET Object
      OBVIOUS
    <2>3. Cardinality(S \cup {o}) <= Cardinality(Object)
      BY <1>1, <2>2, FS_Subset
    <2> QED
      BY <1>1, <1>2, <2>1, <2>3
  <1> QED
    BY <1>1, <1>2, <1>3

LEMMA Disjoint ==
  ASSUME NEW S, NEW T, IsFiniteSet(S), IsFiniteSet(T), S \cap T = {}
  PROVE  Cardinality(S \cup T) = Cardinality(S) + Cardinality(T)
  <1>1. Cardinality(S \cup T) = Cardinality(S) + Cardinality(T) - Cardinality(S \cap T)
    BY FS_Union
  <1>2. Cardinality(S \cap T) = 0
    BY FS_EmptySet
  <1>3. Cardinality(S) \in Nat /\ Cardinality(T) \in Nat
    BY FS_CardinalityType
  <1> QED
    BY <1>1, <1>2, <1>3

(* Each object has a block in hand or deferred, and queued, dispatched or both in hand *)
(* and deferred: twice at most.  One that lacks either kind leaves room for another.   *)
LEMMA ObjectsWithinLimit ==
  ASSUME TypeOK, KeptTwice, NEW b \in Block, \A x \in Outsider : work[x] # b,
         NEW o \in Object,
         \/ work[o] # b /\ ~In(deferred, o, b)
         \/ current[o] # b /\ ~In(queue, o, b) /\ ~In(deferred, o, b)
  PROVE  Holders(b) < REF_LIMIT
  <1> DEFINE W == InHand(b)
             C == Dispatching(b)
             Q == Having(queue, b)
             D == Having(deferred, b)
             Second == (W \cap D) \cup (C \cup Q)
  <1>1. W \in SUBSET Object /\ C \in SUBSET Object /\ Q \in SUBSET Object /\ D \in SUBSET Object
    BY DEF InHand, Dispatching, Having, Actor
  <1>2. /\ \A p \in Object : Once(queue, p, b) /\ Once(deferred, p, b)
        /\ C \cap Q = {} /\ (W \cap D) \cap (C \cup Q) = {}
    BY DEF KeptTwice, InHand, Dispatching, Having
  <1>3. (o \notin W \cup D) \/ (o \notin Second)
    BY DEF InHand, Dispatching, Having
  <1>4. Cardinality(Positions(queue, b)) = Cardinality(Q)
        /\ Cardinality(Positions(deferred, b)) = Cardinality(D)
    BY <1>2, TypesOfQueues, OnceCounts
  <1> HIDE DEF W, C, Q, D
  <1>5. /\ IsFiniteSet(W) /\ IsFiniteSet(C) /\ IsFiniteSet(Q) /\ IsFiniteSet(D)
        /\ Cardinality(W) \in Nat /\ Cardinality(C) \in Nat
        /\ Cardinality(Q) \in Nat /\ Cardinality(D) \in Nat
    BY <1>1, ObjectsBound
  <1>6. W \cap D \in SUBSET Object /\ C \cup Q \in SUBSET Object /\ W \cup D \in SUBSET Object
        /\ Second \in SUBSET Object
    BY <1>1
  <1>7. /\ IsFiniteSet(W \cap D) /\ IsFiniteSet(C \cup Q)
        /\ Cardinality(W \cap D) \in Nat /\ Cardinality(W \cup D) \in Nat
        /\ Cardinality(C \cup Q) \in Nat /\ Cardinality(Second) \in Nat
    BY <1>6, ObjectsBound
  <1>8. Cardinality(W \cup D) = Cardinality(W) + Cardinality(D) - Cardinality(W \cap D)
    BY <1>5, FS_Union
  <1>9. Cardinality(C \cup Q) = Cardinality(C) + Cardinality(Q)
    BY <1>2, <1>5, Disjoint
  <1>10. Cardinality(Second) = Cardinality(W \cap D) + Cardinality(C \cup Q)
    BY <1>2, <1>7, Disjoint
  <1>11. /\ Cardinality(W \cup D) <= MAX_ACTIVE_OBJECT /\ Cardinality(Second) <= MAX_ACTIVE_OBJECT
         /\ \/ Cardinality(W \cup D) <= MAX_ACTIVE_OBJECT - 1
            \/ Cardinality(Second) <= MAX_ACTIVE_OBJECT - 1
    BY <1>3, <1>6, ObjectsBound
  <1>12. Holders(b) = Cardinality(W) + Cardinality(C) + Cardinality(Q) + Cardinality(D)
    BY <1>4 DEF Holders, W, C
  <1> HIDE DEF Second
  <1> QED
    BY <1>5, <1>7, <1>8, <1>9, <1>10, <1>11, <1>12, ConstantsAre DEF REF_LIMIT

(* An interrupt's block is only queued, as no object has run since it was published. *)
LEMMA OutsiderWithinLimit ==
  ASSUME TypeOK, KeptTwice, NEW b \in Block, NEW x \in Outsider,
         \A y \in Outsider : work[y] = b => y = x,
         \A p \in Object : work[p] # b /\ current[p] # b /\ ~In(deferred, p, b),
         NEW o \in Object, ~In(queue, o, b)
  PROVE  Holders(b) < REF_LIMIT
  <1> DEFINE Q == Having(queue, b)
  <1>1. \A p \in Object : Once(queue, p, b)
    BY DEF KeptTwice
  <1>2. Cardinality(Positions(queue, b)) = Cardinality(Q)
    BY <1>1, TypesOfQueues, OnceCounts
  <1>3. Cardinality(Positions(deferred, b)) = 0
    BY TypesOfQueues, NoPositions
  <1>4. Cardinality(Dispatching(b)) = 0
    <2>1. Dispatching(b) = {}
      BY DEF Dispatching
    <2> QED
      BY <2>1, FS_EmptySet
  <1>5. Cardinality(InHand(b)) \in Nat /\ Cardinality(InHand(b)) <= 1
    <2>1. InHand(b) \in SUBSET {x}
      BY DEF InHand, Actor
    <2>2. IsFiniteSet({x}) /\ Cardinality({x}) = 1
      BY FS_Singleton
    <2>3. Cardinality(InHand(b)) <= 1
      BY <2>1, <2>2, FS_Subset
    <2> QED
      BY <2>3, HandsFinite
  <1>6. Q \in SUBSET Object /\ o \notin Q
    BY DEF Having
  <1>7. Cardinality(Q) \in Nat /\ Cardinality(Q) <= MAX_ACTIVE_OBJECT - 1
    BY <1>6, ObjectsBound
  <1> QED
    BY <1>2, <1>3, <1>4, <1>5, <1>7, ConstantsAre DEF Holders, REF_LIMIT

(* A block nobody has is not counted. *)
LEMMA UnheldIsZero ==
  ASSUME TypeOK, NEW b \in Block
  PROVE  Holders(b) = 0 <=> (\A o \in Object : ~Keeps(o, b)) /\ InHand(b) = {}
  <1>1. /\ Cardinality(Positions(queue, b)) = 0 <=> \A o \in Object : ~In(queue, o, b)
        /\ Cardinality(Positions(deferred, b)) = 0 <=> \A o \in Object : ~In(deferred, o, b)
    BY TypesOfQueues, NoPositions
  <1>2. Cardinality(Dispatching(b)) = 0 <=> \A o \in Object : current[o] # b
    <2>1. Dispatching(b) = {} <=> \A o \in Object : current[o] # b
      BY DEF Dispatching
    <2> QED
      BY <2>1, HandsFinite, FS_EmptySet
  <1>3. Cardinality(InHand(b)) = 0 <=> InHand(b) = {}
    BY HandsFinite, FS_EmptySet
  <1>4. Holders(b) = 0 <=> /\ Cardinality(InHand(b)) = 0 /\ Cardinality(Dispatching(b)) = 0
                           /\ Cardinality(Positions(queue, b)) = 0
                           /\ Cardinality(Positions(deferred, b)) = 0
    BY HoldersType DEF Holders
  <1> QED
    BY <1>1, <1>2, <1>3, <1>4, Zenon DEF Keeps


-----------------------------------------------------------------------------
(* The steps. *)

(* Who moves changes only what it has in hand itself. *)
Moves(a) == \A x \in Actor : x # a => pc'[x] = pc[x] /\ work'[x] = work[x]

LEMMA HandCounts ==
  ASSUME NEW a \in Actor, Moves(a), NEW b
  PROVE  /\ Cardinality(InHand(b))'
              = (Cardinality(InHand(b)) + (IF a \in InHand(b)' THEN 1 ELSE 0))
                  - (IF a \in InHand(b) THEN 1 ELSE 0)
         /\ Cardinality(InHand(b))' \in Nat
  <1> DEFINE S == InHand(b)
             T == InHand(b)'
  <1>1. S \in SUBSET Actor /\ T \in SUBSET Actor
    BY DEF InHand
  <1>2. S \ {a} = T \ {a}
    BY DEF InHand, Moves
  <1> HIDE DEF S, T
  <1>3. /\ Cardinality(S) \in Nat /\ Cardinality(T) \in Nat
        /\ Cardinality(T) = (Cardinality(S) + (IF a \in T THEN 1 ELSE 0))
                              - (IF a \in S THEN 1 ELSE 0)
    <2>1. IsFiniteSet(Actor)
      BY ConstantsAre
    <2>2. /\ Cardinality(S) \in Nat /\ Cardinality(T) \in Nat
          /\ a \in S /\ a \in T => Cardinality(T) = Cardinality(S)
          /\ a \notin S /\ a \notin T => Cardinality(T) = Cardinality(S)
          /\ a \notin S /\ a \in T => Cardinality(T) = Cardinality(S) + 1
          /\ a \in S /\ a \notin T => Cardinality(T) = Cardinality(S) - 1
      BY <1>1, <1>2, <2>1, OneDiffers
    <2> QED
      BY <2>2
  <1> QED
    BY <1>3 DEF S, T

LEMMA DispatchCounts ==
  ASSUME NEW o \in Object, \A p \in Object : p # o => current'[p] = current[p], NEW b
  PROVE  /\ Cardinality(Dispatching(b))'
              = (Cardinality(Dispatching(b)) + (IF current'[o] = b THEN 1 ELSE 0))
                  - (IF current[o] = b THEN 1 ELSE 0)
         /\ Cardinality(Dispatching(b))' \in Nat
  <1> DEFINE S == Dispatching(b)
             T == Dispatching(b)'
  <1>1. S \in SUBSET Object /\ T \in SUBSET Object
    BY DEF Dispatching
  <1>2. S \ {o} = T \ {o}
    BY DEF Dispatching
  <1>3. (o \in S <=> current[o] = b) /\ (o \in T <=> current'[o] = b)
    BY DEF Dispatching
  <1> HIDE DEF S, T
  <1>4. /\ Cardinality(S) \in Nat /\ Cardinality(T) \in Nat
        /\ Cardinality(T) = (Cardinality(S) + (IF o \in T THEN 1 ELSE 0))
                              - (IF o \in S THEN 1 ELSE 0)
    <2>1. IsFiniteSet(Object)
      BY ConstantsAre
    <2>2. /\ Cardinality(S) \in Nat /\ Cardinality(T) \in Nat
          /\ o \in S /\ o \in T => Cardinality(T) = Cardinality(S)
          /\ o \notin S /\ o \notin T => Cardinality(T) = Cardinality(S)
          /\ o \notin S /\ o \in T => Cardinality(T) = Cardinality(S) + 1
          /\ o \in S /\ o \notin T => Cardinality(T) = Cardinality(S) - 1
      BY <1>1, <1>2, <2>1, OneDiffers
    <2> QED
      BY <2>2
  <1>5. Cardinality(T) = (Cardinality(S) + (IF current'[o] = b THEN 1 ELSE 0))
                              - (IF current[o] = b THEN 1 ELSE 0)
    BY <1>3, <1>4
  <1> QED
    BY <1>4, <1>5 DEF S, T

LEMMA InitLifeInv == Init => LifeInv
  <1> SUFFICES ASSUME Init PROVE LifeInv
    OBVIOUS
  <1>1. /\ free = Block /\ \A b \in Block : ref[b] = 0
        /\ \A o \in Object : queue[o] = <<>> /\ deferred[o] = <<>> /\ current[o] = NONE
        /\ \A a \in Actor : pc[a] = "idle" /\ work[a] = NONE
    BY DEF Init
  <1>2. TypeOK
    <2>1. <<>> \in Seq(Event) /\ Len(<<>>) = 0
      OBVIOUS
    <2>2. queue \in [Object -> Seq(Event)] /\ deferred \in [Object -> Seq(Event)]
      BY <2>1 DEF Init
    <2> QED
      BY <1>1, <2>1, <2>2, ConstantsAre DEF Init, TypeOK
  <1>3. \A o \in Object : \A b : /\ ~In(queue, o, b) /\ ~In(deferred, o, b)
                                /\ Once(queue, o, b) /\ Once(deferred, o, b)
    BY <1>1 DEF In, Once
  <1>4. \A o \in Object, b \in Block : ~Keeps(o, b)
    BY <1>1, <1>3, ConstantsAre DEF Keeps, Event
  <1>5. Positioned /\ RecallIsQueued /\ OnePublisher /\ ComesOnce
    BY <1>1, <1>4, ConstantsAre DEF Positioned, RecallIsQueued, OnePublisher, ComesOnce, Event
  <1>6. FreshIsAlone /\ FreeIsUnheld /\ OutsidersOwn
    BY <1>1, <1>4, ConstantsAre DEF FreshIsAlone, FreeIsUnheld, OutsidersOwn, Event
  <1>7. KeptTwice
    BY <1>1, <1>3, <1>4, ConstantsAre DEF KeptTwice, Event
  <1>8. RefCountsHolders /\ NoBlockLeaks
    BY <1>1 DEF RefCountsHolders, NoBlockLeaks
  <1> QED
    BY <1>2, <1>5, <1>6, <1>7, <1>8 DEF LifeInv

Reasons == {"pool", "queue", "limit", "recall", "release"}

(* A step that moves no event. *)
LEMMA QuietKeepsLifeInv ==
  ASSUME LifeInv, UNCHANGED <<free, ref, queue, deferred, current, pc, work, subs>>,
         list' \subseteq Object, failed' \in {"no"} \cup Reasons
  PROVE  LifeInv'
  <1>1. TypeOK'
    BY DEF LifeInv, TypeOK, Reasons
  <1>2. \A b \in Block : Holders(b)' = Holders(b)
    BY DEF Holders, InHand, Dispatching
  <1>3. RefCountsHolders' /\ NoBlockLeaks'
    BY <1>2 DEF LifeInv, RefCountsHolders, NoBlockLeaks
  <1>4. (Positioned /\ RecallIsQueued /\ OnePublisher)'
    BY DEF LifeInv, Positioned, RecallIsQueued, OnePublisher
  <1>5. (FreshIsAlone /\ FreeIsUnheld /\ OutsidersOwn /\ KeptTwice /\ ComesOnce)'
    BY DEF LifeInv, FreshIsAlone, FreeIsUnheld, OutsidersOwn, KeptTwice, ComesOnce, Keeps
  <1> QED
    BY <1>1, <1>3, <1>4, <1>5 DEF LifeInv

LEMMA FailKeepsLifeInv ==
  ASSUME LifeInv, NEW reason \in Reasons, Fail(reason)
  PROVE  LifeInv'
  <1>1. list' \subseteq Object /\ failed' \in {"no"} \cup Reasons
    BY DEF LifeInv, TypeOK, Fail
  <1> QED
    BY <1>1, QuietKeepsLifeInv DEF Fail

LEMMA SubscribersKeepLifeInv ==
  ASSUME LifeInv, NEW o \in Object, Subscribe(o) \/ Unsubscribe(o)
  PROVE  LifeInv'
  <1>1. list' \subseteq Object /\ failed' \in {"no"} \cup Reasons
    BY DEF LifeInv, TypeOK, Subscribe, Unsubscribe, Reasons
  <1>2. UNCHANGED <<free, ref, queue, deferred, current, pc, work, subs>>
    BY DEF Subscribe, Unsubscribe
  <1> QED
    BY <1>1, <1>2, QuietKeepsLifeInv


-----------------------------------------------------------------------------
(* Allocation and publication. *)

(* What the types say of one actor. *)
LEMMA ActorIs ==
  ASSUME LifeInv, NEW a \in Actor
  PROVE  /\ work[a] = NONE <=> pc[a] \in {"idle", "handling"}
         /\ work[a] \in Event \cup {NONE} /\ work[a] \notin free /\ NONE \notin Event
         /\ a \in Object => /\ a \notin Outsider
                            /\ pc[a] = "idle" => current[a] = NONE
                            /\ pc[a] \in {"handling", "recall", "recalled"} => current[a] # NONE
         /\ a \notin Object => a \in Outsider
         /\ pc[a] \in {"recall", "recalled"} => a \in Object
         /\ pc[a] = "release" => work[a] \in Block
  BY ConstantsAre DEF LifeInv, TypeOK, Positioned, Actor

LEMMA AllocateKeepsLifeInv ==
  ASSUME LifeInv, NEW a \in Actor, Allocate(a)
  PROVE  LifeInv'
  <1>1. CASE free = {}
    BY <1>1, FailKeepsLifeInv DEF Allocate, Reasons
  <1>2. CASE free # {}
    <2>1. PICK b \in Block :
            /\ b \in free /\ free' = free \ {b}
            /\ ref' = [ref EXCEPT ![b] = 0]
            /\ work' = [work EXCEPT ![a] = b]
            /\ pc' = [pc EXCEPT ![a] = "publish"]
            /\ UNCHANGED <<queue, deferred, current, subs, list, failed>>
      BY <1>2 DEF Allocate, Acquire, Goto
    <2>2. pc[a] \in {"idle", "handling"} /\ work[a] = NONE
      BY ActorIs DEF Allocate, InHandler
    <2>3. /\ work'[a] = b /\ pc'[a] = "publish" /\ Moves(a)
          /\ b \in Event /\ b # NONE /\ NONE \notin Block
      BY <2>1, ConstantsAre DEF LifeInv, TypeOK, Moves, Event
    <2>4. TypeOK'
      BY <2>1, <2>3 DEF LifeInv, TypeOK
    <2>5. \A c \in Block, o \in Object : Keeps(o, c)' <=> Keeps(o, c)
      BY <2>1 DEF Keeps
    <2>6. (\A o \in Object : ~Keeps(o, b)) /\ (\A x \in Actor : work[x] # b)
      BY <2>1 DEF LifeInv, FreeIsUnheld
    <2>7. \A c \in Block : Holders(c)' = Holders(c)
      <3> TAKE c \in Block
      <3>1. a \notin InHand(c) /\ a \notin InHand(c)'
        BY <2>2, <2>3 DEF InHand
      <3>2. InHand(c)' = InHand(c)
        BY <3>1, <2>3 DEF InHand, Moves
      <3> QED
        BY <2>1, <3>2 DEF Holders, Dispatching
    <2>8. Holders(b) = 0
      BY <2>6, UnheldIsZero DEF LifeInv, InHand
    <2>9. RefCountsHolders' /\ NoBlockLeaks'
      <3>1. \A c \in Block : c # b => ref'[c] = ref[c]
        BY <2>1 DEF LifeInv, TypeOK
      <3>2. ref'[b] = 0
        BY <2>1 DEF LifeInv, TypeOK
      <3>3. \A x \in Actor : x # a => work'[x] = work[x]
        BY <2>3 DEF Moves
      <3> QED
        BY <2>1, <2>2, <2>3, <2>7, <2>8, <3>1, <3>2, <3>3 DEF LifeInv, RefCountsHolders, NoBlockLeaks
    <2>10. (Positioned /\ FreshIsAlone /\ FreeIsUnheld)'
      <3>1. Positioned'
        BY <2>1, <2>2, <2>3, ConstantsAre DEF LifeInv, Positioned, Moves, Actor
      <3>2. FreeIsUnheld'
        BY <2>1, <2>3, <2>5 DEF LifeInv, FreeIsUnheld, Moves, TypeOK
      <3>3. FreshIsAlone'
        BY <2>1, <2>3, <2>5, <2>6 DEF LifeInv, FreshIsAlone, Moves
      <3> QED
        BY <3>1, <3>2, <3>3
    <2>11. (ComesOnce /\ OnePublisher /\ RecallIsQueued)'
      BY <2>1, <2>2, <2>3, <2>5, <2>6, ConstantsAre
      DEF LifeInv, ComesOnce, OnePublisher, RecallIsQueued, Moves
    <2>12. (KeptTwice /\ OutsidersOwn)'
      BY <2>1, <2>2, <2>3, <2>5, <2>6, ConstantsAre
      DEF LifeInv, KeptTwice, OutsidersOwn, Moves, Keeps
    <2> QED
      BY <2>4, <2>9, <2>10, <2>11, <2>12 DEF LifeInv
  <1> QED
    BY <1>1, <1>2


(* The publication of an immutable event, which is not counted. *)
LEMMA PublishStaticKeepsLifeInv ==
  ASSUME LifeInv, NEW a \in Actor, PublishStatic(a)
  PROVE  LifeInv'
  <1>1. PICK e \in Static :
          /\ work' = [work EXCEPT ![a] = e]
          /\ pc' = [pc EXCEPT ![a] = "publish"]
          /\ UNCHANGED <<free, ref, queue, deferred, current, subs, list, failed>>
    BY DEF PublishStatic, Goto
  <1>2. pc[a] \in {"idle", "handling"} /\ work[a] = NONE
    BY ActorIs DEF PublishStatic, InHandler
  <1>3. /\ work'[a] = e /\ pc'[a] = "publish" /\ Moves(a)
        /\ e \in Event /\ e # NONE /\ e \notin Block /\ NONE \notin Block
    BY <1>1, ConstantsAre, LifecycleAssumption DEF LifeInv, TypeOK, Moves, Event
  <1>4. TypeOK'
    BY <1>1, <1>3 DEF LifeInv, TypeOK
  <1>5. \A c \in Block, o \in Object : Keeps(o, c)' <=> Keeps(o, c)
    BY <1>1 DEF Keeps
  <1>6. \A c \in Block : Holders(c)' = Holders(c)
    <2> TAKE c \in Block
    <2>1. a \notin InHand(c) /\ a \notin InHand(c)'
      BY <1>2, <1>3 DEF InHand
    <2>2. InHand(c)' = InHand(c)
      BY <2>1, <1>3 DEF InHand, Moves
    <2> QED
      BY <1>1, <2>2 DEF Holders, Dispatching
  <1>7. RefCountsHolders' /\ NoBlockLeaks'
    BY <1>1, <1>2, <1>3, <1>6 DEF LifeInv, RefCountsHolders, NoBlockLeaks, Moves
  <1>8. Positioned'
    BY <1>1, <1>2, <1>3, ConstantsAre DEF LifeInv, Positioned, Moves, Actor, TypeOK
  <1>9. FreeIsUnheld'
    BY <1>1, <1>3, <1>5 DEF LifeInv, FreeIsUnheld, Moves, TypeOK
  <1>10. FreshIsAlone'
    BY <1>1, <1>3, <1>5 DEF LifeInv, FreshIsAlone, Moves
  <1>11. ComesOnce' /\ OnePublisher' /\ RecallIsQueued'
    BY <1>1, <1>2, <1>3, <1>5, ConstantsAre
    DEF LifeInv, ComesOnce, OnePublisher, RecallIsQueued, Moves
  <1>12. KeptTwice' /\ OutsidersOwn'
    BY <1>1, <1>2, <1>3, <1>5, ConstantsAre DEF LifeInv, KeptTwice, OutsidersOwn, Moves, Keeps
  <1> QED
    BY <1>4, <1>7, <1>8, <1>9, <1>10, <1>11, <1>12 DEF LifeInv

(* A reference more, or less, for one event. *)
LEMMA RefChanges ==
  ASSUME TypeOK, NEW e
  PROVE  /\ Referenced(e) \in [Block -> Nat]
         /\ \A b \in Block : Referenced(e)[b] = ref[b] + IF b = e THEN 1 ELSE 0
         /\ \A b \in Block : Released(e)[b] = ref[b] - IF b = e THEN 1 ELSE 0
         /\ (\A b \in Block : b = e => ref[b] > 0) => Released(e) \in [Block -> Nat]
  <1>1. ref \in [Block -> Nat]
    BY DEF TypeOK
  <1>2. CASE e \in Block
    <2>1. Referenced(e) = [ref EXCEPT ![e] = ref[e] + 1]
      BY <1>2 DEF Referenced
    <2>2. Released(e) = [ref EXCEPT ![e] = ref[e] - 1]
      BY <1>2 DEF Released
    <2>3. ref[e] > 0 => ref[e] - 1 \in Nat
      BY <1>1, <1>2
    <2> QED
      BY <1>1, <1>2, <2>1, <2>2, <2>3
  <1>3. CASE e \notin Block
    BY <1>1, <1>3 DEF Referenced, Released
  <1> QED
    BY <1>2, <1>3

(* The count of an event follows its references. *)
LEMMA CountRises ==
  ASSUME LifeInv, NEW e, ref' = Referenced(e), free' = free,
         \A b \in Block : Holders(b)' = Holders(b) + IF b = e THEN 1 ELSE 0
  PROVE  RefCountsHolders'
  <1> SUFFICES ASSUME NEW b \in Block, b \notin free PROVE ref'[b] = Holders(b)'
    BY DEF RefCountsHolders
  <1>1. ref[b] = Holders(b)
    BY DEF LifeInv, RefCountsHolders
  <1>2. ref'[b] = ref[b] + IF b = e THEN 1 ELSE 0
    BY RefChanges DEF LifeInv
  <1> QED
    BY <1>1, <1>2

LEMMA CountFalls ==
  ASSUME LifeInv, NEW e, ref' = Released(e), free' = free,
         \A b \in Block : Holders(b)' = Holders(b) - IF b = e THEN 1 ELSE 0
  PROVE  RefCountsHolders'
  <1> SUFFICES ASSUME NEW b \in Block, b \notin free PROVE ref'[b] = Holders(b)'
    BY DEF RefCountsHolders
  <1>1. ref[b] = Holders(b)
    BY DEF LifeInv, RefCountsHolders
  <1>2. ref'[b] = ref[b] - IF b = e THEN 1 ELSE 0
    BY RefChanges DEF LifeInv
  <1> QED
    BY <1>1, <1>2

LEMMA CountStays ==
  ASSUME LifeInv, UNCHANGED <<ref, free>>, \A b \in Block : Holders(b)' = Holders(b)
  PROVE  RefCountsHolders'
  BY DEF LifeInv, RefCountsHolders

LEMMA BeginPublishKeepsLifeInv ==
  ASSUME LifeInv, NEW a \in Actor, BeginPublish(a)
  PROVE  LifeInv'
  <1>1. CASE ~LimitHolds(work[a])
    BY <1>1, FailKeepsLifeInv DEF BeginPublish, Reasons
  <1>2. CASE LimitHolds(work[a])
    <2>1. /\ pc[a] = "publish" /\ ref' = Referenced(work[a])
          /\ subs' = [subs EXCEPT ![a] = list]
          /\ pc' = [pc EXCEPT ![a] = "multicast"]
          /\ UNCHANGED <<free, queue, deferred, current, work, list, failed>>
      BY <1>2 DEF BeginPublish, Goto
    <2>2. /\ pc'[a] = "multicast" /\ Moves(a) /\ subs'[a] = list /\ list \subseteq Object
          /\ \A x \in Actor : x # a => subs'[x] = subs[x]
      BY <2>1 DEF LifeInv, TypeOK, Moves
    <2>3. work[a] \in Event /\ work[a] # NONE
      BY <2>1, ActorIs
    <2>4. TypeOK'
      BY <2>1, RefChanges DEF LifeInv, TypeOK
    <2>5. \A c \in Block, o \in Object : Keeps(o, c)' <=> Keeps(o, c)
      BY <2>1 DEF Keeps
    <2>6. \A c \in Block : Holders(c)' = Holders(c) + IF c = work[a] THEN 1 ELSE 0
      <3> TAKE c \in Block
      <3>1. a \notin InHand(c) /\ (a \in InHand(c)' <=> c = work[a])
        BY <2>1, <2>2 DEF InHand
      <3>2. /\ Cardinality(InHand(c))' = Cardinality(InHand(c)) + IF c = work[a] THEN 1 ELSE 0
            /\ Cardinality(InHand(c)) \in Nat
        BY <3>1, <2>2, HandCounts, HandsFinite
      <3> QED
        BY <2>1, <3>2, HoldersType DEF Holders, Dispatching, LifeInv
    <2>7. RefCountsHolders'
      BY <2>1, <2>6, CountRises
    <2>8. NoBlockLeaks'
      BY <2>1, <2>6, HoldersType DEF LifeInv, NoBlockLeaks
    <2>9. Positioned'
      BY <2>1, <2>2, ConstantsAre DEF LifeInv, Positioned, Moves, Actor
    <2>10. FreeIsUnheld'
      BY <2>1, <2>5 DEF LifeInv, FreeIsUnheld, TypeOK
    <2>11. FreshIsAlone'
      BY <2>1, <2>2, <2>5 DEF LifeInv, FreshIsAlone, Moves
    <2>12. ComesOnce'
      BY <2>1, <2>2, <2>5, ConstantsAre DEF LifeInv, ComesOnce, FreshIsAlone, Moves
    <2>13. OnePublisher' /\ RecallIsQueued'
      BY <2>1, <2>2, ConstantsAre DEF LifeInv, OnePublisher, RecallIsQueued, Moves
    <2>14. KeptTwice' /\ OutsidersOwn'
      BY <2>1, <2>2, <2>5, ConstantsAre DEF LifeInv, KeptTwice, OutsidersOwn, Moves
    <2> QED
      BY <2>4, <2>7, <2>8, <2>9, <2>10, <2>11, <2>12, <2>13, <2>14 DEF LifeInv
  <1> QED
    BY <1>1, <1>2


(* A post counts once more, in the queue it goes to. *)
LEMMA PostNextKeepsLifeInv ==
  ASSUME LifeInv, NEW a \in Actor, PostNext(a)
  PROVE  LifeInv'
  <1>1. PICK o \in subs[a] :
          IF Len(queue[o]) = QUEUE_LENGTH THEN Fail("queue")
          ELSE IF ~LimitHolds(work[a]) THEN Fail("limit")
          ELSE /\ ref' = Referenced(work[a])
               /\ queue' = [queue EXCEPT ![o] = Append(@, work[a])]
               /\ subs' = [subs EXCEPT ![a] = @ \ {o}]
               /\ UNCHANGED <<free, deferred, current, pc, work, list, failed>>
    BY DEF PostNext
  <1>2. CASE Fail("queue") \/ Fail("limit")
    BY <1>2, FailKeepsLifeInv DEF Reasons
  <1>3. CASE ~(Fail("queue") \/ Fail("limit"))
    <2> DEFINE e == work[a]
    <2>1. /\ Len(queue[o]) # QUEUE_LENGTH /\ ref' = Referenced(e)
          /\ queue' = [queue EXCEPT ![o] = Append(@, e)]
          /\ subs' = [subs EXCEPT ![a] = @ \ {o}]
          /\ UNCHANGED <<free, deferred, current, pc, work, list, failed>>
      BY <1>1, <1>3
    <2>2. pc[a] = "multicast" /\ e \in Event /\ e # NONE /\ o \in Object /\ e \notin free
      BY ActorIs DEF PostNext, LifeInv, TypeOK
    <2>3. /\ subs'[a] = subs[a] \ {o} /\ \A x \in Actor : x # a => subs'[x] = subs[x]
      BY <2>1 DEF LifeInv, TypeOK
    <2>4. TypeOK /\ queue \in Queues /\ Bounded(queue)
      BY TypesOfQueues DEF LifeInv
    <2> HIDE DEF e
    <2>5. Appended(queue, queue', o, e)
      BY <2>1, <2>2, <2>4, AppendIs
    <2>6. queue' \in Queues /\ Bounded(queue')
      BY <2>5 DEF Appended
    <2>7. TypeOK'
      BY <2>1, <2>3, <2>4, <2>6, RefChanges DEF TypeOK, Queues, Bounded
    <2>8. \A c \in Block, p \in Object : In(queue', p, c) <=> In(queue, p, c) \/ (p = o /\ c = e)
      BY <2>1, <2>2, <2>4, <2>5, AppendIn
    <2>9. \A c \in Block, p \in Object :
            Once(queue, p, c) /\ (p = o /\ c = e => ~In(queue, p, c)) => Once(queue', p, c)
      BY <2>1, <2>2, <2>4, <2>5, AppendIn
    <2>10. \A c \in Block, p \in Object : Keeps(p, c)' <=> Keeps(p, c) \/ (p = o /\ c = e)
      BY <2>1, <2>8 DEF Keeps
    <2>11. e \in Block => ~Keeps(o, e) /\ (work[o] = e => o = a)
      BY <2>2 DEF LifeInv, ComesOnce, e
    <2>12. \A c \in Block : Holders(c)' = Holders(c) + IF c = e THEN 1 ELSE 0
      <3> TAKE c \in Block
      <3>1. Cardinality(Positions(queue', c))
              = Cardinality(Positions(queue, c)) + IF e = c THEN 1 ELSE 0
        BY <2>1, <2>2, <2>4, <2>5, AppendCounts
      <3>2. InHand(c)' = InHand(c) /\ Dispatching(c)' = Dispatching(c)
        BY <2>1 DEF InHand, Dispatching
      <3> QED
        BY <2>1, <2>4, <3>1, <3>2, HoldersType DEF Holders
    <2>13. RefCountsHolders'
      BY <2>1, <2>12, CountRises
    <2>14. NoBlockLeaks'
      BY <2>1, <2>4, <2>12, HoldersType DEF LifeInv, NoBlockLeaks
    <2>15. Positioned' /\ OnePublisher'
      BY <2>1 DEF LifeInv, Positioned, OnePublisher
    <2>16. FreeIsUnheld'
      BY <2>1, <2>2, <2>4, <2>10 DEF LifeInv, FreeIsUnheld, TypeOK
    <2>17. FreshIsAlone'
      BY <2>1, <2>2, <2>10 DEF LifeInv, FreshIsAlone, e
    <2>18. ComesOnce'
      <3> SUFFICES ASSUME NEW c \in Block, NEW x \in Actor, NEW p \in Object,
                          pc[x] = "multicast", work[x] = c, p \in subs'[x]
                   PROVE  ~Keeps(p, c)' /\ (work[p] = c => p = x)
        BY <2>1 DEF ComesOnce
      <3>1. p \in subs[x] /\ (x = a => p # o)
        BY <2>3
      <3>2. ~Keeps(p, c) /\ (work[p] = c => p = x)
        BY <3>1 DEF LifeInv, ComesOnce
      <3>3. c = e => x = a
        BY <2>2 DEF LifeInv, OnePublisher, e
      <3> QED
        BY <2>10, <3>1, <3>2, <3>3
    <2>19. KeptTwice'
      <3> SUFFICES ASSUME NEW c \in Block, NEW p \in Object
                   PROVE  /\ Once(queue', p, c) /\ Once(deferred, p, c)
                          /\ In(queue', p, c) => current[p] # c /\ ~In(deferred, p, c)
                          /\ work[p] = c /\ current[p] = c => ~In(deferred, p, c)
                          /\ pc[p] = "recall" /\ work[p] = c => ~Keeps(p, c)'
        BY <2>1 DEF KeptTwice
      <3>1. /\ Once(queue, p, c) /\ Once(deferred, p, c)
            /\ In(queue, p, c) => current[p] # c /\ ~In(deferred, p, c)
            /\ work[p] = c /\ current[p] = c => ~In(deferred, p, c)
            /\ pc[p] = "recall" /\ work[p] = c => ~Keeps(p, c)
        BY DEF LifeInv, KeptTwice
      <3>2. p = o /\ c = e => /\ current[p] # c /\ ~In(queue, p, c) /\ ~In(deferred, p, c)
                              /\ ~(pc[p] = "recall" /\ work[p] = c)
        BY <2>2, <2>11 DEF Keeps
      <3> QED
        BY <2>8, <2>9, <2>10, <3>1, <3>2
    <2>20. RecallIsQueued'
      BY <2>1, <2>5 DEF LifeInv, RecallIsQueued, Appended
    <2>21. OutsidersOwn'
      BY <2>1 DEF LifeInv, OutsidersOwn
    <2> QED
      BY <2>7, <2>13, <2>14, <2>15, <2>16, <2>17, <2>18, <2>19, <2>20, <2>21 DEF LifeInv
  <1> QED
    BY <1>2, <1>3



-----------------------------------------------------------------------------
(* Collection. *)

LEMMA OnlyOne ==
  ASSUME NEW S, IsFiniteSet(S), NEW x \in S
  PROVE  Cardinality(S) >= 1 /\ (Cardinality(S) = 1 => S = {x})
  <1>1. IsFiniteSet(S \ {x}) /\ Cardinality(S \ {x}) = Cardinality(S) - 1
    BY FS_RemoveElement
  <1>2. Cardinality(S) \in Nat /\ Cardinality(S \ {x}) \in Nat
    BY <1>1, FS_CardinalityType
  <1>3. ASSUME Cardinality(S) = 1 PROVE S = {x}
    <2>1. Cardinality(S \ {x}) = 0
      BY <1>1, <1>3
    <2>2. S \ {x} = {}
      BY <1>1, <2>1, FS_EmptySet
    <2> QED
      BY <2>2
  <1> QED
    BY <1>1, <1>2, <1>3

(* A block with one reference has no holder but the one that looks at the count. *)
LEMMA LastHolder ==
  ASSUME LifeInv, NEW a \in Actor, NEW b \in Block, a \in InHand(b), Holders(b) <= 1
  PROVE  (\A o \in Object : ~Keeps(o, b)) /\ InHand(b) = {a}
  <1>1. TypeOK
    BY DEF LifeInv
  <1>2. Cardinality(InHand(b)) \in Nat /\ IsFiniteSet(InHand(b))
    BY HandsFinite
  <1>3. Cardinality(InHand(b)) >= 1 /\ (Cardinality(InHand(b)) = 1 => InHand(b) = {a})
    BY <1>2, OnlyOne
  <1>4. /\ Cardinality(InHand(b)) = 1 /\ Cardinality(Dispatching(b)) = 0
        /\ Cardinality(Positions(queue, b)) = 0 /\ Cardinality(Positions(deferred, b)) = 0
    <2>1. Holders(b) = Cardinality(InHand(b)) + Cardinality(Dispatching(b))
                         + Cardinality(Positions(queue, b)) + Cardinality(Positions(deferred, b))
      BY DEF Holders
    <2> QED
      BY <1>1, <1>3, <2>1, HoldersType
  <1>5. Dispatching(b) = {}
    BY <1>4, HandsFinite, FS_EmptySet
  <1>6. \A o \in Object : ~In(queue, o, b) /\ ~In(deferred, o, b)
    BY <1>1, <1>4, TypesOfQueues, NoPositions
  <1> QED
    BY <1>3, <1>4, <1>5, <1>6 DEF Keeps, Dispatching

LEMMA EndMulticastKeepsLifeInv ==
  ASSUME LifeInv, NEW a \in Actor, EndMulticast(a)
  PROVE  LifeInv'
  <1>1. /\ pc[a] = "multicast" /\ pc' = [pc EXCEPT ![a] = "collect"]
        /\ UNCHANGED <<free, ref, queue, deferred, current, work, subs, list, failed>>
    BY DEF EndMulticast, Goto
  <1>2. pc'[a] = "collect" /\ \A x \in Actor : x # a => pc'[x] = pc[x]
    BY <1>1 DEF LifeInv, TypeOK
  <1>3. TypeOK'
    BY <1>1 DEF LifeInv, TypeOK
  <1>4. \A c \in Block, o \in Object : Keeps(o, c)' <=> Keeps(o, c)
    BY <1>1 DEF Keeps
  <1>5. \A c \in Block : Holders(c)' = Holders(c)
    <2> TAKE c \in Block
    <2>1. InHand(c)' = InHand(c)
      BY <1>1, <1>2 DEF InHand
    <2> QED
      BY <1>1, <2>1 DEF Holders, Dispatching
  <1>6. RefCountsHolders'
    BY <1>1, <1>5, CountStays
  <1>7. NoBlockLeaks'
    BY <1>1, <1>5 DEF LifeInv, NoBlockLeaks
  <1>8. Positioned'
    BY <1>1, <1>2, ConstantsAre DEF LifeInv, Positioned, Actor
  <1>9. FreeIsUnheld' /\ FreshIsAlone'
    BY <1>1, <1>2, <1>4 DEF LifeInv, FreeIsUnheld, FreshIsAlone, TypeOK
  <1>10. ComesOnce' /\ OnePublisher' /\ RecallIsQueued'
    BY <1>1, <1>2, <1>4, ConstantsAre DEF LifeInv, ComesOnce, OnePublisher, RecallIsQueued
  <1>11. KeptTwice' /\ OutsidersOwn'
    BY <1>1, <1>2, <1>4, ConstantsAre DEF LifeInv, KeptTwice, OutsidersOwn
  <1> QED
    BY <1>3, <1>6, <1>7, <1>8, <1>9, <1>10, <1>11 DEF LifeInv

(* The collection, or the end of a recall, that gives up one reference of several. *)
Drops(a) ==
  /\ pc[a] \in {"collect", "recalled"}
  /\ work[a] \in Block => ref[work[a]] >= 2
  /\ ref' = Released(work[a])
  /\ Goto(a, HandlerLabel(a))
  /\ work' = [work EXCEPT ![a] = NONE]
  /\ UNCHANGED <<free, queue, deferred, current, subs, list, failed>>

LEMMA LabelIs ==
  ASSUME LifeInv, NEW a \in Actor
  PROVE  /\ HandlerLabel(a) \in {"idle", "handling"}
         /\ a \in Object => (HandlerLabel(a) = "idle" <=> current[a] = NONE)
         /\ a \in Outsider => HandlerLabel(a) = "idle"
  BY ConstantsAre DEF HandlerLabel

LEMMA DropsKeepLifeInv ==
  ASSUME LifeInv, NEW a \in Actor, Drops(a)
  PROVE  LifeInv'
  <1> DEFINE e == work[a]
  <1>1. /\ pc[a] \in {"collect", "recalled"} /\ (e \in Block => ref[e] >= 2)
        /\ ref' = Released(e) /\ pc' = [pc EXCEPT ![a] = HandlerLabel(a)]
        /\ work' = [work EXCEPT ![a] = NONE]
        /\ UNCHANGED <<free, queue, deferred, current, subs, list, failed>>
    BY DEF Drops, Goto
  <1>2. /\ pc'[a] = HandlerLabel(a) /\ work'[a] = NONE /\ Moves(a)
        /\ HandlerLabel(a) \in {"idle", "handling"}
        /\ e \in Event /\ e # NONE /\ e \notin free /\ NONE \notin Block /\ NONE \notin Event
    BY <1>1, LabelIs, ActorIs, ConstantsAre DEF LifeInv, TypeOK, Moves
  <1> HIDE DEF e
  <1>3. TypeOK
    BY DEF LifeInv
  <1>4. \A c \in Block : c = e => ref[c] > 0
    <2>1. \A c \in Block : ref[c] \in Nat
      BY <1>3 DEF TypeOK
    <2> QED
      BY <1>1, <2>1
  <1>5. ref' \in [Block -> Nat]
    BY <1>1, <1>3, <1>4, RefChanges
  <1>6. TypeOK'
    BY <1>1, <1>2, <1>5 DEF LifeInv, TypeOK
  <1>7. \A c \in Block, o \in Object : Keeps(o, c)' <=> Keeps(o, c)
    BY <1>1 DEF Keeps
  <1>8. \A c \in Block : Holders(c)' = Holders(c) - IF c = e THEN 1 ELSE 0
    <2> TAKE c \in Block
    <2>1. a \notin InHand(c)' /\ (a \in InHand(c) <=> c = e)
      BY <1>1, <1>2 DEF InHand, e
    <2>2. /\ Cardinality(InHand(c))' = Cardinality(InHand(c)) - IF c = e THEN 1 ELSE 0
          /\ Cardinality(InHand(c)) \in Nat
      BY <1>2, <2>1, HandCounts, HandsFinite
    <2>3. /\ Dispatching(c)' = Dispatching(c) /\ Positions(queue, c)' = Positions(queue, c)
          /\ Positions(deferred, c)' = Positions(deferred, c)
      BY <1>1 DEF Dispatching
    <2> QED
      BY <1>3, <2>2, <2>3, HoldersType DEF Holders
  <1>9. RefCountsHolders'
    BY <1>1, <1>8, CountFalls
  <1>10. NoBlockLeaks'
    <2> SUFFICES ASSUME NEW c \in Block, c \notin free
                 PROVE  Holders(c)' > 0 \/ \E x \in Actor : work'[x] = c
      BY <1>1 DEF NoBlockLeaks
    <2>1. CASE c = e
      <3>1. ref[c] = Holders(c) /\ ref[c] >= 2 /\ ref[c] \in Nat
        BY <1>1, <1>3, <2>1 DEF LifeInv, RefCountsHolders, TypeOK
      <3> QED
        BY <1>8, <2>1, <3>1
    <2>2. CASE c # e
      <3>1. Holders(c)' = Holders(c)
        BY <1>3, <1>8, <2>2, HoldersType
      <3>2. Holders(c) > 0 \/ \E x \in Actor : work[x] = c
        BY DEF LifeInv, NoBlockLeaks
      <3>3. \A x \in Actor : work[x] = c => work'[x] = c
        BY <1>2, <2>2 DEF Moves, e
      <3> QED
        BY <3>1, <3>2, <3>3
    <2> QED
      BY <2>1, <2>2
  <1>11. Positioned'
    <2>1. \A x \in Actor : x # a => pc'[x] = pc[x] /\ work'[x] = work[x]
      BY <1>2 DEF Moves
    <2>2. Positioned
      BY DEF LifeInv
    <2>3. NONE \notin free
      BY <1>2, <1>3 DEF TypeOK
    <2>4. /\ \A x \in Actor : /\ work'[x] = NONE <=> pc'[x] \in {"idle", "handling"}
                              /\ pc'[x] = "release" => work'[x] \in Block
                              /\ work'[x] \notin free
      BY <1>2, <2>1, <2>2, <2>3 DEF Positioned
    <2>5. \A x \in Outsider : pc'[x] \notin {"handling", "recall", "recalled"}
      BY <1>2, <2>1, <2>2, LabelIs, ConstantsAre DEF Positioned
    <2>6. \A o \in Object : /\ pc'[o] = "idle" => current[o] = NONE
                            /\ pc'[o] \in {"handling", "recall", "recalled"} => current[o] # NONE
      BY <1>2, <2>1, <2>2, LabelIs, ConstantsAre DEF Positioned
    <2> QED
      BY <1>1, <2>4, <2>5, <2>6 DEF Positioned
  <1>12. FreeIsUnheld'
    BY <1>1, <1>2, <1>3, <1>7 DEF LifeInv, FreeIsUnheld, Moves, TypeOK
  <1>13. FreshIsAlone'
    BY <1>1, <1>2, <1>7 DEF LifeInv, FreshIsAlone, Moves
  <1>14. ComesOnce' /\ OnePublisher' /\ RecallIsQueued'
    BY <1>1, <1>2, <1>7, ConstantsAre DEF LifeInv, ComesOnce, OnePublisher, RecallIsQueued, Moves
  <1>15. KeptTwice' /\ OutsidersOwn'
    BY <1>1, <1>2, <1>7, ConstantsAre DEF LifeInv, KeptTwice, OutsidersOwn, Moves
  <1> QED
    BY <1>6, <1>9, <1>10, <1>11, <1>12, <1>13, <1>14, <1>15 DEF LifeInv


LEMMA CollectKeepsLifeInv ==
  ASSUME LifeInv, NEW a \in Actor, Collect(a)
  PROVE  LifeInv'
  <1> DEFINE e == work[a]
  <1>1. CASE e \in Block /\ ref[e] <= 1
    <2>1. /\ pc[a] = "collect" /\ pc' = [pc EXCEPT ![a] = "release"]
          /\ UNCHANGED <<free, ref, queue, deferred, current, work, subs, list, failed>>
      BY <1>1 DEF Collect, Goto
    <2>2. pc'[a] = "release" /\ \A x \in Actor : x # a => pc'[x] = pc[x]
      BY <2>1 DEF LifeInv, TypeOK
    <2>3. TypeOK'
      BY <2>1 DEF LifeInv, TypeOK
    <2>4. \A c \in Block, o \in Object : Keeps(o, c)' <=> Keeps(o, c)
      BY <2>1 DEF Keeps
    <2>5. \A c \in Block : Holders(c)' = Holders(c)
      <3> TAKE c \in Block
      <3>1. InHand(c)' = InHand(c)
        BY <2>1, <2>2 DEF InHand
      <3> QED
        BY <2>1, <3>1 DEF Holders, Dispatching
    <2>6. /\ \A o \in Object : ~Keeps(o, e)
          /\ \A x \in Actor : work[x] = e => x = a
      <3>1. e \notin free /\ a \in InHand(e)
        BY <2>1, ActorIs DEF InHand
      <3>2. Holders(e) <= 1
        BY <1>1, <3>1 DEF LifeInv, RefCountsHolders
      <3>3. (\A o \in Object : ~Keeps(o, e)) /\ InHand(e) = {a}
        BY <1>1, <3>1, <3>2, LastHolder
      <3>4. ASSUME NEW x \in Actor, work[x] = e PROVE x = a
        <4>1. CASE pc[x] = "publish"
          BY <1>1, <3>4, <4>1 DEF LifeInv, FreshIsAlone
        <4>2. CASE pc[x] # "publish"
          BY <3>3, <3>4, <4>2 DEF InHand
        <4> QED
          BY <4>1, <4>2
      <3> QED
        BY <3>3, <3>4
    <2>7. RefCountsHolders'
      BY <2>1, <2>5, CountStays
    <2>8. NoBlockLeaks'
      BY <2>1, <2>5 DEF LifeInv, NoBlockLeaks
    <2>9. Positioned'
      BY <1>1, <2>1, <2>2, ConstantsAre DEF LifeInv, Positioned, Actor
    <2>10. FreeIsUnheld'
      BY <2>1, <2>4 DEF LifeInv, FreeIsUnheld, TypeOK
    <2>11. FreshIsAlone'
      BY <2>1, <2>2, <2>4, <2>6 DEF LifeInv, FreshIsAlone
    <2>12. ComesOnce' /\ OnePublisher' /\ RecallIsQueued'
      BY <2>1, <2>2, <2>4, ConstantsAre DEF LifeInv, ComesOnce, OnePublisher, RecallIsQueued
    <2>13. KeptTwice' /\ OutsidersOwn'
      BY <2>1, <2>2, <2>4, ConstantsAre DEF LifeInv, KeptTwice, OutsidersOwn
    <2> QED
      BY <2>3, <2>7, <2>8, <2>9, <2>10, <2>11, <2>12, <2>13 DEF LifeInv
  <1>2. CASE ~(e \in Block /\ ref[e] <= 1)
    <2>1. e \in Block => ref[e] >= 2
      <3>1. e \in Block => ref[e] \in Nat
        BY DEF LifeInv, TypeOK
      <3> QED
        BY <1>2, <3>1
    <2>2. Drops(a)
      BY <1>2, <2>1 DEF Collect, Drops
    <2> QED
      BY <2>2, DropsKeepLifeInv
  <1> QED
    BY <1>1, <1>2

LEMMA ReleaseKeepsLifeInv ==
  ASSUME LifeInv, NEW a \in Actor, Release(a)
  PROVE  LifeInv'
  <1>1. CASE free = Block
    BY <1>1, FailKeepsLifeInv DEF Release, Reasons
  <1>2. CASE free # Block
    <2> DEFINE e == work[a]
    <2>1. /\ pc[a] = "release" /\ free' = free \cup {e}
          /\ pc' = [pc EXCEPT ![a] = HandlerLabel(a)]
          /\ work' = [work EXCEPT ![a] = NONE]
          /\ UNCHANGED <<ref, queue, deferred, current, subs, list, failed>>
      BY <1>2 DEF Release, Goto
    <2>2. /\ pc'[a] = HandlerLabel(a) /\ work'[a] = NONE /\ Moves(a)
          /\ HandlerLabel(a) \in {"idle", "handling"}
          /\ e \in Block /\ NONE \notin Block /\ NONE \notin Event
      BY <2>1, LabelIs, ActorIs, ConstantsAre DEF LifeInv, TypeOK, Moves
    <2> HIDE DEF e
    <2>3. TypeOK
      BY DEF LifeInv
    <2>4. TypeOK'
      BY <2>1, <2>2 DEF LifeInv, TypeOK
    <2>5. \A c \in Block, o \in Object : Keeps(o, c)' <=> Keeps(o, c)
      BY <2>1 DEF Keeps
    <2>6. (\A o \in Object : ~Keeps(o, e)) /\ (\A x \in Actor : work[x] = e => x = a)
      BY <2>1, <2>2 DEF LifeInv, FreshIsAlone, e
    <2>7. \A c \in Block : c # e => Holders(c)' = Holders(c)
      <3> SUFFICES ASSUME NEW c \in Block, c # e PROVE Holders(c)' = Holders(c)
        OBVIOUS
      <3>1. InHand(c)' = InHand(c)
        BY <2>2 DEF InHand, Moves, e
      <3> QED
        BY <2>1, <3>1 DEF Holders, Dispatching
    <2>8. RefCountsHolders'
      BY <2>1, <2>7 DEF LifeInv, RefCountsHolders
    <2>9. NoBlockLeaks'
      <3>1. \A c \in Block : c # e => \A x \in Actor : work[x] = c => work'[x] = c
        BY <2>2 DEF Moves, e
      <3> QED
        BY <2>1, <2>7, <3>1 DEF LifeInv, NoBlockLeaks
    <2>10. \A x \in Actor : x # a => pc'[x] = pc[x] /\ work'[x] = work[x]
      BY <2>2 DEF Moves
    <2>11. Positioned'
      <3>1. Positioned
        BY DEF LifeInv
      <3>2. \A x \in Actor : /\ work'[x] = NONE <=> pc'[x] \in {"idle", "handling"}
                             /\ pc'[x] = "release" => work'[x] \in Block
        BY <2>2, <2>10, <3>1 DEF Positioned
      <3>3. \A x \in Actor : work'[x] \notin free'
        BY <2>1, <2>2, <2>3, <2>6, <2>10, <3>1 DEF Positioned, TypeOK
      <3>4. \A x \in Outsider : pc'[x] \notin {"handling", "recall", "recalled"}
        BY <2>2, <2>10, <3>1, LabelIs, ConstantsAre DEF Positioned
      <3>5. \A o \in Object : /\ pc'[o] = "idle" => current[o] = NONE
                              /\ pc'[o] \in {"handling", "recall", "recalled"} => current[o] # NONE
        BY <2>2, <2>10, <3>1, LabelIs, ConstantsAre DEF Positioned
      <3> QED
        BY <2>1, <3>2, <3>3, <3>4, <3>5 DEF Positioned
    <2>12. FreeIsUnheld'
      <3> SUFFICES ASSUME NEW c \in free'
                   PROVE  (\A o \in Object : ~Keeps(o, c)') /\ (\A x \in Actor : work'[x] # c)
        BY DEF FreeIsUnheld
      <3>1. c \in Block
        BY <2>1, <2>2, <2>3 DEF TypeOK
      <3>2. CASE c = e
        BY <2>2, <2>5, <2>6, <2>10, <3>1, <3>2
      <3>3. CASE c # e
        <4>1. c \in free
          BY <2>1, <3>3
        <4> QED
          BY <2>2, <2>5, <2>10, <3>1, <4>1 DEF LifeInv, FreeIsUnheld
      <3> QED
        BY <3>2, <3>3
    <2>13. FreshIsAlone'
      BY <2>1, <2>2, <2>5, <2>10 DEF LifeInv, FreshIsAlone
    <2>14. ComesOnce' /\ OnePublisher' /\ RecallIsQueued'
      BY <2>1, <2>2, <2>5, <2>10, ConstantsAre DEF LifeInv, ComesOnce, OnePublisher, RecallIsQueued
    <2>15. KeptTwice' /\ OutsidersOwn'
      BY <2>1, <2>2, <2>5, <2>10, ConstantsAre DEF LifeInv, KeptTwice, OutsidersOwn
    <2> QED
      BY <2>4, <2>8, <2>9, <2>11, <2>12, <2>13, <2>14, <2>15 DEF LifeInv
  <1> QED
    BY <1>1, <1>2



-----------------------------------------------------------------------------
(* The active object. *)

(* With PREEMPTS no object runs while an interrupt has something in hand. *)
LEMMA ObjectsWait ==
  ASSUME LifeInv, NEW o \in Object, MayRun(o), PREEMPTS
  PROVE  \A x \in Outsider : work[x] = NONE
  BY ConstantsAre DEF LifeInv, Positioned, MayRun

LEMMA TakeKeepsLifeInv ==
  ASSUME LifeInv, NEW o \in Object, Take(o)
  PROVE  LifeInv'
  <1> DEFINE e == Head(queue[o])
  <1>1. /\ MayRun(o) /\ pc[o] = "idle" /\ queue[o] # <<>>
        /\ current' = [current EXCEPT ![o] = e]
        /\ queue' = [queue EXCEPT ![o] = Tail(@)]
        /\ pc' = [pc EXCEPT ![o] = "handling"]
        /\ UNCHANGED <<free, ref, deferred, work, subs, list, failed>>
    BY DEF Take, Goto
  <1>2. TypeOK /\ queue \in Queues /\ Bounded(queue)
    BY TypesOfQueues DEF LifeInv
  <1>3. Shortened(queue, queue', o)
    BY <1>1, <1>2, TailIs
  <1>4. queue' \in Queues /\ Bounded(queue') /\ e \in Event
    BY <1>3 DEF Shortened
  <1> HIDE DEF e
  <1>5. /\ pc'[o] = "handling" /\ current'[o] = e
        /\ \A p \in Object : p # o => current'[p] = current[p]
        /\ \A x \in Actor : x # o => pc'[x] = pc[x]
        /\ o \in Actor /\ o \notin Outsider
    BY <1>1, <1>2, ConstantsAre DEF TypeOK
  <1>6. current[o] = NONE /\ work[o] = NONE /\ e # NONE /\ NONE \notin Block
    BY <1>1, <1>4, <1>5, ActorIs, ConstantsAre DEF Event
  <1>7. TypeOK'
    BY <1>1, <1>2, <1>4 DEF TypeOK, Queues, Bounded
  <1>8. \A c \in Block, p \in Object : In(queue, p, c) <=> In(queue', p, c) \/ (p = o /\ c = e)
    BY <1>1, <1>2, <1>3, TailIn DEF e
  <1>9. \A c \in Block, p \in Object :
          Once(queue, p, c) => Once(queue', p, c) /\ (p = o /\ c = e => ~In(queue', p, c))
    BY <1>1, <1>2, <1>3, TailIn DEF e
  <1>10. \A c \in Block, p \in Object : Keeps(p, c)' <=> Keeps(p, c)
    BY <1>1, <1>5, <1>6, <1>8 DEF Keeps
  <1>11. \A c \in Block : Holders(c)' = Holders(c)
    <2> TAKE c \in Block
    <2>1. Cardinality(Positions(queue, c))
            = Cardinality(Positions(queue', c)) + IF e = c THEN 1 ELSE 0
      BY <1>1, <1>2, <1>3, TailCounts DEF e
    <2>2. Cardinality(Positions(queue', c)) \in Nat
      BY <1>4, PositionsFinite
    <2>3. Cardinality(Dispatching(c))' = Cardinality(Dispatching(c)) + IF e = c THEN 1 ELSE 0
      <3>1. /\ Cardinality(Dispatching(c))'
                 = (Cardinality(Dispatching(c)) + (IF current'[o] = c THEN 1 ELSE 0))
                     - (IF current[o] = c THEN 1 ELSE 0)
            /\ Cardinality(Dispatching(c)) \in Nat
        BY <1>5, DispatchCounts, HandsFinite
      <3> QED
        BY <1>5, <1>6, <3>1
    <2>4. InHand(c)' = InHand(c)
      BY <1>1, <1>5, <1>6 DEF InHand
    <2>5. Positions(deferred, c)' = Positions(deferred, c)
          /\ Cardinality(Positions(queue, c))' = Cardinality(Positions(queue', c))
      BY <1>1
    <2>6. /\ Cardinality(InHand(c)) \in Nat /\ Cardinality(Dispatching(c)) \in Nat
          /\ Cardinality(Positions(deferred, c)) \in Nat
      BY <1>2, HoldersType
    <2> QED
      BY <2>1, <2>2, <2>3, <2>4, <2>5, <2>6 DEF Holders
  <1>12. RefCountsHolders'
    BY <1>1, <1>11, CountStays
  <1>13. NoBlockLeaks'
    BY <1>1, <1>11 DEF LifeInv, NoBlockLeaks
  <1>14. Positioned'
    BY <1>1, <1>5, <1>6, ConstantsAre DEF LifeInv, Positioned
  <1>15. FreeIsUnheld' /\ FreshIsAlone'
    BY <1>1, <1>2, <1>5, <1>10 DEF LifeInv, FreeIsUnheld, FreshIsAlone, TypeOK
  <1>16. ComesOnce' /\ OnePublisher'
    BY <1>1, <1>5, <1>10, ConstantsAre DEF LifeInv, ComesOnce, OnePublisher
  <1>17. KeptTwice'
    <2> SUFFICES ASSUME NEW c \in Block, NEW p \in Object
                 PROVE  /\ Once(queue', p, c) /\ Once(deferred, p, c)
                        /\ In(queue', p, c) => current'[p] # c /\ ~In(deferred, p, c)
                        /\ work[p] = c /\ current'[p] = c => ~In(deferred, p, c)
                        /\ pc'[p] = "recall" /\ work[p] = c => ~Keeps(p, c)'
      BY <1>1 DEF KeptTwice
    <2>1. /\ Once(queue, p, c) /\ Once(deferred, p, c)
          /\ In(queue, p, c) => current[p] # c /\ ~In(deferred, p, c)
          /\ work[p] = c /\ current[p] = c => ~In(deferred, p, c)
          /\ pc[p] = "recall" /\ work[p] = c => ~Keeps(p, c)
      BY DEF LifeInv, KeptTwice
    <2>2. Once(queue', p, c)
      BY <1>9, <2>1
    <2>3. In(queue', p, c) => current'[p] # c /\ ~In(deferred, p, c)
      BY <1>5, <1>8, <1>9, <2>1
    <2>4. work[p] = c /\ current'[p] = c => ~In(deferred, p, c)
      BY <1>5, <1>6, <2>1
    <2>5. pc'[p] = "recall" /\ work[p] = c => ~Keeps(p, c)'
      BY <1>5, <1>10, <2>1, ConstantsAre
    <2> QED
      BY <2>1, <2>2, <2>3, <2>4, <2>5
  <1>18. RecallIsQueued'
    BY <1>3, <1>5, <1>1, ConstantsAre DEF LifeInv, RecallIsQueued, Shortened
  <1>19. OutsidersOwn'
    <2>1. PREEMPTS => \A x \in Outsider : work[x] \notin Block
      BY <1>1, <1>6, ObjectsWait
    <2> QED
      BY <1>1, <2>1 DEF LifeInv, OutsidersOwn
  <1> QED
    BY <1>7, <1>12, <1>13, <1>14, <1>15, <1>16, <1>17, <1>18, <1>19 DEF LifeInv


LEMMA EndDispatchKeepsLifeInv ==
  ASSUME LifeInv, NEW o \in Object, EndDispatch(o)
  PROVE  LifeInv'
  <1> DEFINE e == current[o]
  <1>1. /\ MayRun(o) /\ pc[o] = "handling"
        /\ work' = [work EXCEPT ![o] = e]
        /\ current' = [current EXCEPT ![o] = NONE]
        /\ pc' = [pc EXCEPT ![o] = "collect"]
        /\ UNCHANGED <<free, ref, queue, deferred, subs, list, failed>>
    BY DEF EndDispatch, Goto
  <1>2. TypeOK /\ o \in Actor /\ o \notin Outsider
    BY ConstantsAre DEF LifeInv
  <1>3. e # NONE /\ e \in Event /\ work[o] = NONE /\ NONE \notin Block
    BY <1>1, <1>2, ActorIs, ConstantsAre DEF TypeOK
  <1>4. /\ pc'[o] = "collect" /\ current'[o] = NONE /\ work'[o] = e /\ Moves(o)
        /\ \A p \in Object : p # o => current'[p] = current[p]
    BY <1>1, <1>2 DEF TypeOK, Moves
  <1>5. Keeps(o, e)
    BY DEF Keeps
  <1> HIDE DEF e
  <1>6. TypeOK'
    BY <1>1, <1>2, <1>3 DEF TypeOK
  <1>7. \A c \in Block, p \in Object : Keeps(p, c)' => Keeps(p, c)
    BY <1>1, <1>3, <1>4 DEF Keeps
  <1>8. \A c \in Block : Holders(c)' = Holders(c)
    <2> TAKE c \in Block
    <2>1. /\ Cardinality(InHand(c))'
               = (Cardinality(InHand(c)) + (IF o \in InHand(c)' THEN 1 ELSE 0))
                   - (IF o \in InHand(c) THEN 1 ELSE 0)
          /\ Cardinality(InHand(c)) \in Nat
      BY <1>2, <1>4, HandCounts, HandsFinite
    <2>2. o \notin InHand(c) /\ (o \in InHand(c)' <=> c = e)
      BY <1>2, <1>3, <1>4 DEF InHand
    <2>3. /\ Cardinality(Dispatching(c))'
               = (Cardinality(Dispatching(c)) + (IF current'[o] = c THEN 1 ELSE 0))
                   - (IF current[o] = c THEN 1 ELSE 0)
          /\ Cardinality(Dispatching(c)) \in Nat
      BY <1>4, DispatchCounts, HandsFinite
    <2>4. current'[o] # c /\ (current[o] = c <=> c = e)
      BY <1>3, <1>4 DEF e
    <2>5. /\ Positions(queue, c)' = Positions(queue, c)
          /\ Positions(deferred, c)' = Positions(deferred, c)
      BY <1>1
    <2>6. /\ Cardinality(Positions(queue, c)) \in Nat
          /\ Cardinality(Positions(deferred, c)) \in Nat
      BY <1>2, HoldersType
    <2>7. /\ Cardinality(InHand(c))' = Cardinality(InHand(c)) + IF c = e THEN 1 ELSE 0
          /\ Cardinality(Dispatching(c))' = Cardinality(Dispatching(c)) - IF c = e THEN 1 ELSE 0
      BY <2>1, <2>2, <2>3, <2>4
    <2> QED
      BY <2>1, <2>3, <2>5, <2>6, <2>7 DEF Holders
  <1>9. RefCountsHolders'
    BY <1>1, <1>8, CountStays
  <1>10. \A x \in Actor : x # o => pc'[x] = pc[x] /\ work'[x] = work[x]
    BY <1>4 DEF Moves
  <1>11. NoBlockLeaks'
    BY <1>1, <1>3, <1>8, <1>10 DEF LifeInv, NoBlockLeaks
  <1>12. Positioned'
    <2>1. e \notin free
      BY <1>2, <1>5 DEF LifeInv, FreeIsUnheld
    <2> QED
      BY <1>1, <1>2, <1>3, <1>4, <1>10, <2>1, ConstantsAre DEF LifeInv, Positioned
  <1>13. FreeIsUnheld'
    BY <1>1, <1>2, <1>4, <1>5, <1>7, <1>10 DEF LifeInv, FreeIsUnheld, TypeOK
  <1>14. FreshIsAlone'
    BY <1>2, <1>4, <1>5, <1>7, <1>10 DEF LifeInv, FreshIsAlone
  <1>15. ComesOnce'
    BY <1>1, <1>2, <1>4, <1>5, <1>7, <1>10, ConstantsAre DEF LifeInv, ComesOnce
  <1>16. OnePublisher' /\ RecallIsQueued'
    BY <1>1, <1>4, <1>10, ConstantsAre DEF LifeInv, OnePublisher, RecallIsQueued
  <1>17. KeptTwice'
    <2> SUFFICES ASSUME NEW c \in Block, NEW p \in Object
                 PROVE  /\ Once(queue, p, c) /\ Once(deferred, p, c)
                        /\ In(queue, p, c) => current'[p] # c /\ ~In(deferred, p, c)
                        /\ work'[p] = c /\ current'[p] = c => ~In(deferred, p, c)
                        /\ pc'[p] = "recall" /\ work'[p] = c => ~Keeps(p, c)'
      BY <1>1 DEF KeptTwice
    <2>1. /\ Once(queue, p, c) /\ Once(deferred, p, c)
          /\ In(queue, p, c) => current[p] # c /\ ~In(deferred, p, c)
          /\ work[p] = c /\ current[p] = c => ~In(deferred, p, c)
          /\ pc[p] = "recall" /\ work[p] = c => ~Keeps(p, c)
      BY DEF LifeInv, KeptTwice
    <2>2. c # NONE /\ p \in Actor
      BY <1>3, ConstantsAre
    <2> QED
      BY <1>4, <1>7, <1>10, <2>1, <2>2
  <1>18. OutsidersOwn'
    <2>1. PREEMPTS => \A x \in Outsider : work[x] \notin Block
      BY <1>1, <1>3, ObjectsWait
    <2>2. \A x \in Outsider : work'[x] = work[x]
      BY <1>2, <1>10, ConstantsAre
    <2> QED
      BY <2>1, <2>2 DEF LifeInv, OutsidersOwn
  <1> QED
    BY <1>6, <1>9, <1>11, <1>12, <1>13, <1>14, <1>15, <1>16, <1>17, <1>18 DEF LifeInv


LEMMA DeferKeepsLifeInv ==
  ASSUME LifeInv, NEW o \in Object, Defer(o)
  PROVE  LifeInv'
  <1> DEFINE e == current[o]
  <1>1. CASE Fail("queue") \/ Fail("limit")
    BY <1>1, FailKeepsLifeInv DEF Reasons
  <1>2. CASE ~(Fail("queue") \/ Fail("limit"))
    <2>1. /\ MayRun(o) /\ pc[o] = "handling" /\ Len(deferred[o]) # QUEUE_LENGTH
          /\ e \in Block => e \notin ToSet(deferred[o])
          /\ ref' = Referenced(e)
          /\ deferred' = [deferred EXCEPT ![o] = Append(@, e)]
          /\ UNCHANGED <<free, queue, current, pc, work, subs, list, failed>>
      BY <1>2 DEF Defer
    <2>2. TypeOK /\ deferred \in Queues /\ Bounded(deferred) /\ o \in Actor /\ o \notin Outsider
      BY TypesOfQueues, ConstantsAre DEF LifeInv
    <2>3. e # NONE /\ e \in Event /\ work[o] = NONE /\ NONE \notin Block
      BY <2>1, <2>2, ActorIs, ConstantsAre DEF TypeOK
    <2>4. e \in Block => ~In(deferred, o, e)
      BY <2>1 DEF In, ToSet
    <2>5. Keeps(o, e)
      BY DEF Keeps
    <2>6. e \in Block => e \notin free /\ ~In(queue, o, e)
      BY <2>5 DEF LifeInv, FreeIsUnheld, KeptTwice
    <2>7. \A c \in Block : c = e => current[o] = c
      OBVIOUS
    <2> HIDE DEF e
    <2>8. Appended(deferred, deferred', o, e)
      BY <2>1, <2>2, <2>3, AppendIs
    <2>9. deferred' \in Queues /\ Bounded(deferred')
      BY <2>8 DEF Appended
    <2>10. TypeOK'
      <3>1. ref' \in [Block -> Nat]
        BY <2>1, <2>2, RefChanges
      <3> QED
        BY <2>1, <2>2, <2>9, <3>1 DEF TypeOK, Queues, Bounded
    <2>11. \A c \in Block, p \in Object :
             In(deferred', p, c) <=> In(deferred, p, c) \/ (p = o /\ c = e)
      BY <2>1, <2>2, <2>3, <2>8, AppendIn
    <2>12. \A c \in Block, p \in Object :
             Once(deferred, p, c) /\ (p = o /\ c = e => ~In(deferred, p, c))
               => Once(deferred', p, c)
      BY <2>1, <2>2, <2>3, <2>8, AppendIn
    <2>13. \A c \in Block, p \in Object : Keeps(p, c)' <=> Keeps(p, c)
      BY <2>1, <2>7, <2>11 DEF Keeps
    <2>14. \A c \in Block : Holders(c)' = Holders(c) + IF c = e THEN 1 ELSE 0
      <3> TAKE c \in Block
      <3>1. Cardinality(Positions(deferred', c))
              = Cardinality(Positions(deferred, c)) + IF e = c THEN 1 ELSE 0
        BY <2>1, <2>2, <2>3, <2>8, AppendCounts
      <3>2. /\ InHand(c)' = InHand(c) /\ Dispatching(c)' = Dispatching(c)
            /\ Positions(queue, c)' = Positions(queue, c)
            /\ Cardinality(Positions(deferred, c))' = Cardinality(Positions(deferred', c))
        BY <2>1 DEF InHand, Dispatching
      <3> QED
        BY <2>2, <3>1, <3>2, HoldersType DEF Holders
    <2>15. RefCountsHolders'
      BY <2>1, <2>14, CountRises
    <2>16. NoBlockLeaks'
      BY <2>1, <2>2, <2>14, HoldersType DEF LifeInv, NoBlockLeaks
    <2>17. Positioned' /\ OnePublisher' /\ RecallIsQueued'
      BY <2>1 DEF LifeInv, Positioned, OnePublisher, RecallIsQueued
    <2>18. FreeIsUnheld' /\ FreshIsAlone'
      BY <2>1, <2>2, <2>13 DEF LifeInv, FreeIsUnheld, FreshIsAlone, TypeOK
    <2>19. ComesOnce'
      BY <2>1, <2>13 DEF LifeInv, ComesOnce
    <2>20. KeptTwice'
      <3> SUFFICES ASSUME NEW c \in Block, NEW p \in Object
                   PROVE  /\ Once(queue, p, c) /\ Once(deferred', p, c)
                          /\ In(queue, p, c) => current[p] # c /\ ~In(deferred', p, c)
                          /\ work[p] = c /\ current[p] = c => ~In(deferred', p, c)
                          /\ pc[p] = "recall" /\ work[p] = c => ~Keeps(p, c)'
        BY <2>1 DEF KeptTwice
      <3>1. /\ Once(queue, p, c) /\ Once(deferred, p, c)
            /\ In(queue, p, c) => current[p] # c /\ ~In(deferred, p, c)
            /\ work[p] = c /\ current[p] = c => ~In(deferred, p, c)
            /\ pc[p] = "recall" /\ work[p] = c => ~Keeps(p, c)
        BY DEF LifeInv, KeptTwice
      <3> QED
        BY <2>3, <2>4, <2>6, <2>11, <2>12, <2>13, <3>1
    <2>21. OutsidersOwn'
      <3>1. PREEMPTS => \A x \in Outsider : work[x] \notin Block
        BY <2>1, <2>3, ObjectsWait
      <3> QED
        BY <2>1, <3>1 DEF LifeInv, OutsidersOwn
    <2> QED
      BY <2>10, <2>15, <2>16, <2>17, <2>18, <2>19, <2>20, <2>21 DEF LifeInv
  <1> QED
    BY <1>1, <1>2

(* A recall, or a round of the flush, takes the oldest deferred event in hand. *)
LEMMA TakeDeferredKeepsLifeInv ==
  ASSUME LifeInv, NEW o \in Object, NEW label \in {"recall", "collect"},
         TakeDeferred(o, label),
         label = "recall" => Head(deferred[o]) # current[o]
  PROVE  LifeInv'
  <1> DEFINE e == Head(deferred[o])
  <1>1. /\ MayRun(o) /\ pc[o] = "handling" /\ deferred[o] # <<>>
        /\ work' = [work EXCEPT ![o] = e]
        /\ deferred' = [deferred EXCEPT ![o] = Tail(@)]
        /\ pc' = [pc EXCEPT ![o] = label]
        /\ UNCHANGED <<free, ref, queue, current, subs, list, failed>>
    BY DEF TakeDeferred, Goto
  <1>2. TypeOK /\ deferred \in Queues /\ Bounded(deferred) /\ o \in Actor /\ o \notin Outsider
    BY TypesOfQueues, ConstantsAre DEF LifeInv
  <1>3. Shortened(deferred, deferred', o)
    BY <1>1, <1>2, TailIs
  <1>4. deferred' \in Queues /\ Bounded(deferred') /\ e \in Event
    BY <1>3 DEF Shortened
  <1>5. label = "recall" => current[o] # e
    OBVIOUS
  <1>6. \A c \in Block, p \in Object :
          In(deferred, p, c) <=> In(deferred', p, c) \/ (p = o /\ c = e)
    BY <1>1, <1>2, <1>3, TailIn
  <1>7. \A c \in Block, p \in Object :
          Once(deferred, p, c) =>
            Once(deferred', p, c) /\ (p = o /\ c = e => ~In(deferred', p, c))
    BY <1>1, <1>2, <1>3, TailIn
  <1>8. \A c \in Block : Cardinality(Positions(deferred, c))
            = Cardinality(Positions(deferred', c)) + IF e = c THEN 1 ELSE 0
    BY <1>1, <1>2, <1>3, TailCounts
  <1> HIDE DEF e
  <1>9. e # NONE /\ work[o] = NONE /\ NONE \notin Block /\ NONE \notin Event
    BY <1>1, <1>2, <1>4, ActorIs, ConstantsAre
  <1>10. pc'[o] = label /\ work'[o] = e /\ Moves(o)
    BY <1>1, <1>2 DEF TypeOK, Moves
  <1>11. \A x \in Actor : x # o => pc'[x] = pc[x] /\ work'[x] = work[x]
    BY <1>10 DEF Moves
  <1>12. e \in Block => Keeps(o, e)
    BY <1>6 DEF Keeps
  <1>13. TypeOK'
    BY <1>1, <1>2, <1>4 DEF TypeOK, Queues, Bounded
  <1>14. \A c \in Block, p \in Object : Keeps(p, c)' => Keeps(p, c)
    BY <1>1, <1>6 DEF Keeps
  <1>15. \A c \in Block : Holders(c)' = Holders(c)
    <2> TAKE c \in Block
    <2>1. /\ Cardinality(InHand(c))'
               = (Cardinality(InHand(c)) + (IF o \in InHand(c)' THEN 1 ELSE 0))
                   - (IF o \in InHand(c) THEN 1 ELSE 0)
          /\ Cardinality(InHand(c)) \in Nat
      BY <1>2, <1>10, HandCounts, HandsFinite
    <2>2. o \notin InHand(c) /\ (o \in InHand(c)' <=> c = e)
      BY <1>2, <1>9, <1>10 DEF InHand
    <2>3. /\ Dispatching(c)' = Dispatching(c) /\ Positions(queue, c)' = Positions(queue, c)
          /\ Cardinality(Positions(deferred, c))' = Cardinality(Positions(deferred', c))
      BY <1>1 DEF Dispatching
    <2>4. /\ Cardinality(Positions(queue, c)) \in Nat /\ Cardinality(Dispatching(c)) \in Nat
          /\ Cardinality(Positions(deferred', c)) \in Nat
      BY <1>2, <1>4, HoldersType, PositionsFinite
    <2>5. Cardinality(InHand(c))' = Cardinality(InHand(c)) + IF e = c THEN 1 ELSE 0
      BY <2>1, <2>2
    <2> QED
      BY <1>8, <2>1, <2>3, <2>4, <2>5 DEF Holders
  <1>16. RefCountsHolders'
    BY <1>1, <1>15, CountStays
  <1>17. NoBlockLeaks'
    BY <1>1, <1>9, <1>11, <1>15 DEF LifeInv, NoBlockLeaks
  <1>18. Positioned'
    <2>1. e \notin free
      BY <1>2, <1>12 DEF LifeInv, FreeIsUnheld, TypeOK
    <2>2. current[o] # NONE
      BY <1>1, <1>2, ActorIs
    <2> QED
      BY <1>1, <1>2, <1>9, <1>10, <1>11, <2>1, <2>2, ConstantsAre DEF LifeInv, Positioned
  <1>19. FreeIsUnheld'
    BY <1>1, <1>2, <1>10, <1>11, <1>12, <1>14 DEF LifeInv, FreeIsUnheld, TypeOK
  <1>20. FreshIsAlone'
    BY <1>2, <1>10, <1>11, <1>12, <1>14 DEF LifeInv, FreshIsAlone
  <1>21. ComesOnce'
    BY <1>1, <1>2, <1>10, <1>11, <1>12, <1>14, ConstantsAre DEF LifeInv, ComesOnce
  <1>22. OnePublisher' /\ RecallIsQueued'
    BY <1>1, <1>10, <1>11, ConstantsAre DEF LifeInv, OnePublisher, RecallIsQueued
  <1>23. KeptTwice'
    <2> SUFFICES ASSUME NEW c \in Block, NEW p \in Object
                 PROVE  /\ Once(queue, p, c) /\ Once(deferred', p, c)
                        /\ In(queue, p, c) => current[p] # c /\ ~In(deferred', p, c)
                        /\ work'[p] = c /\ current[p] = c => ~In(deferred', p, c)
                        /\ pc'[p] = "recall" /\ work'[p] = c => ~Keeps(p, c)'
      BY <1>1 DEF KeptTwice
    <2>1. /\ Once(queue, p, c) /\ Once(deferred, p, c)
          /\ In(queue, p, c) => current[p] # c /\ ~In(deferred, p, c)
          /\ work[p] = c /\ current[p] = c => ~In(deferred, p, c)
          /\ pc[p] = "recall" /\ work[p] = c => ~Keeps(p, c)
      BY DEF LifeInv, KeptTwice
    <2>2. Once(deferred', p, c) /\ (In(deferred', p, c) => In(deferred, p, c))
      BY <1>6, <1>7, <2>1
    <2>3. CASE p # o
      <3>1. pc'[p] = pc[p] /\ work'[p] = work[p]
        BY <1>11, <2>3, ConstantsAre
      <3> QED
        BY <1>14, <2>1, <2>2, <3>1
    <2>4. CASE p = o
      <3>1. c = e => ~In(deferred', o, c) /\ In(deferred, o, c)
        BY <1>6, <1>7, <2>1, <2>4
      <3>2. label = "recall" /\ c = e => ~Keeps(o, c)'
        BY <1>1, <1>5, <2>1, <2>4, <3>1 DEF Keeps
      <3> QED
        BY <1>10, <2>1, <2>2, <2>4, <3>1, <3>2
    <2> QED
      BY <2>3, <2>4
  <1>24. OutsidersOwn'
    <2>1. PREEMPTS => \A x \in Outsider : work[x] \notin Block
      BY <1>1, <1>9, ObjectsWait
    <2>2. \A x \in Outsider : work'[x] = work[x]
      BY <1>2, <1>11, ConstantsAre
    <2> QED
      BY <2>1, <2>2 DEF LifeInv, OutsidersOwn
  <1> QED
    BY <1>13, <1>16, <1>17, <1>18, <1>19, <1>20, <1>21, <1>22, <1>23, <1>24 DEF LifeInv


LEMMA RecallPostKeepsLifeInv ==
  ASSUME LifeInv, NEW o \in Object, RecallPost(o)
  PROVE  LifeInv'
  <1> DEFINE e == work[o]
  <1>1. CASE Fail("queue") \/ Fail("limit")
    BY <1>1, FailKeepsLifeInv DEF Reasons
  <1>2. CASE ~(Fail("queue") \/ Fail("limit"))
    <2>1. /\ pc[o] = "recall" /\ Len(queue[o]) # QUEUE_LENGTH
          /\ ref' = Referenced(e)
          /\ queue' = [queue EXCEPT ![o] = <<e>> \o @]
          /\ pc' = [pc EXCEPT ![o] = "recalled"]
          /\ UNCHANGED <<free, deferred, current, work, subs, list, failed>>
      BY <1>2 DEF RecallPost, Goto
    <2>2. TypeOK /\ queue \in Queues /\ Bounded(queue) /\ o \in Actor /\ o \notin Outsider
      BY TypesOfQueues, ConstantsAre DEF LifeInv
    <2>3. e # NONE /\ e \in Event /\ e \notin free /\ current[o] # NONE
      BY <2>1, <2>2, ActorIs
    <2>4. pc'[o] = "recalled" /\ \A x \in Actor : x # o => pc'[x] = pc[x]
      BY <2>1, <2>2 DEF TypeOK
    <2>5. e \in Block => ~Keeps(o, e)
      BY <2>1 DEF LifeInv, KeptTwice
    <2>6. \A x \in Actor :
            (/\ work[x] \in Block
             /\ pc[x] \in {"publish", "release"} \/ (pc[x] = "multicast" /\ o \in subs[x]))
            => work[x] # e
      BY <2>1, <2>2 DEF LifeInv, FreshIsAlone, ComesOnce
    <2> HIDE DEF e
    <2>7. Prepended(queue, queue', o, e)
      BY <2>1, <2>2, <2>3, PrependIs
    <2>8. queue' \in Queues /\ Bounded(queue') /\ queue'[o] # <<>> /\ Head(queue'[o]) = e
      BY <2>7 DEF Prepended
    <2>9. TypeOK'
      <3>1. ref' \in [Block -> Nat]
        BY <2>1, <2>2, RefChanges
      <3> QED
        BY <2>1, <2>2, <2>8, <3>1 DEF TypeOK, Queues, Bounded
    <2>10. \A c \in Block, p \in Object : In(queue', p, c) <=> In(queue, p, c) \/ (p = o /\ c = e)
      BY <2>1, <2>2, <2>3, <2>7, PrependIn
    <2>11. \A c \in Block, p \in Object :
             Once(queue, p, c) /\ (p = o /\ c = e => ~In(queue, p, c)) => Once(queue', p, c)
      BY <2>1, <2>2, <2>3, <2>7, PrependIn
    <2>12. \A c \in Block, p \in Object : Keeps(p, c)' <=> Keeps(p, c) \/ (p = o /\ c = e)
      BY <2>1, <2>10 DEF Keeps
    <2>13. \A c \in Block : Holders(c)' = Holders(c) + IF c = e THEN 1 ELSE 0
      <3> TAKE c \in Block
      <3>1. Cardinality(Positions(queue', c))
              = Cardinality(Positions(queue, c)) + IF e = c THEN 1 ELSE 0
        BY <2>1, <2>2, <2>3, <2>7, PrependCounts
      <3>2. /\ InHand(c)' = InHand(c) /\ Dispatching(c)' = Dispatching(c)
            /\ Positions(deferred, c)' = Positions(deferred, c)
            /\ Cardinality(Positions(queue, c))' = Cardinality(Positions(queue', c))
        BY <2>1, <2>4 DEF InHand, Dispatching
      <3> QED
        BY <2>2, <3>1, <3>2, HoldersType DEF Holders
    <2>14. RefCountsHolders'
      BY <2>1, <2>13, CountRises
    <2>15. NoBlockLeaks'
      BY <2>1, <2>2, <2>13, HoldersType DEF LifeInv, NoBlockLeaks
    <2>16. Positioned'
      BY <2>1, <2>2, <2>3, <2>4, ConstantsAre DEF LifeInv, Positioned, e
    <2>17. FreeIsUnheld' /\ FreshIsAlone'
      <3>1. FreeIsUnheld'
        BY <2>1, <2>2, <2>3, <2>12 DEF LifeInv, FreeIsUnheld, TypeOK
      <3>2. FreshIsAlone'
        BY <2>1, <2>4, <2>6, <2>12, <2>2 DEF LifeInv, FreshIsAlone
      <3> QED
        BY <3>1, <3>2
    <2>18. ComesOnce'
      BY <2>1, <2>4, <2>6, <2>12, ConstantsAre DEF LifeInv, ComesOnce
    <2>19. OnePublisher'
      BY <2>1, <2>4, ConstantsAre DEF LifeInv, OnePublisher
    <2>20. RecallIsQueued'
      <3>1. \A p \in Object : p # o => queue'[p] = queue[p]
        BY <2>7 DEF Prepended
      <3> QED
        BY <2>1, <2>4, <2>8, <3>1, ConstantsAre DEF LifeInv, RecallIsQueued, e
    <2>21. KeptTwice'
      <3> SUFFICES ASSUME NEW c \in Block, NEW p \in Object
                   PROVE  /\ Once(queue', p, c) /\ Once(deferred, p, c)
                          /\ In(queue', p, c) => current[p] # c /\ ~In(deferred, p, c)
                          /\ work[p] = c /\ current[p] = c => ~In(deferred, p, c)
                          /\ pc'[p] = "recall" /\ work[p] = c => ~Keeps(p, c)'
        BY <2>1 DEF KeptTwice
      <3>1. /\ Once(queue, p, c) /\ Once(deferred, p, c)
            /\ In(queue, p, c) => current[p] # c /\ ~In(deferred, p, c)
            /\ work[p] = c /\ current[p] = c => ~In(deferred, p, c)
            /\ pc[p] = "recall" /\ work[p] = c => ~Keeps(p, c)
        BY DEF LifeInv, KeptTwice
      <3>2. p = o /\ c = e => /\ current[p] # c /\ ~In(queue, p, c) /\ ~In(deferred, p, c)
        BY <2>5 DEF Keeps
      <3>3. pc'[p] = "recall" => pc[p] = "recall" /\ p # o
        BY <2>4, ConstantsAre
      <3> QED
        BY <2>10, <2>11, <2>12, <3>1, <3>2, <3>3
    <2>22. OutsidersOwn'
      BY <2>1 DEF LifeInv, OutsidersOwn
    <2> QED
      BY <2>9, <2>14, <2>15, <2>16, <2>17, <2>18, <2>19, <2>20, <2>21, <2>22 DEF LifeInv
  <1> QED
    BY <1>1, <1>2

LEMMA RecallReleaseKeepsLifeInv ==
  ASSUME LifeInv, NEW o \in Object, RecallRelease(o)
  PROVE  LifeInv'
  <1>1. CASE work[o] \in Block /\ ref[work[o]] < 2
    BY <1>1, FailKeepsLifeInv DEF RecallRelease, Reasons
  <1>2. CASE ~(work[o] \in Block /\ ref[work[o]] < 2)
    <2>1. o \in Actor
      BY ConstantsAre
    <2>2. pc[o] = "recalled"
      BY DEF RecallRelease
    <2>3. HandlerLabel(o) = "handling"
      BY <2>1, <2>2, ActorIs DEF HandlerLabel
    <2>4. work[o] \in Block => ref[work[o]] >= 2
      <3>1. work[o] \in Block => ref[work[o]] \in Nat
        BY DEF LifeInv, TypeOK
      <3> QED
        BY <1>2, <3>1
    <2>5. Drops(o)
      BY <1>2, <2>3, <2>4 DEF RecallRelease, Drops
    <2> QED
      BY <2>1, <2>5, DropsKeepLifeInv
  <1> QED
    BY <1>1, <1>2

(* Each reference has its place through every step. *)
LEMMA StepKeepsLifeInv ==
  ASSUME LifeInv, [Next]_vars
  PROVE  LifeInv'
  <1>1. CASE UNCHANGED vars
    <2>1. /\ UNCHANGED <<free, ref, queue, deferred, current, pc, work, subs>>
          /\ list' \subseteq Object /\ failed' \in {"no"} \cup Reasons
      BY <1>1 DEF vars, LifeInv, TypeOK, Reasons
    <2> QED
      BY <2>1, QuietKeepsLifeInv
  <1>2. ASSUME NEW a \in Actor, Allocate(a) \/ PublishStatic(a) \/ BeginPublish(a) \/ PostNext(a)
        PROVE  LifeInv'
    BY <1>2, AllocateKeepsLifeInv, PublishStaticKeepsLifeInv, BeginPublishKeepsLifeInv,
       PostNextKeepsLifeInv
  <1>3. ASSUME NEW a \in Actor, EndMulticast(a) \/ Collect(a) \/ Release(a)
        PROVE  LifeInv'
    BY <1>3, EndMulticastKeepsLifeInv, CollectKeepsLifeInv, ReleaseKeepsLifeInv
  <1>4. ASSUME NEW o \in Object, Take(o) \/ Subscribe(o) \/ Unsubscribe(o) \/ EndDispatch(o)
        PROVE  LifeInv'
    BY <1>4, TakeKeepsLifeInv, SubscribersKeepLifeInv, EndDispatchKeepsLifeInv
  <1>5. ASSUME NEW o \in Object, Recall(o) \/ Flush(o)
        PROVE  LifeInv'
    <2>1. CASE Recall(o)
      <3>1. TakeDeferred(o, "recall") /\ deferred[o] # <<>> /\ Head(deferred[o]) # current[o]
        BY <2>1 DEF Recall, TakeDeferred
      <3> QED
        BY <3>1, TakeDeferredKeepsLifeInv
    <2>2. CASE Flush(o)
      BY <2>2, TakeDeferredKeepsLifeInv DEF Flush
    <2> QED
      BY <1>5, <2>1, <2>2
  <1>6. ASSUME NEW o \in Object, Defer(o) \/ RecallPost(o) \/ RecallRelease(o)
        PROVE  LifeInv'
    BY <1>6, DeferKeepsLifeInv, RecallPostKeepsLifeInv, RecallReleaseKeepsLifeInv
  <1> QED
    BY <1>1, <1>2, <1>3, <1>4, <1>5, <1>6 DEF Next

THEOREM LifeInductive == Spec => []LifeInv
  BY InitLifeInv, StepKeepsLifeInv, PTL DEF Spec



-----------------------------------------------------------------------------
(* No assertion of the counts fails, when the outside publishers are interrupts. *)

LEMMA PublishFindsRoom ==
  ASSUME LifeInv, NEW a \in Actor, pc[a] = "publish", work[a] \in Block
  PROVE  LimitHolds(work[a])
  <1> DEFINE b == work[a]
  <1>1. /\ \A o \in Object : ~Keeps(o, b)
        /\ \A x \in Actor : work[x] = b => x = a
    BY DEF LifeInv, FreshIsAlone
  <1>2. InHand(b) = {}
    BY <1>1 DEF InHand
  <1>3. Holders(b) = 0
    BY <1>1, <1>2, UnheldIsZero DEF LifeInv
  <1>4. b \notin free
    BY ActorIs
  <1>5. ref[b] = 0
    BY <1>3, <1>4 DEF LifeInv, RefCountsHolders
  <1> QED
    BY <1>5, ConstantsAre DEF LimitHolds, REF_LIMIT

LEMMA PostFindsRoom ==
  ASSUME LifeInv, PREEMPTS, NEW a \in Actor, MayRun(a), pc[a] = "multicast",
         work[a] \in Block, NEW o \in subs[a]
  PROVE  LimitHolds(work[a])
  <1> DEFINE b == work[a]
  <1>1. b \in Block /\ b \notin free /\ o \in Object /\ TypeOK /\ KeptTwice
    BY ActorIs DEF LifeInv, TypeOK
  <1>2. ~Keeps(o, b)
    BY <1>1 DEF LifeInv, ComesOnce
  <1>3. CASE a \in Object
    <2>1. \A x \in Outsider : work[x] # b
      BY <1>3, <1>1, ObjectsWait, ConstantsAre DEF Event
    <2>2. Holders(b) < REF_LIMIT
      BY <1>1, <1>2, <2>1, ObjectsWithinLimit DEF Keeps
    <2> QED
      BY <1>1, <2>2 DEF LifeInv, RefCountsHolders, LimitHolds
  <1>4. CASE a \in Outsider
    <2>1. /\ \A y \in Outsider : work[y] = b => y = a
          /\ \A p \in Object : work[p] # b /\ current[p] # b /\ ~In(deferred, p, b)
      BY <1>1, <1>4 DEF LifeInv, OutsidersOwn
    <2>2. Holders(b) < REF_LIMIT
      BY <1>1, <1>2, <1>4, <2>1, OutsiderWithinLimit DEF Keeps
    <2> QED
      BY <1>1, <2>2 DEF LifeInv, RefCountsHolders, LimitHolds
  <1> QED
    BY <1>3, <1>4, ActorIs

LEMMA DeferFindsRoom ==
  ASSUME LifeInv, PREEMPTS, NEW o \in Object, MayRun(o), pc[o] = "handling",
         current[o] \in Block, current[o] \notin ToSet(deferred[o])
  PROVE  LimitHolds(current[o])
  <1> DEFINE b == current[o]
  <1>1. b \in Block /\ TypeOK /\ KeptTwice
    BY DEF LifeInv
  <1>2. b \notin free
    BY DEF LifeInv, FreeIsUnheld, Keeps
  <1>3. work[o] # b
    BY ActorIs, ConstantsAre DEF Event
  <1>4. ~In(deferred, o, b)
    BY DEF In, ToSet
  <1>5. \A x \in Outsider : work[x] # b
    BY <1>1, ObjectsWait, ConstantsAre DEF Event
  <1>6. Holders(b) < REF_LIMIT
    <2> HIDE DEF b
    <2> QED
      BY <1>1, <1>3, <1>4, <1>5, ObjectsWithinLimit
  <1> QED
    BY <1>1, <1>2, <1>6 DEF LifeInv, RefCountsHolders, LimitHolds

LEMMA RecallFindsRoom ==
  ASSUME LifeInv, PREEMPTS, NEW o \in Object, MayRun(o), pc[o] = "recall", work[o] \in Block
  PROVE  LimitHolds(work[o])
  <1> DEFINE b == work[o]
  <1>1. b \in Block /\ b \notin free /\ TypeOK /\ KeptTwice
    BY ActorIs, ConstantsAre DEF LifeInv
  <1>2. ~Keeps(o, b)
    BY <1>1 DEF KeptTwice
  <1>3. \A x \in Outsider : work[x] # b
    BY <1>1, ObjectsWait, ConstantsAre DEF Event
  <1>4. Holders(b) < REF_LIMIT
    BY <1>1, <1>2, <1>3, ObjectsWithinLimit DEF Keeps
  <1> QED
    BY <1>1, <1>4 DEF LifeInv, RefCountsHolders, LimitHolds

(* What is recalled is in hand and queued, so that the deferred queue's reference is *)
(* not the last.                                                                     *)
LEMMA RecalledIsHeldTwice ==
  ASSUME LifeInv, NEW o \in Object, pc[o] = "recalled", work[o] \in Block
  PROVE  ref[work[o]] >= 2
  <1> DEFINE b == work[o]
  <1>1. b \in Block /\ b \notin free /\ TypeOK /\ o \in Actor
    BY ActorIs, ConstantsAre DEF LifeInv
  <1>2. queue[o] # <<>> /\ Head(queue[o]) = b
    BY DEF LifeInv, RecallIsQueued
  <1>3. o \in InHand(b)
    BY <1>1 DEF InHand
  <1> HIDE DEF b
  <1>4. IsFiniteSet(InHand(b)) /\ Cardinality(InHand(b)) >= 1
    BY <1>3, HandsFinite, OnlyOne
  <1>5. queue \in Queues /\ Bounded(queue)
    BY <1>1, TypesOfQueues
  <1>6. Shortened(queue, [queue EXCEPT ![o] = Tail(@)], o)
    BY <1>2, <1>5, TailIs
  <1> DEFINE r == [queue EXCEPT ![o] = Tail(@)]
  <1> HIDE DEF r
  <1>7. Shortened(queue, r, o)
    BY <1>6 DEF r
  <1>8. Cardinality(Positions(queue, b)) = Cardinality(Positions(r, b)) + 1
    BY <1>2, <1>5, <1>7, TailCounts
  <1>9. Cardinality(Positions(r, b)) \in Nat
    BY <1>7, PositionsFinite DEF Shortened
  <1>10. ref[b] = Holders(b)
    BY <1>1 DEF LifeInv, RefCountsHolders
  <1>11. Holders(b) >= 2
    BY <1>1, <1>4, <1>8, <1>9, HoldersType DEF Holders
  <1>12. ref[b] >= 2
    BY <1>10, <1>11
  <1> QED
    BY <1>12 DEF b

Asserted == {"limit", "recall", "release"}

LEMMA StepFailsNoAssertion ==
  ASSUME LifeInv, PREEMPTS, CountAssertionsHold, [Next]_vars
  PROVE  CountAssertionsHold'
  <1> SUFFICES failed' \notin Asserted
    BY DEF CountAssertionsHold, Asserted
  <1>0. failed \notin Asserted
    BY DEF CountAssertionsHold, Asserted
  <1>1. CASE UNCHANGED vars
    BY <1>0, <1>1 DEF vars
  <1>2. ASSUME NEW a \in Actor, Allocate(a) \/ PublishStatic(a) \/ EndMulticast(a) \/ Collect(a)
        PROVE  failed' \notin Asserted
    BY <1>0, <1>2 DEF Allocate, PublishStatic, EndMulticast, Collect, Fail, Asserted
  <1>3. ASSUME NEW a \in Actor, BeginPublish(a) PROVE failed' \notin Asserted
    <2>1. LimitHolds(work[a])
      BY <1>3, PublishFindsRoom DEF BeginPublish, LimitHolds
    <2> QED
      BY <1>0, <1>3, <2>1 DEF BeginPublish
  <1>4. ASSUME NEW a \in Actor, PostNext(a) PROVE failed' \notin Asserted
    <2>1. PICK o \in subs[a] :
            IF Len(queue[o]) = QUEUE_LENGTH THEN Fail("queue")
            ELSE IF ~LimitHolds(work[a]) THEN Fail("limit")
            ELSE failed' = failed
      BY <1>4 DEF PostNext
    <2>2. LimitHolds(work[a])
      BY <1>4, PostFindsRoom DEF PostNext, LimitHolds
    <2> QED
      BY <1>0, <2>1, <2>2 DEF Fail, Asserted
  <1>5. ASSUME NEW a \in Actor, Release(a) PROVE failed' \notin Asserted
    <2>1. work[a] \in Block /\ work[a] \notin free
      BY <1>5, ActorIs DEF Release
    <2> QED
      BY <1>0, <1>5, <2>1 DEF Release
  <1>6. ASSUME NEW o \in Object,
               Take(o) \/ Subscribe(o) \/ Unsubscribe(o) \/ EndDispatch(o) \/ Recall(o) \/ Flush(o)
        PROVE  failed' \notin Asserted
    BY <1>0, <1>6 DEF Take, Subscribe, Unsubscribe, EndDispatch, Recall, Flush, TakeDeferred
  <1>7. ASSUME NEW o \in Object, Defer(o) PROVE failed' \notin Asserted
    <2>1. LimitHolds(current[o])
      BY <1>7, DeferFindsRoom DEF Defer, LimitHolds
    <2> QED
      BY <1>0, <1>7, <2>1 DEF Defer, Fail, Asserted
  <1>8. ASSUME NEW o \in Object, RecallPost(o) PROVE failed' \notin Asserted
    <2>1. LimitHolds(work[o])
      BY <1>8, RecallFindsRoom DEF RecallPost, LimitHolds
    <2> QED
      BY <1>0, <1>8, <2>1 DEF RecallPost, Fail, Asserted
  <1>9. ASSUME NEW o \in Object, RecallRelease(o) PROVE failed' \notin Asserted
    <2>1. work[o] \in Block => ~(ref[work[o]] < 2)
      <3>1. work[o] \in Block => ref[work[o]] \in Nat
        BY DEF LifeInv, TypeOK
      <3> QED
        BY <1>9, <3>1, RecalledIsHeldTwice DEF RecallRelease
    <2> QED
      BY <1>0, <1>9, <2>1 DEF RecallRelease
  <1> QED
    BY <1>1, <1>2, <1>3, <1>4, <1>5, <1>6, <1>7, <1>8, <1>9 DEF Next

-----------------------------------------------------------------------------
(* The variables have their types, and no queue is longer than its buffer. *)
THEOREM LifecycleTypeCorrect == Spec => []TypeOK
  <1>1. LifeInv => TypeOK
    BY DEF LifeInv
  <1> QED
    BY <1>1, LifeInductive, PTL

(* Every block is free or in somebody's hands and never both: nothing that is queued, *)
(* deferred, dispatched or about to be collected has been released, and none leaks.   *)
THEOREM BlocksStayAccounted == Spec => []BlocksAreAccounted
  <1>1. ASSUME LifeInv PROVE BlocksAreAccounted
    <2>1. ASSUME NEW b \in free PROVE Holders(b) = 0 /\ \A a \in Actor : work[a] # b
      <3>1. b \in Block
        BY <1>1 DEF LifeInv, TypeOK
      <3>2. (\A o \in Object : ~Keeps(o, b)) /\ (\A a \in Actor : work[a] # b)
        BY <1>1 DEF LifeInv, FreeIsUnheld
      <3>3. InHand(b) = {}
        BY <3>2 DEF InHand
      <3> QED
        BY <1>1, <3>1, <3>2, <3>3, UnheldIsZero DEF LifeInv
    <2> QED
      BY <1>1, <2>1 DEF BlocksAreAccounted, FreeBlocksAreUnheld, LifeInv
  <1> QED
    BY <1>1, LifeInductive, PTL

(* The reference count of a block is the number of its references, whether outside *)
(* publishers are threads or interrupts.                                           *)
THEOREM CountsFollowReferences == Spec => []RefCountsHolders
  <1>1. LifeInv => RefCountsHolders
    BY DEF LifeInv
  <1> QED
    BY <1>1, LifeInductive, PTL

(* When they are interrupts, no assertion of a count fails: no event has as many      *)
(* references as two per object when it is to get one more, a recall never drops the  *)
(* last one, and no block is released into a full pool.                               *)
THEOREM CountsStayExact == ASSUME PREEMPTS PROVE Spec => []CountsAreExact
  <1>1. Init => CountAssertionsHold
    BY DEF Init, CountAssertionsHold
  <1>2. LifeInv /\ CountAssertionsHold /\ [Next]_vars => CountAssertionsHold'
    BY StepFailsNoAssertion
  <1>3. LifeInv /\ CountAssertionsHold => CountsAreExact
    BY DEF LifeInv, CountsAreExact
  <1> QED
    BY <1>1, <1>2, <1>3, LifeInductive, PTL DEF Spec

=============================================================================
