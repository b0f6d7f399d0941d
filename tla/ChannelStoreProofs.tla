------------------------- MODULE ChannelStoreProofs -------------------------
(***************************************************************************)
(* A channel loses no value and no party: for any steps, readers,          *)
(* capacities and buffers, and any number of values sent.                  *)
(***************************************************************************)
EXTENDS ChannelStore, FiniteSetTheorems, FunctionTheorems, SequenceTheorems, TLAPS

-----------------------------------------------------------------------------
(* What a filter lets through. *)

(* An element that stays moves to the place its rank gives it. *)
LEMMA SelectedRanks ==
  ASSUME NEW T, NEW s \in Seq(T), NEW S
  PROVE  LET at == At(s, S)
             n == Cardinality(at)
         IN  /\ n \in Nat /\ at \subseteq 1 .. Len(s)
             /\ \A i \in at : Rank(at, i) \in 1 .. n
             /\ \A i, j \in at : i < j => Rank(at, i) < Rank(at, j)
             /\ \A k \in 1 .. n : \E i \in at : Rank(at, i) = k
  <1> DEFINE at == At(s, S)
             n == Cardinality(at)
             upto(i) == {j \in at : j <= i}
             rank == [i \in at |-> Rank(at, i)]
  <1>1. at \subseteq 1 .. Len(s) /\ Len(s) \in Nat
    BY LenProperties DEF At
  <1> HIDE DEF at
  <1>2. IsFiniteSet(at) /\ n \in Nat
    <2>1. IsFiniteSet(1 .. Len(s))
      BY <1>1, FS_Interval
    <2> QED
      BY <1>1, <2>1, FS_Subset, FS_CardinalityType
  <1>3. \A i \in at : IsFiniteSet(upto(i)) /\ Cardinality(upto(i)) \in Nat
                      /\ Cardinality(upto(i)) <= n /\ Rank(at, i) = Cardinality(upto(i))
    BY <1>2, FS_Subset, FS_CardinalityType DEF Rank
  <1>4. ASSUME NEW i \in at PROVE Rank(at, i) \in 1 .. n
    <2>1. i \in upto(i)
      BY <1>1
    <2>2. Cardinality(upto(i)) # 0
      BY <1>3, <2>1, FS_EmptySet
    <2>3. Rank(at, i) \in Nat /\ Rank(at, i) <= n /\ Rank(at, i) # 0
      BY <1>3, <2>2
    <2> HIDE DEF n
    <2> QED
      BY <1>2, <2>3
  <1>5. ASSUME NEW i \in at, NEW j \in at, i < j PROVE Rank(at, i) < Rank(at, j)
    <2>1. upto(i) \in SUBSET upto(j)
      <3>1. \A x \in at : x \in Int
        BY <1>1
      <3>2. \A x \in at : x <= i => x <= j
        BY <1>5, <3>1
      <3> QED
        BY <3>2
    <2>2. upto(i) # upto(j)
      <3>1. j \in upto(j) /\ j \notin upto(i)
        BY <1>1, <1>5
      <3> QED
        BY <3>1
    <2>3. Cardinality(upto(i)) <= Cardinality(upto(j)) /\ Cardinality(upto(i)) # Cardinality(upto(j))
      BY <1>3, <2>1, <2>2, FS_Subset
    <2>4. /\ Rank(at, i) \in Nat /\ Rank(at, j) \in Nat
          /\ Rank(at, i) <= Rank(at, j) /\ Rank(at, i) # Rank(at, j)
      BY <1>3, <2>3
    <2> QED
      BY <2>4
  <1> HIDE DEF n, upto
  <1>6. rank \in Injection(at, 1 .. n)
    <2>1. rank \in [at -> 1 .. n]
      BY <1>4
    <2>2. ASSUME NEW i \in at, NEW j \in at, rank[i] = rank[j] PROVE i = j
      <3>1. Rank(at, i) = Rank(at, j) /\ Rank(at, i) \in Nat
        BY <1>2, <1>4, <2>2
      <3>2. i < j => Rank(at, i) < Rank(at, j)
        BY <1>5
      <3>3. j < i => Rank(at, j) < Rank(at, i)
        BY <1>5
      <3>4. ~(i < j) /\ ~(j < i)
        BY <3>1, <3>2, <3>3
      <3> QED
        BY <1>1, <3>4
    <2> QED
      BY <2>1, <2>2 DEF Injection, IsInjective
  <1>7. Cardinality(1 .. n) = n /\ IsFiniteSet(1 .. n)
    BY <1>2, FS_Interval
  <1>8. rank \in Surjection(at, 1 .. n)
    BY <1>6, <1>7, FS_Injection DEF n
  <1>9. ASSUME NEW k \in 1 .. n PROVE \E i \in at : Rank(at, i) = k
    BY <1>8 DEF Surjection
  <1> QED
    BY <1>1, <1>2, <1>4, <1>5, <1>9 DEF at, n

(* Each element of the result stands for one of the sequence, in the same order,
   and each that passes the filter is among them. *)
LEMMA SelectedFrom ==
  ASSUME NEW T, NEW s \in Seq(T), NEW S
  PROVE  LET t == Selected(s, S)
         IN  /\ t \in Seq(T)
             /\ \E f \in [1 .. Len(t) -> 1 .. Len(s)] :
                  /\ \A k \in 1 .. Len(t) : t[k] = s[f[k]] /\ t[k] \in S
                  /\ \A j, k \in 1 .. Len(t) : j < k => f[j] < f[k]
                  /\ \A i \in 1 .. Len(s) : s[i] \in S => \E k \in 1 .. Len(t) : f[k] = i
  <1> DEFINE at == At(s, S)
             n == Cardinality(at)
             t == Selected(s, S)
             f == [k \in 1 .. n |-> CHOOSE i \in at : Rank(at, i) = k]
  <1>1. /\ n \in Nat /\ at \subseteq 1 .. Len(s)
        /\ \A i \in at : Rank(at, i) \in 1 .. n
        /\ \A i, j \in at : i < j => Rank(at, i) < Rank(at, j)
        /\ \A k \in 1 .. n : \E i \in at : Rank(at, i) = k
    BY SelectedRanks
  <1>2. Len(s) \in Nat /\ \A i \in 1 .. Len(s) : s[i] \in T
    BY LenProperties, ElementOfSeq
  <1>3. \A k \in 1 .. n : f[k] \in at /\ Rank(at, f[k]) = k
    BY <1>1
  <1>4. t = [k \in 1 .. n |-> s[f[k]]]
    BY DEF Selected
  <1>5. \A i \in at : s[i] \in S
    BY DEF At
  <1>6. \A i \in 1 .. Len(s) : s[i] \in S => i \in at
    BY LenProperties DEF At
  <1>7. f = [k \in 1 .. n |-> f[k]]
    OBVIOUS
  <1> HIDE DEF f, t, n, at
  <1>8. t \in Seq(T) /\ Len(t) = n
    <2>1. t \in [1 .. n -> T]
      BY <1>1, <1>2, <1>3, <1>4
    <2> QED
      BY <1>1, <2>1
  <1>9. f \in [1 .. n -> 1 .. Len(s)]
    BY <1>1, <1>3, <1>7
  <1>10. \A k \in 1 .. n : t[k] = s[f[k]] /\ t[k] \in S
    BY <1>3, <1>4, <1>5
  <1>11. (\A i \in at : i \in Int) /\ (\A k \in 1 .. n : k \in Int)
    <2>1. \A i \in 1 .. Len(s) : i \in Int
      OBVIOUS
    <2>2. \A i \in at : i \in 1 .. Len(s)
      BY <1>1
    <2> QED
      BY <2>1, <2>2
  <1>12. ASSUME NEW j \in 1 .. n, NEW k \in 1 .. n, j < k PROVE f[j] < f[k]
    <2>1. f[j] \in at /\ f[k] \in at /\ Rank(at, f[j]) = j /\ Rank(at, f[k]) = k
      BY <1>3
    <2>2. f[k] < f[j] => Rank(at, f[k]) < Rank(at, f[j])
      BY <1>1, <2>1
    <2>3. j \in Int /\ k \in Int /\ f[j] \in Int /\ f[k] \in Int
      BY <1>11, <2>1
    <2>4. f[j] # f[k] /\ ~(f[k] < f[j])
      BY <1>12, <2>1, <2>2, <2>3
    <2> QED
      BY <2>3, <2>4
  <1>13. ASSUME NEW i \in 1 .. Len(s), s[i] \in S PROVE \E k \in 1 .. n : f[k] = i
    <2>1. i \in at /\ Rank(at, i) \in 1 .. n
      BY <1>1, <1>6, <1>13
    <2>2. f[Rank(at, i)] \in at /\ Rank(at, f[Rank(at, i)]) = Rank(at, i)
      BY <1>3, <2>1
    <2> DEFINE k == Rank(at, i)
    <2>3. f[k] < i => Rank(at, f[k]) < k
      BY <1>1, <2>1, <2>2
    <2>4. i < f[k] => k < Rank(at, f[k])
      BY <1>1, <2>1, <2>2
    <2>5. k \in Int /\ f[k] \in Int /\ i \in Int
      BY <1>11, <2>1, <2>2
    <2>6. Rank(at, f[k]) = k /\ k \in 1 .. n
      BY <2>1, <2>2
    <2> HIDE DEF k
    <2>7. f[k] = i
      BY <2>3, <2>4, <2>5, <2>6
    <2> QED
      BY <2>6, <2>7
  <1>14. \E g \in [1 .. Len(t) -> 1 .. Len(s)] :
            /\ \A k \in 1 .. Len(t) : t[k] = s[g[k]] /\ t[k] \in S
            /\ \A j, k \in 1 .. Len(t) : j < k => g[j] < g[k]
            /\ \A i \in 1 .. Len(s) : s[i] \in S => \E k \in 1 .. Len(t) : g[k] = i
    BY <1>8, <1>9, <1>10, <1>12, <1>13
  <1> QED
    BY <1>8, <1>14 DEF t

LEMMA RangeIs ==
  ASSUME NEW S, NEW q \in Seq(S)
  PROVE  /\ Range(q) \subseteq S
         /\ Range(q) = {q[i] : i \in 1 .. Len(q)}
  BY ElementOfSeq, LenProperties DEF Range

(* The members of the sequences the module builds. *)
LEMMA SelectedRange ==
  ASSUME NEW T, NEW s \in Seq(T), NEW S
  PROVE  Selected(s, S) \in Seq(T) /\ Range(Selected(s, S)) = Range(s) \cap S
  <1> DEFINE t == Selected(s, S)
  <1>1. t \in Seq(T)
    BY SelectedFrom
  <1>2. PICK f \in [1 .. Len(t) -> 1 .. Len(s)] :
          /\ \A k \in 1 .. Len(t) : t[k] = s[f[k]] /\ t[k] \in S
          /\ \A i \in 1 .. Len(s) : s[i] \in S => \E k \in 1 .. Len(t) : f[k] = i
    BY SelectedFrom
  <1> HIDE DEF t
  <1>3. Range(t) = {t[k] : k \in 1 .. Len(t)} /\ Range(s) = {s[i] : i \in 1 .. Len(s)}
    BY <1>1, RangeIs
  <1>4. Range(t) \subseteq Range(s) \cap S
    BY <1>2, <1>3
  <1>5. ASSUME NEW i \in 1 .. Len(s), s[i] \in S PROVE s[i] \in Range(t)
    BY <1>2, <1>3, <1>5
  <1> QED
    BY <1>1, <1>3, <1>4, <1>5 DEF t

LEMMA ConcatRange ==
  ASSUME NEW T, NEW s \in Seq(T), NEW t \in Seq(T)
  PROVE  s \o t \in Seq(T) /\ Range(s \o t) = Range(s) \cup Range(t)
  BY ConcatProperties, RangeConcatenation

LEMMA AppendRange ==
  ASSUME NEW T, NEW s \in Seq(T), NEW x \in T
  PROVE  Append(s, x) \in Seq(T) /\ Range(Append(s, x)) = Range(s) \cup {x}
  <1>1. /\ Len(s) \in Nat /\ Append(s, x) \in Seq(T) /\ Len(Append(s, x)) = Len(s) + 1
        /\ \A i \in 1 .. Len(s) : Append(s, x)[i] = s[i]
        /\ Append(s, x)[Len(s) + 1] = x
    BY AppendProperties, LenProperties
  <1>2. /\ Range(s) = {s[i] : i \in 1 .. Len(s)}
        /\ Range(Append(s, x)) = {Append(s, x)[i] : i \in 1 .. Len(s) + 1}
    BY <1>1, RangeIs
  <1>3. \A i \in 1 .. Len(s) + 1 : i \in 1 .. Len(s) \/ i = Len(s) + 1
    BY <1>1
  <1>4. 1 .. Len(s) \subseteq 1 .. Len(s) + 1 /\ Len(s) + 1 \in 1 .. Len(s) + 1
    BY <1>1
  <1> QED
    BY <1>1, <1>2, <1>3, <1>4

LEMMA OneMember ==
  ASSUME NEW T, NEW x \in T
  PROVE  <<x>> \in Seq(T) /\ Range(<<x>>) = {x}
  BY DEF Range

LEMMA EmptyRange ==
  ASSUME NEW T
  PROVE  <<>> \in Seq(T) /\ Len(<<>>) = 0 /\ Range(<<>>) = {}
  BY DEF Range

(* A sequence is its head and its tail. *)
LEMMA TailRange ==
  ASSUME NEW T, NEW s \in Seq(T), s # <<>>
  PROVE  /\ Head(s) \in T /\ Tail(s) \in Seq(T) /\ Len(Tail(s)) = Len(s) - 1
         /\ Len(s) \in Nat \ {0} /\ Head(s) = s[1]
         /\ \A i \in 1 .. Len(s) - 1 : Tail(s)[i] = s[i + 1]
         /\ Range(s) = {Head(s)} \cup Range(Tail(s))
  <1>1. /\ Head(s) \in T /\ Tail(s) \in Seq(T) /\ Len(Tail(s)) = Len(s) - 1
        /\ Len(s) \in Nat \ {0} /\ Head(s) = s[1]
        /\ \A i \in 1 .. Len(s) - 1 : Tail(s)[i] = s[i + 1]
    BY HeadTailProperties, EmptySeq, LenProperties, ElementOfSeq
  <1>2. /\ Range(s) = {s[i] : i \in 1 .. Len(s)}
        /\ Range(Tail(s)) = {Tail(s)[i] : i \in 1 .. Len(s) - 1}
    BY <1>1, RangeIs
  <1>3. ASSUME NEW i \in 1 .. Len(s), i # 1 PROVE s[i] \in Range(Tail(s))
    <2>1. i - 1 \in 1 .. Len(s) - 1 /\ i - 1 + 1 = i
      BY <1>1, <1>3
    <2>2. Tail(s)[i - 1] = s[i]
      BY <1>1, <2>1
    <2> QED
      BY <1>2, <2>1, <2>2
  <1>4. ASSUME NEW i \in 1 .. Len(s) - 1 PROVE Tail(s)[i] \in Range(s)
    <2>1. i + 1 \in 1 .. Len(s)
      BY <1>1
    <2> QED
      BY <1>1, <1>2, <2>1
  <1>5. 1 \in 1 .. Len(s) /\ Head(s) \in Range(s)
    BY <1>1, <1>2
  <1>6. Range(s) \subseteq {Head(s)} \cup Range(Tail(s))
    BY <1>1, <1>2, <1>3
  <1>7. Range(Tail(s)) \subseteq Range(s)
    BY <1>2, <1>4
  <1> QED
    BY <1>1, <1>5, <1>6, <1>7

-----------------------------------------------------------------------------
(* Lines in which nobody stands twice. *)

LEMMA OnceIs ==
  ASSUME NEW T, NEW s \in Seq(T)
  PROVE  IsInjective(s) <=> \A i, j \in 1 .. Len(s) : s[i] = s[j] => i = j
  BY LenProperties DEF IsInjective

LEMMA AppendOnce ==
  ASSUME NEW T, NEW s \in Seq(T), NEW x \in T, IsInjective(s), x \notin Range(s)
  PROVE  IsInjective(Append(s, x))
  <1>1. /\ Len(s) \in Nat /\ Append(s, x) \in Seq(T) /\ Len(Append(s, x)) = Len(s) + 1
        /\ \A i \in 1 .. Len(s) : Append(s, x)[i] = s[i]
        /\ Append(s, x)[Len(s) + 1] = x
    BY AppendProperties, LenProperties
  <1>2. /\ \A i, j \in 1 .. Len(s) : s[i] = s[j] => i = j
        /\ \A i \in 1 .. Len(s) : s[i] # x
    BY OnceIs, RangeIs
  <1>3. \A i \in 1 .. Len(s) + 1 : i \in 1 .. Len(s) \/ i = Len(s) + 1
    BY <1>1
  <1>4. \A i, j \in 1 .. Len(s) + 1 : Append(s, x)[i] = Append(s, x)[j] => i = j
    BY <1>1, <1>2, <1>3
  <1> QED
    BY <1>1, <1>4, OnceIs

LEMMA TailOnce ==
  ASSUME NEW T, NEW s \in Seq(T), s # <<>>, IsInjective(s)
  PROVE  IsInjective(Tail(s)) /\ Head(s) \notin Range(Tail(s))
  <1>1. /\ Tail(s) \in Seq(T) /\ Len(Tail(s)) = Len(s) - 1 /\ Len(s) \in Nat \ {0}
        /\ Head(s) = s[1] /\ \A i \in 1 .. Len(s) - 1 : Tail(s)[i] = s[i + 1]
    BY TailRange
  <1>2. \A i, j \in 1 .. Len(s) : s[i] = s[j] => i = j
    BY OnceIs
  <1>3. \A i \in 1 .. Len(s) - 1 : i + 1 \in 1 .. Len(s) /\ i + 1 # 1 /\ i \in Int
    BY <1>1
  <1>4. ASSUME NEW i \in 1 .. Len(s) - 1, NEW j \in 1 .. Len(s) - 1, Tail(s)[i] = Tail(s)[j]
        PROVE  i = j
    <2>1. i + 1 = j + 1
      BY <1>1, <1>2, <1>3, <1>4
    <2> QED
      BY <1>3, <2>1
  <1>5. ASSUME NEW i \in 1 .. Len(s) - 1 PROVE Tail(s)[i] # Head(s)
    <2>1. 1 \in 1 .. Len(s)
      BY <1>1
    <2> QED
      BY <1>1, <1>2, <1>3, <2>1
  <1>6. Range(Tail(s)) = {Tail(s)[i] : i \in 1 .. Len(s) - 1}
    BY <1>1, RangeIs
  <1> QED
    BY <1>1, <1>4, <1>5, <1>6, OnceIs

LEMMA SelectedOnce ==
  ASSUME NEW T, NEW s \in Seq(T), NEW S, IsInjective(s)
  PROVE  IsInjective(Selected(s, S))
  <1> DEFINE t == Selected(s, S)
  <1>1. t \in Seq(T)
    BY SelectedFrom
  <1>2. PICK f \in [1 .. Len(t) -> 1 .. Len(s)] :
          /\ \A k \in 1 .. Len(t) : t[k] = s[f[k]] /\ t[k] \in S
          /\ \A j, k \in 1 .. Len(t) : j < k => f[j] < f[k]
    BY SelectedFrom
  <1> HIDE DEF t
  <1>3. \A i, j \in 1 .. Len(s) : s[i] = s[j] => i = j
    BY OnceIs
  <1>4. /\ Len(t) \in Nat /\ \A k \in 1 .. Len(t) : k \in Int
        /\ \A k \in 1 .. Len(s) : k \in Int
    BY <1>1, LenProperties
  <1>5. ASSUME NEW j \in 1 .. Len(t), NEW k \in 1 .. Len(t), t[j] = t[k] PROVE j = k
    <2>1. f[j] \in 1 .. Len(s) /\ f[k] \in 1 .. Len(s) /\ s[f[j]] = s[f[k]]
      BY <1>2, <1>5
    <2>3. f[j] = f[k] /\ f[j] \in Int
      BY <1>3, <1>4, <2>1
    <2>2. ~(j < k) /\ ~(k < j)
      BY <1>2, <2>3
    <2> QED
      BY <1>4, <2>2
  <1> QED
    BY <1>1, <1>5, OnceIs DEF t

LEMMA NobodyThere ==
  ASSUME NEW T, NEW s \in Seq(T)
  PROVE  Range(s) = {} <=> s = <<>>
  <1>1. Len(s) \in Nat
    BY LenProperties
  <1>2. Range(s) = {s[i] : i \in 1 .. Len(s)}
    BY RangeIs
  <1>3. Len(s) # 0 => 1 \in 1 .. Len(s)
    BY <1>1
  <1>4. Len(s) = 0 <=> s = <<>>
    BY EmptySeq
  <1> QED
    BY <1>1, <1>2, <1>3, <1>4, EmptyRange

LEMMA SelectedNone ==
  ASSUME NEW T, NEW s \in Seq(T)
  PROVE  Selected(s, {}) = <<>>
  BY SelectedRange, NobodyThere

-----------------------------------------------------------------------------
(* Types. *)

LEMMA SenderFields ==
  ASSUME NEW s \in Sender
  PROVE  s.by \in Proc /\ s.value \in Value
  BY DEF Sender

LEMMA ValuesAre ==
  ASSUME NEW s \in Seq(Sender)
  PROVE  /\ Values(s) \in Seq(Value) /\ Len(Values(s)) = Len(s)
         /\ \A i \in 1 .. Len(s) : Values(s)[i] = s[i].value
         /\ Range(Values(s)) = {x.value : x \in Range(s)}
  <1>1. Len(s) \in Nat /\ \A i \in 1 .. Len(s) : s[i].value \in Value
    <2>1. Len(s) \in Nat
      BY LenProperties
    <2>2. ASSUME NEW i \in 1 .. Len(s) PROVE s[i].value \in Value
      <3>1. s[i] \in Sender
        BY ElementOfSeq
      <3> QED
        BY <3>1, SenderFields
    <2> QED
      BY <2>1, <2>2
  <1>2. /\ Values(s) \in Seq(Value) /\ Len(Values(s)) = Len(s)
        /\ \A i \in 1 .. Len(s) : Values(s)[i] = s[i].value
    BY <1>1 DEF Values
  <1>3. Range(s) = {s[i] : i \in 1 .. Len(s)}
    BY RangeIs
  <1>4. Range(Values(s)) = {Values(s)[i] : i \in 1 .. Len(s)}
    BY <1>2, RangeIs
  <1> QED
    BY <1>2, <1>3, <1>4

LEMMA SubscriberFields ==
  ASSUME NEW x \in Subscriber
  PROVE  /\ x.pc \in {"new", "open", "done"} /\ x.next \in BOOLEAN /\ x.buffer \in Seq(Value)
         /\ \A b \in BOOLEAN : [x EXCEPT !.next = b] \in Subscriber
         /\ \A s \in Seq(Value) : [x EXCEPT !.buffer = s] \in Subscriber
  BY DEF Subscriber

LEMMA IteratingIs ==
  ASSUME NEW c \in {"new", "open", "done"}, NEW s \in Seq(Value)
  PROVE  Iterating(c, s) \in Subscriber
  BY DEF Iterating, Subscriber

LEMMA FreedIs ==
  ASSUME busy \in [Proc -> {"no", "recv", "send"}], NEW who
  PROVE  /\ Freed(who) \in [Proc -> {"no", "recv", "send"}]
         /\ \A p \in Proc : Freed(who)[p] = IF p \in who THEN "no" ELSE busy[p]
  BY DEF Freed

LEMMA PushIs ==
  ASSUME ChannelAssumption, TypeOK, NEW v \in Value
  PROVE  Push(v) \in [Reader -> Subscriber]
  <1>1. ASSUME NEW b \in Seq(Value) PROVE Buffered(b, v) \in Seq(Value)
    <2>1. <<v>> \in Seq(Value) /\ Append(b, v) \in Seq(Value)
      OBVIOUS
    <2>2. ASSUME Len(b) >= MaxBuffer PROVE Append(Tail(b), v) \in Seq(Value)
      <3>1. b # <<>>
        BY <2>2, EmptySeq DEF ChannelAssumption
      <3>2. Tail(b) \in Seq(Value)
        BY <3>1, TailRange
      <3> QED
        BY <3>2
    <2> QED
      BY <2>1, <2>2 DEF Buffered
  <1>2. ASSUME NEW r \in Reader
        PROVE  (IF reader[r].pc # "open" THEN reader[r]
                ELSE IF reader[r].next THEN [reader[r] EXCEPT !.next = FALSE]
                ELSE [reader[r] EXCEPT !.buffer = Buffered(@, v)]) \in Subscriber
    <2>1. reader[r] \in Subscriber
      BY DEF TypeOK
    <2>2. reader[r].buffer \in Seq(Value)
      BY <2>1, SubscriberFields
    <2>3. Buffered(reader[r].buffer, v) \in Seq(Value)
      BY <1>1, <2>2
    <2>4. /\ [reader[r] EXCEPT !.next = FALSE] \in Subscriber
          /\ [reader[r] EXCEPT !.buffer = Buffered(@, v)] \in Subscriber
      BY <2>1, <2>3, SubscriberFields
    <2> QED
      BY <2>1, <2>4
  <1> QED
    BY <1>2 DEF Push

LEMMA PushKeeps ==
  ASSUME TypeOK, NEW v, NEW r \in Reader
  PROVE  /\ Push(v)[r].pc = reader[r].pc
         /\ Push(v)[r].next = (reader[r].pc # "open" /\ reader[r].next)
         /\ Push(v)[r].buffer = IF reader[r].pc = "open" /\ ~reader[r].next
                                THEN Buffered(reader[r].buffer, v) ELSE reader[r].buffer
  BY DEF Push, TypeOK, Subscriber

LEMMA InitTypes ==
  ASSUME ChannelAssumption, Init
  PROVE  TypeOK
  <1>1. sent \in 0 .. MaxSends /\ capacity \in Nat
    <2>1. (CASE mode = "value" -> 1 [] mode = "queue" -> capacity [] OTHER -> 0) \in Nat
      BY DEF Init, ChannelAssumption
    <2>2. capacity \in Nat /\ sent <= MaxSends
      BY DEF Init, ChannelAssumption
    <2>3. sent \in Nat
      BY <2>1 DEF Init
    <2> QED
      BY <2>2, <2>3 DEF ChannelAssumption
  <1>2. Upto(sent) \in Seq(Value) /\ Len(Upto(sent)) = sent
    <2>1. \A i \in 1 .. sent : i \in Value
      BY <1>1 DEF Value, ChannelAssumption
    <2> QED
      BY <1>1, <2>1 DEF Upto
  <1>3. queue \in Seq(Value) /\ Len(queue) <= capacity
    <2>1. CASE mode = "queue"
      <3>1. queue = Upto(sent) /\ sent \in 0 .. capacity
        BY <2>1 DEF Init
      <3> QED
        BY <1>1, <1>2, <3>1
    <2>2. CASE mode # "queue"
      <3>1. queue = <<>>
        BY <2>2 DEF Init
      <3> QED
        BY <1>1, <3>1, EmptyRange
    <2> QED
      BY <2>1, <2>2
  <1>4. value \in 0 .. MaxSends
    BY <1>1 DEF Init, ChannelAssumption
  <1>5. /\ taken \in Seq(Value) /\ waiters \in Seq(Proc \cup Reader) /\ senders \in Seq(Sender)
        /\ subs \in Seq(Reader) /\ Range(subs) = {}
    BY EmptyRange DEF Init
  <1>6. Iterating("new", <<>>) \in Subscriber
    BY IteratingIs, EmptyRange
  <1>7. \A r \in Reader : reader[r] = Iterating("new", <<>>)
    BY DEF Init
  <1>8. reader \in [Reader -> Subscriber]
    BY <1>6 DEF Init
  <1>9. \A r \in Reader : reader[r].pc = "open" <=> r \in Range(subs)
    BY <1>5, <1>7 DEF Iterating
  <1>10. busy \in [Proc -> {"no", "recv", "send"}] /\ last \in [Reader -> 0 .. MaxSends]
    BY DEF Init, ChannelAssumption
  <1>11. /\ mode \in {"value", "queue", "topic"} /\ capacity \in Capacity
         /\ observed \in BOOLEAN /\ closed \in BOOLEAN /\ external \subseteq Value /\ gone \subseteq Value
    BY DEF Init
  <1> QED
    BY <1>1, <1>3, <1>4, <1>5, <1>8, <1>9, <1>10, <1>11 DEF TypeOK

LEMMA DeliverTypes ==
  ASSUME ChannelAssumption, TypeOK, NEW v, NextValue(v), Deliver(v), UNCHANGED capacity
  PROVE  /\ value' \in 0 .. MaxSends /\ taken' \in Seq(Value)
         /\ queue' \in Seq(Value) /\ (Len(queue') <= capacity' \/ Len(queue') = 1)
         /\ waiters' \in Seq(Proc \cup Reader)
         /\ busy' \in [Proc -> {"no", "recv", "send"}]
         /\ reader' \in [Reader -> Subscriber] /\ \A r \in Reader : reader'[r].pc = reader[r].pc
         /\ last' \in [Reader -> 0 .. MaxSends]
         /\ v \in Value /\ sent' \in 0 .. MaxSends
  <1>1. v \in Value /\ v \in 0 .. MaxSends /\ sent' \in 0 .. MaxSends
    BY DEF NextValue, TypeOK, Value, ChannelAssumption
  <1>2. /\ queue \in Seq(Value) /\ taken \in Seq(Value) /\ waiters \in Seq(Proc \cup Reader)
        /\ busy \in [Proc -> {"no", "recv", "send"}] /\ reader \in [Reader -> Subscriber]
        /\ last \in [Reader -> 0 .. MaxSends] /\ value \in 0 .. MaxSends
        /\ (Len(queue) <= capacity \/ Len(queue) = 1)
    BY DEF TypeOK
  <1>3. CASE Broadcast(v)
    <2>1. waiters' \in Seq(Proc \cup Reader)
      BY <1>2, <1>3, SelectedRange DEF Broadcast
    <2>2. busy' \in [Proc -> {"no", "recv", "send"}]
      BY <1>2, <1>3, FreedIs DEF Broadcast
    <2>3. reader' \in [Reader -> Subscriber] /\ \A r \in Reader : reader'[r].pc = reader[r].pc
      BY <1>1, <1>3, PushIs, PushKeeps DEF Broadcast
    <2>4. value' \in 0 .. MaxSends /\ last' \in [Reader -> 0 .. MaxSends]
      BY <1>1, <1>2, <1>3 DEF Broadcast
    <2>5. UNCHANGED <<queue, taken>>
      BY <1>3 DEF Broadcast
    <2> QED
      BY <1>1, <1>2, <2>1, <2>2, <2>3, <2>4, <2>5
  <1>4. CASE HandOff(v)
    <2>1. waiters' \in Seq(Proc \cup Reader)
      BY <1>2, <1>4, TailRange DEF HandOff
    <2>2. busy' \in [Proc -> {"no", "recv", "send"}]
      BY <1>2, <1>4, FreedIs DEF HandOff
    <2>3. reader' \in [Reader -> Subscriber] /\ \A r \in Reader : reader'[r].pc = reader[r].pc
      <3> DEFINE w == Head(waiters)
      <3>1. reader' = IF w \in Reader THEN [reader EXCEPT ![w].next = FALSE] ELSE reader
        BY <1>4 DEF HandOff
      <3> HIDE DEF w
      <3>2. CASE w \in Reader
        <4>1. reader[w] \in Subscriber
          BY <1>2, <3>2
        <4>2. [reader[w] EXCEPT !.next = FALSE] \in Subscriber
          BY <4>1, SubscriberFields
        <4>3. reader' = [reader EXCEPT ![w] = [reader[w] EXCEPT !.next = FALSE]]
          BY <3>1, <3>2
        <4>4. reader' \in [Reader -> Subscriber]
          BY <1>2, <3>2, <4>2, <4>3
        <4>5. [reader[w] EXCEPT !.next = FALSE].pc = reader[w].pc
          BY <4>1 DEF Subscriber
        <4> QED
          BY <1>2, <3>2, <4>3, <4>4, <4>5
      <3> QED
        BY <1>2, <3>1, <3>2
    <2>4. taken' \in Seq(Value)
      BY <1>1, <1>2, <1>4, AppendProperties DEF HandOff
    <2>5. UNCHANGED <<value, queue, last>>
      BY <1>4 DEF HandOff
    <2> QED
      BY <1>1, <1>2, <2>1, <2>2, <2>3, <2>4, <2>5
  <1>5. CASE Enqueue(v)
    <2>1. queue' \in Seq(Value) /\ Len(queue') = Len(queue) + 1
      BY <1>1, <1>2, <1>5, AppendProperties DEF Enqueue
    <2>2. Len(queue) < capacity
      <3>1. Len(queue) \in Nat /\ capacity \in Nat
        BY <1>2, LenProperties DEF TypeOK, ChannelAssumption
      <3>2. ~(Len(queue) >= capacity)
        BY <1>5 DEF Enqueue, Full
      <3> QED
        BY <3>1, <3>2
    <2>3. Len(queue') <= capacity'
      <3>1. Len(queue) \in Nat /\ capacity \in Nat
        BY <1>2, LenProperties DEF TypeOK, ChannelAssumption
      <3> QED
        BY <2>1, <2>2, <3>1
    <2>4. UNCHANGED <<value, waiters, busy, reader, taken, last>>
      BY <1>5 DEF Enqueue
    <2> QED
      BY <1>1, <1>2, <2>1, <2>3, <2>4
  <1> QED
    BY <1>3, <1>4, <1>5 DEF Deliver

LEMMA PromotedIs ==
  ASSUME TypeOK
  PROVE  /\ Promoted \in Seq(Sender) /\ Len(Promoted) \in {0, 1}
         /\ Promoted # <<>> => /\ senders # <<>> /\ Len(queue) - 1 < capacity
                               /\ Promoted = <<Head(senders)>> /\ Range(Promoted) = {Head(senders)}
         /\ senders # <<>> /\ Len(queue) - 1 < capacity => Promoted # <<>>
         /\ Promoted = <<>> => Len(Promoted) = 0
  <1>1. ASSUME senders # <<>> PROVE Head(senders) \in Sender
    BY <1>1, TailRange DEF TypeOK
  <1>2. ASSUME senders # <<>>
        PROVE  /\ <<Head(senders)>> \in Seq(Sender) /\ Range(<<Head(senders)>>) = {Head(senders)}
               /\ Len(<<Head(senders)>>) = 1 /\ <<Head(senders)>> # <<>>
    BY <1>1, <1>2, OneMember
  <1> QED
    BY <1>2, EmptyRange DEF Promoted

LEMMA TakeTypes ==
  ASSUME ChannelAssumption, TypeOK, Dequeue \/ TakeParked, UNCHANGED capacity
  PROVE  /\ taken' \in Seq(Value) /\ senders' \in Seq(Sender)
         /\ queue' \in Seq(Value) /\ (Len(queue') <= capacity' \/ Len(queue') = 1)
         /\ busy' \in [Proc -> {"no", "recv", "send"}]
  <1>1. /\ queue \in Seq(Value) /\ taken \in Seq(Value) /\ senders \in Seq(Sender)
        /\ busy \in [Proc -> {"no", "recv", "send"}]
        /\ (Len(queue) <= capacity \/ Len(queue) = 1) /\ capacity \in Nat
    BY DEF TypeOK, ChannelAssumption
  <1>2. ASSUME senders # <<>> PROVE Head(senders) \in Sender /\ Tail(senders) \in Seq(Sender)
    BY <1>1, <1>2, TailRange
  <1>3. CASE Dequeue
    <2>1. /\ Head(queue) \in Value /\ Tail(queue) \in Seq(Value)
          /\ Len(Tail(queue)) = Len(queue) - 1 /\ Len(queue) \in Nat \ {0}
      BY <1>1, <1>3, TailRange DEF Dequeue
    <2>2. taken' \in Seq(Value)
      BY <1>1, <1>3, <2>1, AppendProperties DEF Dequeue
    <2>3. senders' \in Seq(Sender)
      BY <1>1, <1>2, <1>3, PromotedIs DEF Dequeue
    <2>4. busy' \in [Proc -> {"no", "recv", "send"}]
      BY <1>1, <1>3, FreedIs DEF Dequeue
    <2>5. Values(Promoted) \in Seq(Value) /\ Len(Values(Promoted)) = Len(Promoted)
      BY PromotedIs, ValuesAre
    <2>6. queue' \in Seq(Value) /\ Len(queue') = Len(queue) - 1 + Len(Promoted)
      BY <1>3, <2>1, <2>5, ConcatProperties DEF Dequeue
    <2>7. Len(Promoted) = 0 \/ (Len(Promoted) = 1 /\ Len(queue) - 1 < capacity)
      BY PromotedIs
    <2>8. Len(queue') <= capacity \/ Len(queue') = 1
      <3>1. CASE Len(Promoted) = 0
        BY <1>1, <2>1, <2>6, <3>1
      <3>2. CASE Len(Promoted) = 1 /\ Len(queue) - 1 < capacity
        BY <1>1, <2>1, <2>6, <3>2
      <3> QED
        BY <2>7, <3>1, <3>2
    <2> QED
      BY <2>2, <2>3, <2>4, <2>6, <2>8
  <1>4. CASE TakeParked
    <2>1. Head(senders) \in Sender /\ Tail(senders) \in Seq(Sender) /\ Head(senders).value \in Value
      BY <1>2, <1>4, SenderFields DEF TakeParked
    <2>2. taken' \in Seq(Value)
      BY <1>1, <1>4, <2>1, AppendProperties DEF TakeParked
    <2>3. busy' \in [Proc -> {"no", "recv", "send"}]
      BY <1>1, <1>4, FreedIs DEF TakeParked
    <2> QED
      BY <1>1, <1>4, <2>1, <2>2, <2>3 DEF TakeParked
  <1> QED
    BY <1>3, <1>4

(* What each action leaves in place, beside what the operations it calls change. *)
LEMMA StepTypes ==
  ASSUME ChannelAssumption, TypeOK, Next
  PROVE  TypeOK'
  <1>1. /\ mode \in {"value", "queue", "topic"} /\ capacity \in Capacity /\ capacity \in Nat
        /\ value \in 0 .. MaxSends /\ taken \in Seq(Value)
        /\ queue \in Seq(Value) /\ (Len(queue) <= capacity \/ Len(queue) = 1)
        /\ waiters \in Seq(Proc \cup Reader) /\ senders \in Seq(Sender)
        /\ busy \in [Proc -> {"no", "recv", "send"}]
        /\ reader \in [Reader -> Subscriber] /\ subs \in Seq(Reader)
        /\ \A r \in Reader : reader[r].pc = "open" <=> r \in Range(subs)
        /\ observed \in BOOLEAN /\ closed \in BOOLEAN
        /\ sent \in 0 .. MaxSends /\ external \subseteq Value /\ gone \subseteq Value
        /\ last \in [Reader -> 0 .. MaxSends]
    BY DEF TypeOK, ChannelAssumption
  <1>2. ASSUME NEW v \in Value, SendExternal(v) PROVE TypeOK'
    <2>1. NextValue(v) /\ UNCHANGED <<mode, capacity, senders, subs, life>> /\ external' \subseteq Value
      BY <1>1, <1>2 DEF SendExternal
    <2>2. CASE Deliver(v) /\ UNCHANGED gone
      BY <1>1, <2>1, <2>2, DeliverTypes DEF TypeOK, life
    <2>3. CASE ~(Deliver(v) /\ UNCHANGED gone)
      <3>1. /\ gone' = gone \cup Oldest(queue) /\ queue' = Append(Newer(queue), v)
            /\ UNCHANGED <<value, waiters, busy, reader, taken, last>>
        BY <1>2, <2>3 DEF SendExternal
      <3>2. sent' \in 0 .. MaxSends
        BY <1>1, <2>1 DEF NextValue, Value, ChannelAssumption
      <3>3. /\ gone' \subseteq Value /\ queue' \in Seq(Value)
            /\ (Len(queue') <= capacity \/ Len(queue') = 1)
        <4>1. CASE queue = <<>>
          <5>1. queue' = <<v>> /\ gone' = gone
            BY <3>1, <4>1, AppendProperties, EmptyRange DEF Newer, Oldest
          <5>2. Len(queue') = 1 /\ queue' \in Seq(Value)
            BY <5>1
          <5> QED
            BY <1>1, <5>1, <5>2
        <4>2. CASE queue # <<>>
          <5>1. /\ Head(queue) \in Value /\ Tail(queue) \in Seq(Value)
                /\ Len(Tail(queue)) = Len(queue) - 1 /\ Len(queue) \in Nat \ {0}
            BY <1>1, <4>2, TailRange
          <5>2. queue' = Append(Tail(queue), v) /\ gone' = gone \cup {Head(queue)}
            BY <3>1, <4>2 DEF Newer, Oldest
          <5>3. queue' \in Seq(Value) /\ Len(queue') = Len(queue)
            BY <5>1, <5>2, AppendProperties
          <5> QED
            BY <1>1, <5>1, <5>2, <5>3
        <4> QED
          BY <4>1, <4>2
      <3> QED
        BY <1>1, <2>1, <3>1, <3>2, <3>3 DEF TypeOK, life
    <2> QED
      BY <2>2, <2>3
  <1>3. ASSUME NEW p \in Proc, NEW v \in Value, Send(p, v) PROVE TypeOK'
    <2>1. NextValue(v) /\ UNCHANGED <<mode, capacity, subs, life, external, gone>>
      BY <1>3 DEF Send
    <2>2. CASE Deliver(v) /\ UNCHANGED senders
      BY <1>1, <2>1, <2>2, DeliverTypes DEF TypeOK, life
    <2>3. CASE ~(Deliver(v) /\ UNCHANGED senders)
      <3>1. /\ senders' = Append(senders, [by |-> p, value |-> v])
            /\ busy' = [busy EXCEPT ![p] = "send"]
            /\ UNCHANGED <<value, queue, waiters, reader, taken, last>>
        BY <1>3, <2>3 DEF Send
      <3>2. sent' \in 0 .. MaxSends
        BY <1>1, <2>1 DEF NextValue, Value, ChannelAssumption
      <3>3. [by |-> p, value |-> v] \in Sender
        BY DEF Sender
      <3>4. senders' \in Seq(Sender)
        BY <1>1, <3>1, <3>3, AppendProperties
      <3>5. busy' \in [Proc -> {"no", "recv", "send"}]
        BY <1>1, <3>1
      <3> QED
        BY <1>1, <2>1, <3>1, <3>2, <3>4, <3>5 DEF TypeOK, life
    <2> QED
      BY <2>2, <2>3
  <1>4. ASSUME NEW p \in Proc, Recv(p) PROVE TypeOK'
    <2>1. UNCHANGED <<mode, capacity, value, readers, life, sent, external, gone, last>>
      BY <1>4 DEF Recv
    <2>2. CASE (Dequeue \/ TakeParked) /\ UNCHANGED waiters
      BY <1>1, <2>1, <2>2, TakeTypes DEF TypeOK, readers, life
    <2>3. CASE ~((Dequeue \/ TakeParked) /\ UNCHANGED waiters)
      <3>1. /\ waiters' = Append(waiters, p) /\ busy' = [busy EXCEPT ![p] = "recv"]
            /\ UNCHANGED <<queue, senders, taken>>
        BY <1>4, <2>3 DEF Recv
      <3>2. waiters' \in Seq(Proc \cup Reader)
        BY <1>1, <3>1, AppendProperties
      <3>3. busy' \in [Proc -> {"no", "recv", "send"}]
        BY <1>1, <3>1
      <3> QED
        BY <1>1, <2>1, <3>1, <3>2, <3>3 DEF TypeOK, readers, life
    <2> QED
      BY <2>2, <2>3
  <1>5. ASSUME NEW p \in Proc, TryRecv(p) PROVE TypeOK'
    <2>1. Dequeue /\ UNCHANGED <<mode, capacity, value, waiters, readers, life, sent, external, gone, last>>
      BY <1>5 DEF TryRecv
    <2> QED
      BY <1>1, <2>1, TakeTypes DEF TypeOK, readers, life
  <1>6. ASSUME NEW p \in Proc, GiveUp(p) PROVE TypeOK'
    <2>1. /\ waiters' = Selected(waiters, Range(waiters) \ {p})
          /\ senders' = Selected(senders, {s \in Range(senders) : s.by # p})
          /\ busy' = [busy EXCEPT ![p] = "no"]
          /\ gone' = gone \cup {s.value : s \in {t \in Range(senders) : t.by = p}}
          /\ UNCHANGED <<mode, capacity, value, queue, readers, life, sent, external, taken, last>>
      BY <1>6 DEF GiveUp, Leave
    <2>2. waiters' \in Seq(Proc \cup Reader) /\ senders' \in Seq(Sender)
      BY <1>1, <2>1, SelectedRange
    <2>3. gone' \subseteq Value
      <3>1. \A s \in Range(senders) : s.value \in Value
        BY <1>1, RangeIs, SenderFields
      <3> QED
        BY <1>1, <2>1, <3>1
    <2>4. busy' \in [Proc -> {"no", "recv", "send"}]
      BY <1>1, <2>1
    <2> QED
      BY <1>1, <2>1, <2>2, <2>3, <2>4 DEF TypeOK, readers, life
  <1>7. ASSUME NEW r \in Reader, Subscribe(r) PROVE TypeOK'
    <2>1. UNCHANGED <<store, busy, life, sent, external, gone, taken>>
      BY <1>7 DEF Subscribe
    <2>2. r \notin Range(subs) /\ FirstBuffer \in Seq(Value)
      <3>1. reader[r].pc = "new"
        BY <1>7 DEF Subscribe
      <3>2. value # 0 => value \in Value
        BY <1>1 DEF Value, ChannelAssumption
      <3>3. value # 0 => <<value>> \in Seq(Value)
        BY <3>2, OneMember
      <3> QED
        BY <1>1, <3>1, <3>3, EmptyRange DEF FirstBuffer
    <2>3. CASE /\ reader' = [reader EXCEPT ![r] = Iterating("done", <<>>)]
               /\ UNCHANGED <<subs, last>>
      <3>1. Iterating("done", <<>>) \in Subscriber /\ Iterating("done", <<>>).pc = "done"
        BY IteratingIs, EmptyRange DEF Iterating
      <3>2. reader' \in [Reader -> Subscriber]
        BY <1>1, <2>3, <3>1
      <3>3. \A q \in Reader : reader'[q].pc = "open" <=> q \in Range(subs)
        BY <1>1, <2>2, <2>3, <3>1
      <3> QED
        BY <1>1, <2>1, <2>3, <3>2, <3>3 DEF TypeOK, store, life
    <2>4. CASE /\ reader' = [reader EXCEPT ![r] = Iterating("open", FirstBuffer)]
               /\ subs' = Append(subs, r)
               /\ last' = [last EXCEPT ![r] = IF mode = "topic" THEN sent ELSE 0]
      <3>1. Iterating("open", FirstBuffer) \in Subscriber /\ Iterating("open", FirstBuffer).pc = "open"
        BY <2>2, IteratingIs DEF Iterating
      <3>2. subs' \in Seq(Reader) /\ Range(subs') = Range(subs) \cup {r}
        BY <1>1, <2>4, AppendRange
      <3>3. reader' \in [Reader -> Subscriber]
        BY <1>1, <2>4, <3>1
      <3>4. \A q \in Reader : reader'[q].pc = "open" <=> q \in Range(subs')
        BY <1>1, <2>4, <3>1, <3>2
      <3>5. (IF mode = "topic" THEN sent ELSE 0) \in 0 .. MaxSends
        BY <1>1 DEF ChannelAssumption
      <3>6. last' \in [Reader -> 0 .. MaxSends]
        BY <1>1, <2>4, <3>5
      <3> QED
        BY <1>1, <2>1, <3>2, <3>3, <3>4, <3>6 DEF TypeOK, store, life
    <2> QED
      BY <1>7, <2>3, <2>4 DEF Subscribe
  <1>8. ASSUME NEW r \in Reader, Read(r) PROVE TypeOK'
    <2>1. UNCHANGED <<mode, capacity, value, subs, life, sent, external, gone>>
      BY <1>8 DEF Read
    <2>2. reader[r] \in Subscriber /\ reader[r].buffer \in Seq(Value)
      BY <1>1, SubscriberFields
    <2>3. CASE ReadBuffer(r)
      <3>1. reader[r].buffer # <<>>
        BY <2>3 DEF ReadBuffer
      <3>2. Head(reader[r].buffer) \in Value /\ Tail(reader[r].buffer) \in Seq(Value)
        BY <2>2, <3>1, TailRange
      <3> DEFINE b == [reader[r] EXCEPT !.buffer = Tail(@)]
      <3>3. b \in Subscriber /\ b.pc = reader[r].pc
        BY <2>2, <3>2 DEF Subscriber
      <3>4. reader' = [reader EXCEPT ![r] = b]
        BY <2>3 DEF ReadBuffer
      <3> HIDE DEF b
      <3>5. reader' \in [Reader -> Subscriber] /\ \A q \in Reader : reader'[q].pc = reader[q].pc
        BY <1>1, <3>3, <3>4
      <3>6. Head(reader[r].buffer) \in 0 .. MaxSends
        BY <3>2 DEF Value
      <3>7. last' \in [Reader -> 0 .. MaxSends]
        BY <1>1, <2>3, <3>6 DEF ReadBuffer
      <3>8. UNCHANGED <<queue, waiters, senders, busy, taken>>
        BY <2>3 DEF ReadBuffer
      <3> QED
        BY <1>1, <2>1, <3>5, <3>7, <3>8 DEF TypeOK, life
    <2>4. CASE ReadShared(r)
      <3>1. (Dequeue \/ TakeParked) /\ UNCHANGED <<waiters, reader, last>>
        BY <2>4 DEF ReadShared
      <3> QED
        BY <1>1, <2>1, <3>1, TakeTypes DEF TypeOK, life
    <2>5. CASE Park(r)
      <3> DEFINE b == [reader[r] EXCEPT !.next = TRUE]
      <3>1. b \in Subscriber /\ b.pc = reader[r].pc
        BY <2>2 DEF Subscriber
      <3>2. reader' = [reader EXCEPT ![r] = b]
        BY <2>5 DEF Park
      <3> HIDE DEF b
      <3>3. reader' \in [Reader -> Subscriber] /\ \A q \in Reader : reader'[q].pc = reader[q].pc
        BY <1>1, <3>1, <3>2
      <3>4. waiters' \in Seq(Proc \cup Reader)
        BY <1>1, <2>5, AppendProperties DEF Park
      <3>5. UNCHANGED <<queue, senders, busy, taken, last>>
        BY <2>5 DEF Park
      <3> QED
        BY <1>1, <2>1, <3>3, <3>4, <3>5 DEF TypeOK, life
    <2> QED
      BY <1>8, <2>3, <2>4, <2>5 DEF Read
  <1>9. ASSUME NEW r \in Reader, Return(r) PROVE TypeOK'
    <2>1. /\ reader' = [reader EXCEPT ![r] = Iterating("done", <<>>)]
          /\ subs' = Selected(subs, Range(subs) \ {r})
          /\ waiters' = Selected(waiters, Range(waiters) \ {r})
          /\ UNCHANGED <<mode, capacity, value, queue, senders, busy, life, history>>
      BY <1>9 DEF Return, Unparked
    <2>2. Iterating("done", <<>>) \in Subscriber /\ Iterating("done", <<>>).pc = "done"
      BY IteratingIs, EmptyRange DEF Iterating
    <2>3. waiters' \in Seq(Proc \cup Reader)
      BY <1>1, <2>1, SelectedRange
    <2>4. subs' \in Seq(Reader) /\ Range(subs') = Range(subs) \ {r}
      BY <1>1, <2>1, SelectedRange
    <2>5. reader' \in [Reader -> Subscriber]
      BY <1>1, <2>1, <2>2
    <2>6. \A q \in Reader : reader'[q].pc = "open" <=> q \in Range(subs')
      BY <1>1, <2>1, <2>2, <2>4
    <2> QED
      BY <1>1, <2>1, <2>3, <2>4, <2>5, <2>6 DEF TypeOK, life, history
  <1>10. ASSUME GetHandle PROVE TypeOK'
    BY <1>1, <1>10 DEF GetHandle, TypeOK, store, readers, history
  <1>11. ASSUME CloseExecution PROVE TypeOK'
    <2> DEFINE left == queue \o Values(senders)
               rest(r) == reader[r].buffer \o (IF mode = "queue" /\ r = Head(subs) THEN left ELSE <<>>)
    <2>1. /\ closed' = (closed \/ observed) /\ subs' = <<>>
          /\ waiters' = Selected(waiters, Range(waiters) \ Range(subs))
          /\ UNCHANGED <<mode, capacity, value, observed, sent, external, gone, last>>
      BY <1>11 DEF CloseExecution, Unparked
    <2>2. reader' = [r \in Reader |-> IF r \notin Range(subs) THEN reader[r] ELSE Iterating("done", rest(r))]
      BY <1>11 DEF CloseExecution
    <2>3. left \in Seq(Value)
      BY <1>1, ValuesAre, ConcatProperties
    <2>4. /\ IF mode = "queue" /\ subs # <<>> THEN queue' = <<>> ELSE queue' = queue
          /\ IF mode = "queue" /\ subs # <<>> THEN senders' = <<>> ELSE senders' = senders
          /\ IF mode = "queue" /\ subs # <<>> THEN busy' = Freed({s.by : s \in Range(senders)})
                                              ELSE busy' = busy
          /\ IF mode = "queue" /\ subs # <<>> THEN taken' = taken \o left ELSE taken' = taken
      BY <1>11 DEF CloseExecution
    <2> HIDE DEF left
    <2>5. ASSUME NEW r \in Reader PROVE rest(r) \in Seq(Value)
      <3>1. reader[r].buffer \in Seq(Value)
        BY <1>1, SubscriberFields
      <3> QED
        BY <2>3, <3>1, ConcatProperties, EmptyRange
    <2> HIDE DEF rest
    <2>6. ASSUME NEW r \in Reader
          PROVE  Iterating("done", rest(r)) \in Subscriber /\ Iterating("done", rest(r)).pc = "done"
      BY <2>5, IteratingIs DEF Iterating
    <2>7. reader' \in [Reader -> Subscriber]
      BY <1>1, <2>2, <2>6
    <2>8. subs' \in Seq(Reader) /\ Range(subs') = {}
      BY <2>1, EmptyRange
    <2>9. \A r \in Reader : reader'[r].pc # "open"
      BY <1>1, <2>2, <2>6
    <2>10. waiters' \in Seq(Proc \cup Reader)
      BY <1>1, <2>1, SelectedRange
    <2>11. queue' \in Seq(Value) /\ (Len(queue') <= capacity \/ Len(queue') = 1)
      <3>1. <<>> \in Seq(Value) /\ Len(<<>>) <= capacity
        BY <1>1, EmptyRange
      <3> QED
        BY <1>1, <2>4, <3>1
    <2>12. senders' \in Seq(Sender)
      BY <1>1, <2>4, EmptyRange
    <2>13. taken' \in Seq(Value)
      <3>1. taken \o left \in Seq(Value)
        BY <1>1, <2>3, ConcatProperties
      <3> QED
        BY <1>1, <2>4, <3>1
    <2>14. busy' \in [Proc -> {"no", "recv", "send"}]
      BY <1>1, <2>4, FreedIs
    <2>15. closed' \in BOOLEAN /\ observed' \in BOOLEAN
      BY <1>1, <2>1
    <2> QED
      BY <1>1, <2>1, <2>7, <2>8, <2>9, <2>10, <2>11, <2>12, <2>13, <2>14, <2>15 DEF TypeOK
  <1>12. ASSUME OpenExecution PROVE TypeOK'
    BY <1>1, <1>12 DEF OpenExecution, TypeOK, store, readers, history
  <1> QED
    BY <1>2, <1>3, <1>4, <1>5, <1>6, <1>7, <1>8, <1>9, <1>10, <1>11, <1>12 DEF Next

LEMMA TypesStay ==
  ASSUME ChannelAssumption, TypeOK, [Next]_vars
  PROVE  TypeOK'
  <1>1. CASE UNCHANGED vars
    BY <1>1 DEF vars, store, readers, life, history, TypeOK
  <1> QED
    BY <1>1, StepTypes

(* Every variable keeps its type, and the queue its capacity (TypeOK). *)
THEOREM TypeCorrect == Spec => []TypeOK
  <1>1. Init => TypeOK
    BY InitTypes, ChannelAssumption
  <1>2. TypeOK /\ [Next]_vars => TypeOK'
    BY TypesStay, ChannelAssumption
  <1> QED
    BY <1>1, <1>2, PTL DEF Spec

-----------------------------------------------------------------------------
(* The lines of those who wait. *)

(* A step waits in one line only, and once. *)
OneParking == \A a, b \in Range(senders) : a.by = b.by => a = b
LineInv == LinesAreAlive /\ OneParking

LEMMA InLine ==
  ASSUME TypeOK
  PROVE  /\ Range(waiters) \subseteq Proc \cup Reader
         /\ Range(senders) \subseteq Sender
         /\ \A s \in Range(senders) : s.by \in Proc /\ s.value \in Value
  <1>1. waiters \in Seq(Proc \cup Reader) /\ senders \in Seq(Sender)
    BY DEF TypeOK
  <1>2. Range(waiters) \subseteq Proc \cup Reader /\ Range(senders) \subseteq Sender
    BY <1>1, RangeIs
  <1> QED
    BY <1>2, SenderFields

LEMMA InitLines ==
  ASSUME ChannelAssumption, Init
  PROVE  LineInv
  <1>1. Range(waiters) = {} /\ Range(senders) = {} /\ Len(waiters) = 0 /\ Len(senders) = 0
    BY EmptyRange DEF Init
  <1>2. IsInjective(waiters) /\ IsInjective(senders)
    BY DEF Init, IsInjective
  <1>3. (\A p \in Proc : busy[p] = "no") /\ \A r \in Reader : ~reader[r].next
    BY DEF Init, Iterating
  <1> QED
    BY <1>1, <1>2, <1>3 DEF LineInv, LinesAreAlive, OneParking

(* The sender at the head of its line leaves it. *)
LEMMA HeadLeaves ==
  ASSUME TypeOK, LineInv, senders # <<>>, senders' = Tail(senders),
         busy' = Freed({Head(senders).by}), UNCHANGED <<mode, waiters, reader>>
  PROVE  LineInv'
  <1> DEFINE h == Head(senders)
  <1>1. senders \in Seq(Sender) /\ busy \in [Proc -> {"no", "recv", "send"}]
    BY DEF TypeOK
  <1>2. h \in Sender /\ Range(senders) = {h} \cup Range(Tail(senders))
    BY <1>1, TailRange
  <1>3. IsInjective(senders) /\ IsInjective(waiters) /\ OneParking
    BY DEF LineInv, LinesAreAlive
  <1>4. IsInjective(Tail(senders)) /\ h \notin Range(Tail(senders))
    BY <1>1, <1>3, TailOnce
  <1>5. \A p \in Proc : busy'[p] = IF p \in {h.by} THEN "no" ELSE busy[p]
    BY <1>1, FreedIs
  <1> HIDE DEF h
  <1>6. \A s \in Range(Tail(senders)) : s.by # h.by
    BY <1>2, <1>3, <1>4 DEF OneParking
  <1>7. /\ \A p \in Proc : busy[p] = "recv" <=> p \in Range(waiters)
        /\ \A p \in Proc : busy[p] = "send" <=> \E s \in Range(senders) : s.by = p
    BY DEF LineInv, LinesAreAlive
  <1>8. ASSUME NEW p \in Proc
        PROVE  /\ busy'[p] = "recv" <=> p \in Range(waiters)
               /\ busy'[p] = "send" <=> \E s \in Range(Tail(senders)) : s.by = p
    <2>1. CASE p = h.by
      <3>1. busy[p] = "send" /\ busy'[p] = "no"
        BY <1>2, <1>5, <1>7, <2>1
      <3> QED
        BY <1>6, <1>7, <2>1, <3>1
    <2>2. CASE p # h.by
      <3>1. busy'[p] = busy[p]
        BY <1>5, <2>2
      <3> QED
        BY <1>2, <1>7, <2>2, <3>1
    <2> QED
      BY <2>1, <2>2
  <1>9. OneParking'
    BY <1>2, <1>3 DEF OneParking
  <1>10. \A r \in Reader :
           /\ reader'[r].next => reader'[r].pc = "open"
           /\ r \in Range(waiters') <=> mode' = "queue" /\ reader'[r].next
    BY DEF LineInv, LinesAreAlive
  <1> QED
    BY <1>3, <1>4, <1>8, <1>9, <1>10 DEF LineInv, LinesAreAlive

LEMMA DeliverLines ==
  ASSUME ChannelAssumption, TypeOK, LineInv, NEW v, Deliver(v), UNCHANGED <<mode, senders>>
  PROVE  LineInv'
  <1>1. /\ waiters \in Seq(Proc \cup Reader) /\ busy \in [Proc -> {"no", "recv", "send"}]
        /\ reader \in [Reader -> Subscriber] /\ Proc \cap Reader = {}
    BY DEF TypeOK, ChannelAssumption
  <1>2. /\ \A p \in Proc : busy[p] = "recv" <=> p \in Range(waiters)
        /\ \A p \in Proc : busy[p] = "send" <=> \E s \in Range(senders) : s.by = p
        /\ \A r \in Reader : reader[r].next => reader[r].pc = "open"
        /\ \A r \in Reader : r \in Range(waiters) <=> mode = "queue" /\ reader[r].next
        /\ IsInjective(waiters) /\ IsInjective(senders) /\ OneParking
    BY DEF LineInv, LinesAreAlive
  <1>3. IsInjective(senders') /\ OneParking'
    BY <1>2 DEF OneParking
  <1>4. CASE Broadcast(v)
    <2>1. /\ waiters' = Selected(waiters, Range(waiters) \ Range(waiters)) /\ mode # "queue"
          /\ busy' = Freed(Range(waiters)) /\ reader' = Push(v)
      BY <1>4 DEF Broadcast, Woken
    <2>2. Range(waiters) \ Range(waiters) = {}
      OBVIOUS
    <2>3. waiters' = <<>>
      BY <1>1, <2>1, <2>2, SelectedNone
    <2>4. Range(waiters') = {} /\ IsInjective(waiters')
      BY <2>3, EmptyRange DEF IsInjective
    <2>5. \A p \in Proc : busy'[p] = IF p \in Range(waiters) THEN "no" ELSE busy[p]
      BY <1>1, <2>1, FreedIs
    <2>6. \A p \in Proc : /\ busy'[p] = "recv" <=> p \in Range(waiters')
                          /\ busy'[p] = "send" <=> \E s \in Range(senders') : s.by = p
      BY <1>2, <2>4, <2>5
    <2>7. \A r \in Reader : ~reader'[r].next
      BY <1>2, <2>1, PushKeeps
    <2>8. \A r \in Reader : /\ reader'[r].next => reader'[r].pc = "open"
                            /\ r \in Range(waiters') <=> mode' = "queue" /\ reader'[r].next
      BY <2>1, <2>4, <2>7
    <2> QED
      BY <1>3, <2>4, <2>6, <2>8 DEF LineInv, LinesAreAlive
  <1>5. CASE HandOff(v)
    <2> DEFINE w == Head(waiters)
    <2>1. /\ waiters # <<>> /\ mode = "queue" /\ waiters' = Tail(waiters) /\ busy' = Freed({w})
          /\ reader' = IF w \in Reader THEN [reader EXCEPT ![w].next = FALSE] ELSE reader
      BY <1>5 DEF HandOff
    <2>2. w \in Proc \cup Reader /\ Range(waiters) = {w} \cup Range(Tail(waiters))
      BY <1>1, <2>1, TailRange
    <2>3. IsInjective(Tail(waiters)) /\ w \notin Range(Tail(waiters))
      BY <1>1, <1>2, <2>1, TailOnce
    <2>4. \A p \in Proc : busy'[p] = IF p \in {w} THEN "no" ELSE busy[p]
      BY <1>1, <2>1, FreedIs
    <2> HIDE DEF w
    <2>5. \A p \in Proc : /\ busy'[p] = "recv" <=> p \in Range(waiters')
                          /\ busy'[p] = "send" <=> \E s \in Range(senders') : s.by = p
      BY <1>2, <2>1, <2>2, <2>3, <2>4
    <2>6. ASSUME NEW r \in Reader
          PROVE  /\ reader'[r].pc = reader[r].pc
                 /\ reader'[r].next = IF r = w THEN FALSE ELSE reader[r].next
      <3>1. CASE w \in Reader
        <4>1. reader[w] \in Subscriber
          BY <1>1, <3>1
        <4>2. [reader[w] EXCEPT !.next = FALSE].pc = reader[w].pc
          BY <4>1 DEF Subscriber
        <4>3. [reader[w] EXCEPT !.next = FALSE].next = FALSE
          BY <4>1 DEF Subscriber
        <4>4. reader' = [reader EXCEPT ![w] = [reader[w] EXCEPT !.next = FALSE]]
          BY <2>1, <3>1
        <4> QED
          BY <1>1, <3>1, <4>2, <4>3, <4>4
      <3>2. CASE w \notin Reader
        BY <2>1, <3>2
      <3> QED
        BY <3>1, <3>2
    <2>7. \A r \in Reader : reader'[r].next => reader'[r].pc = "open"
      BY <1>2, <2>6
    <2>8. \A r \in Reader : r \in Range(waiters') <=> mode' = "queue" /\ reader'[r].next
      BY <1>2, <2>1, <2>2, <2>3, <2>6
    <2> QED
      BY <1>3, <2>1, <2>3, <2>5, <2>7, <2>8 DEF LineInv, LinesAreAlive
  <1>6. CASE Enqueue(v)
    <2>1. UNCHANGED <<waiters, busy, reader>>
      BY <1>6 DEF Enqueue
    <2> QED
      BY <2>1 DEF LineInv, LinesAreAlive, OneParking
  <1> QED
    BY <1>4, <1>5, <1>6 DEF Deliver

LEMMA TakeLines ==
  ASSUME TypeOK, LineInv, Dequeue \/ TakeParked, UNCHANGED <<mode, waiters, reader>>
  PROVE  LineInv'
  <1>1. CASE Dequeue /\ Promoted # <<>>
    <2>1. senders # <<>> /\ Range(Promoted) = {Head(senders)}
      BY <1>1, PromotedIs
    <2>2. senders' = Tail(senders) /\ busy' = Freed({s.by : s \in Range(Promoted)})
      BY <1>1 DEF Dequeue
    <2>3. {s.by : s \in Range(Promoted)} = {Head(senders).by}
      BY <2>1
    <2> QED
      BY <2>1, <2>2, <2>3, HeadLeaves
  <1>2. CASE Dequeue /\ Promoted = <<>>
    <2>1. senders' = senders /\ busy' = Freed({s.by : s \in Range(Promoted)}) /\ Range(Promoted) = {}
      BY <1>2, EmptyRange DEF Dequeue
    <2>2. \A p \in Proc : busy'[p] = busy[p]
      BY <2>1, FreedIs DEF TypeOK
    <2> QED
      BY <2>1, <2>2 DEF LineInv, LinesAreAlive, OneParking
  <1>3. CASE TakeParked
    BY <1>3, HeadLeaves DEF TakeParked
  <1> QED
    BY <1>1, <1>2, <1>3

(* A line that p is added to, or taken out of. *)
LEMMA StepLines ==
  ASSUME ChannelAssumption, TypeOK, LineInv, Next
  PROVE  LineInv'
  <1>1. /\ waiters \in Seq(Proc \cup Reader) /\ busy \in [Proc -> {"no", "recv", "send"}]
        /\ reader \in [Reader -> Subscriber] /\ Proc \cap Reader = {} /\ senders \in Seq(Sender)
        /\ subs \in Seq(Reader) /\ \A r \in Reader : reader[r].pc = "open" <=> r \in Range(subs)
    BY DEF TypeOK, ChannelAssumption
  <1>2. /\ \A p \in Proc : busy[p] = "recv" <=> p \in Range(waiters)
        /\ \A p \in Proc : busy[p] = "send" <=> \E s \in Range(senders) : s.by = p
        /\ \A r \in Reader : reader[r].next => reader[r].pc = "open"
        /\ \A r \in Reader : r \in Range(waiters) <=> mode = "queue" /\ reader[r].next
        /\ IsInjective(waiters) /\ IsInjective(senders) /\ OneParking
    BY DEF LineInv, LinesAreAlive
  <1>3. ASSUME UNCHANGED <<mode, waiters, senders, busy, reader>> PROVE LineInv'
    BY <1>3 DEF LineInv, LinesAreAlive, OneParking
  <1>4. ASSUME UNCHANGED senders PROVE IsInjective(senders') /\ OneParking'
    BY <1>2, <1>4 DEF OneParking
  <1>5. ASSUME NEW v \in Value, SendExternal(v) PROVE LineInv'
    <2>1. UNCHANGED <<mode, senders>>
      BY <1>5 DEF SendExternal
    <2>2. CASE Deliver(v)
      BY <2>1, <2>2, DeliverLines
    <2>3. CASE ~Deliver(v)
      BY <1>3, <1>5, <2>1, <2>3 DEF SendExternal
    <2> QED
      BY <2>2, <2>3
  <1>6. ASSUME NEW p \in Proc, NEW v \in Value, Send(p, v) PROVE LineInv'
    <2>1. UNCHANGED mode /\ busy[p] = "no"
      BY <1>6 DEF Send
    <2>2. CASE Deliver(v) /\ UNCHANGED senders
      BY <2>1, <2>2, DeliverLines
    <2>3. CASE ~(Deliver(v) /\ UNCHANGED senders)
      <3> DEFINE x == [by |-> p, value |-> v]
      <3>1. /\ senders' = Append(senders, x) /\ busy' = [busy EXCEPT ![p] = "send"]
            /\ UNCHANGED <<waiters, reader>>
        BY <1>6, <2>3 DEF Send
      <3>2. x \in Sender /\ x.by = p
        BY DEF Sender
      <3> HIDE DEF x
      <3>3. \A s \in Range(senders) : s.by # p
        BY <1>2, <2>1
      <3>4. x \notin Range(senders)
        BY <3>2, <3>3
      <3>5. IsInjective(senders') /\ Range(senders') = Range(senders) \cup {x}
        BY <1>1, <1>2, <3>1, <3>2, <3>4, AppendOnce, AppendRange
      <3>6. OneParking'
        BY <1>2, <3>2, <3>3, <3>5 DEF OneParking
      <3>7. \A q \in Proc : /\ busy'[q] = "recv" <=> q \in Range(waiters')
                            /\ busy'[q] = "send" <=> \E s \in Range(senders') : s.by = q
        <4>1. ASSUME NEW q \in Proc PROVE busy'[q] = "recv" <=> q \in Range(waiters')
          BY <1>1, <1>2, <2>1, <3>1
        <4>2. ASSUME NEW q \in Proc
              PROVE  busy'[q] = "send" <=> \E s \in Range(senders') : s.by = q
          BY <1>1, <1>2, <2>1, <3>1, <3>2, <3>5
        <4> QED
          BY <4>1, <4>2
      <3>8. \A r \in Reader : /\ reader'[r].next => reader'[r].pc = "open"
                              /\ r \in Range(waiters') <=> mode' = "queue" /\ reader'[r].next
        BY <1>2, <2>1, <3>1
      <3> QED
        BY <1>2, <3>1, <3>5, <3>6, <3>7, <3>8 DEF LineInv, LinesAreAlive
    <2> QED
      BY <2>2, <2>3
  <1>7. ASSUME NEW p \in Proc, Recv(p) PROVE LineInv'
    <2>1. UNCHANGED <<mode, reader>> /\ busy[p] = "no"
      BY <1>7 DEF Recv, readers
    <2>2. CASE (Dequeue \/ TakeParked) /\ UNCHANGED waiters
      BY <2>1, <2>2, TakeLines
    <2>3. CASE ~((Dequeue \/ TakeParked) /\ UNCHANGED waiters)
      <3>1. /\ waiters' = Append(waiters, p) /\ busy' = [busy EXCEPT ![p] = "recv"]
            /\ UNCHANGED senders
        BY <1>7, <2>3 DEF Recv
      <3>2. p \notin Range(waiters) /\ p \notin Reader
        BY <1>1, <1>2, <2>1
      <3>3. p \in Proc \cup Reader
        OBVIOUS
      <3>4. IsInjective(waiters') /\ Range(waiters') = Range(waiters) \cup {p}
        BY <1>1, <1>2, <3>1, <3>2, <3>3, AppendOnce, AppendRange
      <3>5. \A q \in Proc : /\ busy'[q] = "recv" <=> q \in Range(waiters')
                            /\ busy'[q] = "send" <=> \E s \in Range(senders') : s.by = q
        BY <1>1, <1>2, <2>1, <3>1, <3>4
      <3>6. \A r \in Reader : /\ reader'[r].next => reader'[r].pc = "open"
                              /\ r \in Range(waiters') <=> mode' = "queue" /\ reader'[r].next
        BY <1>2, <2>1, <3>2, <3>4
      <3> QED
        BY <1>4, <3>1, <3>4, <3>5, <3>6 DEF LineInv, LinesAreAlive
    <2> QED
      BY <2>2, <2>3
  <1>8. ASSUME NEW p \in Proc, TryRecv(p) PROVE LineInv'
    BY <1>8, TakeLines DEF TryRecv, readers
  <1>9. ASSUME NEW p \in Proc, GiveUp(p) PROVE LineInv'
    <2>1. /\ waiters' = Selected(waiters, Range(waiters) \ {p})
          /\ senders' = Selected(senders, {s \in Range(senders) : s.by # p})
          /\ busy' = [busy EXCEPT ![p] = "no"] /\ UNCHANGED <<mode, reader>>
      BY <1>9 DEF GiveUp, Leave, readers
    <2>2. Range(waiters') = Range(waiters) \ {p} /\ IsInjective(waiters')
      BY <1>1, <1>2, <2>1, SelectedRange, SelectedOnce
    <2>3. Range(senders') = {s \in Range(senders) : s.by # p} /\ IsInjective(senders')
      BY <1>1, <1>2, <2>1, SelectedRange, SelectedOnce
    <2>4. OneParking'
      BY <1>2, <2>3 DEF OneParking
    <2>5. \A q \in Proc : busy'[q] = IF q = p THEN "no" ELSE busy[q]
      BY <1>1, <2>1
    <2>6. \A q \in Proc : busy'[q] = "recv" <=> q \in Range(waiters')
      BY <1>2, <2>2, <2>5
    <2>7. \A q \in Proc : busy'[q] = "send" <=> \E s \in Range(senders') : s.by = q
      BY <1>2, <2>3, <2>5
    <2>8. p \notin Reader
      BY <1>1
    <2>9. \A r \in Reader : /\ reader'[r].next => reader'[r].pc = "open"
                            /\ r \in Range(waiters') <=> mode' = "queue" /\ reader'[r].next
      BY <1>2, <2>1, <2>2, <2>8
    <2> QED
      BY <2>2, <2>3, <2>4, <2>6, <2>7, <2>9 DEF LineInv, LinesAreAlive
  <1>10. ASSUME NEW r \in Reader, NEW c \in {"open", "done"}, NEW b,
                reader[r].pc # "open" \/ r \notin Range(waiters) \/ waiters' = Unparked({r}),
                waiters' = waiters \/ waiters' = Unparked({r}),
                reader' = [reader EXCEPT ![r] = Iterating(c, b)], UNCHANGED <<mode, senders, busy>>
         PROVE  LineInv'
    <2>1. r \notin Range(waiters') /\ \A w \in Proc \cup Reader : w # r => (w \in Range(waiters') <=> w \in Range(waiters))
      <3>1. CASE waiters' = Unparked({r})
        <4>1. Range(waiters') = Range(waiters) \cap (Range(waiters) \ {r})
          BY <1>1, <3>1, SelectedRange DEF Unparked
        <4> QED
          BY <4>1
      <3>2. CASE waiters' # Unparked({r})
        BY <1>2, <1>10, <3>2
      <3> QED
        BY <3>1, <3>2
    <2>2. IsInjective(waiters')
      BY <1>1, <1>2, <1>10, SelectedOnce DEF Unparked
    <2>3. \A q \in Reader : reader'[q] = IF q = r THEN Iterating(c, b) ELSE reader[q]
      BY <1>1, <1>10
    <2>4. ~Iterating(c, b).next
      BY DEF Iterating
    <2>5. \A q \in Reader : /\ reader'[q].next => reader'[q].pc = "open"
                            /\ q \in Range(waiters') <=> mode' = "queue" /\ reader'[q].next
      BY <1>2, <1>10, <2>1, <2>3, <2>4
    <2>6. \A q \in Proc : q # r /\ (q \in Range(waiters') <=> q \in Range(waiters))
      BY <1>1, <2>1
    <2>7. \A q \in Proc : /\ busy'[q] = "recv" <=> q \in Range(waiters')
                          /\ busy'[q] = "send" <=> \E s \in Range(senders') : s.by = q
      BY <1>2, <1>10, <2>6
    <2> QED
      BY <1>4, <1>10, <2>2, <2>5, <2>7 DEF LineInv, LinesAreAlive
  <1>11. ASSUME NEW r \in Reader, Subscribe(r) PROVE LineInv'
    <2>1. reader[r].pc # "open" /\ UNCHANGED <<mode, waiters, senders, busy>>
      BY <1>11 DEF Subscribe, store
    <2>2. \/ reader' = [reader EXCEPT ![r] = Iterating("done", <<>>)]
          \/ reader' = [reader EXCEPT ![r] = Iterating("open", FirstBuffer)]
      BY <1>11 DEF Subscribe
    <2> QED
      BY <1>10, <2>1, <2>2
  <1>12. ASSUME NEW r \in Reader, Return(r) PROVE LineInv'
    <2>1. /\ reader' = [reader EXCEPT ![r] = Iterating("done", <<>>)] /\ waiters' = Unparked({r})
          /\ UNCHANGED <<mode, senders, busy>>
      BY <1>12 DEF Return
    <2> QED
      BY <1>10, <2>1
  <1>13. ASSUME NEW r \in Reader, Read(r) PROVE LineInv'
    <2>1. UNCHANGED mode /\ ~reader[r].next /\ reader[r] \in Subscriber
      BY <1>1, <1>13 DEF Read
    <2>2. CASE ReadBuffer(r)
      <3> DEFINE b == [reader[r] EXCEPT !.buffer = Tail(@)]
      <3>1. b.pc = reader[r].pc /\ b.next = reader[r].next
        BY <2>1 DEF Subscriber
      <3>2. reader' = [reader EXCEPT ![r] = b] /\ UNCHANGED <<waiters, senders, busy>>
        BY <2>2 DEF ReadBuffer
      <3> HIDE DEF b
      <3>3. \A q \in Reader : reader'[q].pc = reader[q].pc /\ reader'[q].next = reader[q].next
        BY <1>1, <3>1, <3>2
      <3>4. \A q \in Reader : /\ reader'[q].next => reader'[q].pc = "open"
                              /\ q \in Range(waiters') <=> mode' = "queue" /\ reader'[q].next
        BY <1>2, <2>1, <3>2, <3>3
      <3> QED
        BY <1>2, <1>4, <3>2, <3>4 DEF LineInv, LinesAreAlive
    <2>3. CASE ReadShared(r)
      BY <2>1, <2>3, TakeLines DEF ReadShared
    <2>4. CASE Park(r)
      <3> DEFINE b == [reader[r] EXCEPT !.next = TRUE]
      <3>1. b.pc = "open" /\ b.next = TRUE
        BY <2>1, <2>4 DEF Subscriber, Park
      <3>2. /\ reader' = [reader EXCEPT ![r] = b] /\ UNCHANGED <<senders, busy>>
            /\ waiters' = IF mode = "queue" THEN Append(waiters, r) ELSE waiters
        BY <2>4 DEF Park
      <3> HIDE DEF b
      <3>3. r \notin Range(waiters) /\ r \notin Proc /\ r \in Proc \cup Reader
        BY <1>1, <1>2, <2>1
      <3>4. /\ IsInjective(waiters')
            /\ Range(waiters') = IF mode = "queue" THEN Range(waiters) \cup {r} ELSE Range(waiters)
        <4>1. IsInjective(Append(waiters, r)) /\ Range(Append(waiters, r)) = Range(waiters) \cup {r}
          BY <1>1, <1>2, <3>3, AppendOnce, AppendRange
        <4> QED
          BY <1>2, <3>2, <4>1
      <3>5. \A q \in Reader : reader'[q] = IF q = r THEN b ELSE reader[q]
        BY <1>1, <3>2
      <3>6. \A q \in Reader : reader'[q].next => reader'[q].pc = "open"
        BY <1>2, <3>1, <3>5
      <3>7. \A q \in Reader : q \in Range(waiters') <=> mode' = "queue" /\ reader'[q].next
        BY <1>2, <2>1, <3>1, <3>4, <3>5
      <3>8. \A q \in Proc : /\ busy'[q] = "recv" <=> q \in Range(waiters')
                            /\ busy'[q] = "send" <=> \E s \in Range(senders') : s.by = q
        BY <1>2, <3>2, <3>3, <3>4
      <3> QED
        BY <1>4, <3>2, <3>4, <3>6, <3>7, <3>8 DEF LineInv, LinesAreAlive
    <2> QED
      BY <1>13, <2>2, <2>3, <2>4 DEF Read
  <1>14. ASSUME GetHandle \/ OpenExecution PROVE LineInv'
    BY <1>3, <1>14 DEF GetHandle, OpenExecution, store, readers
  <1>15. ASSUME CloseExecution PROVE LineInv'
    <2>1. waiters' = Selected(waiters, Range(waiters) \ Range(subs)) /\ UNCHANGED mode
      BY <1>15 DEF CloseExecution, Unparked
    <2>2. \A r \in Reader : /\ r \notin Range(subs) => reader'[r] = reader[r]
                            /\ r \in Range(subs) => ~reader'[r].next
      BY <1>15 DEF CloseExecution, Iterating
    <2>3. Range(waiters') = Range(waiters) \ Range(subs) /\ IsInjective(waiters')
      BY <1>1, <1>2, <2>1, SelectedRange, SelectedOnce
    <2>4. Range(subs) \subseteq Reader
      BY <1>1, RangeIs
    <2>5. \A r \in Reader : /\ reader'[r].next => reader'[r].pc = "open"
                            /\ r \in Range(waiters') <=> mode' = "queue" /\ reader'[r].next
      BY <1>2, <2>1, <2>2, <2>3
    <2>6. \A p \in Proc : p \in Range(waiters') <=> p \in Range(waiters)
      BY <1>1, <2>3, <2>4
    <2>7. CASE mode = "queue" /\ subs # <<>>
      <3>1. senders' = <<>> /\ busy' = Freed({s.by : s \in Range(senders)})
        BY <1>15, <2>7 DEF CloseExecution
      <3>2. Range(senders') = {} /\ IsInjective(senders')
        BY <3>1, EmptyRange DEF IsInjective
      <3>3. \A p \in Proc : busy'[p] = IF \E s \in Range(senders) : s.by = p THEN "no" ELSE busy[p]
        BY <1>1, <3>1, FreedIs
      <3>4. \A p \in Proc : /\ busy'[p] = "recv" <=> p \in Range(waiters')
                            /\ busy'[p] = "send" <=> \E s \in Range(senders') : s.by = p
        BY <1>2, <2>6, <3>2, <3>3
      <3> QED
        BY <2>3, <2>5, <3>2, <3>4 DEF LineInv, LinesAreAlive, OneParking
    <2>8. CASE ~(mode = "queue" /\ subs # <<>>)
      <3>1. UNCHANGED <<senders, busy>>
        BY <1>15, <2>8 DEF CloseExecution
      <3>2. \A p \in Proc : /\ busy'[p] = "recv" <=> p \in Range(waiters')
                            /\ busy'[p] = "send" <=> \E s \in Range(senders') : s.by = p
        BY <1>2, <2>6, <3>1
      <3> QED
        BY <1>4, <2>3, <2>5, <3>1, <3>2 DEF LineInv, LinesAreAlive
    <2> QED
      BY <2>7, <2>8
  <1> QED
    BY <1>5, <1>6, <1>7, <1>8, <1>9, <1>11, <1>12, <1>13, <1>14, <1>15 DEF Next

-----------------------------------------------------------------------------
(* Nobody is parked beside what it waits for. *)

(* What a channel of each mode keeps. *)
Shape ==
  /\ mode # "queue" => queue = <<>> /\ senders = <<>>
  /\ value = IF mode = "value" THEN sent ELSE 0
ParkInv == Shape /\ NobodyParkedInVain

LEMMA InitPark ==
  ASSUME Init
  PROVE  ParkInv
  BY DEF Init, ParkInv, Shape, NobodyParkedInVain

LEMMA SelectedEmpty ==
  ASSUME NEW T, NEW s \in Seq(T), NEW S, s = <<>>
  PROVE  Selected(s, S) = <<>>
  <1>1. Range(Selected(s, S)) = Range(s) \cap S /\ Selected(s, S) \in Seq(T)
    BY SelectedRange
  <1>2. Range(s) = {}
    BY EmptyRange
  <1> QED
    BY <1>1, <1>2, NobodyThere

LEMMA DeliverPark ==
  ASSUME ChannelAssumption, TypeOK, ParkInv, NEW v, NextValue(v), Deliver(v), UNCHANGED <<mode, capacity, senders>>
  PROVE  ParkInv'
  <1>1. /\ queue \in Seq(Value) /\ Len(queue) \in Nat /\ capacity \in Nat
        /\ waiters \in Seq(Proc \cup Reader) /\ sent' = v
    BY LenProperties DEF TypeOK, ChannelAssumption, NextValue
  <1>2. /\ mode # "queue" => queue = <<>> /\ senders = <<>>
        /\ value = IF mode = "value" THEN sent ELSE 0
        /\ waiters # <<>> => queue = <<>> /\ senders = <<>> /\ value = 0
        /\ senders # <<>> => Len(queue) >= capacity
    BY DEF ParkInv, Shape, NobodyParkedInVain
  <1>3. CASE Broadcast(v)
    <2>1. /\ waiters' = Selected(waiters, Range(waiters) \ Range(waiters)) /\ mode # "queue"
          /\ value' = (IF mode = "value" THEN v ELSE value) /\ queue' = queue
      BY <1>3 DEF Broadcast, Woken
    <2>2. Range(waiters) \ Range(waiters) = {}
      OBVIOUS
    <2>3. waiters' = <<>>
      BY <1>1, <2>1, <2>2, SelectedNone
    <2> QED
      BY <1>1, <1>2, <2>1, <2>3 DEF ParkInv, Shape, NobodyParkedInVain
  <1>4. CASE HandOff(v)
    <2>1. mode = "queue" /\ waiters # <<>> /\ UNCHANGED <<value, queue>>
      BY <1>4 DEF HandOff
    <2> QED
      BY <1>2, <2>1 DEF ParkInv, Shape, NobodyParkedInVain
  <1>5. CASE Enqueue(v)
    <2>1. mode = "queue" /\ waiters' = <<>> /\ value' = value /\ queue' = Append(queue, v)
      BY <1>5 DEF Enqueue
    <2>2. v \in Value
      BY DEF NextValue, Value, TypeOK, ChannelAssumption
    <2>3. Len(queue') = Len(queue) + 1
      BY <1>1, <2>1, <2>2, AppendProperties
    <2>4. senders # <<>> => Len(queue') >= capacity
      BY <1>1, <1>2, <2>3
    <2> QED
      BY <1>2, <2>1, <2>4 DEF ParkInv, Shape, NobodyParkedInVain
  <1> QED
    BY <1>3, <1>4, <1>5 DEF Deliver

LEMMA TakePark ==
  ASSUME ChannelAssumption, TypeOK, ParkInv, Dequeue \/ TakeParked, mode = "queue",
         UNCHANGED <<mode, capacity, value, waiters, sent>>
  PROVE  ParkInv'
  <1>1. /\ queue \in Seq(Value) /\ Len(queue) \in Nat /\ capacity \in Nat /\ senders \in Seq(Sender)
    BY LenProperties DEF TypeOK, ChannelAssumption
  <1>2. /\ value = 0
        /\ waiters # <<>> => queue = <<>> /\ senders = <<>> /\ value = 0
        /\ senders # <<>> => Len(queue) >= capacity
    BY DEF ParkInv, Shape, NobodyParkedInVain
  <1>3. CASE Dequeue
    <2>1. /\ queue # <<>> /\ queue' = Tail(queue) \o Values(Promoted)
          /\ senders' = IF Promoted = <<>> THEN senders ELSE Tail(senders)
      BY <1>3 DEF Dequeue
    <2>2. Tail(queue) \in Seq(Value) /\ Len(Tail(queue)) = Len(queue) - 1
      BY <1>1, <2>1, TailRange
    <2>3. Values(Promoted) \in Seq(Value) /\ Len(Values(Promoted)) = Len(Promoted)
      BY PromotedIs, ValuesAre
    <2>4. Len(queue') = Len(queue) - 1 + Len(Promoted)
      BY <2>1, <2>2, <2>3, ConcatProperties
    <2>5. waiters = <<>>
      BY <1>2, <2>1
    <2>6. ASSUME senders' # <<>> PROVE Len(queue') >= capacity
      <3>1. senders # <<>> /\ Len(queue) >= capacity
        BY <1>1, <1>2, <2>1, <2>6, PromotedIs
      <3>2. CASE Promoted = <<>>
        <4>1. Len(Promoted) = 0 /\ ~(Len(queue) - 1 < capacity)
          BY <3>1, <3>2, PromotedIs
        <4> QED
          BY <1>1, <2>4, <4>1
      <3>3. CASE Promoted # <<>>
        <4>1. Len(Promoted) = 1
          <5>1. Len(Promoted) \in {0, 1} /\ Promoted \in Seq(Sender)
            BY PromotedIs
          <5> QED
            BY <3>3, <5>1, EmptySeq
        <4> QED
          BY <1>1, <2>4, <3>1, <4>1
      <3> QED
        BY <3>2, <3>3
    <2> QED
      BY <1>2, <2>5, <2>6 DEF ParkInv, Shape, NobodyParkedInVain
  <1>4. CASE TakeParked
    <2>1. queue = <<>> /\ queue' = queue /\ senders # <<>>
      BY <1>4 DEF TakeParked
    <2>2. waiters = <<>> /\ Len(queue) >= capacity
      BY <1>2, <2>1
    <2> QED
      BY <1>2, <2>1, <2>2 DEF ParkInv, Shape, NobodyParkedInVain
  <1> QED
    BY <1>3, <1>4

LEMMA StepPark ==
  ASSUME ChannelAssumption, TypeOK, ParkInv, Next
  PROVE  ParkInv'
  <1>1. /\ queue \in Seq(Value) /\ Len(queue) \in Nat /\ capacity \in Nat
        /\ waiters \in Seq(Proc \cup Reader) /\ senders \in Seq(Sender)
    BY LenProperties DEF TypeOK, ChannelAssumption
  <1>2. /\ mode # "queue" => queue = <<>> /\ senders = <<>>
        /\ value = IF mode = "value" THEN sent ELSE 0
        /\ waiters # <<>> => queue = <<>> /\ senders = <<>> /\ value = 0
        /\ senders # <<>> => Len(queue) >= capacity
    BY DEF ParkInv, Shape, NobodyParkedInVain
  <1>3. ASSUME UNCHANGED <<mode, capacity, value, queue, sent>>,
               waiters = <<>> => waiters' = <<>>, senders = <<>> => senders' = <<>>
        PROVE  ParkInv'
    BY <1>2, <1>3 DEF ParkInv, Shape, NobodyParkedInVain
  <1>4. ASSUME NEW v \in Value, SendExternal(v) PROVE ParkInv'
    <2>1. NextValue(v) /\ UNCHANGED <<mode, capacity, senders>>
      BY <1>4 DEF SendExternal
    <2>2. CASE Deliver(v)
      BY <2>1, <2>2, DeliverPark
    <2>3. CASE ~Deliver(v)
      <3>1. Full /\ queue' = Append(Newer(queue), v) /\ UNCHANGED <<value, waiters>>
        BY <1>4, <2>3 DEF SendExternal
      <3>2. mode = "queue" /\ waiters = <<>>
        BY <3>1 DEF Full
      <3>3. Len(queue') >= Len(queue) /\ Len(queue') \in Nat
        <4>1. CASE queue = <<>>
          <5>1. queue' = <<v>>
            BY <3>1, <4>1, AppendProperties, EmptyRange DEF Newer
          <5>2. Len(queue') = 1 /\ Len(queue) = 0
            BY <4>1, <5>1
          <5> QED
            BY <5>2
        <4>2. CASE queue # <<>>
          <5>1. Tail(queue) \in Seq(Value) /\ Len(Tail(queue)) = Len(queue) - 1
            BY <1>1, <4>2, TailRange
          <5>2. queue' = Append(Tail(queue), v)
            BY <3>1, <4>2 DEF Newer
          <5>3. Len(queue') = Len(queue)
            BY <1>1, <5>1, <5>2, AppendProperties
          <5> QED
            BY <1>1, <5>3
        <4> QED
          BY <4>1, <4>2
      <3>4. senders # <<>> => Len(queue') >= capacity
        BY <1>1, <1>2, <3>3
      <3> QED
        BY <1>2, <2>1, <3>1, <3>2, <3>4 DEF ParkInv, Shape, NobodyParkedInVain
    <2> QED
      BY <2>2, <2>3
  <1>5. ASSUME NEW p \in Proc, NEW v \in Value, Send(p, v) PROVE ParkInv'
    <2>1. NextValue(v) /\ UNCHANGED <<mode, capacity>>
      BY <1>5 DEF Send
    <2>2. CASE Deliver(v) /\ UNCHANGED senders
      BY <2>1, <2>2, DeliverPark
    <2>3. CASE ~(Deliver(v) /\ UNCHANGED senders)
      <3>1. Full /\ UNCHANGED <<value, queue, waiters>>
        BY <1>5, <2>3 DEF Send
      <3>2. mode = "queue" /\ waiters = <<>> /\ Len(queue) >= capacity
        BY <3>1 DEF Full
      <3> QED
        BY <1>2, <2>1, <3>1, <3>2 DEF ParkInv, Shape, NobodyParkedInVain
    <2> QED
      BY <2>2, <2>3
  <1>6. ASSUME NEW p \in Proc, Recv(p) PROVE ParkInv'
    <2>1. UNCHANGED <<mode, capacity, value, sent>>
      BY <1>6 DEF Recv
    <2>2. CASE mode = "queue" /\ (Dequeue \/ TakeParked) /\ UNCHANGED waiters
      BY <2>1, <2>2, TakePark
    <2>3. CASE ~(mode = "queue" /\ (Dequeue \/ TakeParked) /\ UNCHANGED waiters)
      <3>1. Nothing /\ UNCHANGED <<queue, senders>>
        BY <1>6, <2>3 DEF Recv
      <3>2. queue = <<>> /\ senders = <<>> /\ value = 0
        BY <1>2, <3>1 DEF Nothing
      <3> QED
        BY <1>2, <2>1, <3>1, <3>2 DEF ParkInv, Shape, NobodyParkedInVain
    <2> QED
      BY <2>2, <2>3
  <1>7. ASSUME NEW p \in Proc, TryRecv(p) PROVE ParkInv'
    BY <1>7, TakePark DEF TryRecv
  <1>8. ASSUME NEW p \in Proc, GiveUp(p) PROVE ParkInv'
    <2>1. /\ waiters' = Selected(waiters, Range(waiters) \ {p})
          /\ senders' = Selected(senders, {s \in Range(senders) : s.by # p})
          /\ UNCHANGED <<mode, capacity, value, queue, sent>>
      BY <1>8 DEF GiveUp, Leave
    <2>2. waiters = <<>> => waiters' = <<>>
      BY <1>1, <2>1, SelectedEmpty
    <2>3. senders = <<>> => senders' = <<>>
      BY <1>1, <2>1, SelectedEmpty
    <2> QED
      BY <1>3, <2>1, <2>2, <2>3
  <1>9. ASSUME NEW r \in Reader, Subscribe(r) PROVE ParkInv'
    BY <1>3, <1>9 DEF Subscribe, store
  <1>10. ASSUME NEW r \in Reader, Read(r) PROVE ParkInv'
    <2>1. UNCHANGED <<mode, capacity, value, sent>>
      BY <1>10 DEF Read
    <2>2. CASE ReadBuffer(r)
      BY <1>3, <2>1, <2>2 DEF ReadBuffer
    <2>3. CASE ReadShared(r)
      BY <2>1, <2>3, TakePark DEF ReadShared
    <2>4. CASE Park(r)
      <3>1. UNCHANGED <<queue, senders>> /\ (mode = "queue" => Nothing)
        BY <2>4 DEF Park
      <3>2. mode # "queue" => waiters' = waiters
        BY <2>4 DEF Park
      <3>3. mode = "queue" => queue = <<>> /\ senders = <<>> /\ value = 0
        BY <1>2, <3>1 DEF Nothing
      <3> QED
        BY <1>2, <2>1, <3>1, <3>2, <3>3 DEF ParkInv, Shape, NobodyParkedInVain
    <2> QED
      BY <1>10, <2>2, <2>3, <2>4 DEF Read
  <1>11. ASSUME NEW r \in Reader, Return(r) PROVE ParkInv'
    <2>1. waiters' = Selected(waiters, Range(waiters) \ {r})
      BY <1>11 DEF Return, Unparked
    <2>2. waiters = <<>> => waiters' = <<>>
      BY <1>1, <2>1, SelectedEmpty
    <2> QED
      BY <1>3, <1>11, <2>2 DEF Return, history
  <1>12. ASSUME GetHandle \/ OpenExecution PROVE ParkInv'
    BY <1>3, <1>12 DEF GetHandle, OpenExecution, store, history
  <1>13. ASSUME CloseExecution PROVE ParkInv'
    <2>1. /\ waiters' = Selected(waiters, Range(waiters) \ Range(subs))
          /\ UNCHANGED <<mode, capacity, value, sent>>
      BY <1>13 DEF CloseExecution, Unparked
    <2>2. waiters = <<>> => waiters' = <<>>
      BY <1>1, <2>1, SelectedEmpty
    <2>3. \/ queue' = <<>> /\ senders' = <<>>
          \/ UNCHANGED <<queue, senders>>
      BY <1>13 DEF CloseExecution
    <2> QED
      BY <1>2, <2>1, <2>2, <2>3 DEF ParkInv, Shape, NobodyParkedInVain
  <1> QED
    BY <1>4, <1>5, <1>6, <1>7, <1>8, <1>9, <1>10, <1>11, <1>12, <1>13 DEF Next

-----------------------------------------------------------------------------
(* The order of values.  E holds those that external senders sent. *)

Precedes(E, x, y) == x # y /\ ((x \in E <=> y \in E) => x < y)
InOrder(E, s) == \A i, j \in 1 .. Len(s) : i < j => Precedes(E, s[i], s[j])
Before(E, A, B) == \A x \in A, y \in B : Precedes(E, x, y)

LEMMA OrderAppend ==
  ASSUME NEW T, NEW s \in Seq(T), NEW x \in T, NEW E, InOrder(E, s), Before(E, Range(s), {x})
  PROVE  InOrder(E, Append(s, x))
  <1>1. /\ Len(s) \in Nat /\ Len(Append(s, x)) = Len(s) + 1
        /\ \A i \in 1 .. Len(s) : Append(s, x)[i] = s[i]
        /\ Append(s, x)[Len(s) + 1] = x
    BY AppendProperties, LenProperties
  <1>2. Range(s) = {s[i] : i \in 1 .. Len(s)}
    BY RangeIs
  <1>3. \A i \in 1 .. Len(s) : Precedes(E, s[i], x)
    BY <1>2 DEF Before
  <1>4. ASSUME NEW i \in 1 .. Len(s) + 1, NEW j \in 1 .. Len(s) + 1, i < j
        PROVE  Precedes(E, Append(s, x)[i], Append(s, x)[j])
    <2>1. i \in 1 .. Len(s)
      BY <1>1, <1>4
    <2>2. CASE j \in 1 .. Len(s)
      BY <1>1, <1>4, <2>1, <2>2 DEF InOrder
    <2>3. CASE j = Len(s) + 1
      BY <1>1, <1>3, <2>1, <2>3
    <2> QED
      BY <1>1, <2>2, <2>3
  <1> QED
    BY <1>1, <1>4 DEF InOrder

LEMMA OrderTail ==
  ASSUME NEW T, NEW s \in Seq(T), s # <<>>, NEW E, InOrder(E, s)
  PROVE  InOrder(E, Tail(s)) /\ Before(E, {Head(s)}, Range(Tail(s)))
  <1>1. /\ Tail(s) \in Seq(T) /\ Len(Tail(s)) = Len(s) - 1 /\ Len(s) \in Nat \ {0}
        /\ Head(s) = s[1] /\ \A i \in 1 .. Len(s) - 1 : Tail(s)[i] = s[i + 1]
    BY TailRange
  <1>2. Range(Tail(s)) = {Tail(s)[i] : i \in 1 .. Len(s) - 1}
    BY <1>1, RangeIs
  <1>3. ASSUME NEW i \in 1 .. Len(s) - 1, NEW j \in 1 .. Len(s) - 1, i < j
        PROVE  Precedes(E, Tail(s)[i], Tail(s)[j])
    <2>1. i + 1 \in 1 .. Len(s) /\ j + 1 \in 1 .. Len(s) /\ i + 1 < j + 1
      BY <1>1, <1>3
    <2> QED
      BY <1>1, <2>1 DEF InOrder
  <1>4. ASSUME NEW i \in 1 .. Len(s) - 1 PROVE Precedes(E, Head(s), Tail(s)[i])
    <2>1. i + 1 \in 1 .. Len(s) /\ 1 \in 1 .. Len(s) /\ 1 < i + 1
      BY <1>1
    <2> QED
      BY <1>1, <2>1 DEF InOrder
  <1> QED
    BY <1>1, <1>2, <1>3, <1>4 DEF InOrder, Before

LEMMA OrderConcat ==
  ASSUME NEW T, NEW s \in Seq(T), NEW t \in Seq(T), NEW E,
         InOrder(E, s), InOrder(E, t), Before(E, Range(s), Range(t))
  PROVE  InOrder(E, s \o t)
  <1>1. /\ Len(s) \in Nat /\ Len(t) \in Nat /\ Len(s \o t) = Len(s) + Len(t)
        /\ \A i \in 1 .. Len(s) + Len(t) : (s \o t)[i] = IF i <= Len(s) THEN s[i] ELSE t[i - Len(s)]
    BY ConcatProperties, LenProperties
  <1>2. Range(s) = {s[i] : i \in 1 .. Len(s)} /\ Range(t) = {t[i] : i \in 1 .. Len(t)}
    BY RangeIs
  <1>3. \A i \in 1 .. Len(s), j \in 1 .. Len(t) : Precedes(E, s[i], t[j])
    BY <1>2 DEF Before
  <1>4. ASSUME NEW i \in 1 .. Len(s) + Len(t), NEW j \in 1 .. Len(s) + Len(t), i < j
        PROVE  Precedes(E, (s \o t)[i], (s \o t)[j])
    <2>1. CASE j <= Len(s)
      <3>1. i \in 1 .. Len(s) /\ j \in 1 .. Len(s) /\ i <= Len(s)
        BY <1>1, <1>4, <2>1
      <3>2. Precedes(E, s[i], s[j])
        BY <1>4, <3>1 DEF InOrder
      <3> QED
        BY <1>1, <2>1, <3>1, <3>2
    <2>2. CASE i <= Len(s) /\ ~(j <= Len(s))
      <3>1. i \in 1 .. Len(s) /\ j - Len(s) \in 1 .. Len(t)
        BY <1>1, <2>2
      <3>2. Precedes(E, s[i], t[j - Len(s)])
        BY <1>3, <3>1
      <3> QED
        BY <1>1, <2>2, <3>2
    <2>3. CASE ~(i <= Len(s))
      <3>1. /\ i - Len(s) \in 1 .. Len(t) /\ j - Len(s) \in 1 .. Len(t) /\ ~(j <= Len(s))
            /\ i - Len(s) < j - Len(s)
        BY <1>1, <1>4, <2>3
      <3>2. Precedes(E, t[i - Len(s)], t[j - Len(s)])
        BY <3>1 DEF InOrder
      <3> QED
        BY <1>1, <2>3, <3>1, <3>2
    <2> QED
      BY <2>1, <2>2, <2>3
  <1> QED
    BY <1>1, <1>4 DEF InOrder

(* What is in order stays so while its values keep their senders. *)
LEMMA OrderSame ==
  ASSUME NEW T, NEW s \in Seq(T), NEW E, NEW F, InOrder(E, s), \A x \in Range(s) : x \in E <=> x \in F
  PROVE  InOrder(F, s)
  <1>1. \A i \in 1 .. Len(s) : s[i] \in Range(s)
    BY RangeIs
  <1> QED
    BY <1>1 DEF InOrder, Precedes

LEMMA OrderIsOnce ==
  ASSUME NEW T, NEW s \in Seq(T), NEW E, InOrder(E, s)
  PROVE  IsInjective(s)
  <1>1. \A i \in 1 .. Len(s) : i \in Int
    BY LenProperties
  <1>2. ASSUME NEW i \in 1 .. Len(s), NEW j \in 1 .. Len(s), s[i] = s[j] PROVE i = j
    <2>1. ~(i < j) /\ ~(j < i)
      BY <1>2 DEF InOrder, Precedes
    <2> QED
      BY <1>1, <2>1
  <1> QED
    BY <1>2, OnceIs

(* The values of senders are in order, in what remains of their line. *)
LEMMA OrderLeft ==
  ASSUME NEW s \in Seq(Sender), NEW S, NEW E, InOrder(E, Values(s))
  PROVE  InOrder(E, Values(Selected(s, S)))
  <1> DEFINE t == Selected(s, S)
  <1>1. t \in Seq(Sender)
    BY SelectedFrom
  <1>2. PICK f \in [1 .. Len(t) -> 1 .. Len(s)] :
          /\ \A k \in 1 .. Len(t) : t[k] = s[f[k]] /\ t[k] \in S
          /\ \A j, k \in 1 .. Len(t) : j < k => f[j] < f[k]
    BY SelectedFrom
  <1> HIDE DEF t
  <1>3. /\ Len(Values(t)) = Len(t) /\ \A i \in 1 .. Len(t) : Values(t)[i] = t[i].value
        /\ Len(Values(s)) = Len(s) /\ \A i \in 1 .. Len(s) : Values(s)[i] = s[i].value
    BY <1>1, ValuesAre
  <1>4. ASSUME NEW j \in 1 .. Len(t), NEW k \in 1 .. Len(t), j < k
        PROVE  Precedes(E, Values(t)[j], Values(t)[k])
    <2>1. f[j] \in 1 .. Len(s) /\ f[k] \in 1 .. Len(s) /\ f[j] < f[k]
      BY <1>2, <1>4
    <2>2. Precedes(E, Values(s)[f[j]], Values(s)[f[k]])
      BY <1>3, <2>1 DEF InOrder
    <2>3. Values(t)[j] = Values(s)[f[j]] /\ Values(t)[k] = Values(s)[f[k]]
      BY <1>2, <1>3, <2>1
    <2> QED
      BY <2>2, <2>3
  <1>5. InOrder(E, Values(t))
    BY <1>3, <1>4 DEF InOrder
  <1> QED
    BY <1>5 DEF t

(* No two parked senders offer the same value. *)
LEMMA OffersDiffer ==
  ASSUME NEW s \in Seq(Sender), NEW E, InOrder(E, Values(s))
  PROVE  \A a, b \in Range(s) : a.value = b.value => a = b
  <1>1. Len(Values(s)) = Len(s) /\ \A i \in 1 .. Len(s) : Values(s)[i] = s[i].value
    BY ValuesAre
  <1>2. Range(s) = {s[i] : i \in 1 .. Len(s)} /\ \A i \in 1 .. Len(s) : i \in Int
    BY RangeIs, LenProperties
  <1>3. ASSUME NEW i \in 1 .. Len(s), NEW j \in 1 .. Len(s), s[i].value = s[j].value PROVE s[i] = s[j]
    <2>1. ~(i < j) /\ ~(j < i)
      BY <1>1, <1>3 DEF InOrder, Precedes
    <2>2. i = j
      BY <1>2, <2>1
    <2> QED
      BY <2>2
  <1> QED
    BY <1>2, <1>3

LEMMA ValuesAppend ==
  ASSUME NEW s \in Seq(Sender), NEW x \in Sender
  PROVE  Values(Append(s, x)) = Append(Values(s), x.value)
  <1>1. /\ Len(s) \in Nat /\ Append(s, x) \in Seq(Sender) /\ Len(Append(s, x)) = Len(s) + 1
        /\ \A i \in 1 .. Len(s) : Append(s, x)[i] = s[i]
        /\ Append(s, x)[Len(s) + 1] = x
    BY AppendProperties, LenProperties
  <1>2. /\ Values(s) \in Seq(Value) /\ Len(Values(s)) = Len(s) /\ x.value \in Value
        /\ \A i \in 1 .. Len(s) : Values(s)[i] = s[i].value
    BY ValuesAre, SenderFields
  <1>3. /\ Values(Append(s, x)) \in Seq(Value) /\ Len(Values(Append(s, x))) = Len(s) + 1
        /\ \A i \in 1 .. Len(s) + 1 : Values(Append(s, x))[i] = Append(s, x)[i].value
    BY <1>1, ValuesAre
  <1>4. /\ Append(Values(s), x.value) \in Seq(Value) /\ Len(Append(Values(s), x.value)) = Len(s) + 1
        /\ \A i \in 1 .. Len(s) : Append(Values(s), x.value)[i] = s[i].value
        /\ Append(Values(s), x.value)[Len(s) + 1] = x.value
    BY <1>2, AppendProperties
  <1>5. \A i \in 1 .. Len(s) + 1 : Values(Append(s, x))[i] = Append(Values(s), x.value)[i]
    <2>1. \A i \in 1 .. Len(s) + 1 : i \in 1 .. Len(s) \/ i = Len(s) + 1
      BY <1>1
    <2> QED
      BY <1>1, <1>3, <1>4, <2>1
  <1> QED
    BY <1>3, <1>4, <1>5, SeqEqual

LEMMA ValuesTail ==
  ASSUME NEW s \in Seq(Sender), s # <<>>
  PROVE  /\ Values(s) # <<>> /\ Head(Values(s)) = Head(s).value
         /\ Values(Tail(s)) = Tail(Values(s))
  <1>1. /\ Tail(s) \in Seq(Sender) /\ Len(Tail(s)) = Len(s) - 1 /\ Len(s) \in Nat \ {0}
        /\ Head(s) = s[1] /\ \A i \in 1 .. Len(s) - 1 : Tail(s)[i] = s[i + 1]
    BY TailRange
  <1>2. /\ Values(s) \in Seq(Value) /\ Len(Values(s)) = Len(s)
        /\ \A i \in 1 .. Len(s) : Values(s)[i] = s[i].value
    BY ValuesAre
  <1>3. Values(s) # <<>>
    BY <1>1, <1>2, EmptySeq
  <1>4. /\ Tail(Values(s)) \in Seq(Value) /\ Len(Tail(Values(s))) = Len(s) - 1
        /\ Head(Values(s)) = Values(s)[1]
        /\ \A i \in 1 .. Len(s) - 1 : Tail(Values(s))[i] = Values(s)[i + 1]
    BY <1>2, <1>3, TailRange
  <1>5. /\ Values(Tail(s)) \in Seq(Value) /\ Len(Values(Tail(s))) = Len(s) - 1
        /\ \A i \in 1 .. Len(s) - 1 : Values(Tail(s))[i] = Tail(s)[i].value
    BY <1>1, ValuesAre
  <1>6. \A i \in 1 .. Len(s) - 1 : Values(Tail(s))[i] = Tail(Values(s))[i]
    <2>1. \A i \in 1 .. Len(s) - 1 : i + 1 \in 1 .. Len(s)
      BY <1>1
    <2> QED
      BY <1>1, <1>2, <1>4, <1>5, <2>1
  <1>7. 1 \in 1 .. Len(s)
    BY <1>1
  <1> QED
    BY <1>1, <1>2, <1>3, <1>4, <1>5, <1>6, <1>7, SeqEqual

-----------------------------------------------------------------------------
(* Where the values of a queue channel are. *)

(* a is taken, b queued and c parked: what comes from steps, or from external
   senders, is in order all along. *)
Lined(E, a, b, c) ==
  /\ InOrder(E, a) /\ InOrder(E, b) /\ InOrder(E, c)
  /\ Before(E, Range(a), Range(b)) /\ Before(E, Range(a), Range(c))
  /\ Before(E, Range(b), Range(c))
Live(a, b, c) == Range(a) \cup Range(b) \cup Range(c)
Account ==
  LET parked == Values(senders)
      live == Live(taken, queue, parked)
  IN /\ external \subseteq 1 .. sent
     /\ mode = "queue" =>
          /\ Lined(external, taken, queue, parked)
          /\ Range(parked) \cap external = {}
          /\ live \cap gone = {} /\ live \cup gone = 1 .. sent

(* The head of the queue is taken. *)
LEMMA TakeOne ==
  ASSUME NEW T, NEW a \in Seq(T), NEW b \in Seq(T), NEW c \in Seq(T), NEW E, b # <<>>, Lined(E, a, b, c)
  PROVE  /\ Lined(E, Append(a, Head(b)), Tail(b), c)
         /\ Live(Append(a, Head(b)), Tail(b), c) = Live(a, b, c)
  <1> DEFINE h == Head(b)
             t == Tail(b)
             a1 == Append(a, h)
  <1>1. /\ h \in T /\ t \in Seq(T) /\ Range(b) = {h} \cup Range(t)
        /\ InOrder(E, t) /\ Before(E, {h}, Range(t))
    BY TailRange, OrderTail DEF Lined
  <1> HIDE DEF h, t
  <1>2. Range(a1) = Range(a) \cup {h}
    BY <1>1, AppendRange
  <1>3. Before(E, Range(a), {h})
    BY <1>1 DEF Lined, Before
  <1>4. InOrder(E, a1)
    BY <1>1, <1>3, OrderAppend DEF Lined
  <1> HIDE DEF a1
  <1>5. /\ Before(E, Range(a1), Range(t)) /\ Before(E, Range(a1), Range(c))
        /\ Before(E, Range(t), Range(c))
    BY <1>1, <1>2 DEF Lined, Before
  <1>6. InOrder(E, c)
    BY DEF Lined
  <1>7. Lined(E, a1, t, c)
    BY <1>1, <1>4, <1>5, <1>6 DEF Lined
  <1>8. Live(a1, t, c) = Live(a, b, c)
    BY <1>1, <1>2 DEF Live
  <1> QED
    BY <1>7, <1>8 DEF a1, h, t

(* The first parked value enters the queue. *)
LEMMA PromoteOne ==
  ASSUME NEW T, NEW a \in Seq(T), NEW b \in Seq(T), NEW c \in Seq(T), NEW E, c # <<>>, Lined(E, a, b, c)
  PROVE  /\ Lined(E, a, Append(b, Head(c)), Tail(c))
         /\ Live(a, Append(b, Head(c)), Tail(c)) = Live(a, b, c)
         /\ Range(Tail(c)) \subseteq Range(c)
  <1> DEFINE h == Head(c)
             t == Tail(c)
             b1 == Append(b, h)
  <1>1. /\ h \in T /\ t \in Seq(T) /\ Range(c) = {h} \cup Range(t)
        /\ InOrder(E, t) /\ Before(E, {h}, Range(t))
    BY TailRange, OrderTail DEF Lined
  <1> HIDE DEF h, t
  <1>2. Range(b1) = Range(b) \cup {h}
    BY <1>1, AppendRange
  <1>3. Before(E, Range(b), {h})
    BY <1>1 DEF Lined, Before
  <1>4. InOrder(E, b1)
    BY <1>1, <1>3, OrderAppend DEF Lined
  <1> HIDE DEF b1
  <1>5. /\ Before(E, Range(a), Range(b1)) /\ Before(E, Range(a), Range(t))
        /\ Before(E, Range(b1), Range(t))
    BY <1>1, <1>2 DEF Lined, Before
  <1>6. InOrder(E, a)
    BY DEF Lined
  <1>7. Lined(E, a, b1, t)
    BY <1>1, <1>4, <1>5, <1>6 DEF Lined
  <1>8. Live(a, b1, t) = Live(a, b, c)
    BY <1>1, <1>2 DEF Live
  <1>9. Range(t) \subseteq Range(c)
    BY <1>1
  <1> QED
    BY <1>7, <1>8, <1>9 DEF b1, h, t

LEMMA OneIs ==
  ASSUME NEW T, NEW x \in T
  PROVE  <<x>> \in Seq(T) /\ <<x>> # <<>> /\ Head(<<x>>) = x /\ Tail(<<x>>) = <<>>
  OBVIOUS

LEMMA InitAccount ==
  ASSUME ChannelAssumption, Init
  PROVE  Account
  <1>1. sent \in Nat
    BY InitTypes DEF TypeOK, ChannelAssumption
  <1>2. external = {} /\ gone = {} /\ taken = <<>> /\ senders = <<>>
    BY DEF Init
  <1>3. Values(senders) = <<>>
    <2>1. senders \in Seq(Sender) /\ Len(senders) = 0
      BY <1>2, EmptyRange
    <2>2. Values(senders) \in Seq(Value) /\ Len(Values(senders)) = 0
      BY <2>1, ValuesAre
    <2> QED
      BY <2>2, EmptySeq
  <1>4. Range(taken) = {} /\ Range(Values(senders)) = {} /\ Len(taken) = 0 /\ Len(Values(senders)) = 0
    BY <1>2, <1>3, EmptyRange
  <1>5. ASSUME mode = "queue" PROVE InOrder({}, queue) /\ Range(queue) = 1 .. sent
    <2>1. queue = Upto(sent)
      BY <1>5 DEF Init
    <2>2. queue \in Seq(Nat) /\ Len(queue) = sent /\ \A i \in 1 .. sent : queue[i] = i
      BY <1>1, <2>1 DEF Upto
    <2>3. Range(queue) = {queue[i] : i \in 1 .. sent}
      BY <2>2, RangeIs
    <2> QED
      BY <2>2, <2>3 DEF InOrder, Precedes
  <1>6. InOrder(external, taken) /\ InOrder(external, Values(senders))
    BY <1>4 DEF InOrder
  <1>7. ASSUME mode = "queue" PROVE Lined(external, taken, queue, Values(senders))
    BY <1>2, <1>4, <1>5, <1>6, <1>7 DEF Lined, Before
  <1> QED
    BY <1>2, <1>4, <1>5, <1>7 DEF Account, Live

(* Values only move on, and nothing is sent or given up. *)
LEMMA MoveOn ==
  ASSUME Account, UNCHANGED <<mode, external, sent, gone>>,
         mode = "queue" =>
           /\ Lined(external, taken', queue', Values(senders'))
           /\ Live(taken', queue', Values(senders')) = Live(taken, queue, Values(senders))
           /\ Range(Values(senders')) \subseteq Range(Values(senders))
  PROVE  Account'
  BY DEF Account

LEMMA TakeAccount ==
  ASSUME TypeOK, Account, Dequeue \/ TakeParked, UNCHANGED <<mode, external, sent, gone>>
  PROVE  Account'
  <1> DEFINE c == Values(senders)
  <1>1. queue \in Seq(Value) /\ taken \in Seq(Value) /\ senders \in Seq(Sender)
    BY DEF TypeOK
  <1>2. c \in Seq(Value)
    BY <1>1, ValuesAre
  <1>3. ASSUME senders # <<>>
        PROVE  c # <<>> /\ Head(c) = Head(senders).value /\ Values(Tail(senders)) = Tail(c)
               /\ Head(senders) \in Sender /\ Tail(c) \in Seq(Value) /\ Head(c) \in Value
    <2>1. c # <<>> /\ Head(c) = Head(senders).value /\ Values(Tail(senders)) = Tail(c)
      BY <1>1, <1>3, ValuesTail
    <2>2. Head(senders) \in Sender
      BY <1>1, <1>3, TailRange
    <2>3. Tail(c) \in Seq(Value) /\ Head(c) \in Value
      BY <1>2, <2>1, TailRange
    <2> QED
      BY <2>1, <2>2, <2>3
  <1>4. SUFFICES ASSUME mode = "queue"
        PROVE  /\ Lined(external, taken', queue', Values(senders'))
               /\ Live(taken', queue', Values(senders')) = Live(taken, queue, c)
               /\ Range(Values(senders')) \subseteq Range(c)
    BY MoveOn
  <1>5. Lined(external, taken, queue, c)
    BY <1>4 DEF Account
  <1>6. CASE Dequeue
    <2> DEFINE a1 == Append(taken, Head(queue))
               b1 == Tail(queue)
    <2>1. queue # <<>> /\ taken' = a1
      BY <1>6 DEF Dequeue
    <2>2. Lined(external, a1, b1, c) /\ Live(a1, b1, c) = Live(taken, queue, c)
      BY <1>1, <1>2, <1>5, <2>1, TakeOne
    <2>3. b1 \in Seq(Value) /\ a1 \in Seq(Value)
      <3>1. b1 \in Seq(Value) /\ Head(queue) \in Value
        BY <1>1, <2>1, TailRange
      <3> QED
        BY <1>1, <3>1, AppendProperties
    <2>4. queue' = b1 \o Values(Promoted)
      BY <1>6 DEF Dequeue
    <2>5. senders' = IF Promoted = <<>> THEN senders ELSE Tail(senders)
      BY <1>6 DEF Dequeue
    <2> HIDE DEF a1, b1, c
    <2>6. CASE Promoted = <<>>
      <3>1. Values(Promoted) = <<>>
        <4>1. Promoted \in Seq(Sender) /\ Len(Promoted) = 0
          BY <2>6, PromotedIs
        <4>2. Values(Promoted) \in Seq(Value) /\ Len(Values(Promoted)) = 0
          BY <4>1, ValuesAre
        <4> QED
          BY <4>2, EmptySeq
      <3>2. queue' = b1
        BY <2>3, <2>4, <3>1, ConcatEmptySeq
      <3>3. Values(senders') = c
        BY <2>5, <2>6 DEF c
      <3> QED
        BY <2>1, <2>2, <3>2, <3>3
    <2>7. CASE Promoted # <<>>
      <3>1. senders # <<>> /\ Promoted = <<Head(senders)>>
        BY <2>7, PromotedIs
      <3>2. Values(Promoted) = <<Head(c)>>
        <4>1. Values(Promoted) = [i \in 1 .. Len(Promoted) |-> Promoted[i].value]
          BY DEF Values
        <4>2. Len(Promoted) = 1 /\ Promoted[1] = Head(senders)
          BY <3>1
        <4>3. Promoted \in Seq(Sender)
          BY PromotedIs
        <4>4. /\ Values(Promoted) \in Seq(Value) /\ Len(Values(Promoted)) = 1
              /\ Values(Promoted)[1] = Head(senders).value
          BY <4>2, <4>3, ValuesAre
        <4>5. <<Head(c)>> \in Seq(Value) /\ Len(<<Head(c)>>) = 1 /\ <<Head(c)>>[1] = Head(c)
          BY <1>3, <3>1 DEF c
        <4>6. Head(c) = Head(senders).value
          BY <1>3, <3>1 DEF c
        <4> QED
          BY <4>4, <4>5, <4>6, SeqEqual
      <3>3. queue' = Append(b1, Head(c))
        <4>1. Head(c) \in Value
          BY <1>3, <3>1 DEF c
        <4> QED
          BY <2>3, <2>4, <3>2, <4>1, AppendIsConcat
      <3>4. Values(senders') = Tail(c) /\ c # <<>> /\ c \in Seq(Value)
        BY <1>2, <1>3, <2>5, <2>7, <3>1 DEF c
      <3>5. /\ Lined(external, a1, Append(b1, Head(c)), Tail(c))
            /\ Live(a1, Append(b1, Head(c)), Tail(c)) = Live(a1, b1, c)
            /\ Range(Tail(c)) \subseteq Range(c)
        BY <2>2, <2>3, <3>4, PromoteOne
      <3> QED
        BY <2>1, <2>2, <3>3, <3>4, <3>5
    <2> QED
      BY <2>6, <2>7
  <1>7. CASE TakeParked
    <2>1. /\ queue = <<>> /\ queue' = <<>> /\ senders # <<>> /\ senders' = Tail(senders)
          /\ taken' = Append(taken, Head(senders).value)
      BY <1>7 DEF TakeParked
    <2>2. /\ c # <<>> /\ c \in Seq(Value) /\ taken' = Append(taken, Head(c)) /\ Values(senders') = Tail(c)
          /\ Tail(c) \in Seq(Value) /\ Head(c) \in Value
      BY <1>2, <1>3, <2>1
    <2> HIDE DEF c
    <2> DEFINE b1 == Append(queue, Head(c))
    <2>3. /\ Lined(external, taken, b1, Tail(c))
          /\ Live(taken, b1, Tail(c)) = Live(taken, queue, c)
          /\ Range(Tail(c)) \subseteq Range(c)
      BY <1>1, <1>5, <2>2, PromoteOne
    <2>4. b1 \in Seq(Value) /\ b1 # <<>> /\ Head(b1) = Head(c) /\ Tail(b1) = <<>>
      <3>1. b1 = <<Head(c)>>
        BY <2>1, <2>2
      <3> QED
        BY <2>2, <3>1, OneIs
    <2> HIDE DEF b1
    <2>5. /\ Lined(external, Append(taken, Head(b1)), Tail(b1), Tail(c))
          /\ Live(Append(taken, Head(b1)), Tail(b1), Tail(c)) = Live(taken, b1, Tail(c))
      BY <1>1, <2>2, <2>3, <2>4, TakeOne
    <2> QED
      BY <2>1, <2>2, <2>3, <2>4, <2>5
  <1> QED
    BY <1>6, <1>7

(* The value of a new send comes after all that were sent before. *)
LEMMA Fresh ==
  ASSUME ChannelAssumption, TypeOK, NEW v, NextValue(v)
  PROVE  /\ v \in Value /\ sent' = v /\ v \notin 1 .. sent /\ 1 .. v = (1 .. sent) \cup {v}
         /\ \A E : Before(E, 1 .. sent, {v})
  <1>1. v \in Nat /\ sent \in Nat /\ v = sent + 1 /\ v <= MaxSends /\ MaxSends \in Nat /\ sent' = v
    BY DEF NextValue, TypeOK, ChannelAssumption
  <1>2. v \in Value /\ v \notin 1 .. sent /\ 1 .. v = (1 .. sent) \cup {v}
    BY <1>1 DEF Value
  <1>3. \A x \in 1 .. sent : x # v /\ x < v
    BY <1>1
  <1> QED
    BY <1>1, <1>2, <1>3 DEF Before, Precedes

(* Who sent the others does not change with it. *)
LEMMA StillLined ==
  ASSUME ChannelAssumption, TypeOK, Account, mode = "queue", NEW v, NextValue(v),
         NEW E, E = external \/ E = external \cup {v}
  PROVE  LET c == Values(senders)
             live == Live(taken, queue, c)
         IN  Lined(E, taken, queue, c) /\ live \subseteq 1 .. sent /\ Before(E, live, {v})
  <1> DEFINE c == Values(senders)
             live == Live(taken, queue, c)
  <1>1. taken \in Seq(Value) /\ queue \in Seq(Value) /\ c \in Seq(Value)
    BY ValuesAre DEF TypeOK
  <1>2. Lined(external, taken, queue, c) /\ live \cup gone = 1 .. sent
    BY DEF Account
  <1>3. live = Range(taken) \cup Range(queue) \cup Range(c)
    BY DEF Live
  <1> HIDE DEF c, live
  <1>4. live \subseteq 1 .. sent
    BY <1>2
  <1>5. \A x \in live : x \in external <=> x \in E
    BY <1>4, Fresh
  <1>6. InOrder(E, taken) /\ InOrder(E, queue) /\ InOrder(E, c)
    <2>1. InOrder(E, taken)
      BY <1>1, <1>2, <1>3, <1>5, OrderSame DEF Lined
    <2>2. InOrder(E, queue)
      BY <1>1, <1>2, <1>3, <1>5, OrderSame DEF Lined
    <2>3. InOrder(E, c)
      BY <1>1, <1>2, <1>3, <1>5, OrderSame DEF Lined
    <2> QED
      BY <2>1, <2>2, <2>3
  <1>7. /\ Before(E, Range(taken), Range(queue)) /\ Before(E, Range(taken), Range(c))
        /\ Before(E, Range(queue), Range(c))
    BY <1>2, <1>3, <1>5 DEF Lined, Before, Precedes
  <1>8. Before(E, live, {v})
    BY <1>4, Fresh DEF Before
  <1> QED
    BY <1>4, <1>6, <1>7, <1>8 DEF Lined, c, live

LEMMA DeliverAccount ==
  ASSUME ChannelAssumption, TypeOK, ParkInv, Account, NEW v, NextValue(v), Deliver(v),
         UNCHANGED <<mode, senders, gone>>, external' = external \/ external' = external \cup {v}
  PROVE  Account'
  <1>1. /\ taken \in Seq(Value) /\ queue \in Seq(Value) /\ senders \in Seq(Sender)
        /\ Len(queue) \in Nat /\ capacity \in Nat
    BY LenProperties DEF TypeOK, ChannelAssumption
  <1>2. /\ v \in Value /\ sent' = v /\ v \notin 1 .. sent /\ 1 .. v = (1 .. sent) \cup {v}
        /\ external' \subseteq 1 .. sent'
    BY Fresh DEF Account
  <1>3. CASE mode # "queue"
    BY <1>2, <1>3 DEF Account
  <1>4. CASE mode = "queue"
    <2> DEFINE E == external'
               live == Live(taken, queue, <<>>)
    <2>1. senders = <<>>
      <3>1. waiters # <<>> => senders = <<>>
        BY DEF ParkInv, NobodyParkedInVain
      <3>2. waiters = <<>> => senders = <<>>
        <4>1. ASSUME waiters = <<>> PROVE ~(Len(queue) >= capacity)
          BY <1>4, <4>1 DEF Deliver, Broadcast, HandOff, Enqueue, Full
        <4> QED
          BY <4>1 DEF ParkInv, NobodyParkedInVain
      <3> QED
        BY <3>1, <3>2
    <2>2. Values(senders) = <<>> /\ Values(senders') = <<>>
      <3>1. Values(senders) \in Seq(Value) /\ Len(Values(senders)) = 0
        BY <1>1, <2>1, ValuesAre, EmptyRange
      <3> QED
        BY <3>1, EmptySeq
    <2>3. Range(<<>>) = {} /\ Range(<<>>) \cap E = {}
      BY EmptyRange
    <2>4. Lined(E, taken, queue, <<>>) /\ live \subseteq 1 .. sent /\ Before(E, live, {v})
      BY <1>4, <2>2, StillLined
    <2>5. live \cap gone = {} /\ live \cup gone = 1 .. sent
      BY <1>4, <2>2 DEF Account
    <2> SUFFICES /\ Lined(E, taken', queue', <<>>)
                 /\ Live(taken', queue', <<>>) = live \cup {v}
      BY <1>2, <2>2, <2>3, <2>5 DEF Account
    <2>6. live = Range(taken) \cup Range(queue)
      BY <2>3 DEF Live
    <2> HIDE DEF E, live
    <2>7. Before(E, Range(taken), {v}) /\ Before(E, Range(queue), {v})
      BY <2>4, <2>6 DEF Before
    <2>8. CASE HandOff(v)
      <3>1. waiters # <<>> /\ taken' = Append(taken, v) /\ queue' = queue
        BY <2>8 DEF HandOff
      <3>2. queue = <<>> /\ Range(queue) = {}
        BY <3>1, EmptyRange DEF ParkInv, NobodyParkedInVain
      <3>3. Range(taken') = Range(taken) \cup {v} /\ InOrder(E, taken')
        BY <1>1, <1>2, <2>4, <2>7, <3>1, AppendRange, OrderAppend DEF Lined
      <3>4. Lined(E, taken', queue', <<>>)
        BY <2>3, <2>4, <3>1, <3>2, <3>3 DEF Lined, Before
      <3>5. Live(taken', queue', <<>>) = live \cup {v}
        BY <2>3, <2>6, <3>1, <3>3 DEF Live
      <3> QED
        BY <3>4, <3>5
    <2>9. CASE Enqueue(v)
      <3>1. queue' = Append(queue, v) /\ taken' = taken
        BY <2>9 DEF Enqueue
      <3>2. Range(queue') = Range(queue) \cup {v} /\ InOrder(E, queue')
        BY <1>1, <1>2, <2>4, <2>7, <3>1, AppendRange, OrderAppend DEF Lined
      <3>3. Before(E, Range(taken'), Range(queue'))
        BY <2>4, <2>7, <3>1, <3>2 DEF Lined, Before
      <3>4. Lined(E, taken', queue', <<>>)
        BY <2>3, <2>4, <3>1, <3>2, <3>3 DEF Lined, Before
      <3>5. Live(taken', queue', <<>>) = live \cup {v}
        BY <2>3, <2>6, <3>1, <3>2 DEF Live
      <3> QED
        BY <3>4, <3>5
    <2> QED
      BY <1>4, <2>8, <2>9 DEF Deliver, Broadcast
  <1> QED
    BY <1>3, <1>4

(* A step parks with its value. *)
LEMMA ParkAccount ==
  ASSUME ChannelAssumption, TypeOK, Account, NEW p \in Proc, NEW v, NextValue(v),
         senders' = Append(senders, [by |-> p, value |-> v]),
         UNCHANGED <<mode, queue, taken, gone, external>>
  PROVE  Account'
  <1> DEFINE c == Values(senders)
             live == Live(taken, queue, c)
             d == Append(c, v)
  <1>1. /\ v \in Value /\ sent' = v /\ v \notin 1 .. sent /\ 1 .. v = (1 .. sent) \cup {v}
        /\ external' \subseteq 1 .. sent /\ external' \subseteq 1 .. sent'
    BY Fresh DEF Account
  <1>2. c \in Seq(Value)
    BY ValuesAre DEF TypeOK
  <1>3. Values(senders') = d
    <2>1. [by |-> p, value |-> v] \in Sender /\ [by |-> p, value |-> v].value = v
      BY <1>1 DEF Sender
    <2> QED
      BY <2>1, ValuesAppend DEF TypeOK
  <1>4. SUFFICES ASSUME mode = "queue"
        PROVE  /\ Lined(external, taken, queue, d) /\ Range(d) \cap external = {}
               /\ Live(taken, queue, d) \cap gone = {} /\ Live(taken, queue, d) \cup gone = 1 .. v
    BY <1>1, <1>3 DEF Account
  <1>5. Lined(external, taken, queue, c) /\ live \subseteq 1 .. sent /\ Before(external, live, {v})
    BY <1>4, StillLined
  <1>6. /\ live \cap gone = {} /\ live \cup gone = 1 .. sent
        /\ Range(c) \cap external = {}
    BY <1>4 DEF Account
  <1>7. live = Range(taken) \cup Range(queue) \cup Range(c)
    BY DEF Live
  <1> HIDE DEF c, live
  <1>8. /\ Before(external, Range(taken), {v}) /\ Before(external, Range(queue), {v})
        /\ Before(external, Range(c), {v})
    BY <1>5, <1>7 DEF Before
  <1>9. Range(d) = Range(c) \cup {v} /\ InOrder(external, d)
    BY <1>1, <1>2, <1>5, <1>8, AppendRange, OrderAppend DEF Lined
  <1> HIDE DEF d
  <1>10. Before(external, Range(taken), Range(d)) /\ Before(external, Range(queue), Range(d))
    BY <1>5, <1>8, <1>9 DEF Lined, Before
  <1>11. Lined(external, taken, queue, d)
    BY <1>5, <1>9, <1>10 DEF Lined
  <1>12. Live(taken, queue, d) = live \cup {v}
    BY <1>7, <1>9 DEF Live
  <1>13. v \notin external /\ v \notin gone
    BY <1>1, <1>6
  <1> QED
    BY <1>1, <1>6, <1>9, <1>11, <1>12, <1>13

(* An external value takes the place of the oldest in a full queue. *)
LEMMA DropAccount ==
  ASSUME ChannelAssumption, TypeOK, Account, NEW v, NextValue(v),
         external' = external \cup {v}, gone' = gone \cup Oldest(queue),
         queue' = Append(Newer(queue), v), UNCHANGED <<mode, senders, taken>>
  PROVE  Account'
  <1> DEFINE c == Values(senders)
             live == Live(taken, queue, c)
             E == external \cup {v}
             n == Newer(queue)
             old == Oldest(queue)
  <1>1. /\ v \in Value /\ sent' = v /\ v \notin 1 .. sent /\ 1 .. v = (1 .. sent) \cup {v}
        /\ external' \subseteq 1 .. sent'
    BY Fresh DEF Account
  <1>2. c \in Seq(Value) /\ queue \in Seq(Value)
    BY ValuesAre DEF TypeOK
  <1>3. SUFFICES ASSUME mode = "queue"
        PROVE  /\ Lined(E, taken, queue', c) /\ Range(c) \cap E = {}
               /\ Live(taken, queue', c) \cap (gone \cup old) = {}
               /\ Live(taken, queue', c) \cup gone \cup old = 1 .. v
    BY <1>1 DEF Account
  <1>4. Lined(E, taken, queue, c) /\ live \subseteq 1 .. sent /\ Before(E, live, {v})
    BY <1>3, StillLined
  <1>5. live \cap gone = {} /\ live \cup gone = 1 .. sent /\ Range(c) \cap external = {}
    BY <1>3 DEF Account
  <1>6. live = Range(taken) \cup Range(queue) \cup Range(c)
    BY DEF Live
  <1>7. /\ n \in Seq(Value) /\ Range(queue) = old \cup Range(n) /\ InOrder(E, n)
        /\ Before(E, old, Range(n))
    <2>1. CASE queue = <<>>
      <3>1. n = <<>> /\ old = {} /\ Range(n) = {} /\ <<>> \in Seq(Value)
        BY <2>1, EmptyRange DEF Newer, Oldest
      <3> QED
        BY <1>4, <2>1, <3>1 DEF Lined, Before
    <2>2. CASE queue # <<>>
      <3>1. n = Tail(queue) /\ old = {Head(queue)}
        BY <2>2 DEF Newer, Oldest
      <3>2. Tail(queue) \in Seq(Value) /\ Range(queue) = {Head(queue)} \cup Range(Tail(queue))
        BY <1>2, <2>2, TailRange
      <3>3. InOrder(E, Tail(queue)) /\ Before(E, {Head(queue)}, Range(Tail(queue)))
        BY <1>2, <1>4, <2>2, OrderTail DEF Lined
      <3> QED
        BY <3>1, <3>2, <3>3
    <2> QED
      BY <2>1, <2>2
  <1>8. queue' = Append(n, v)
    OBVIOUS
  <1>9. Range(c) \cap E = {} /\ v \notin live /\ v \notin gone
    BY <1>1, <1>4, <1>5, <1>6
  <1>10. v \in E
    OBVIOUS
  <1> HIDE DEF c, live, E, n, old
  <1>11. /\ Before(E, Range(taken), {v}) /\ Before(E, Range(n), {v})
    BY <1>4, <1>6, <1>7 DEF Before
  <1>12. Before(E, {v}, Range(c))
    BY <1>6, <1>9, <1>10 DEF Before, Precedes
  <1>13. Range(queue') = Range(n) \cup {v} /\ InOrder(E, queue')
    BY <1>1, <1>7, <1>8, <1>11, AppendRange, OrderAppend
  <1>14. /\ Before(E, Range(taken), Range(queue')) /\ Before(E, Range(queue'), Range(c))
         /\ Before(E, Range(taken), Range(c))
    BY <1>4, <1>7, <1>11, <1>12, <1>13 DEF Lined, Before
  <1>15. Lined(E, taken, queue', c)
    BY <1>4, <1>13, <1>14 DEF Lined
  <1>16. Live(taken, queue', c) = Range(taken) \cup Range(n) \cup Range(c) \cup {v}
    BY <1>13 DEF Live
  <1>17. old \cap Range(n) = {} /\ old \cap Range(taken) = {} /\ old \cap Range(c) = {}
    BY <1>4, <1>7 DEF Lined, Before, Precedes
  <1>18. v \notin old /\ old \subseteq live
    BY <1>6, <1>7, <1>9
  <1>19. Live(taken, queue', c) \cap (gone \cup old) = {}
    BY <1>5, <1>6, <1>7, <1>9, <1>16, <1>17, <1>18
  <1>20. Live(taken, queue', c) \cup gone \cup old = 1 .. v
    BY <1>1, <1>5, <1>6, <1>7, <1>16
  <1> QED
    BY <1>9, <1>15, <1>19, <1>20

(* Who gives up takes its value out of line. *)
LEMMA GiveUpAccount ==
  ASSUME TypeOK, Account, NEW p \in Proc, GiveUp(p)
  PROVE  Account'
  <1> DEFINE mine == {s \in Range(senders) : s.by = p}
             c == Values(senders)
             d == Values(senders')
  <1>1. /\ senders' = Selected(senders, {s \in Range(senders) : s.by # p})
        /\ gone' = gone \cup {s.value : s \in mine}
        /\ UNCHANGED <<mode, queue, taken, sent, external>>
    BY DEF GiveUp, Leave
  <1>2. senders \in Seq(Sender) /\ senders' \in Seq(Sender)
    BY <1>1, SelectedRange DEF TypeOK
  <1>3. Range(senders') = {s \in Range(senders) : s.by # p}
    BY <1>1, <1>2, SelectedRange
  <1>4. Range(c) = {s.value : s \in Range(senders)} /\ Range(d) = {s.value : s \in Range(senders')}
    BY <1>2, ValuesAre
  <1>5. SUFFICES ASSUME mode = "queue"
        PROVE  /\ Lined(external, taken, queue, d) /\ Range(d) \cap external = {}
               /\ Live(taken, queue, d) \cap gone' = {} /\ Live(taken, queue, d) \cup gone' = 1 .. sent
    BY <1>1 DEF Account
  <1>6. /\ Lined(external, taken, queue, c) /\ Range(c) \cap external = {}
        /\ Live(taken, queue, c) \cap gone = {} /\ Live(taken, queue, c) \cup gone = 1 .. sent
    BY <1>5 DEF Account
  <1>7. \A a, b \in Range(senders) : a.value = b.value => a = b
    BY <1>2, <1>6, OffersDiffer DEF Lined
  <1>8. InOrder(external, d)
    BY <1>1, <1>2, <1>6, OrderLeft DEF Lined
  <1> DEFINE lost == {s.value : s \in mine}
  <1>9. Range(c) = Range(d) \cup lost
    BY <1>3, <1>4
  <1>10. Range(d) \cap lost = {}
    BY <1>3, <1>4, <1>7
  <1>11. gone' = gone \cup lost
    BY <1>1
  <1> HIDE DEF c, d, lost
  <1>12. Lined(external, taken, queue, d)
    BY <1>6, <1>8, <1>9 DEF Lined, Before
  <1>13. lost \cap Range(taken) = {} /\ lost \cap Range(queue) = {}
    BY <1>6, <1>9 DEF Lined, Before, Precedes
  <1>14. Live(taken, queue, d) \cap gone' = {}
    BY <1>6, <1>9, <1>10, <1>11, <1>13 DEF Live
  <1>15. Live(taken, queue, d) \cup gone' = 1 .. sent
    BY <1>6, <1>9, <1>11 DEF Live
  <1> QED
    BY <1>6, <1>9, <1>12, <1>14, <1>15

(* The first reader to end takes along what is left. *)
LEMMA CloseAccount ==
  ASSUME TypeOK, Account, CloseExecution
  PROVE  Account'
  <1> DEFINE c == Values(senders)
             left == queue \o c
  <1>1. UNCHANGED <<mode, external, sent, gone>>
    BY DEF CloseExecution
  <1>2. CASE ~(mode = "queue" /\ subs # <<>>)
    <2>1. UNCHANGED <<queue, senders, taken>>
      BY <1>2 DEF CloseExecution
    <2> QED
      BY <1>1, <2>1 DEF Account
  <1>3. CASE mode = "queue" /\ subs # <<>>
    <2>1. queue' = <<>> /\ senders' = <<>> /\ taken' = taken \o left
      BY <1>3 DEF CloseExecution
    <2>2. taken \in Seq(Value) /\ queue \in Seq(Value) /\ c \in Seq(Value)
      BY ValuesAre DEF TypeOK
    <2>3. Lined(external, taken, queue, c)
      BY <1>3 DEF Account
    <2>4. Values(senders') = <<>> /\ Len(<<>>) = 0
      <3>1. senders' \in Seq(Sender) /\ Len(senders') = 0
        BY <2>1, EmptyRange
      <3>2. Values(senders') \in Seq(Value) /\ Len(Values(senders')) = 0
        BY <3>1, ValuesAre
      <3> QED
        BY <3>2, EmptySeq
    <2> HIDE DEF c
    <2>5. left \in Seq(Value) /\ Range(left) = Range(queue) \cup Range(c) /\ InOrder(external, left)
      BY <2>2, <2>3, ConcatRange, OrderConcat DEF Lined
    <2> HIDE DEF left
    <2>6. Before(external, Range(taken), Range(left))
      BY <2>3, <2>5 DEF Lined, Before
    <2>7. /\ Range(taken \o left) = Range(taken) \cup Range(left)
          /\ InOrder(external, taken \o left)
      <3>1. Range(taken \o left) = Range(taken) \cup Range(left)
        BY <2>2, <2>5, ConcatRange
      <3>2. InOrder(external, taken)
        BY <2>3 DEF Lined
      <3>3. InOrder(external, taken \o left)
        BY <2>2, <2>5, <2>6, <3>2, OrderConcat
      <3> QED
        BY <3>1, <3>3
    <2>8. InOrder(external, <<>>) /\ Range(<<>>) = {}
      BY <2>4, EmptyRange DEF InOrder
    <2>9. Lined(external, taken', queue', <<>>)
      BY <2>1, <2>7, <2>8 DEF Lined, Before
    <2>10. Live(taken', queue', <<>>) = Live(taken, queue, c)
      BY <2>1, <2>5, <2>7, <2>8 DEF Live
    <2>11. Range(<<>>) \subseteq Range(c)
      BY <2>8
    <2> QED
      BY <1>1, <2>4, <2>9, <2>10, <2>11, MoveOn DEF c
  <1> QED
    BY <1>2, <1>3

LEMMA StepAccount ==
  ASSUME ChannelAssumption, TypeOK, ParkInv, Account, Next
  PROVE  Account'
  <1>1. ASSUME UNCHANGED <<mode, external, sent, gone, taken, queue, senders>> PROVE Account'
    BY <1>1 DEF Account
  <1>2. ASSUME NEW v \in Value, SendExternal(v) PROVE Account'
    <2>1. NextValue(v) /\ UNCHANGED <<mode, senders>> /\ external' = external \cup {v}
      BY <1>2 DEF SendExternal
    <2>2. CASE Deliver(v) /\ UNCHANGED gone
      BY <2>1, <2>2, DeliverAccount
    <2>3. CASE ~(Deliver(v) /\ UNCHANGED gone)
      <3>1. /\ gone' = gone \cup Oldest(queue) /\ queue' = Append(Newer(queue), v)
            /\ UNCHANGED taken
        BY <1>2, <2>3 DEF SendExternal
      <3> QED
        BY <2>1, <3>1, DropAccount
    <2> QED
      BY <2>2, <2>3
  <1>3. ASSUME NEW p \in Proc, NEW v \in Value, Send(p, v) PROVE Account'
    <2>1. NextValue(v) /\ UNCHANGED <<mode, external, gone>>
      BY <1>3 DEF Send
    <2>2. CASE Deliver(v) /\ UNCHANGED senders
      BY <2>1, <2>2, DeliverAccount
    <2>3. CASE ~(Deliver(v) /\ UNCHANGED senders)
      <3>1. senders' = Append(senders, [by |-> p, value |-> v]) /\ UNCHANGED <<queue, taken>>
        BY <1>3, <2>3 DEF Send
      <3> QED
        BY <2>1, <3>1, ParkAccount
    <2> QED
      BY <2>2, <2>3
  <1>4. ASSUME NEW p \in Proc, Recv(p) PROVE Account'
    <2>1. UNCHANGED <<mode, sent, external, gone>>
      BY <1>4 DEF Recv
    <2>2. CASE Dequeue \/ TakeParked
      BY <2>1, <2>2, TakeAccount
    <2>3. CASE ~(Dequeue \/ TakeParked)
      <3>1. UNCHANGED <<queue, senders, taken>>
        BY <1>4, <2>3 DEF Recv
      <3> QED
        BY <1>1, <2>1, <3>1
    <2> QED
      BY <2>2, <2>3
  <1>5. ASSUME NEW p \in Proc, TryRecv(p) PROVE Account'
    BY <1>5, TakeAccount DEF TryRecv
  <1>6. ASSUME NEW p \in Proc, GiveUp(p) PROVE Account'
    BY <1>6, GiveUpAccount
  <1>7. ASSUME NEW r \in Reader, Subscribe(r) PROVE Account'
    BY <1>1, <1>7 DEF Subscribe, store
  <1>8. ASSUME NEW r \in Reader, Read(r) PROVE Account'
    <2>1. UNCHANGED <<mode, sent, external, gone>>
      BY <1>8 DEF Read
    <2>2. CASE ReadShared(r)
      BY <2>1, <2>2, TakeAccount DEF ReadShared
    <2>3. CASE ReadBuffer(r) \/ Park(r)
      BY <1>1, <2>1, <2>3 DEF ReadBuffer, Park
    <2> QED
      BY <1>8, <2>2, <2>3 DEF Read
  <1>9. ASSUME NEW r \in Reader, Return(r) PROVE Account'
    BY <1>1, <1>9 DEF Return, history
  <1>10. ASSUME GetHandle \/ OpenExecution PROVE Account'
    BY <1>1, <1>10 DEF GetHandle, OpenExecution, store, history
  <1>11. ASSUME CloseExecution PROVE Account'
    BY <1>11, CloseAccount
  <1> QED
    BY <1>2, <1>3, <1>4, <1>5, <1>6, <1>7, <1>8, <1>9, <1>10, <1>11 DEF Next

(* What the account says of the values together. *)
LEMMA AccountIsOnce ==
  ASSUME TypeOK, Account
  PROVE  EveryValueOnce
  <1> DEFINE c == Values(senders)
             all == taken \o queue \o c
  <1>1. taken \in Seq(Value) /\ queue \in Seq(Value) /\ c \in Seq(Value)
    BY ValuesAre DEF TypeOK
  <1>2. SUFFICES ASSUME mode = "queue"
        PROVE  /\ IsInjective(all) /\ Range(all) \cap gone = {} /\ Range(all) \cup gone = 1 .. sent
               /\ \A i, j \in 1 .. Len(taken) :
                    i < j /\ (taken[i] \in external <=> taken[j] \in external) => taken[i] < taken[j]
    BY DEF EveryValueOnce
  <1>3. /\ Lined(external, taken, queue, c)
        /\ Live(taken, queue, c) \cap gone = {} /\ Live(taken, queue, c) \cup gone = 1 .. sent
    BY <1>2 DEF Account
  <1> HIDE DEF c
  <1>4. /\ taken \o queue \in Seq(Value) /\ Range(taken \o queue) = Range(taken) \cup Range(queue)
        /\ InOrder(external, taken \o queue)
    BY <1>1, <1>3, ConcatRange, OrderConcat DEF Lined
  <1>5. Before(external, Range(taken \o queue), Range(c))
    BY <1>3, <1>4 DEF Lined, Before
  <1>6. all \in Seq(Value) /\ Range(all) = Range(taken \o queue) \cup Range(c) /\ InOrder(external, all)
    <2> DEFINE out == taken \o queue
    <2>1. InOrder(external, c) /\ all = out \o c
      BY <1>3 DEF Lined
    <2>2. out \in Seq(Value) /\ InOrder(external, out) /\ Before(external, Range(out), Range(c))
      BY <1>4, <1>5
    <2> HIDE DEF out, all
    <2>3. all \in Seq(Value) /\ Range(all) = Range(out) \cup Range(c)
      BY <1>1, <2>1, <2>2, ConcatRange
    <2>4. InOrder(external, all)
      BY <1>1, <2>1, <2>2, OrderConcat
    <2> QED
      BY <2>3, <2>4 DEF out
  <1> HIDE DEF all
  <1>7. IsInjective(all)
    BY <1>6, OrderIsOnce
  <1>8. Range(all) = Live(taken, queue, c)
    BY <1>4, <1>6 DEF Live
  <1>9. \A i, j \in 1 .. Len(taken) :
          i < j /\ (taken[i] \in external <=> taken[j] \in external) => taken[i] < taken[j]
    BY <1>3 DEF Lined, InOrder, Precedes
  <1> QED
    BY <1>3, <1>7, <1>8, <1>9

-----------------------------------------------------------------------------
(* What the readers of a topic or a value are offered. *)

ReadInv ==
  mode # "queue" => \A r \in Range(subs) :
    /\ last[r] <= sent
    /\ reader[r].buffer = Due(r) /\ (reader[r].next => Due(r) = <<>>)

(* What was sent and not yet offered, but for what the buffer has no room for. *)
After(m, l, n) ==
  LET from == IF m = "value" /\ l < n THEN n - 1
              ELSE IF n > MaxBuffer + l THEN n - MaxBuffer ELSE l
  IN [i \in 1 .. n - from |-> from + i]

LEMMA CountedFrom ==
  ASSUME NEW f \in Nat, NEW k \in Nat, NEW s, s = [i \in 1 .. k |-> f + i]
  PROVE  s \in Seq(Nat) /\ Len(s) = k /\ \A i \in 1 .. k : s[i] = f + i
  OBVIOUS

LEMMA AfterIs ==
  ASSUME ChannelAssumption, NEW m, NEW n \in Nat, NEW l \in Nat, l <= n
  PROVE  /\ After(m, l, n) \in Seq(Nat)
         /\ After(m, l, n) = <<>> <=> l = n
         /\ m = "value" /\ l < n => After(m, l, n) = <<n>>
         /\ l = n => After(m, l, n) = <<>>
  <1> DEFINE from == IF m = "value" /\ l < n THEN n - 1
                     ELSE IF n > MaxBuffer + l THEN n - MaxBuffer ELSE l
  <1>1. MaxBuffer \in Nat \ {0}
    BY DEF ChannelAssumption
  <1>2. from \in Nat /\ n - from \in Nat /\ (n - from = 0 <=> l = n) /\ (l < n /\ m = "value" => from = n - 1)
    BY <1>1
  <1>3. After(m, l, n) = [i \in 1 .. n - from |-> from + i]
    BY DEF After
  <1> HIDE DEF from
  <1>4. After(m, l, n) \in Seq(Nat) /\ Len(After(m, l, n)) = n - from
    BY <1>2, <1>3
  <1>5. After(m, l, n) = <<>> <=> l = n
    BY <1>2, <1>4, EmptySeq
  <1>6. ASSUME m = "value", l < n PROVE After(m, l, n) = <<n>>
    <2>1. from = n - 1 /\ n - from = 1 /\ from + 1 = n
      BY <1>2, <1>6
    <2>2. After(m, l, n)[1] = n
      BY <1>3, <2>1
    <2>3. <<n>> \in Seq(Nat) /\ Len(<<n>>) = 1 /\ <<n>>[1] = n
      OBVIOUS
    <2> QED
      BY <1>4, <2>1, <2>2, <2>3, SeqEqual
  <1> QED
    BY <1>4, <1>5, <1>6

(* A buffer after one more value, and one less. *)
LEMMA AfterOneMore ==
  ASSUME ChannelAssumption, NEW n \in Nat, NEW l \in Nat, l <= n, NEW b, b = After("topic", l, n)
  PROVE  After("topic", l, n + 1) = IF Len(b) >= MaxBuffer THEN Append(Tail(b), n + 1) ELSE Append(b, n + 1)
  <1> DEFINE f == IF n > MaxBuffer + l THEN n - MaxBuffer ELSE l
             g == IF n + 1 > MaxBuffer + l THEN n + 1 - MaxBuffer ELSE l
             b1 == After("topic", l, n + 1)
  <1>1. MaxBuffer \in Nat \ {0}
    BY DEF ChannelAssumption
  <1>2. b = [i \in 1 .. n - f |-> f + i] /\ b1 = [i \in 1 .. n + 1 - g |-> g + i]
    BY DEF After
  <1>3. /\ f \in Nat /\ g \in Nat /\ n - f \in Nat /\ n + 1 - g \in Nat
        /\ n - f >= MaxBuffer => g = f + 1
        /\ ~(n - f >= MaxBuffer) => g = f
    BY <1>1
  <1> HIDE DEF f, g, b1
  <1>4. /\ b \in Seq(Nat) /\ Len(b) = n - f /\ b1 \in Seq(Nat) /\ Len(b1) = n + 1 - g
        /\ \A i \in 1 .. n - f : b[i] = f + i
        /\ \A i \in 1 .. n + 1 - g : b1[i] = g + i
    <2>1. b \in Seq(Nat) /\ Len(b) = n - f /\ \A i \in 1 .. n - f : b[i] = f + i
      BY <1>2, <1>3, CountedFrom
    <2>2. b1 \in Seq(Nat) /\ Len(b1) = n + 1 - g /\ \A i \in 1 .. n + 1 - g : b1[i] = g + i
      BY <1>2, <1>3, CountedFrom
    <2> QED
      BY <2>1, <2>2
  <1>5. CASE Len(b) >= MaxBuffer
    <2>1. b # <<>> /\ g = f + 1 /\ n - f # 0
      BY <1>1, <1>3, <1>4, <1>5, EmptySeq
    <2>2. /\ Tail(b) \in Seq(Nat) /\ Len(Tail(b)) = n - f - 1
          /\ \A i \in 1 .. n - f - 1 : Tail(b)[i] = b[i + 1]
      BY <1>4, <2>1, TailRange
    <2>3. /\ Append(Tail(b), n + 1) \in Seq(Nat) /\ Len(Append(Tail(b), n + 1)) = n - f - 1 + 1
          /\ \A i \in 1 .. n - f - 1 : Append(Tail(b), n + 1)[i] = Tail(b)[i]
          /\ Append(Tail(b), n + 1)[n - f - 1 + 1] = n + 1
      BY <2>2, AppendProperties
    <2>4. ASSUME NEW i \in 1 .. n + 1 - g PROVE Append(Tail(b), n + 1)[i] = b1[i]
      <3>1. CASE i \in 1 .. n - f - 1
        <4>1. i + 1 \in 1 .. n - f /\ f + (i + 1) = g + i
          BY <1>3, <2>1, <3>1
        <4> QED
          BY <1>4, <2>2, <2>3, <3>1, <4>1
      <3>2. CASE i \notin 1 .. n - f - 1
        <4>1. i = n - f - 1 + 1 /\ g + i = n + 1
          BY <1>3, <2>1, <3>2
        <4> QED
          BY <1>4, <2>3, <4>1
      <3> QED
        BY <3>1, <3>2
    <2>5. n - f - 1 + 1 = n + 1 - g
      BY <1>3, <2>1
    <2> DEFINE a == Append(Tail(b), n + 1)
    <2>6. b1 = a
      <3>1. a \in Seq(Nat) /\ Len(a) = n + 1 - g /\ \A i \in 1 .. n + 1 - g : a[i] = b1[i]
        BY <2>3, <2>4, <2>5
      <3> HIDE DEF a
      <3> QED
        BY <1>4, <3>1, SeqEqual
    <2> QED
      BY <1>5, <2>6 DEF b1
  <1>6. CASE ~(Len(b) >= MaxBuffer)
    <2>1. g = f
      BY <1>3, <1>4, <1>6
    <2>2. /\ Append(b, n + 1) \in Seq(Nat) /\ Len(Append(b, n + 1)) = n - f + 1
          /\ \A i \in 1 .. n - f : Append(b, n + 1)[i] = b[i]
          /\ Append(b, n + 1)[n - f + 1] = n + 1
      BY <1>4, AppendProperties
    <2>3. ASSUME NEW i \in 1 .. n + 1 - g PROVE Append(b, n + 1)[i] = b1[i]
      <3>1. CASE i \in 1 .. n - f
        BY <1>4, <2>1, <2>2, <3>1
      <3>2. CASE i \notin 1 .. n - f
        <4>1. i = n - f + 1 /\ g + i = n + 1
          BY <1>3, <2>1, <3>2
        <4> QED
          BY <1>4, <2>2, <4>1
      <3> QED
        BY <3>1, <3>2
    <2>4. n - f + 1 = n + 1 - g
      BY <1>3, <2>1
    <2> DEFINE a == Append(b, n + 1)
    <2>5. b1 = a
      <3>1. a \in Seq(Nat) /\ Len(a) = n + 1 - g /\ \A i \in 1 .. n + 1 - g : a[i] = b1[i]
        BY <2>2, <2>3, <2>4
      <3> HIDE DEF a
      <3> QED
        BY <1>4, <3>1, SeqEqual
    <2> QED
      BY <1>6, <2>5 DEF b1
  <1> QED
    BY <1>5, <1>6

LEMMA AfterOneLess ==
  ASSUME ChannelAssumption, NEW m \in {"value", "topic"}, NEW n \in Nat, NEW l \in Nat, l <= n,
         NEW b, b = After(m, l, n), b # <<>>
  PROVE  Head(b) \in Nat /\ Head(b) <= n /\ After(m, Head(b), n) = Tail(b)
  <1>1. MaxBuffer \in Nat \ {0}
    BY DEF ChannelAssumption
  <1>2. b \in Seq(Nat) /\ l < n
    BY AfterIs
  <1>3. CASE m = "value"
    <2>1. b = <<n>>
      BY <1>2, <1>3, AfterIs
    <2>2. Head(b) = n /\ Tail(b) = <<>>
      BY <2>1, OneIs
    <2>3. After(m, n, n) = <<>>
      <3>1. n <= n
        OBVIOUS
      <3> QED
        BY <3>1, AfterIs
    <2>4. n \in Nat /\ n <= n
      OBVIOUS
    <2> QED
      BY <2>2, <2>3, <2>4, Zenon
  <1>4. CASE m = "topic"
    <2> DEFINE f == IF n > MaxBuffer + l THEN n - MaxBuffer ELSE l
    <2>1. b = [i \in 1 .. n - f |-> f + i]
      BY <1>4 DEF After
    <2>2. f \in Nat /\ n - f \in Nat \ {0} /\ ~(n > MaxBuffer + (f + 1))
      BY <1>1, <1>2
    <2> HIDE DEF f
    <2>3. Len(b) = n - f /\ \A i \in 1 .. n - f : b[i] = f + i
      BY <2>1, <2>2
    <2>4. /\ Tail(b) \in Seq(Nat) /\ Len(Tail(b)) = n - f - 1 /\ Head(b) = b[1]
          /\ \A i \in 1 .. n - f - 1 : Tail(b)[i] = b[i + 1]
      BY <1>2, <2>3, TailRange
    <2>5. Head(b) = f + 1 /\ f + 1 <= n
      BY <2>2, <2>3, <2>4
    <2>6. After(m, f + 1, n) = [i \in 1 .. n - (f + 1) |-> (f + 1) + i]
      BY <1>4, <2>2 DEF After
    <2>7. /\ After(m, f + 1, n) \in Seq(Nat) /\ Len(After(m, f + 1, n)) = n - f - 1
          /\ \A i \in 1 .. n - f - 1 : After(m, f + 1, n)[i] = f + 1 + i
      <3>1. n - (f + 1) = n - f - 1 /\ n - f - 1 \in Nat
        BY <2>2
      <3>2. After(m, f + 1, n) = [i \in 1 .. n - f - 1 |-> (f + 1) + i]
        BY <2>6, <3>1
      <3> QED
        BY <2>2, <3>1, <3>2
    <2>8. ASSUME NEW i \in 1 .. n - f - 1 PROVE Tail(b)[i] = After(m, f + 1, n)[i]
      <3>1. i + 1 \in 1 .. n - f /\ f + (i + 1) = f + 1 + i
        BY <2>2
      <3> QED
        BY <2>3, <2>4, <2>7, <3>1
    <2>9. After(m, f + 1, n) = Tail(b)
      BY <2>4, <2>7, <2>8, SeqEqual
    <2> QED
      BY <2>2, <2>5, <2>9
  <1> QED
    BY <1>3, <1>4

LEMMA DueIs ==
  ASSUME NEW r \in Reader
  PROVE  Due(r) = After(mode, last[r], sent)
  BY DEF Due, After

LEMMA InitRead ==
  ASSUME Init
  PROVE  ReadInv
  <1>1. Range(subs) = {}
    BY EmptyRange DEF Init
  <1> QED
    BY <1>1 DEF ReadInv

LEMMA BroadcastRead ==
  ASSUME ChannelAssumption, TypeOK, ReadInv, NEW v, NextValue(v), Broadcast(v), UNCHANGED <<mode, subs>>
  PROVE  ReadInv'
  <1>1. /\ v = sent + 1 /\ sent' = v /\ sent \in Nat /\ v \in Nat
        /\ last \in [Reader -> 0 .. MaxSends] /\ Range(subs) \subseteq Reader
        /\ \A r \in Reader : reader[r].pc = "open" <=> r \in Range(subs)
    BY RangeIs DEF NextValue, TypeOK, ChannelAssumption
  <1>2. /\ reader' = Push(v) /\ last' = [r \in Reader |-> IF reader[r].next THEN v ELSE last[r]]
        /\ mode \in {"value", "topic"}
    BY DEF Broadcast, TypeOK
  <1>3. ASSUME NEW r \in Range(subs)
        PROVE  /\ last'[r] <= sent' /\ reader'[r].buffer = After(mode, last'[r], sent')
               /\ (reader'[r].next => After(mode, last'[r], sent') = <<>>)
    <2>1. r \in Reader /\ reader[r].pc = "open"
      BY <1>1
    <2>2. /\ last[r] <= sent /\ reader[r].buffer = After(mode, last[r], sent)
          /\ (reader[r].next => After(mode, last[r], sent) = <<>>)
      BY <1>2, <2>1, DueIs DEF ReadInv
    <2>3. /\ ~reader'[r].next
          /\ reader'[r].buffer = IF ~reader[r].next THEN Buffered(reader[r].buffer, v) ELSE reader[r].buffer
      BY <1>2, <2>1, PushKeeps
    <2>4. last[r] \in Nat /\ v <= v /\ last[r] < v /\ last[r] <= v
      BY <1>1, <2>1, <2>2
    <2>5. CASE reader[r].next
      <3>1. last'[r] = v
        BY <1>2, <2>1, <2>5
      <3>2. After(mode, v, v) = <<>>
        BY <1>1, <2>4, AfterIs
      <3>3. reader'[r].buffer = <<>>
        BY <2>2, <2>3, <2>5
      <3> QED
        BY <1>1, <2>3, <2>4, <3>1, <3>2, <3>3
    <2>6. CASE ~reader[r].next
      <3>1. last'[r] = last[r]
        BY <1>2, <2>1, <2>6
      <3>2. CASE mode = "value"
        <4>1. Buffered(reader[r].buffer, v) = <<v>>
          BY <3>2 DEF Buffered
        <4>2. After(mode, last[r], v) = <<v>>
          BY <1>1, <2>4, <3>2, AfterIs
        <4> QED
          BY <1>1, <2>3, <2>4, <2>6, <3>1, <4>1, <4>2
      <3>3. CASE mode = "topic"
        <4> DEFINE b == reader[r].buffer
        <4>1. Buffered(b, v) = IF Len(b) >= MaxBuffer THEN Append(Tail(b), v) ELSE Append(b, v)
          BY <3>3 DEF Buffered
        <4>2. b = After("topic", last[r], sent)
          BY <2>2, <3>3
        <4> HIDE DEF b
        <4>3. After("topic", last[r], v) = IF Len(b) >= MaxBuffer THEN Append(Tail(b), v) ELSE Append(b, v)
          BY <1>1, <2>2, <2>4, <4>2, AfterOneMore
        <4>4. reader'[r].buffer = Buffered(b, v)
          BY <2>3, <2>6 DEF b
        <4> QED
          BY <1>1, <2>3, <2>4, <3>1, <3>3, <4>1, <4>3, <4>4
      <3> QED
        BY <1>2, <3>2, <3>3
    <2> QED
      BY <2>5, <2>6
  <1>4. \A r \in Range(subs) : Due(r)' = After(mode, last'[r], sent')
    BY DEF Due, After
  <1>5. mode' = mode /\ subs' = subs
    OBVIOUS
  <1> QED
    BY <1>3, <1>4, <1>5 DEF ReadInv

LEMMA StepRead ==
  ASSUME ChannelAssumption, TypeOK, Shape, ReadInv, Next
  PROVE  ReadInv'
  <1>1. /\ sent \in Nat /\ last \in [Reader -> 0 .. MaxSends] /\ \A r \in Reader : last[r] \in Nat
        /\ reader \in [Reader -> Subscriber] /\ subs \in Seq(Reader) /\ Range(subs) \subseteq Reader
        /\ \A r \in Reader : reader[r].pc = "open" <=> r \in Range(subs)
        /\ mode \in {"value", "queue", "topic"}
    BY RangeIs DEF TypeOK, ChannelAssumption
  <1>2. ASSUME mode = "queue" PROVE ReadInv'
    <2>1. mode' = mode
      BY DEF Next, SendExternal, Send, Recv, TryRecv, GiveUp, Subscribe, Read, Return, GetHandle,
             CloseExecution, OpenExecution, store
    <2> QED
      BY <1>2, <2>1 DEF ReadInv
  <1>3. SUFFICES ASSUME mode \in {"value", "topic"} PROVE ReadInv'
    BY <1>1, <1>2
  <1>4. \A r \in Range(subs) :
          /\ last[r] <= sent /\ reader[r].buffer = After(mode, last[r], sent)
          /\ (reader[r].next => After(mode, last[r], sent) = <<>>)
    BY <1>1, <1>3, DueIs DEF ReadInv
  <1>5. ASSUME UNCHANGED <<mode, sent>>,
               \A r \in Range(subs') :
                 \/ r \in Range(subs) /\ reader'[r] = reader[r] /\ last'[r] = last[r]
                 \/ /\ last'[r] <= sent /\ reader'[r].buffer = After(mode, last'[r], sent)
                    /\ (reader'[r].next => After(mode, last'[r], sent) = <<>>)
        PROVE  ReadInv'
    <2>1. \A r \in Range(subs') :
            /\ last'[r] <= sent /\ reader'[r].buffer = After(mode, last'[r], sent)
            /\ (reader'[r].next => After(mode, last'[r], sent) = <<>>)
      BY <1>4, <1>5
    <2> QED
      BY <1>5, <2>1 DEF ReadInv, Due, After
  <1>6. ASSUME UNCHANGED <<mode, sent, reader, subs, last>> PROVE ReadInv'
    BY <1>5, <1>6
  <1>7. ASSUME NEW v \in Value, SendExternal(v) PROVE ReadInv'
    <2>1. NextValue(v) /\ UNCHANGED <<mode, subs>> /\ Deliver(v)
      BY <1>3, <1>7 DEF SendExternal, Full
    <2>2. Broadcast(v)
      BY <1>3, <2>1 DEF Deliver, HandOff, Enqueue
    <2> QED
      BY <2>1, <2>2, BroadcastRead
  <1>8. ASSUME NEW p \in Proc, NEW v \in Value, Send(p, v) PROVE ReadInv'
    <2>1. NextValue(v) /\ UNCHANGED <<mode, subs>> /\ Deliver(v)
      BY <1>3, <1>8 DEF Send, Full
    <2>2. Broadcast(v)
      BY <1>3, <2>1 DEF Deliver, HandOff, Enqueue
    <2> QED
      BY <2>1, <2>2, BroadcastRead
  <1>9. ASSUME NEW p \in Proc, Recv(p) \/ TryRecv(p) \/ GiveUp(p) PROVE ReadInv'
    BY <1>6, <1>9 DEF Recv, TryRecv, GiveUp, readers
  <1>10. ASSUME NEW r \in Reader, Subscribe(r) PROVE ReadInv'
    <2>1. UNCHANGED <<mode, sent>> /\ reader[r].pc = "new" /\ r \notin Range(subs)
      BY <1>1, <1>10 DEF Subscribe, store
    <2>2. CASE reader' = [reader EXCEPT ![r] = Iterating("done", <<>>)] /\ UNCHANGED <<subs, last>>
      <3>1. \A q \in Range(subs') : q \in Range(subs) /\ reader'[q] = reader[q] /\ last'[q] = last[q]
        BY <1>1, <2>1, <2>2
      <3> QED
        BY <1>5, <2>1, <3>1
    <2>3. CASE /\ reader' = [reader EXCEPT ![r] = Iterating("open", FirstBuffer)]
               /\ subs' = Append(subs, r)
               /\ last' = [last EXCEPT ![r] = IF mode = "topic" THEN sent ELSE 0]
      <3>1. Range(subs') = Range(subs) \cup {r}
        BY <1>1, <2>3, AppendRange
      <3>2. \A q \in Range(subs) : reader'[q] = reader[q] /\ last'[q] = last[q]
        BY <1>1, <2>1, <2>3
      <3>3. /\ reader'[r].buffer = FirstBuffer /\ reader'[r].next = FALSE
            /\ last'[r] = IF mode = "topic" THEN sent ELSE 0
        BY <1>1, <2>3 DEF Iterating
      <3>4. last'[r] <= sent
        BY <1>1, <3>3
      <3>5. FirstBuffer = After(mode, last'[r], sent)
        <4>1. CASE mode = "topic"
          <5>1. FirstBuffer = <<>> /\ last'[r] = sent /\ sent <= sent
            BY <1>1, <3>3, <4>1 DEF FirstBuffer
          <5>2. After(mode, sent, sent) = <<>>
            BY <1>1, <5>1, AfterIs
          <5> QED
            BY <5>1, <5>2
        <4>2. CASE mode = "value"
          <5>1. last'[r] = 0 /\ value = sent
            BY <3>3, <4>2 DEF Shape
          <5>2. CASE sent = 0
            <6>1. FirstBuffer = <<>> /\ 0 <= sent /\ 0 \in Nat
              BY <5>1, <5>2 DEF FirstBuffer
            <6>2. After(mode, 0, sent) = <<>>
              BY <1>1, <5>2, <6>1, AfterIs
            <6> QED
              BY <5>1, <6>1, <6>2
          <5>3. CASE sent # 0
            <6>1. FirstBuffer = <<sent>> /\ 0 < sent /\ 0 <= sent /\ 0 \in Nat
              BY <1>1, <4>2, <5>1, <5>3 DEF FirstBuffer
            <6>2. After(mode, 0, sent) = <<sent>>
              BY <1>1, <4>2, <6>1, AfterIs
            <6> QED
              BY <5>1, <6>1, <6>2
          <5> QED
            BY <5>2, <5>3
        <4> QED
          BY <1>3, <4>1, <4>2
      <3> QED
        BY <1>5, <2>1, <3>1, <3>2, <3>3, <3>4, <3>5
    <2> QED
      BY <1>10, <2>2, <2>3 DEF Subscribe
  <1>11. ASSUME NEW r \in Reader, Read(r) PROVE ReadInv'
    <2>1. UNCHANGED <<mode, sent, subs>> /\ ~reader[r].next /\ reader[r] \in Subscriber
      BY <1>1, <1>11 DEF Read
    <2>2. CASE ReadBuffer(r)
      <3> DEFINE b == reader[r].buffer
                 x == [reader[r] EXCEPT !.buffer = Tail(@)]
      <3>1. b # <<>> /\ reader' = [reader EXCEPT ![r] = x] /\ last' = [last EXCEPT ![r] = Head(b)]
        BY <1>3, <2>2 DEF ReadBuffer
      <3>2. x.next = FALSE /\ x.buffer = Tail(b)
        BY <2>1 DEF Subscriber
      <3> HIDE DEF x
      <3>3. \A q \in Range(subs) : q # r => reader'[q] = reader[q] /\ last'[q] = last[q]
        BY <1>1, <3>1
      <3>4. reader'[r] = x /\ last'[r] = Head(b)
        BY <1>1, <3>1
      <3>5. ASSUME r \in Range(subs)
            PROVE  last'[r] <= sent /\ reader'[r].buffer = After(mode, last'[r], sent)
        <4>1. last[r] <= sent /\ b = After(mode, last[r], sent) /\ last[r] \in Nat
          BY <1>1, <1>4, <3>5
        <4> HIDE DEF b
        <4>2. mode \in {"value", "topic"} /\ sent \in Nat
          BY <1>1, <1>3
        <4>3. Head(b) <= sent /\ After(mode, Head(b), sent) = Tail(b)
          BY SMTT(20), <1>1, <3>1, <4>1, <4>2, AfterOneLess
        <4> QED
          BY <3>2, <3>4, <4>3
      <3> QED
        BY <1>5, <2>1, <3>2, <3>3, <3>4, <3>5
    <2>3. ~ReadShared(r)
      BY <1>3 DEF ReadShared
    <2>4. CASE Park(r)
      <3> DEFINE x == [reader[r] EXCEPT !.next = TRUE]
      <3>1. reader[r].buffer = <<>> /\ reader' = [reader EXCEPT ![r] = x] /\ UNCHANGED last
        BY <2>4 DEF Park
      <3>2. x.buffer = <<>>
        BY <2>1, <3>1 DEF Subscriber
      <3> HIDE DEF x
      <3>3. \A q \in Range(subs) : q # r => reader'[q] = reader[q]
        BY <1>1, <3>1
      <3>4. reader'[r] = x
        BY <1>1, <3>1
      <3>5. r \in Range(subs) => last[r] <= sent /\ After(mode, last[r], sent) = <<>>
        BY <1>4, <3>1
      <3> QED
        BY <1>5, <2>1, <3>1, <3>2, <3>3, <3>4, <3>5
    <2> QED
      BY <1>11, <2>2, <2>3, <2>4 DEF Read
  <1>12. ASSUME NEW r \in Reader, Return(r) PROVE ReadInv'
    <2>1. /\ reader' = [reader EXCEPT ![r] = Iterating("done", <<>>)]
          /\ subs' = Selected(subs, Range(subs) \ {r}) /\ UNCHANGED <<mode, sent, last>>
      BY <1>12 DEF Return, history
    <2>2. Range(subs') = Range(subs) \ {r}
      BY <1>1, <2>1, SelectedRange
    <2>3. \A q \in Range(subs') : q \in Range(subs) /\ reader'[q] = reader[q] /\ last'[q] = last[q]
      BY <1>1, <2>1, <2>2
    <2> QED
      BY <1>5, <2>1, <2>3
  <1>13. ASSUME GetHandle \/ OpenExecution PROVE ReadInv'
    BY <1>6, <1>13 DEF GetHandle, OpenExecution, store, readers, history
  <1>14. ASSUME CloseExecution PROVE ReadInv'
    <2>1. subs' = <<>> /\ UNCHANGED <<mode, sent>>
      BY <1>14 DEF CloseExecution
    <2>2. Range(subs') = {}
      BY <2>1, EmptyRange
    <2> QED
      BY <1>5, <2>1, <2>2
  <1> QED
    BY <1>7, <1>8, <1>9, <1>10, <1>11, <1>12, <1>13, <1>14 DEF Next

-----------------------------------------------------------------------------
(* The theorems. *)

StoreInv == TypeOK /\ LineInv /\ ParkInv /\ Account /\ ReadInv

LEMMA StoreInductive == Spec => []StoreInv
  <1>1. Init => StoreInv
    BY ChannelAssumption, InitTypes, InitLines, InitPark, InitAccount, InitRead DEF StoreInv
  <1>2. ASSUME StoreInv, [Next]_vars PROVE StoreInv'
    <2>1. CASE Next
      BY <1>2, <2>1, ChannelAssumption, StepTypes, StepLines, StepPark, StepAccount, StepRead DEF StoreInv, ParkInv
    <2>2. CASE UNCHANGED vars
      <3>1. TypeOK'
        BY <1>2, <2>2, ChannelAssumption, TypesStay DEF StoreInv
      <3>2. LineInv'
        BY <1>2, <2>2 DEF StoreInv, LineInv, LinesAreAlive, OneParking, vars, store, readers
      <3>3. ParkInv'
        BY <1>2, <2>2 DEF StoreInv, ParkInv, Shape, NobodyParkedInVain, vars, store, history
      <3>4. Account'
        BY <1>2, <2>2 DEF StoreInv, Account, vars, store, history
      <3>5. ReadInv'
        BY <1>2, <2>2 DEF StoreInv, ReadInv, Due, vars, store, readers, history
      <3> QED
        BY <3>1, <3>2, <3>3, <3>4, <3>5 DEF StoreInv
    <2> QED
      BY <1>2, <2>1, <2>2
  <1> QED
    BY <1>1, <1>2, PTL DEF Spec

(* Nobody is parked beside what it waits for (NobodyParkedInVain): a value or
   a slot that comes free goes to who waits for it in the same step. *)
THEOREM NobodyWaitsInVain == Spec => []NobodyParkedInVain
  <1>1. StoreInv => NobodyParkedInVain
    BY DEF StoreInv, ParkInv
  <1> QED
    BY <1>1, StoreInductive, PTL

(* Whoever is in line still waits there, once, and whoever waits is in line
   (LinesAreAlive): no value is handed to a party that has gone. *)
THEOREM LinesStayAlive == Spec => []LinesAreAlive
  <1>1. StoreInv => LinesAreAlive
    BY DEF StoreInv, LineInv
  <1> QED
    BY <1>1, StoreInductive, PTL

(* Every value sent to a queue channel is queued, parked, taken once or given
   up, and what comes from steps, or from external senders, is taken in the
   order it was sent (EveryValueOnce). *)
THEOREM NoValueLostOrRepeated == Spec => []EveryValueOnce
  <1>1. StoreInv => EveryValueOnce
    BY AccountIsOnce DEF StoreInv
  <1> QED
    BY <1>1, StoreInductive, PTL

(* A reader's buffer holds exactly what it was not yet offered, up to its
   bound, and no reader waits while it has something to read
   (ReaderMissesNothing). *)
THEOREM ReadersMissNothing == Spec => []ReaderMissesNothing
  <1>1. StoreInv => ReaderMissesNothing
    BY DEF StoreInv, ReadInv, ReaderMissesNothing
  <1> QED
    BY <1>1, StoreInductive, PTL

=============================================================================
