---------------------------- MODULE SessionProofs ----------------------------
(***************************************************************************)
(* The types of runner, record and checkpoints; once a turn's first        *)
(* snapshot is stored before anything else of it, that the stored history  *)
(* is only added to, holds what was answered, and that no kept steer is    *)
(* lost; and, whenever the snapshot is stored, that no item is twice in    *)
(* the conversation or the history unless its message was sent again: for  *)
(* any messages, turns, rounds, failures and crashes.                      *)
(***************************************************************************)
EXTENDS Session, FiniteSetTheorems, FunctionTheorems, SequenceTheorems, TLAPS

-----------------------------------------------------------------------------
(* What a filter lets through. *)

(* An element that stays moves to the place its rank gives it. *)
LEMMA SelectedRanks ==
  ASSUME NEW T, NEW s \in Seq(T), NEW S
  PROVE  LET at == At(s, S)
             n == Cardinality(at)
         IN  /\ n \in Nat /\ at \subseteq 1 .. Len(s)
             /\ \A i \in at : Rank(at, i) \in 1 .. n
             /\ \A i, j \in at : i < j => Rank(at, i) < Rank(at, j)
             /\ \A k \in 1 .. n : \E i \in at : Rank(at, i) = k
  <1> DEFINE at == At(s, S)
             n == Cardinality(at)
             upto(i) == {j \in at : j <= i}
             rank == [i \in at |-> Rank(at, i)]
  <1>1. at \subseteq 1 .. Len(s) /\ Len(s) \in Nat
    BY LenProperties DEF At
  <1> HIDE DEF at
  <1>2. IsFiniteSet(at) /\ n \in Nat
    <2>1. IsFiniteSet(1 .. Len(s))
      BY <1>1, FS_Interval
    <2> QED
      BY <1>1, <2>1, FS_Subset, FS_CardinalityType
  <1>3. \A i \in at : IsFiniteSet(upto(i)) /\ Cardinality(upto(i)) \in Nat
                      /\ Cardinality(upto(i)) <= n /\ Rank(at, i) = Cardinality(upto(i))
    BY <1>2, FS_Subset, FS_CardinalityType DEF Rank
  <1>4. ASSUME NEW i \in at PROVE Rank(at, i) \in 1 .. n
    <2>1. i \in upto(i)
      BY <1>1
    <2>2. Cardinality(upto(i)) # 0
      BY <1>3, <2>1, FS_EmptySet
    <2>3. Rank(at, i) \in Nat /\ Rank(at, i) <= n /\ Rank(at, i) # 0
      BY <1>3, <2>2
    <2> HIDE DEF n
    <2> QED
      BY <1>2, <2>3
  <1>5. ASSUME NEW i \in at, NEW j \in at, i < j PROVE Rank(at, i) < Rank(at, j)
    <2>1. upto(i) \in SUBSET upto(j)
      <3>1. \A x \in at : x \in Int
        BY <1>1
      <3>2. \A x \in at : x <= i => x <= j
        BY <1>5, <3>1
      <3> QED
        BY <3>2
    <2>2. upto(i) # upto(j)
      <3>1. j \in upto(j) /\ j \notin upto(i)
        BY <1>1, <1>5
      <3> QED
        BY <3>1
    <2>3. Cardinality(upto(i)) <= Cardinality(upto(j)) /\ Cardinality(upto(i)) # Cardinality(upto(j))
      BY <1>3, <2>1, <2>2, FS_Subset
    <2>4. /\ Rank(at, i) \in Nat /\ Rank(at, j) \in Nat
          /\ Rank(at, i) <= Rank(at, j) /\ Rank(at, i) # Rank(at, j)
      BY <1>3, <2>3
    <2> QED
      BY <2>4
  <1> HIDE DEF n, upto
  <1>6. rank \in Injection(at, 1 .. n)
    <2>1. rank \in [at -> 1 .. n]
      BY <1>4
    <2>2. ASSUME NEW i \in at, NEW j \in at, rank[i] = rank[j] PROVE i = j
      <3>1. Rank(at, i) = Rank(at, j) /\ Rank(at, i) \in Nat
        BY <1>2, <1>4, <2>2
      <3>2. i < j => Rank(at, i) < Rank(at, j)
        BY <1>5
      <3>3. j < i => Rank(at, j) < Rank(at, i)
        BY <1>5
      <3>4. ~(i < j) /\ ~(j < i)
        BY <3>1, <3>2, <3>3
      <3> QED
        BY <1>1, <3>4
    <2> QED
      BY <2>1, <2>2 DEF Injection, IsInjective
  <1>7. Cardinality(1 .. n) = n /\ IsFiniteSet(1 .. n)
    BY <1>2, FS_Interval
  <1>8. rank \in Surjection(at, 1 .. n)
    BY <1>6, <1>7, FS_Injection DEF n
  <1>9. ASSUME NEW k \in 1 .. n PROVE \E i \in at : Rank(at, i) = k
    BY <1>8 DEF Surjection
  <1> QED
    BY <1>1, <1>2, <1>4, <1>5, <1>9 DEF at, n

(* Each element of the result stands for one of the sequence, in the same order,
   and each that passes the filter is among them. *)
LEMMA SelectedFrom ==
  ASSUME NEW T, NEW s \in Seq(T), NEW S
  PROVE  LET t == Selected(s, S)
         IN  /\ t \in Seq(T)
             /\ \E f \in [1 .. Len(t) -> 1 .. Len(s)] :
                  /\ \A k \in 1 .. Len(t) : t[k] = s[f[k]] /\ t[k] \in S
                  /\ \A j, k \in 1 .. Len(t) : j < k => f[j] < f[k]
                  /\ \A i \in 1 .. Len(s) : s[i] \in S => \E k \in 1 .. Len(t) : f[k] = i
  <1> DEFINE at == At(s, S)
             n == Cardinality(at)
             t == Selected(s, S)
             f == [k \in 1 .. n |-> CHOOSE i \in at : Rank(at, i) = k]
  <1>1. /\ n \in Nat /\ at \subseteq 1 .. Len(s)
        /\ \A i \in at : Rank(at, i) \in 1 .. n
        /\ \A i, j \in at : i < j => Rank(at, i) < Rank(at, j)
        /\ \A k \in 1 .. n : \E i \in at : Rank(at, i) = k
    BY SelectedRanks
  <1>2. Len(s) \in Nat /\ \A i \in 1 .. Len(s) : s[i] \in T
    BY LenProperties, ElementOfSeq
  <1>3. \A k \in 1 .. n : f[k] \in at /\ Rank(at, f[k]) = k
    BY <1>1
  <1>4. t = [k \in 1 .. n |-> s[f[k]]]
    BY DEF Selected
  <1>5. \A i \in at : s[i] \in S
    BY DEF At
  <1>6. \A i \in 1 .. Len(s) : s[i] \in S => i \in at
    BY LenProperties DEF At
  <1>7. f = [k \in 1 .. n |-> f[k]]
    OBVIOUS
  <1> HIDE DEF f, t, n, at
  <1>8. t \in Seq(T) /\ Len(t) = n
    <2>1. t \in [1 .. n -> T]
      BY <1>1, <1>2, <1>3, <1>4
    <2> QED
      BY <1>1, <2>1
  <1>9. f \in [1 .. n -> 1 .. Len(s)]
    BY <1>1, <1>3, <1>7
  <1>10. \A k \in 1 .. n : t[k] = s[f[k]] /\ t[k] \in S
    BY <1>3, <1>4, <1>5
  <1>14. (\A i \in at : i \in Int) /\ (\A k \in 1 .. n : k \in Int)
    <2>1. \A i \in 1 .. Len(s) : i \in Int
      OBVIOUS
    <2>2. \A i \in at : i \in 1 .. Len(s)
      BY <1>1
    <2> QED
      BY <2>1, <2>2
  <1>11. ASSUME NEW j \in 1 .. n, NEW k \in 1 .. n, j < k PROVE f[j] < f[k]
    <2>1. f[j] \in at /\ f[k] \in at /\ Rank(at, f[j]) = j /\ Rank(at, f[k]) = k
      BY <1>3
    <2>2. f[k] < f[j] => Rank(at, f[k]) < Rank(at, f[j])
      BY <1>1, <2>1
    <2>3. j \in Int /\ k \in Int /\ f[j] \in Int /\ f[k] \in Int
      BY <1>14, <2>1
    <2>4. f[j] # f[k] /\ ~(f[k] < f[j])
      BY <1>11, <2>1, <2>2, <2>3
    <2> QED
      BY <2>3, <2>4
  <1>12. ASSUME NEW i \in 1 .. Len(s), s[i] \in S PROVE \E k \in 1 .. n : f[k] = i
    <2>1. i \in at /\ Rank(at, i) \in 1 .. n
      BY <1>1, <1>6, <1>12
    <2>2. f[Rank(at, i)] \in at /\ Rank(at, f[Rank(at, i)]) = Rank(at, i)
      BY <1>3, <2>1
    <2> DEFINE k == Rank(at, i)
    <2>3. f[k] < i => Rank(at, f[k]) < k
      BY <1>1, <2>1, <2>2
    <2>4. i < f[k] => k < Rank(at, f[k])
      BY <1>1, <2>1, <2>2
    <2>5. k \in Int /\ f[k] \in Int /\ i \in Int
      BY <1>14, <2>1, <2>2
    <2>6. Rank(at, f[k]) = k /\ k \in 1 .. n
      BY <2>1, <2>2
    <2> HIDE DEF k
    <2>7. f[k] = i
      BY <2>3, <2>4, <2>5, <2>6
    <2> QED
      BY <2>6, <2>7
  <1>13. \E g \in [1 .. Len(t) -> 1 .. Len(s)] :
            /\ \A k \in 1 .. Len(t) : t[k] = s[g[k]] /\ t[k] \in S
            /\ \A j, k \in 1 .. Len(t) : j < k => g[j] < g[k]
            /\ \A i \in 1 .. Len(s) : s[i] \in S => \E k \in 1 .. Len(t) : g[k] = i
    BY <1>8, <1>9, <1>10, <1>11, <1>12
  <1> QED
    BY <1>8, <1>13 DEF t

LEMMA MembersAre ==
  ASSUME NEW S, NEW q \in Seq(S)
  PROVE  /\ Members(q) \subseteq S
         /\ Members(q) = {q[i] : i \in 1 .. Len(q)}
  BY ElementOfSeq, LenProperties DEF Members

(* The members of the sequences the module builds. *)
LEMMA SelectedMembers ==
  ASSUME NEW T, NEW s \in Seq(T), NEW S
  PROVE  Selected(s, S) \in Seq(T) /\ Members(Selected(s, S)) = Members(s) \cap S
  <1> DEFINE t == Selected(s, S)
  <1>1. t \in Seq(T)
    BY SelectedFrom
  <1>2. PICK f \in [1 .. Len(t) -> 1 .. Len(s)] :
          /\ \A k \in 1 .. Len(t) : t[k] = s[f[k]] /\ t[k] \in S
          /\ \A i \in 1 .. Len(s) : s[i] \in S => \E k \in 1 .. Len(t) : f[k] = i
    BY SelectedFrom
  <1> HIDE DEF t
  <1>3. Members(t) = {t[k] : k \in 1 .. Len(t)} /\ Members(s) = {s[i] : i \in 1 .. Len(s)}
    BY <1>1, MembersAre
  <1>4. Members(t) \subseteq Members(s) \cap S
    BY <1>2, <1>3
  <1>5. ASSUME NEW i \in 1 .. Len(s), s[i] \in S PROVE s[i] \in Members(t)
    BY <1>2, <1>3, <1>5
  <1> QED
    BY <1>1, <1>3, <1>4, <1>5 DEF t

LEMMA WithoutMembers ==
  ASSUME NEW T, NEW s \in Seq(T), NEW S
  PROVE  Without(s, S) \in Seq(T) /\ Members(Without(s, S)) = Members(s) \ S
  BY SelectedMembers DEF Without

LEMMA ConcatMembers ==
  ASSUME NEW T, NEW s \in Seq(T), NEW t \in Seq(T)
  PROVE  s \o t \in Seq(T) /\ Members(s \o t) = Members(s) \cup Members(t)
  <1>1. /\ Len(s) \in Nat /\ Len(t) \in Nat /\ s \o t \in Seq(T)
        /\ Len(s \o t) = Len(s) + Len(t)
        /\ \A i \in 1 .. Len(s) + Len(t) : (s \o t)[i] = IF i <= Len(s) THEN s[i] ELSE t[i - Len(s)]
    BY ConcatProperties, LenProperties
  <1>2. /\ Members(s) = {s[i] : i \in 1 .. Len(s)} /\ Members(t) = {t[i] : i \in 1 .. Len(t)}
        /\ Members(s \o t) = {(s \o t)[i] : i \in 1 .. Len(s) + Len(t)}
    BY <1>1, MembersAre
  <1>3. ASSUME NEW i \in 1 .. Len(s) PROVE s[i] \in Members(s \o t)
    BY <1>1, <1>2
  <1>4. ASSUME NEW i \in 1 .. Len(t) PROVE t[i] \in Members(s \o t)
    <2>1. Len(s) + i \in 1 .. Len(s) + Len(t) /\ ~(Len(s) + i <= Len(s)) /\ Len(s) + i - Len(s) = i
      BY <1>1
    <2>2. (s \o t)[Len(s) + i] = t[i]
      BY <1>1, <2>1
    <2> QED
      BY <1>2, <2>1, <2>2
  <1>5. ASSUME NEW i \in 1 .. Len(s) + Len(t) PROVE (s \o t)[i] \in Members(s) \cup Members(t)
    <2>1. CASE i <= Len(s)
      <3>1. i \in 1 .. Len(s) /\ (s \o t)[i] = s[i]
        BY <1>1, <2>1
      <3> QED
        BY <1>2, <3>1
    <2>2. CASE ~(i <= Len(s))
      <3>1. i - Len(s) \in 1 .. Len(t) /\ (s \o t)[i] = t[i - Len(s)]
        BY <1>1, <2>2
      <3> QED
        BY <1>2, <3>1
    <2> QED
      BY <2>1, <2>2
  <1>6. Members(s) \cup Members(t) \subseteq Members(s \o t)
    BY <1>2, <1>3, <1>4
  <1>7. Members(s \o t) \subseteq Members(s) \cup Members(t)
    BY <1>2, <1>5
  <1> QED
    BY <1>1, <1>6, <1>7

LEMMA AppendMembers ==
  ASSUME NEW T, NEW s \in Seq(T), NEW x \in T
  PROVE  Append(s, x) \in Seq(T) /\ Members(Append(s, x)) = Members(s) \cup {x}
  <1>1. /\ Len(s) \in Nat /\ Append(s, x) \in Seq(T) /\ Len(Append(s, x)) = Len(s) + 1
        /\ \A i \in 1 .. Len(s) : Append(s, x)[i] = s[i]
        /\ Append(s, x)[Len(s) + 1] = x
    BY AppendProperties, LenProperties
  <1>2. /\ Members(s) = {s[i] : i \in 1 .. Len(s)}
        /\ Members(Append(s, x)) = {Append(s, x)[i] : i \in 1 .. Len(s) + 1}
    BY <1>1, MembersAre
  <1>3. \A i \in 1 .. Len(s) + 1 : i \in 1 .. Len(s) \/ i = Len(s) + 1
    BY <1>1
  <1>4. 1 .. Len(s) \subseteq 1 .. Len(s) + 1 /\ Len(s) + 1 \in 1 .. Len(s) + 1
    BY <1>1
  <1> QED
    BY <1>1, <1>2, <1>3, <1>4

LEMMA OneMember ==
  ASSUME NEW T, NEW x \in T
  PROVE  <<x>> \in Seq(T) /\ Members(<<x>>) = {x}
  BY DEF Members

LEMMA SteersAreItems ==
  ASSUME NEW q \in Seq(Msg)
  PROVE  SteerItems(q) \in Seq(Item) /\ Members(SteerItems(q)) = {Steered(m) : m \in Members(q)}
  <1>1. DOMAIN q = 1 .. Len(q) /\ Len(q) \in Nat
    BY LenProperties
  <1>2. \A i \in 1 .. Len(q) : Steered(q[i]) \in Item
    BY ElementOfSeq DEF Steered, Item
  <1>3. SteerItems(q) = [i \in 1 .. Len(q) |-> Steered(q[i])]
    BY <1>1 DEF SteerItems
  <1>4. SteerItems(q) \in Seq(Item)
    BY <1>1, <1>2, <1>3
  <1> QED
    BY <1>1, <1>3, <1>4 DEF Members

LEMMA InputsAreItems ==
  ASSUME NEW q \in Seq(Msg)
  PROVE  Inputs(q) \in Seq(Item) /\ Members(Inputs(q)) = {Input(m) : m \in Members(q)}
  <1>1. DOMAIN q = 1 .. Len(q) /\ Len(q) \in Nat
    BY LenProperties
  <1>2. \A i \in 1 .. Len(q) : Input(q[i]) \in Item
    BY ElementOfSeq DEF Input, Item
  <1>3. Inputs(q) = [i \in 1 .. Len(q) |-> Input(q[i])]
    BY <1>1 DEF Inputs
  <1>4. Inputs(q) \in Seq(Item)
    BY <1>1, <1>2, <1>3
  <1> QED
    BY <1>1, <1>3, <1>4 DEF Members

-----------------------------------------------------------------------------
(* One sequence is the beginning of another. *)

LEMMA ExtendsIff ==
  ASSUME NEW S, NEW l \in Seq(S), NEW m \in Seq(S)
  PROVE  Extends(l, m) <=> Len(l) <= Len(m) /\ \A i \in 1 .. Len(l) : m[i] = l[i]
  <1>1. ASSUME Len(l) <= Len(m)
        PROVE  /\ SubSeq(m, 1, Len(l)) \in Seq(S)
               /\ Len(SubSeq(m, 1, Len(l))) = Len(l)
               /\ \A i \in 1 .. Len(l) : SubSeq(m, 1, Len(l))[i] = m[i]
    <2>1. Len(l) \in Nat /\ Len(m) \in Nat /\ \A i \in 1 .. Len(l) : m[i] \in S
      BY <1>1, LenProperties, ElementOfSeq
    <2>2. /\ SubSeq(m, 1, Len(l)) \in Seq(S)
          /\ Len(SubSeq(m, 1, Len(l))) = IF 1 <= Len(l) THEN Len(l) - 1 + 1 ELSE 0
          /\ \A i \in 1 .. Len(l) - 1 + 1 : SubSeq(m, 1, Len(l))[i] = m[1 + i - 1]
      BY <2>1, SubSeqProperties
    <2> QED
      BY <2>1, <2>2
  <1>2. ASSUME Len(l) <= Len(m), \A i \in 1 .. Len(l) : m[i] = l[i]
        PROVE  SubSeq(m, 1, Len(l)) = l
    BY <1>1, <1>2, SeqEqual
  <1>3. ASSUME Len(l) <= Len(m), SubSeq(m, 1, Len(l)) = l
        PROVE  \A i \in 1 .. Len(l) : m[i] = l[i]
    BY <1>1, <1>3
  <1> QED
    BY <1>2, <1>3 DEF Extends

LEMMA ExtendsItself ==
  ASSUME NEW S, NEW l \in Seq(S)
  PROVE  Extends(l, l)
  BY ExtendsIff, LenProperties

LEMMA ExtendsOn ==
  ASSUME NEW S, NEW l \in Seq(S), NEW m \in Seq(S), NEW n \in Seq(S),
         Extends(l, m), Extends(m, n)
  PROVE  Extends(l, n)
  <1>1. Len(l) \in Nat /\ Len(m) \in Nat /\ Len(n) \in Nat
    BY LenProperties
  <1>2. Len(l) <= Len(m) /\ \A i \in 1 .. Len(l) : m[i] = l[i]
    BY ExtendsIff
  <1>3. Len(m) <= Len(n) /\ \A i \in 1 .. Len(m) : n[i] = m[i]
    BY ExtendsIff
  <1>4. Len(l) <= Len(n) /\ \A i \in 1 .. Len(l) : n[i] = l[i]
    BY <1>1, <1>2, <1>3
  <1> QED
    BY <1>4, ExtendsIff

LEMMA ExtendsConcat ==
  ASSUME NEW S, NEW l \in Seq(S), NEW x \in Seq(S)
  PROVE  Extends(l, l \o x)
  <1>1. Len(l) \in Nat /\ Len(x) \in Nat
    BY LenProperties
  <1>2. l \o x \in Seq(S) /\ Len(l \o x) = Len(l) + Len(x)
        /\ \A i \in 1 .. Len(l) + Len(x) : (l \o x)[i] = IF i <= Len(l) THEN l[i] ELSE x[i - Len(l)]
    BY ConcatProperties
  <1>3. Len(l) <= Len(l \o x) /\ \A i \in 1 .. Len(l) : (l \o x)[i] = l[i]
    BY <1>1, <1>2
  <1> QED
    BY <1>2, <1>3, ExtendsIff

-----------------------------------------------------------------------------
(* The queue of the record's operations holds, beside the steers to keep, the
   one operation the runner waits for. *)

Awaited ==
  CASE pc \in {"create", "abandon"} -> "create"
    [] pc = "steers" -> "steers"
    [] pc = "begin" -> "begin"
    [] pc = "keep" -> "end"
    [] pc = "settle" -> "usage"
    [] OTHER -> "keep"

Only(q, name) ==
  /\ \A i \in 1 .. Len(q) : q[i].op \in {"keep", name}
  /\ \A i, j \in 1 .. Len(q) : q[i].op # "keep" /\ q[j].op # "keep" => i = j

OneOp == Only(ops, Awaited)

LEMMA OnlyTail ==
  ASSUME NEW q \in Seq(Op), q # <<>>, NEW name, Only(q, name)
  PROVE  /\ Only(Tail(q), name)
         /\ Head(q).op \in {"keep", name}
         /\ Head(q).op # "keep" => Only(Tail(q), "keep")
  <1>1. Len(q) \in Nat /\ Len(q) >= 1 /\ Head(q) = q[1]
    BY EmptySeq, LenProperties
  <1>2. Len(Tail(q)) = Len(q) - 1 /\ \A i \in 1 .. Len(q) - 1 : Tail(q)[i] = q[i + 1]
    BY HeadTailProperties
  <1>3. \A i \in 1 .. Len(q) - 1 : i + 1 \in 1 .. Len(q) /\ i + 1 # 1
    BY <1>1
  <1>4. 1 \in 1 .. Len(q)
    BY <1>1
  <1>5. Only(Tail(q), name)
    <2>1. \A i \in 1 .. Len(q) - 1 : Tail(q)[i].op \in {"keep", name}
      BY <1>2, <1>3 DEF Only
    <2>2. ASSUME NEW i \in 1 .. Len(q) - 1, NEW j \in 1 .. Len(q) - 1,
                 Tail(q)[i].op # "keep", Tail(q)[j].op # "keep"
          PROVE  i = j
      <3>1. i + 1 = j + 1
        BY <1>2, <1>3, <2>2 DEF Only
      <3> QED
        BY <1>1, <3>1
    <2> QED
      BY <1>2, <2>1, <2>2 DEF Only
  <1>6. ASSUME Head(q).op # "keep" PROVE Only(Tail(q), "keep")
    <2>1. \A i \in 1 .. Len(q) - 1 : Tail(q)[i].op = "keep"
      BY <1>1, <1>2, <1>3, <1>4, <1>6 DEF Only
    <2> QED
      BY <1>2, <2>1 DEF Only
  <1> QED
    BY <1>1, <1>4, <1>5, <1>6 DEF Only

LEMMA OnlyAppend ==
  ASSUME NEW q \in Seq(Op), NEW x \in Op, NEW name, Only(q, name),
         x.op # "keep" => Only(q, "keep")
  PROVE  x.op \in {"keep", name} => Only(Append(q, x), name)
  <1>1. Len(q) \in Nat /\ Len(Append(q, x)) = Len(q) + 1 /\ Append(q, x)[Len(q) + 1] = x
        /\ \A i \in 1 .. Len(q) : Append(q, x)[i] = q[i]
    BY LenProperties, AppendProperties
  <1> SUFFICES ASSUME x.op \in {"keep", name} PROVE Only(Append(q, x), name)
    OBVIOUS
  <1>2. \A i \in 1 .. Len(q) + 1 : i \in 1 .. Len(q) \/ i = Len(q) + 1
    BY <1>1
  <1>3. \A i \in 1 .. Len(q) + 1 : Append(q, x)[i].op \in {"keep", name}
    BY <1>1, <1>2 DEF Only
  <1>4. \A i, j \in 1 .. Len(q) + 1 :
          Append(q, x)[i].op # "keep" /\ Append(q, x)[j].op # "keep" => i = j
    BY <1>1, <1>2 DEF Only
  <1> QED
    BY <1>1, <1>3, <1>4 DEF Only

LEMMA OnlyAny ==
  ASSUME NEW q, NEW name, Only(q, "keep")
  PROVE  Only(q, name)
  BY DEF Only

(* An operation is queued, settled or both. *)
LEMMA PendingIsOp ==
  /\ Pending("create", {}) \in Op /\ Pending("steers", {}) \in Op /\ Pending("begin", {}) \in Op
  /\ Pending("usage", {}) \in Op
  /\ \A S \in SUBSET Msg : Pending("keep", S) \in Op /\ Pending("end", S) \in Op
  BY DEF Pending, Op

LEMMA TailIsOps ==
  ASSUME NEW q \in Seq(Op), q # <<>>
  PROVE  Tail(q) \in Seq(Op)
  BY HeadTailProperties

LEMMA OneOpQueued ==
  ASSUME NEW q \in Seq(Op), NEW name \in {"create", "steers", "begin", "end", "usage"},
         NEW S \in SUBSET Msg, Pending(name, S) \in Op, Only(q, "keep")
  PROVE  Only(Append(q, Pending(name, S)), name)
  <1>1. Pending(name, S).op = name /\ name # "keep"
    BY DEF Pending
  <1> QED
    BY <1>1, OnlyAppend, OnlyAny

(* The runner goes on: its operation is done, and it awaits the next one. *)
LEMMA OneOpEnds ==
  ASSUME TypeOK, OneOp, EndTurn(outcome) \/ EndTurn("failed"), ops # <<>>, Head(ops).op # "keep"
  PROVE  OneOp'
  <1>1. ops \in Seq(Op) /\ Tail(ops) \in Seq(Op) /\ Only(Tail(ops), "keep")
    BY OnlyTail, TailIsOps DEF TypeOK, OneOp
  <1>2. CASE queue # <<>>
    <2>1. pc' = "create" /\ ops' = Append(Tail(ops), Pending("create", {}))
      BY <1>2 DEF EndTurn, StartTurn
    <2> QED
      BY <1>1, <2>1, OneOpQueued, PendingIsOp DEF OneOp, Awaited
  <1>3. CASE queue = <<>>
    BY <1>1, <1>3 DEF EndTurn, OneOp, Awaited
  <1> QED
    BY <1>2, <1>3

LEMMA OneOpStep ==
  ASSUME TypeOK, OneOp, [Next]_vars
  PROVE  OneOp'
  <1>0. ops \in Seq(Op) /\ queue \in Seq(Msg)
    BY DEF TypeOK
  <1>1. ASSUME NEW m \in Msg, Send(m) PROVE OneOp'
    <2>1. CASE UNCHANGED <<pc, ops>>
      BY <2>1 DEF OneOp, Awaited
    <2>2. CASE pc = "rest" /\ pc' = "create" /\ ops' = Append(ops, Pending("create", {}))
      BY <1>0, <2>2, OneOpQueued, PendingIsOp DEF OneOp, Awaited
    <2>3. CASE UNCHANGED pc /\ ops' = Append(ops, Pending("keep", {m}))
      <3>1. Pending("keep", {m}) \in Op /\ Pending("keep", {m}).op = "keep"
        BY PendingIsOp DEF Pending
      <3> QED
        BY <1>0, <2>3, <3>1, OnlyAppend DEF OneOp, Awaited
    <2> QED
      BY <1>1, <2>1, <2>2, <2>3 DEF Send, StartTurn
  <1>2. CASE Resume \/ Fresh
    <2>1. ops # <<>> /\ Head(ops).op = "create"
          /\ pc' = "steers" /\ ops' = Append(Tail(ops), Pending("steers", {}))
      BY <1>2 DEF Resume, Fresh, Prepared, Running
    <2>2. Tail(ops) \in Seq(Op) /\ Only(Tail(ops), "keep")
      BY <1>0, <2>1, OnlyTail, TailIsOps DEF OneOp
    <2> QED
      BY <2>1, <2>2, OneOpQueued, PendingIsOp DEF OneOp, Awaited
  <1>3. CASE Requeue
    <2>1. ops # <<>> /\ Head(ops).op = "steers"
          /\ pc' = "begin" /\ ops' = Append(Tail(ops), Pending("begin", {}))
      BY <1>3 DEF Requeue, Running
    <2>2. Tail(ops) \in Seq(Op) /\ Only(Tail(ops), "keep")
      BY <1>0, <2>1, OnlyTail, TailIsOps DEF OneOp
    <2> QED
      BY <2>1, <2>2, OneOpQueued, PendingIsOp DEF OneOp, Awaited
  <1>4. CASE Begin \/ End
    <2>1. ops # <<>> /\ Head(ops).op # "keep" /\ ops' = Tail(ops) /\ pc' \in {"run", "clear"}
      BY <1>4 DEF Begin, End, Running
    <2> QED
      BY <1>0, <2>1, OnlyTail DEF OneOp, Awaited
  <1>5. CASE Keep
    BY <1>0, <1>5, OnlyTail DEF Keep, Running, turn, OneOp, Awaited
  <1>6. ASSUME NEW result, NEW q \in Seq(Op), Settle(result, q), Only(q, "keep") PROVE OneOp'
    BY <1>6, OneOpQueued, PendingIsOp DEF Settle, OneOp, Awaited
  <1>7. CASE TurnFails \/ Clear \/ ClearLedger
    <2>1. Only(ops, "keep")
      BY <1>7 DEF TurnFails, Clear, ClearLedger, OneOp, Awaited
    <2>2. CASE pc' = "clearLedger" /\ UNCHANGED ops
      BY <2>1, <2>2 DEF OneOp, Awaited
    <2>3. CASE Settle(outcome, ops) \/ Settle("failed", ops)
      BY <1>0, <1>6, <2>1, <2>3
    <2> QED
      BY <1>7, <2>2, <2>3 DEF TurnFails, Clear, ClearLedger
  <1>8. CASE EndThrows
    <2>1. Only(Tail(ops), "keep") /\ Tail(ops) \in Seq(Op)
      BY <1>0, <1>8, OnlyTail, TailIsOps DEF EndThrows, Running, OneOp
    <2> QED
      BY <1>6, <1>8, <2>1 DEF EndThrows
  <1>9. ASSUME NEW result, KeepHistory(result), pc \in {"run", "ready", "streaming", "ending"} PROVE OneOp'
    <2>1. Only(ops, "keep") /\ Members(queue) \in SUBSET Msg
      BY <1>0, <1>9, MembersAre DEF OneOp, Awaited
    <2> QED
      BY <1>0, <1>9, <2>1, OneOpQueued, PendingIsOp DEF KeepHistory, OneOp, Awaited
  <1>10. CASE EndRun \/ Cut
    <2>1. CASE Settle("failed", ops)
      BY <1>0, <1>6, <1>10, <2>1 DEF EndRun, Cut, OneOp, Awaited
    <2> QED
      BY <1>9, <1>10, <2>1 DEF EndRun, Cut
  <1>11. CASE UsageSettles \/ PrepareFails
    BY <1>11, OneOpEnds DEF UsageSettles, PrepareFails, Running
  <1>12. CASE UsageFails
    <2>1. Only(Tail(ops), "keep") /\ Tail(ops) \in Seq(Op)
      BY <1>0, <1>12, OnlyTail, TailIsOps DEF UsageFails, Running, OneOp
    <2>2. CASE Settle("failed", Tail(ops))
      BY <1>6, <2>1, <2>2
    <2> QED
      BY <1>12, <2>2, OneOpEnds DEF UsageFails, Running
  <1>13. CASE Crash
    <2>1. Only(<<>>, "keep")
      BY DEF Only
    <2> QED
      BY <1>13, <2>1 DEF Crash, OneOp, Awaited
  <1>14. CASE Abandon \/ BeginRun \/ SaveBaseline \/ StartRound \/ StageSteers \/ ToolRound
              \/ RecordRound \/ Answer \/ StepCheckpoint
    <2>1. UNCHANGED ops /\ Awaited' = Awaited
      BY <1>14 DEF Abandon, BeginRun, SaveBaseline, StartRound, StageSteers, ToolRound,
                   RecordRound, Answer, StepCheckpoint, Awaited
    <2> QED
      BY <2>1 DEF OneOp
  <1>15. CASE Abort \/ Await \/ UNCHANGED vars
    BY <1>15 DEF Abort, Await, vars, turn, OneOp, Awaited
  <1> QED
    BY <1>1, <1>2, <1>3, <1>4, <1>5, <1>7, <1>8, <1>10, <1>11, <1>12, <1>13, <1>14, <1>15
    DEF Next, TurnStep

LEMMA RunningAt ==
  ASSUME TypeOK, OneOp
  PROVE  /\ Running("create") => pc \in {"create", "abandon"}
         /\ Running("steers") => pc = "steers"
         /\ Running("begin") => pc = "begin"
         /\ Running("end") => pc = "keep"
         /\ Running("usage") => pc = "settle"
  <1>1. ASSUME ops # <<>> PROVE Head(ops).op \in {"keep", Awaited}
    BY <1>1, OnlyTail DEF TypeOK, OneOp
  <1> QED
    BY <1>1 DEF Running, Awaited

-----------------------------------------------------------------------------
(* Types. *)

(* A turn is on an execution from its preparation on, and delivers something. *)
Held ==
  /\ exec = None <=> pc \in {"rest", "create", "abandon"}
  /\ pc # "rest" => batch # <<>>

TypeInv == TypeOK /\ OneOp /\ Held

LEMMA Typed ==
  ASSUME TypeOK
  PROVE  /\ rec.items \in Seq(Item) /\ base \in Seq(Item) /\ conv \in Seq(Item)
         /\ rec.turn \in Turn \cup {None} /\ exec \in Exec \cup {None}
         /\ rec.turn # None => rec.turn.exec \in Exec
         /\ \A e \in Exec : /\ ck[e].snap \in Seq(Item) \cup {None} /\ ck[e].tail \in Seq(Item)
                            /\ ck[e].rounds \in Nat /\ ck[e].final \in BOOLEAN
         /\ None \notin Exec /\ Exec \subseteq Nat /\ None \notin Seq(Item)
  <1>1. None \notin Exec /\ Exec \subseteq Nat /\ None \notin Seq(Item)
    BY SessionAssumption DEF Exec, Item
  <1>2. rec \in Record /\ ck \in [Exec -> Checkpoint]
    BY DEF TypeOK
  <1>3. rec.items \in Seq(Item) /\ rec.turn \in Turn \cup {None}
        /\ (rec.turn # None => rec.turn.exec \in Exec)
    BY <1>2 DEF Record, Turn
  <1>4. \A e \in Exec : /\ ck[e].snap \in Seq(Item) \cup {None} /\ ck[e].tail \in Seq(Item)
                       /\ ck[e].rounds \in Nat /\ ck[e].final \in BOOLEAN
    BY <1>2 DEF Checkpoint
  <1> QED
    BY <1>1, <1>3, <1>4 DEF TypeOK

LEMMA RecordTypes ==
  ASSUME NEW r \in Record
  PROVE  /\ NoTurn(r) \in Record
         /\ \A t \in Turn, s \in Seq(Msg) : [r EXCEPT !.turn = t, !.steers = s] \in Record
         /\ \A s \in Seq(Msg) : [r EXCEPT !.steers = s] \in Record
         /\ \A l \in Seq(Item), s \in Seq(Msg) : [items |-> l, turn |-> None, steers |-> s] \in Record
         /\ r.steers \in Seq(Msg)
  BY DEF Record, NoTurn

LEMMA QueuedOps ==
  ASSUME NEW q \in Seq(Op)
  PROVE  /\ Append(q, Pending("create", {})) \in Seq(Op)
         /\ Append(q, Pending("steers", {})) \in Seq(Op)
         /\ Append(q, Pending("begin", {})) \in Seq(Op)
         /\ Append(q, Pending("usage", {})) \in Seq(Op)
         /\ \A S \in SUBSET Msg : /\ Append(q, Pending("keep", S)) \in Seq(Op)
                                  /\ Append(q, Pending("end", S)) \in Seq(Op)
         /\ q # <<>> => Head(q) \in Op /\ Head(q).arg \in SUBSET Msg
  <1>1. q # <<>> => Head(q) \in Op
    BY HeadTailProperties
  <1>2. \A x \in Op : x.arg \in SUBSET Msg
    BY DEF Op
  <1>3. \A x \in Op : Append(q, x) \in Seq(Op)
    BY AppendProperties
  <1> QED
    BY <1>1, <1>2, <1>3, PendingIsOp

(* What a failed or a successful save of the record leaves. *)
LEMMA WriteTypes ==
  ASSUME TypeOK, NEW r \in Record, Write(r)
  PROVE  rec' \in Record /\ faults' \in Nat /\ (rec' = r \/ rec' = rec)
  BY DEF Write, Lands, Fails, TypeOK

LEMMA ItemMsgs ==
  ASSUME NEW l \in Seq(Item)
  PROVE  \A x \in Members(l) : x \in Item /\ x.msg \in Msg
  <1>1. Members(l) \subseteq Item
    BY MembersAre
  <1> QED
    BY <1>1 DEF Item

LEMMA EndTurnTypes ==
  ASSUME TypeOK, ops # <<>>, NEW result, EndTurn(result),
         rec' \in Record, waiting' \in BOOLEAN, unheard' \in BOOLEAN, faults' \in Nat
  PROVE  TypeOK' /\ Held'
  <1>1. Tail(ops) \in Seq(Op) /\ Append(Tail(ops), Pending("create", {})) \in Seq(Op)
    BY TailIsOps, QueuedOps DEF TypeOK
  <1>2. Members(batch) \subseteq Msg /\ \A x \in Members(conv) : x.msg \in Msg
    BY MembersAre, ItemMsgs DEF TypeOK
  <1>3. sent' \subseteq Msg /\ answered' \subseteq Msg
    <2>1. sent' = sent \ Members(batch) \/ sent' = sent
      BY DEF EndTurn
    <2>2. \/ answered' = answered
          \/ answered' = answered \cup Members(batch)
                                   \cup {x.msg : x \in {y \in Members(conv) : y.kind = "steer"}}
      BY DEF EndTurn
    <2>3. sent \subseteq Msg /\ answered \subseteq Msg
      BY DEF TypeOK
    <2> QED
      BY <1>2, <2>1, <2>2, <2>3
  <1>4. <<>> \in Seq(Msg) /\ <<>> \in Seq(Item)
    BY EmptySeq
  <1>5. /\ exec' = None /\ base' = <<>> /\ conv' = <<>> /\ staged' = <<>> /\ round' = 0
        /\ saving' = FALSE /\ late' \in BOOLEAN
        /\ UNCHANGED <<ck, again, kept, cutStaged, unsaved, turns, fails, crashes>>
    BY DEF EndTurn, TypeOK
  <1>6. /\ queue' \in Seq(Msg) /\ status' \in Statuses /\ pc' \in {"rest", "create"}
        /\ batch' \in Seq(Msg) /\ outcome' = "done" /\ ops' \in Seq(Op)
        /\ pc' = "create" => batch' # <<>>
    BY <1>1, <1>4 DEF EndTurn, StartTurn, TypeOK, Statuses
  <1>7. Held'
    BY <1>5, <1>6 DEF Held
  <1>8. TypeOK'
    BY <1>3, <1>4, <1>5, <1>6 DEF TypeOK, Pcs
  <1> QED
    BY <1>7, <1>8

LEMMA HostTypes ==
  ASSUME TypeInv, NEW m \in Msg, Send(m)
  PROVE  TypeOK' /\ Held'
  <1> USE DEF TypeInv
  <1>1. /\ <<m>> \in Seq(Msg) /\ <<m>> \o queue \in Seq(Msg) /\ Append(queue, m) \in Seq(Msg)
        /\ <<>> \in Seq(Msg) /\ <<m>> # <<>>
    BY OneMember, ConcatProperties, AppendProperties, EmptySeq DEF TypeOK
  <1>2. ops' \in Seq(Op)
    BY QueuedOps DEF Send, TypeOK
  <1>3. /\ queue' \in Seq(Msg) /\ status' \in Statuses
        /\ UNCHANGED <<pc, batch, outcome>> \/ (pc' = "create" /\ batch' = <<m>> /\ outcome' = "done" /\ pc = "rest")
    BY <1>1 DEF Send, StartTurn, TypeOK, Statuses
  <1>4. /\ UNCHANGED <<waiting, exec, base, conv, staged, round, saving, rec, ck,
                       answered, kept, cutStaged, late, unheard, unsaved, turns, fails, faults, crashes>>
        /\ sent' \in SUBSET Msg /\ again' \in SUBSET Msg
    BY DEF Send, TypeOK, stored, bounds
  <1>5. TypeOK'
    <2>1. /\ exec' \in Exec \cup {None} /\ rec' \in Record /\ ck' \in [Exec -> Checkpoint]
          /\ base' \in Seq(Item) /\ conv' \in Seq(Item) /\ staged' \in Seq(Msg)
      BY <1>4 DEF TypeOK
    <2>2. /\ waiting' \in BOOLEAN /\ saving' \in BOOLEAN /\ round' \in Nat
          /\ late' \in BOOLEAN /\ unheard' \in BOOLEAN /\ unsaved' \in BOOLEAN
          /\ answered' \subseteq Msg /\ kept' \subseteq Msg /\ cutStaged' \subseteq Msg
          /\ turns' \in 0 .. MaxTurns /\ fails' \in Nat /\ faults' \in Nat /\ crashes' \in Nat
      BY <1>4 DEF TypeOK
    <2>3. pc' \in Pcs /\ batch' \in Seq(Msg) /\ outcome' \in {"done", "cut", "failed"}
      BY <1>1, <1>3 DEF TypeOK, Pcs
    <2> QED
      BY <1>2, <1>3, <1>4, <2>1, <2>2, <2>3 DEF TypeOK
  <1>6. Held'
    BY <1>1, <1>3, <1>4 DEF Held
  <1> QED
    BY <1>5, <1>6

(* The steps that leave the types of everything but a few variables alone. *)
LEMMA PreparingTypes ==
  ASSUME TypeInv, Resume \/ Fresh
  PROVE  TypeOK' /\ Held'
  <1> USE DEF TypeInv
  <1>1. ops # <<>> /\ pc \in {"create", "abandon"} /\ exec = None /\ batch # <<>>
    BY RunningAt DEF Resume, Fresh, Running, Held
  <1>2. Tail(ops) \in Seq(Op) /\ Append(Tail(ops), Pending("steers", {})) \in Seq(Op)
    BY <1>1, TailIsOps, QueuedOps DEF TypeOK
  <1>3. ops' \in Seq(Op) /\ pc' = "steers"
    BY <1>2 DEF Resume, Fresh, Prepared
  <1>4. UNCHANGED <<queue, status, waiting, batch, staged, round, saving, outcome, sent, answered,
                    again, kept, cutStaged, late, unheard, unsaved, fails, crashes>>
    BY DEF Resume, Fresh, Prepared, inbox, ghost
  <1>5. rec.items \o Inputs(batch) \in Seq(Item)
    BY InputsAreItems, ConcatProperties, Typed DEF TypeOK
  <1>6. NoTurn(rec) \in Record /\ NoCheckpoint \in Checkpoint
    BY RecordTypes, EmptySeq DEF TypeOK, NoCheckpoint, Checkpoint
  <1>7. exec' \in Exec /\ turns' \in 0 .. MaxTurns
    BY Typed, SessionAssumption DEF Resume, Fresh, NextExec, TypeOK, Exec
  <1>8. base' \in Seq(Item) /\ conv' \in Seq(Item)
    BY <1>5, Typed, EmptySeq DEF Resume, Fresh, Prepared, Restored
  <1>9. rec' \in Record /\ ck' \in [Exec -> Checkpoint] /\ faults' \in Nat
    BY <1>6 DEF Resume, Fresh, Lands, stored, TypeOK
  <1>10. TypeOK'
    BY <1>3, <1>4, <1>7, <1>8, <1>9 DEF TypeOK, Pcs
  <1>11. Held'
    BY <1>1, <1>3, <1>4, <1>7, Typed DEF Held
  <1> QED
    BY <1>10, <1>11

LEMMA RecordOpTypes ==
  ASSUME TypeInv, Abandon \/ Requeue \/ Begin \/ Keep \/ End
  PROVE  TypeOK' /\ Held'
  <1> USE DEF TypeInv
  <1>1. ops # <<>> /\ ops \in Seq(Op) /\ Tail(ops) \in Seq(Op) /\ Head(ops).arg \in SUBSET Msg
    BY TailIsOps, QueuedOps DEF Abandon, Requeue, Begin, Keep, End, Running, TypeOK
  <1>2. rec \in Record /\ rec.steers \in Seq(Msg)
    BY RecordTypes DEF TypeOK
  <1>3. CASE Abandon
    <2>1. /\ UNCHANGED <<queue, status, waiting, batch, exec, base, conv, staged, round, saving,
                         outcome, ops, rec, sent, answered, again, kept, cutStaged, late, unheard,
                         turns, fails, crashes>>
          /\ unsaved' = TRUE /\ pc = "create" /\ pc' = "abandon" /\ faults' \in Nat
      BY <1>3 DEF Abandon, inbox, Fails, TypeOK
    <2>2. ck' \in [Exec -> Checkpoint]
      BY <1>3 DEF Abandon, TypeOK, Checkpoint
    <2>3. TypeOK'
      BY <2>1, <2>2 DEF TypeOK, Pcs
    <2>4. Held'
      BY <2>1 DEF Held
    <2> QED
      BY <2>3, <2>4
  <1>4. CASE Requeue
    <2>1. queue' \in Seq(Msg)
      BY <1>2, <1>4, WithoutMembers, ConcatProperties DEF Requeue, TypeOK
    <2>2. ops' \in Seq(Op) /\ pc = "steers" /\ pc' = "begin"
      BY <1>1, <1>4, QueuedOps, RunningAt DEF Requeue
    <2>3. UNCHANGED <<status, waiting, batch, exec, base, conv, staged, round, saving, outcome,
                      rec, ck, sent, answered, again, kept, cutStaged, late, unheard, unsaved,
                      turns, fails, faults, crashes>>
      BY <1>4 DEF Requeue, stored, ghost, bounds
    <2>4. TypeOK'
      BY <2>1, <2>2, <2>3 DEF TypeOK, Pcs
    <2>5. Held'
      BY <2>2, <2>3 DEF Held
    <2> QED
      BY <2>4, <2>5
  <1>5. CASE Begin
    <2>1. pc = "begin" /\ pc' = "run" /\ exec \in Exec /\ ops' \in Seq(Op)
      BY <1>1, <1>5, RunningAt, Typed DEF Begin, Held
    <2>2. [exec |-> exec, ids |-> batch] \in Turn
      BY <2>1 DEF Turn, TypeOK
    <2>3. [rec EXCEPT !.turn = [exec |-> exec, ids |-> batch],
                      !.steers = Without(@, Members(batch))] \in Record
      BY <1>2, <2>2, WithoutMembers, RecordTypes
    <2>4. rec' \in Record /\ faults' \in Nat
      BY <1>5, <2>3, WriteTypes DEF Begin
    <2>5. kept' \in SUBSET Msg
      BY <1>5 DEF Begin, TypeOK
    <2>6. UNCHANGED <<queue, status, waiting, batch, exec, base, conv, staged, round, saving,
                      outcome, ck, sent, answered, again, cutStaged, late, unheard, unsaved,
                      turns, fails, crashes>>
      BY <1>5 DEF Begin, inbox
    <2>7. TypeOK'
      BY <2>1, <2>4, <2>5, <2>6 DEF TypeOK, Pcs
    <2>8. Held'
      BY <2>1, <2>6 DEF Held
    <2> QED
      BY <2>7, <2>8
  <1>6. CASE Keep
    <2>1. PICK s \in Head(ops).arg :
            /\ Write([rec EXCEPT !.steers = Append(Without(@, {s}), s)])
            /\ kept' = IF rec' = rec THEN kept ELSE kept \cup {s}
      BY <1>6 DEF Keep
    <2>2. s \in Msg
      BY <1>1
    <2>3. [rec EXCEPT !.steers = Append(Without(@, {s}), s)] \in Record
      <3>1. Append(Without(rec.steers, {s}), s) \in Seq(Msg)
        BY <1>2, <2>2, WithoutMembers, AppendProperties
      <3> QED
        BY <1>2, <3>1, RecordTypes
    <2>4. rec' \in Record /\ faults' \in Nat
      BY <2>1, <2>3, WriteTypes
    <2>5. kept' \in SUBSET Msg /\ ops' \in Seq(Op)
      BY <1>1, <1>6, <2>1, <2>2 DEF Keep, TypeOK
    <2>6. UNCHANGED <<queue, status, waiting, pc, batch, exec, base, conv, staged, round, saving,
                      outcome, ck, sent, answered, again, cutStaged, late, unheard, unsaved,
                      turns, fails, crashes>>
      BY <1>6 DEF Keep, inbox, turn
    <2>7. TypeOK'
      BY <2>4, <2>5, <2>6 DEF TypeOK, Pcs
    <2>8. Held'
      BY <2>6 DEF Held
    <2> QED
      BY <2>7, <2>8
  <1>7. CASE End
    <2>1. pc = "keep" /\ pc' = "clear" /\ ops' \in Seq(Op)
      BY <1>1, <1>7, RunningAt DEF End
    <2>2. [items |-> conv, turn |-> None, steers |-> Selected(rec.steers, Head(ops).arg)] \in Record
      BY <1>2, SelectedMembers, RecordTypes DEF TypeOK
    <2>3. rec' \in Record /\ faults' \in Nat
      BY <1>7, <2>2, WriteTypes DEF End
    <2>4. /\ UNCHANGED <<queue, status, waiting, batch, exec, base, conv, staged, round, saving,
                         outcome, ck, sent, answered, again, kept, cutStaged, late, unheard,
                         turns, fails, crashes>>
          /\ unsaved' \in BOOLEAN
      BY <1>7 DEF End, inbox, TypeOK
    <2>5. TypeOK'
      BY <2>1, <2>3, <2>4 DEF TypeOK, Pcs
    <2>6. Held'
      BY <2>1, <2>4 DEF Held
    <2> QED
      BY <2>5, <2>6
  <1> QED
    BY <1>3, <1>4, <1>5, <1>6, <1>7

(* What the execution records keeps its type. *)
LEMMA CheckpointTypes ==
  ASSUME TypeOK
  PROVE  /\ \A x \in Seq(Item) \cup {None} : [ck EXCEPT ![exec].snap = x] \in [Exec -> Checkpoint]
         /\ [ck EXCEPT ![exec] = NoCheckpoint] \in [Exec -> Checkpoint]
         /\ \A x \in Seq(Item) : [ck EXCEPT ![exec] = [NoCheckpoint EXCEPT !.snap = x]] \in [Exec -> Checkpoint]
         /\ \A x \in Seq(Item), n \in Nat :
              [ck EXCEPT ![exec].tail = x, ![exec].rounds = n] \in [Exec -> Checkpoint]
         /\ \A x \in Seq(Item) :
              [ck EXCEPT ![exec].tail = x, ![exec].final = TRUE] \in [Exec -> Checkpoint]
  <1>1. ck \in [Exec -> Checkpoint]
    BY DEF TypeOK
  <1>2. NoCheckpoint \in Checkpoint /\ \A x \in Seq(Item) : [NoCheckpoint EXCEPT !.snap = x] \in Checkpoint
    BY EmptySeq DEF NoCheckpoint, Checkpoint
  <1>3. \A x \in Seq(Item) \cup {None} : [ck EXCEPT ![exec].snap = x] \in [Exec -> Checkpoint]
    BY <1>1 DEF Checkpoint
  <1>4. \A x \in Seq(Item), n \in Nat :
          [ck EXCEPT ![exec].tail = x, ![exec].rounds = n] \in [Exec -> Checkpoint]
    BY <1>1 DEF Checkpoint
  <1>5. \A x \in Seq(Item) : [ck EXCEPT ![exec].tail = x, ![exec].final = TRUE] \in [Exec -> Checkpoint]
    BY <1>1 DEF Checkpoint
  <1>6. [ck EXCEPT ![exec] = NoCheckpoint] \in [Exec -> Checkpoint]
    BY <1>1, <1>2
  <1>7. ASSUME NEW x \in Seq(Item)
        PROVE  [ck EXCEPT ![exec] = [NoCheckpoint EXCEPT !.snap = x]] \in [Exec -> Checkpoint]
    BY <1>1, <1>2
  <1> QED
    BY <1>3, <1>4, <1>5, <1>6, <1>7

LEMMA SubSeqOfItems ==
  ASSUME NEW l \in Seq(Item), NEW n \in Nat
  PROVE  SubSeq(l, n + 1, Len(l)) \in Seq(Item)
  <1>1. Len(l) \in Nat /\ \A i \in n + 1 .. Len(l) : l[i] \in Item
    BY LenProperties, ElementOfSeq
  <1> QED
    BY <1>1, SubSeqProperties

LEMMA RunTypes ==
  ASSUME TypeInv, BeginRun \/ SaveBaseline \/ StartRound \/ StageSteers \/ ToolRound \/ RecordRound
                  \/ Answer \/ StepCheckpoint
  PROVE  TypeOK' /\ Held'
  <1> USE DEF TypeInv
  <1>1. UNCHANGED <<batch, exec, base, rec, ops, waiting, status, outcome, sent, answered, again, kept,
                    cutStaged, late, unheard, unsaved, turns, fails, crashes>>
    BY DEF BeginRun, SaveBaseline, StartRound, StageSteers, ToolRound, RecordRound, Answer,
           StepCheckpoint, inbox, stored, ghost, bounds
  <1>2. Offered \in Seq(Msg) /\ Without(queue, Steer) \in Seq(Msg) /\ staged \o Offered \in Seq(Msg)
    BY SelectedMembers, WithoutMembers, ConcatProperties DEF Offered, TypeOK
  <1>3. queue' \in Seq(Msg) /\ staged' \in Seq(Msg)
    BY <1>2, EmptySeq DEF BeginRun, SaveBaseline, StartRound, StageSteers, ToolRound, RecordRound,
                          Answer, StepCheckpoint, inbox, TypeOK
  <1>4. /\ pc # "rest" => batch # <<>>
        /\ pc \in {"run", "ready", "streaming", "recordRound", "checkpoint"} => exec \in Exec
    BY Typed DEF Held
  <1>5. conv' \in Seq(Item)
    <2>1. CASE BeginRun
      <3>1. conv' = conv \o ck[exec].tail /\ exec \in Exec
        BY <1>4, <2>1 DEF BeginRun
      <3> QED
        BY <3>1, Typed, ConcatProperties
    <2>2. CASE StartRound
      <3>1. SteerItems(staged \o Offered) \in Seq(Item)
        BY <1>2, SteersAreItems
      <3> QED
        BY <2>2, <3>1, ConcatProperties DEF StartRound, TypeOK
    <2>3. CASE Answer
      <3>1. batch[1] \in Msg
        <4>1. batch # <<>> /\ batch \in Seq(Msg)
          BY <1>4, <2>3 DEF Answer, TypeOK
        <4> QED
          BY <4>1, EmptySeq, ElementOfSeq
      <3>2. AnswerTo(batch[1]) \in Item
        BY <3>1 DEF AnswerTo, Item
      <3> QED
        BY <2>3, <3>2, AppendProperties DEF Answer, TypeOK
    <2>4. CASE SaveBaseline \/ StageSteers \/ ToolRound \/ RecordRound \/ StepCheckpoint
      BY <2>4 DEF SaveBaseline, StageSteers, ToolRound, RecordRound, StepCheckpoint, TypeOK
    <2> QED
      BY <2>1, <2>2, <2>3, <2>4
  <1>6. /\ round' \in Nat /\ saving' \in BOOLEAN
        /\ pc' \in Pcs
        /\ pc' = pc \/ (pc \in {"run", "ready", "streaming", "recordRound", "checkpoint"}
                        /\ pc' \in {"ready", "streaming", "recordRound", "checkpoint", "ending"})
    <2>1. CASE BeginRun
      BY <1>4, <2>1, Typed DEF BeginRun, TypeOK, Pcs
    <2>2. CASE SaveBaseline \/ StartRound \/ StageSteers \/ ToolRound
      BY <2>2 DEF SaveBaseline, StartRound, StageSteers, ToolRound, TypeOK, Pcs
    <2>3. CASE RecordRound \/ Answer \/ StepCheckpoint
      BY <2>3 DEF RecordRound, Answer, StepCheckpoint, TypeOK, Pcs
    <2> QED
      BY <2>1, <2>2, <2>3
  <1>7. ck' \in [Exec -> Checkpoint]
    <2>1. Len(base) \in Nat /\ SubSeq(conv', Len(base) + 1, Len(conv')) \in Seq(Item)
          /\ SubSeq(conv, Len(base) + 1, Len(conv)) \in Seq(Item) /\ base \in Seq(Item)
          /\ round + 1 \in Nat
      BY <1>5, LenProperties, SubSeqOfItems DEF TypeOK
    <2>2. CASE RecordRound
      <3>1. \/ ck' = ck
            \/ ck' = [ck EXCEPT ![exec].tail = SubSeq(conv, Len(base) + 1, Len(conv)),
                                ![exec].rounds = round + 1]
        BY <2>2 DEF RecordRound
      <3>2. [ck EXCEPT ![exec].tail = SubSeq(conv, Len(base) + 1, Len(conv)),
                       ![exec].rounds = round + 1] \in [Exec -> Checkpoint]
        BY <2>1, CheckpointTypes
      <3> QED
        BY <3>1, <3>2 DEF TypeOK
    <2>3. CASE Answer
      <3>1. \/ ck' = ck
            \/ ck' = [ck EXCEPT ![exec].tail = SubSeq(conv', Len(base) + 1, Len(conv')),
                                ![exec].final = TRUE]
        BY <2>3 DEF Answer
      <3>2. [ck EXCEPT ![exec].tail = SubSeq(conv', Len(base) + 1, Len(conv')),
                       ![exec].final = TRUE] \in [Exec -> Checkpoint]
        BY <2>1, CheckpointTypes
      <3> QED
        BY <3>1, <3>2 DEF TypeOK
    <2>4. CASE SaveBaseline \/ StepCheckpoint
      <3>1. ck' = ck \/ ck' = [ck EXCEPT ![exec].snap = base]
        BY <2>4 DEF SaveBaseline, StepCheckpoint
      <3>2. [ck EXCEPT ![exec].snap = base] \in [Exec -> Checkpoint]
        BY <2>1, CheckpointTypes
      <3> QED
        BY <3>1, <3>2 DEF TypeOK
    <2>5. CASE BeginRun \/ StartRound \/ StageSteers \/ ToolRound
      BY <2>5 DEF BeginRun, StartRound, StageSteers, ToolRound, stored, TypeOK
    <2> QED
      BY <2>2, <2>3, <2>4, <2>5
  <1>8. faults' \in Nat
    BY DEF BeginRun, SaveBaseline, StartRound, StageSteers, ToolRound, RecordRound, Answer,
           StepCheckpoint, bounds, Lands, Fails, TypeOK
  <1>9. TypeOK'
    BY <1>1, <1>3, <1>5, <1>6, <1>7, <1>8 DEF TypeOK
  <1>10. Held'
    BY <1>1, <1>6 DEF Held
  <1> QED
    BY <1>9, <1>10

LEMMA EndingTypes ==
  ASSUME TypeInv, EndRun \/ Cut \/ TurnFails \/ EndThrows \/ Clear \/ ClearLedger \/ Abort \/ Await
  PROVE  TypeOK' /\ Held'
  <1> USE DEF TypeInv
  <1>1. UNCHANGED <<queue, batch, exec, base, conv, staged, round, saving, rec, sent, answered, again,
                    kept, late, unheard, unsaved, turns, crashes>>
    BY DEF EndRun, Cut, TurnFails, EndThrows, Clear, ClearLedger, Abort, Await, inbox, turn, stored,
           ghost, bounds
  <1>2. ops' \in Seq(Op)
    <2>1. Members(queue) \in SUBSET Msg /\ ops \in Seq(Op)
      BY MembersAre DEF TypeOK
    <2>2. CASE EndRun \/ Cut \/ TurnFails \/ Clear \/ ClearLedger
      BY <2>1, <2>2, QueuedOps DEF EndRun, Cut, TurnFails, Clear, ClearLedger, KeepHistory, Settle
    <2>3. CASE EndThrows
      <3>1. Tail(ops) \in Seq(Op)
        BY <2>1, <2>3, TailIsOps DEF EndThrows, Running
      <3> QED
        BY <2>3, <3>1, QueuedOps DEF EndThrows, Settle
    <2>4. CASE Abort \/ Await
      BY <2>1, <2>4 DEF Abort, Await
    <2> QED
      BY <2>2, <2>3, <2>4
  <1>3. ck' \in [Exec -> Checkpoint]
    <2>1. \/ ck' = ck \/ ck' = [ck EXCEPT ![exec].snap = None]
          \/ ck' = [ck EXCEPT ![exec] = NoCheckpoint]
          \/ ck' = [ck EXCEPT ![exec] = [NoCheckpoint EXCEPT !.snap = conv]]
      BY DEF EndRun, Cut, TurnFails, EndThrows, Clear, ClearLedger, Abort, Await, stored
    <2>2. /\ [ck EXCEPT ![exec].snap = None] \in [Exec -> Checkpoint]
          /\ [ck EXCEPT ![exec] = NoCheckpoint] \in [Exec -> Checkpoint]
      BY CheckpointTypes
    <2>3. [ck EXCEPT ![exec] = [NoCheckpoint EXCEPT !.snap = conv]] \in [Exec -> Checkpoint]
      BY CheckpointTypes DEF TypeOK
    <2> QED
      BY <2>1, <2>2, <2>3 DEF TypeOK
  <1>4. /\ status' \in Statuses /\ waiting' \in BOOLEAN /\ outcome' \in {"done", "cut", "failed"}
        /\ fails' \in Nat /\ faults' \in Nat
    <2>1. status' = status \/ status' = "aborted"
      BY DEF EndRun, Cut, TurnFails, EndThrows, Clear, ClearLedger, Abort, Await, inbox
    <2>2. waiting' = waiting \/ waiting' = TRUE
      BY DEF EndRun, Cut, TurnFails, EndThrows, Clear, ClearLedger, Abort, Await, inbox
    <2>3. outcome' = outcome \/ outcome' \in {"done", "cut", "failed"}
      BY DEF EndRun, Cut, TurnFails, EndThrows, Clear, ClearLedger, Abort, Await, KeepHistory, Settle,
             turn
    <2>4. (fails' = fails \/ fails' = fails + 1) /\ (faults' = faults \/ faults' = faults + 1)
      BY DEF EndRun, Cut, TurnFails, EndThrows, Clear, ClearLedger, Abort, Await, bounds, Lands, Fails
    <2>5. fails' \in Nat /\ faults' \in Nat
      BY <2>4 DEF TypeOK
    <2>6. status' \in Statuses /\ waiting' \in BOOLEAN /\ outcome' \in {"done", "cut", "failed"}
      BY <2>1, <2>2, <2>3 DEF TypeOK, Statuses
    <2> QED
      BY <2>5, <2>6
  <1>5. cutStaged' \in SUBSET Msg
    BY MembersAre DEF EndRun, Cut, TurnFails, EndThrows, Clear, ClearLedger, Abort, Await, ghost, TypeOK
  <1>6. \/ UNCHANGED pc
        \/ /\ pc \in {"run", "ready", "streaming", "ending", "keep", "clear", "clearLedger"}
           /\ pc' \in {"keep", "clearLedger", "settle"}
    BY RunningAt DEF EndRun, Cut, TurnFails, EndThrows, Clear, ClearLedger, Abort, Await, KeepHistory,
                     Settle, turn
  <1>7. TypeOK'
    BY <1>1, <1>2, <1>3, <1>4, <1>5, <1>6 DEF TypeOK, Pcs
  <1>8. Held'
    BY <1>1, <1>6 DEF Held
  <1> QED
    BY <1>7, <1>8

LEMMA OverTypes ==
  ASSUME TypeInv, UsageSettles \/ UsageFails \/ PrepareFails \/ Crash
  PROVE  TypeOK' /\ Held'
  <1> USE DEF TypeInv
  <1>1. rec \in Record /\ NoTurn(rec) \in Record
    BY RecordTypes DEF TypeOK
  <1>2. CASE UsageSettles \/ PrepareFails
    <2>1. /\ ops # <<>> /\ rec' \in Record /\ waiting' \in BOOLEAN /\ unheard' \in BOOLEAN
          /\ faults' \in Nat
      <3>1. ops # <<>> /\ (faults' = faults \/ faults' = faults + 1)
        BY <1>2 DEF UsageSettles, PrepareFails, Running, Lands, Fails
      <3>2. rec' = rec \/ rec' = NoTurn(rec)
        BY <1>2 DEF UsageSettles, PrepareFails
      <3>3. waiting' \in BOOLEAN /\ UNCHANGED unheard
        BY <1>2 DEF UsageSettles, PrepareFails, TellWaiters
      <3> QED
        BY <1>1, <3>1, <3>2, <3>3 DEF TypeOK
    <2> QED
      BY <1>2, <2>1, EndTurnTypes DEF UsageSettles, PrepareFails
  <1>3. CASE UsageFails /\ EndTurn("failed") /\ unheard' = TRUE /\ UNCHANGED <<waiting, rec>>
    <2>1. ops # <<>> /\ faults' \in Nat /\ waiting' \in BOOLEAN
      BY <1>3 DEF UsageFails, Running, Fails, TypeOK
    <2> QED
      BY <1>1, <1>3, <2>1, EndTurnTypes
  <1>4. CASE UsageFails /\ Settle("failed", Tail(ops))
             /\ UNCHANGED <<inbox, batch, exec, base, conv, staged, round, saving, stored, ghost,
                            turns, fails, crashes>>
    <2>1. ops' \in Seq(Op) /\ pc = "settle" /\ pc' = "settle" /\ outcome' = "failed" /\ faults' \in Nat
      BY <1>4, TailIsOps, QueuedOps, RunningAt DEF UsageFails, Running, Settle, Fails, TypeOK
    <2>2. UNCHANGED <<queue, status, waiting, batch, exec, base, conv, staged, round, saving, rec, ck,
                      sent, answered, again, kept, cutStaged, late, unheard, unsaved, turns, fails,
                      crashes>>
      BY <1>4 DEF inbox, stored, ghost
    <2>3. TypeOK'
      BY <2>1, <2>2 DEF TypeOK, Pcs
    <2>4. Held'
      BY <2>1, <2>2 DEF Held
    <2> QED
      BY <2>3, <2>4
  <1>5. CASE Crash
    <2>1. <<>> \in Seq(Msg) /\ <<>> \in Seq(Item) /\ <<>> \in Seq(Op)
      BY EmptySeq
    <2>2. /\ sent' \in SUBSET Msg /\ late' \in BOOLEAN /\ crashes' \in Nat
          /\ UNCHANGED <<rec, ck, answered, again, kept, cutStaged, unheard, unsaved, turns, fails, faults>>
      BY <1>5 DEF Crash, stored, TypeOK
    <2>3. /\ queue' = <<>> /\ status' = "idle" /\ waiting' = FALSE
          /\ pc' = "rest" /\ batch' = <<>> /\ exec' = None
          /\ base' = <<>> /\ conv' = <<>> /\ staged' = <<>>
          /\ round' = 0 /\ saving' = FALSE /\ outcome' = "done" /\ ops' = <<>>
      BY <1>5 DEF Crash
    <2>4. TypeOK'
      BY <2>1, <2>2, <2>3 DEF TypeOK, Pcs, Statuses
    <2>5. Held'
      BY <2>3 DEF Held
    <2> QED
      BY <2>4, <2>5
  <1> QED
    BY <1>2, <1>3, <1>4, <1>5 DEF UsageFails

LEMMA TypeInit ==
  Init => TypeInv
  <1> SUFFICES ASSUME Init PROVE TypeInv
    OBVIOUS
  <1>1. <<>> \in Seq(Msg) /\ <<>> \in Seq(Item) /\ <<>> \in Seq(Op)
    BY EmptySeq
  <1>2. rec \in Record /\ ck \in [Exec -> Checkpoint] /\ turns \in 0 .. MaxTurns
    BY <1>1, SessionAssumption DEF Init, Record, Checkpoint, NoCheckpoint
  <1>3. TypeOK
    BY <1>1, <1>2 DEF Init, TypeOK, Statuses, Pcs
  <1>4. OneOp
    BY DEF Init, OneOp, Only
  <1>5. Held
    BY DEF Init, Held
  <1> QED
    BY <1>3, <1>4, <1>5 DEF TypeInv

LEMMA TypeStep ==
  TypeInv /\ [Next]_vars => TypeInv'
  <1> SUFFICES ASSUME TypeInv, [Next]_vars PROVE TypeInv'
    OBVIOUS
  <1>1. OneOp'
    BY OneOpStep DEF TypeInv
  <1>2. TypeOK' /\ Held'
    <2>1. CASE UNCHANGED vars
      BY <2>1 DEF TypeInv, TypeOK, Held, vars, inbox, turn, stored, ghost, bounds
    <2> QED
      BY <2>1, HostTypes, PreparingTypes, RecordOpTypes, RunTypes, EndingTypes, OverTypes
      DEF Next, TurnStep
  <1> QED
    BY <1>1, <1>2 DEF TypeInv

(* Every variable keeps its type, whatever is sent, fails or crashes. *)
THEOREM TypeCorrect ==
  Safety => []TypeOK
  <1>1. TypeInv => TypeOK
    BY DEF TypeInv
  <1> QED
    BY <1>1, TypeInit, TypeStep, PTL DEF Safety

-----------------------------------------------------------------------------
(* The invariant.  It holds until a save that was to take a turn off the record
   fails. *)

(* Executions are numbered as they are made, and one not made left nothing. *)
Numbered ==
  /\ turns \in 0 .. MaxTurns
  /\ exec # None => exec <= turns
  /\ rec.turn # None => rec.turn.exec <= turns
  /\ \A e \in Exec : e > turns => ck[e] = NoCheckpoint

(* What a restore of an execution finds is nothing, or it begins with the
   stored history. *)
Sound(e) ==
  /\ ck[e].snap = None => ck[e].rounds = 0 /\ ~ck[e].final
  /\ ck[e].snap # None => Extends(rec.items, ck[e].snap)

Named == rec.turn # None => Sound(rec.turn.exec)
Preparing == pc \in {"steers", "begin"} => exec # None /\ Sound(exec)

(* A turn that runs has its first snapshot, or is still to save it. *)
InRun == {"ready", "streaming", "recordRound", "checkpoint", "ending"}
Backed == pc \in InRun /\ ~saving => ck[exec].snap # None

(* A turn is on an execution while it runs, and its log began with the
   stored history; once it has ended it is off the record. *)
Ended == {"clear", "clearLedger"}
Grounded ==
  /\ exec = None <=> pc \in {"rest", "create", "abandon"}
  /\ saving => exec # None /\ pc \notin {"steers", "begin"}
  /\ pc \in Ended => rec.turn = None
  /\ exec # None =>
       \/ Extends(rec.items, base) /\ Extends(rec.items, conv)
       \/ rec.turn = None /\ pc \in Ended \cup {"settle"}

Sure == Numbered /\ Named /\ Preparing /\ Backed /\ Grounded

HistoryInv == OneOp /\ (unsaved \/ Sure)

(* What the runner does between two calls of storage. *)
LEMMA QuietStep ==
  ASSUME TypeOK, Sure, UNCHANGED <<exec, base, conv, saving, rec, ck, turns>>,
         \/ pc' = pc
         \/ pc = "rest" /\ pc' = "create"
         \/ pc \in InRun \cup {"run"} /\ pc' \in {"recordRound", "keep", "settle"} /\ (pc' = "recordRound" => pc \in InRun)
         \/ pc \in {"keep", "clear", "clearLedger", "settle"} /\ pc' = "settle"
  PROVE  Sure'
  <1>1. Numbered' /\ Named'
    BY DEF Sure, Numbered, Named, Sound
  <1>2. Preparing' /\ Backed'
    BY DEF Sure, Preparing, Backed, InRun, Sound
  <1>3. Grounded'
    BY DEF Sure, Grounded, InRun, Ended
  <1> QED
    BY <1>1, <1>2, <1>3 DEF Sure

(* A turn is over, or its process dies. *)
LEMMA OverStep ==
  ASSUME TypeOK, Sure, UNCHANGED <<ck, turns>>, rec' = rec \/ rec' = NoTurn(rec),
         exec' = None, saving' = FALSE, pc' \in {"rest", "create"}
  PROVE  Sure' /\ rec'.items = rec.items
  <1>1. rec'.items = rec.items /\ (rec'.turn # None => rec'.turn = rec.turn)
    BY DEF NoTurn, TypeOK, Record
  <1>2. Numbered' /\ Named'
    BY <1>1 DEF Sure, Numbered, Named, Sound
  <1>3. Preparing' /\ Backed' /\ Grounded'
    BY DEF Preparing, Backed, Grounded, InRun, Ended
  <1> QED
    BY <1>1, <1>2, <1>3 DEF Sure

(* Only the snapshot and the records of the turn's own execution change. *)
LEMMA CheckpointStep ==
  ASSUME TypeOK, Sure, UNCHANGED <<exec, base, turns, rec>>, exec # None, pc \notin {"steers", "begin"},
         pc' \notin {"steers", "begin", "rest", "create", "abandon"},
         pc \in Ended \cup {"settle"} => pc' \in Ended \cup {"settle"},
         pc' \in Ended => pc \in Ended,
         conv' \in Seq(Item), Extends(conv, conv'),
         saving' => saving,
         NEW c \in Checkpoint, ck' = [ck EXCEPT ![exec] = c],
         c.snap = None => rec.turn = None \/ c = ck[exec] \/ (c.rounds = 0 /\ ~c.final),
         c.snap # None => c.snap \in {ck[exec].snap, base, conv},
         pc' \in InRun /\ ~saving' => c.snap # None
  PROVE  Sure'
  <1>0. /\ exec \in Exec /\ ck'[exec] = c /\ \A e \in Exec : e # exec => ck'[e] = ck[e]
    BY Typed DEF TypeOK
  <1>1. Numbered'
    BY <1>0, Typed DEF Sure, Numbered
  <1>2. Named'
    <2> SUFFICES ASSUME rec.turn # None, rec.turn.exec = exec PROVE Sound(exec)'
      BY <1>0, Typed DEF Sure, Named, Sound
    <2>1. Sound(exec) /\ Extends(rec.items, base) /\ Extends(rec.items, conv)
      BY DEF Sure, Named, Grounded
    <2> QED
      BY <1>0, <2>1 DEF Sound
  <1>3. Preparing' /\ Backed'
    BY <1>0 DEF Preparing, Backed, Ended
  <1>4. Grounded'
    <2>1. ASSUME Extends(rec.items, conv) PROVE Extends(rec.items, conv')
      BY <2>1, ExtendsOn, Typed
    <2> QED
      BY <2>1 DEF Sure, Grounded, Ended
  <1> QED
    BY <1>1, <1>2, <1>3, <1>4 DEF Sure

LEMMA Updated ==
  ASSUME TypeOK, exec \in Exec
  PROVE  /\ \A x \in Seq(Item) \cup {None} :
              /\ [ck EXCEPT ![exec].snap = x] = [ck EXCEPT ![exec] = [ck[exec] EXCEPT !.snap = x]]
              /\ [ck[exec] EXCEPT !.snap = x] \in Checkpoint
              /\ [ck[exec] EXCEPT !.snap = x].snap = x
              /\ [ck[exec] EXCEPT !.snap = x].rounds = ck[exec].rounds
              /\ [ck[exec] EXCEPT !.snap = x].final = ck[exec].final
         /\ ck[exec] \in Checkpoint /\ ck = [ck EXCEPT ![exec] = ck[exec]]
         /\ NoCheckpoint \in Checkpoint
         /\ \A x \in Seq(Item) : [NoCheckpoint EXCEPT !.snap = x] \in Checkpoint
  <1>1. ck \in [Exec -> Checkpoint] /\ ck[exec] \in Checkpoint
    BY DEF TypeOK
  <1>2. /\ NoCheckpoint \in Checkpoint
        /\ \A x \in Seq(Item) : [NoCheckpoint EXCEPT !.snap = x] \in Checkpoint
    BY EmptySeq DEF NoCheckpoint, Checkpoint
  <1>3. ASSUME NEW x \in Seq(Item) \cup {None}
        PROVE  /\ [ck EXCEPT ![exec].snap = x] = [ck EXCEPT ![exec] = [ck[exec] EXCEPT !.snap = x]]
               /\ [ck[exec] EXCEPT !.snap = x] \in Checkpoint
               /\ [ck[exec] EXCEPT !.snap = x].snap = x
               /\ [ck[exec] EXCEPT !.snap = x].rounds = ck[exec].rounds
               /\ [ck[exec] EXCEPT !.snap = x].final = ck[exec].final
    BY <1>1 DEF Checkpoint
  <1> QED
    BY <1>1, <1>2, <1>3

(* A sequence with one more element begins with what it was. *)
LEMMA AppendExtends ==
  ASSUME NEW S, NEW l \in Seq(S), NEW x, Append(l, x) \in Seq(S)
  PROVE  Extends(l, Append(l, x))
  <1>1. Len(l) \in Nat /\ Len(Append(l, x)) = Len(l) + 1
        /\ \A i \in 1 .. Len(l) : Append(l, x)[i] = l[i]
    BY LenProperties
  <1>2. Len(l) <= Len(Append(l, x))
    BY <1>1
  <1> QED
    BY <1>1, <1>2, ExtendsIff

(* A round or an answer is recorded behind the snapshot there is. *)
LEMMA Recorded ==
  ASSUME TypeOK, TypeOK', exec \in Exec, UNCHANGED exec, RecordRound \/ Answer
  PROVE  \E c \in Checkpoint : ck' = [ck EXCEPT ![exec] = c] /\ c.snap = ck[exec].snap
  <1>1. ck \in [Exec -> Checkpoint] /\ ck' \in [Exec -> Checkpoint]
    BY DEF TypeOK
  <1>2. \A e \in Exec : e # exec => ck'[e] = ck[e]
    BY <1>1 DEF RecordRound, Answer
  <1>3. ck'[exec].snap = ck[exec].snap
    BY <1>1 DEF RecordRound, Answer, Checkpoint
  <1>4. ck' = [ck EXCEPT ![exec] = ck'[exec]] /\ ck'[exec] \in Checkpoint
    BY <1>1, <1>2
  <1> QED
    BY <1>3, <1>4

(* The run begins, and takes the items its execution recorded. *)
LEMMA BeginRunStep ==
  ASSUME TypeOK, TypeOK', Sure, BeginRun
  PROVE  Sure' /\ UNCHANGED rec
  <1>1. /\ pc = "run" /\ pc' \in {"ready", "ending"} /\ saving'
        /\ UNCHANGED <<ck, rec, exec, base, turns>> /\ conv' = conv \o ck[exec].tail
    BY DEF BeginRun, stored, bounds
  <1>2. exec # None /\ exec \in Exec
    BY <1>1, Typed DEF Sure, Grounded
  <1>3. conv \in Seq(Item) /\ conv' \in Seq(Item) /\ ck[exec].tail \in Seq(Item)
    BY <1>2, Typed DEF TypeOK
  <1>4. Extends(conv, conv')
    BY <1>1, <1>3, ExtendsConcat
  <1>5. Extends(rec.items, base) /\ Extends(rec.items, conv)
    BY <1>1, <1>2 DEF Sure, Grounded, Ended
  <1>6. Extends(rec.items, conv')
    BY <1>3, <1>4, <1>5, ExtendsOn, Typed
  <1>7. Numbered' /\ Named'
    BY <1>1 DEF Sure, Numbered, Named, Sound
  <1>8. Preparing' /\ Backed' /\ Grounded'
    BY <1>1, <1>2, <1>5, <1>6 DEF Preparing, Backed, Grounded, InRun, Ended
  <1> QED
    BY <1>1, <1>7, <1>8 DEF Sure

LEMMA SaveBaselineStep ==
  ASSUME SnapshotFirst, TypeOK, TypeOK', Sure, SaveBaseline
  PROVE  Sure' /\ UNCHANGED rec
  <1> DEFINE c == [ck[exec] EXCEPT !.snap = base]
  <1>1. /\ UNCHANGED <<pc, conv, rec, exec, base, turns>> /\ saving /\ ~saving'
        /\ ck' = [ck EXCEPT ![exec].snap = base]
    BY DEF SaveBaseline, bounds
  <1>2. exec # None /\ exec \in Exec
    BY <1>1, Typed DEF Sure, Grounded
  <1>3. conv \in Seq(Item) /\ Extends(conv, conv) /\ base \in Seq(Item) /\ base # None
    BY Typed, ExtendsItself DEF TypeOK
  <1>4. c \in Checkpoint /\ ck' = [ck EXCEPT ![exec] = c] /\ c.snap = base
    BY <1>1, <1>2, <1>3, Updated
  <1> HIDE DEF c
  <1>5. pc \notin {"steers", "begin", "rest", "create", "abandon"}
    BY <1>1, <1>2 DEF Sure, Grounded
  <1> QED
    BY <1>1, <1>2, <1>3, <1>4, <1>5, CheckpointStep DEF Sure, Grounded

LEMMA StartRoundStep ==
  ASSUME TypeOK, TypeOK', Sure, StartRound
  PROVE  Sure' /\ UNCHANGED rec
  <1> DEFINE c == ck[exec]
  <1>1. pc = "ready" /\ pc' = "streaming" /\ UNCHANGED <<saving, ck, rec, exec, base, turns>>
    BY DEF StartRound, stored, bounds
  <1>2. exec # None /\ exec \in Exec
    BY <1>1, Typed DEF Sure, Grounded
  <1>3. staged \o Offered \in Seq(Msg)
    BY ConcatProperties, SelectedMembers DEF TypeOK, Offered
  <1>4. SteerItems(staged \o Offered) \in Seq(Item)
    BY <1>3, SteersAreItems
  <1>5. conv \in Seq(Item) /\ conv' \in Seq(Item)
    BY DEF TypeOK
  <1>6. Extends(conv, conv')
    BY <1>4, <1>5, ExtendsConcat DEF StartRound
  <1>7. c \in Checkpoint /\ ck' = [ck EXCEPT ![exec] = c]
    BY <1>1, <1>2, Updated
  <1>8. pc' \in InRun /\ ~saving' => c.snap # None
    BY <1>1 DEF Sure, Backed, InRun
  <1>9. c.snap = None => c = ck[exec]
    OBVIOUS
  <1>10. c.snap # None => c.snap \in {ck[exec].snap, base, conv}
    OBVIOUS
  <1> HIDE DEF c
  <1> QED
    BY <1>1, <1>2, <1>5, <1>6, <1>7, <1>8, <1>9, <1>10, CheckpointStep DEF Ended

LEMMA RecordingStep ==
  ASSUME SnapshotFirst, TypeOK, TypeOK', Sure, RecordRound \/ Answer
  PROVE  Sure' /\ UNCHANGED rec
  <1>1. /\ pc \in {"recordRound", "streaming"} /\ pc' \in {"ready", "checkpoint"} /\ ~saving
        /\ UNCHANGED <<saving, rec, exec, base, turns>>
        /\ conv' = conv \/ conv' = Append(conv, AnswerTo(batch[1]))
    BY DEF RecordRound, Answer, MayRecord, bounds
  <1>2. exec # None /\ exec \in Exec
    BY <1>1, Typed DEF Sure, Grounded
  <1>3. ck[exec].snap # None
    BY <1>1 DEF Sure, Backed, InRun
  <1>4. PICK c \in Checkpoint : ck' = [ck EXCEPT ![exec] = c] /\ c.snap = ck[exec].snap
    BY <1>1, <1>2, Recorded
  <1>5. conv \in Seq(Item) /\ conv' \in Seq(Item)
    BY DEF TypeOK
  <1>6. Extends(conv, conv')
    BY <1>1, <1>5, AppendExtends, ExtendsItself
  <1> QED
    BY <1>1, <1>2, <1>3, <1>4, <1>5, <1>6, CheckpointStep DEF Ended

LEMMA SnapshotStep ==
  ASSUME TypeOK, TypeOK', Sure, StepCheckpoint \/ EndRun
  PROVE  Sure' /\ UNCHANGED rec
  <1>1. /\ pc \in {"checkpoint", "ending"} /\ ~saving /\ pc' \in {"ending", "keep"}
        /\ UNCHANGED <<saving, conv, rec, exec, base, turns>>
        /\ \/ UNCHANGED ck
           \/ ck' = [ck EXCEPT ![exec].snap = base]
           \/ ck' = [ck EXCEPT ![exec] = [NoCheckpoint EXCEPT !.snap = conv]]
    BY DEF StepCheckpoint, EndRun, KeepHistory, bounds
  <1>2. exec # None /\ exec \in Exec
    BY <1>1, Typed DEF Sure, Grounded
  <1>3. /\ conv \in Seq(Item) /\ conv' \in Seq(Item) /\ Extends(conv, conv') /\ conv # None
        /\ base \in Seq(Item) /\ base # None
    BY <1>1, Typed, ExtendsItself DEF TypeOK
  <1>4. ck[exec].snap # None
    BY <1>1 DEF Sure, Backed, InRun
  <1>5. \E c \in Checkpoint : /\ ck' = [ck EXCEPT ![exec] = c] /\ c.snap # None
                               /\ c.snap \in {ck[exec].snap, base, conv}
    <2>1. CASE UNCHANGED ck
      <3>1. ck[exec] \in Checkpoint /\ ck' = [ck EXCEPT ![exec] = ck[exec]]
        BY <1>2, <2>1, Updated
      <3> QED
        BY <1>4, <3>1
    <2>2. CASE ck' = [ck EXCEPT ![exec].snap = base]
      <3> DEFINE c == [ck[exec] EXCEPT !.snap = base]
      <3>1. c \in Checkpoint /\ ck' = [ck EXCEPT ![exec] = c] /\ c.snap = base
        BY <1>2, <1>3, <2>2, Updated
      <3> HIDE DEF c
      <3> QED
        BY <1>3, <3>1
    <2>3. CASE ck' = [ck EXCEPT ![exec] = [NoCheckpoint EXCEPT !.snap = conv]]
      <3> DEFINE c == [NoCheckpoint EXCEPT !.snap = conv]
      <3>1. c.snap = conv
        BY DEF NoCheckpoint
      <3>2. c \in Checkpoint
        BY <1>2, <1>3, Updated
      <3>3. ck' = [ck EXCEPT ![exec] = c]
        BY <2>3
      <3> HIDE DEF c
      <3> QED
        BY <1>3, <3>1, <3>2, <3>3
    <2> QED
      BY <1>1, <2>1, <2>2, <2>3
  <1>6. PICK c \in Checkpoint : /\ ck' = [ck EXCEPT ![exec] = c] /\ c.snap # None
                                /\ c.snap \in {ck[exec].snap, base, conv}
    BY <1>5
  <1> QED
    BY <1>1, <1>2, <1>3, <1>6, CheckpointStep DEF Ended

LEMMA ClearStep ==
  ASSUME TypeOK, TypeOK', Sure, Clear \/ ClearLedger
  PROVE  Sure' /\ UNCHANGED rec
  <1>1. /\ pc \in Ended /\ pc' \in {"clearLedger", "settle"}
        /\ UNCHANGED <<saving, conv, rec, exec, base, turns>>
        /\ \/ UNCHANGED ck
           \/ ck' = [ck EXCEPT ![exec].snap = None]
           \/ ck' = [ck EXCEPT ![exec] = NoCheckpoint]
    BY DEF Clear, ClearLedger, Settle, Ended, bounds
  <1>2. exec # None /\ exec \in Exec /\ rec.turn = None
    BY <1>1, Typed DEF Sure, Grounded, Ended
  <1>3. conv \in Seq(Item) /\ conv' \in Seq(Item) /\ Extends(conv, conv')
    BY <1>1, Typed, ExtendsItself DEF TypeOK
  <1>4. \E c \in Checkpoint : ck' = [ck EXCEPT ![exec] = c] /\ c.snap \in {ck[exec].snap, None}
    <2>1. CASE UNCHANGED ck
      <3>1. ck[exec] \in Checkpoint /\ ck' = [ck EXCEPT ![exec] = ck[exec]]
        BY <1>2, <2>1, Updated
      <3> QED
        BY <3>1
    <2>2. CASE ck' = [ck EXCEPT ![exec].snap = None]
      <3> DEFINE c == [ck[exec] EXCEPT !.snap = None]
      <3>1. c \in Checkpoint /\ ck' = [ck EXCEPT ![exec] = c] /\ c.snap = None
        BY <1>2, <2>2, Updated
      <3> HIDE DEF c
      <3> QED
        BY <3>1
    <2>3. CASE ck' = [ck EXCEPT ![exec] = NoCheckpoint]
      <3>1. NoCheckpoint.snap = None
        BY DEF NoCheckpoint
      <3>2. NoCheckpoint \in Checkpoint
        BY <1>2, Updated
      <3> QED
        BY <2>3, <3>1, <3>2
    <2> QED
      BY <1>1, <2>1, <2>2, <2>3
  <1>5. PICK c \in Checkpoint : /\ ck' = [ck EXCEPT ![exec] = c] /\ c.snap \in {ck[exec].snap, None}
    BY <1>4
  <1>6. c.snap = None => rec.turn = None
    BY <1>2
  <1>7. c.snap # None => c.snap \in {ck[exec].snap, base, conv}
    BY <1>5
  <1>8. /\ pc \notin {"steers", "begin"} /\ pc' \notin {"steers", "begin", "rest", "create", "abandon"}
        /\ pc \in Ended \cup {"settle"} /\ pc' \in Ended \cup {"settle"}
        /\ (pc' \in Ended => pc \in Ended)
        /\ pc' \notin InRun
    BY <1>1 DEF Ended, InRun
  <1> QED
    BY <1>1, <1>2, <1>3, <1>5, <1>6, <1>7, <1>8, CheckpointStep

-----------------------------------------------------------------------------
(* The operations of the record. *)

(* The history a turn is prepared on is the stored one, and more. *)
LEMMA ResumeStep ==
  ASSUME TypeOK, TypeOK', OneOp, Sure, Resume
  PROVE  Sure' /\ UNCHANGED rec
  <1>1. /\ pc \in {"create", "abandon"} /\ pc' = "steers" /\ UNCHANGED <<rec, ck, turns, saving>>
        /\ rec.turn # None /\ exec' = rec.turn.exec /\ Restorable(exec')
        /\ base' = Restored(exec') /\ conv' = Restored(exec')
    BY RunningAt DEF Resume, Prepared, stored
  <1>2. exec = None /\ ~saving /\ exec' \in Exec /\ exec' # None
    BY <1>1, Typed DEF Sure, Grounded
  <1>3. Sound(exec') /\ exec' <= turns
    BY <1>1 DEF Sure, Named, Numbered
  <1>4. ck[exec'].snap # None /\ Extends(rec.items, ck[exec'].snap)
    BY <1>1, <1>3 DEF Sound, Restorable
  <1>5. Extends(rec.items, base') /\ Extends(rec.items, conv')
    BY <1>1, <1>4 DEF Restored
  <1>6. Numbered' /\ Named'
    BY <1>1, <1>3 DEF Sure, Numbered, Named, Sound
  <1>7. Preparing' /\ Backed' /\ Grounded'
    BY <1>1, <1>2, <1>3, <1>5 DEF Preparing, Backed, Grounded, Sound, InRun, Ended
  <1> QED
    BY <1>1, <1>6, <1>7 DEF Sure

LEMMA FreshStep ==
  ASSUME TypeOK, TypeOK', OneOp, Sure, Fresh
  PROVE  Sure' /\ rec'.items = rec.items
  <1>1. /\ pc \in {"create", "abandon"} /\ pc' = "steers" /\ UNCHANGED saving
        /\ turns < MaxTurns /\ turns' = turns + 1 /\ exec' = turns + 1
        /\ rec' = (IF Abandoned /\ pc = "create" THEN NoTurn(rec) ELSE rec)
        /\ ck' = (IF Abandoned THEN [ck EXCEPT ![rec.turn.exec] = NoCheckpoint] ELSE ck)
        /\ base' = rec.items \o Inputs(batch) /\ conv' = rec.items \o Inputs(batch)
    BY RunningAt DEF Fresh, Prepared, NextExec
  <1>2. turns \in 0 .. MaxTurns /\ MaxTurns \in Nat
    BY SessionAssumption DEF Sure, Numbered
  <1>3. exec' \in Exec /\ exec' # None /\ turns' \in 0 .. MaxTurns /\ ~saving
    BY <1>1, <1>2, Typed DEF Exec, Sure, Grounded
  <1>4. Extends(rec.items, rec.items \o Inputs(batch))
    BY Typed, InputsAreItems, ExtendsConcat DEF TypeOK
  <1>5. rec'.items = rec.items /\ (rec'.turn # None => rec'.turn = rec.turn)
    BY <1>1 DEF NoTurn, TypeOK, Record
  <1>6. /\ NoCheckpoint.snap = None /\ NoCheckpoint.rounds = 0 /\ ~NoCheckpoint.final
    BY DEF NoCheckpoint
  <1>7. ck \in [Exec -> Checkpoint]
    BY DEF TypeOK
  <1>8. ASSUME NEW e \in Exec PROVE ck'[e] = ck[e] \/ ck'[e] = NoCheckpoint
    BY <1>1, <1>7
  <1>9. ASSUME NEW e \in Exec, e > turns PROVE ck'[e] = NoCheckpoint
    BY <1>8, <1>9 DEF Sure, Numbered
  <1>10. ASSUME NEW e \in Exec, Sound(e) \/ ck[e] = NoCheckpoint PROVE Sound(e)'
    BY <1>5, <1>6, <1>8, <1>10 DEF Sound
  <1>11. exec' > turns /\ turns' > turns /\ turns \in Nat
    BY <1>1, <1>2
  <1>12. Numbered'
    <2>1. \A e \in Exec : e > turns' => e > turns
      BY <1>11, <1>1, Typed
    <2>2. rec'.turn # None => rec'.turn.exec <= turns'
      <3>1. ASSUME rec'.turn # None PROVE rec'.turn.exec \in Exec /\ rec'.turn.exec <= turns
        BY <1>5, <3>1, Typed DEF Sure, Numbered
      <3> QED
        BY <1>1, <1>11, <3>1, Typed
    <2>3. exec' <= turns'
      BY <1>1, <1>11
    <2> QED
      BY <1>3, <1>9, <2>1, <2>2, <2>3 DEF Numbered
  <1>13. Named'
    BY <1>5, <1>10, Typed DEF Sure, Named
  <1>14. Sound(exec)'
    <2>1. ck'[exec'] = NoCheckpoint
      BY <1>3, <1>9, <1>11
    <2> QED
      BY <1>6, <2>1 DEF Sound
  <1>15. Preparing' /\ Backed'
    BY <1>1, <1>3, <1>14 DEF Preparing, Backed, InRun
  <1>16. Grounded'
    BY <1>1, <1>3, <1>4, <1>5 DEF Grounded, InRun, Ended
  <1> QED
    BY <1>5, <1>12, <1>13, <1>15, <1>16 DEF Sure

LEMMA BeginStep ==
  ASSUME TypeOK, TypeOK', OneOp, Sure, Requeue \/ Begin
  PROVE  Sure' /\ rec'.items = rec.items
  <1>1. /\ pc \in {"steers", "begin"} /\ pc' \in {"begin", "run"}
        /\ UNCHANGED <<exec, base, conv, saving, ck, turns>>
    BY RunningAt DEF Requeue, Begin, stored, bounds
  <1>2. exec # None /\ Sound(exec) /\ ~saving
    BY <1>1 DEF Sure, Preparing, Grounded
  <1>3. /\ rec'.items = rec.items
        /\ rec'.turn = rec.turn \/ rec'.turn.exec = exec
    <2>1. CASE rec' = rec
      BY <2>1
    <2>2. CASE rec' = [rec EXCEPT !.turn = [exec |-> exec, ids |-> batch],
                                  !.steers = Without(@, Members(batch))]
      BY <2>2 DEF TypeOK, Record
    <2> QED
      BY <2>1, <2>2 DEF Requeue, Begin, Write, stored
  <1>4. Numbered' /\ Named'
    BY <1>1, <1>2, <1>3 DEF Sure, Numbered, Named, Sound
  <1>5. Preparing' /\ Backed'
    BY <1>1, <1>2, <1>3 DEF Preparing, Backed, Sound, InRun
  <1>6. Grounded'
    BY <1>1, <1>2, <1>3 DEF Sure, Grounded, Ended
  <1> QED
    BY <1>3, <1>4, <1>5, <1>6 DEF Sure

LEMMA KeepStep ==
  ASSUME TypeOK, TypeOK', Sure, Keep
  PROVE  Sure' /\ rec'.items = rec.items
  <1>1. UNCHANGED <<pc, exec, base, conv, saving, ck, turns>>
    BY DEF Keep, turn
  <1>2. rec'.items = rec.items /\ rec'.turn = rec.turn
    BY DEF Keep, Write, TypeOK, Record
  <1>3. Numbered' /\ Named'
    BY <1>1, <1>2 DEF Sure, Numbered, Named, Sound
  <1>4. Preparing' /\ Backed' /\ Grounded'
    BY <1>1, <1>2 DEF Sure, Preparing, Backed, Grounded, Sound
  <1> QED
    BY <1>2, <1>3, <1>4 DEF Sure

(* What a turn stores at its end begins with the history it was prepared on. *)
LEMMA EndStep ==
  ASSUME TypeOK, TypeOK', OneOp, Sure, End, ~unsaved'
  PROVE  Sure' /\ Extends(rec.items, rec'.items)
  <1>1. /\ pc = "keep" /\ pc' = "clear" /\ UNCHANGED <<exec, base, conv, saving, ck, turns>>
    BY RunningAt DEF End, bounds
  <1>2. exec # None /\ Extends(rec.items, conv)
    BY <1>1 DEF Sure, Grounded, Ended
  <1>3. UNCHANGED faults
    BY DEF End
  <1>4. ~Fails
    BY <1>3 DEF Fails, TypeOK
  <1>5. rec'.items = conv /\ rec'.turn = None
    BY <1>4 DEF End, Write
  <1>6. Numbered' /\ Named' /\ Preparing' /\ Backed'
    BY <1>1, <1>5 DEF Sure, Numbered, Named, Preparing, Backed, InRun
  <1>7. Grounded'
    BY <1>1, <1>2, <1>5 DEF Sure, Grounded, Ended
  <1> QED
    BY <1>2, <1>5, <1>6, <1>7 DEF Sure

-----------------------------------------------------------------------------

LEMMA HistoryInit ==
  Init => HistoryInv
  <1> SUFFICES ASSUME Init PROVE HistoryInv
    OBVIOUS
  <1>1. OneOp
    BY DEF Init, OneOp, Only
  <1>2. Sure
    BY SessionAssumption DEF Init, Sure, Numbered, Named, Preparing, Backed, Grounded, InRun, Ended,
                             Sound, Exec
  <1> QED
    BY <1>1, <1>2 DEF HistoryInv

LEMMA HistoryStep ==
  ASSUME SnapshotFirst, TypeOK, TypeOK', HistoryInv, [Next]_vars
  PROVE  HistoryInv' /\ (unsaved' \/ Extends(rec.items, rec'.items))
  <1>1. OneOp /\ OneOp'
    BY OneOpStep DEF HistoryInv
  <1> SUFFICES ASSUME ~unsaved' PROVE Sure' /\ Extends(rec.items, rec'.items)
    BY <1>1 DEF HistoryInv
  <1>2. ~unsaved
    BY DEF Next, TurnStep, Send, Abort, Await, Resume, Abandon, Fresh, Prepared, Requeue, Begin, Keep,
           BeginRun, SaveBaseline, StartRound, StageSteers, ToolRound, RecordRound, Answer,
           StepCheckpoint, EndRun, Cut, End, Clear, ClearLedger, UsageSettles, UsageFails,
           PrepareFails, TurnFails, EndThrows, Crash, EndTurn, TellWaiters, ghost, vars
  <1>3. Sure
    BY <1>2 DEF HistoryInv
  <1>4. Extends(rec.items, rec.items)
    BY Typed, ExtendsItself
  <1>5. ASSUME NEW m \in Msg, Send(m) PROVE Sure' /\ Extends(rec.items, rec'.items)
    BY <1>3, <1>4, <1>5, QuietStep DEF Send, StartTurn, stored, bounds
  <1>6. CASE Resume \/ Fresh
    BY <1>1, <1>3, <1>4, <1>6, ResumeStep, FreshStep
  <1>7. CASE Requeue \/ Begin \/ Keep
    BY <1>1, <1>3, <1>4, <1>7, BeginStep, KeepStep
  <1>8. CASE Abandon
    BY <1>8 DEF Abandon
  <1>9. CASE \/ BeginRun \/ SaveBaseline \/ StartRound \/ RecordRound \/ Answer \/ StepCheckpoint
             \/ EndRun \/ Clear \/ ClearLedger
    BY <1>3, <1>4, <1>9, BeginRunStep, SaveBaselineStep, StartRoundStep, RecordingStep, SnapshotStep,
       ClearStep
  <1>10. CASE StageSteers \/ ToolRound \/ Cut \/ TurnFails \/ EndThrows
    <2>1. /\ UNCHANGED <<exec, base, conv, saving, rec, ck, turns>>
          /\ \/ pc' = pc
             \/ /\ pc \in InRun \cup {"run"} /\ pc' \in {"recordRound", "keep", "settle"}
                /\ pc' = "recordRound" => pc \in InRun
             \/ pc = "keep" /\ pc' = "settle"
      BY <1>1, <1>10, RunningAt DEF StageSteers, ToolRound, Cut, TurnFails, EndThrows, KeepHistory,
                                   Settle, stored, bounds, InRun
    <2> QED
      BY <1>3, <1>4, <2>1, QuietStep
  <1>11. CASE End
    BY <1>1, <1>3, <1>11, EndStep
  <1>12. CASE UsageSettles \/ UsageFails \/ PrepareFails \/ Crash
    <2>1. CASE UsageFails /\ outcome = "done"
      <3>1. UNCHANGED <<exec, base, conv, saving, rec, ck, turns>> /\ pc = "settle" /\ pc' = "settle"
        BY <1>1, <2>1, RunningAt DEF UsageFails, Settle, stored
      <3> QED
        BY <1>3, <1>4, <3>1, QuietStep
    <2>2. CASE ~(UsageFails /\ outcome = "done")
      <3>1. /\ UNCHANGED <<ck, turns>> /\ exec' = None /\ saving' = FALSE /\ pc' \in {"rest", "create"}
            /\ rec' = rec \/ rec' = NoTurn(rec)
        BY <1>12, <2>2 DEF UsageSettles, UsageFails, PrepareFails, Crash, EndTurn, StartTurn, stored
      <3> QED
        BY <1>3, <1>4, <3>1, OverStep
    <2> QED
      BY <2>1, <2>2
  <1>13. CASE Abort \/ Await \/ UNCHANGED vars
    <2>1. UNCHANGED <<exec, base, conv, saving, rec, ck, turns, pc>>
      BY <1>13 DEF Abort, Await, vars, turn, stored, bounds
    <2> QED
      BY <1>3, <1>4, <2>1, QuietStep
  <1> QED
    BY <1>5, <1>6, <1>7, <1>8, <1>9, <1>10, <1>11, <1>12, <1>13 DEF Next, TurnStep

(* Where a turn's first snapshot goes first, the thread's stored history is only
   ever added to, unless a save fails that was to take a turn off the record. *)
THEOREM HistoryOnlyGrows ==
  ASSUME SnapshotFirst
  PROVE  Safety => HistoryGrows
  <1>1. Init => HistoryInv
    BY HistoryInit
  <1>2. TypeOK /\ TypeOK' /\ HistoryInv /\ [Next]_vars
          => HistoryInv' /\ [unsaved' \/ Extends(rec.items, rec'.items)]_vars
    BY HistoryStep
  <1> QED
    BY <1>1, <1>2, TypeCorrect, PTL DEF Safety, HistoryGrows

-----------------------------------------------------------------------------
(* What the host is told of is stored. *)

(* A log holds the message, as an input or as a steer. *)
Holds(l, m) == \E x \in Members(l) : x.msg = m /\ x.kind # "answer"
HoldsAll(l, q) == \A m \in Members(q) : Holds(l, m)

LEMMA HoldsMore ==
  ASSUME NEW l \in Seq(Item), NEW k \in Seq(Item), Extends(l, k)
  PROVE  /\ \A m : Holds(l, m) => Holds(k, m)
         /\ \A q : HoldsAll(l, q) => HoldsAll(k, q)
  <1>1. Len(l) \in Nat /\ Len(k) \in Nat /\ Len(l) <= Len(k) /\ \A i \in 1 .. Len(l) : k[i] = l[i]
    BY ExtendsIff, LenProperties
  <1>2. Members(l) = {l[i] : i \in 1 .. Len(l)} /\ Members(k) = {k[i] : i \in 1 .. Len(k)}
    BY MembersAre
  <1>3. \A i \in 1 .. Len(l) : i \in 1 .. Len(k)
    BY <1>1
  <1>4. Members(l) \subseteq Members(k)
    BY <1>1, <1>2, <1>3
  <1>5. \A m : Holds(l, m) => Holds(k, m)
    BY <1>4 DEF Holds
  <1> QED
    BY <1>5 DEF HoldsAll

LEMMA HoldsInputs ==
  ASSUME NEW l \in Seq(Item), NEW q \in Seq(Msg)
  PROVE  HoldsAll(l \o Inputs(q), q)
  <1>1. Inputs(q) \in Seq(Item) /\ Members(Inputs(q)) = {Input(m) : m \in Members(q)}
    BY InputsAreItems
  <1>2. Members(l \o Inputs(q)) = Members(l) \cup Members(Inputs(q))
    BY <1>1, ConcatMembers
  <1>3. \A m : Input(m).msg = m /\ Input(m).kind # "answer"
    BY DEF Input
  <1> QED
    BY <1>1, <1>2, <1>3 DEF HoldsAll, Holds

LEMMA HoldsSteers ==
  ASSUME NEW l \in Seq(Item), NEW q \in Seq(Msg)
  PROVE  HoldsAll(l \o SteerItems(q), q)
  <1>1. SteerItems(q) \in Seq(Item) /\ Members(SteerItems(q)) = {Steered(m) : m \in Members(q)}
    BY SteersAreItems
  <1>2. Members(l \o SteerItems(q)) = Members(l) \cup Members(SteerItems(q))
    BY <1>1, ConcatMembers
  <1>3. \A m : Steered(m).msg = m /\ Steered(m).kind # "answer"
    BY DEF Steered
  <1> QED
    BY <1>1, <1>2, <1>3 DEF HoldsAll, Holds

(* The log of a turn, and the snapshot a restore would begin it with, hold the
   messages it delivers. *)
Delivering == exec # None => HoldsAll(base, batch) /\ HoldsAll(conv, batch)
OnRecord ==
  rec.turn # None /\ ck[rec.turn.exec].snap # None => HoldsAll(ck[rec.turn.exec].snap, rec.turn.ids)
Resumed == pc \in {"steers", "begin"} /\ ck[exec].snap # None => HoldsAll(ck[exec].snap, batch)
SameTurn == exec # None /\ rec.turn # None /\ rec.turn.exec = exec => rec.turn.ids = batch

(* A turn that may still be reported answered or interrupted has stored its log. *)
Reportable == pc \in Ended \/ (pc = "settle" /\ outcome # "failed")
Reporting == Reportable => rec.items = conv

AnsweredIn == \A m \in answered : Holds(rec.items, m)

Told == Delivering /\ OnRecord /\ Resumed /\ SameTurn /\ Reporting /\ AnsweredIn

(* The steps that keep what is logged and stored. *)
LEMMA ToldQuiet ==
  ASSUME TypeOK, Held, Told, UNCHANGED <<exec, base, conv, ck, answered>>,
         rec'.items = rec.items, rec'.turn = rec.turn,
         batch' = batch \/ exec = None,
         pc' \in {"steers", "begin"} => pc \in {"steers", "begin"},
         Reportable' => Reportable
  PROVE  Told'
  <1>1. Delivering' /\ OnRecord' /\ SameTurn'
    BY DEF Told, Delivering, OnRecord, SameTurn
  <1>2. Resumed'
    BY DEF Told, Resumed, Held
  <1>3. Reporting' /\ AnsweredIn'
    BY DEF Told, Reporting, AnsweredIn
  <1> QED
    BY <1>1, <1>2, <1>3 DEF Told

(* The turn's log grows, and its snapshot is taken or dropped. *)
LEMMA ToldRun ==
  ASSUME TypeOK, TypeOK', Told, UNCHANGED <<exec, base, batch, rec, answered>>, exec # None,
         Extends(conv, conv'),
         \A e \in Exec : e # exec => ck'[e].snap = ck[e].snap,
         ck'[exec].snap \in {ck[exec].snap, base, conv, None},
         pc \notin {"steers", "begin"}, pc' \notin {"steers", "begin"},
         Reportable' => Reportable /\ conv' = conv
  PROVE  Told'
  <1>0. /\ conv \in Seq(Item) /\ conv' \in Seq(Item)
        /\ rec.turn # None => rec.turn.exec \in Exec
    BY Typed DEF TypeOK
  <1>1. HoldsAll(base, batch) /\ HoldsAll(conv, batch)
    BY DEF Told, Delivering
  <1>2. Delivering'
    BY <1>0, <1>1, HoldsMore DEF Delivering, HoldsAll
  <1>3. OnRecord'
    <2> SUFFICES ASSUME rec.turn # None, ck'[rec.turn.exec].snap # None
                 PROVE  HoldsAll(ck'[rec.turn.exec].snap, rec.turn.ids)
      BY DEF OnRecord, HoldsAll
    <2>1. CASE rec.turn.exec # exec
      BY <1>0, <2>1 DEF Told, OnRecord
    <2>2. CASE rec.turn.exec = exec
      <3>1. rec.turn.ids = batch
        BY <2>2 DEF Told, SameTurn
      <3>2. CASE ck'[exec].snap \in {base, conv}
        BY <1>1, <2>2, <3>1, <3>2
      <3>3. CASE ck'[exec].snap = ck[exec].snap
        BY <2>2, <3>3 DEF Told, OnRecord
      <3> QED
        BY <2>2, <3>2, <3>3
    <2> QED
      BY <2>1, <2>2
  <1>4. Resumed' /\ SameTurn'
    BY DEF Told, Resumed, SameTurn
  <1>5. Reporting' /\ AnsweredIn'
    BY DEF Told, Reporting, AnsweredIn
  <1> QED
    BY <1>2, <1>3, <1>4, <1>5 DEF Told

LEMMA ToldInRun ==
  ASSUME TypeOK, TypeOK', Held, Sure, Told,
         BeginRun \/ SaveBaseline \/ StartRound \/ RecordRound \/ Answer \/ StepCheckpoint \/ EndRun
         \/ Clear \/ ClearLedger
  PROVE  Told'
  <1>1. UNCHANGED <<exec, base, batch, rec, answered>>
    BY DEF BeginRun, SaveBaseline, StartRound, RecordRound, Answer, StepCheckpoint, EndRun, Clear,
           ClearLedger, stored, ghost
  <1>2. exec # None /\ exec \in Exec /\ pc \notin {"steers", "begin"}
    <2>1. CASE SaveBaseline
      BY <2>1, Typed DEF SaveBaseline, Sure, Grounded
    <2>2. CASE ~SaveBaseline
      BY <2>2, Typed DEF Held, BeginRun, StartRound, RecordRound, Answer, StepCheckpoint, EndRun,
                         Clear, ClearLedger
    <2> QED
      BY <2>1, <2>2
  <1>3. Extends(conv, conv')
    <2>1. conv \in Seq(Item) /\ conv' \in Seq(Item)
      BY DEF TypeOK
    <2>2. CASE BeginRun
      <3>1. conv' = conv \o ck[exec].tail /\ ck[exec].tail \in Seq(Item)
        BY <1>2, <2>2, Typed DEF BeginRun
      <3> QED
        BY <2>1, <3>1, ExtendsConcat
    <2>3. CASE StartRound
      <3>1. staged \o Offered \in Seq(Msg)
        BY ConcatProperties, SelectedMembers DEF TypeOK, Offered
      <3>2. SteerItems(staged \o Offered) \in Seq(Item)
        BY <3>1, SteersAreItems
      <3> QED
        BY <2>1, <2>3, <3>2, ExtendsConcat DEF StartRound
    <2>4. CASE Answer
      BY <2>1, <2>4, AppendExtends DEF Answer
    <2>5. CASE SaveBaseline \/ RecordRound \/ StepCheckpoint \/ EndRun \/ Clear \/ ClearLedger
      <3>1. conv' = conv
        BY <2>5 DEF SaveBaseline, RecordRound, StepCheckpoint, EndRun, Clear, ClearLedger
      <3> QED
        BY <2>1, <3>1, ExtendsItself
    <2> QED
      BY <2>2, <2>3, <2>4, <2>5
  <1>4. /\ \A e \in Exec : e # exec => ck'[e].snap = ck[e].snap
        /\ ck'[exec].snap \in {ck[exec].snap, base, conv, None}
    <2>1. ck \in [Exec -> Checkpoint] /\ NoCheckpoint.snap = None
          /\ [NoCheckpoint EXCEPT !.snap = conv].snap = conv
      BY DEF TypeOK, NoCheckpoint
    <2>2. CASE RecordRound \/ Answer
      <3>1. PICK c \in Checkpoint : ck' = [ck EXCEPT ![exec] = c] /\ c.snap = ck[exec].snap
        BY <1>1, <1>2, <2>2, Recorded
      <3> QED
        BY <1>2, <2>1, <3>1
    <2>3. CASE SaveBaseline \/ StepCheckpoint
      <3>1. ck' = ck \/ ck' = [ck EXCEPT ![exec].snap = base]
        BY <2>3 DEF SaveBaseline, StepCheckpoint
      <3> QED
        BY <1>2, <2>1, <3>1 DEF Checkpoint
    <2>4. CASE EndRun
      <3>1. ck' = ck \/ ck' = [ck EXCEPT ![exec] = [NoCheckpoint EXCEPT !.snap = conv]]
        BY <2>4 DEF EndRun
      <3> QED
        BY <1>2, <2>1, <3>1
    <2>5. CASE Clear \/ ClearLedger
      <3>1. \/ ck' = ck \/ ck' = [ck EXCEPT ![exec].snap = None]
            \/ ck' = [ck EXCEPT ![exec] = NoCheckpoint]
        BY <2>5 DEF Clear, ClearLedger
      <3> QED
        BY <1>2, <2>1, <3>1 DEF Checkpoint
    <2>6. CASE BeginRun \/ StartRound
      BY <2>6 DEF BeginRun, StartRound, stored
    <2> QED
      BY <2>2, <2>3, <2>4, <2>5, <2>6
  <1>5. pc' \notin {"steers", "begin"} /\ (Reportable' => Reportable /\ conv' = conv)
    BY <1>2 DEF BeginRun, SaveBaseline, StartRound, RecordRound, Answer, StepCheckpoint, EndRun, Clear,
                ClearLedger, KeepHistory, Settle, Reportable, Ended
  <1> QED
    BY <1>1, <1>2, <1>3, <1>4, <1>5, ToldRun

(* A turn that is prepared, and then put on record, is served by what it begins with. *)
LEMMA ToldResume ==
  ASSUME TypeOK, TypeOK', OneOp, Held, Sure, Told, Resume
  PROVE  Told'
  <1>1. /\ pc' = "steers" /\ UNCHANGED <<rec, ck, answered, batch, outcome>>
        /\ rec.turn # None /\ exec' = rec.turn.exec /\ rec.turn.ids = batch /\ Restorable(exec')
        /\ base' = Restored(exec') /\ conv' = Restored(exec')
    BY DEF Resume, Prepared, stored, ghost
  <1>2. Sound(exec')
    BY <1>1 DEF Sure, Named
  <1>3. ck[exec'].snap # None
    BY <1>1, <1>2 DEF Sound, Restorable
  <1>4. HoldsAll(ck[exec'].snap, batch)
    BY <1>1, <1>3 DEF Told, OnRecord
  <1>5. Delivering' /\ Resumed' /\ SameTurn'
    BY <1>1, <1>3, <1>4 DEF Delivering, Resumed, SameTurn, Restored, HoldsAll
  <1>6. OnRecord' /\ AnsweredIn' /\ Reporting'
    BY <1>1 DEF Told, OnRecord, AnsweredIn, Reporting, Reportable, Ended
  <1> QED
    BY <1>5, <1>6 DEF Told

LEMMA ToldFresh ==
  ASSUME TypeOK, TypeOK', OneOp, Held, Sure, Told, Fresh
  PROVE  Told'
  <1>1. /\ pc' = "steers" /\ turns < MaxTurns /\ exec' = turns + 1 /\ UNCHANGED <<answered, batch>>
        /\ rec' = (IF Abandoned /\ pc = "create" THEN NoTurn(rec) ELSE rec)
        /\ ck' = (IF Abandoned THEN [ck EXCEPT ![rec.turn.exec] = NoCheckpoint] ELSE ck)
        /\ base' = rec.items \o Inputs(batch) /\ conv' = rec.items \o Inputs(batch)
    BY DEF Fresh, Prepared, NextExec, ghost
  <1>2. HoldsAll(rec.items \o Inputs(batch), batch)
    BY Typed, HoldsInputs DEF TypeOK
  <1>3. rec'.items = rec.items /\ (rec'.turn # None => rec'.turn = rec.turn)
    BY <1>1 DEF NoTurn, TypeOK, Record
  <1>4. ck \in [Exec -> Checkpoint] /\ NoCheckpoint.snap = None
    BY DEF TypeOK, NoCheckpoint
  <1>5. \A e \in Exec : ck'[e] = ck[e] \/ ck'[e] = NoCheckpoint
    BY <1>1, <1>4
  <1>6. turns \in Nat /\ exec' \in Exec
    <2>1. turns \in 0 .. MaxTurns /\ MaxTurns \in Nat
      BY SessionAssumption DEF TypeOK
    <2> QED
      BY <1>1, <2>1 DEF Exec
  <1>7. ck'[exec'] = NoCheckpoint
    BY <1>1, <1>5, <1>6 DEF Sure, Numbered
  <1>8. Delivering' /\ Resumed'
    BY <1>1, <1>2, <1>4, <1>7 DEF Delivering, Resumed, HoldsAll
  <1>9. OnRecord'
    BY <1>3, <1>4, <1>5, Typed DEF Told, OnRecord
  <1>10. SameTurn'
    <2>1. rec'.turn # None => rec'.turn.exec \in Exec /\ rec'.turn.exec <= turns
      BY <1>3, Typed DEF Sure, Numbered
    <2>2. rec'.turn # None => rec'.turn.exec # exec'
      BY <1>1, <1>6, <2>1, Typed
    <2> QED
      BY <2>2 DEF SameTurn
  <1>11. AnsweredIn' /\ Reporting'
    BY <1>1, <1>3 DEF Told, AnsweredIn, Reporting, Reportable, Ended
  <1> QED
    BY <1>8, <1>9, <1>10, <1>11 DEF Told

LEMMA ToldBegin ==
  ASSUME TypeOK, TypeOK', OneOp, Held, Sure, Told, Begin
  PROVE  Told'
  <1>1. pc = "begin" /\ pc' = "run" /\ UNCHANGED <<exec, base, conv, ck, batch, answered>>
    BY RunningAt DEF Begin
  <1>2. CASE rec' = rec
    BY <1>1, <1>2, ToldQuiet DEF Reportable, Ended
  <1>3. CASE rec' # rec
    <2>1. rec' = [rec EXCEPT !.turn = [exec |-> exec, ids |-> batch],
                             !.steers = Without(@, Members(batch))]
      BY <1>3 DEF Begin, Write
    <2>2. rec'.items = rec.items /\ rec'.turn.exec = exec /\ rec'.turn.ids = batch
      BY <2>1 DEF TypeOK, Record
    <2>3. Delivering' /\ OnRecord' /\ Resumed' /\ SameTurn'
      BY <1>1, <2>2 DEF Told, Delivering, OnRecord, Resumed, SameTurn, HoldsAll
    <2>4. AnsweredIn' /\ Reporting'
      BY <1>1, <2>2 DEF Told, AnsweredIn, Reporting, Reportable, Ended
    <2> QED
      BY <2>3, <2>4 DEF Told
  <1> QED
    BY <1>2, <1>3

LEMMA ToldEnd ==
  ASSUME TypeOK, TypeOK', OneOp, Held, Sure, Told, End, ~unsaved'
  PROVE  Told'
  <1>1. pc = "keep" /\ pc' = "clear" /\ UNCHANGED <<exec, base, conv, ck, batch, answered>>
    BY RunningAt DEF End
  <1>2. UNCHANGED faults
    BY DEF End
  <1>3. ~Fails
    BY <1>2 DEF Fails, TypeOK
  <1>4. rec'.items = conv /\ rec'.turn = None
    BY <1>3 DEF End, Write
  <1>5. exec # None /\ Extends(rec.items, conv)
    BY <1>1 DEF Sure, Grounded, Ended
  <1>6. AnsweredIn'
    BY <1>1, <1>4, <1>5, HoldsMore, Typed DEF Told, AnsweredIn
  <1>7. Delivering' /\ OnRecord' /\ Resumed' /\ SameTurn' /\ Reporting'
    BY <1>1, <1>4 DEF Told, Delivering, OnRecord, Resumed, SameTurn, Reporting
  <1> QED
    BY <1>6, <1>7 DEF Told

(* A turn is reported, or its process dies. *)
LEMMA ToldOver ==
  ASSUME TypeOK, TypeOK', Told, UNCHANGED ck, rec' = rec \/ rec' = NoTurn(rec),
         exec' = None, pc' \in {"rest", "create"},
         \/ answered' = answered
         \/ /\ Reportable /\ exec # None
            /\ answered' = answered \cup Members(batch)
                                    \cup {x.msg : x \in {y \in Members(conv) : y.kind = "steer"}}
  PROVE  Told'
  <1>1. rec'.items = rec.items /\ (rec'.turn # None => rec'.turn = rec.turn)
    BY DEF NoTurn, TypeOK, Record
  <1>2. Delivering' /\ OnRecord' /\ Resumed' /\ SameTurn' /\ Reporting'
    BY <1>1 DEF Told, Delivering, OnRecord, Resumed, SameTurn, Reporting, Reportable, Ended
  <1>3. AnsweredIn'
    <2>1. CASE answered' = answered
      BY <1>1, <2>1 DEF Told, AnsweredIn
    <2>2. CASE /\ Reportable /\ exec # None
               /\ answered' = answered \cup Members(batch)
                                       \cup {x.msg : x \in {y \in Members(conv) : y.kind = "steer"}}
      <3>1. rec.items = conv /\ HoldsAll(conv, batch)
        BY <2>2 DEF Told, Reporting, Delivering
      <3>2. \A x \in Members(conv) : x.kind = "steer" => Holds(conv, x.msg)
        BY DEF Holds
      <3>3. \A m \in Members(batch) : Holds(conv, m)
        BY <3>1 DEF HoldsAll
      <3>4. \A m \in answered : Holds(conv, m)
        BY <3>1 DEF Told, AnsweredIn
      <3>5. \A m \in answered' : Holds(conv, m)
        BY <2>2, <3>2, <3>3, <3>4
      <3> QED
        BY <1>1, <3>1, <3>5 DEF AnsweredIn, Holds
    <2> QED
      BY <2>1, <2>2
  <1> QED
    BY <1>2, <1>3 DEF Told

LEMMA ToldStep ==
  ASSUME TypeOK, TypeOK', OneOp, Held, Sure, Told, ~unsaved', [Next]_vars
  PROVE  Told'
  <1>1. ASSUME NEW m \in Msg, Send(m) PROVE Told'
    <2>1. /\ UNCHANGED <<exec, base, conv, ck, answered, rec>>
          /\ UNCHANGED <<pc, batch, outcome>> \/ (pc = "rest" /\ pc' = "create")
      BY <1>1 DEF Send, StartTurn, stored
    <2> QED
      BY <2>1, ToldQuiet DEF Held, Reportable, Ended
  <1>2. CASE Abort \/ Await \/ Requeue \/ StageSteers \/ ToolRound \/ Cut \/ TurnFails \/ EndThrows
             \/ UNCHANGED vars
    <2>1. /\ UNCHANGED <<exec, base, conv, ck, answered, rec, batch>>
          /\ \/ UNCHANGED <<pc, outcome>>
             \/ pc = "steers" /\ pc' = "begin"
             \/ pc' \in {"recordRound", "keep"}
             \/ pc' = "settle" /\ outcome' = "failed"
      BY <1>2, RunningAt DEF Abort, Await, Requeue, StageSteers, ToolRound, Cut, TurnFails, EndThrows,
                             KeepHistory, Settle, vars, turn, stored, ghost
    <2> QED
      BY <2>1, ToldQuiet DEF Reportable, Ended
  <1>3. CASE Keep
    <2>1. UNCHANGED <<pc, outcome, exec, base, conv, ck, answered, batch>>
      BY <1>3 DEF Keep, turn
    <2>2. rec'.items = rec.items /\ rec'.turn = rec.turn
      BY <1>3 DEF Keep, Write, TypeOK, Record
    <2> QED
      BY <2>1, <2>2, ToldQuiet DEF Reportable
  <1>4. CASE Abandon
    BY <1>4 DEF Abandon
  <1>5. CASE \/ BeginRun \/ SaveBaseline \/ StartRound \/ RecordRound \/ Answer \/ StepCheckpoint
             \/ EndRun \/ Clear \/ ClearLedger
    BY <1>5, ToldInRun
  <1>6. CASE UsageSettles
    <2>1. pc = "settle" /\ exec # None
      BY <1>6, RunningAt DEF UsageSettles, Held
    <2>2. /\ UNCHANGED <<ck, rec>> /\ exec' = None /\ pc' \in {"rest", "create"}
          /\ IF outcome # "failed"
             THEN answered' = answered \cup Members(batch)
                                       \cup {x.msg : x \in {y \in Members(conv) : y.kind = "steer"}}
             ELSE answered' = answered
      BY <1>6 DEF UsageSettles, EndTurn, StartTurn
    <2>3. CASE outcome # "failed"
      <3>1. Reportable
        BY <2>1, <2>3 DEF Reportable
      <3> QED
        BY <2>1, <2>2, <2>3, <3>1, ToldOver
    <2>4. CASE outcome = "failed"
      BY <2>2, <2>4, ToldOver
    <2> QED
      BY <2>3, <2>4
  <1>7. CASE UsageFails \/ PrepareFails \/ Crash
    <2>1. CASE UsageFails /\ outcome = "done"
      <3>1. /\ UNCHANGED <<exec, base, conv, ck, answered, rec, batch>>
            /\ pc' = "settle" /\ outcome' = "failed"
        BY <2>1 DEF UsageFails, Settle, stored, ghost
      <3> QED
        BY <3>1, ToldQuiet DEF Reportable, Ended
    <2>2. CASE ~(UsageFails /\ outcome = "done")
      <3>1. /\ UNCHANGED <<ck, answered>> /\ exec' = None /\ pc' \in {"rest", "create"}
            /\ rec' = rec \/ rec' = NoTurn(rec)
        BY <1>7, <2>2 DEF UsageFails, PrepareFails, Crash, EndTurn, StartTurn, stored
      <3> QED
        BY <3>1, ToldOver
    <2> QED
      BY <2>1, <2>2
  <1> QED
    BY <1>1, <1>2, <1>3, <1>4, <1>5, <1>6, <1>7, ToldResume, ToldFresh, ToldBegin, ToldEnd
    DEF Next, TurnStep

-----------------------------------------------------------------------------
(* A steer that is kept is not lost. *)

(* Steers to keep that are queued behind the operation the runner waits for are
   in the message queue too. *)
Behind == \A i, j \in 1 .. Len(ops) : i < j /\ ops[i].op # "keep" => ops[j].arg \subseteq Members(queue)

(* Steers are staged from a cut round to the next. *)
StagedAt ==
  staged # <<>> => pc \notin {"rest", "create", "abandon", "steers", "begin", "run", "streaming",
                              "checkpoint", "ending"}

(* Where the message of a steer may be while its turn runs: the steers on
   record, and those to be, are all there. *)
Reach == Members(queue) \cup Members(batch) \cup Members(staged) \cup {m \in Msg : Holds(conv, m)}
Reaching ==
  pc \in {"begin", "run"} \cup InRun =>
     /\ Members(rec.steers) \subseteq Reach
     /\ \A i \in 1 .. Len(ops) : ops[i].op = "keep" => ops[i].arg \subseteq Reach

(* What the end of the record is to keep of them, or the history holds. *)
Left(S) == S \cup cutStaged \cup {m \in Msg : Holds(conv, m)}
Leaving ==
  pc = "keep" =>
    \A j \in 1 .. Len(ops) : ops[j].op = "end" =>
       /\ Members(rec.steers) \subseteq Left(ops[j].arg)
       /\ \A i \in 1 .. j - 1 : ops[i].arg \subseteq Left(ops[j].arg)

KeptIn == \A s \in kept \ cutStaged : s \in Members(rec.steers) \/ Holds(rec.items, s)

LEMMA TailOps ==
  ASSUME NEW q \in Seq(Op), q # <<>>
  PROVE  /\ Len(q) \in Nat /\ Len(Tail(q)) = Len(q) - 1
         /\ \A i \in 1 .. Len(Tail(q)) : i + 1 \in 1 .. Len(q) /\ Tail(q)[i] = q[i + 1]
         /\ 1 \in 1 .. Len(q) /\ Head(q) = q[1]
  BY HeadTailProperties, LenProperties, EmptySeq

LEMMA AppendOps ==
  ASSUME NEW q \in Seq(Op), NEW x \in Op
  PROVE  /\ Len(q) \in Nat /\ Len(Append(q, x)) = Len(q) + 1
         /\ \A i \in 1 .. Len(q) : Append(q, x)[i] = q[i]
         /\ Append(q, x)[Len(q) + 1] = x
         /\ \A i \in 1 .. Len(q) + 1 : i \in 1 .. Len(q) \/ i = Len(q) + 1
  BY AppendProperties, LenProperties

LEMMA BehindOnly ==
  ASSUME NEW q \in Seq(Op), Only(q, "keep"), NEW x \in Op, ops' \in {q, Append(q, x)}
  PROVE  Behind'
  <1>1. CASE ops' = q
    BY <1>1 DEF Behind, Only
  <1>2. CASE ops' = Append(q, x)
    <2>1. ASSUME NEW i \in 1 .. Len(ops'), NEW j \in 1 .. Len(ops'), i < j, ops'[i].op # "keep"
          PROVE  FALSE
      <3>1. i \in 1 .. Len(q)
        BY <1>2, <2>1, AppendOps
      <3> QED
        BY <1>2, <2>1, <3>1, AppendOps DEF Only
    <2> QED
      BY <2>1 DEF Behind
  <1> QED
    BY <1>1, <1>2

LEMMA BehindQueued ==
  ASSUME ops \in Seq(Op), Behind, Members(queue) \subseteq Members(queue'),
         ops' = ops \/ \E m \in Members(queue') \cap Msg : ops' = Append(ops, Pending("keep", {m}))
  PROVE  Behind'
  <1>1. CASE ops' = ops
    BY <1>1 DEF Behind
  <1>2. ASSUME NEW m \in Members(queue') \cap Msg, ops' = Append(ops, Pending("keep", {m}))
        PROVE  Behind'
    <2>1. Pending("keep", {m}) \in Op /\ Pending("keep", {m}).arg = {m}
      BY PendingIsOp DEF Pending
    <2>2. ASSUME NEW i \in 1 .. Len(ops'), NEW j \in 1 .. Len(ops'), i < j, ops'[i].op # "keep"
          PROVE  ops'[j].arg \subseteq Members(queue')
      <3>1. CASE j \in 1 .. Len(ops)
        <4>1. i \in 1 .. Len(ops) /\ ops'[i] = ops[i] /\ ops'[j] = ops[j]
          BY <1>2, <2>1, <2>2, <3>1, AppendOps
        <4> QED
          BY <2>2, <3>1, <4>1 DEF Behind
      <3>2. CASE j = Len(ops) + 1
        BY <1>2, <2>1, <3>2, AppendOps
      <3> QED
        BY <1>2, <2>1, <2>2, <3>1, <3>2, AppendOps
    <2> QED
      BY <2>2 DEF Behind
  <1> QED
    BY <1>1, <1>2

LEMMA BehindTail ==
  ASSUME ops \in Seq(Op), ops # <<>>, Behind, ops' = Tail(ops), UNCHANGED queue
  PROVE  Behind'
  <1> SUFFICES ASSUME NEW i \in 1 .. Len(Tail(ops)), NEW j \in 1 .. Len(Tail(ops)), i < j,
                      Tail(ops)[i].op # "keep"
               PROVE  Tail(ops)[j].arg \subseteq Members(queue)
    BY DEF Behind
  <1>1. i + 1 \in 1 .. Len(ops) /\ j + 1 \in 1 .. Len(ops) /\ i + 1 < j + 1
    BY TailOps
  <1>2. Tail(ops)[i] = ops[i + 1] /\ Tail(ops)[j] = ops[j + 1]
    BY TailOps
  <1> QED
    BY <1>1, <1>2 DEF Behind

LEMMA BehindStep ==
  ASSUME TypeOK, TypeOK', OneOp, Behind, [Next]_vars
  PROVE  Behind'
  <1>0. ops \in Seq(Op) /\ queue \in Seq(Msg)
    BY DEF TypeOK
  <1>1. ASSUME NEW m \in Msg, Send(m) PROVE Behind'
    <2>1. CASE pc = "rest" /\ ops' = Append(ops, Pending("create", {}))
      <3>1. Only(ops, "keep")
        BY <2>1 DEF OneOp, Awaited
      <3> QED
        BY <1>0, <2>1, <3>1, BehindOnly, PendingIsOp
    <2>2. CASE UNCHANGED ops /\ queue' = <<m>> \o queue
      <3>1. <<m>> \in Seq(Msg)
        BY OneMember
      <3>2. Members(<<m>> \o queue) = Members(<<m>>) \cup Members(queue)
        BY <1>0, <3>1, ConcatMembers
      <3>3. Members(queue) \subseteq Members(queue')
        BY <2>2, <3>2
      <3> QED
        BY <1>0, <2>2, <3>3, BehindQueued
    <2>3. CASE queue' = Append(queue, m) /\ (ops' = ops \/ ops' = Append(ops, Pending("keep", {m})))
      <3>1. Members(queue) \subseteq Members(queue') /\ m \in Members(queue')
        BY <1>0, <2>3, AppendMembers
      <3> QED
        BY <1>0, <2>3, <3>1, BehindQueued
    <2> QED
      BY <1>1, <2>1, <2>2, <2>3 DEF Send
  <1>2. CASE Resume \/ Fresh \/ Requeue
    <2>1. ops # <<>> /\ Head(ops).op # "keep"
          /\ \E x \in Op : ops' = Append(Tail(ops), x)
      BY <1>2, PendingIsOp DEF Resume, Fresh, Requeue, Prepared, Running
    <2>2. Tail(ops) \in Seq(Op) /\ Only(Tail(ops), "keep")
      BY <1>0, <2>1, OnlyTail, TailIsOps DEF OneOp
    <2> QED
      BY <2>1, <2>2, BehindOnly
  <1>3. CASE Keep \/ Begin \/ End
    <2>1. ops # <<>> /\ ops' = Tail(ops) /\ UNCHANGED queue
      BY <1>3 DEF Keep, Begin, End, Running, inbox
    <2> QED
      BY <1>0, <2>1, BehindTail
  <1>4. CASE StartRound \/ StageSteers
    <2>1. Only(ops, "keep") /\ UNCHANGED ops
      BY <1>4 DEF StartRound, StageSteers, OneOp, Awaited
    <2> QED
      BY <1>0, <2>1, BehindOnly, PendingIsOp
  <1>5. CASE Abandon \/ BeginRun \/ SaveBaseline \/ ToolRound \/ RecordRound \/ Answer
             \/ StepCheckpoint \/ Abort \/ Await \/ UNCHANGED vars
    <2>1. UNCHANGED <<queue, ops>>
      BY <1>5 DEF Abandon, BeginRun, SaveBaseline, ToolRound, RecordRound, Answer, StepCheckpoint,
                  Abort, Await, inbox, vars
    <2> QED
      BY <1>0, <2>1, BehindQueued
  <1>6. CASE EndRun \/ Cut \/ TurnFails \/ Clear \/ ClearLedger
    <2>1. Only(ops, "keep")
      BY <1>6 DEF EndRun, Cut, TurnFails, Clear, ClearLedger, OneOp, Awaited
    <2>2. Members(queue) \in SUBSET Msg
      BY <1>0, MembersAre
    <2>3. ops' = ops \/ \E x \in Op : ops' = Append(ops, x)
      BY <1>6, <2>2, PendingIsOp DEF EndRun, Cut, TurnFails, Clear, ClearLedger, KeepHistory, Settle
    <2> QED
      BY <1>0, <2>1, <2>3, BehindOnly, PendingIsOp
  <1>7. CASE EndThrows \/ UsageSettles \/ UsageFails \/ PrepareFails
    <2>1. ops # <<>> /\ Head(ops).op # "keep"
      BY <1>7 DEF EndThrows, UsageSettles, UsageFails, PrepareFails, Running
    <2>2. Tail(ops) \in Seq(Op) /\ Only(Tail(ops), "keep")
      BY <1>0, <2>1, OnlyTail, TailIsOps DEF OneOp
    <2>3. ops' = Tail(ops) \/ \E x \in Op : ops' = Append(Tail(ops), x)
      BY <1>7, PendingIsOp DEF EndThrows, UsageSettles, UsageFails, PrepareFails, Settle, EndTurn
    <2> QED
      BY <2>2, <2>3, BehindOnly, PendingIsOp
  <1>8. CASE Crash
    <2>1. ops' = <<>> /\ <<>> \in Seq(Op) /\ Only(<<>>, "keep")
      BY <1>8, EmptySeq DEF Crash, Only
    <2> QED
      BY <2>1, BehindOnly, PendingIsOp
  <1> QED
    BY <1>1, <1>2, <1>3, <1>4, <1>5, <1>6, <1>7, <1>8 DEF Next, TurnStep

LEMMA StagedStep ==
  ASSUME TypeOK, TypeOK', OneOp, Held, StagedAt, [Next]_vars
  PROVE  StagedAt'
  <1>1. CASE StageSteers
    <2>1. staged = <<>> /\ Offered \in Seq(Msg)
      BY <1>1, SelectedMembers DEF StageSteers, StagedAt, TypeOK, Offered
    <2>2. Offered = <<>> => staged' = <<>>
      BY <1>1, <2>1, ConcatEmptySeq, EmptySeq DEF StageSteers
    <2>3. Offered # <<>> => pc' = "recordRound"
      BY <1>1 DEF StageSteers
    <2> QED
      BY <2>2, <2>3 DEF StagedAt
  <1>2. CASE ~StageSteers
    <2>1. staged' = staged \/ staged' = <<>>
      BY <1>2 DEF Next, TurnStep, Send, Abort, Await, Resume, Abandon, Fresh, Prepared, Requeue, Begin,
           Keep, BeginRun, SaveBaseline, StartRound, ToolRound, RecordRound, Answer, StepCheckpoint,
           EndRun, Cut, End, Clear, ClearLedger, UsageSettles, UsageFails, PrepareFails, TurnFails,
           EndThrows, Crash, EndTurn, turn, vars
    <2>2. CASE staged' = <<>>
      BY <2>2 DEF StagedAt
    <2>3. CASE staged' = staged /\ staged # <<>>
      <3>1. pc \notin {"rest", "create", "abandon", "steers", "begin", "run", "streaming",
                        "checkpoint", "ending"}
        BY <2>3 DEF StagedAt
      <3>2. ~Resume /\ ~Fresh /\ ~Requeue /\ ~Begin /\ ~Abandon
        BY <3>1, RunningAt DEF Resume, Fresh, Requeue, Begin, Abandon
      <3>3. ASSUME NEW m \in Msg, Send(m) PROVE pc' = pc
        BY <3>1, <3>3 DEF Send
      <3>4. \/ pc' = pc \/ pc' \in {"ready", "keep", "settle", "clear", "clearLedger"}
            \/ staged' = <<>>
        BY <1>2, <3>1, <3>2, <3>3 DEF Next, TurnStep, Abort, Await,
           Keep, BeginRun, SaveBaseline, StartRound, ToolRound, RecordRound, Answer, StepCheckpoint,
           EndRun, Cut, End, Clear, ClearLedger, UsageSettles, UsageFails, PrepareFails, TurnFails,
           EndThrows, Crash, EndTurn, KeepHistory, Settle, turn, vars
      <3> QED
        BY <2>3, <3>1, <3>4 DEF StagedAt
    <2> QED
      BY <2>1, <2>2, <2>3
  <1> QED
    BY <1>1, <1>2

LEMMA OfferedOrApplied ==
  ASSUME TypeOK
  PROVE  /\ Offered \in Seq(Msg) /\ staged \o Offered \in Seq(Msg)
         /\ Members(staged \o Offered) = Members(staged) \cup Members(Offered)
         /\ Without(queue, Steer) \in Seq(Msg)
         /\ Members(Without(queue, Steer)) = Members(queue) \ Steer
         /\ \A m \in Members(queue) : m \notin Steer \/ m \in Members(Offered) \/ Holds(conv, m)
  <1>1. Offered \in Seq(Msg) /\ Members(Offered) = Members(queue) \cap (Steer \ Applied)
    BY SelectedMembers DEF Offered, TypeOK
  <1>2. \A m \in Applied : Holds(conv, m)
    BY DEF Applied, Holds, Steered
  <1>3. /\ Without(queue, Steer) \in Seq(Msg)
        /\ Members(Without(queue, Steer)) = Members(queue) \ Steer
    BY WithoutMembers DEF TypeOK
  <1>4. staged \o Offered \in Seq(Msg) /\ Members(staged \o Offered) = Members(staged) \cup Members(Offered)
    BY <1>1, ConcatMembers DEF TypeOK
  <1> QED
    BY <1>1, <1>2, <1>3, <1>4

(* Nothing the turn has in reach is lost from it before the turn ends. *)
LEMMA ReachStays ==
  ASSUME TypeOK, TypeOK', Held,
         BeginRun \/ StartRound \/ StageSteers \/ Answer
  PROVE  Reach \subseteq Reach'
  <1>0. /\ conv \in Seq(Item) /\ conv' \in Seq(Item) /\ queue \in Seq(Msg) /\ staged \in Seq(Msg)
        /\ Members(queue) \subseteq Msg /\ Members(staged) \subseteq Msg
        /\ UNCHANGED batch
    BY MembersAre DEF TypeOK, BeginRun, StartRound, StageSteers, Answer
  <1>1. CASE BeginRun \/ Answer
    <2>1. UNCHANGED <<queue, staged>>
      BY <1>1 DEF BeginRun, Answer, inbox
    <2>2. Extends(conv, conv')
      <3>1. CASE BeginRun
        <4>1. conv' = conv \o ck[exec].tail /\ exec \in Exec
          BY <3>1, Typed DEF BeginRun, Held
        <4> QED
          BY <1>0, <4>1, ExtendsConcat, Typed
      <3>2. CASE Answer
        BY <1>0, <3>2, AppendExtends DEF Answer
      <3> QED
        BY <1>1, <3>1, <3>2
    <2>3. \A m : Holds(conv, m) => Holds(conv', m)
      BY <1>0, <2>2, HoldsMore
    <2> QED
      BY <1>0, <2>1, <2>3 DEF Reach
  <1>2. CASE StartRound
    <2>1. SteerItems(staged \o Offered) \in Seq(Item)
      BY OfferedOrApplied, SteersAreItems
    <2>2. conv' = conv \o SteerItems(staged \o Offered) /\ queue' = Without(queue, Steer)
      BY <1>2 DEF StartRound
    <2>3. \A m : Holds(conv, m) => Holds(conv', m)
      BY <1>0, <2>1, <2>2, ExtendsConcat, HoldsMore
    <2>4. \A m \in Members(staged) \cup Members(Offered) : Holds(conv', m)
      BY <1>0, <2>2, OfferedOrApplied, HoldsSteers DEF HoldsAll
    <2>5. ASSUME NEW m \in Members(queue) PROVE m \in Members(queue') \/ Holds(conv', m)
      BY <2>2, <2>3, <2>4, OfferedOrApplied
    <2> QED
      BY <1>0, <2>3, <2>4, <2>5 DEF Reach
  <1>3. CASE StageSteers
    <2>1. staged' = staged \o Offered /\ queue' = Without(queue, Steer) /\ UNCHANGED conv
      BY <1>3 DEF StageSteers
    <2>2. Members(staged') = Members(staged) \cup Members(Offered)
      BY <2>1, OfferedOrApplied
    <2>3. ASSUME NEW m \in Members(queue)
          PROVE  m \in Members(queue') \/ m \in Members(staged') \/ Holds(conv, m)
      BY <2>1, <2>2, OfferedOrApplied
    <2> QED
      BY <1>0, <2>1, <2>2, <2>3 DEF Reach
  <1> QED
    BY <1>1, <1>2, <1>3

LEMMA ReachingOn ==
  ASSUME Reaching, pc' \in {"begin", "run"} \cup InRun => pc \in {"begin", "run"} \cup InRun,
         Reach \subseteq Reach', Members(rec'.steers) \subseteq Members(rec.steers), UNCHANGED ops
  PROVE  Reaching'
  BY DEF Reaching

(* keepSteer adds its steer to those on record. *)
LEMMA KeepSteers ==
  ASSUME TypeOK, Keep
  PROVE  /\ ops # <<>> /\ ops' = Tail(ops)
         /\ rec'.items = rec.items
         /\ \E s \in Head(ops).arg :
              /\ Members(rec'.steers) \subseteq Members(rec.steers) \cup {s}
              /\ kept' \subseteq kept \cup {s}
              /\ Members(rec.steers) \subseteq Members(rec'.steers)
              /\ kept' # kept => s \in Members(rec'.steers)
  <1>1. ops # <<>> /\ ops' = Tail(ops)
    BY DEF Keep, Running
  <1>2. PICK s \in Head(ops).arg :
          /\ Write([rec EXCEPT !.steers = Append(Without(@, {s}), s)])
          /\ kept' = IF rec' = rec THEN kept ELSE kept \cup {s}
    BY DEF Keep
  <1>3. s \in Msg /\ rec.steers \in Seq(Msg) /\ rec \in Record
    BY <1>1, QueuedOps, RecordTypes DEF TypeOK
  <1>4. /\ Without(rec.steers, {s}) \in Seq(Msg)
        /\ Members(Append(Without(rec.steers, {s}), s)) = Members(rec.steers) \cup {s}
    BY <1>3, WithoutMembers, AppendMembers
  <1>5. \/ rec' = rec
        \/ rec'.items = rec.items /\ rec'.steers = Append(Without(rec.steers, {s}), s)
    BY <1>2, <1>3 DEF Write, Record
  <1>6. rec'.items = rec.items
    BY <1>5
  <1>7. /\ Members(rec'.steers) \subseteq Members(rec.steers) \cup {s}
        /\ Members(rec.steers) \subseteq Members(rec'.steers)
    BY <1>4, <1>5
  <1>8. kept' \subseteq kept \cup {s} /\ (kept' # kept => s \in Members(rec'.steers))
    BY <1>2, <1>4, <1>5
  <1> QED
    BY <1>1, <1>6, <1>7, <1>8

LEMMA BeginSteers ==
  ASSUME TypeOK, Begin
  PROVE  /\ rec'.items = rec.items
         /\ \/ rec' = rec /\ kept' = kept
            \/ /\ Members(rec'.steers) = Members(rec.steers) \ Members(batch)
               /\ kept' = kept \ Members(batch)
  <1>1. rec.steers \in Seq(Msg) /\ rec \in Record
    BY RecordTypes DEF TypeOK
  <1>2. \/ rec' = rec
        \/ rec' = [rec EXCEPT !.turn = [exec |-> exec, ids |-> batch],
                              !.steers = Without(@, Members(batch))]
    BY DEF Begin, Write
  <1>3. \/ rec' = rec
        \/ rec'.items = rec.items /\ rec'.steers = Without(rec.steers, Members(batch))
    BY <1>1, <1>2 DEF Record
  <1>4. Members(Without(rec.steers, Members(batch))) = Members(rec.steers) \ Members(batch)
    BY <1>1, WithoutMembers
  <1>5. kept' = IF rec' = rec THEN kept ELSE kept \ Members(batch)
    BY DEF Begin
  <1> QED
    BY <1>3, <1>4, <1>5

LEMMA ReachingStep ==
  ASSUME TypeOK, TypeOK', OneOp, Held, Behind, Reaching, [Next]_vars
  PROVE  Reaching'
  <1>0. /\ ops \in Seq(Op) /\ queue \in Seq(Msg) /\ rec.steers \in Seq(Msg)
        /\ Members(queue) \subseteq Msg
    BY RecordTypes, MembersAre DEF TypeOK
  <1>1. ASSUME NEW m \in Msg, Send(m) PROVE Reaching'
    <2>1. CASE pc' = "create"
      BY <2>1 DEF Reaching, InRun
    <2>2. CASE queue' = <<m>> \o queue /\ UNCHANGED <<pc, ops>>
      <3>1. UNCHANGED <<batch, staged, conv, rec>>
        BY <1>1, <2>2 DEF Send, StartTurn, stored
      <3>2. <<m>> \in Seq(Msg)
        BY OneMember
      <3>3. Members(queue') = Members(<<m>>) \cup Members(queue)
        BY <1>0, <2>2, <3>2, ConcatMembers
      <3>4. Reach \subseteq Reach'
        BY <3>1, <3>3 DEF Reach
      <3> QED
        BY <2>2, <3>1, <3>4, ReachingOn
    <2>3. CASE /\ queue' = Append(queue, m) /\ UNCHANGED <<pc, batch>>
               /\ ops' = ops \/ ops' = Append(ops, Pending("keep", {m}))
      <3>1. UNCHANGED <<staged, conv, rec>>
        BY <1>1 DEF Send, stored
      <3>2. Members(queue') = Members(queue) \cup {m}
        BY <1>0, <2>3, AppendMembers
      <3>3. Reach \subseteq Reach' /\ m \in Reach'
        BY <2>3, <3>1, <3>2 DEF Reach
      <3>4. CASE ops' = ops
        BY <2>3, <3>1, <3>3, <3>4, ReachingOn
      <3>5. CASE ops' = Append(ops, Pending("keep", {m}))
        <4>1. Pending("keep", {m}) \in Op /\ Pending("keep", {m}).arg = {m}
          BY PendingIsOp DEF Pending
        <4> SUFFICES ASSUME pc \in {"begin", "run"} \cup InRun
                     PROVE  /\ Members(rec.steers) \subseteq Reach'
                            /\ \A i \in 1 .. Len(ops') : ops'[i].op = "keep" => ops'[i].arg \subseteq Reach'
          BY <2>3, <3>1 DEF Reaching
        <4>2. /\ Members(rec.steers) \subseteq Reach
              /\ \A i \in 1 .. Len(ops) : ops[i].op = "keep" => ops[i].arg \subseteq Reach
          BY DEF Reaching
        <4>3. ASSUME NEW i \in 1 .. Len(ops'), ops'[i].op = "keep" PROVE ops'[i].arg \subseteq Reach'
          <5>1. CASE i \in 1 .. Len(ops)
            <6>1. ops'[i] = ops[i]
              BY <1>0, <3>5, <4>1, <5>1, AppendOps
            <6> QED
              BY <3>3, <4>2, <4>3, <5>1, <6>1
          <5>2. CASE i = Len(ops) + 1
            BY <1>0, <3>3, <3>5, <4>1, <5>2, AppendOps
          <5> QED
            BY <1>0, <3>5, <4>1, <5>1, <5>2, AppendOps
        <4> QED
          BY <3>3, <4>2, <4>3
      <3> QED
        BY <2>3, <3>4, <3>5
    <2> QED
      BY <1>1, <2>1, <2>2, <2>3 DEF Send, StartTurn
  <1>2. CASE Requeue
    <2>1. /\ ops # <<>> /\ Head(ops).op = "steers" /\ UNCHANGED <<batch, rec>>
          /\ queue' = queue \o Without(rec.steers, Members(queue) \cup Members(batch))
          /\ ops' = Append(Tail(ops), Pending("begin", {}))
      BY <1>2 DEF Requeue, Running, stored
    <2> DEFINE w == Without(rec.steers, Members(queue) \cup Members(batch))
    <2>2. w \in Seq(Msg) /\ Members(w) = Members(rec.steers) \ (Members(queue) \cup Members(batch))
      BY <1>0, WithoutMembers
    <2>3. queue' = queue \o w
      BY <2>1
    <2> HIDE DEF w
    <2>7. Members(queue') = Members(queue) \cup Members(w)
      BY <1>0, <2>2, <2>3, ConcatMembers
    <2>4. Members(rec'.steers) \subseteq Reach' /\ Members(queue) \subseteq Reach'
      BY <2>1, <2>2, <2>7 DEF Reach
    <2>5. Tail(ops) \in Seq(Op) /\ Pending("begin", {}) \in Op /\ Pending("begin", {}).arg = {}
      BY <1>0, <2>1, TailIsOps, PendingIsOp DEF Pending
    <2>6. ASSUME NEW i \in 1 .. Len(ops') PROVE ops'[i].arg \subseteq Reach'
      <3>1. CASE i \in 1 .. Len(Tail(ops))
        <4>1. ops'[i] = Tail(ops)[i]
          BY <2>1, <2>5, <3>1, AppendOps
        <4>2. Tail(ops)[i] = ops[i + 1] /\ i + 1 \in 1 .. Len(ops) /\ 1 \in 1 .. Len(ops)
              /\ ops[1].op = "steers" /\ 1 < i + 1
          BY <1>0, <2>1, <3>1, TailOps
        <4>3. ops[i + 1].arg \subseteq Members(queue)
          BY <4>2 DEF Behind
        <4> QED
          BY <2>4, <4>1, <4>2, <4>3
      <3>2. CASE i = Len(Tail(ops)) + 1
        BY <2>1, <2>5, <3>2, AppendOps
      <3> QED
        BY <2>1, <2>5, <3>1, <3>2, AppendOps
    <2> QED
      BY <2>4, <2>6 DEF Reaching
  <1>3. CASE Begin
    <2>1. /\ ops # <<>> /\ ops' = Tail(ops) /\ pc = "begin"
          /\ UNCHANGED <<queue, batch, staged, conv>>
      BY <1>3, RunningAt DEF Begin, Running, inbox
    <2>2. /\ Members(rec.steers) \subseteq Reach
          /\ \A i \in 1 .. Len(ops) : ops[i].op = "keep" => ops[i].arg \subseteq Reach
      BY <2>1 DEF Reaching
    <2>3. Members(rec'.steers) \subseteq Members(rec.steers)
      BY <1>3, BeginSteers
    <2>4. Reach' = Reach
      BY <2>1 DEF Reach
    <2>5. \A i \in 1 .. Len(Tail(ops)) : Tail(ops)[i].op = "keep" => Tail(ops)[i].arg \subseteq Reach
      BY <1>0, <2>1, <2>2, TailOps
    <2> QED
      BY <2>1, <2>2, <2>3, <2>4, <2>5 DEF Reaching
  <1>4. CASE Keep
    <2>1. UNCHANGED <<queue, batch, staged, conv, pc>>
      BY <1>4 DEF Keep, turn, inbox
    <2>2. PICK s \in Head(ops).arg : Members(rec'.steers) \subseteq Members(rec.steers) \cup {s}
      BY <1>4, KeepSteers
    <2>3. Reach' = Reach
      BY <2>1 DEF Reach
    <2>4. ops # <<>> /\ ops' = Tail(ops) /\ Head(ops).op = "keep"
      BY <1>4 DEF Keep, Running
    <2> SUFFICES ASSUME pc \in {"begin", "run"} \cup InRun
                 PROVE  /\ Members(rec'.steers) \subseteq Reach
                        /\ \A i \in 1 .. Len(Tail(ops)) : Tail(ops)[i].op = "keep"
                             => Tail(ops)[i].arg \subseteq Reach
      BY <2>1, <2>3, <2>4 DEF Reaching
    <2>5. /\ Members(rec.steers) \subseteq Reach
          /\ \A i \in 1 .. Len(ops) : ops[i].op = "keep" => ops[i].arg \subseteq Reach
      BY DEF Reaching
    <2>6. s \in Reach
      BY <1>0, <2>2, <2>4, <2>5, TailOps
    <2>7. \A i \in 1 .. Len(Tail(ops)) : Tail(ops)[i].op = "keep" => Tail(ops)[i].arg \subseteq Reach
      BY <1>0, <2>4, <2>5, TailOps
    <2> QED
      BY <2>2, <2>5, <2>6, <2>7
  <1>5. CASE BeginRun \/ StartRound \/ StageSteers \/ Answer
    <2>1. /\ UNCHANGED <<rec, ops>>
          /\ pc \in {"begin", "run"} \cup InRun
      BY <1>5 DEF BeginRun, StartRound, StageSteers, Answer, stored, InRun
    <2>2. Reach \subseteq Reach'
      BY <1>5, ReachStays
    <2> QED
      BY <2>1, <2>2, ReachingOn
  <1>6. CASE SaveBaseline \/ ToolRound \/ RecordRound \/ StepCheckpoint \/ Abort \/ Await \/ UNCHANGED vars
    <2>1. /\ UNCHANGED <<rec, ops, queue, batch, staged, conv>>
          /\ pc' = pc \/ pc \in InRun
      BY <1>6 DEF SaveBaseline, ToolRound, RecordRound, StepCheckpoint, Abort, Await, inbox, turn, stored,
                  vars, InRun
    <2>2. Reach' = Reach
      BY <2>1 DEF Reach
    <2> QED
      BY <2>1, <2>2, ReachingOn
  <1>7. CASE \/ Resume \/ Fresh \/ Abandon \/ EndRun \/ Cut \/ End \/ Clear \/ ClearLedger \/ UsageSettles
             \/ UsageFails \/ PrepareFails \/ TurnFails \/ EndThrows \/ Crash
    <2>1. pc' \in {"rest", "create", "abandon", "steers", "keep", "clear", "clearLedger", "settle"}
      BY <1>7 DEF Resume, Fresh, Prepared, Abandon, EndRun, Cut, End, Clear, ClearLedger, UsageSettles,
         UsageFails, PrepareFails, TurnFails, EndThrows, Crash, EndTurn, StartTurn, KeepHistory, Settle
    <2> QED
      BY <2>1 DEF Reaching, InRun
  <1> QED
    BY <1>1, <1>2, <1>3, <1>4, <1>5, <1>6, <1>7 DEF Next, TurnStep

(* What the turn has in reach when it ends is what its end keeps, or it is held. *)
LEMMA LeavingStep ==
  ASSUME TypeOK, TypeOK', OneOp, Held, StagedAt, Reaching, Delivering, Leaving, [Next]_vars
  PROVE  Leaving'
  <1>0. /\ ops \in Seq(Op) /\ queue \in Seq(Msg) /\ rec.steers \in Seq(Msg)
        /\ Members(queue) \in SUBSET Msg /\ Members(batch) \subseteq Msg
    BY RecordTypes, MembersAre DEF TypeOK
  <1>1. CASE EndRun \/ (Cut /\ status = "interrupted")
    <2>1. /\ pc \in {"run", "ready", "streaming", "ending"} /\ UNCHANGED <<rec, conv>>
          /\ ops' = Append(ops, Pending("end", Members(queue)))
          /\ Members(staged) \subseteq cutStaged'
      <3>1. CASE EndRun
        <4>1. staged = <<>> /\ Members(<<>>) = {}
          BY <3>1 DEF EndRun, StagedAt, Members
        <4> QED
          BY <3>1, <4>1 DEF EndRun, KeepHistory
      <3>2. CASE Cut /\ status = "interrupted"
        BY <3>2 DEF Cut, KeepHistory, stored
      <3> QED
        BY <1>1, <3>1, <3>2
    <2>2. Only(ops, "keep")
      BY <2>1 DEF OneOp, Awaited
    <2>3. Pending("end", Members(queue)) \in Op /\ Pending("end", Members(queue)).arg = Members(queue)
      BY <1>0, PendingIsOp DEF Pending
    <2>4. exec # None /\ HoldsAll(conv, batch)
      BY <2>1 DEF Held, Delivering
    <2>6. Reach \subseteq Members(queue) \cup cutStaged' \cup {m \in Msg : Holds(conv', m)}
      BY <1>0, <2>1, <2>4 DEF Reach, HoldsAll
    <2>7. /\ Members(rec.steers) \subseteq Reach
          /\ \A i \in 1 .. Len(ops) : ops[i].arg \subseteq Reach
      BY <2>1, <2>2 DEF Reaching, Only, InRun
    <2>8. ASSUME NEW j \in 1 .. Len(ops'), ops'[j].op = "end" PROVE j = Len(ops) + 1
      BY <1>0, <2>1, <2>2, <2>3, <2>8, AppendOps DEF Only
    <2>9. ASSUME NEW j \in 1 .. Len(ops'), ops'[j].op = "end"
          PROVE  /\ Members(rec'.steers) \subseteq ops'[j].arg \cup cutStaged' \cup {m \in Msg : Holds(conv', m)}
                 /\ \A i \in 1 .. j - 1 : ops'[i].arg \subseteq ops'[j].arg \cup cutStaged' \cup {m \in Msg : Holds(conv', m)}
      <3>1. j = Len(ops) + 1 /\ ops'[j].arg = Members(queue) /\ j - 1 = Len(ops)
        BY <1>0, <2>1, <2>3, <2>8, <2>9, AppendOps
      <3>2. \A i \in 1 .. Len(ops) : ops'[i] = ops[i]
        BY <1>0, <2>1, <2>3, AppendOps
      <3> QED
        BY <2>1, <2>6, <2>7, <3>1, <3>2
    <2> QED
      BY <2>9 DEF Leaving, Left
  <1>2. ASSUME NEW m \in Msg, Send(m), pc = "keep" PROVE Leaving'
    <2>1. /\ UNCHANGED <<rec, conv, cutStaged>>
          /\ ops' = ops \/ ops' = Append(ops, Pending("keep", {m}))
      BY <1>2 DEF Send, stored
    <2>2. CASE ops' = ops
      BY <1>2, <2>1, <2>2 DEF Leaving, Left
    <2>3. CASE ops' = Append(ops, Pending("keep", {m}))
      <3>1. Pending("keep", {m}) \in Op /\ Pending("keep", {m}).op = "keep"
        BY PendingIsOp DEF Pending
      <3>2. ASSUME NEW j \in 1 .. Len(ops'), ops'[j].op = "end"
            PROVE  /\ j \in 1 .. Len(ops) /\ ops'[j] = ops[j]
                   /\ \A i \in 1 .. j - 1 : ops'[i] = ops[i] /\ i \in 1 .. Len(ops)
        <4>1. j \in 1 .. Len(ops)
          BY <1>0, <2>3, <3>1, <3>2, AppendOps
        <4>2. Len(ops) \in Nat /\ \A i \in 1 .. Len(ops) : ops'[i] = ops[i]
          BY <1>0, <2>3, <3>1, AppendOps
        <4> QED
          BY <4>1, <4>2
      <3> QED
        BY <1>2, <2>1, <3>2 DEF Leaving, Left
    <2> QED
      BY <2>1, <2>2, <2>3
  <1>3. CASE Keep /\ pc = "keep"
    <2>1. UNCHANGED <<conv, cutStaged>>
      BY <1>3 DEF Keep, turn
    <2>2. PICK s \in Head(ops).arg : Members(rec'.steers) \subseteq Members(rec.steers) \cup {s}
      BY <1>3, KeepSteers
    <2>3. ops # <<>> /\ ops' = Tail(ops) /\ Head(ops).op = "keep"
      BY <1>3 DEF Keep, Running
    <2>4. ASSUME NEW j \in 1 .. Len(Tail(ops)), Tail(ops)[j].op = "end"
          PROVE  /\ Members(rec'.steers) \subseteq Left(Tail(ops)[j].arg)
                 /\ \A i \in 1 .. j - 1 : Tail(ops)[i].arg \subseteq Left(Tail(ops)[j].arg)
      <3>1. /\ j + 1 \in 1 .. Len(ops) /\ Tail(ops)[j] = ops[j + 1] /\ ops[1] = Head(ops)
            /\ 1 \in 1 .. j + 1 - 1
            /\ \A i \in 1 .. j - 1 : i \in 1 .. Len(Tail(ops)) /\ i + 1 \in 1 .. j + 1 - 1
        BY <1>0, <2>3, TailOps
      <3>2. /\ Members(rec.steers) \subseteq Left(ops[j + 1].arg)
            /\ \A i \in 1 .. j + 1 - 1 : ops[i].arg \subseteq Left(ops[j + 1].arg)
        BY <1>3, <2>4, <3>1 DEF Leaving
      <3>3. s \in Left(ops[j + 1].arg)
        BY <2>2, <3>1, <3>2
      <3>4. \A i \in 1 .. j - 1 : Tail(ops)[i] = ops[i + 1]
        BY <1>0, <2>3, <3>1, TailOps
      <3> QED
        BY <2>2, <3>1, <3>2, <3>3, <3>4
    <2> QED
      BY <2>1, <2>3, <2>4 DEF Leaving, Left
  <1>4. CASE SaveBaseline \/ Abort \/ Await \/ UNCHANGED vars
    <2>1. UNCHANGED <<pc, ops, rec, conv, cutStaged>>
      BY <1>4 DEF SaveBaseline, Abort, Await, turn, stored, ghost, vars
    <2> QED
      BY <2>1 DEF Leaving, Left
  <1>5. CASE pc' # "keep"
    BY <1>5 DEF Leaving
  <1>6. CASE \/ Resume \/ Fresh \/ Abandon \/ Requeue \/ Begin \/ BeginRun \/ StartRound \/ StageSteers
             \/ ToolRound \/ RecordRound \/ Answer \/ StepCheckpoint \/ (Cut /\ status # "interrupted") \/ End
             \/ Clear \/ ClearLedger \/ UsageSettles \/ UsageFails \/ PrepareFails \/ TurnFails
             \/ EndThrows \/ Crash
    <2>1. pc' # "keep"
      BY <1>6 DEF Resume, Fresh, Prepared, Abandon, Requeue, Begin, BeginRun, StartRound, StageSteers,
         ToolRound, RecordRound, Answer, StepCheckpoint, Cut, End, Clear, ClearLedger, UsageSettles,
         UsageFails, PrepareFails, TurnFails, EndThrows, Crash, EndTurn, StartTurn, Settle
    <2> QED
      BY <1>5, <2>1
  <1>7. ASSUME NEW m \in Msg, Send(m), pc # "keep" PROVE Leaving'
    BY <1>5, <1>7 DEF Send, StartTurn
  <1>8. CASE Keep /\ pc # "keep"
    BY <1>5, <1>8 DEF Keep, turn
  <1>9. ASSUME NEW m \in Msg, Send(m) PROVE Leaving'
    BY <1>2, <1>7, <1>9
  <1>10. CASE Keep \/ Cut \/ EndRun
    BY <1>1, <1>3, <1>6, <1>8, <1>10
  <1> QED
    BY <1>4, <1>6, <1>9, <1>10 DEF Next, TurnStep

LEMMA KeptStep ==
  ASSUME TypeOK, TypeOK', OneOp, Held, Sure, Leaving, KeptIn, ~unsaved', [Next]_vars
  PROVE  KeptIn'
  <1>0. rec \in Record /\ rec.steers \in Seq(Msg) /\ ops \in Seq(Op)
    BY RecordTypes DEF TypeOK
  <1>1. CASE Keep
    <2>1. rec'.items = rec.items /\ UNCHANGED cutStaged
      BY <1>1, KeepSteers DEF Keep
    <2>2. PICK s : /\ kept' \subseteq kept \cup {s}
                   /\ Members(rec.steers) \subseteq Members(rec'.steers)
                   /\ kept' # kept => s \in Members(rec'.steers)
      BY <1>1, KeepSteers
    <2> QED
      BY <2>1, <2>2 DEF KeptIn
  <1>2. CASE Begin
    <2>1. UNCHANGED cutStaged
      BY <1>2 DEF Begin
    <2> QED
      BY <1>2, <2>1, BeginSteers DEF KeptIn
  <1>3. CASE End
    <2>1. /\ pc = "keep" /\ ops # <<>> /\ Head(ops).op = "end" /\ ops[1] = Head(ops)
          /\ 1 \in 1 .. Len(ops) /\ UNCHANGED <<kept, cutStaged>>
      BY <1>0, <1>3, RunningAt, TailOps DEF End, Running
    <2>2. Members(rec.steers) \subseteq Left(Head(ops).arg)
      BY <2>1 DEF Leaving
    <2>3. UNCHANGED faults
      BY <1>3 DEF End
    <2>4. ~Fails
      BY <2>3 DEF Fails, TypeOK
    <2>5. rec'.items = conv /\ rec'.steers = Selected(rec.steers, Head(ops).arg)
      BY <1>3, <2>4 DEF End, Write
    <2>6. Members(rec'.steers) = Members(rec.steers) \cap Head(ops).arg
      BY <1>0, <2>5, SelectedMembers
    <2>7. Extends(rec.items, conv)
      BY <2>1 DEF Sure, Grounded, Ended, Held
    <2>8. \A m : Holds(rec.items, m) => Holds(conv, m)
      BY <2>7, HoldsMore, Typed
    <2> QED
      BY <2>1, <2>2, <2>5, <2>6, <2>8 DEF KeptIn, Left
  <1>4. CASE ~(Keep \/ Begin \/ End)
    <2>1. rec' = rec \/ rec' = NoTurn(rec)
      BY <1>4 DEF Next, TurnStep, Send, Abort, Await, Resume, Abandon, Fresh, Requeue, BeginRun,
         SaveBaseline, StartRound, StageSteers, ToolRound, RecordRound, Answer, StepCheckpoint, EndRun,
         Cut, Clear, ClearLedger, UsageSettles, UsageFails, PrepareFails, TurnFails, EndThrows, Crash,
         stored, vars
    <2>2. rec'.items = rec.items /\ rec'.steers = rec.steers
      BY <1>0, <2>1 DEF NoTurn, Record
    <2>3. UNCHANGED kept /\ cutStaged \subseteq cutStaged'
      BY <1>4 DEF Next, TurnStep, Send, Abort, Await, Resume, Abandon, Fresh, Prepared, Requeue, BeginRun,
         SaveBaseline, StartRound, StageSteers, ToolRound, RecordRound, Answer, StepCheckpoint, EndRun,
         Cut, Clear, ClearLedger, UsageSettles, UsageFails, PrepareFails, TurnFails, EndThrows, Crash,
         EndTurn, ghost, vars
    <2> QED
      BY <2>2, <2>3 DEF KeptIn
  <1> QED
    BY <1>1, <1>2, <1>3, <1>4

-----------------------------------------------------------------------------

ThreadInv ==
  /\ HistoryInv /\ Held /\ Behind /\ StagedAt
  /\ unsaved \/ (Told /\ Reaching /\ Leaving /\ KeptIn)

LEMMA ThreadInit ==
  Init => ThreadInv
  <1> SUFFICES ASSUME Init PROVE ThreadInv
    OBVIOUS
  <1>1. HistoryInv /\ Held
    BY HistoryInit, TypeInit DEF TypeInv
  <1>2. Behind /\ StagedAt
    BY DEF Init, Behind, StagedAt
  <1>3. Told
    BY <1>1, SessionAssumption DEF Init, Told, Delivering, OnRecord, Resumed, SameTurn, Reporting,
                                   Reportable, Ended, AnsweredIn
  <1>4. Reaching /\ Leaving /\ KeptIn
    BY DEF Init, Reaching, InRun, Leaving, KeptIn
  <1> QED
    BY <1>1, <1>2, <1>3, <1>4 DEF ThreadInv

(* Once a save has failed that was to take a turn off the record, it has. *)
LEMMA UnsavedStays ==
  ASSUME unsaved, TypeOK, [Next]_vars
  PROVE  unsaved'
  BY DEF Next, TurnStep, Send, Abort, Await, Resume, Abandon, Fresh, Prepared, Requeue, Begin, Keep,
         BeginRun, SaveBaseline, StartRound, StageSteers, ToolRound, RecordRound, Answer,
         StepCheckpoint, EndRun, Cut, End, Clear, ClearLedger, UsageSettles, UsageFails,
         PrepareFails, TurnFails, EndThrows, Crash, EndTurn, TellWaiters, ghost, vars

LEMMA ThreadStep ==
  ASSUME SnapshotFirst, TypeOK, TypeOK', ThreadInv, [Next]_vars
  PROVE  ThreadInv'
  <1>1. OneOp /\ HistoryInv' /\ Held /\ Behind /\ StagedAt
    BY HistoryStep DEF ThreadInv, HistoryInv
  <1>2. TypeInv'
    BY <1>1, TypeStep DEF TypeInv
  <1>3. Behind' /\ StagedAt'
    BY <1>1, BehindStep, StagedStep
  <1>4. ASSUME ~unsaved' PROVE Told' /\ Reaching' /\ Leaving' /\ KeptIn'
    <2>1. ~unsaved
      BY <1>4, UnsavedStays
    <2>2. Sure /\ Told /\ Reaching /\ Leaving /\ KeptIn /\ Delivering
      BY <2>1 DEF ThreadInv, HistoryInv, Told
    <2> QED
      BY <1>1, <1>4, <2>2, ToldStep, ReachingStep, LeavingStep, KeptStep
  <1> QED
    BY <1>1, <1>2, <1>3, <1>4 DEF ThreadInv, TypeInv

LEMMA ThreadKept ==
  ASSUME SnapshotFirst
  PROVE  Safety => []ThreadInv
  <1>1. TypeOK /\ TypeOK' /\ ThreadInv /\ [Next]_vars => ThreadInv'
    BY ThreadStep
  <1> QED
    BY <1>1, ThreadInit, TypeCorrect, PTL DEF Safety

(* What the host saw answered or interrupted is in the stored history from then
   on, unless a save failed that was to take a turn off the record. *)
THEOREM AnsweredIsStored ==
  ASSUME SnapshotFirst
  PROVE  Safety => []AnsweredStored
  <1>1. ThreadInv => AnsweredStored
    BY DEF ThreadInv, Told, AnsweredIn, Holds, AnsweredStored
  <1> QED
    BY <1>1, ThreadKept, PTL

(* A kept steer is a turn's input, on record or in the history, but for one
   that was staged in a call an interrupt cut. *)
THEOREM SteersAreKept ==
  ASSUME SnapshotFirst
  PROVE  Safety => []SteerKept
  <1>1. TypeOK /\ ThreadInv => SteerKept
    <2> SUFFICES ASSUME TypeOK, ThreadInv, ~unsaved, NEW s \in kept \ cutStaged,
                        s \notin Members(rec.steers)
                 PROVE  Steered(s) \in Members(rec.items) \/ Input(s) \in Members(rec.items)
      BY DEF SteerKept
    <2>1. Holds(rec.items, s)
      BY DEF ThreadInv, KeptIn
    <2>2. PICK x \in Members(rec.items) : x.msg = s /\ x.kind # "answer"
      BY <2>1 DEF Holds
    <2>3. x \in Item
      BY <2>2, Typed, ItemMsgs
    <2>4. x = Steered(s) \/ x = Input(s)
      BY <2>2, <2>3 DEF Item, Steered, Input
    <2> QED
      BY <2>2, <2>4
  <1> QED
    BY <1>1, ThreadKept, TypeCorrect, PTL

-----------------------------------------------------------------------------
(* Nothing comes twice in a sequence, but for what is in a set. *)

OnceBut(l, S) == \A i, j \in 1 .. Len(l) : l[i] = l[j] => i = j \/ l[i] \in S

LEMMA OnceBarring ==
  ASSUME NEW l, NEW S, NEW T, OnceBut(l, S), S \subseteq T
  PROVE  OnceBut(l, T)
  BY DEF OnceBut

LEMMA OnceShort ==
  ASSUME NEW S
  PROVE  OnceBut(<<>>, S) /\ \A x : OnceBut(<<x>>, S)
  BY DEF OnceBut

LEMMA OnceConcat ==
  ASSUME NEW T, NEW s \in Seq(T), NEW t \in Seq(T), NEW S, OnceBut(s, S), OnceBut(t, S),
         Members(s) \cap Members(t) \subseteq S
  PROVE  OnceBut(s \o t, S)
  <1> DEFINE r == s \o t
  <1>1. /\ Len(s) \in Nat /\ Len(t) \in Nat /\ Len(r) = Len(s) + Len(t)
        /\ \A i \in 1 .. Len(s) + Len(t) : r[i] = IF i <= Len(s) THEN s[i] ELSE t[i - Len(s)]
    BY ConcatProperties, LenProperties
  <1>2. Members(s) = {s[i] : i \in 1 .. Len(s)} /\ Members(t) = {t[i] : i \in 1 .. Len(t)}
    BY MembersAre
  <1> HIDE DEF r
  <1>3. ASSUME NEW i \in 1 .. Len(r), NEW j \in 1 .. Len(r), i < j, r[i] = r[j], r[i] \notin S
        PROVE  FALSE
    <2>1. CASE j <= Len(s)
      <3>1. /\ i \in 1 .. Len(s) /\ j \in 1 .. Len(s) /\ i # j
            /\ r[i] = s[i] /\ r[j] = s[j]
        BY <1>1, <1>3, <2>1
      <3> QED
        BY <1>3, <3>1 DEF OnceBut
    <2>2. CASE i > Len(s)
      <3>1. /\ i - Len(s) \in 1 .. Len(t) /\ j - Len(s) \in 1 .. Len(t) /\ i - Len(s) # j - Len(s)
            /\ r[i] = t[i - Len(s)] /\ r[j] = t[j - Len(s)]
        BY <1>1, <1>3, <2>2
      <3> QED
        BY <1>3, <3>1 DEF OnceBut
    <2>3. CASE i <= Len(s) /\ j > Len(s)
      <3>1. i \in 1 .. Len(s) /\ j - Len(s) \in 1 .. Len(t) /\ r[i] = s[i] /\ r[j] = t[j - Len(s)]
        BY <1>1, <1>3, <2>3
      <3>2. r[i] \in Members(s) /\ r[i] \in Members(t)
        BY <1>2, <1>3, <3>1
      <3> QED
        BY <1>3, <3>2
    <2> QED
      BY <1>1, <2>1, <2>2, <2>3
  <1>4. \A i \in 1 .. Len(r) : i \in Nat
    BY <1>1
  <1> SUFFICES ASSUME NEW i \in 1 .. Len(r), NEW j \in 1 .. Len(r), r[i] = r[j], r[i] \notin S
               PROVE  i = j
    BY DEF OnceBut, r
  <1>5. ~(i < j) /\ ~(j < i)
    BY <1>3
  <1> QED
    BY <1>4, <1>5

LEMMA OnceAppend ==
  ASSUME NEW T, NEW s \in Seq(T), NEW x \in T, NEW S, OnceBut(s, S), x \in Members(s) => x \in S
  PROVE  OnceBut(Append(s, x), S)
  <1>1. <<x>> \in Seq(T) /\ Members(<<x>>) = {x} /\ OnceBut(<<x>>, S)
    BY OneMember, OnceShort
  <1>2. OnceBut(s \o <<x>>, S)
    BY <1>1, OnceConcat
  <1>3. Append(s, x) = s \o <<x>>
    OBVIOUS
  <1> QED
    BY <1>2, <1>3

(* The beginning and the end of such a sequence are like it. *)
LEMMA OncePrefix ==
  ASSUME NEW T, NEW s \in Seq(T), NEW t \in Seq(T), NEW S, Extends(s, t), OnceBut(t, S)
  PROVE  OnceBut(s, S)
  <1>1. Len(s) \in Nat /\ Len(t) \in Nat /\ Len(s) <= Len(t) /\ \A i \in 1 .. Len(s) : t[i] = s[i]
    BY ExtendsIff, LenProperties
  <1>2. 1 .. Len(s) \subseteq 1 .. Len(t)
    BY <1>1
  <1> QED
    BY <1>1, <1>2 DEF OnceBut

LEMMA OnceSuffix ==
  ASSUME NEW T, NEW s \in Seq(T), NEW t \in Seq(T), NEW S, OnceBut(s \o t, S)
  PROVE  OnceBut(t, S)
  <1> DEFINE r == s \o t
  <1>1. /\ Len(s) \in Nat /\ Len(t) \in Nat /\ Len(r) = Len(s) + Len(t)
        /\ \A i \in 1 .. Len(s) + Len(t) : r[i] = IF i <= Len(s) THEN s[i] ELSE t[i - Len(s)]
    BY ConcatProperties, LenProperties
  <1> HIDE DEF r
  <1>2. ASSUME NEW i \in 1 .. Len(t)
        PROVE  i \in Nat /\ Len(s) + i \in 1 .. Len(r) /\ r[Len(s) + i] = t[i]
    BY <1>1
  <1> SUFFICES ASSUME NEW i \in 1 .. Len(t), NEW j \in 1 .. Len(t), t[i] = t[j], t[i] \notin S
               PROVE  i = j
    BY DEF OnceBut
  <1>3. Len(s) + i = Len(s) + j
    BY <1>2 DEF OnceBut, r
  <1> QED
    BY <1>1, <1>2, <1>3

LEMMA OnceSelected ==
  ASSUME NEW T, NEW s \in Seq(T), NEW R, NEW S, OnceBut(s, S)
  PROVE  OnceBut(Selected(s, R), S)
  <1> DEFINE t == Selected(s, R)
  <1>1. t \in Seq(T) /\ Len(t) \in Nat
    BY SelectedFrom, LenProperties
  <1>2. PICK f \in [1 .. Len(t) -> 1 .. Len(s)] :
          /\ \A k \in 1 .. Len(t) : t[k] = s[f[k]] /\ t[k] \in R
          /\ \A j, k \in 1 .. Len(t) : j < k => f[j] < f[k]
    BY SelectedFrom
  <1> HIDE DEF t
  <1> SUFFICES ASSUME NEW i \in 1 .. Len(t), NEW j \in 1 .. Len(t), t[i] = t[j], t[i] \notin S
               PROVE  i = j
    BY DEF OnceBut, t
  <1>3. f[i] = f[j]
    BY <1>2 DEF OnceBut
  <1>4. Len(s) \in Nat /\ f[i] \in 1 .. Len(s)
    BY <1>2, LenProperties
  <1>5. ~(i < j) /\ ~(j < i)
    BY <1>2, <1>3, <1>4
  <1> QED
    BY <1>1, <1>5

LEMMA OnceWithout ==
  ASSUME NEW T, NEW s \in Seq(T), NEW R, NEW S, OnceBut(s, S)
  PROVE  OnceBut(Without(s, R), S)
  BY OnceSelected DEF Without

LEMMA OnceAsItems ==
  ASSUME NEW q \in Seq(Msg), NEW A, NEW S, OnceBut(q, A)
  PROVE  /\ (\A m \in A : Input(m) \in S) => OnceBut(Inputs(q), S)
         /\ (\A m \in A : Steered(m) \in S) => OnceBut(SteerItems(q), S)
  <1>1. DOMAIN q = 1 .. Len(q) /\ Len(q) \in Nat
    BY LenProperties
  <1>2. /\ Len(Inputs(q)) = Len(q) /\ \A i \in 1 .. Len(q) : Inputs(q)[i] = Input(q[i])
        /\ Len(SteerItems(q)) = Len(q) /\ \A i \in 1 .. Len(q) : SteerItems(q)[i] = Steered(q[i])
    BY <1>1 DEF Inputs, SteerItems
  <1>3. /\ \A m, n : Input(m) = Input(n) => m = n
        /\ \A m, n : Steered(m) = Steered(n) => m = n
    BY DEF Input, Steered
  <1>4. ASSUME \A m \in A : Input(m) \in S PROVE OnceBut(Inputs(q), S)
    BY <1>2, <1>3, <1>4 DEF OnceBut
  <1>5. ASSUME \A m \in A : Steered(m) \in S PROVE OnceBut(SteerItems(q), S)
    BY <1>2, <1>3, <1>5 DEF OnceBut
  <1> QED
    BY <1>4, <1>5

(* A sequence that another begins is that one and the rest. *)
LEMMA ExtendsAndRest ==
  ASSUME NEW T, NEW l \in Seq(T), NEW m \in Seq(T), Extends(l, m)
  PROVE  LET r == SubSeq(m, Len(l) + 1, Len(m)) IN r \in Seq(T) /\ l \o r = m
  <1> DEFINE r == SubSeq(m, Len(l) + 1, Len(m))
  <1>1. Len(l) \in Nat /\ Len(m) \in Nat /\ Len(l) <= Len(m) /\ \A i \in 1 .. Len(l) : m[i] = l[i]
    BY ExtendsIff, LenProperties
  <1>2. \A i \in Len(l) + 1 .. Len(m) : m[i] \in T
    BY <1>1, ElementOfSeq
  <1>3. /\ r \in Seq(T) /\ Len(r) = Len(m) - Len(l)
        /\ \A i \in 1 .. Len(m) - Len(l) : r[i] = m[Len(l) + i]
    <2>1. /\ r \in Seq(T)
          /\ Len(r) = IF Len(l) + 1 <= Len(m) THEN Len(m) - (Len(l) + 1) + 1 ELSE 0
          /\ \A i \in 1 .. Len(m) - (Len(l) + 1) + 1 : r[i] = m[Len(l) + 1 + i - 1]
      BY <1>1, <1>2, SubSeqProperties
    <2> HIDE DEF r
    <2>2. Len(r) = Len(m) - Len(l)
      BY <1>1, <2>1
    <2>3. ASSUME NEW i \in 1 .. Len(m) - Len(l)
          PROVE  i \in 1 .. Len(m) - (Len(l) + 1) + 1 /\ Len(l) + 1 + i - 1 = Len(l) + i
      BY <1>1
    <2> QED
      BY <2>1, <2>2, <2>3
  <1> HIDE DEF r
  <1>4. /\ l \o r \in Seq(T) /\ Len(l \o r) = Len(l) + Len(r)
        /\ \A i \in 1 .. Len(l) + Len(r) : (l \o r)[i] = IF i <= Len(l) THEN l[i] ELSE r[i - Len(l)]
    BY <1>3, ConcatProperties
  <1>5. Len(l \o r) = Len(m)
    BY <1>1, <1>3, <1>4
  <1>6. ASSUME NEW i \in 1 .. Len(m) PROVE (l \o r)[i] = m[i]
    BY <1>1, <1>3, <1>4, <1>6
  <1>7. l \o r = m
    BY <1>4, <1>5, <1>6, SeqEqual
  <1> QED
    BY <1>3, <1>7 DEF r

-----------------------------------------------------------------------------
(* What comes twice is excused: a message the host sent again after it had been
   delivered, and the answer of a turn lost after it was recorded. *)

Spared(m) == late \/ m \in again
Excused == {x \in Item : x.msg \in again \/ (x.kind = "answer" /\ late)}

(* What is queued, staged or delivered is so once. *)
QueueOnce == OnceBut(queue, again) /\ OnceBut(staged, again) /\ OnceBut(batch, again)
Apart == Members(queue) \cap (Members(batch) \cup Members(staged)) \subseteq again
SteersOnce == OnceBut(rec.steers, {})

(* A message that is still to be delivered is no input yet, nor answered. *)
ToKeep(q, m) == \E k \in 1 .. Len(q) : q[k].op = "keep" /\ m \in q[k].arg
Coming(m) ==
  \/ m \in Members(queue) \/ m \in Members(rec.steers) \/ ToKeep(ops, m)
  \/ pc \in {"create", "abandon"} /\ m \in Members(batch)
Unseen(m) == Input(m) \notin Members(rec.items) /\ AnswerTo(m) \notin Members(rec.items)
ComingNew == \A m \in Msg \ again : Coming(m) => Unseen(m)

(* The record's end is to keep steers that are in the queue. *)
EndKeeps == \A k \in 1 .. Len(ops) : ops[k].op = "end" => ops[k].arg \subseteq Members(queue)

(* What is staged is not in the conversation. *)
StagedNew == \A m \in Members(staged) : Steered(m) \in Members(conv) => m \in again

LEMMA GhostsGrow ==
  ASSUME TypeOK, TypeOK', [Next]_vars
  PROVE  again \subseteq again' /\ (late => late') /\ Excused \subseteq Excused'
         /\ (\A m : Spared(m) => Spared(m)')
  <1>1. ASSUME NEW m \in Msg, Send(m) PROVE again \subseteq again' /\ UNCHANGED late
    BY <1>1 DEF Send
  <1>2. ASSUME ~(\E m \in Msg : Send(m)) PROVE UNCHANGED again /\ (late => late')
    <2>1. UNCHANGED again
      BY <1>2 DEF Next, TurnStep, Abort, Await, Resume, Abandon, Fresh, Prepared, Requeue, Begin, Keep,
         BeginRun, SaveBaseline, StartRound, StageSteers, ToolRound, RecordRound, Answer,
         StepCheckpoint, EndRun, Cut, End, Clear, ClearLedger, UsageSettles, UsageFails,
         PrepareFails, TurnFails, EndThrows, Crash, EndTurn, ghost, vars
    <2>2. late => late'
      BY <1>2 DEF Next, TurnStep, Abort, Await, Resume, Abandon, Fresh, Prepared, Requeue, Begin, Keep,
         BeginRun, SaveBaseline, StartRound, StageSteers, ToolRound, RecordRound, Answer,
         StepCheckpoint, EndRun, Cut, End, Clear, ClearLedger, UsageSettles, UsageFails,
         PrepareFails, TurnFails, EndThrows, Crash, EndTurn, ghost, vars
    <2> QED
      BY <2>1, <2>2
  <1>3. again \subseteq again' /\ (late => late')
    BY <1>1, <1>2
  <1>4. \A m : Spared(m) => Spared(m)'
    BY <1>3 DEF Spared
  <1> QED
    BY <1>3, <1>4 DEF Excused

(* A message sent is one that is nowhere, or it is sent again. *)
LEMMA SentAgain ==
  ASSUME NEW m \in Msg, Send(m), m \notin again'
  PROVE  /\ m \notin again
         /\ m \notin Members(queue) \cup Members(staged) \cup Members(rec.steers) \cup Members(batch)
         /\ \A x \in Members(rec.items) \cup Members(conv) : x.msg # m
  BY DEF Send, Delivered

(* The steps that leave alone where messages are. *)
Resting == UNCHANGED <<queue, batch, staged>>

LEMMA OneStart ==
  ASSUME NEW result, EndTurn(result)
  PROVE  /\ queue' = <<>> /\ staged' = <<>> /\ batch' = queue /\ conv' = <<>> /\ exec' = None
         /\ saving' = FALSE /\ pc' \in {"rest", "create"} /\ UNCHANGED <<ck, again>>
         /\ ops' = Tail(ops) \/ ops' = Append(Tail(ops), Pending("create", {}))
  BY DEF EndTurn, StartTurn

LEMMA Overs ==
  ASSUME UsageSettles \/ UsageFails \/ PrepareFails, ~(UsageFails /\ outcome = "done")
  PROVE  (\E result : EndTurn(result)) /\ ops # <<>>
  BY DEF UsageSettles, UsageFails, PrepareFails, Running

LEMMA RestingSteps ==
  ASSUME [Next]_vars
  PROVE  \/ Resting
         \/ \E m \in Msg : Send(m)
         \/ Requeue \/ StartRound \/ StageSteers \/ Crash
         \/ (UsageSettles \/ UsageFails \/ PrepareFails) /\ ~(UsageFails /\ outcome = "done")
  BY DEF Next, TurnStep, Abort, Await, Resume, Abandon, Fresh, Prepared, Begin, Keep,
         BeginRun, SaveBaseline, ToolRound, RecordRound, Answer,
         StepCheckpoint, EndRun, Cut, End, Clear, ClearLedger, UsageFails,
         TurnFails, EndThrows, inbox, turn, vars, Resting

LEMMA QueueOnceStep ==
  ASSUME TypeInv, TypeOK', StagedAt, QueueOnce, Apart, SteersOnce, [Next]_vars
  PROVE  QueueOnce' /\ Apart'
  <1>0. /\ queue \in Seq(Msg) /\ batch \in Seq(Msg) /\ staged \in Seq(Msg) /\ rec.steers \in Seq(Msg)
        /\ again \subseteq again' /\ Members(<<>>) = {}
    <2>1. Members(<<>>) = {}
      BY DEF Members
    <2>2. TypeOK /\ rec.steers \in Seq(Msg)
      BY RecordTypes DEF TypeInv, TypeOK
    <2> QED
      BY <2>1, <2>2, GhostsGrow DEF TypeOK
  <1>1. OnceBut(queue, again') /\ OnceBut(staged, again') /\ OnceBut(batch, again')
        /\ OnceBut(<<>>, again')
    BY <1>0, OnceBarring, OnceShort DEF QueueOnce
  <1>2. CASE Resting
    BY <1>0, <1>1, <1>2 DEF Resting, QueueOnce, Apart
  <1>3. ASSUME NEW m \in Msg, Send(m) PROVE QueueOnce' /\ Apart'
    <2>1. m \in Members(queue) \cup Members(staged) \cup Members(batch) => m \in again'
      BY <1>3, SentAgain
    <2>2. UNCHANGED staged
      BY <1>3 DEF Send
    <2>3. CASE pc = "rest" /\ StartTurn(<<m>>)
      <3>1. staged = <<>> /\ queue' = <<>> /\ batch' = <<m>>
        BY <2>3 DEF StagedAt, StartTurn
      <3> QED
        BY <1>0, <1>1, <2>2, <3>1, OnceShort DEF QueueOnce, Apart
    <2>4. CASE queue' \in {<<m>> \o queue, Append(queue, m)} /\ UNCHANGED batch
      <3> DEFINE one == <<m>>
      <3>1. one \in Seq(Msg) /\ Members(one) = {m} /\ OnceBut(one, again')
        BY OneMember, OnceShort
      <3> HIDE DEF one
      <3>2. OnceBut(one \o queue, again') /\ Members(one \o queue) = Members(queue) \cup {m}
        <4>1. Members(one) \cap Members(queue) \subseteq again'
          BY <2>1, <3>1
        <4> DEFINE barred == again'
        <4>2. OnceBut(one, barred) /\ OnceBut(queue, barred) /\ Members(one) \cap Members(queue) \subseteq barred
          BY <1>1, <3>1, <4>1
        <4>3. Members(one \o queue) = Members(one) \cup Members(queue)
          BY <1>0, <3>1, ConcatMembers
        <4> HIDE DEF barred
        <4>4. OnceBut(one \o queue, barred)
          BY <1>0, <3>1, <4>2, OnceConcat
        <4> QED
          BY <3>1, <4>3, <4>4 DEF barred
      <3>3. OnceBut(Append(queue, m), again') /\ Members(Append(queue, m)) = Members(queue) \cup {m}
        BY <1>0, <1>1, <2>1, OnceAppend, AppendMembers
      <3>4. OnceBut(queue', again') /\ Members(queue') = Members(queue) \cup {m}
        BY <2>4, <3>2, <3>3 DEF one
      <3>5. Members(batch') = Members(batch) /\ Members(staged') = Members(staged)
        BY <2>2, <2>4
      <3>6. Apart'
        BY <1>0, <2>1, <3>4, <3>5 DEF Apart
      <3> QED
        BY <1>1, <2>2, <2>4, <3>4, <3>6 DEF QueueOnce
    <2> QED
      BY <1>3, <2>3, <2>4 DEF Send
  <1>4. CASE Requeue
    <2> DEFINE more == Without(rec.steers, Members(queue) \cup Members(batch))
    <2>1. /\ more \in Seq(Msg) /\ Members(more) = Members(rec.steers) \ (Members(queue) \cup Members(batch))
          /\ OnceBut(more, {})
      BY <1>0, WithoutMembers, OnceWithout DEF SteersOnce
    <2>2. queue' = queue \o more /\ UNCHANGED <<batch, staged>> /\ staged = <<>>
      BY <1>4, RunningAt DEF Requeue, StagedAt, TypeInv
    <2> HIDE DEF more
    <2>3. OnceBut(more, again')
      BY <2>1, OnceBarring
    <2>4. OnceBut(queue', again') /\ Members(queue') = Members(queue) \cup Members(more)
      <3>1. Members(queue) \cap Members(more) \subseteq again'
        BY <2>1
      <3> QED
        BY <1>0, <1>1, <2>1, <2>2, <2>3, <3>1, OnceConcat, ConcatMembers
    <2>5. Apart'
      BY <1>0, <2>1, <2>2, <2>4 DEF Apart
    <2> QED
      BY <1>1, <2>2, <2>4, <2>5 DEF QueueOnce
  <1>5. CASE StartRound \/ StageSteers
    <2>1. /\ queue' = Without(queue, Steer) /\ UNCHANGED batch
          /\ staged' = <<>> \/ (staged = <<>> /\ staged' = staged \o Offered)
      BY <1>5 DEF StartRound, StageSteers, StagedAt
    <2>2. OnceBut(queue', again') /\ Members(queue') = Members(queue) \ Steer
      BY <1>0, <1>1, <2>1, OnceWithout, WithoutMembers
    <2>3. Offered \in Seq(Msg) /\ Members(Offered) \subseteq Steer /\ OnceBut(Offered, again')
      BY <1>0, <1>1, SelectedMembers, OnceSelected DEF Offered
    <2>4. staged' = <<>> \/ staged' = Offered
      BY <2>1, <2>3, ConcatEmptySeq
    <2>5. OnceBut(staged', again') /\ Members(staged') \subseteq Steer
      BY <1>0, <1>1, <2>3, <2>4
    <2>6. Members(batch') = Members(batch)
      BY <2>1
    <2>7. Apart'
      BY <1>0, <2>2, <2>5, <2>6 DEF Apart
    <2> QED
      BY <1>1, <2>1, <2>2, <2>5, <2>7 DEF QueueOnce
  <1>6. CASE Crash
    <2>1. queue' = <<>> /\ batch' = <<>> /\ staged' = <<>>
      BY <1>6 DEF Crash
    <2> QED
      BY <1>0, <1>1, <2>1 DEF QueueOnce, Apart
  <1>7. CASE (UsageSettles \/ UsageFails \/ PrepareFails) /\ ~(UsageFails /\ outcome = "done")
    <2>1. queue' = <<>> /\ staged' = <<>> /\ batch' = queue
      BY <1>7, Overs, OneStart
    <2> QED
      BY <1>0, <1>1, <2>1 DEF QueueOnce, Apart
  <1> QED
    BY <1>2, <1>3, <1>4, <1>5, <1>6, <1>7, RestingSteps

LEMMA RecordParts ==
  ASSUME TypeOK
  PROVE  /\ NoTurn(rec).items = rec.items /\ NoTurn(rec).steers = rec.steers /\ NoTurn(rec).turn = None
         /\ Begin => \/ rec' = rec
                     \/ /\ rec'.items = rec.items /\ rec'.turn = [exec |-> exec, ids |-> batch]
                        /\ rec'.steers = Without(rec.steers, Members(batch))
         /\ Keep => /\ rec'.items = rec.items /\ rec'.turn = rec.turn
                    /\ \/ rec'.steers = rec.steers
                       \/ \E s \in Head(ops).arg : rec'.steers = Append(Without(rec.steers, {s}), s)
  <1>1. rec \in Record
    BY DEF TypeOK
  <1>2. NoTurn(rec).items = rec.items /\ NoTurn(rec).steers = rec.steers /\ NoTurn(rec).turn = None
    BY <1>1 DEF NoTurn, Record
  <1>3. ASSUME Begin, rec' # rec
        PROVE  /\ rec'.items = rec.items /\ rec'.turn = [exec |-> exec, ids |-> batch]
               /\ rec'.steers = Without(rec.steers, Members(batch))
    <2>1. rec' = [rec EXCEPT !.turn = [exec |-> exec, ids |-> batch],
                             !.steers = Without(@, Members(batch))]
      BY <1>3 DEF Begin, Write
    <2> QED
      BY <1>1, <2>1 DEF Record
  <1>4. ASSUME Keep
        PROVE  /\ rec'.items = rec.items /\ rec'.turn = rec.turn
               /\ \/ rec'.steers = rec.steers
                  \/ \E s \in Head(ops).arg : rec'.steers = Append(Without(rec.steers, {s}), s)
    <2>1. PICK s \in Head(ops).arg :
             rec' = rec \/ rec' = [rec EXCEPT !.steers = Append(Without(@, {s}), s)]
      BY <1>4 DEF Keep, Write
    <2>2. CASE rec' # rec
      <3>1. rec' = [rec EXCEPT !.steers = Append(Without(@, {s}), s)]
        BY <2>1, <2>2
      <3> QED
        BY <1>1, <3>1 DEF Record
    <2> QED
      BY <2>1, <2>2
  <1> QED
    BY <1>2, <1>3, <1>4

(* The stored history changes only at a turn's end. *)
LEMMA ItemsChange ==
  ASSUME TypeInv, [Next]_vars
  PROVE  \/ rec'.items = rec.items
         \/ /\ End /\ pc = "keep" /\ rec'.items = conv /\ rec'.turn = None
            /\ rec'.steers = Selected(rec.steers, Head(ops).arg)
  <1>1. CASE End
    <2>1. \/ rec' = rec
          \/ rec' = [items |-> conv, turn |-> None, steers |-> Selected(rec.steers, Head(ops).arg)]
      BY <1>1 DEF End, Write
    <2> QED
      BY <1>1, <2>1, RunningAt DEF TypeInv, End
  <1>2. CASE ~End
    <2>2. CASE Begin \/ Keep
      BY <2>2, RecordParts DEF TypeInv
    <2>3. CASE ~Begin /\ ~Keep
      <3>1. rec' = rec \/ rec' = NoTurn(rec)
        BY <1>2, <2>3 DEF Next, TurnStep, Send, Abort, Await, Resume, Abandon, Fresh, Prepared, Requeue,
           BeginRun, SaveBaseline, StartRound, StageSteers, ToolRound, RecordRound, Answer,
           StepCheckpoint, EndRun, Cut, Clear, ClearLedger, UsageSettles, UsageFails,
           PrepareFails, TurnFails, EndThrows, Crash, stored, vars
      <3> QED
        BY <3>1, RecordParts DEF TypeInv
    <2> QED
      BY <2>2, <2>3
  <1> QED
    BY <1>1, <1>2

(* Steers come to the record from the operations that keep them. *)
LEMMA SteersChange ==
  ASSUME TypeInv, [Next]_vars, SteersOnce
  PROVE  /\ SteersOnce'
         /\ \A m \in Members(rec'.steers) : m \in Members(rec.steers) \/ ToKeep(ops, m)
  <1>1. rec.steers \in Seq(Msg)
    BY RecordTypes DEF TypeInv, TypeOK
  <1>3. CASE rec'.steers = rec.steers
    BY <1>3 DEF SteersOnce
  <1>4. CASE Begin
    <2>1. rec'.steers \in {rec.steers, Without(rec.steers, Members(batch))}
      BY <1>4, RecordParts DEF TypeInv
    <2> QED
      BY <1>1, <2>1, WithoutMembers, OnceWithout DEF SteersOnce
  <1>5. CASE Keep
    <2>1. CASE rec'.steers = rec.steers
      BY <1>3, <2>1
    <2>2. ASSUME NEW s \in Head(ops).arg, rec'.steers = Append(Without(rec.steers, {s}), s)
          PROVE  /\ SteersOnce'
                 /\ \A m \in Members(rec'.steers) : m \in Members(rec.steers) \/ ToKeep(ops, m)
      <3>1. ops # <<>> /\ ops \in Seq(Op) /\ Head(ops).op = "keep"
        BY <1>5 DEF Keep, Running, TypeInv, TypeOK
      <3>2. s \in Msg
        BY <2>2, <3>1, QueuedOps
      <3>3. ToKeep(ops, s)
        BY <2>2, <3>1, TailOps DEF ToKeep
      <3> DEFINE w == Without(rec.steers, {s})
      <3>4. w \in Seq(Msg) /\ Members(w) = Members(rec.steers) \ {s} /\ OnceBut(w, {})
        BY <1>1, WithoutMembers, OnceWithout DEF SteersOnce
      <3>5. rec'.steers = Append(w, s)
        BY <2>2
      <3> HIDE DEF w
      <3>6. Members(Append(w, s)) = Members(w) \cup {s} /\ OnceBut(Append(w, s), {})
        BY <3>2, <3>4, AppendMembers, OnceAppend
      <3> QED
        BY <3>3, <3>4, <3>5, <3>6 DEF SteersOnce
    <2> QED
      BY <1>5, <2>1, <2>2, RecordParts DEF TypeInv
  <1>6. CASE End
    <2>1. rec'.steers \in {rec.steers, Selected(rec.steers, Head(ops).arg)}
      BY <1>6 DEF End, Write
    <2> QED
      BY <1>1, <2>1, SelectedMembers, OnceSelected DEF SteersOnce
  <1>7. CASE ~Begin /\ ~Keep /\ ~End
    <2>1. rec' = rec \/ rec' = NoTurn(rec)
      BY <1>7 DEF Next, TurnStep, Send, Abort, Await, Resume, Abandon, Fresh, Prepared, Requeue,
         BeginRun, SaveBaseline, StartRound, StageSteers, ToolRound, RecordRound, Answer,
         StepCheckpoint, EndRun, Cut, Clear, ClearLedger, UsageSettles, UsageFails,
         PrepareFails, TurnFails, EndThrows, Crash, stored, vars
    <2> QED
      BY <1>3, <2>1, RecordParts DEF TypeInv
  <1> QED
    BY <1>4, <1>5, <1>6, <1>7

LEMMA ToKeepOf ==
  ASSUME NEW q \in Seq(Op), NEW m
  PROVE  /\ q # <<>> /\ ToKeep(Tail(q), m) => ToKeep(q, m)
         /\ \A x \in Op : ToKeep(Append(q, x), m) => ToKeep(q, m) \/ (x.op = "keep" /\ m \in x.arg)
  <1>1. ASSUME q # <<>>, ToKeep(Tail(q), m) PROVE ToKeep(q, m)
    BY <1>1, TailOps DEF ToKeep
  <1>2. ASSUME NEW x \in Op, ToKeep(Append(q, x), m)
        PROVE  ToKeep(q, m) \/ (x.op = "keep" /\ m \in x.arg)
    BY <1>2, AppendOps DEF ToKeep
  <1> QED
    BY <1>1, <1>2

LEMMA ToKeepFrom ==
  ASSUME TypeInv, [Next]_vars, NEW m, ToKeep(ops', m)
  PROVE  ToKeep(ops, m) \/ (m \in Msg /\ Send(m))
  <1>1. ops \in Seq(Op) /\ (ops # <<>> => Tail(ops) \in Seq(Op))
    BY TailIsOps DEF TypeInv, TypeOK
  <1>2. Members(queue) \in SUBSET Msg
    BY MembersAre DEF TypeInv, TypeOK
  <1>3. CASE \E n \in Msg : Send(n)
    <2>1. PICK n \in Msg : Send(n)
      BY <1>3
    <2>2. ops' \in {ops, Append(ops, Pending("create", {})), Append(ops, Pending("keep", {n}))}
      BY <2>1 DEF Send
    <2>3. /\ Pending("create", {}) \in Op /\ Pending("create", {}).op = "create"
          /\ Pending("keep", {n}) \in Op /\ Pending("keep", {n}).arg = {n}
      BY PendingIsOp DEF Pending
    <2>4. ToKeep(ops, m) \/ m = n
      BY <1>1, <2>2, <2>3, ToKeepOf
    <2> QED
      BY <2>1, <2>4
  <1>4. CASE ~(\E n \in Msg : Send(n))
    <2>1. \/ ops' = ops \/ ops' = <<>>
          \/ ops # <<>> /\ ops' = Tail(ops)
          \/ \E x \in Op : x.op # "keep" /\ ops' = Append(ops, x)
          \/ \E x \in Op : x.op # "keep" /\ ops # <<>> /\ ops' = Append(Tail(ops), x)
      <3>1. /\ Pending("create", {}) \in Op /\ Pending("create", {}).op # "keep"
            /\ Pending("steers", {}) \in Op /\ Pending("steers", {}).op # "keep"
            /\ Pending("begin", {}) \in Op /\ Pending("begin", {}).op # "keep"
            /\ Pending("usage", {}) \in Op /\ Pending("usage", {}).op # "keep"
            /\ Pending("end", Members(queue)) \in Op /\ Pending("end", Members(queue)).op # "keep"
        BY <1>2, PendingIsOp DEF Pending
      <3>2. CASE Resume \/ Fresh \/ Requeue
        BY <3>1, <3>2 DEF Resume, Fresh, Prepared, Requeue, Running
      <3>3. CASE EndRun \/ Cut \/ TurnFails \/ EndThrows \/ Clear \/ ClearLedger
        BY <3>1, <3>3 DEF EndRun, Cut, TurnFails, EndThrows, Clear, ClearLedger, KeepHistory, Settle,
                          Running
      <3>4. CASE UsageSettles \/ UsageFails \/ PrepareFails
        BY <3>1, <3>4 DEF UsageSettles, UsageFails, PrepareFails, EndTurn, Settle, Running
      <3>5. CASE Begin \/ Keep \/ End
        BY <3>5 DEF Begin, Keep, End, Running
      <3> QED
        BY <1>4, <3>2, <3>3, <3>4, <3>5 DEF Next, TurnStep, Abort, Await, Abandon, BeginRun,
           SaveBaseline, StartRound, StageSteers, ToolRound, RecordRound, Answer, StepCheckpoint,
           Crash, vars
    <2>2. ~ToKeep(<<>>, m)
      BY DEF ToKeep
    <2> QED
      BY <1>1, <2>1, <2>2, ToKeepOf
  <1> QED
    BY <1>3, <1>4

LEMMA EndKeepsStep ==
  ASSUME TypeInv, OneOp', TypeOK', EndKeeps, [Next]_vars
  PROVE  EndKeeps'
  <1>0. ops \in Seq(Op) /\ ops' \in Seq(Op) /\ queue \in Seq(Msg) /\ Members(queue) \in SUBSET Msg
    BY MembersAre DEF TypeInv, TypeOK
  <1>1. CASE pc' # "keep"
    <2>1. \A k \in 1 .. Len(ops') : ops'[k].op \in {"keep", Awaited'}
      BY DEF OneOp, Only
    <2>2. Awaited' # "end"
      BY <1>1 DEF Awaited
    <2> QED
      BY <2>1, <2>2 DEF EndKeeps
  <1>2. CASE pc' = "keep" /\ pc # "keep"
    <2>1. EndRun \/ Cut
      BY <1>2 DEF Next, TurnStep, Send, StartTurn, Abort, Await, Resume, Abandon, Fresh, Prepared, Requeue,
         Begin, Keep, BeginRun, SaveBaseline, StartRound, StageSteers, ToolRound, RecordRound, Answer,
         StepCheckpoint, End, Clear, ClearLedger, UsageSettles, UsageFails, Settle,
         PrepareFails, TurnFails, EndThrows, EndTurn, Crash, turn, vars
    <2>2. ops' = Append(ops, Pending("end", Members(queue))) /\ UNCHANGED queue
      BY <1>2, <2>1 DEF EndRun, Cut, KeepHistory, Settle, inbox
    <2>3. Only(ops, "keep")
      BY <1>2, <2>1 DEF EndRun, Cut, TypeInv, OneOp, Awaited
    <2>4. Pending("end", Members(queue)) \in Op /\ Pending("end", Members(queue)).arg = Members(queue)
      BY <1>0, PendingIsOp DEF Pending
    <2>5. \A k \in 1 .. Len(ops) : ops'[k] = ops[k] /\ ops[k].op = "keep"
      BY <1>0, <2>2, <2>3, <2>4, AppendOps DEF Only
    <2> QED
      BY <1>0, <2>2, <2>4, <2>5, AppendOps DEF EndKeeps
  <1>3. CASE pc' = "keep" /\ pc = "keep"
    <2>1. CASE UNCHANGED <<ops, queue>>
      BY <2>1 DEF EndKeeps
    <2>2. CASE Keep
      <3>1. ops # <<>> /\ ops' = Tail(ops) /\ UNCHANGED queue
        BY <2>2 DEF Keep, Running, inbox
      <3>2. \A k \in 1 .. Len(Tail(ops)) : k + 1 \in 1 .. Len(ops) /\ Tail(ops)[k] = ops[k + 1]
        BY <1>0, <3>1, TailOps
      <3> QED
        BY <3>1, <3>2 DEF EndKeeps
    <2>3. ASSUME NEW m \in Msg, Send(m) PROVE EndKeeps'
      <3>1. /\ queue' \in {<<m>> \o queue, Append(queue, m)}
            /\ ops' \in {ops, Append(ops, Pending("keep", {m}))}
        BY <1>3, <2>3 DEF Send
      <3>2. Members(queue) \subseteq Members(queue')
        <4>1. <<m>> \in Seq(Msg)
          BY OneMember
        <4>2. Members(<<m>> \o queue) = Members(<<m>>) \cup Members(queue)
          BY <1>0, <4>1, ConcatMembers
        <4>3. Members(Append(queue, m)) = Members(queue) \cup {m}
          BY <1>0, AppendMembers
        <4> QED
          BY <3>1, <4>2, <4>3
      <3>3. Pending("keep", {m}) \in Op /\ Pending("keep", {m}).op = "keep"
        BY PendingIsOp DEF Pending
      <3>4. ASSUME NEW k \in 1 .. Len(ops'), ops'[k].op = "end"
            PROVE  k \in 1 .. Len(ops) /\ ops'[k] = ops[k]
        <4>1. CASE ops' = Append(ops, Pending("keep", {m}))
          <5> DEFINE x == Pending("keep", {m})
          <5> HIDE DEF x
          <5>1. /\ x \in Op /\ x.op # "end" /\ ops' = Append(ops, x)
            BY <3>3, <4>1 DEF x
          <5>2. k \in 1 .. Len(ops) + 1 /\ ops'[Len(ops) + 1] = x
            BY <1>0, <5>1, AppendOps
          <5> QED
            BY <1>0, <3>4, <5>1, <5>2, AppendOps
        <4> QED
          BY <3>1, <3>4, <4>1
      <3> QED
        BY <3>2, <3>4 DEF EndKeeps
    <2> QED
      BY <1>3, <2>1, <2>2, <2>3, RunningAt DEF Next, TurnStep, Abort, Await, Resume, Abandon, Fresh,
         Prepared, Requeue, Begin, BeginRun, SaveBaseline, StartRound, StageSteers, ToolRound,
         RecordRound, Answer, StepCheckpoint, EndRun, Cut, End, Clear, ClearLedger, UsageSettles,
         UsageFails, Settle, StartTurn, PrepareFails, TurnFails, EndThrows, EndTurn, Crash, inbox,
         vars, TypeInv
  <1> QED
    BY <1>1, <1>2, <1>3

(* What is to be delivered was so before, or is sent. *)
LEMMA ComingFrom ==
  ASSUME TypeInv, SteersOnce, [Next]_vars, NEW m, Coming(m)'
  PROVE  Coming(m) \/ (m \in Msg /\ Send(m))
  <1>0. /\ queue \in Seq(Msg) /\ rec.steers \in Seq(Msg) /\ Members(<<>>) = {}
    <2>1. Members(<<>>) = {}
      BY DEF Members
    <2> QED
      BY <2>1, RecordTypes DEF TypeInv, TypeOK
  <1>1. CASE ToKeep(ops', m)
    BY <1>1, ToKeepFrom DEF Coming
  <1>2. CASE m \in Members(rec'.steers)
    BY <1>2, SteersChange DEF Coming
  <1>3. CASE m \in Members(queue')
    <2>1. CASE Resting \/ Crash \/ UsageSettles \/ UsageFails \/ PrepareFails
      <3>1. queue' = queue \/ queue' = <<>>
        BY <2>1 DEF Resting, Crash, UsageSettles, UsageFails, PrepareFails, EndTurn, StartTurn, inbox
      <3> QED
        BY <1>0, <1>3, <3>1 DEF Coming
    <2>2. ASSUME NEW n \in Msg, Send(n) PROVE m \in Members(queue) \/ m = n
      <3>1. queue' \in {<<>>, <<n>> \o queue, Append(queue, n)}
        BY <2>2 DEF Send, StartTurn
      <3> DEFINE one == <<n>>
      <3>2. one \in Seq(Msg) /\ Members(one) = {n}
        BY OneMember
      <3> HIDE DEF one
      <3>3. Members(one \o queue) = Members(one) \cup Members(queue)
        BY <1>0, <3>2, ConcatMembers
      <3>4. Members(Append(queue, n)) = Members(queue) \cup {n}
        BY <1>0, AppendMembers
      <3> QED
        BY <1>0, <1>3, <3>1, <3>2, <3>3, <3>4 DEF one
    <2>3. CASE Requeue
      <3> DEFINE more == Without(rec.steers, Members(queue) \cup Members(batch))
      <3>1. more \in Seq(Msg) /\ Members(more) \subseteq Members(rec.steers)
        BY <1>0, WithoutMembers
      <3>2. queue' = queue \o more
        BY <2>3 DEF Requeue
      <3> HIDE DEF more
      <3>3. Members(queue') = Members(queue) \cup Members(more)
        BY <1>0, <3>1, <3>2, ConcatMembers
      <3> QED
        BY <1>3, <3>1, <3>3 DEF Coming
    <2>4. CASE StartRound \/ StageSteers
      <3>1. queue' = Without(queue, Steer)
        BY <2>4 DEF StartRound, StageSteers
      <3> QED
        BY <1>0, <1>3, <3>1, WithoutMembers DEF Coming
    <2> QED
      BY <2>1, <2>2, <2>3, <2>4, RestingSteps DEF Coming
  <1>4. CASE pc' \in {"create", "abandon"} /\ m \in Members(batch')
    <2>1. ASSUME NEW n \in Msg, Send(n) PROVE m = n \/ UNCHANGED <<pc, batch>>
      <3>1. <<n>> \in Seq(Msg) /\ Members(<<n>>) = {n}
        BY OneMember
      <3> QED
        BY <1>4, <2>1, <3>1 DEF Send, StartTurn
    <2>2. CASE UNCHANGED <<pc, batch>>
      BY <1>4, <2>2 DEF Coming
    <2>3. CASE Abandon
      BY <1>4, <2>3 DEF Abandon, Coming
    <2>4. CASE (UsageSettles \/ UsageFails \/ PrepareFails) /\ ~(UsageFails /\ outcome = "done")
      <3>1. batch' = queue
        BY <2>4, Overs, OneStart
      <3> QED
        BY <1>4, <3>1 DEF Coming
    <2>5. \/ \E n \in Msg : Send(n)
          \/ UNCHANGED <<pc, batch>> \/ Abandon
          \/ (UsageSettles \/ UsageFails \/ PrepareFails) /\ ~(UsageFails /\ outcome = "done")
      BY <1>4 DEF Next, TurnStep, Abort, Await, Resume, Fresh, Prepared, Requeue, Begin, Keep,
         BeginRun, SaveBaseline, StartRound, StageSteers, ToolRound, RecordRound, Answer,
         StepCheckpoint, EndRun, Cut, KeepHistory, Settle, End, Clear, ClearLedger, UsageFails,
         TurnFails, EndThrows, Crash, turn, vars
    <2> QED
      BY <2>1, <2>2, <2>3, <2>4, <2>5
  <1> QED
    BY <1>1, <1>2, <1>3, <1>4 DEF Coming

(* An item of a turn's log is a steer, of the stored history, the turn's input
   or its answer. *)
Known(x, b) ==
  \/ x.kind = "steer" \/ x \in Members(rec.items)
  \/ x.kind = "input" /\ x.msg \in Members(b)
  \/ x.kind = "answer" /\ x.msg = b[1]
LogKnown == exec # None => \A x \in Members(conv) : Known(x, batch)

LEMMA ComingStep ==
  ASSUME TypeInv, TypeOK', SteersOnce, Apart, Behind, EndKeeps, LogKnown, ComingNew, [Next]_vars
  PROVE  ComingNew'
  <1>0. again \subseteq again'
    BY GhostsGrow DEF TypeInv
  <1> SUFFICES ASSUME NEW m \in Msg \ again', Coming(m)' PROVE Unseen(m)'
    BY DEF ComingNew
  <1>1. m \in Msg \ again
    BY <1>0
  <1>2. CASE rec'.items = rec.items
    <2>1. CASE Coming(m)
      BY <1>1, <1>2, <2>1 DEF ComingNew, Unseen
    <2>2. CASE Send(m)
      <3>1. \A x \in Members(rec.items) : x.msg # m
        BY <2>2, SentAgain
      <3> QED
        BY <1>2, <3>1 DEF Unseen, Input, AnswerTo
    <2> QED
      BY <2>1, <2>2, ComingFrom
  <1>3. CASE /\ End /\ pc = "keep" /\ rec'.items = conv /\ rec'.turn = None
             /\ rec'.steers = Selected(rec.steers, Head(ops).arg)
    <2>1. /\ ops # <<>> /\ Head(ops).op = "end" /\ ops' = Tail(ops) /\ pc' = "clear"
          /\ UNCHANGED queue /\ ops \in Seq(Op)
      BY <1>3 DEF End, Running, inbox, TypeInv, TypeOK
    <2>2. Head(ops).arg \subseteq Members(queue)
      BY <2>1, TailOps DEF EndKeeps
    <2>3. Members(rec'.steers) \subseteq Members(queue)
      <3>1. rec.steers \in Seq(Msg)
        BY RecordTypes DEF TypeInv, TypeOK
      <3> QED
        BY <1>3, <2>2, <3>1, SelectedMembers
    <2>4. ToKeep(ops', m) => m \in Members(queue)
      <3> SUFFICES ASSUME NEW k \in 1 .. Len(Tail(ops)), m \in Tail(ops)[k].arg PROVE m \in Members(queue)
        BY <2>1 DEF ToKeep
      <3>1. /\ 1 \in 1 .. Len(ops) /\ k + 1 \in 1 .. Len(ops) /\ 1 < k + 1
            /\ ops[1].op # "keep" /\ Tail(ops)[k] = ops[k + 1]
        BY <2>1, TailOps
      <3> QED
        BY <3>1 DEF Behind
    <2>5. m \in Members(queue)
      BY <2>1, <2>3, <2>4 DEF Coming
    <2>6. Coming(m) /\ m \notin Members(batch)
      BY <1>1, <2>5 DEF Coming, Apart
    <2>7. Unseen(m)
      BY <1>1, <2>6 DEF ComingNew
    <2>8. exec # None /\ batch # <<>> /\ batch \in Seq(Msg)
      BY <1>3 DEF TypeInv, TypeOK, Held
    <2>9. batch[1] \in Members(batch)
      BY <2>8, EmptySeq, LenProperties DEF Members
    <2>10. Input(m) \notin Members(conv)
      <3>1. Input(m).kind = "input" /\ Input(m).msg = m
        BY DEF Input
      <3> QED
        BY <2>6, <2>7, <2>8, <3>1 DEF LogKnown, Known, Unseen
    <2>11. AnswerTo(m) \notin Members(conv)
      <3>1. AnswerTo(m).kind = "answer" /\ AnswerTo(m).msg = m
        BY DEF AnswerTo
      <3> QED
        BY <2>6, <2>7, <2>8, <2>9, <3>1 DEF LogKnown, Known, Unseen
    <2> QED
      BY <1>3, <2>10, <2>11 DEF Unseen
  <1> QED
    BY <1>2, <1>3, ItemsChange

LEMMA StagedNewStep ==
  ASSUME TypeInv, TypeOK', StagedAt, StagedNew, [Next]_vars
  PROVE  StagedNew'
  <1>0. again \subseteq again' /\ Members(<<>>) = {}
    <2>1. Members(<<>>) = {}
      BY DEF Members
    <2> QED
      BY <2>1, GhostsGrow DEF TypeInv
  <1>1. CASE staged' = <<>>
    BY <1>0, <1>1 DEF StagedNew
  <1>2. CASE StageSteers
    <2>1. staged = <<>> /\ staged' = staged \o Offered /\ UNCHANGED conv
      BY <1>2 DEF StageSteers, StagedAt
    <2>2. Offered \in Seq(Msg) /\ Members(Offered) = Members(queue) \cap (Steer \ Applied)
      BY SelectedMembers DEF Offered, TypeInv, TypeOK
    <2>3. staged' = Offered
      BY <2>1, <2>2, ConcatEmptySeq
    <2>4. \A m \in Members(Offered) : Steered(m) \notin Members(conv)
      BY <2>2 DEF Applied
    <2> QED
      BY <2>1, <2>3, <2>4 DEF StagedNew
  <1>3. CASE UNCHANGED <<staged, conv>>
    BY <1>0, <1>3 DEF StagedNew
  <1>4. CASE Answer
    <2>1. staged = <<>> /\ UNCHANGED staged
      BY <1>4 DEF Answer, StagedAt
    <2> QED
      BY <1>1, <2>1
  <1>5. CASE Resume \/ Fresh \/ BeginRun
    <2>1. staged = <<>> /\ UNCHANGED staged
      BY <1>5, RunningAt DEF Resume, Fresh, Prepared, BeginRun, StagedAt, TypeInv
    <2> QED
      BY <1>1, <2>1
  <1>6. CASE UsageSettles \/ UsageFails \/ PrepareFails \/ Crash \/ StartRound
    BY <1>1, <1>3, <1>6 DEF UsageSettles, UsageFails, PrepareFails, Crash, EndTurn, StartRound
  <1> QED
    BY <1>2, <1>3, <1>4, <1>5, <1>6 DEF Next, TurnStep, Send, Abort, Await, Abandon, Requeue, Begin, Keep,
       SaveBaseline, ToolRound, RecordRound, StepCheckpoint, EndRun, Cut, End, Clear, ClearLedger,
       TurnFails, EndThrows, turn, vars

-----------------------------------------------------------------------------
(* The log of the turn, and what its execution left. *)

Starting == {"steers", "begin", "run"}
Asking == {"ready", "streaming", "recordRound"}
Over == {"keep", "clear", "clearLedger", "settle"}

Snapshot(c) == IF c.snap = None THEN <<>> ELSE c.snap
Whole(c) == Snapshot(c) \o c.tail
Items(c) == Members(Snapshot(c)) \cup Members(c.tail)

(* What the turn has, and what a restore of the turn on record would find, is
   known to be the turn's. *)
TailKnown == pc \in Starting => \A x \in Members(ck[exec].tail) : Known(x, batch)
RecKnown == rec.turn # None => \A x \in Items(ck[rec.turn.exec]) : Known(x, rec.turn.ids)

(* The log is what the run began with, what was recorded of it, and more. *)
Grown ==
  /\ exec # None => Extends(base, conv)
  /\ pc \in Starting => conv = base
  /\ pc \in InRun \/ saving => Extends(base \o ck[exec].tail, conv)
Snapped == pc \in Starting \cup InRun \/ saving => ck[exec].snap \in {None, base}
SavingAt ==
  /\ saving => pc \in InRun \cup Over
  /\ pc \in Over /\ outcome = "done" => ~saving

(* Logs hold nothing twice. *)
TailOnce == pc \in Starting => OnceBut(base \o ck[exec].tail, Excused)
LogsOnce == \A e \in Exec : OnceBut(Whole(ck[e]), Excused)
ConvOnce == OnceBut(conv, Excused)
StoredOnce == OnceBut(rec.items, Excused)

(* A turn that has its answer asks for none; one on record that was lost with
   its answer was lost late. *)
LogAnswered ==
  exec # None =>
    LET a == AnswerTo(batch[1]) IN
    /\ a \in Members(base) => Spared(batch[1])
    /\ pc \in Starting /\ ~ck[exec].final /\ a \in Members(ck[exec].tail) => Spared(batch[1])
    /\ pc \in Asking => ~ck[exec].final /\ (a \in Members(conv) => Spared(batch[1]))
RecAnswered ==
  rec.turn # None =>
    LET e == rec.turn.exec
        m == rec.turn.ids[1]
    IN  /\ AnswerTo(m) \in Members(Snapshot(ck[e])) => Spared(m) \/ (exec = e /\ pc \in Over)
        /\ ~ck[e].final /\ AnswerTo(m) \in Members(ck[e].tail) => Spared(m)

(* A turn that is done has left nothing. *)
Cleared == pc = "settle" /\ outcome = "done" => ck[exec] = NoCheckpoint

LogInv ==
  /\ LogKnown /\ TailKnown /\ RecKnown
  /\ Grown /\ Snapped /\ SavingAt
  /\ TailOnce /\ LogsOnce /\ ConvOnce /\ StoredOnce
  /\ LogAnswered /\ RecAnswered
  /\ Numbered /\ SameTurn /\ Cleared

(* What excuses an item once excuses it from then on. *)
Lasting == Excused \subseteq Excused' /\ \A m : Spared(m) => Spared(m)'

LEMMA LogQuiet ==
  ASSUME TypeOK, TypeOK', Held, LogInv, Lasting,
         UNCHANGED <<exec, base, conv, ck, turns>>, batch' = batch \/ exec = None,
         rec'.items = rec.items, rec'.turn = rec.turn,
         saving' => saving,
         pc' \in Starting => pc \in Starting,
         pc' \in Asking => pc \in Asking,
         pc' \in InRun => pc \in InRun,
         pc \in Over => pc' \in Over,
         pc \in InRun \cup Over => pc' \in InRun \cup Over,
         pc' \in Over /\ outcome' = "done" => ~saving',
         pc' = "settle" /\ outcome' = "done" => pc = "settle" /\ outcome = "done"
  PROVE  LogInv'
  <1>1. pc \in Starting => exec # None
    BY DEF Held, Starting
  <1>2. LogKnown' /\ TailKnown' /\ RecKnown'
    <2>1. LogKnown'
      BY DEF LogInv, LogKnown, Known
    <2>2. TailKnown'
      BY <1>1 DEF LogInv, TailKnown, Known
    <2>3. RecKnown'
      BY DEF LogInv, RecKnown, Known, Items, Snapshot
    <2> QED
      BY <2>1, <2>2, <2>3
  <1>3. Grown' /\ Snapped' /\ SavingAt'
    <2>1. Grown'
      BY DEF LogInv, Grown
    <2>2. Snapped'
      BY DEF LogInv, Snapped
    <2>3. SavingAt'
      BY DEF LogInv, SavingAt
    <2> QED
      BY <2>1, <2>2, <2>3
  <1>4. TailOnce' /\ LogsOnce' /\ ConvOnce' /\ StoredOnce'
    <2> DEFINE barred == Excused'
    <2>1. Excused \subseteq barred
      BY DEF Lasting
    <2> HIDE DEF barred
    <2>2. TailOnce => (pc \in Starting => OnceBut(base \o ck[exec].tail, barred))
      BY <2>1, OnceBarring DEF TailOnce
    <2>3. LogsOnce => \A e \in Exec : OnceBut(Whole(ck[e]), barred)
      BY <2>1, OnceBarring DEF LogsOnce
    <2>4. ConvOnce /\ StoredOnce => OnceBut(conv, barred) /\ OnceBut(rec.items, barred)
      BY <2>1, OnceBarring DEF ConvOnce, StoredOnce
    <2> QED
      BY <2>2, <2>3, <2>4 DEF LogInv, TailOnce, LogsOnce, ConvOnce, StoredOnce, barred, Whole, Snapshot
  <1>5. LogAnswered'
    BY <1>1 DEF LogInv, LogAnswered, Lasting
  <1>6. RecAnswered'
    BY DEF LogInv, RecAnswered, Lasting, Snapshot
  <1>7. Numbered' /\ SameTurn' /\ Cleared'
    BY DEF LogInv, Numbered, SameTurn, Cleared
  <1> QED
    BY <1>2, <1>3, <1>4, <1>5, <1>6, <1>7 DEF LogInv

(* A turn is over, or its process dies: where it is on record with its answer,
   that is late. *)
LEMMA LogOver ==
  ASSUME TypeOK, TypeOK', LogInv, Lasting, UNCHANGED <<ck, turns>>, rec' = rec \/ rec' = NoTurn(rec),
         exec' = None, saving' = FALSE, pc' \in {"rest", "create"}, conv' = <<>>,
         rec.turn # None /\ exec # None /\ rec.turn.exec = exec /\ pc \in Over =>
           (AnswerTo(batch[1]) \in Members(Snapshot(ck[exec])) => late')
  PROVE  LogInv'
  <1>1. rec'.items = rec.items /\ (rec'.turn # None => rec'.turn = rec.turn)
    BY RecordParts
  <1>2. LogKnown' /\ TailKnown' /\ RecKnown'
    BY <1>1 DEF LogInv, LogKnown, TailKnown, RecKnown, Known, Items, Snapshot, Starting
  <1>3. Grown' /\ Snapped' /\ SavingAt' /\ LogAnswered' /\ Cleared' /\ SameTurn'
    BY DEF Grown, Snapped, SavingAt, LogAnswered, Cleared, SameTurn, Starting, InRun, Over
  <1>4. TailOnce' /\ LogsOnce' /\ ConvOnce' /\ StoredOnce'
    <2> DEFINE barred == Excused'
    <2>1. Excused \subseteq barred
      BY DEF Lasting
    <2> HIDE DEF barred
    <2>2. LogsOnce => \A e \in Exec : OnceBut(Whole(ck[e]), barred)
      BY <2>1, OnceBarring DEF LogsOnce
    <2>3. StoredOnce => OnceBut(rec.items, barred)
      BY <2>1, OnceBarring DEF StoredOnce
    <2>4. OnceBut(<<>>, barred)
      BY OnceShort
    <2> QED
      BY <1>1, <2>2, <2>3, <2>4 DEF LogInv, TailOnce, LogsOnce, ConvOnce, StoredOnce, barred, Whole,
                                   Snapshot, Starting
  <1>5. RecAnswered'
    <2> SUFFICES ASSUME rec'.turn # None PROVE RecAnswered'
      BY DEF RecAnswered
    <2> DEFINE e == rec.turn.exec
               m == rec.turn.ids[1]
    <2>1. rec.turn # None /\ rec'.turn = rec.turn
      BY <1>1
    <2>2. e # None
      <3>1. rec.turn.exec \in Exec /\ None \notin Exec
        BY <2>1, Typed
      <3> QED
        BY <3>1
    <2>3. ASSUME AnswerTo(m) \in Members(Snapshot(ck[e])) PROVE Spared(m)'
      <3>1. CASE Spared(m)
        BY <2>1, <3>1 DEF Lasting
      <3>2. CASE exec = e /\ pc \in Over
        <4>1. rec.turn.ids = batch
          BY <2>1, <2>2, <3>2 DEF LogInv, SameTurn
        <4>2. late'
          BY <2>1, <2>2, <2>3, <3>2, <4>1
        <4> QED
          BY <4>2 DEF Spared
      <3> QED
        BY <2>1, <2>3, <3>1, <3>2 DEF LogInv, RecAnswered
    <2>4. ASSUME ~ck[e].final, AnswerTo(m) \in Members(ck[e].tail) PROVE Spared(m)'
      BY <2>1, <2>4 DEF LogInv, RecAnswered, Lasting
    <2> QED
      BY <2>1, <2>3, <2>4 DEF RecAnswered, Snapshot
  <1>6. Numbered'
    BY <1>1 DEF LogInv, Numbered
  <1> QED
    BY <1>2, <1>3, <1>4, <1>5, <1>6 DEF LogInv

(* What the turn leaves holds nothing twice, and is the turn's where the turn is
   on record. *)
Fits(c) ==
  /\ OnceBut(Whole(c), Excused')
  /\ rec.turn # None /\ rec.turn.exec = exec =>
       LET a == AnswerTo(batch[1]) IN
       /\ \A x \in Items(c) : Known(x, batch)
       /\ a \in Members(Snapshot(c)) => Spared(batch[1])' \/ pc' \in Over
       /\ ~c.final /\ a \in Members(c.tail) => Spared(batch[1])'

(* The turn's log grows, or what its execution left changes. *)
LEMMA LogCheckpoint ==
  ASSUME TypeOK, TypeOK', Held, LogInv, Lasting, exec # None,
         UNCHANGED <<exec, base, batch, turns, rec>>,
         pc' \notin Starting,
         NEW c \in Checkpoint, ck' = [ck EXCEPT ![exec] = c],
         pc \in Over => pc' \in Over,
         Extends(base, conv'), OnceBut(conv', Excused'), \A x \in Members(conv') : Known(x, batch),
         Fits(c),
         pc' \in InRun \/ saving' => c.snap \in {None, base} /\ Extends(base \o c.tail, conv'),
         pc' \in Asking => ~c.final /\ (AnswerTo(batch[1]) \in Members(conv') => Spared(batch[1])'),
         saving' => pc' \in InRun \cup Over,
         pc' \in Over /\ outcome' = "done" => ~saving',
         pc' = "settle" /\ outcome' = "done" => c = NoCheckpoint
  PROVE  LogInv'
  <1>0. /\ exec \in Exec /\ ck'[exec] = c /\ \A e \in Exec : e # exec => ck'[e] = ck[e]
    BY Typed DEF TypeOK
  <1>1. LogKnown' /\ TailKnown'
    BY DEF LogKnown, TailKnown, Known
  <1>2. RecKnown'
    <2> SUFFICES ASSUME rec.turn # None, NEW x \in Items(ck'[rec.turn.exec])
                 PROVE  Known(x, rec.turn.ids)
      BY DEF RecKnown, Known, Items, Snapshot
    <2>1. rec.turn.exec \in Exec
      BY Typed
    <2>2. CASE rec.turn.exec = exec
      <3>1. rec.turn.ids = batch
        BY <2>2 DEF LogInv, SameTurn
      <3> QED
        BY <1>0, <2>2, <3>1 DEF Fits
    <2>3. CASE rec.turn.exec # exec
      BY <1>0, <2>1, <2>3 DEF LogInv, RecKnown
    <2> QED
      BY <2>2, <2>3
  <1>3. Grown' /\ Snapped' /\ SavingAt'
    <2>1. Grown'
      BY <1>0 DEF Grown
    <2>2. Snapped'
      BY <1>0 DEF Snapped
    <2>3. SavingAt'
      BY DEF SavingAt
    <2> QED
      BY <2>1, <2>2, <2>3
  <1>4. TailOnce' /\ LogsOnce' /\ ConvOnce' /\ StoredOnce'
    <2> DEFINE barred == Excused'
    <2>1. Excused \subseteq barred /\ OnceBut(conv', barred) /\ OnceBut(Whole(c), barred)
      BY DEF Lasting, Fits
    <2> HIDE DEF barred
    <2>2. ASSUME NEW e \in Exec PROVE OnceBut(Whole(ck'[e]), barred)
      <3>1. CASE e = exec
        BY <1>0, <2>1, <3>1
      <3>2. CASE e # exec
        <4>1. OnceBut(Whole(ck[e]), Excused)
          BY DEF LogInv, LogsOnce
        <4> QED
          BY <1>0, <2>1, <3>2, <4>1, OnceBarring
      <3> QED
        BY <3>1, <3>2
    <2>3. StoredOnce => OnceBut(rec.items, barred)
      BY <2>1, OnceBarring DEF StoredOnce
    <2>4. LogsOnce'
      BY <2>2 DEF LogsOnce, Whole, Snapshot, barred
    <2> QED
      BY <2>1, <2>3, <2>4 DEF LogInv, TailOnce, ConvOnce, StoredOnce, barred
  <1>5. LogAnswered'
    BY <1>0 DEF LogInv, LogAnswered, Lasting
  <1>6. RecAnswered'
    <2> DEFINE e == rec.turn.exec
               m == rec.turn.ids[1]
    <2> SUFFICES ASSUME rec.turn # None
                 PROVE  /\ AnswerTo(m) \in Members(Snapshot(ck'[e]))
                           => Spared(m)' \/ (exec = e /\ pc' \in Over)
                        /\ ~ck'[e].final /\ AnswerTo(m) \in Members(ck'[e].tail) => Spared(m)'
      BY DEF RecAnswered, Snapshot
    <2>1. e \in Exec
      BY Typed
    <2>2. CASE e = exec
      <3>1. rec.turn.ids = batch
        BY <2>2 DEF LogInv, SameTurn
      <3> QED
        BY <1>0, <2>2, <3>1 DEF Fits
    <2>3. CASE e # exec
      <3>1. ck'[e] = ck[e]
        BY <1>0, <2>1, <2>3
      <3>2. Spared(m) => Spared(m)'
        BY DEF Lasting
      <3> QED
        BY <2>3, <3>1, <3>2 DEF LogInv, RecAnswered
    <2> QED
      BY <2>2, <2>3
  <1>7. Numbered' /\ SameTurn' /\ Cleared'
    <2>1. Numbered'
      BY <1>0, Typed DEF LogInv, Numbered
    <2> QED
      BY <1>0, <2>1 DEF LogInv, SameTurn, Cleared
  <1> QED
    BY <1>1, <1>2, <1>3, <1>4, <1>5, <1>6, <1>7 DEF LogInv

(* What the turn has left already fits, and so does what is its log, or less. *)
LEMMA OwnFits ==
  ASSUME TypeOK, LogInv, Lasting, exec # None, UNCHANGED batch, pc \in Over => pc' \in Over
  PROVE  Fits(ck[exec])
  <1>1. exec \in Exec
    BY Typed
  <1>2. OnceBut(Whole(ck[exec]), Excused')
    <2> DEFINE barred == Excused'
    <2>1. Excused \subseteq barred
      BY DEF Lasting
    <2> HIDE DEF barred
    <2>2. OnceBut(Whole(ck[exec]), barred)
      BY <1>1, <2>1, OnceBarring DEF LogInv, LogsOnce
    <2> QED
      BY <2>2 DEF barred
  <1>3. ASSUME rec.turn # None, rec.turn.exec = exec
        PROVE  /\ \A x \in Items(ck[exec]) : Known(x, batch)
               /\ AnswerTo(batch[1]) \in Members(Snapshot(ck[exec])) => Spared(batch[1])' \/ pc' \in Over
               /\ ~ck[exec].final /\ AnswerTo(batch[1]) \in Members(ck[exec].tail) => Spared(batch[1])'
    <2>1. rec.turn.ids = batch
      BY <1>3 DEF LogInv, SameTurn
    <2>2. Spared(batch[1]) => Spared(batch[1])'
      BY DEF Lasting
    <2> QED
      BY <1>3, <2>1, <2>2 DEF LogInv, RecKnown, RecAnswered
  <1> QED
    BY <1>2, <1>3 DEF Fits

LEMMA ExtendsMembers ==
  ASSUME NEW S, NEW l \in Seq(S), NEW m \in Seq(S), Extends(l, m)
  PROVE  Members(l) \subseteq Members(m)
  <1>1. /\ Len(l) \in Nat /\ Len(m) \in Nat /\ Len(l) <= Len(m) /\ \A i \in 1 .. Len(l) : m[i] = l[i]
    BY ExtendsIff, LenProperties
  <1>2. 1 .. Len(l) \subseteq 1 .. Len(m)
    BY <1>1
  <1> QED
    BY <1>1, <1>2, MembersAre

LEMMA LogFits ==
  ASSUME TypeOK, TypeOK', LogInv, Lasting, exec # None, UNCHANGED batch,
         NEW c \in Checkpoint, c.snap \in {None, base}, Extends(base \o c.tail, conv'),
         OnceBut(conv', Excused'), \A x \in Members(conv') : Known(x, batch),
         ~c.final /\ AnswerTo(batch[1]) \in Members(c.tail) /\ rec.turn # None /\ rec.turn.exec = exec
           => Spared(batch[1])'
  PROVE  Fits(c)
  <1>0. /\ base \in Seq(Item) /\ conv' \in Seq(Item) /\ c.tail \in Seq(Item) /\ None \notin Seq(Item)
        /\ Members(<<>>) = {} /\ <<>> \in Seq(Item)
    <2>1. Members(<<>>) = {}
      BY DEF Members
    <2>2. c.tail \in Seq(Item)
      BY DEF Checkpoint
    <2> QED
      BY <2>1, <2>2, Typed, EmptySeq DEF TypeOK
  <1>1. base \o c.tail \in Seq(Item) /\ Members(base \o c.tail) = Members(base) \cup Members(c.tail)
    BY <1>0, ConcatMembers
  <1>2. Members(base) \cup Members(c.tail) \subseteq Members(conv')
    <2> DEFINE both == base \o c.tail
    <2>1. both \in Seq(Item) /\ Extends(both, conv')
      BY <1>1
    <2> HIDE DEF both
    <2>2. Members(both) \subseteq Members(conv')
      BY <1>0, <2>1, ExtendsMembers
    <2> QED
      BY <1>1, <2>2 DEF both
  <1>3. OnceBut(base \o c.tail, Excused')
    <2> DEFINE barred == Excused'
               log == conv'
               both == base \o c.tail
    <2>1. OnceBut(log, barred) /\ log \in Seq(Item) /\ both \in Seq(Item) /\ Extends(both, log)
      BY <1>0, <1>1
    <2> HIDE DEF barred, log, both
    <2>2. OnceBut(both, barred)
      BY <2>1, OncePrefix
    <2> QED
      BY <2>2 DEF barred, both
  <1>4. OnceBut(c.tail, Excused')
    <2> DEFINE barred == Excused'
    <2>1. OnceBut(base \o c.tail, barred)
      BY <1>3
    <2> HIDE DEF barred
    <2>2. OnceBut(c.tail, barred)
      BY <1>0, <2>1, OnceSuffix
    <2> QED
      BY <2>2 DEF barred
  <1>5. Snapshot(c) \in {<<>>, base} /\ <<>> \o c.tail = c.tail
    BY <1>0, ConcatEmptySeq DEF Snapshot
  <1>6. OnceBut(Whole(c), Excused')
    BY <1>3, <1>4, <1>5 DEF Whole
  <1>7. \A x \in Items(c) : Known(x, batch)
    BY <1>0, <1>2, <1>5 DEF Items
  <1>8. AnswerTo(batch[1]) \in Members(Snapshot(c)) => Spared(batch[1])'
    BY <1>0, <1>5 DEF LogInv, LogAnswered, Lasting
  <1> QED
    BY <1>6, <1>7, <1>8 DEF Fits

-----------------------------------------------------------------------------
(* The steps of a run. *)

(* The log of a turn that goes on as it is. *)
LEMMA LogOn ==
  ASSUME TypeOK, LogInv, Lasting, exec # None
  PROVE  /\ exec \in Exec /\ Exec \subseteq Nat /\ base \in Seq(Item) /\ conv \in Seq(Item)
         /\ None \notin Seq(Item) /\ None \notin Exec
         /\ ck[exec] \in Checkpoint /\ ck = [ck EXCEPT ![exec] = ck[exec]]
         /\ ck[exec].tail \in Seq(Item) /\ ck[exec].final \in BOOLEAN
         /\ Extends(base, conv) /\ OnceBut(conv, Excused') /\ \A x \in Members(conv) : Known(x, batch)
  <1>1. /\ exec \in Exec /\ Exec \subseteq Nat /\ base \in Seq(Item) /\ conv \in Seq(Item)
        /\ None \notin Seq(Item) /\ None \notin Exec
        /\ ck[exec].tail \in Seq(Item) /\ ck[exec].final \in BOOLEAN
    BY Typed
  <1>2. OnceBut(conv, Excused')
    <2> DEFINE barred == Excused'
    <2>1. Excused \subseteq barred
      BY DEF Lasting
    <2> HIDE DEF barred
    <2>2. OnceBut(conv, barred)
      BY <2>1, OnceBarring DEF LogInv, ConvOnce
    <2> QED
      BY <2>2 DEF barred
  <1> QED
    BY <1>1, <1>2, Updated DEF LogInv, Grown, LogKnown

LEMMA LogBeginRun ==
  ASSUME TypeOK, TypeOK', Held, LogInv, Lasting, BeginRun
  PROVE  LogInv'
  <1>1. /\ pc = "run" /\ saving' /\ conv' = conv \o ck[exec].tail
        /\ pc' = (IF ck[exec].final THEN "ending" ELSE "ready")
        /\ UNCHANGED <<exec, base, batch, turns, rec, ck>>
    BY DEF BeginRun, stored, bounds
  <1>2. exec # None /\ conv = base /\ pc \in Starting
    BY <1>1 DEF Held, LogInv, Grown, Starting
  <1>3. /\ base \in Seq(Item) /\ ck[exec] \in Checkpoint /\ ck = [ck EXCEPT ![exec] = ck[exec]]
        /\ ck[exec].tail \in Seq(Item) /\ ck[exec].final \in BOOLEAN
    BY <1>2, LogOn
  <1>4. /\ conv' \in Seq(Item) /\ conv' = base \o ck[exec].tail
        /\ Members(conv') = Members(base) \cup Members(ck[exec].tail)
    BY <1>1, <1>2, <1>3, ConcatMembers
  <1>5. Extends(base, conv') /\ Extends(base \o ck[exec].tail, conv')
    BY <1>3, <1>4, ExtendsConcat, ExtendsItself
  <1>6. OnceBut(conv', Excused')
    <2> DEFINE barred == Excused'
    <2>1. Excused \subseteq barred
      BY DEF Lasting
    <2> HIDE DEF barred
    <2>2. OnceBut(base \o ck[exec].tail, barred)
      BY <1>2, <2>1, OnceBarring DEF LogInv, TailOnce
    <2> QED
      BY <1>4, <2>2 DEF barred
  <1>7. \A x \in Members(conv') : Known(x, batch)
    BY <1>2, <1>4 DEF LogInv, LogKnown, TailKnown
  <1>8. ck[exec].snap \in {None, base}
    BY <1>2 DEF LogInv, Snapped
  <1>9. /\ AnswerTo(batch[1]) \in Members(base) => Spared(batch[1])'
        /\ ~ck[exec].final /\ AnswerTo(batch[1]) \in Members(ck[exec].tail) => Spared(batch[1])'
    BY <1>1, <1>2 DEF LogInv, LogAnswered, Lasting
  <1>10. Fits(ck[exec])
    BY <1>1, <1>2, <1>3, <1>5, <1>6, <1>7, <1>8, <1>9, LogFits
  <1>11. /\ pc' \notin Starting /\ pc \notin Over /\ pc' \in InRun /\ pc' \notin Over
         /\ pc' \in Asking => ~ck[exec].final
    BY <1>1 DEF Starting, Over, InRun, Asking
  <1>12. pc' \in Asking => (AnswerTo(batch[1]) \in Members(conv') => Spared(batch[1])')
    BY <1>4, <1>9, <1>11
  <1>13. ck' = [ck EXCEPT ![exec] = ck[exec]] /\ pc' # "settle"
    BY <1>1, <1>3
  <1> QED
    BY <1>1, <1>2, <1>3, <1>5, <1>6, <1>7, <1>8, <1>10, <1>11, <1>12, <1>13, LogCheckpoint

LEMMA LogSaveBaseline ==
  ASSUME TypeOK, TypeOK', Held, LogInv, Lasting, SaveBaseline, ck' = [ck EXCEPT ![exec].snap = base]
  PROVE  LogInv'
  <1>1. saving /\ ~saving' /\ UNCHANGED <<pc, exec, base, conv, batch, turns, rec, outcome>>
    BY DEF SaveBaseline
  <1>2. pc \in InRun \cup Over /\ exec # None /\ ~(pc \in Over /\ outcome = "done")
    BY <1>1 DEF LogInv, SavingAt, Held, InRun, Over
  <1>3. /\ exec \in Exec /\ base \in Seq(Item) /\ Extends(base, conv)
        /\ OnceBut(conv, Excused') /\ \A x \in Members(conv) : Known(x, batch)
    BY <1>2, LogOn
  <1> DEFINE c == [ck[exec] EXCEPT !.snap = base]
  <1>4. c \in Checkpoint /\ ck' = [ck EXCEPT ![exec] = c] /\ c.snap = base /\ c.final = ck[exec].final
    BY <1>3, Updated
  <1>5. c.tail = ck[exec].tail
    BY <1>2, LogOn DEF Checkpoint
  <1> HIDE DEF c
  <1>6. Extends(base \o c.tail, conv)
    BY <1>1, <1>5 DEF LogInv, Grown
  <1>7. rec.turn # None /\ rec.turn.exec = exec /\ ~c.final /\ AnswerTo(batch[1]) \in Members(c.tail)
           => Spared(batch[1])'
    BY <1>1, <1>2, <1>4, <1>5, OwnFits DEF Fits
  <1>8. Fits(c)
    BY <1>1, <1>2, <1>3, <1>4, <1>6, <1>7, LogFits
  <1>9. pc' \in Asking => ~c.final /\ (AnswerTo(batch[1]) \in Members(conv') => Spared(batch[1])')
    BY <1>1, <1>2, <1>4 DEF LogInv, LogAnswered, Lasting
  <1>10. pc' \notin Starting
    BY <1>1, <1>2 DEF InRun, Over, Starting
  <1>11. ~(pc' \in Over /\ outcome' = "done")
    BY <1>1, <1>2
  <1>12. pc' = "settle" => pc' \in Over
    BY DEF Over
  <1>13. Extends(base, conv') /\ OnceBut(conv', Excused') /\ \A x \in Members(conv') : Known(x, batch)
    BY <1>1, <1>3
  <1>14. c.snap \in {None, base} /\ Extends(base \o c.tail, conv')
    BY <1>1, <1>4, <1>6
  <1> QED
    BY <1>1, <1>2, <1>4, <1>8, <1>9, <1>10, <1>11, <1>12, <1>13, <1>14, LogCheckpoint

LEMMA LogStepCheckpoint ==
  ASSUME TypeOK, TypeOK', Held, LogInv, Lasting, StepCheckpoint, ck' = [ck EXCEPT ![exec].snap = base]
  PROVE  LogInv'
  <1>1. /\ pc = "checkpoint" /\ pc' = "ending" /\ ~saving
        /\ UNCHANGED <<exec, base, conv, batch, saving, turns, rec, outcome>>
    BY DEF StepCheckpoint
  <1>2. /\ pc \in InRun /\ pc' \in InRun /\ pc' \notin Starting \cup Over \cup Asking /\ pc \notin Over
        /\ exec # None
    BY <1>1 DEF Held, InRun, Over, Starting, Asking
  <1>3. /\ exec \in Exec /\ base \in Seq(Item) /\ Extends(base, conv)
        /\ OnceBut(conv, Excused') /\ \A x \in Members(conv) : Known(x, batch)
    BY <1>2, LogOn
  <1> DEFINE c == [ck[exec] EXCEPT !.snap = base]
  <1>4. c \in Checkpoint /\ ck' = [ck EXCEPT ![exec] = c] /\ c.snap = base /\ c.final = ck[exec].final
    BY <1>3, Updated
  <1>5. c.tail = ck[exec].tail
    BY <1>2, LogOn DEF Checkpoint
  <1> HIDE DEF c
  <1>6. Extends(base \o c.tail, conv)
    BY <1>2, <1>5 DEF LogInv, Grown
  <1>7. rec.turn # None /\ rec.turn.exec = exec /\ ~c.final /\ AnswerTo(batch[1]) \in Members(c.tail)
           => Spared(batch[1])'
    BY <1>1, <1>2, <1>4, <1>5, OwnFits DEF Fits
  <1>8. Fits(c)
    BY <1>1, <1>2, <1>3, <1>4, <1>6, <1>7, LogFits
  <1>13. Extends(base, conv') /\ OnceBut(conv', Excused') /\ \A x \in Members(conv') : Known(x, batch)
    BY <1>1, <1>3
  <1>14. c.snap \in {None, base} /\ Extends(base \o c.tail, conv') /\ pc' # "settle" /\ ~saving'
    BY <1>1, <1>4, <1>6
  <1> QED
    BY <1>1, <1>2, <1>4, <1>8, <1>13, <1>14, LogCheckpoint

LEMMA LogStartRound ==
  ASSUME TypeOK, TypeOK', Held, QueueOnce, Apart, StagedNew, LogInv, Lasting, StartRound
  PROVE  LogInv'
  <1> DEFINE q == staged \o Offered
             l == SteerItems(q)
  <1>1. /\ pc = "ready" /\ pc' = "streaming" /\ conv' = conv \o l
        /\ UNCHANGED <<exec, base, batch, saving, turns, rec, ck, outcome, again>>
    BY DEF StartRound, stored, bounds, ghost
  <1>2. exec # None /\ pc \in InRun /\ pc \in Asking /\ pc \notin Over
        /\ pc' \in InRun /\ pc' \in Asking /\ pc' \notin Starting \cup Over
    BY <1>1 DEF Held, InRun, Asking, Over, Starting
  <1>3. /\ conv \in Seq(Item) /\ base \in Seq(Item) /\ Extends(base, conv)
        /\ OnceBut(conv, Excused') /\ \A x \in Members(conv) : Known(x, batch)
        /\ ck[exec] \in Checkpoint /\ ck = [ck EXCEPT ![exec] = ck[exec]] /\ ck[exec].tail \in Seq(Item)
    BY <1>2, LogOn
  <1>4. /\ Offered \in Seq(Msg) /\ q \in Seq(Msg) /\ Members(q) = Members(staged) \cup Members(Offered)
        /\ Members(Offered) = Members(queue) \cap (Steer \ Applied)
    BY OfferedOrApplied, SelectedMembers DEF Offered, TypeOK
  <1>5. OnceBut(q, again)
    <2>1. OnceBut(staged, again) /\ OnceBut(Offered, again) /\ staged \in Seq(Msg)
      BY OnceSelected DEF QueueOnce, Offered, TypeOK
    <2>2. Members(staged) \cap Members(Offered) \subseteq again
      BY <1>4 DEF Apart
    <2> QED
      BY <1>4, <2>1, <2>2, OnceConcat
  <1>6. l \in Seq(Item) /\ Members(l) = {Steered(m) : m \in Members(q)}
    BY <1>4, SteersAreItems
  <1>7. \A m \in again : Steered(m) \in Excused'
    <2>1. again \subseteq Msg
      BY DEF TypeOK
    <2> QED
      BY <1>1, <2>1 DEF Excused, Steered, Item
  <1>8. OnceBut(l, Excused')
    <2> DEFINE barred == Excused'
    <2>1. \A m \in again : Steered(m) \in barred
      BY <1>7
    <2> HIDE DEF barred, q
    <2>2. OnceBut(SteerItems(q), barred)
      BY <1>4, <1>5, <2>1, OnceAsItems
    <2> QED
      BY <2>2 DEF barred
  <1>9. Members(conv) \cap Members(l) \subseteq Excused'
    <2> SUFFICES ASSUME NEW m \in Members(q), Steered(m) \in Members(conv) PROVE Steered(m) \in Excused'
      BY <1>6
    <2>1. m \in Members(staged)
      BY <1>4 DEF Applied
    <2> QED
      BY <1>7, <2>1 DEF StagedNew
  <1> HIDE DEF q, l
  <1>10. conv' \in Seq(Item) /\ Members(conv') = Members(conv) \cup Members(l) /\ Extends(conv, conv')
    BY <1>1, <1>3, <1>6, ConcatMembers, ExtendsConcat
  <1>11. OnceBut(conv', Excused')
    <2> DEFINE barred == Excused'
    <2>1. OnceBut(conv, barred) /\ OnceBut(l, barred) /\ Members(conv) \cap Members(l) \subseteq barred
      BY <1>3, <1>8, <1>9
    <2> HIDE DEF barred
    <2>2. OnceBut(conv \o l, barred)
      BY <1>3, <1>6, <2>1, OnceConcat
    <2> QED
      BY <1>1, <2>2 DEF barred
  <1>12. \A x \in Members(l) : x.kind = "steer"
    BY <1>6 DEF Steered
  <1>13. \A x \in Members(conv') : Known(x, batch)
    BY <1>3, <1>10, <1>12 DEF Known
  <1>14. AnswerTo(batch[1]) \notin Members(l)
    BY <1>12 DEF AnswerTo
  <1>15. ~ck[exec].final /\ (AnswerTo(batch[1]) \in Members(conv') => Spared(batch[1])')
    BY <1>1, <1>2, <1>10, <1>14 DEF LogInv, LogAnswered, Lasting
  <1>16. Extends(base, conv') /\ Extends(base \o ck[exec].tail, conv') /\ ck[exec].snap \in {None, base}
    <2>1. base \o ck[exec].tail \in Seq(Item)
      BY <1>3, ConcatMembers
    <2>2. Extends(base \o ck[exec].tail, conv) /\ ck[exec].snap \in {None, base}
      BY <1>2 DEF LogInv, Grown, Snapped
    <2> QED
      BY <1>3, <1>10, <2>1, <2>2, ExtendsOn
  <1>17. Fits(ck[exec])
    BY <1>1, <1>2, OwnFits
  <1>18. ck' = [ck EXCEPT ![exec] = ck[exec]] /\ pc' # "settle"
    BY <1>1, <1>3
  <1> QED
    BY <1>1, <1>2, <1>3, <1>11, <1>13, <1>15, <1>16, <1>17, <1>18, LogCheckpoint

(* What is recorded of a turn is its log behind what the turn began with. *)
LEMMA LogRecorded ==
  ASSUME TypeOK, TypeOK', Held, LogInv, Lasting, exec # None,
         UNCHANGED <<exec, base, batch, turns, rec, saving, outcome>>,
         NEW c \in Checkpoint, ck' = [ck EXCEPT ![exec] = c], c.snap = ck[exec].snap,
         c.tail = SubSeq(conv', Len(base) + 1, Len(conv')),
         pc \in Asking, pc' \in InRun,
         conv' \in Seq(Item), Extends(conv, conv'), OnceBut(conv', Excused'),
         \A x \in Members(conv') : Known(x, batch),
         c.final \/ (~ck[exec].final /\ conv' = conv),
         pc' \in Asking => conv' = conv /\ ~c.final
  PROVE  LogInv'
  <1>1. /\ pc' \notin Starting \cup Over /\ pc' # "settle" /\ pc \notin Over /\ pc \in InRun
    BY DEF InRun, Starting, Over, Asking
  <1>2. base \in Seq(Item) /\ conv \in Seq(Item) /\ Extends(base, conv)
    BY LogOn
  <1>3. Extends(base, conv')
    BY <1>2, ExtendsOn
  <1>4. c.tail \in Seq(Item) /\ base \o c.tail = conv'
    <2> DEFINE log == conv'
    <2>1. log \in Seq(Item) /\ Extends(base, log) /\ c.tail = SubSeq(log, Len(base) + 1, Len(log))
      BY <1>3
    <2> HIDE DEF log
    <2>2. c.tail \in Seq(Item) /\ base \o c.tail = log
      BY <1>2, <2>1, ExtendsAndRest
    <2> QED
      BY <2>2 DEF log
  <1>5. Extends(base \o c.tail, conv') /\ c.snap \in {None, base}
    BY <1>1, <1>4, ExtendsItself DEF LogInv, Snapped
  <1>6. Members(c.tail) \subseteq Members(conv')
    <2> DEFINE t == c.tail
    <2>1. base \in Seq(Item) /\ t \in Seq(Item) /\ base \o t = conv'
      BY <1>2, <1>4
    <2> HIDE DEF t
    <2>2. Members(base \o t) = Members(base) \cup Members(t)
      BY <2>1, ConcatMembers
    <2> QED
      BY <2>1, <2>2 DEF t
  <1>7. AnswerTo(batch[1]) \in Members(conv) => Spared(batch[1])'
    BY DEF LogInv, LogAnswered, Lasting
  <1>8. ~c.final /\ AnswerTo(batch[1]) \in Members(c.tail) => Spared(batch[1])'
    BY <1>6, <1>7
  <1>9. Fits(c)
    BY <1>5, <1>8, LogFits
  <1>10. pc' \in Asking => ~c.final /\ (AnswerTo(batch[1]) \in Members(conv') => Spared(batch[1])')
    BY <1>7
  <1>11. saving' => pc' \in InRun
    OBVIOUS
  <1> QED
    BY <1>1, <1>3, <1>5, <1>9, <1>10, <1>11, LogCheckpoint

LEMMA LogRecordRound ==
  ASSUME TypeOK, TypeOK', Held, LogInv, Lasting, RecordRound, ck' # ck
  PROVE  LogInv'
  <1>1. /\ pc = "recordRound" /\ pc' = "ready"
        /\ UNCHANGED <<exec, base, conv, batch, turns, rec, saving, outcome>>
        /\ ck' = [ck EXCEPT ![exec].tail = SubSeq(conv, Len(base) + 1, Len(conv)),
                            ![exec].rounds = round + 1]
    BY DEF RecordRound
  <1>2. exec # None /\ pc \in Asking /\ pc' \in InRun
    BY <1>1 DEF Held, Asking, InRun
  <1>3. /\ exec \in Exec /\ conv \in Seq(Item) /\ OnceBut(conv, Excused')
        /\ \A x \in Members(conv) : Known(x, batch)
    BY <1>2, LogOn
  <1>4. ck \in [Exec -> Checkpoint] /\ ck' \in [Exec -> Checkpoint]
    BY DEF TypeOK
  <1> DEFINE c == ck'[exec]
  <1>5. c \in Checkpoint /\ ck' = [ck EXCEPT ![exec] = c]
    <2>1. \A e \in Exec : e # exec => ck'[e] = ck[e]
      BY <1>1, <1>4
    <2> QED
      BY <1>3, <1>4, <2>1
  <1>6. /\ c.snap = ck[exec].snap /\ c.final = ck[exec].final
        /\ c.tail = SubSeq(conv, Len(base) + 1, Len(conv))
    BY <1>1, <1>3, <1>4 DEF Checkpoint
  <1>7. ~ck[exec].final /\ ck[exec].final \in BOOLEAN
    BY <1>2, LogOn DEF LogInv, LogAnswered
  <1> HIDE DEF c
  <1>8. /\ conv' = conv /\ conv' \in Seq(Item) /\ OnceBut(conv', Excused') /\ Extends(conv, conv')
        /\ \A x \in Members(conv') : Known(x, batch)
    BY <1>1, <1>3, ExtendsItself
  <1>9. c.tail = SubSeq(conv', Len(base) + 1, Len(conv'))
    BY <1>1, <1>6
  <1> QED
    BY <1>1, <1>2, <1>5, <1>6, <1>7, <1>8, <1>9, LogRecorded

LEMMA LogAnswer ==
  ASSUME TypeOK, TypeOK', Held, LogInv, Lasting, Answer
  PROVE  LogInv'
  <1> DEFINE a == AnswerTo(batch[1])
  <1>1. /\ pc = "streaming" /\ pc' = "checkpoint" /\ conv' = Append(conv, a)
        /\ UNCHANGED <<exec, base, batch, turns, rec, saving, outcome>>
        /\ \/ UNCHANGED ck
           \/ ck' = [ck EXCEPT ![exec].tail = SubSeq(conv', Len(base) + 1, Len(conv')),
                               ![exec].final = TRUE]
    BY DEF Answer
  <1>2. /\ exec # None /\ pc \in Asking /\ pc \in InRun /\ pc' \in InRun
        /\ pc' \notin Asking \cup Starting \cup Over /\ pc \notin Over /\ pc' # "settle"
    BY <1>1 DEF Held, Asking, InRun, Starting, Over
  <1>3. /\ exec \in Exec /\ base \in Seq(Item) /\ conv \in Seq(Item) /\ OnceBut(conv, Excused')
        /\ \A x \in Members(conv) : Known(x, batch)
        /\ ck[exec] \in Checkpoint /\ ck = [ck EXCEPT ![exec] = ck[exec]] /\ ck[exec].tail \in Seq(Item)
        /\ Extends(base, conv)
    BY <1>2, LogOn
  <1>4. a \in Item /\ a.kind = "answer" /\ a.msg = batch[1]
    <2>1. batch \in Seq(Msg) /\ batch # <<>>
      BY <1>1 DEF TypeOK, Held
    <2>2. batch[1] \in Msg
      BY <2>1, EmptySeq, LenProperties, ElementOfSeq
    <2> QED
      BY <2>2 DEF AnswerTo, Item
  <1>5. a \in Members(conv) => a \in Excused'
    <2>1. a \in Members(conv) => Spared(batch[1])'
      BY <1>1, <1>2 DEF LogInv, LogAnswered, Lasting
    <2> QED
      BY <1>1, <1>4, <2>1 DEF Spared, Excused
  <1> HIDE DEF a
  <1>6. /\ conv' \in Seq(Item) /\ Members(conv') = Members(conv) \cup {a} /\ Extends(conv, conv')
    <2>1. Append(conv, a) \in Seq(Item) /\ Members(Append(conv, a)) = Members(conv) \cup {a}
      BY <1>3, <1>4, AppendMembers
    <2> QED
      BY <1>1, <1>3, <2>1, AppendExtends
  <1>7. OnceBut(conv', Excused')
    <2> DEFINE barred == Excused'
    <2>1. OnceBut(conv, barred) /\ (a \in Members(conv) => a \in barred)
      BY <1>3, <1>5
    <2> HIDE DEF barred
    <2>2. OnceBut(Append(conv, a), barred)
      BY <1>3, <1>4, <2>1, OnceAppend
    <2> QED
      BY <1>1, <2>2 DEF barred
  <1>8. \A x \in Members(conv') : Known(x, batch)
    BY <1>3, <1>4, <1>6 DEF Known
  <1>9. CASE UNCHANGED ck
    <2>1. base \o ck[exec].tail \in Seq(Item)
      BY <1>3, ConcatMembers
    <2>2. Extends(base \o ck[exec].tail, conv) /\ ck[exec].snap \in {None, base}
      BY <1>2 DEF LogInv, Grown, Snapped
    <2>3. Extends(base, conv') /\ Extends(base \o ck[exec].tail, conv')
      BY <1>3, <1>6, <2>1, <2>2, ExtendsOn
    <2>4. Fits(ck[exec])
      BY <1>1, <1>2, OwnFits
    <2>5. ck' = [ck EXCEPT ![exec] = ck[exec]]
      BY <1>3, <1>9
    <2> QED
      BY <1>1, <1>2, <1>3, <1>7, <1>8, <2>2, <2>3, <2>4, <2>5, LogCheckpoint
  <1>10. CASE ck' = [ck EXCEPT ![exec].tail = SubSeq(conv', Len(base) + 1, Len(conv')),
                               ![exec].final = TRUE]
    <2>1. ck \in [Exec -> Checkpoint] /\ ck' \in [Exec -> Checkpoint]
      BY DEF TypeOK
    <2> DEFINE c == ck'[exec]
    <2>2. c \in Checkpoint /\ ck' = [ck EXCEPT ![exec] = c]
      <3>1. \A e \in Exec : e # exec => ck'[e] = ck[e]
        BY <1>10, <2>1
      <3> QED
        BY <1>3, <2>1, <3>1
    <2>3. c.snap = ck[exec].snap /\ c.final /\ c.tail = SubSeq(conv', Len(base) + 1, Len(conv'))
      BY <1>3, <1>10, <2>1 DEF Checkpoint
    <2> HIDE DEF c
    <2> QED
      BY <1>1, <1>2, <1>6, <1>7, <1>8, <2>2, <2>3, LogRecorded
  <1> QED
    BY <1>1, <1>9, <1>10

LEMMA LogEndRun ==
  ASSUME TypeOK, TypeOK', Held, LogInv, Lasting, EndRun, ck' # ck
  PROVE  LogInv'
  <1>1. /\ pc = "ending" /\ pc' = "keep" /\ ~saving
        /\ UNCHANGED <<exec, base, conv, batch, turns, rec, saving>>
        /\ ck' = [ck EXCEPT ![exec] = [NoCheckpoint EXCEPT !.snap = conv]]
    BY DEF EndRun, KeepHistory
  <1>2. exec # None /\ pc' \in Over /\ pc' \notin Starting \cup InRun \cup Asking
    BY <1>1 DEF Held, Over, InRun, Starting, Asking
  <1>3. /\ exec \in Exec /\ conv \in Seq(Item) /\ OnceBut(conv, Excused') /\ Extends(base, conv)
        /\ \A x \in Members(conv) : Known(x, batch)
    BY <1>2, LogOn
  <1> DEFINE c == [NoCheckpoint EXCEPT !.snap = conv]
  <1>4. c \in Checkpoint /\ c.snap = conv /\ c.tail = <<>> /\ ck' = [ck EXCEPT ![exec] = c]
    BY <1>1, <1>3, Updated DEF NoCheckpoint
  <1> HIDE DEF c
  <1>5. Snapshot(c) = conv /\ Whole(c) = conv /\ Items(c) = Members(conv) /\ Members(c.tail) = {}
    <2>1. Snapshot(c) = conv
      <3>1. conv # None
        BY Typed
      <3> QED
        BY <1>4, <3>1 DEF Snapshot
    <2>2. conv \o <<>> = conv
      BY <1>3, ConcatEmptySeq
    <2>3. Members(<<>>) = {}
      BY DEF Members
    <2> QED
      BY <1>4, <2>1, <2>2, <2>3 DEF Whole, Items
  <1>6. Fits(c)
    BY <1>2, <1>3, <1>5 DEF Fits
  <1>7. Extends(base, conv') /\ OnceBut(conv', Excused') /\ \A x \in Members(conv') : Known(x, batch)
    BY <1>1, <1>3
  <1> QED
    BY <1>1, <1>2, <1>4, <1>6, <1>7, LogCheckpoint

(* What is dropped of an execution leaves the rest of it. *)
LEMMA LogClear ==
  ASSUME TypeOK, TypeOK', Held, LogInv, Lasting, Clear \/ ClearLedger, ck' # ck \/ outcome' = "done"
  PROVE  LogInv'
  <1>1. /\ pc \in {"clear", "clearLedger"} /\ pc' \in {"clearLedger", "settle"}
        /\ UNCHANGED <<exec, base, conv, batch, turns, rec, saving>>
        /\ \/ ck' = [ck EXCEPT ![exec].snap = None] /\ pc' = "clearLedger" /\ UNCHANGED outcome
           \/ ck' = [ck EXCEPT ![exec] = NoCheckpoint] /\ UNCHANGED outcome
    BY DEF Clear, ClearLedger, Settle
  <1>2. /\ exec # None /\ pc \in Over /\ pc' \in Over /\ pc' \notin Starting \cup InRun \cup Asking
        /\ (outcome' = "done" => ~saving')
    BY <1>1 DEF Held, Over, InRun, Starting, Asking, LogInv, SavingAt
  <1>3. /\ exec \in Exec /\ conv \in Seq(Item) /\ OnceBut(conv, Excused') /\ Extends(base, conv)
        /\ \A x \in Members(conv) : Known(x, batch)
        /\ ck[exec].tail \in Seq(Item) /\ ck[exec].snap \in Seq(Item) \cup {None}
    BY <1>2, LogOn, Typed
  <1>4. Members(<<>>) = {} /\ <<>> \in Seq(Item)
    BY EmptySeq DEF Members
  <1>5. Fits(ck[exec])
    BY <1>1, <1>2, OwnFits
  <1>6. Extends(base, conv') /\ OnceBut(conv', Excused') /\ \A x \in Members(conv') : Known(x, batch)
    BY <1>1, <1>3
  <1>7. saving' => pc' \in Over
    BY <1>2
  <1>8. CASE ck' = [ck EXCEPT ![exec].snap = None] /\ pc' = "clearLedger" /\ UNCHANGED outcome
    <2> DEFINE c == [ck[exec] EXCEPT !.snap = None]
    <2>1. c \in Checkpoint /\ ck' = [ck EXCEPT ![exec] = c] /\ c.snap = None /\ c.final = ck[exec].final
      BY <1>3, <1>8, Updated
    <2>2. c.tail = ck[exec].tail
      BY <1>2, LogOn DEF Checkpoint
    <2> HIDE DEF c
    <2>3. Snapshot(c) = <<>> /\ Whole(c) = c.tail /\ Items(c) = Members(c.tail)
      <3>1. Snapshot(c) = <<>>
        BY <2>1 DEF Snapshot
      <3>2. <<>> \o c.tail = c.tail
        BY <1>3, <2>2, ConcatEmptySeq
      <3> QED
        BY <1>4, <3>1, <3>2 DEF Whole, Items
    <2>4. OnceBut(c.tail, Excused')
      <3> DEFINE barred == Excused'
                 snap == Snapshot(ck[exec])
                 t == ck[exec].tail
      <3>1. OnceBut(snap \o t, barred)
        BY <1>5 DEF Fits, Whole
      <3>2. snap \in Seq(Item) /\ t \in Seq(Item)
        BY <1>3, <1>4 DEF Snapshot
      <3> HIDE DEF barred, snap, t
      <3>3. OnceBut(t, barred)
        BY <3>1, <3>2, OnceSuffix
      <3> QED
        BY <2>2, <3>3 DEF barred, t
    <2>5. Fits(c)
      BY <1>4, <1>5, <2>1, <2>2, <2>3, <2>4 DEF Fits, Items
    <2>6. saving' => c.snap \in {None, base} /\ Extends(base \o c.tail, conv')
      BY <1>1, <2>1, <2>2 DEF LogInv, Grown
    <2>7. pc' # "settle"
      BY <1>8
    <2> QED
      BY <1>1, <1>2, <1>6, <1>7, <1>8, <2>1, <2>5, <2>6, <2>7, LogCheckpoint
  <1>9. CASE ck' = [ck EXCEPT ![exec] = NoCheckpoint] /\ UNCHANGED outcome
    <2> DEFINE c == NoCheckpoint
    <2>1. c \in Checkpoint /\ c.tail = <<>> /\ Snapshot(c) = <<>>
      BY <1>3, Updated DEF NoCheckpoint, Snapshot
    <2>2. Whole(c) = <<>> /\ Items(c) = {}
      <3>1. <<>> \o <<>> = <<>>
        BY <1>4, ConcatEmptySeq
      <3> QED
        BY <1>4, <2>1, <3>1 DEF Whole, Items
    <2>3. Fits(c)
      BY <1>4, <2>1, <2>2, OnceShort DEF Fits
    <2>4. c.snap \in {None, base} /\ Extends(base \o c.tail, conv')
      <3>1. base \o <<>> = base
        BY Typed, ConcatEmptySeq
      <3> QED
        BY <1>6, <2>1, <3>1 DEF NoCheckpoint
    <2> HIDE DEF c
    <2>5. ck' = [ck EXCEPT ![exec] = c] /\ c = NoCheckpoint
      BY <1>9 DEF c
    <2> QED
      BY <1>1, <1>2, <1>6, <1>7, <1>9, <2>1, <2>3, <2>4, <2>5, LogCheckpoint
  <1> QED
    BY <1>1, <1>8, <1>9

-----------------------------------------------------------------------------
(* The operations of the record. *)

(* Between turns nothing is being saved. *)
LEMMA LogIdle ==
  ASSUME Held, LogInv, pc \in {"create", "abandon"}
  PROVE  exec = None /\ ~saving /\ pc \notin Over \cup InRun \cup Starting \cup Asking
  BY DEF Held, LogInv, SavingAt, Over, InRun, Starting, Asking

LEMMA LogResume ==
  ASSUME TypeOK, TypeOK', Held, OneOp, LogInv, Lasting, Resume
  PROVE  LogInv'
  <1> DEFINE e == rec.turn.exec
             s == Snapshot(ck[e])
             t == ck[e].tail
  <1>1. /\ pc \in {"create", "abandon"} /\ pc' = "steers" /\ rec.turn # None /\ rec.turn.ids = batch
        /\ UNCHANGED <<rec, ck, turns, saving, batch, outcome>>
        /\ exec' = e /\ base' = s /\ conv' = s
    BY RunningAt DEF Resume, Prepared, stored, Restored, Snapshot
  <1>2. /\ exec = None /\ ~saving /\ ~saving' /\ e \in Exec /\ None \notin Exec
        /\ pc' \in Starting /\ pc' \notin InRun \cup Over \cup Asking
    BY <1>1, LogIdle, Typed DEF InRun, Over, Asking, Starting
  <1>3. /\ ck[e].snap \in Seq(Item) \cup {None} /\ t \in Seq(Item) /\ None \notin Seq(Item)
        /\ ck[e].snap \in {None, s} /\ s \in Seq(Item)
    BY <1>2, Typed, EmptySeq DEF Snapshot
  <1>4. OnceBut(s \o t, Excused') /\ OnceBut(s, Excused')
    <2> DEFINE barred == Excused'
    <2>1. Excused \subseteq barred /\ OnceBut(Whole(ck[e]), Excused)
      BY <1>2 DEF Lasting, LogInv, LogsOnce
    <2> HIDE DEF barred
    <2>2. OnceBut(s \o t, barred)
      BY <2>1, OnceBarring DEF Whole
    <2> HIDE DEF s, t
    <2>3. s \o t \in Seq(Item) /\ Extends(s, s \o t)
      BY <1>3, ConcatMembers, ExtendsConcat
    <2>4. OnceBut(s, barred)
      BY <1>3, <2>2, <2>3, OncePrefix
    <2> QED
      BY <2>2, <2>4 DEF barred
  <1>5. LogKnown' /\ TailKnown' /\ RecKnown'
    <2>1. \A x \in Members(s) \cup Members(t) : Known(x, batch)
      BY <1>1 DEF LogInv, RecKnown, Items
    <2>2. RecKnown'
      BY <1>1 DEF LogInv, RecKnown, Known, Items, Snapshot
    <2> QED
      BY <1>1, <2>1, <2>2 DEF LogKnown, TailKnown, Known
  <1>6. Grown' /\ Snapped' /\ SavingAt'
    <2>1. Extends(base', conv') /\ base' = conv'
      BY <1>1, <1>3, ExtendsItself
    <2> QED
      BY <1>1, <1>2, <1>3, <2>1 DEF Grown, Snapped, SavingAt
  <1>7. TailOnce' /\ LogsOnce' /\ ConvOnce' /\ StoredOnce'
    <2> DEFINE barred == Excused'
    <2>1. Excused \subseteq barred
      BY DEF Lasting
    <2> HIDE DEF barred
    <2>2. LogsOnce => \A x \in Exec : OnceBut(Whole(ck[x]), barred)
      BY <2>1, OnceBarring DEF LogsOnce
    <2>3. StoredOnce => OnceBut(rec.items, barred)
      BY <2>1, OnceBarring DEF StoredOnce
    <2>4. LogsOnce'
      BY <1>1, <2>2 DEF LogInv, LogsOnce, Whole, Snapshot, barred
    <2>5. TailOnce' /\ ConvOnce' /\ StoredOnce'
      BY <1>1, <1>4, <2>3 DEF LogInv, TailOnce, ConvOnce, StoredOnce, barred
    <2> QED
      BY <2>4, <2>5
  <1>8. /\ AnswerTo(batch[1]) \in Members(s) => Spared(batch[1])'
        /\ ~ck[e].final /\ AnswerTo(batch[1]) \in Members(t) => Spared(batch[1])'
    <2>1. Spared(batch[1]) => Spared(batch[1])'
      BY <1>1 DEF Lasting
    <2>2. ~(exec = e)
      BY <1>2
    <2> QED
      BY <1>1, <2>1, <2>2 DEF LogInv, RecAnswered
  <1>9. LogAnswered' /\ RecAnswered'
    <2>1. LogAnswered'
      BY <1>1, <1>2, <1>8 DEF LogAnswered
    <2>2. RecAnswered'
      BY <1>1, <1>8 DEF RecAnswered, Snapshot
    <2> QED
      BY <2>1, <2>2
  <1>10. Numbered' /\ SameTurn' /\ Cleared'
    <2>1. Numbered'
      BY <1>1 DEF LogInv, Numbered
    <2> QED
      BY <1>1, <2>1 DEF SameTurn, Cleared
  <1> QED
    BY <1>5, <1>6, <1>7, <1>9, <1>10 DEF LogInv

(* A fresh turn's input is not in the stored history yet. *)
LEMMA FreshLog ==
  ASSUME TypeOK, QueueOnce, ComingNew, StoredOnce, pc \in {"create", "abandon"}, batch # <<>>
  PROVE  LET l == rec.items \o Inputs(batch) IN
         /\ l \in Seq(Item) /\ OnceBut(l, Excused)
         /\ Members(l) = Members(rec.items) \cup Members(Inputs(batch))
         /\ AnswerTo(batch[1]) \in Members(l) => Spared(batch[1])
  <1> DEFINE i == Inputs(batch)
  <1>1. /\ rec.items \in Seq(Item) /\ batch \in Seq(Msg) /\ again \subseteq Msg /\ i \in Seq(Item)
        /\ Members(i) = {Input(m) : m \in Members(batch)} /\ Members(batch) \subseteq Msg
    BY Typed, InputsAreItems, MembersAre DEF TypeOK
  <1>2. batch[1] \in Members(batch)
    BY <1>1, EmptySeq, LenProperties DEF Members
  <1>3. \A m \in Members(batch) : m \in again \/ Unseen(m)
    BY <1>1 DEF ComingNew, Coming
  <1>4. \A m \in again : Input(m) \in Excused
    BY <1>1 DEF Excused, Input, Item
  <1>5. OnceBut(i, Excused)
    BY <1>1, <1>4, OnceAsItems DEF QueueOnce
  <1>6. Members(rec.items) \cap Members(i) \subseteq Excused
    BY <1>1, <1>3, <1>4 DEF Unseen
  <1>7. AnswerTo(batch[1]) \notin Members(i)
    BY <1>1 DEF Input, AnswerTo
  <1>8. AnswerTo(batch[1]) \in Members(rec.items) => Spared(batch[1])
    BY <1>2, <1>3 DEF Unseen, Spared
  <1> HIDE DEF i
  <1>9. rec.items \o i \in Seq(Item) /\ Members(rec.items \o i) = Members(rec.items) \cup Members(i)
    BY <1>1, ConcatMembers
  <1>10. OnceBut(rec.items \o i, Excused)
    BY <1>1, <1>5, <1>6, OnceConcat DEF StoredOnce
  <1> QED
    BY <1>7, <1>8, <1>9, <1>10 DEF i

LEMMA LogFresh ==
  ASSUME TypeOK, TypeOK', Held, OneOp, QueueOnce, ComingNew, LogInv, Lasting, Fresh
  PROVE  LogInv'
  <1> DEFINE l == rec.items \o Inputs(batch)
  <1>1. /\ pc \in {"create", "abandon"} /\ pc' = "steers" /\ UNCHANGED <<saving, batch, outcome>>
        /\ turns < MaxTurns /\ turns' = turns + 1 /\ exec' = turns + 1
        /\ rec' = (IF Abandoned /\ pc = "create" THEN NoTurn(rec) ELSE rec)
        /\ ck' = (IF Abandoned THEN [ck EXCEPT ![rec.turn.exec] = NoCheckpoint] ELSE ck)
        /\ base' = l /\ conv' = l
    BY RunningAt DEF Fresh, Prepared, NextExec
  <1>2. /\ exec = None /\ ~saving /\ ~saving' /\ batch # <<>> /\ None \notin Exec /\ Exec \subseteq Nat
        /\ pc' \in Starting /\ pc' \notin InRun \cup Over \cup Asking
    BY <1>1, LogIdle, Typed DEF Held, InRun, Over, Asking, Starting
  <1>3. turns \in 0 .. MaxTurns /\ MaxTurns \in Nat
    BY SessionAssumption DEF LogInv, Numbered
  <1>4. exec' \in Exec /\ exec' # None /\ exec' > turns
    BY <1>1, <1>2, <1>3 DEF Exec
  <1>5. rec'.items = rec.items /\ (rec'.turn # None => rec'.turn = rec.turn)
    BY <1>1, RecordParts
  <1>6. ck \in [Exec -> Checkpoint]
    BY DEF TypeOK
  <1>7. ASSUME NEW e \in Exec PROVE ck'[e] = ck[e] \/ ck'[e] = NoCheckpoint
    BY <1>1, <1>6
  <1>8. ASSUME NEW e \in Exec, e > turns PROVE ck'[e] = NoCheckpoint
    BY <1>7, <1>8 DEF LogInv, Numbered
  <1>9. ck'[exec'] = NoCheckpoint
    BY <1>4, <1>8
  <1>10. /\ Members(<<>>) = {} /\ Snapshot(NoCheckpoint) = <<>> /\ NoCheckpoint.tail = <<>>
         /\ NoCheckpoint.snap = None /\ Items(NoCheckpoint) = {} /\ Whole(NoCheckpoint) = <<>>
    <2>1. Members(<<>>) = {}
      BY DEF Members
    <2>2. /\ Snapshot(NoCheckpoint) = <<>> /\ NoCheckpoint.tail = <<>> /\ NoCheckpoint.snap = None
      BY DEF Snapshot, NoCheckpoint
    <2>3. <<>> \o <<>> = <<>>
      BY EmptySeq, ConcatEmptySeq
    <2> QED
      BY <2>1, <2>2, <2>3 DEF Items, Whole
  <1>11. /\ l \in Seq(Item) /\ OnceBut(l, Excused)
         /\ Members(l) = Members(rec.items) \cup Members(Inputs(batch))
         /\ AnswerTo(batch[1]) \in Members(l) => Spared(batch[1])
    BY <1>1, <1>2, FreshLog DEF LogInv
  <1>12. Members(Inputs(batch)) = {Input(m) : m \in Members(batch)}
    BY InputsAreItems DEF TypeOK
  <1>13. l \o <<>> = l
    BY <1>11, ConcatEmptySeq
  <1> HIDE DEF l
  <1>14. \A e \in Exec : rec'.turn # None /\ e = rec'.turn.exec => rec.turn # None /\ rec.turn.exec = e
    BY <1>5
  <1>15. rec'.turn # None => rec'.turn.exec \in Exec /\ rec'.turn.exec <= turns
    <2>1. rec.turn # None => rec.turn.exec \in Exec /\ rec.turn.exec <= turns
      BY Typed DEF LogInv, Numbered
    <2> QED
      BY <1>5, <2>1
  <1>16. LogKnown' /\ TailKnown' /\ RecKnown'
    <2>1. \A x \in Members(l) : Known(x, batch)'
      BY <1>1, <1>5, <1>11, <1>12 DEF Known, Input
    <2>2. LogKnown'
      BY <1>1, <2>1 DEF LogKnown
    <2>3. TailKnown'
      BY <1>9, <1>10 DEF TailKnown
    <2>4. RecKnown'
      <3>1. ASSUME rec'.turn # None, NEW x \in Items(ck'[rec.turn.exec]) PROVE Known(x, rec.turn.ids)
        <4>1. rec.turn # None /\ rec.turn.exec \in Exec
          BY <1>5, <3>1, Typed
        <4>2. ck'[rec.turn.exec] = ck[rec.turn.exec]
          BY <1>7, <1>10, <3>1, <4>1
        <4> QED
          BY <3>1, <4>1, <4>2 DEF LogInv, RecKnown
      <3> QED
        BY <1>5, <3>1 DEF RecKnown, Known, Items, Snapshot
    <2> QED
      BY <2>2, <2>3, <2>4
  <1>17. Grown' /\ Snapped' /\ SavingAt'
    <2>1. Extends(base', conv') /\ base' = conv'
      BY <1>1, <1>11, ExtendsItself
    <2> QED
      BY <1>2, <1>9, <1>10, <2>1 DEF Grown, Snapped, SavingAt
  <1>18. TailOnce' /\ LogsOnce' /\ ConvOnce' /\ StoredOnce'
    <2> DEFINE barred == Excused'
    <2>1. Excused \subseteq barred
      BY DEF Lasting
    <2> HIDE DEF barred
    <2>2. ASSUME NEW e \in Exec PROVE OnceBut(Whole(ck'[e]), barred)
      <3>1. OnceBut(Whole(ck[e]), barred)
        BY <2>1, OnceBarring DEF LogInv, LogsOnce
      <3> QED
        BY <1>7, <1>10, <3>1, OnceShort
    <2>3. OnceBut(rec.items, barred) /\ OnceBut(l, barred)
      BY <1>11, <2>1, OnceBarring DEF LogInv, StoredOnce
    <2>4. LogsOnce'
      BY <2>2 DEF LogsOnce, Whole, Snapshot, barred
    <2>5. TailOnce' /\ ConvOnce' /\ StoredOnce'
      BY <1>1, <1>5, <1>9, <1>10, <1>13, <2>3 DEF TailOnce, ConvOnce, StoredOnce, barred
    <2> QED
      BY <2>4, <2>5
  <1>19. LogAnswered'
    <2>1. AnswerTo(batch[1]) \in Members(l) => Spared(batch[1])'
      BY <1>1, <1>11 DEF Lasting
    <2> QED
      BY <1>1, <1>2, <1>9, <1>10, <2>1 DEF LogAnswered
  <1>20. RecAnswered'
    <2> DEFINE e == rec.turn.exec
               m == rec.turn.ids[1]
    <2> SUFFICES ASSUME rec'.turn # None
                 PROVE  /\ AnswerTo(m) \in Members(Snapshot(ck'[e])) => Spared(m)'
                        /\ ~ck'[e].final /\ AnswerTo(m) \in Members(ck'[e].tail) => Spared(m)'
      BY <1>5 DEF RecAnswered, Snapshot
    <2>1. e \in Exec /\ rec.turn # None /\ rec'.turn = rec.turn
      BY <1>5, <1>15
    <2>2. ~(exec = e)
      BY <1>2, <2>1
    <2>3. Spared(m) => Spared(m)'
      BY <2>1 DEF Lasting
    <2> QED
      BY <1>7, <1>10, <2>1, <2>2, <2>3 DEF LogInv, RecAnswered
  <1>21. Numbered'
    <2>1. \A e \in Exec : e > turns' => e > turns
      BY <1>1, <1>2, <1>3
    <2>2. turns' \in 0 .. MaxTurns /\ exec' <= turns'
      BY <1>1, <1>3
    <2>3. rec'.turn # None => rec'.turn.exec <= turns'
      <3>1. turns \in Nat /\ turns' = turns + 1
        BY <1>1, <1>3
      <3>2. \A e \in Exec : e <= turns => e <= turns'
        BY <1>2, <3>1
      <3> QED
        BY <1>15, <3>2
    <2> QED
      BY <1>8, <2>1, <2>2, <2>3 DEF Numbered
  <1>22. SameTurn' /\ Cleared'
    <2>1. rec'.turn # None => rec'.turn.exec # exec'
      BY <1>2, <1>3, <1>4, <1>15
    <2> QED
      BY <1>1, <2>1 DEF SameTurn, Cleared
  <1> QED
    BY <1>16, <1>17, <1>18, <1>19, <1>20, <1>21, <1>22 DEF LogInv

LEMMA LogBegin ==
  ASSUME TypeOK, TypeOK', Held, OneOp, LogInv, Lasting, Begin, rec' # rec
  PROVE  LogInv'
  <1>1. /\ pc = "begin" /\ pc' = "run"
        /\ UNCHANGED <<exec, base, conv, batch, ck, turns, saving, outcome>>
        /\ rec'.items = rec.items /\ rec'.turn = [exec |-> exec, ids |-> batch]
    BY RunningAt, RecordParts DEF Begin, bounds
  <1>2. /\ exec # None /\ pc \in Starting /\ pc' \in Starting /\ pc' \notin InRun \cup Over \cup Asking
        /\ rec'.turn.exec = exec /\ rec'.turn.ids = batch /\ ~saving
    <2>1. /\ exec # None /\ pc \in Starting /\ pc' \in Starting /\ pc' \notin InRun \cup Over \cup Asking
          /\ pc \notin InRun \cup Over
      BY <1>1 DEF Held, Starting, InRun, Over, Asking
    <2> QED
      BY <1>1, <2>1 DEF LogInv, SavingAt
  <1>3. /\ exec \in Exec /\ conv = base /\ \A x \in Members(base) : Known(x, batch)
        /\ ck[exec].snap \in {None, base} /\ Members(<<>>) = {}
        /\ \A x \in Members(ck[exec].tail) : Known(x, batch)
    <2>1. Members(<<>>) = {} /\ exec \in Exec
      BY <1>2, Typed DEF Members
    <2> QED
      BY <1>2, <2>1 DEF LogInv, Grown, Snapped, LogKnown, TailKnown
  <1>4. Members(Snapshot(ck[exec])) \subseteq Members(base)
    BY <1>3 DEF Snapshot
  <1>5. LogKnown' /\ TailKnown' /\ RecKnown'
    <2>1. LogKnown'
      BY <1>1 DEF LogInv, LogKnown, Known
    <2>2. TailKnown'
      BY <1>1, <1>2 DEF LogInv, TailKnown, Known
    <2>3. \A x \in Items(ck[exec]) : Known(x, batch)
      BY <1>3, <1>4 DEF Items
    <2>4. RecKnown'
      BY <1>1, <1>2, <2>3 DEF RecKnown, Known, Items, Snapshot
    <2> QED
      BY <2>1, <2>2, <2>4
  <1>6. Grown' /\ Snapped' /\ SavingAt'
    BY <1>1, <1>2 DEF LogInv, Grown, Snapped, SavingAt
  <1>7. TailOnce' /\ LogsOnce' /\ ConvOnce' /\ StoredOnce'
    <2> DEFINE barred == Excused'
    <2>1. Excused \subseteq barred
      BY DEF Lasting
    <2> HIDE DEF barred
    <2>2. OnceBut(base \o ck[exec].tail, barred)
      BY <1>2, <2>1, OnceBarring DEF LogInv, TailOnce
    <2>3. \A e \in Exec : OnceBut(Whole(ck[e]), barred)
      BY <2>1, OnceBarring DEF LogInv, LogsOnce
    <2>4. OnceBut(conv, barred) /\ OnceBut(rec.items, barred)
      BY <2>1, OnceBarring DEF LogInv, ConvOnce, StoredOnce
    <2> QED
      BY <1>1, <2>2, <2>3, <2>4 DEF TailOnce, LogsOnce, ConvOnce, StoredOnce, barred, Whole, Snapshot
  <1>8. /\ AnswerTo(batch[1]) \in Members(base) => Spared(batch[1])'
        /\ ~ck[exec].final /\ AnswerTo(batch[1]) \in Members(ck[exec].tail) => Spared(batch[1])'
    BY <1>1, <1>2 DEF LogInv, LogAnswered, Lasting
  <1>9. LogAnswered' /\ RecAnswered'
    <2>1. LogAnswered'
      BY <1>1, <1>2, <1>8 DEF LogAnswered
    <2>2. RecAnswered'
      BY <1>1, <1>2, <1>4, <1>8 DEF RecAnswered, Snapshot
    <2> QED
      BY <2>1, <2>2
  <1>10. Numbered' /\ SameTurn' /\ Cleared'
    <2>1. Numbered'
      BY <1>1, <1>2 DEF LogInv, Numbered
    <2> QED
      BY <1>1, <1>2, <2>1 DEF SameTurn, Cleared
  <1> QED
    BY <1>5, <1>6, <1>7, <1>9, <1>10 DEF LogInv

LEMMA LogAbandon ==
  ASSUME TypeOK, TypeOK', Held, LogInv, Lasting, Abandon
  PROVE  LogInv'
  <1> DEFINE e == rec.turn.exec
             c == [ck[e] EXCEPT !.snap = None]
  <1>1. /\ pc = "create" /\ pc' = "abandon" /\ rec.turn # None
        /\ UNCHANGED <<exec, base, conv, batch, turns, saving, outcome, rec>>
        /\ ck' = [ck EXCEPT ![e].snap = None]
    BY DEF Abandon, Abandoned
  <1>2. /\ exec = None /\ ~saving /\ pc' \notin Starting \cup InRun \cup Over \cup Asking /\ e \in Exec
    BY <1>1, LogIdle, Typed DEF InRun, Over, Asking, Starting
  <1>3. ck \in [Exec -> Checkpoint] /\ c.snap = None /\ c.tail = ck[e].tail /\ c.final = ck[e].final
    BY <1>2 DEF TypeOK, Checkpoint
  <1>4. ck'[e] = c /\ \A x \in Exec : x # e => ck'[x] = ck[x]
    BY <1>1, <1>2, <1>3
  <1> HIDE DEF c
  <1>5. /\ Snapshot(c) = <<>> /\ Members(<<>>) = {} /\ <<>> \in Seq(Item) /\ c.tail \in Seq(Item)
        /\ Snapshot(ck[e]) \in Seq(Item)
    <2>1. ck[e].snap \in Seq(Item) \cup {None} /\ c.tail \in Seq(Item)
      BY <1>2, <1>3, Typed
    <2> QED
      BY <1>3, <2>1, EmptySeq DEF Snapshot, Members
  <1>6. Whole(c) = c.tail /\ Items(c) = Members(c.tail)
    <2>1. <<>> \o c.tail = c.tail
      BY <1>5, ConcatEmptySeq
    <2> QED
      BY <1>5, <2>1 DEF Whole, Items
  <1>7. LogKnown' /\ TailKnown' /\ RecKnown'
    <2>1. LogKnown' /\ TailKnown'
      BY <1>1, <1>2 DEF LogKnown, TailKnown
    <2>2. \A x \in Items(c) : Known(x, rec.turn.ids)
      BY <1>1, <1>3, <1>6 DEF LogInv, RecKnown, Items
    <2>3. RecKnown'
      BY <1>1, <1>4, <2>2 DEF RecKnown, Known, Items, Snapshot
    <2> QED
      BY <2>1, <2>3
  <1>8. Grown' /\ Snapped' /\ SavingAt' /\ SameTurn' /\ Cleared' /\ LogAnswered'
    BY <1>1, <1>2 DEF Grown, Snapped, SavingAt, SameTurn, Cleared, LogAnswered
  <1>9. TailOnce' /\ LogsOnce' /\ ConvOnce' /\ StoredOnce'
    <2> DEFINE barred == Excused'
    <2>1. Excused \subseteq barred
      BY DEF Lasting
    <2> HIDE DEF barred
    <2>2. \A x \in Exec : OnceBut(Whole(ck[x]), barred)
      BY <2>1, OnceBarring DEF LogInv, LogsOnce
    <2>3. OnceBut(c.tail, barred)
      <3> DEFINE s == Snapshot(ck[e])
                 t == c.tail
      <3>1. OnceBut(s \o t, barred) /\ s \in Seq(Item) /\ t \in Seq(Item)
        BY <1>2, <1>3, <1>5, <2>2 DEF Whole
      <3> HIDE DEF s, t
      <3>2. OnceBut(t, barred)
        BY <3>1, OnceSuffix
      <3> QED
        BY <3>2 DEF t
    <2>4. OnceBut(conv, barred) /\ OnceBut(rec.items, barred)
      BY <2>1, OnceBarring DEF LogInv, ConvOnce, StoredOnce
    <2>5. \A x \in Exec : OnceBut(Whole(ck'[x]), barred)
      BY <1>2, <1>4, <1>6, <2>2, <2>3
    <2>6. LogsOnce'
      BY <2>5 DEF LogsOnce, Whole, Snapshot, barred
    <2>7. TailOnce' /\ ConvOnce' /\ StoredOnce'
      BY <1>1, <1>2, <2>4 DEF TailOnce, ConvOnce, StoredOnce, barred
    <2> QED
      BY <2>6, <2>7
  <1>10. RecAnswered'
    <2> DEFINE m == rec.turn.ids[1]
    <2>1. AnswerTo(m) \notin Members(Snapshot(c))
      BY <1>5
    <2>2. ~c.final /\ AnswerTo(m) \in Members(c.tail) => Spared(m)'
      BY <1>1, <1>3 DEF LogInv, RecAnswered, Lasting
    <2> QED
      BY <1>1, <1>4, <2>1, <2>2 DEF RecAnswered, Snapshot
  <1>11. Numbered'
    <2>1. e <= turns /\ e \in Nat /\ turns \in Nat
      BY <1>1, <1>2, Typed DEF LogInv, Numbered
    <2>2. \A x \in Exec : x > turns => x # e
      BY <2>1
    <2> QED
      BY <1>1, <1>4, <2>2 DEF LogInv, Numbered
  <1> QED
    BY <1>7, <1>8, <1>9, <1>10, <1>11 DEF LogInv

LEMMA LogEnd ==
  ASSUME TypeOK, TypeOK', Held, OneOp, LogInv, Lasting, End, rec' # rec
  PROVE  LogInv'
  <1>1. /\ pc = "keep" /\ pc' = "clear"
        /\ UNCHANGED <<exec, base, conv, batch, turns, ck, saving, outcome>>
        /\ rec'.items = conv /\ rec'.turn = None
    BY RunningAt DEF End, Write, bounds
  <1>2. /\ pc \in Over /\ pc' \in Over /\ pc' \notin Starting \cup InRun \cup Asking
    BY <1>1 DEF InRun, Over, Asking, Starting
  <1>3. LogKnown' /\ TailKnown' /\ RecKnown'
    BY <1>1, <1>2 DEF LogKnown, TailKnown, RecKnown, Known
  <1>4. Grown' /\ Snapped' /\ SavingAt'
    BY <1>1, <1>2 DEF LogInv, Grown, Snapped, SavingAt
  <1>5. TailOnce' /\ LogsOnce' /\ ConvOnce' /\ StoredOnce'
    <2> DEFINE barred == Excused'
    <2>1. Excused \subseteq barred
      BY DEF Lasting
    <2> HIDE DEF barred
    <2>2. \A e \in Exec : OnceBut(Whole(ck[e]), barred)
      BY <2>1, OnceBarring DEF LogInv, LogsOnce
    <2>3. OnceBut(conv, barred)
      BY <2>1, OnceBarring DEF LogInv, ConvOnce
    <2>4. LogsOnce'
      BY <1>1, <2>2 DEF LogsOnce, Whole, Snapshot, barred
    <2> QED
      BY <1>1, <1>2, <2>3, <2>4 DEF TailOnce, ConvOnce, StoredOnce, barred
  <1>6. LogAnswered' /\ RecAnswered'
    BY <1>1, <1>2 DEF LogInv, LogAnswered, RecAnswered, Lasting
  <1>7. Numbered' /\ SameTurn' /\ Cleared'
    BY <1>1 DEF LogInv, Numbered, SameTurn, Cleared
  <1> QED
    BY <1>3, <1>4, <1>5, <1>6, <1>7 DEF LogInv

-----------------------------------------------------------------------------
(* Whatever is done, no log holds an item twice. *)

(* The steps that leave what is recorded as it is, and the turn on its way. *)
LEMMA LogPassing ==
  ASSUME TypeInv, TypeOK', LogInv, Lasting, UNCHANGED <<base, conv, exec, ck, turns>>,
         rec'.items = rec.items, rec'.turn = rec.turn,
         saving' => saving,
         \/ UNCHANGED <<pc, batch, outcome>>
         \/ pc = "rest" /\ pc' = "create"
         \/ pc = "steers" /\ pc' = "begin" /\ UNCHANGED batch
         \/ pc = "begin" /\ pc' = "run" /\ UNCHANGED batch
         \/ pc \in {"ready", "streaming", "recordRound"} /\ pc' \in {"streaming", "recordRound", "ready"}
            /\ UNCHANGED batch
         \/ pc = "checkpoint" /\ pc' = "ending" /\ UNCHANGED batch
         \/ pc \in {"run", "ready", "streaming"} /\ pc' = "keep" /\ outcome' = "cut" /\ UNCHANGED batch
         \/ pc = "ending" /\ pc' = "keep" /\ ~saving /\ UNCHANGED batch
         \/ pc \in {"keep", "clear"} /\ pc' \in {"clear", "clearLedger"} /\ UNCHANGED <<outcome, batch>>
         \/ pc \in {"run", "ready", "streaming", "keep", "clear", "clearLedger", "settle"} /\ pc' = "settle"
            /\ outcome' # "done" /\ UNCHANGED batch
  PROVE  LogInv'
  <1>1. TypeOK /\ Held
    BY DEF TypeInv
  <1>2. batch' = batch \/ exec = None
    BY <1>1 DEF Held
  <1>3. SavingAt
    BY DEF LogInv
  <1>4. /\ pc' \in Starting => pc \in Starting
        /\ pc' \in Asking => pc \in Asking
        /\ pc' \in InRun => pc \in InRun
        /\ pc \in Over => pc' \in Over
        /\ pc \in InRun \cup Over => pc' \in InRun \cup Over
    BY DEF Starting, Asking, InRun, Over
  <1>5. /\ pc' \in Over /\ outcome' = "done" => ~saving'
        /\ pc' = "settle" /\ outcome' = "done" => pc = "settle" /\ outcome = "done"
    BY <1>3 DEF SavingAt, Over, InRun
  <1> QED
    BY <1>1, <1>2, <1>4, <1>5, LogQuiet

LEMMA LogHost ==
  ASSUME TypeInv, TypeOK', LogInv, Lasting,
         (\E m \in Msg : Send(m)) \/ Abort \/ Await \/ Keep \/ UNCHANGED vars
  PROVE  LogInv'
  <1>1. UNCHANGED <<base, conv, exec, ck, turns, saving>>
    BY DEF Send, Abort, Await, Keep, turn, stored, bounds, vars
  <1>2. rec'.items = rec.items /\ rec'.turn = rec.turn
    BY RecordParts DEF Send, Abort, Await, stored, vars, TypeInv
  <1>3. UNCHANGED <<pc, batch, outcome>> \/ (pc = "rest" /\ pc' = "create")
    BY DEF Send, StartTurn, Abort, Await, Keep, turn, vars
  <1> QED
    BY <1>1, <1>2, <1>3, LogPassing

LEMMA LogPass ==
  ASSUME TypeInv, TypeOK', LogInv, Lasting,
         \/ Requeue \/ StageSteers \/ ToolRound \/ Cut \/ TurnFails \/ EndThrows
         \/ UsageFails /\ outcome = "done"
         \/ (Begin \/ End) /\ rec' = rec
         \/ (RecordRound \/ SaveBaseline \/ StepCheckpoint \/ EndRun) /\ ck' = ck
         \/ (Clear \/ ClearLedger) /\ ck' = ck /\ outcome' # "done"
  PROVE  LogInv'
  <1>0. TypeOK /\ OneOp
    BY DEF TypeInv
  <1>1. UNCHANGED <<base, conv, exec, turns, batch>> /\ (saving' => saving)
    BY DEF Requeue, StageSteers, ToolRound, Cut, TurnFails, EndThrows, UsageFails, Begin, End,
       RecordRound, SaveBaseline, StepCheckpoint, EndRun, Clear, ClearLedger, stored, bounds
  <1>2. ck' = ck /\ rec' = rec
    BY DEF Requeue, StageSteers, ToolRound, Cut, TurnFails, EndThrows, UsageFails, Begin, End,
       RecordRound, SaveBaseline, StepCheckpoint, EndRun, Clear, ClearLedger, stored
  <1>3. CASE Requeue \/ Begin
    BY <1>0, <1>1, <1>2, <1>3, RunningAt, LogPassing DEF Requeue, Begin
  <1>4. CASE StageSteers \/ ToolRound \/ RecordRound
    BY <1>1, <1>2, <1>4, LogPassing DEF StageSteers, ToolRound, RecordRound
  <1>5. CASE StepCheckpoint \/ SaveBaseline
    BY <1>1, <1>2, <1>5, LogPassing DEF StepCheckpoint, SaveBaseline
  <1>6. CASE Cut
    BY <1>1, <1>2, <1>6, LogPassing DEF Cut, KeepHistory, Settle
  <1>7. CASE EndRun
    BY <1>1, <1>2, <1>7, LogPassing DEF EndRun, KeepHistory
  <1>8. CASE End
    BY <1>0, <1>1, <1>2, <1>8, RunningAt, LogPassing DEF End
  <1>9. CASE TurnFails
    BY <1>1, <1>2, <1>9, LogPassing DEF TurnFails, Settle
  <1>10. CASE EndThrows
    BY <1>0, <1>1, <1>2, <1>10, RunningAt, LogPassing DEF EndThrows, Settle
  <1>11. CASE UsageFails /\ outcome = "done"
    BY <1>0, <1>1, <1>2, <1>11, RunningAt, LogPassing DEF UsageFails, Settle
  <1>12. CASE (Clear \/ ClearLedger) /\ outcome' # "done"
    <2>1. /\ pc \in {"clear", "clearLedger"}
          /\ pc' = "settle" \/ (pc = "clear" /\ pc' = "clearLedger" /\ UNCHANGED outcome)
      BY <1>12 DEF Clear, ClearLedger, Settle
    <2> QED
      BY <1>1, <1>2, <1>12, <2>1, LogPassing
  <1> QED
    BY <1>3, <1>4, <1>5, <1>6, <1>7, <1>8, <1>9, <1>10, <1>11, <1>12

LEMMA LogEnds ==
  ASSUME TypeInv, TypeOK', LogInv, Lasting,
         Crash \/ ((UsageSettles \/ UsageFails \/ PrepareFails) /\ ~(UsageFails /\ outcome = "done"))
  PROVE  LogInv'
  <1>0. TypeOK /\ OneOp
    BY DEF TypeInv
  <1>1. UNCHANGED <<ck, turns>> /\ (rec' = rec \/ rec' = NoTurn(rec))
    BY DEF Crash, UsageSettles, UsageFails, PrepareFails, EndTurn, stored
  <1>2. exec' = None /\ saving' = FALSE /\ pc' \in {"rest", "create"} /\ conv' = <<>>
    BY Overs, OneStart DEF Crash
  <1>3. ASSUME rec.turn # None, exec # None, rec.turn.exec = exec, pc \in Over,
               AnswerTo(batch[1]) \in Members(Snapshot(ck[exec]))
        PROVE  late'
    <2>1. Members(<<>>) = {} /\ AnswerTo(batch[1]).kind = "answer" /\ AnswerTo(batch[1]).msg = batch[1]
      BY DEF Members, AnswerTo
    <2>2. ck[exec].snap # None /\ AnswerTo(batch[1]) \in Members(ck[exec].snap)
      BY <1>3, <2>1 DEF Snapshot
    <2>3. LostLate
      BY <1>3, <2>1, <2>2 DEF LostLate, Answered
    <2>4. CASE Crash
      BY <2>3, <2>4 DEF Crash
    <2>5. CASE (UsageFails /\ outcome # "done") \/ PrepareFails
      BY <2>3, <2>5 DEF UsageFails, PrepareFails, EndTurn
    <2>6. CASE UsageSettles /\ outcome # "done"
      BY <2>3, <2>6 DEF UsageSettles, EndTurn
    <2>7. CASE UsageSettles /\ outcome = "done"
      <3>1. pc = "settle"
        BY <1>0, <2>7, RunningAt DEF UsageSettles
      <3>2. ck[exec] = NoCheckpoint
        BY <2>7, <3>1 DEF LogInv, Cleared
      <3> QED
        BY <2>2, <3>2 DEF NoCheckpoint
    <2> QED
      BY <2>4, <2>5, <2>6, <2>7
  <1> QED
    BY <1>0, <1>1, <1>2, <1>3, LogOver

LEMMA LogStep ==
  ASSUME TypeInv, TypeOK', QueueOnce, Apart, ComingNew, StagedNew, LogInv, [Next]_vars
  PROVE  LogInv'
  <1>0. TypeOK /\ OneOp /\ Held /\ Lasting
    BY GhostsGrow DEF TypeInv, Lasting
  <1>1. CASE (\E m \in Msg : Send(m)) \/ Abort \/ Await \/ Keep \/ UNCHANGED vars
    BY <1>0, <1>1, LogHost
  <1>2. CASE Resume \/ Fresh \/ Abandon
    BY <1>0, <1>2, LogResume, LogFresh, LogAbandon
  <1>3. CASE Begin \/ End
    BY <1>0, <1>3, LogBegin, LogEnd, LogPass
  <1>4. CASE BeginRun \/ StartRound \/ Answer
    BY <1>0, <1>4, LogBeginRun, LogStartRound, LogAnswer
  <1>5. CASE SaveBaseline
    <2>1. ck' = ck \/ ck' = [ck EXCEPT ![exec].snap = base]
      BY <1>5 DEF SaveBaseline
    <2> QED
      BY <1>0, <1>5, <2>1, LogSaveBaseline, LogPass
  <1>6. CASE StepCheckpoint
    <2>1. ck' = ck \/ ck' = [ck EXCEPT ![exec].snap = base]
      BY <1>6 DEF StepCheckpoint
    <2> QED
      BY <1>0, <1>6, <2>1, LogStepCheckpoint, LogPass
  <1>7. CASE RecordRound \/ EndRun
    BY <1>0, <1>7, LogRecordRound, LogEndRun, LogPass
  <1>8. CASE Clear \/ ClearLedger
    BY <1>0, <1>8, LogClear, LogPass
  <1>9. CASE Requeue \/ StageSteers \/ ToolRound \/ Cut \/ TurnFails \/ EndThrows
             \/ (UsageFails /\ outcome = "done")
    BY <1>0, <1>9, LogPass
  <1>10. CASE Crash \/ ((UsageSettles \/ UsageFails \/ PrepareFails) /\ ~(UsageFails /\ outcome = "done"))
    BY <1>0, <1>10, LogEnds
  <1> QED
    BY <1>1, <1>2, <1>3, <1>4, <1>5, <1>6, <1>7, <1>8, <1>9, <1>10 DEF Next, TurnStep

ItemsInv ==
  /\ TypeInv /\ Behind /\ StagedAt
  /\ QueueOnce /\ Apart /\ SteersOnce /\ ComingNew /\ EndKeeps /\ StagedNew
  /\ LogInv

LEMMA ItemsInit ==
  Init => ItemsInv
  <1> SUFFICES ASSUME Init PROVE ItemsInv
    OBVIOUS
  <1>1. TypeInv
    BY TypeInit
  <1>2. Members(<<>>) = {} /\ <<>> \in Seq(Item) /\ <<>> \o <<>> = <<>>
    BY EmptySeq, ConcatEmptySeq DEF Members
  <1>3. Behind /\ StagedAt /\ EndKeeps /\ Apart
    BY <1>2 DEF Init, Behind, StagedAt, EndKeeps, Apart
  <1>4. QueueOnce /\ SteersOnce /\ ConvOnce /\ StoredOnce
    BY OnceShort DEF Init, QueueOnce, SteersOnce, ConvOnce, StoredOnce
  <1>5. StagedNew /\ ComingNew
    BY <1>2 DEF Init, StagedNew, ComingNew, Unseen
  <1>6. LogsOnce
    <2>1. \A e \in Exec : ck[e] = NoCheckpoint
      BY DEF Init
    <2>2. Whole(NoCheckpoint) = <<>>
      BY <1>2 DEF Whole, Snapshot, NoCheckpoint
    <2> QED
      BY <2>1, <2>2, OnceShort DEF LogsOnce
  <1>7. Numbered /\ SameTurn /\ Cleared
    BY SessionAssumption DEF Init, Numbered, SameTurn, Cleared
  <1>8. LogKnown /\ TailKnown /\ RecKnown /\ Grown /\ Snapped /\ SavingAt /\ TailOnce
    BY DEF Init, LogKnown, TailKnown, RecKnown, Grown, Snapped, SavingAt, TailOnce, Starting, InRun
  <1>9. LogAnswered /\ RecAnswered
    BY DEF Init, LogAnswered, RecAnswered
  <1> QED
    BY <1>1, <1>3, <1>4, <1>5, <1>6, <1>7, <1>8, <1>9 DEF ItemsInv, LogInv

LEMMA ItemsStep ==
  ItemsInv /\ [Next]_vars => ItemsInv'
  <1> SUFFICES ASSUME ItemsInv, [Next]_vars PROVE ItemsInv'
    OBVIOUS
  <1>1. TypeInv /\ TypeInv' /\ TypeOK /\ OneOp /\ Held /\ TypeOK' /\ OneOp'
    BY TypeStep DEF ItemsInv, TypeInv
  <1>2. Behind' /\ StagedAt'
    BY <1>1, BehindStep, StagedStep DEF ItemsInv
  <1>3. QueueOnce' /\ Apart'
    BY <1>1, QueueOnceStep DEF ItemsInv
  <1>4. SteersOnce'
    BY <1>1, SteersChange DEF ItemsInv
  <1>5. ComingNew' /\ EndKeeps'
    BY <1>1, ComingStep, EndKeepsStep DEF ItemsInv, LogInv
  <1>6. StagedNew'
    BY <1>1, StagedNewStep DEF ItemsInv
  <1>7. LogInv'
    BY <1>1, LogStep DEF ItemsInv
  <1> QED
    BY <1>1, <1>2, <1>3, <1>4, <1>5, <1>6, <1>7 DEF ItemsInv

(* Whatever crashes, fails or is sent again, the conversation and the stored
   history hold an item twice only where the host sent its message again after
   it had been delivered, or the answer's turn was lost after it was recorded. *)
THEOREM EachItemOnce ==
  Safety => []ItemsOnce
  <1>1. ASSUME NEW l \in Seq(Item), OnceBut(l, Excused) PROVE OnceEach(l)
    <2>1. DOMAIN l = 1 .. Len(l)
      BY LenProperties
    <2>2. \A i \in 1 .. Len(l) : l[i] \in Item
      BY ElementOfSeq
    <2>3. \A x \in Item : x \in Excused => x.msg \in again \/ (x.kind = "answer" /\ late)
      BY DEF Excused
    <2>4. ASSUME NEW i \in 1 .. Len(l), NEW j \in 1 .. Len(l), l[i] = l[j]
          PROVE  i = j \/ l[i].msg \in again \/ (l[i].kind = "answer" /\ late)
      BY <1>1, <2>2, <2>3, <2>4 DEF OnceBut
    <2> QED
      BY <2>1, <2>4 DEF OnceEach
  <1>2. ItemsInv => ItemsOnce
    BY <1>1, Typed DEF ItemsInv, TypeInv, LogInv, ConvOnce, StoredOnce, ItemsOnce
  <1> QED
    BY <1>2, ItemsInit, ItemsStep, PTL DEF Safety

=============================================================================
