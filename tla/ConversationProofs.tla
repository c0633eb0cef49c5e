-------------------------- MODULE ConversationProofs --------------------------
(***************************************************************************)
(* Theorems about Conversation, for conversations, answers and calls of    *)
(* any number and length.                                                  *)
(*                                                                         *)
(* The provers cannot instantiate an induction theorem that takes an       *)
(* operator.  WFMin of the library takes a set: every set of numbers that  *)
(* is not empty has a least element, which gives induction over sets.      *)
(***************************************************************************)
EXTENDS Conversation, SequenceTheorems, WellFoundedInduction, TLAPS

LEMMA LeastNumber ==
    ASSUME NEW T, T \subseteq Nat, T # {}
    PROVE  \E m \in T : \A k \in T : m <= k
  <1>1. PICK x \in T : \A y \in T : ~ (<<y, x>> \in OpToRel(<, Nat))
    BY NatLessThanWellFounded, WFMin
  <1>2. \A y \in T : y < x => <<y, x>> \in OpToRel(<, Nat)
    BY DEF OpToRel
  <1>3. \A y \in T : ~(y < x)
    BY <1>1, <1>2
  <1>4. x \in Nat /\ \A y \in T : y \in Nat
    OBVIOUS
  <1>5. \A y \in T : x <= y
    BY <1>3, <1>4
  <1> QED BY <1>5

LEMMA SetInduction ==
    ASSUME NEW T, 0 \in T, \A n \in Nat : n \in T => n + 1 \in T
    PROVE  \A n \in Nat : n \in T
  <1> SUFFICES ASSUME Nat \ T # {} PROVE FALSE
    OBVIOUS
  <1>1. PICK m \in Nat \ T : \A k \in Nat \ T : m <= k
    BY LeastNumber
  <1>2. m # 0
    BY <1>1
  <1>3. m - 1 \in Nat /\ m - 1 \in T
    BY <1>1, <1>2
  <1> QED BY <1>1, <1>3

(* The same up to a number. *)
LEMMA BoundedInduction ==
    ASSUME NEW N \in Nat, NEW T, 0 \in T, \A n \in 1..N : n - 1 \in T => n \in T
    PROVE  N \in T
  <1> DEFINE U == {n \in Nat : n <= N => n \in T}
  <1>1. 0 \in U
    OBVIOUS
  <1>2. ASSUME NEW n \in Nat, n \in U PROVE n + 1 \in U
    <2> SUFFICES ASSUME n + 1 <= N PROVE n + 1 \in T
      OBVIOUS
    <2>1. n \in T /\ n + 1 \in 1..N /\ (n + 1) - 1 = n
      BY <1>2
    <2> QED BY <2>1
  <1> HIDE DEF U
  <1>3. \A n \in Nat : n \in U
    BY <1>1, <1>2, SetInduction
  <1> QED BY <1>3 DEF U

------------------------------------------------------------------------------
(* Sequences *)

LEMMA FunctionIsSeq ==
    ASSUME NEW S, NEW n \in Nat, NEW f \in [1..n -> S]
    PROVE  f \in Seq(S) /\ Len(f) = n
  BY SeqDef

LEMMA AppendFacts ==
    ASSUME NEW S, NEW s \in Seq(S), NEW e \in S
    PROVE  /\ Append(s, e) \in Seq(S) /\ Append(s, e) # <<>>
           /\ Len(Append(s, e)) = Len(s) + 1
           /\ \A i \in 1..Len(s) : Append(s, e)[i] = s[i]
           /\ Append(s, e)[Len(s) + 1] = e
           /\ Last(Append(s, e)) = e /\ Front(Append(s, e)) = s
  <1>1. /\ Append(s, e) \in Seq(S)
        /\ Len(Append(s, e)) = Len(s) + 1
        /\ \A i \in 1..Len(s) : Append(s, e)[i] = s[i]
        /\ Append(s, e)[Len(s) + 1] = e
    OBVIOUS
  <1>2. Append(s, e) # <<>>
    BY AppendProperties
  <1>3. Last(Append(s, e)) = e
    BY <1>1 DEF Last
  <1>4. Front(Append(s, e)) = s
    BY <1>1 DEF Front
  <1> QED BY <1>1, <1>2, <1>3, <1>4

LEMMA FrontFacts ==
    ASSUME NEW S, NEW s \in Seq(S), s # <<>>
    PROVE  /\ Front(s) \in Seq(S) /\ Len(Front(s)) = Len(s) - 1
           /\ \A i \in 1..(Len(s) - 1) : Front(s)[i] = s[i]
           /\ Len(s) >= 1 /\ Last(s) \in S
  <1>1. Len(s) \in Nat /\ Len(s) >= 1
    OBVIOUS
  <1>2. \A i \in 1..(Len(s) - 1) : s[i] \in S
    BY <1>1
  <1>3. /\ SubSeq(s, 1, Len(s) - 1) \in Seq(S)
        /\ Len(SubSeq(s, 1, Len(s) - 1)) = Len(s) - 1
        /\ \A i \in 1..(Len(s) - 1) : SubSeq(s, 1, Len(s) - 1)[i] = s[i]
    <2>1. DOMAIN SubSeq(s, 1, Len(s) - 1) = 1..(Len(s) - 1)
      BY <1>1
    <2>2. SubSeq(s, 1, Len(s) - 1) \in Seq(S)
      BY <1>1, <1>2
    <2>3. Len(SubSeq(s, 1, Len(s) - 1)) = Len(s) - 1
      BY <1>1
    <2>4. \A i \in 1..(Len(s) - 1) : SubSeq(s, 1, Len(s) - 1)[i] = s[i]
      BY <1>1
    <2> QED BY <2>2, <2>3, <2>4
  <1>4. Last(s) \in S
    BY <1>1 DEF Last
  <1> QED BY <1>1, <1>3, <1>4 DEF Front

------------------------------------------------------------------------------
(* The two folds are the functions they are written as *)

LEMMA ContentsFunction ==
    ASSUME NEW h, NEW N \in Nat
    PROVE  \E f : f = [n \in 0..N |-> IF n = 0 THEN <<>> ELSE AddMessage(h, f[n - 1], h[n])]
  <1> DEFINE Exists(M) ==
        \E f : f = [n \in 0..M |-> IF n = 0 THEN <<>> ELSE AddMessage(h, f[n - 1], h[n])]
             T == {M \in Nat : Exists(M)}
  <1>1. 0 \in T
    <2> DEFINE f == [n \in 0..0 |-> <<>>]
    <2>1. f = [n \in 0..0 |-> IF n = 0 THEN <<>> ELSE AddMessage(h, f[n - 1], h[n])]
      OBVIOUS
    <2> QED BY <2>1
  <1>2. ASSUME NEW M \in Nat, M \in T PROVE M + 1 \in T
    <2>1. PICK f : f = [n \in 0..M |-> IF n = 0 THEN <<>> ELSE AddMessage(h, f[n - 1], h[n])]
      BY <1>2
    <2> DEFINE g == [n \in 0..(M + 1) |-> IF n = M + 1 THEN AddMessage(h, f[M], h[n]) ELSE f[n]]
    <2>2. \A n \in 0..(M + 1) : g[n] = IF n = 0 THEN <<>> ELSE AddMessage(h, g[n - 1], h[n])
      <3> TAKE n \in 0..(M + 1)
      <3>1. CASE n = 0
        BY <2>1, <3>1
      <3>2. CASE n = M + 1
        BY <2>1, <3>2
      <3>3. CASE n # 0 /\ n # M + 1
        <4>1. n \in 0..M /\ n - 1 \in 0..M /\ n - 1 # M + 1 /\ n - 1 \in 0..(M + 1)
          BY <3>3
        <4>2. g[n] = f[n] /\ g[n - 1] = f[n - 1]
          BY <4>1
        <4> QED BY <2>1, <3>3, <4>1, <4>2
      <3> QED BY <3>1, <3>2, <3>3
    <2>3. g = [n \in 0..(M + 1) |-> IF n = 0 THEN <<>> ELSE AddMessage(h, g[n - 1], h[n])]
      BY <2>2
    <2> HIDE DEF g
    <2>4. Exists(M + 1)
      BY <2>3
    <2> QED BY <2>4
  <1> HIDE DEF T
  <1>3. \A M \in Nat : M \in T
    BY <1>1, <1>2, SetInduction
  <1> QED BY <1>3 DEF T

LEMMA ContentsUnfold ==
    ASSUME NEW h, Len(h) \in Nat
    PROVE  \A n \in 0..Len(h) :
              ContentsUpTo(h)[n] =
                 IF n = 0 THEN <<>> ELSE AddMessage(h, ContentsUpTo(h)[n - 1], h[n])
  <1>1. PICK f :
          f = [n \in 0..Len(h) |-> IF n = 0 THEN <<>> ELSE AddMessage(h, f[n - 1], h[n])]
    BY ContentsFunction
  <1>2. ContentsUpTo(h) =
          [n \in 0..Len(h) |->
              IF n = 0 THEN <<>> ELSE AddMessage(h, ContentsUpTo(h)[n - 1], h[n])]
    BY <1>1 DEF ContentsUpTo
  <1> QED BY <1>2

LEMMA MergedUnfold ==
    ASSUME NEW calls, NEW new, Len(new) \in Nat
    PROVE  /\ MergedUpTo(calls, new)[0] = calls
           /\ \A n \in 1..Len(new) :
                 MergedUpTo(calls, new)[n] = AddCall(MergedUpTo(calls, new)[n - 1], new[n])
  <1> DEFINE Exists(M) ==
        \E f : f = [n \in 0..M |-> IF n = 0 THEN calls ELSE AddCall(f[n - 1], new[n])]
             T == {M \in Nat : Exists(M)}
  <1>1. 0 \in T
    <2> DEFINE f == [n \in 0..0 |-> calls]
    <2>1. f = [n \in 0..0 |-> IF n = 0 THEN calls ELSE AddCall(f[n - 1], new[n])]
      OBVIOUS
    <2> HIDE DEF f
    <2>2. Exists(0)
      BY <2>1
    <2> QED BY <2>2
  <1>2. ASSUME NEW M \in Nat, M \in T PROVE M + 1 \in T
    <2>1. PICK f : f = [n \in 0..M |-> IF n = 0 THEN calls ELSE AddCall(f[n - 1], new[n])]
      BY <1>2
    <2> DEFINE g == [n \in 0..(M + 1) |-> IF n = M + 1 THEN AddCall(f[M], new[n]) ELSE f[n]]
    <2>2. \A n \in 0..(M + 1) : g[n] = IF n = 0 THEN calls ELSE AddCall(g[n - 1], new[n])
      <3> TAKE n \in 0..(M + 1)
      <3>1. CASE n = 0
        BY <2>1, <3>1
      <3>2. CASE n = M + 1
        BY <2>1, <3>2
      <3>3. CASE n # 0 /\ n # M + 1
        <4>1. n \in 0..M /\ n - 1 \in 0..M /\ n - 1 # M + 1 /\ n - 1 \in 0..(M + 1)
          BY <3>3
        <4>2. g[n] = f[n] /\ g[n - 1] = f[n - 1]
          BY <4>1
        <4> QED BY <2>1, <3>3, <4>1, <4>2
      <3> QED BY <3>1, <3>2, <3>3
    <2>3. g = [n \in 0..(M + 1) |-> IF n = 0 THEN calls ELSE AddCall(g[n - 1], new[n])]
      BY <2>2
    <2> HIDE DEF g
    <2>4. Exists(M + 1)
      BY <2>3
    <2> QED BY <2>4
  <1> HIDE DEF T
  <1>3. \A M \in Nat : M \in T
    BY <1>1, <1>2, SetInduction
  <1>4. PICK f :
          f = [n \in 0..Len(new) |-> IF n = 0 THEN calls ELSE AddCall(f[n - 1], new[n])]
    BY <1>3 DEF T
  <1>5. MergedUpTo(calls, new) =
          [n \in 0..Len(new) |->
              IF n = 0 THEN calls ELSE AddCall(MergedUpTo(calls, new)[n - 1], new[n])]
    BY <1>4 DEF MergedUpTo
  <1> QED BY <1>5

------------------------------------------------------------------------------
(* Calls of an event, and what the folds make of them *)

LEMMA CallsFromFacts ==
    ASSUME answers \in Nat, NEW n \in Nat, NEW chunk \in ChunkType
    PROVE  /\ CallsFrom(n, chunk) \in Seq(CallType)
           /\ Len(CallsFrom(n, chunk)) = Len(chunk.calls) /\ Len(chunk.calls) \in Nat
           /\ \A k \in 1..Len(chunk.calls) :
                 /\ CallsFrom(n, chunk)[k].id = <<answers, n + k>>
                 /\ CallsFrom(n, chunk)[k].name = chunk.calls[k]
                 /\ CallsFrom(n, chunk)[k].args = << <<answers, n + k>> >>
                 /\ CallsFrom(n, chunk)[k].sig = chunk.signed
           /\ chunk.calls \in Seq(STRING)
  <1> DEFINE call(k) == [id |-> <<answers, n + k>>, name |-> chunk.calls[k],
                         args |-> << <<answers, n + k>> >>, sig |-> chunk.signed]
  <1>1. /\ chunk.calls \in Seq(STRING) /\ DOMAIN chunk.calls = 1..Len(chunk.calls)
        /\ Len(chunk.calls) \in Nat /\ chunk.signed \in BOOLEAN
    BY DEF ChunkType
  <1>2. CallsFrom(n, chunk) = [k \in 1..Len(chunk.calls) |-> call(k)]
    BY <1>1 DEF CallsFrom
  <1>3. ASSUME NEW k \in 1..Len(chunk.calls) PROVE call(k) \in CallType
    <2>1. <<answers, n + k>> \in Ids
      BY <1>1 DEF Ids
    <2>2. << <<answers, n + k>> >> \in Seq(Ids)
      BY <2>1
    <2>3. chunk.calls[k] \in STRING
      BY <1>1
    <2> QED BY <1>1, <2>1, <2>2, <2>3 DEF CallType
  <1>4. \A k \in 1..Len(chunk.calls) :
           /\ call(k).id = <<answers, n + k>> /\ call(k).name = chunk.calls[k]
           /\ call(k).args = << <<answers, n + k>> >> /\ call(k).sig = chunk.signed
    OBVIOUS
  <1> HIDE DEF call
  <1>5. [k \in 1..Len(chunk.calls) |-> call(k)] \in [1..Len(chunk.calls) -> CallType]
    BY <1>3
  <1>6. CallsFrom(n, chunk) \in Seq(CallType) /\ Len(CallsFrom(n, chunk)) = Len(chunk.calls)
    BY <1>1, <1>2, <1>5, FunctionIsSeq
  <1> QED BY <1>1, <1>2, <1>4, <1>6

LEMMA MergeStreamedFacts ==
    ASSUME NEW calls \in Seq(CallType), NEW new \in Seq(CallType)
    PROVE  LET n == IF Len(new) > Len(calls) THEN Len(new) ELSE Len(calls)
               m == MergeStreamed(calls, new)
           IN  /\ m \in Seq(CallType) /\ Len(m) = n /\ n \in Nat
               /\ \A i \in 1..n : i > Len(new) => m[i] = calls[i]
               /\ \A i \in 1..Len(new) :
                     /\ m[i].id = new[i].id /\ m[i].name = new[i].name /\ m[i].sig = FALSE
                     /\ i > Len(calls) => m[i].args = new[i].args
  <1> DEFINE n == IF Len(new) > Len(calls) THEN Len(new) ELSE Len(calls)
             m == MergeStreamed(calls, new)
  <1>1. Len(new) \in Nat /\ Len(calls) \in Nat /\ n \in Nat
    OBVIOUS
  <1> DEFINE args(i) == (IF i > Len(calls) THEN <<>> ELSE calls[i].args) \o new[i].args
  <1>2. m = [i \in 1..n |->
               IF i > Len(new) THEN calls[i]
               ELSE [new[i] EXCEPT !.sig = FALSE, !.args = args(i)]]
    BY DEF MergeStreamed
  <1> HIDE DEF m
  <1>2a. \A i \in 1..n : i > Len(new) => i \in 1..Len(calls)
    BY <1>1
  <1>2b. \A i \in 1..Len(new) : i \in 1..n /\ ~(i > Len(new))
    BY <1>1
  <1> HIDE DEF n
  <1>3. ASSUME NEW i \in 1..n, i > Len(new) PROVE m[i] = calls[i] /\ m[i] \in CallType
    <2>1. i \in 1..Len(calls) /\ calls[i] \in CallType
      BY <1>1, <1>3, <1>2a
    <2>2. m[i] = calls[i]
      BY <1>2, <1>3
    <2> QED BY <2>1, <2>2
  <1>4. ASSUME NEW i \in 1..n, ~(i > Len(new))
        PROVE  /\ m[i] \in CallType /\ m[i].id = new[i].id /\ m[i].name = new[i].name
               /\ m[i].sig = FALSE /\ (i > Len(calls) => m[i].args = new[i].args)
    <2>1. i \in 1..Len(new) /\ new[i] \in CallType
      BY <1>1, <1>4
    <2>2. m[i] = [new[i] EXCEPT !.sig = FALSE, !.args = args(i)]
      BY <1>2, <1>4
    <2>3. new[i].args \in Seq(Ids)
      BY <2>1 DEF CallType
    <2>4. i > Len(calls) => args(i) = new[i].args
      BY <2>3, ConcatEmptySeq
    <2>5. args(i) \in Seq(Ids)
      <3>1. CASE i > Len(calls)
        BY <2>3, <2>4, <3>1
      <3>2. CASE ~(i > Len(calls))
        <4>1. calls[i] \in CallType
          BY <1>1, <2>1, <3>2
        <4>2. calls[i].args \in Seq(Ids) /\ args(i) = calls[i].args \o new[i].args
          BY <4>1, <3>2 DEF CallType
        <4> QED BY <2>3, <4>2, ConcatProperties
      <3> QED BY <3>1, <3>2
    <2> HIDE DEF args
    <2> QED BY <2>1, <2>2, <2>4, <2>5 DEF CallType
  <1>6. m \in [1..n -> CallType]
    <2>1. \A i \in 1..n : m[i] \in CallType
      BY <1>3, <1>4
    <2>2. DOMAIN m = 1..n /\ m = [i \in 1..n |-> m[i]]
      BY <1>2
    <2> QED BY <2>1, <2>2
  <1>7. m \in Seq(CallType) /\ Len(m) = n
    BY <1>1, <1>6, FunctionIsSeq
  <1>9. \A i \in 1..n : i > Len(new) => m[i] = calls[i]
    BY <1>3
  <1>10. \A i \in 1..Len(new) :
            /\ m[i].id = new[i].id /\ m[i].name = new[i].name /\ m[i].sig = FALSE
            /\ i > Len(calls) => m[i].args = new[i].args
    BY <1>4, <1>2b
  <1> QED BY <1>1, <1>7, <1>9, <1>10 DEF n, m

(* Calls with ids of their own are all added, in their order. *)
LEMMA MergeFresh ==
    ASSUME NEW calls \in Seq(CallType), NEW new \in Seq(CallType),
           \A i \in 1..Len(calls), k \in 1..Len(new) : calls[i].id # new[k].id,
           \A j, k \in 1..Len(new) : new[j].id = new[k].id => j = k
    PROVE  MergeWhole(calls, new) = calls \o new
  <1> DEFINE U == MergedUpTo(calls, new)
             both(i) == IF i <= Len(calls) THEN calls[i] ELSE new[i - Len(calls)]
             T == {n \in 0..Len(new) :
                     /\ U[n] \in Seq(CallType) /\ Len(U[n]) = Len(calls) + n
                     /\ \A i \in 1..(Len(calls) + n) : U[n][i] = both(i)}
  <1>1. /\ Len(new) \in Nat /\ Len(calls) \in Nat
        /\ U[0] = calls /\ \A n \in 1..Len(new) : U[n] = AddCall(U[n - 1], new[n])
    BY MergedUnfold
  <1>2. 0 \in T
    BY <1>1
  <1> HIDE DEF U, both
  <1>3. ASSUME NEW n \in 1..Len(new), n - 1 \in T PROVE n \in T
    <2>1. /\ U[n - 1] \in Seq(CallType) /\ Len(U[n - 1]) = Len(calls) + (n - 1)
          /\ \A i \in 1..(Len(calls) + (n - 1)) : U[n - 1][i] = both(i)
      BY <1>3
    <2>2. new[n] \in CallType /\ n \in Nat /\ n \in 0..Len(new)
      BY <1>1
    <2>3. ASSUME NEW k \in DOMAIN U[n - 1] PROVE U[n - 1][k].id # new[n].id
      <3>1. k \in 1..(Len(calls) + (n - 1)) /\ U[n - 1][k] = both(k)
        BY <2>1
      <3>2. CASE k <= Len(calls)
        <4>1. k \in 1..Len(calls)
          BY <3>1, <3>2, <1>1
        <4>2. U[n - 1][k] = calls[k]
          BY <3>1, <3>2 DEF both
        <4> QED BY <4>1, <4>2
      <3>3. CASE k > Len(calls)
        <4>1. k - Len(calls) \in 1..Len(new) /\ k - Len(calls) # n
          BY <3>1, <3>3, <1>1
        <4>2. U[n - 1][k] = new[k - Len(calls)]
          BY <3>1, <3>3, <1>1 DEF both
        <4> QED BY <4>1, <4>2
      <3> QED BY <3>1, <3>2, <3>3, <1>1
    <2>4. U[n] = Append(U[n - 1], new[n])
      BY <1>1, <2>3 DEF AddCall
    <2>5. /\ U[n] \in Seq(CallType) /\ Len(U[n]) = Len(calls) + n
          /\ \A i \in 1..(Len(calls) + (n - 1)) : U[n][i] = U[n - 1][i]
          /\ U[n][Len(calls) + n] = new[n]
      <3>1. Len(U[n - 1]) + 1 = Len(calls) + n
        BY <1>1, <2>1
      <3> QED BY <2>1, <2>2, <2>4, <3>1, AppendFacts
    <2>6. ASSUME NEW i \in 1..(Len(calls) + n) PROVE U[n][i] = both(i)
      <3>1. CASE i = Len(calls) + n
        <4>1. ~(i <= Len(calls)) /\ i - Len(calls) = n
          BY <3>1, <1>1
        <4> QED BY <4>1, <3>1, <2>5 DEF both
      <3>2. CASE i # Len(calls) + n
        <4>1. i \in 1..(Len(calls) + (n - 1))
          <5> DEFINE L == Len(calls)
          <5>1. L \in Nat /\ n \in Nat /\ i \in 1..(L + n) /\ i # L + n
            BY <3>2, <2>2, <1>1
          <5> HIDE DEF L
          <5>2. i \in 1..(L + (n - 1))
            BY <5>1
          <5> QED BY <5>2 DEF L
        <4> QED BY <4>1, <2>1, <2>5
      <3> QED BY <3>1, <3>2
    <2> QED BY <2>2, <2>5, <2>6
  <1> HIDE DEF T
  <1>3a. \A n \in 1..Len(new) : n - 1 \in T => n \in T
    BY <1>3
  <1>4. Len(new) \in T
    BY <1>1, <1>2, <1>3a, BoundedInduction
  <1>5. /\ U[Len(new)] \in Seq(CallType) /\ Len(U[Len(new)]) = Len(calls) + Len(new)
        /\ \A i \in 1..(Len(calls) + Len(new)) : U[Len(new)][i] = both(i)
    BY <1>4 DEF T
  <1>6. /\ calls \o new \in Seq(CallType) /\ Len(calls \o new) = Len(calls) + Len(new)
        /\ \A i \in 1..(Len(calls) + Len(new)) : (calls \o new)[i] = both(i)
    BY ConcatProperties DEF both
  <1>7. U[Len(new)] = calls \o new
    <2> DEFINE a == U[Len(new)]
               b == calls \o new
    <2>1. /\ a \in Seq(CallType) /\ b \in Seq(CallType) /\ Len(a) = Len(b)
          /\ \A i \in 1..Len(a) : a[i] = b[i]
      BY <1>5, <1>6
    <2> HIDE DEF a, b
    <2>2. a = b
      BY <2>1, SeqEqual
    <2> QED BY <2>2 DEF a, b
  <1> QED BY <1>7 DEF MergeWhole, U

(* Calls that are there already change nothing. *)
LEMMA MergeKnown ==
    ASSUME NEW calls \in Seq(CallType), NEW new \in Seq(CallType),
           \A k \in 1..Len(new) : \E i \in 1..Len(calls) : calls[i].id = new[k].id
    PROVE  MergeWhole(calls, new) = calls
  <1> DEFINE U == MergedUpTo(calls, new)
             T == {n \in 0..Len(new) : U[n] = calls}
  <1>1. /\ Len(new) \in Nat
        /\ U[0] = calls /\ \A n \in 1..Len(new) : U[n] = AddCall(U[n - 1], new[n])
    BY MergedUnfold
  <1>2. 0 \in T
    BY <1>1
  <1> HIDE DEF U
  <1>3. ASSUME NEW n \in 1..Len(new), n - 1 \in T PROVE n \in T
    <2>1. U[n] = AddCall(calls, new[n])
      BY <1>1, <1>3
    <2>2. \E i \in DOMAIN calls : calls[i].id = new[n].id
      OBVIOUS
    <2>3. U[n] = calls
      BY <2>1, <2>2 DEF AddCall
    <2> QED BY <2>3, <1>1
  <1> HIDE DEF T
  <1>3a. \A n \in 1..Len(new) : n - 1 \in T => n \in T
    BY <1>3
  <1>4. Len(new) \in T
    BY <1>1, <1>2, <1>3a, BoundedInduction
  <1> QED BY <1>4 DEF T, U, MergeWhole

------------------------------------------------------------------------------
(* The inductive invariant *)

Roles    == {"system", "user", "assistant", "tool"}
Messages == [role: Roles, text: BOOLEAN, extra: BOOLEAN, calls: Seq(CallType),
             ref: Ids \cup {None}, name: STRING \cup {None}]

Types ==
    /\ hist \in Seq(Messages) /\ hist # <<>> /\ done \in Seq(Messages)
    /\ stream \in BOOLEAN /\ exact \in BOOLEAN /\ split \in BOOLEAN /\ expired \in BOOLEAN
    /\ pc \in {"client", "answer"}
    /\ answer \in Messages /\ answer.role = "assistant"
    /\ got \in Seq(CallType)
    /\ answers \in Nat /\ events \in Nat

SignsKept == sigs \subseteq signed /\ (~expired => sigs = signed)

(* Calls are numbered by the answer and within it. *)
GotNumbered == \A k \in DOMAIN got : got[k].id = <<answers, k>> /\ got[k].args = <<got[k].id>>

(* Without a stream the answer has the calls that came. *)
WholeKept == ~stream => answer.calls = got /\ (pc = "answer" \/ got # <<>> => answer.extra)

(* With one, event after event overwrites the first, so that a call never  *)
(* stands before its number and two never share one.                       *)
StreamNumbered == stream =>
    \A k \in DOMAIN answer.calls :
       /\ ~answer.calls[k].sig
       /\ answer.calls[k].id[1] = answers
       /\ answer.calls[k].id[2] \in k..Len(got)
       /\ \A j \in DOMAIN answer.calls : answer.calls[j].id = answer.calls[k].id => j = k

StreamKept == stream /\ ~split =>
    /\ Len(answer.calls) = Len(got)
    /\ \A k \in DOMAIN got : /\ answer.calls[k].id = got[k].id
                             /\ answer.calls[k].name = got[k].name
                             /\ answer.calls[k].args = got[k].args

(* The client's messages hold no call of an answer that is being made. *)
HistNumbered ==
    \A i \in DOMAIN hist : \A k \in DOMAIN hist[i].calls :
       /\ hist[i].calls[k].id[1] <= answers
       /\ pc = "answer" => hist[i].calls[k].id[1] < answers

HistUnique ==
    \A i, j \in DOMAIN hist : \A k \in DOMAIN hist[i].calls, l \in DOMAIN hist[j].calls :
       hist[i].calls[k].id = hist[j].calls[l].id => i = j /\ k = l

(* Message i is the result of a call of message j, and only results are    *)
(* between the two.                                                        *)
ResultOf(h, i, j) ==
    /\ j < i /\ i - j <= Len(h[j].calls)
    /\ h[j].role = "assistant"
    /\ \A l \in (j + 1)..i : h[l].role = "tool"
    /\ h[i].ref = h[j].calls[i - j].id
    /\ h[i].name \in {None, h[j].calls[i - j].name}

ShapeAt(h, i) ==
    /\ h[i].role # "assistant" => h[i].calls = <<>>
    /\ h[i].role = "user" => h[i].text
    /\ h[i].role = "tool" => \E j \in DOMAIN h : ResultOf(h, i, j)

Shaped == \A i \in DOMAIN hist : ShapeAt(hist, i)

Asks(m) == m.role \in {"user", "tool"}

Turns ==
    /\ pc = "answer" => Asks(Last(hist))
    /\ done # <<>> => Last(done).role = "assistant"
    /\ Len(done) <= Len(hist)
    /\ pc = "client" /\ hist = done =>
          Len(hist) >= 2 /\ Asks(hist[Len(hist) - 1]) /\ Last(hist) = Echo(answer)

(* The client sends back what it got. *)
Plain == exact \/ ~answer.extra

Sessions == ~expired =>
    /\ pc = "answer" => Resolve(hist) = session
    /\ pc = "client" /\ done # <<>> /\ Front(hist) = done /\ Plain => Resolve(hist) = session
    /\ pc = "client" /\ done # <<>> /\ hist = done /\ Plain =>
          hist \in DOMAIN tips /\ tips[hist] = session

Numbered == GotNumbered /\ WholeKept /\ StreamNumbered /\ StreamKept
Inv == Types /\ SignsKept /\ Numbered /\ HistNumbered /\ HistUnique /\ Shaped /\ Turns /\ Sessions

LEMMA MessageTypes ==
    /\ UserSays \in Messages /\ Empty \in Messages
    /\ UserSays.role = "user" /\ UserSays.calls = <<>> /\ UserSays.text
    /\ Empty.role = "assistant" /\ Empty.calls = <<>>
    /\ ~Empty.extra
    /\ Message("system", TRUE, <<>>, None, None) \in Messages
    /\ Message("system", TRUE, <<>>, None, None).role = "system"
    /\ Message("system", TRUE, <<>>, None, None).calls = <<>>
  <1>1. <<>> \in Seq(CallType)
    OBVIOUS
  <1> QED BY <1>1 DEF UserSays, Empty, Message, Messages, Roles

LEMMA Initially == Init => Inv
  <1> SUFFICES ASSUME Init PROVE Inv
    OBVIOUS
  <1> DEFINE System == Message("system", TRUE, <<>>, None, None)
  <1>1. /\ hist \in Seq(Messages) /\ hist # <<>> /\ Len(hist) \in Nat
        /\ DOMAIN hist = 1..Len(hist)
        /\ \A i \in DOMAIN hist : hist[i] \in {System, UserSays}
    <2> HIDE DEF System
    <2>1. System \in Messages /\ UserSays \in Messages
      BY MessageTypes DEF System
    <2>2. CASE hist = <<UserSays>>
      BY <2>1, <2>2
    <2>3. CASE hist = <<System, UserSays>>
      BY <2>1, <2>3
    <2> QED BY <2>2, <2>3 DEF Init, System
  <1>2. \A i \in DOMAIN hist : /\ hist[i].calls = <<>> /\ hist[i].role # "tool"
                               /\ hist[i].role = "user" => hist[i].text
    BY <1>1, MessageTypes
  <1>3. Types
    <2>1. <<>> \in Seq(Messages) /\ <<>> \in Seq(CallType)
      OBVIOUS
    <2> QED BY <1>1, <2>1, MessageTypes DEF Init, Types
  <1>4. Numbered
    BY MessageTypes DEF Init, Numbered, GotNumbered, WholeKept, StreamNumbered, StreamKept
  <1>5. HistNumbered /\ HistUnique
    BY <1>2 DEF HistNumbered, HistUnique
  <1>6. Shaped
    BY <1>2 DEF Shaped, ShapeAt
  <1>7. Turns /\ Sessions /\ SignsKept
    BY <1>1 DEF Init, Turns, Sessions, SignsKept
  <1> QED BY <1>3, <1>4, <1>5, <1>6, <1>7 DEF Inv

------------------------------------------------------------------------------
(* Each action keeps it *)

LEMMA SendKeeps == Inv /\ Send => Inv'
  <1> SUFFICES ASSUME Inv, Send PROVE Inv'
    OBVIOUS
  <1> USE DEF Send
  <1>0. /\ answer' \in Messages /\ answer'.role = "assistant" /\ answer'.calls = <<>>
        /\ answer'.extra = ~stream
    BY MessageTypes DEF Messages, Inv, Types
  <1>1. Types'
    <2>1. <<>> \in Seq(CallType)
      OBVIOUS
    <2>2. Types
      BY DEF Inv
    <2>3. hist' = hist /\ done' = done /\ answers + 1 \in Nat
      BY <2>2 DEF Types
    <2> QED BY <1>0, <2>1, <2>2, <2>3 DEF Types
  <1>2. SignsKept'
    BY DEF Inv, SignsKept
  <1>3. Numbered'
    <2>1. GotNumbered' /\ StreamNumbered' /\ StreamKept'
      BY <1>0 DEF GotNumbered, StreamNumbered, StreamKept
    <2>2. WholeKept'
      <3>1. ~stream => answer'.extra
        BY <1>0
      <3>2. got' = <<>> /\ stream' = stream
        OBVIOUS
      <3> QED BY <1>0, <3>1, <3>2 DEF WholeKept
    <2> QED BY <2>1, <2>2 DEF Numbered
  <1>4. HistNumbered'
    <2> SUFFICES ASSUME NEW i \in DOMAIN hist, NEW k \in DOMAIN hist[i].calls
                 PROVE  /\ hist[i].calls[k].id[1] <= answers + 1
                        /\ hist[i].calls[k].id[1] < answers + 1
      BY DEF HistNumbered
    <2>1. hist[i] \in Messages
      BY DEF Inv, Types
    <2>2. hist[i].calls \in Seq(CallType)
      BY <2>1 DEF Messages
    <2>3. hist[i].calls[k] \in CallType
      BY <2>2
    <2>4. hist[i].calls[k].id[1] \in Nat
      BY <2>3 DEF CallType, Ids
    <2>5. hist[i].calls[k].id[1] <= answers /\ answers \in Nat
      BY DEF Inv, Types, HistNumbered
    <2> QED BY <2>4, <2>5
  <1>5. HistUnique' /\ Shaped'
    BY DEF Inv, HistUnique, Shaped
  <1>6. Turns'
    BY DEF Inv, Turns, Asks
  <1>7. Sessions'
    <2>1. hist \in Seq(Messages) /\ hist # <<>>
      BY DEF Inv, Types
    <2>2. Front(hist) # hist
      BY <2>1, FrontFacts
    <2>3. session' = Resolve(hist)
      OBVIOUS
    <2>4. tips' = [t \in DOMAIN tips \cup {hist} |-> IF t = hist THEN session' ELSE tips[t]]
      BY DEF remember_tip
    <2>5. tips'[hist] = session' /\ hist \in DOMAIN tips'
      BY <2>4
    <2>6. Front(hist) \in DOMAIN tips' <=> Front(hist) \in DOMAIN tips
      BY <2>2, <2>4
    <2>7. Front(hist) \in DOMAIN tips => tips'[Front(hist)] = tips[Front(hist)]
      BY <2>2, <2>4
    <2>8. Resolve(hist)' = session'
      BY <2>3, <2>5, <2>6, <2>7 DEF Resolve
    <2> QED BY <2>8 DEF Sessions
  <1> QED BY <1>1, <1>2, <1>3, <1>4, <1>5, <1>6, <1>7 DEF Inv

LEMMA CallFacts ==
    ASSUME NEW m \in Messages
    PROVE  /\ m.calls \in Seq(CallType) /\ Len(m.calls) \in Nat
           /\ DOMAIN m.calls = 1..Len(m.calls)
           /\ \A k \in DOMAIN m.calls :
                 /\ m.calls[k] \in CallType /\ m.calls[k].id \in Ids
                 /\ m.calls[k].id[1] \in Nat /\ m.calls[k].id[2] \in Nat
                 /\ m.calls[k].id = <<m.calls[k].id[1], m.calls[k].id[2]>>
                 /\ m.calls[k].name \in STRING /\ m.calls[k].sig \in BOOLEAN
                 /\ m.calls[k].args \in Seq(Ids)
  <1>1. m.calls \in Seq(CallType)
    BY DEF Messages
  <1>2. \A k \in DOMAIN m.calls : m.calls[k] \in CallType
    BY <1>1
  <1>3. \A c \in CallType : /\ c.id \in Ids /\ c.id[1] \in Nat /\ c.id[2] \in Nat
                            /\ c.id = <<c.id[1], c.id[2]>>
                            /\ c.name \in STRING /\ c.sig \in BOOLEAN /\ c.args \in Seq(Ids)
    BY DEF CallType, Ids
  <1> QED BY <1>1, <1>2, <1>3

LEMMA EchoFacts ==
    ASSUME NEW m \in Messages
    PROVE  /\ Echo(m) \in Messages /\ Echo(m).role = m.role /\ Echo(m).text = m.text
           /\ Len(Echo(m).calls) = Len(m.calls) /\ DOMAIN Echo(m).calls = 1..Len(m.calls)
           /\ \A k \in 1..Len(m.calls) :
                 /\ Echo(m).calls[k].id = m.calls[k].id
                 /\ Echo(m).calls[k].name = m.calls[k].name
                 /\ Echo(m).calls[k].args = m.calls[k].args
           /\ ~m.extra /\ (\A k \in 1..Len(m.calls) : ~m.calls[k].sig) => Echo(m) = m
  <1>1. CASE exact
    BY <1>1, CallFacts DEF Echo
  <1>2. CASE ~exact
    <2> DEFINE bare == [k \in 1..Len(m.calls) |-> [m.calls[k] EXCEPT !.sig = FALSE]]
    <2>1. /\ m.calls \in Seq(CallType) /\ Len(m.calls) \in Nat
          /\ DOMAIN m.calls = 1..Len(m.calls)
          /\ \A k \in DOMAIN m.calls : m.calls[k] \in CallType
      BY CallFacts
    <2>2. Echo(m) = [m EXCEPT !.extra = FALSE, !.calls = bare]
      BY <1>2, <2>1 DEF Echo
    <2>3. \A k \in 1..Len(m.calls) :
             /\ bare[k] \in CallType /\ bare[k].id = m.calls[k].id
             /\ bare[k].name = m.calls[k].name /\ bare[k].args = m.calls[k].args
             /\ ~m.calls[k].sig => bare[k] = m.calls[k]
      BY <2>1 DEF CallType
    <2>4. bare \in [1..Len(m.calls) -> CallType]
      BY <2>3
    <2>5. bare \in Seq(CallType) /\ Len(bare) = Len(m.calls) /\ DOMAIN bare = 1..Len(m.calls)
      BY <2>1, <2>4, FunctionIsSeq
    <2>6. (\A k \in 1..Len(m.calls) : ~m.calls[k].sig) => bare = m.calls
      BY <2>1, <2>3, <2>5, SeqEqual
    <2> HIDE DEF bare
    <2>7. Echo(m) \in Messages /\ Echo(m).role = m.role /\ Echo(m).text = m.text
      BY <2>2, <2>5 DEF Messages
    <2>8. Echo(m).calls = bare
      BY <2>2 DEF Messages
    <2>9. ASSUME ~m.extra, \A k \in 1..Len(m.calls) : ~m.calls[k].sig PROVE Echo(m) = m
      BY <2>2, <2>6, <2>9 DEF Messages
    <2> QED BY <2>3, <2>5, <2>7, <2>8, <2>9
  <1> QED BY <1>1, <1>2

(* The calls of the answer carry its number and differ. *)
LEMMA AnswerFacts ==
    ASSUME Inv
    PROVE  /\ answer \in Messages /\ answers \in Nat
           /\ \A k \in DOMAIN answer.calls : answer.calls[k].id[1] = answers
           /\ \A j, k \in DOMAIN answer.calls : answer.calls[j].id = answer.calls[k].id => j = k
  <1>1. answer \in Messages /\ answers \in Nat /\ stream \in BOOLEAN
    BY DEF Inv, Types
  <1>2. CASE stream
    BY <1>1, <1>2 DEF Inv, Numbered, StreamNumbered
  <1>3. CASE ~stream
    <2>1. answer.calls = got /\ GotNumbered /\ got \in Seq(CallType)
      BY <1>3 DEF Inv, Numbered, WholeKept, Types
    <2>2. \A k \in DOMAIN got : got[k].id = <<answers, k>>
      BY <2>1 DEF GotNumbered
    <2> QED BY <1>1, <2>1, <2>2
  <1> QED BY <1>1, <1>2, <1>3

LEMMA EchoPlain == Inv /\ Plain => Echo(answer) = answer
  <1> SUFFICES ASSUME Inv, Plain, ~exact PROVE Echo(answer) = answer
    BY DEF Echo
  <1>1. answer \in Messages /\ ~answer.extra /\ DOMAIN answer.calls = 1..Len(answer.calls)
    BY CallFacts DEF Inv, Types, Plain
  <1>2. CASE stream
    <2>1. \A k \in 1..Len(answer.calls) : ~answer.calls[k].sig
      BY <1>1, <1>2 DEF Inv, Numbered, StreamNumbered
    <2> QED BY <1>1, <2>1, EchoFacts
  <1>3. CASE ~stream
    <2>1. answer.calls = <<>>
      BY <1>1, <1>3 DEF Inv, Numbered, WholeKept
    <2>2. \A k \in 1..Len(answer.calls) : ~answer.calls[k].sig
      BY <2>1
    <2> QED BY <1>1, <2>2, EchoFacts
  <1> QED BY <1>2, <1>3

LEMMA ShapeExtends ==
    ASSUME NEW h \in Seq(Messages), NEW g \in Seq(Messages), Len(h) <= Len(g),
           \A i \in 1..Len(h) : g[i] = h[i] /\ ShapeAt(h, i),
           \A i \in (Len(h) + 1)..Len(g) : ShapeAt(g, i)
    PROVE  \A i \in DOMAIN g : ShapeAt(g, i)
  <1>1. Len(h) \in Nat /\ Len(g) \in Nat /\ DOMAIN h = 1..Len(h) /\ DOMAIN g = 1..Len(g)
    OBVIOUS
  <1>2. ASSUME NEW i \in 1..Len(h), NEW j \in DOMAIN h, ResultOf(h, i, j)
        PROVE  ResultOf(g, i, j)
    <2>1. g[i] = h[i] /\ g[j] = h[j] /\ i \in Int /\ j \in Int
      BY <1>1
    <2>2. \A l \in (j + 1)..i : l \in 1..Len(h)
      BY <1>1
    <2> QED BY <1>2, <2>1, <2>2 DEF ResultOf
  <1>3. ASSUME NEW i \in 1..Len(h) PROVE ShapeAt(g, i)
    <2>1. g[i] = h[i] /\ ShapeAt(h, i) /\ DOMAIN h \subseteq DOMAIN g
      BY <1>1
    <2> QED BY <1>2, <2>1 DEF ShapeAt
  <1>4. \A i \in DOMAIN g : i \in 1..Len(h) \/ i \in (Len(h) + 1)..Len(g)
    BY <1>1
  <1> QED BY <1>3, <1>4

(* A message that has no calls and is no result may follow. *)
LEMMA ShapeAppend ==
    ASSUME Inv, NEW m \in Messages, m.role # "tool",
           m.role # "assistant" => m.calls = <<>>, m.role = "user" => m.text
    PROVE  \A i \in DOMAIN Append(hist, m) : ShapeAt(Append(hist, m), i)
  <1> DEFINE g == Append(hist, m)
  <1>1. hist \in Seq(Messages) /\ Len(hist) \in Nat /\ \A i \in 1..Len(hist) : ShapeAt(hist, i)
    BY DEF Inv, Types, Shaped
  <1>2. /\ g \in Seq(Messages) /\ Len(g) = Len(hist) + 1
        /\ \A i \in 1..Len(hist) : g[i] = hist[i]
        /\ g[Len(hist) + 1] = m
    BY <1>1, AppendFacts
  <1> HIDE DEF g
  <1>3. \A i \in (Len(hist) + 1)..Len(g) : g[i] = m
    BY <1>1, <1>2
  <1>4. \A i \in (Len(hist) + 1)..Len(g) : ShapeAt(g, i)
    BY <1>3 DEF ShapeAt
  <1>5. Len(hist) <= Len(g)
    BY <1>1, <1>2
  <1>6. \A i \in DOMAIN g : ShapeAt(g, i)
    BY <1>1, <1>2, <1>4, <1>5, ShapeExtends
  <1> QED BY <1>6 DEF g

LEMMA FinishKeeps == Inv /\ Finish => Inv'
  <1> SUFFICES ASSUME Inv, Finish PROVE Inv'
    OBVIOUS
  <1> DEFINE m == Echo(answer)
  <1>1. /\ hist \in Seq(Messages) /\ hist # <<>> /\ Len(hist) \in Nat
        /\ DOMAIN hist = 1..Len(hist)
        /\ m \in Messages /\ m.role = "assistant"
        /\ Len(m.calls) = Len(answer.calls) /\ DOMAIN m.calls = DOMAIN answer.calls
        /\ \A k \in DOMAIN m.calls : m.calls[k].id = answer.calls[k].id
    <2>1. /\ hist \in Seq(Messages) /\ hist # <<>> /\ answer \in Messages
          /\ answer.role = "assistant"
      BY DEF Inv, Types
    <2>2. DOMAIN answer.calls = 1..Len(answer.calls)
      BY <2>1, CallFacts
    <2> HIDE DEF m
    <2>3. /\ m \in Messages /\ m.role = "assistant"
          /\ Len(m.calls) = Len(answer.calls) /\ DOMAIN m.calls = 1..Len(answer.calls)
          /\ \A k \in 1..Len(answer.calls) : m.calls[k].id = answer.calls[k].id
      BY <2>1, EchoFacts DEF m
    <2> QED BY <2>1, <2>2, <2>3
  <1>2. /\ hist' = Append(hist, m) /\ done' = hist' /\ pc = "answer" /\ pc' = "client"
        /\ UNCHANGED <<stream, exact, sigs, session, answer, got, split, signed, answers,
                       events, expired>>
        /\ tips' = [t \in DOMAIN tips \cup {Append(hist, answer)} |->
                       IF t = Append(hist, answer) THEN session ELSE tips[t]]
    BY DEF Finish, remember_tip
  <1>3. /\ hist' \in Seq(Messages) /\ hist' # <<>> /\ Len(hist') = Len(hist) + 1
        /\ DOMAIN hist' = 1..(Len(hist) + 1)
        /\ \A i \in 1..Len(hist) : hist'[i] = hist[i]
        /\ hist'[Len(hist) + 1] = m
        /\ Last(hist') = m /\ Front(hist') = hist
    BY <1>1, <1>2, AppendFacts
  <1> HIDE DEF m
  <1>4. Types'
    BY <1>2, <1>3 DEF Inv, Types
  <1>5. SignsKept'
    BY <1>2 DEF Inv, SignsKept
  <1>6. Numbered'
    BY <1>2 DEF Inv, Numbered, GotNumbered, WholeKept, StreamNumbered, StreamKept
  <1>7. HistNumbered'
    <2> SUFFICES ASSUME NEW i \in DOMAIN hist', NEW k \in DOMAIN hist'[i].calls
                 PROVE  hist'[i].calls[k].id[1] <= answers
      BY <1>2 DEF HistNumbered
    <2>1. CASE i \in 1..Len(hist)
      BY <1>1, <1>3, <2>1 DEF Inv, HistNumbered
    <2>2. CASE i = Len(hist) + 1
      <3>1. hist'[i].calls[k].id[1] = answers /\ answers \in Nat
        BY <1>1, <1>3, <2>2, AnswerFacts
      <3> QED BY <3>1
    <2> QED BY <1>1, <1>3, <2>1, <2>2
  <1>8. HistUnique'
    <2> SUFFICES ASSUME NEW i \in DOMAIN hist', NEW j \in DOMAIN hist',
                        NEW k \in DOMAIN hist'[i].calls, NEW l \in DOMAIN hist'[j].calls,
                        hist'[i].calls[k].id = hist'[j].calls[l].id
                 PROVE  i = j /\ k = l
      BY DEF HistUnique
    <2>1. \A n \in 1..Len(hist) : \A p \in DOMAIN hist[n].calls :
             hist[n].calls[p].id[1] < answers /\ hist[n].calls[p].id[1] \in Nat
      <3>1. \A n \in 1..Len(hist) : hist[n] \in Messages
        BY <1>1
      <3> QED BY <1>1, <1>2, <3>1, CallFacts DEF Inv, HistNumbered
    <2>2. \A p \in DOMAIN m.calls : m.calls[p].id[1] = answers /\ answers \in Nat
      BY <1>1, AnswerFacts
    <2>3. CASE i \in 1..Len(hist) /\ j \in 1..Len(hist)
      BY <1>1, <1>3, <2>3 DEF Inv, HistUnique
    <2>4. CASE i = Len(hist) + 1 /\ j = Len(hist) + 1
      <3>1. k \in DOMAIN answer.calls /\ l \in DOMAIN answer.calls
        BY <1>1, <1>3, <2>4
      <3>2. answer.calls[k].id = answer.calls[l].id
        BY <1>1, <1>3, <2>4, <3>1
      <3> QED BY <3>1, <3>2, <2>4, AnswerFacts
    <2>5. CASE i \in 1..Len(hist) /\ j = Len(hist) + 1
      BY <1>3, <2>1, <2>2, <2>5
    <2>6. CASE i = Len(hist) + 1 /\ j \in 1..Len(hist)
      BY <1>3, <2>1, <2>2, <2>6
    <2> QED BY <1>1, <1>3, <2>3, <2>4, <2>5, <2>6
  <1>9. Shaped'
    BY <1>1, <1>2, ShapeAppend DEF Shaped
  <1>10. Turns'
    <2>1. Asks(Last(hist)) /\ Last(hist) = hist[Len(hist)]
      BY <1>2 DEF Inv, Turns, Last
    <2>2. hist'[Len(hist') - 1] = Last(hist) /\ Len(hist') >= 2
      BY <1>1, <1>3, <2>1
    <2>3. Asks(hist'[Len(hist') - 1])
      BY <2>1, <2>2
    <2>4. Last(hist') = Echo(answer)'
      BY <1>2, <1>3 DEF Echo, m
    <2>5. Last(done').role = "assistant" /\ Len(done') <= Len(hist')
      BY <1>1, <1>2, <1>3
    <2> QED BY <1>2, <2>2, <2>3, <2>4, <2>5 DEF Turns, Asks
  <1>11. Sessions'
    <2>1. Front(hist') # done'
      <3>1. Len(hist) \in Nat
        BY <1>1
      <3>2. Len(hist') = Len(hist) + 1
        BY <1>3
      <3>3. Len(hist') # Len(hist)
        BY <3>1, <3>2
      <3>4. Front(hist') = hist /\ done' = hist'
        BY <1>2, <1>3
      <3> QED BY <3>3, <3>4
    <2>2. Plain' => Echo(answer) = answer
      BY <1>2, EchoPlain DEF Plain
    <2>3. Plain' => hist' \in DOMAIN tips' /\ tips'[hist'] = session'
      BY <1>2, <2>2 DEF m
    <2> QED BY <1>2, <2>1, <2>3 DEF Sessions
  <1> QED BY <1>4, <1>5, <1>6, <1>7, <1>8, <1>9, <1>10, <1>11 DEF Inv

(* The client leaves or gets an error. *)
LEMMA LeaveKeeps == Inv /\ (Disconnect \/ Fail) => Inv'
  <1> SUFFICES ASSUME Inv, Disconnect \/ Fail PROVE Inv'
    OBVIOUS
  <1>1. /\ pc = "answer" /\ pc' = "client"
        /\ UNCHANGED <<hist, stream, exact, sigs, session, answer, got, split, done, signed,
                       answers, events, expired>>
    BY DEF Disconnect, Fail
  <1>2. /\ hist \in Seq(Messages) /\ hist # <<>> /\ answer \in Messages
    BY DEF Inv, Types
  <1>3. hist # done
    BY <1>1, <1>2 DEF Inv, Turns, Asks
  <1>4. Types'
    BY <1>1 DEF Inv, Types
  <1>5. SignsKept'
    BY <1>1 DEF Inv, SignsKept
  <1>6. Numbered'
    BY <1>1 DEF Inv, Numbered, GotNumbered, WholeKept, StreamNumbered, StreamKept
  <1>7. HistNumbered' /\ HistUnique' /\ Shaped'
    BY <1>1 DEF Inv, HistNumbered, HistUnique, Shaped
  <1>8. Turns'
    BY <1>1, <1>3 DEF Inv, Turns
  <1>9. Sessions'
    <2>1. CASE Fail
      BY <1>1, <1>3, <2>1 DEF Inv, Sessions, Fail, Resolve
    <2>2. CASE Disconnect
      <3> DEFINE tip == Append(hist, answer)
      <3>1. tips' = [t \in DOMAIN tips \cup {tip} |-> IF t = tip THEN session ELSE tips[t]]
        BY <2>2 DEF Disconnect, remember_tip
      <3>2. hist # tip /\ Front(hist) # tip
        <4>1. Len(tip) = Len(hist) + 1 /\ Len(hist) \in Nat
          BY <1>2, AppendFacts
        <4>2. Len(Front(hist)) = Len(hist) - 1
          BY <1>2, FrontFacts
        <4> HIDE DEF tip
        <4>3. Len(tip) # Len(hist) /\ Len(tip) # Len(Front(hist))
          BY <4>1, <4>2
        <4> QED BY <4>3
      <3> HIDE DEF tip
      <3>3. /\ hist \in DOMAIN tips' <=> hist \in DOMAIN tips
            /\ Front(hist) \in DOMAIN tips' <=> Front(hist) \in DOMAIN tips
        BY <3>1, <3>2
      <3>4. /\ hist \in DOMAIN tips => tips'[hist] = tips[hist]
            /\ Front(hist) \in DOMAIN tips => tips'[Front(hist)] = tips[Front(hist)]
        BY <3>1, <3>2
      <3>5. Resolve(hist)' = Resolve(hist)
        BY <1>1, <3>3, <3>4 DEF Resolve
      <3> QED BY <1>1, <1>3, <3>5 DEF Inv, Sessions
    <2> QED BY <2>1, <2>2
  <1> QED BY <1>4, <1>5, <1>6, <1>7, <1>8, <1>9 DEF Inv

LEMMA ExpireKeeps == Inv /\ Expire => Inv'
  <1> SUFFICES ASSUME Inv, Expire PROVE Inv'
    OBVIOUS
  <1>1. /\ expired' = TRUE /\ sigs' = {}
        /\ UNCHANGED <<hist, stream, exact, pc, session, answer, got, split, done, signed,
                       answers, events>>
    BY DEF Expire
  <1>2. Types'
    BY <1>1 DEF Inv, Types
  <1>3. SignsKept' /\ Sessions'
    BY <1>1 DEF SignsKept, Sessions
  <1>4. Numbered'
    BY <1>1 DEF Inv, Numbered, GotNumbered, WholeKept, StreamNumbered, StreamKept
  <1>5. HistNumbered' /\ HistUnique' /\ Shaped'
    BY <1>1 DEF Inv, HistNumbered, HistUnique, Shaped
  <1>6. Turns'
    BY <1>1 DEF Inv, Turns, Echo
  <1> QED BY <1>2, <1>3, <1>4, <1>5, <1>6 DEF Inv

(* A list that is one longer than a remembered one is in its session. *)
LEMMA LongerList ==
    ASSUME Inv, NEW h \in Seq(Messages), Len(h) > Len(hist), UNCHANGED tips,
           pc = "client", ~expired, done # <<>>, Front(h) = done, Plain,
           \A i \in 1..Len(hist) : h[i] = hist[i]
    PROVE  Resolve(h)' = session
  <1>1. /\ hist \in Seq(Messages) /\ done \in Seq(Messages) /\ hist # <<>>
        /\ Len(hist) \in Nat /\ Len(done) \in Nat /\ Len(h) \in Nat /\ Len(hist) >= 1
        /\ Len(done) <= Len(hist)
    BY DEF Inv, Types, Turns
  <1>2. h # <<>>
    BY <1>1
  <1>3. Len(Front(h)) = Len(h) - 1 /\ \A i \in 1..(Len(h) - 1) : Front(h)[i] = h[i]
    BY <1>2, FrontFacts
  <1>4. Len(done) = Len(hist) /\ Len(h) >= 2
    BY <1>1, <1>3
  <1>5. \A i \in 1..Len(hist) : done[i] = hist[i]
    BY <1>1, <1>3, <1>4
  <1>6. done = hist
    BY <1>1, <1>4, <1>5, SeqEqual
  <1>7. hist \in DOMAIN tips /\ tips[hist] = session
    BY <1>6 DEF Inv, Sessions
  <1> QED BY <1>4, <1>6, <1>7 DEF Resolve

(* What keeps it when the client adds messages of its own. *)
LEMMA ClientAdds ==
    ASSUME Inv, NEW h \in Seq(Messages), Len(h) > Len(hist), hist' = h, pc = "client",
           UNCHANGED <<stream, exact, tips, sigs, pc, session, answer, got, split, done, signed,
                       answers, events, expired>>,
           \A i \in 1..Len(hist) : h[i] = hist[i],
           \A i \in (Len(hist) + 1)..Len(h) : h[i].calls = <<>> /\ ShapeAt(h, i)
    PROVE  Inv'
  <1>1. /\ hist \in Seq(Messages) /\ done \in Seq(Messages) /\ hist # <<>>
        /\ Len(hist) \in Nat /\ Len(done) \in Nat /\ Len(h) \in Nat
        /\ Len(done) <= Len(hist) /\ DOMAIN h = 1..Len(h) /\ DOMAIN hist = 1..Len(hist)
    BY DEF Inv, Types, Turns
  <1>2. h # <<>>
    BY <1>1
  <1>3. Types'
    BY <1>2 DEF Inv, Types
  <1>4. SignsKept'
    BY DEF Inv, SignsKept
  <1>5. Numbered'
    BY DEF Inv, Numbered, GotNumbered, WholeKept, StreamNumbered, StreamKept
  <1>6. \A i \in DOMAIN h : i \in 1..Len(hist) \/ i \in (Len(hist) + 1)..Len(h)
    BY <1>1
  <1>7. \A i \in DOMAIN h : \A k \in DOMAIN h[i].calls : i \in 1..Len(hist) /\ h[i] = hist[i]
    BY <1>6
  <1>8. HistNumbered'
    BY <1>1, <1>7 DEF Inv, HistNumbered
  <1>9. HistUnique'
    BY <1>1, <1>7 DEF Inv, HistUnique
  <1>10. Shaped'
    <2>1. \A i \in 1..Len(hist) : h[i] = hist[i] /\ ShapeAt(hist, i)
      BY <1>1 DEF Inv, Shaped
    <2>2. \A i \in DOMAIN h : ShapeAt(h, i)
      BY <1>1, <2>1, ShapeExtends
    <2> QED BY <2>2 DEF Shaped
  <1>11. done # h /\ Len(done) <= Len(h)
    BY <1>1
  <1>12. Turns'
    BY <1>11 DEF Inv, Turns
  <1>13. Sessions'
    <2>1. ~expired /\ done # <<>> /\ Front(h) = done /\ Plain => Resolve(h)' = session
      BY LongerList
    <2>2. Plain' <=> Plain
      BY DEF Plain
    <2>3. Resolve(hist)' = Resolve(h)'
      BY DEF Resolve
    <2> QED BY <1>11, <2>1, <2>2, <2>3 DEF Sessions
  <1> QED BY <1>3, <1>4, <1>5, <1>8, <1>9, <1>10, <1>12, <1>13 DEF Inv

LEMMA UserSpeaksKeeps == Inv /\ UserSpeaks => Inv'
  <1> SUFFICES ASSUME Inv, UserSpeaks PROVE Inv'
    OBVIOUS
  <1> DEFINE h == Append(hist, UserSays)
  <1>1. hist \in Seq(Messages) /\ Len(hist) \in Nat
    BY DEF Inv, Types
  <1>2. /\ h \in Seq(Messages) /\ Len(h) = Len(hist) + 1
        /\ \A i \in 1..Len(hist) : h[i] = hist[i]
        /\ h[Len(hist) + 1] = UserSays
    BY <1>1, MessageTypes, AppendFacts
  <1>3. /\ hist' = h /\ pc = "client"
        /\ UNCHANGED <<stream, exact, tips, sigs, pc, session, answer, got, split, done, signed,
                       answers, events, expired>>
    BY DEF UserSpeaks
  <1>4. \A i \in DOMAIN h : ShapeAt(h, i)
    BY MessageTypes, ShapeAppend
  <1> HIDE DEF h
  <1>5. \A i \in (Len(hist) + 1)..Len(h) : h[i].calls = <<>> /\ ShapeAt(h, i)
    <2> TAKE i \in (Len(hist) + 1)..Len(h)
    <2>1. i = Len(hist) + 1 /\ i \in DOMAIN h
      BY <1>1, <1>2
    <2> QED BY <1>2, <1>4, <2>1, MessageTypes
  <1>6. Len(h) > Len(hist)
    BY <1>1, <1>2
  <1> QED BY <1>2, <1>3, <1>5, <1>6, ClientAdds

LEMMA ResultsKeeps == Inv /\ Results => Inv'
  <1> SUFFICES ASSUME Inv, Results PROVE Inv'
    OBVIOUS
  <1>1. hist \in Seq(Messages) /\ hist # <<>> /\ Len(hist) \in Nat
    BY DEF Inv, Types
  <1> DEFINE calls == Last(hist).calls
             n == Len(calls)
  <1>2. PICK named \in BOOLEAN :
          /\ pc = "client" /\ Last(hist).role = "assistant" /\ calls # <<>>
          /\ hist' = hist \o [k \in DOMAIN calls |->
                                Result(calls[k], IF named THEN calls[k].name ELSE None)]
          /\ UNCHANGED <<stream, exact, tips, sigs, pc, session, answer, got, split, done,
                         signed, answers, events, expired>>
    BY DEF Results
  <1>3. Last(hist) \in Messages /\ Last(hist) = hist[Len(hist)]
    BY <1>1, FrontFacts DEF Last
  <1>4. /\ calls \in Seq(CallType) /\ n \in Nat /\ DOMAIN calls = 1..n /\ n >= 1
        /\ \A k \in 1..n : calls[k].id \in Ids /\ calls[k].name \in STRING
    BY <1>2, <1>3, CallFacts
  <1> HIDE DEF n
  <1> DEFINE result(k) == Result(calls[k], IF named THEN calls[k].name ELSE None)
             results == [k \in 1..n |-> result(k)]
             h == hist \o results
  <1>5. ASSUME NEW k \in 1..n
        PROVE  /\ result(k) \in Messages /\ result(k).role = "tool" /\ result(k).calls = <<>>
               /\ result(k).ref = calls[k].id /\ result(k).name \in {None, calls[k].name}
    <2>1. <<>> \in Seq(CallType)
      OBVIOUS
    <2> QED BY <1>4, <2>1 DEF Result, Message, Messages, Roles
  <1> HIDE DEF result
  <1>6. results \in Seq(Messages) /\ Len(results) = n
    <2>1. results \in [1..n -> Messages]
      BY <1>5
    <2> HIDE DEF results
    <2> QED BY <1>4, <2>1, FunctionIsSeq
  <1>7. /\ h \in Seq(Messages) /\ Len(h) = Len(hist) + n
        /\ \A i \in 1..Len(hist) : h[i] = hist[i]
        /\ \A k \in 1..n : h[Len(hist) + k] = result(k)
    <2> HIDE DEF results
    <2>1. /\ h \in Seq(Messages) /\ Len(h) = Len(hist) + n
          /\ \A i \in 1..Len(hist) + n :
               h[i] = IF i <= Len(hist) THEN hist[i] ELSE results[i - Len(hist)]
      BY <1>1, <1>4, <1>6, ConcatProperties
    <2>2. \A k \in 1..n : results[k] = result(k)
      BY DEF results
    <2> HIDE DEF h
    <2>3. \A i \in 1..Len(hist) : h[i] = hist[i]
      BY <1>1, <1>4, <2>1
    <2>4. \A k \in 1..n : h[Len(hist) + k] = result(k)
      BY <1>1, <1>4, <2>1, <2>2
    <2> QED BY <2>1, <2>3, <2>4
  <1>8. hist' = h
    BY <1>2, <1>4 DEF result
  <1> HIDE DEF h
  <1>9. ASSUME NEW i \in (Len(hist) + 1)..Len(h) PROVE h[i].calls = <<>> /\ ShapeAt(h, i)
    <2> DEFINE k == i - Len(hist)
               j == Len(hist)
    <2>1. k \in 1..n /\ i = Len(hist) + k /\ i \in DOMAIN h /\ j \in DOMAIN h /\ j < i
      BY <1>1, <1>4, <1>7
    <2>2. h[i] = result(k)
      BY <1>7, <2>1
    <2>3. h[j] = Last(hist)
      BY <1>1, <1>3, <1>7
    <2>4. ASSUME NEW l \in (j + 1)..i PROVE h[l].role = "tool"
      <3>1. l - Len(hist) \in 1..n /\ l = Len(hist) + (l - Len(hist))
        <4>1. i \in Nat /\ i - Len(hist) <= n /\ l \in Nat /\ Len(hist) + 1 <= l /\ l <= i
          BY <1>1, <1>4, <2>1
        <4> QED BY <1>1, <1>4, <4>1
      <3> QED BY <1>5, <1>7, <3>1
    <2>5. ResultOf(h, i, j)
      <3>1. h[i].ref = h[j].calls[i - j].id /\ h[i].name \in {None, h[j].calls[i - j].name}
        BY <1>5, <2>1, <2>2, <2>3
      <3>2. i - j <= Len(h[j].calls)
        BY <2>1, <2>3 DEF n
      <3> QED BY <1>2, <2>1, <2>3, <2>4, <3>1, <3>2 DEF ResultOf
    <2> QED BY <1>5, <2>1, <2>2, <2>5 DEF ShapeAt
  <1>10. Len(h) > Len(hist)
    BY <1>1, <1>4, <1>7
  <1> QED BY <1>2, <1>7, <1>8, <1>9, <1>10, ClientAdds

LEMMA EventKeeps == ASSUME NEW chunk \in Chunks PROVE Inv /\ Event(chunk) => Inv'
  <1> SUFFICES ASSUME Inv, Event(chunk) PROVE Inv'
    OBVIOUS
  <1>1. chunk \in ChunkType
    BY ChunksAssumption
  <1>2. /\ answers \in Nat /\ events \in Nat /\ got \in Seq(CallType) /\ answer \in Messages
        /\ stream \in BOOLEAN /\ split \in BOOLEAN /\ expired \in BOOLEAN
        /\ Len(got) \in Nat /\ DOMAIN got = 1..Len(got) /\ answer.role = "assistant"
        /\ answer.text \in BOOLEAN /\ answer.extra \in BOOLEAN
        /\ answer.calls \in Seq(CallType) /\ Len(answer.calls) \in Nat
        /\ DOMAIN answer.calls = 1..Len(answer.calls)
    BY DEF Inv, Types, Messages
  <1>3. PICK again \in {FALSE, Repeats(chunk)} :
          /\ pc = "answer"
          /\ LET new == CallsFrom(IF again THEN 0 ELSE Len(got), chunk) IN
                /\ answer' = [answer EXCEPT
                      !.text  = @ \/ chunk.text,
                      !.extra = @ \/ chunk.thought,
                      !.calls = IF stream THEN MergeStreamed(@, new) ELSE MergeWhole(@, new)]
                /\ sigs' = sigs \cup Signatures(new)
                /\ signed' = signed \cup {new[k].id : k \in {j \in DOMAIN new : chunk.signed}}
                /\ got' = IF again THEN got ELSE got \o new
                /\ split' = (split \/ (got # <<>> /\ new # <<>>))
          /\ events' = events + 1
          /\ UNCHANGED <<convVars, stream, exact, tips, expired>>
    BY DEF Event
  <1> DEFINE n == IF again THEN 0 ELSE Len(got)
             new == CallsFrom(n, chunk)
             len == Len(chunk.calls)
  <1>4. again => Repeats(chunk)
    BY Zenon
  <1>5. /\ new \in Seq(CallType) /\ Len(new) = len /\ len \in Nat /\ n \in Nat
        /\ DOMAIN new = 1..len
        /\ \A k \in 1..len : /\ new[k].id = <<answers, n + k>>
                             /\ new[k].args = << <<answers, n + k>> >>
                             /\ new[k].sig = chunk.signed
    <2>1. n \in Nat
      BY <1>2
    <2> HIDE DEF n
    <2>2. /\ new \in Seq(CallType) /\ Len(new) = len /\ len \in Nat
          /\ \A k \in 1..len : /\ new[k].id = <<answers, n + k>>
                               /\ new[k].args = << <<answers, n + k>> >>
                               /\ new[k].sig = chunk.signed
      BY <1>1, <1>2, <2>1, CallsFromFacts
    <2> HIDE DEF new, len
    <2>3. DOMAIN new = 1..len
      BY <2>2
    <2> QED BY <2>1, <2>2, <2>3
  <1>6. again => n = 0 /\ len <= Len(got) /\ len >= 1
    <2>1. again => chunk.calls # <<>> /\ Len(chunk.calls) <= Len(got)
      BY <1>4 DEF Repeats
    <2>2. chunk.calls \in Seq(STRING)
      BY <1>1 DEF ChunkType
    <2> QED BY <1>2, <2>1, <2>2
  <1>7. ~again => n = Len(got)
    OBVIOUS
  <1>8. /\ pc = "answer" /\ pc' = "answer" /\ events' = events + 1
        /\ UNCHANGED <<hist, session, done, answers, stream, exact, tips, expired>>
    BY <1>3 DEF convVars
  <1>9. /\ answer' = [answer EXCEPT
              !.text  = @ \/ chunk.text,
              !.extra = @ \/ chunk.thought,
              !.calls = IF stream THEN MergeStreamed(@, new) ELSE MergeWhole(@, new)]
        /\ sigs' = sigs \cup Signatures(new)
        /\ signed' = signed \cup {new[k].id : k \in {j \in DOMAIN new : chunk.signed}}
        /\ got' = IF again THEN got ELSE got \o new
        /\ split' = (split \/ (got # <<>> /\ new # <<>>))
    BY <1>3
  <1> HIDE DEF n, new, len
  <1>10. /\ chunk.text \in BOOLEAN /\ chunk.thought \in BOOLEAN /\ chunk.signed \in BOOLEAN
    BY <1>1 DEF ChunkType
  <1>11. got' \in Seq(CallType)
    BY <1>2, <1>5, <1>9, ConcatProperties
  <1>12. ~again => /\ Len(got') = Len(got) + len
                   /\ \A k \in 1..Len(got) : got'[k] = got[k]
                   /\ \A k \in 1..len : got'[Len(got) + k] = new[k]
    <2> SUFFICES ASSUME ~again
                 PROVE  /\ Len(got') = Len(got) + len
                        /\ \A k \in 1..Len(got) : got'[k] = got[k]
                        /\ \A k \in 1..len : got'[Len(got) + k] = new[k]
      OBVIOUS
    <2>1. got' = got \o new
      BY <1>9
    <2>2. /\ Len(got') = Len(got) + len
          /\ \A k \in 1..(Len(got) + len) :
                got'[k] = IF k <= Len(got) THEN got[k] ELSE new[k - Len(got)]
      BY <1>2, <1>5, <2>1, ConcatProperties
    <2>3. \A k \in 1..Len(got) : got'[k] = got[k]
      BY <1>2, <1>5, <2>2
    <2>4. ASSUME NEW k \in 1..len PROVE got'[Len(got) + k] = new[k]
      <3> DEFINE i == Len(got) + k
      <3>1. i \in 1..(Len(got) + len) /\ ~(i <= Len(got)) /\ i - Len(got) = k
        BY <1>2, <1>5
      <3> HIDE DEF i
      <3>2. got'[i] = new[k]
        BY <2>2, <3>1
      <3> QED BY <3>2 DEF i
    <2> QED BY <2>2, <2>3, <2>4
  <1>13. again => got' = got
    BY <1>9
  <1>14. GotNumbered'
    <2>1. GotNumbered
      BY DEF Inv, Numbered
    <2>2. CASE again
      BY <1>8, <1>13, <2>1, <2>2 DEF GotNumbered
    <2>3. CASE ~again
      <3> SUFFICES ASSUME NEW k \in 1..Len(got')
                   PROVE  got'[k].id = <<answers, k>> /\ got'[k].args = <<got'[k].id>>
        BY <1>8, <1>11 DEF GotNumbered
      <3>1. CASE k <= Len(got)
        <4>1. k \in DOMAIN got /\ got'[k] = got[k]
          BY <1>2, <1>12, <2>3, <3>1
        <4> QED BY <2>1, <4>1 DEF GotNumbered
      <3>2. CASE k > Len(got)
        <4>1. k - Len(got) \in 1..len /\ k = Len(got) + (k - Len(got))
          BY <1>2, <1>5, <1>12, <2>3, <3>2
        <4>2. got'[k] = new[k - Len(got)]
          BY <1>12, <2>3, <4>1
        <4> QED BY <1>5, <1>7, <2>3, <4>1, <4>2
      <3> QED BY <1>2, <3>1, <3>2
    <2> QED BY <2>2, <2>3
  (* Without a stream. *)
  <1>15. ASSUME ~stream
         PROVE  /\ answer'.calls = got' /\ answer'.calls \in Seq(CallType)
                /\ answer'.extra
    <2>1. answer.calls = got /\ answer.extra
      BY <1>8, <1>15 DEF Inv, Numbered, WholeKept
    <2>2. answer'.calls = MergeWhole(got, new)
      BY <1>2, <1>9, <1>15, <2>1 DEF Messages
    <2>3. answer'.extra
      BY <1>2, <1>9, <2>1 DEF Messages
    <2>4. \A k \in 1..Len(got) : got[k].id = <<answers, k>>
      BY <1>2 DEF Inv, Numbered, GotNumbered
    <2>5. CASE again
      <3>1. \A k \in 1..Len(new) : k \in 1..Len(got) /\ got[k].id = new[k].id
        <4> SUFFICES ASSUME NEW k \in 1..len
                     PROVE  k \in 1..Len(got) /\ got[k].id = new[k].id
          BY <1>5
        <4>1. k \in 1..Len(got) /\ n + k = k
          BY <1>2, <1>5, <1>6, <2>5
        <4>2. new[k].id = <<answers, k>>
          BY <1>5, <4>1
        <4> QED BY <2>4, <4>1, <4>2
      <3>2. MergeWhole(got, new) = got
        BY <1>2, <1>5, <3>1, MergeKnown
      <3> QED BY <1>11, <1>13, <2>1, <2>2, <2>3, <2>5, <3>2
    <2>6. CASE ~again
      <3>1. \A i \in 1..Len(got), k \in 1..Len(new) : got[i].id # new[k].id
        BY <1>2, <1>5, <1>7, <2>4, <2>6
      <3>2. \A j, k \in 1..Len(new) : new[j].id = new[k].id => j = k
        BY <1>2, <1>5
      <3>3. MergeWhole(got, new) = got \o new
        BY <1>2, <1>5, <3>1, <3>2, MergeFresh
      <3>4. got' = got \o new
        BY <1>9, <2>6
      <3>5. new = <<>> => got' = got
        BY <1>2, <3>4, ConcatEmptySeq
      <3> QED BY <1>11, <2>1, <2>2, <2>3, <3>3, <3>4, <3>5
    <2> QED BY <2>5, <2>6
  <1>16. WholeKept'
    BY <1>8, <1>15 DEF WholeKept
  (* With one. *)
  <1> DEFINE m == MergeStreamed(answer.calls, new)
             top == IF len > Len(answer.calls) THEN len ELSE Len(answer.calls)
  <1>17. /\ m \in Seq(CallType) /\ Len(m) = top /\ top \in Nat /\ DOMAIN m = 1..top
         /\ \A i \in 1..top : i > len => m[i] = answer.calls[i]
         /\ \A i \in 1..len : /\ m[i].id = <<answers, n + i>> /\ m[i].name = new[i].name
                              /\ m[i].sig = FALSE
                              /\ i > Len(answer.calls) => m[i].args = new[i].args
    <2>1. /\ m \in Seq(CallType) /\ Len(m) = top /\ top \in Nat
          /\ \A i \in 1..top : i > len => m[i] = answer.calls[i]
          /\ \A i \in 1..len : /\ m[i].id = new[i].id /\ m[i].name = new[i].name
                               /\ m[i].sig = FALSE
                               /\ i > Len(answer.calls) => m[i].args = new[i].args
      <3>1. answer.calls \in Seq(CallType) /\ new \in Seq(CallType) /\ Len(new) = len
        BY <1>2, <1>5
      <3>2. LET t == IF Len(new) > Len(answer.calls) THEN Len(new) ELSE Len(answer.calls)
            IN  /\ m \in Seq(CallType) /\ Len(m) = t /\ t \in Nat
                /\ \A i \in 1..t : i > Len(new) => m[i] = answer.calls[i]
                /\ \A i \in 1..Len(new) :
                      /\ m[i].id = new[i].id /\ m[i].name = new[i].name /\ m[i].sig = FALSE
                      /\ i > Len(answer.calls) => m[i].args = new[i].args
        BY <3>1, MergeStreamedFacts
      <3> HIDE DEF m
      <3> QED BY <3>1, <3>2
    <2> HIDE DEF m, top
    <2>2. DOMAIN m = 1..top
      BY <2>1
    <2> QED BY <1>5, <2>1, <2>2
  <1>18. \A i \in 1..top : i > len => i \in 1..Len(answer.calls)
    BY <1>2, <1>5
  <1>19. len <= top /\ Len(answer.calls) <= top
    BY <1>2, <1>5
  <1>20. stream => answer'.calls = m
    BY <1>2, <1>9 DEF Messages
  <1> HIDE DEF m
  <1>21. Len(got') \in Nat /\ n + len <= Len(got') /\ Len(got) <= Len(got')
    <2>1. CASE again
      BY <1>2, <1>5, <1>6, <1>13, <2>1
    <2>2. CASE ~again
      BY <1>2, <1>5, <1>7, <1>12, <2>2
    <2> QED BY <2>1, <2>2
  <1>22. StreamNumbered'
    <2> SUFFICES ASSUME stream
                 PROVE  \A k \in 1..top : /\ ~m[k].sig /\ m[k].id[1] = answers
                                          /\ m[k].id[2] \in k..Len(got')
                                          /\ \A j \in 1..top : m[j].id = m[k].id => j = k
      BY <1>8, <1>17, <1>20 DEF StreamNumbered
    <2>1. ASSUME NEW k \in 1..top, k > len
          PROVE  /\ ~m[k].sig /\ m[k].id[1] = answers /\ m[k].id[2] \in k..Len(got)
                 /\ m[k] = answer.calls[k] /\ k \in 1..Len(answer.calls)
      BY <1>2, <1>17, <1>18, <2>1 DEF Inv, Numbered, StreamNumbered
    <2>2. ASSUME NEW k \in 1..top, ~(k > len)
          PROVE  /\ ~m[k].sig /\ m[k].id[1] = answers /\ m[k].id[2] = n + k
                 /\ m[k].id = <<answers, n + k>> /\ k \in 1..len
      <3>1. k \in 1..len
        BY <1>5, <1>17, <2>2
      <3> QED BY <1>17, <3>1
    <2>3. ASSUME NEW k \in 1..top
          PROVE  ~m[k].sig /\ m[k].id[1] = answers /\ m[k].id[2] \in k..Len(got')
      <3>1. CASE k > len
        BY <1>2, <1>17, <1>21, <2>1, <3>1
      <3>2. CASE ~(k > len)
        <4>1. n + k \in k..Len(got')
          BY <1>5, <1>17, <1>21, <3>2
        <4> QED BY <2>2, <3>2, <4>1
      <3> QED BY <3>1, <3>2
    <2>4. ASSUME NEW j \in 1..top, NEW k \in 1..top, j > len, ~(k > len) PROVE m[j].id # m[k].id
      <3>1. m[j].id[2] \in j..Len(got) /\ m[k].id[2] = n + k
        BY <2>1, <2>2, <2>4
      <3>2. m[j].id[2] # n + k
        <4>1. CASE again
          BY <1>2, <1>5, <1>6, <1>17, <2>4, <3>1, <4>1
        <4>2. CASE ~again
          BY <1>2, <1>5, <1>7, <1>17, <2>4, <3>1, <4>2
        <4> QED BY <4>1, <4>2
      <3> QED BY <3>1, <3>2
    <2>5. ASSUME NEW j \in 1..top, NEW k \in 1..top, m[j].id = m[k].id PROVE j = k
      <3>1. CASE j > len /\ k > len
        <4>1. answer.calls[j].id = answer.calls[k].id
          BY <2>1, <2>5, <3>1
        <4> QED BY <1>2, <2>1, <3>1, <4>1, AnswerFacts
      <3>2. CASE ~(j > len) /\ ~(k > len)
        <4>1. n + j = n + k
          BY <2>2, <2>5, <3>2
        <4> QED BY <1>5, <1>17, <4>1
      <3> QED BY <2>4, <2>5, <3>1, <3>2
    <2> QED BY <2>3, <2>5
  <1>23. StreamKept'
    <2> SUFFICES ASSUME stream, ~split'
                 PROVE  /\ Len(m) = Len(got')
                        /\ \A k \in DOMAIN got' : /\ m[k].id = got'[k].id
                                                  /\ m[k].name = got'[k].name
                                                  /\ m[k].args = got'[k].args
      BY <1>8, <1>20 DEF StreamKept
    <2>1. ~split /\ (got = <<>> \/ new = <<>>)
      BY <1>9
    <2>2. /\ Len(answer.calls) = Len(got)
          /\ \A k \in 1..Len(got) : /\ answer.calls[k].id = got[k].id
                                    /\ answer.calls[k].name = got[k].name
                                    /\ answer.calls[k].args = got[k].args
      BY <1>2, <2>1 DEF Inv, Numbered, StreamKept
    <2>3. ~again
      <3>1. len = Len(new)
        BY <1>5
      <3> QED BY <1>2, <1>5, <1>6, <2>1, <3>1
    <2>4. CASE new = <<>>
      <3>1. len = 0
        BY <1>5, <2>4
      <3>2. got' = got
        BY <1>2, <1>9, <2>3, <2>4, ConcatEmptySeq
      <3>3. top = Len(got) /\ \A i \in 1..top : m[i] = answer.calls[i]
        BY <1>2, <1>17, <2>2, <3>1
      <3> QED BY <1>2, <1>17, <2>2, <3>2, <3>3
    <2>5. CASE got = <<>>
      <3>1. Len(got) = 0 /\ Len(answer.calls) = 0
        BY <2>2, <2>5
      <3>2. got' = new
        BY <1>5, <1>9, <2>3, <2>5, ConcatEmptySeq
      <3>3. top = len
        BY <1>5, <3>1
      <3>4. \A i \in 1..len : i > Len(answer.calls)
        BY <1>5, <3>1
      <3>5. n = 0
        BY <1>7, <2>3, <3>1
      <3> QED BY <1>5, <1>17, <3>2, <3>3, <3>4, <3>5
    <2> QED BY <2>1, <2>4, <2>5
  <1>24. Types'
    <2>1. answer'.calls \in Seq(CallType)
      BY <1>2, <1>15, <1>17, <1>20
    <2>2. answer' = [answer EXCEPT !.text = answer'.text, !.extra = answer'.extra,
                                   !.calls = answer'.calls]
      BY <1>2, <1>9 DEF Messages
    <2>3. answer'.text \in BOOLEAN /\ answer'.extra \in BOOLEAN
      BY <1>2, <1>9, <1>10 DEF Messages
    <2>4. answer' \in Messages /\ answer'.role = "assistant"
      BY <1>2, <2>1, <2>2, <2>3 DEF Messages
    <2>5. split' \in BOOLEAN /\ events' \in Nat
      BY <1>2, <1>8, <1>9
    <2> QED BY <1>8, <1>11, <2>4, <2>5 DEF Inv, Types
  <1>25. SignsKept'
    <2>1. Signatures(new) = {new[k].id : k \in {j \in DOMAIN new : chunk.signed}}
      BY <1>5, <1>10 DEF Signatures
    <2> QED BY <1>8, <1>9, <2>1 DEF Inv, SignsKept
  <1>26. HistNumbered' /\ HistUnique' /\ Shaped'
    BY <1>8 DEF Inv, HistNumbered, HistUnique, Shaped
  <1>27. Turns'
    BY <1>8 DEF Inv, Turns
  <1>28. Sessions'
    BY <1>8 DEF Inv, Sessions, Resolve
  <1> QED BY <1>14, <1>16, <1>22, <1>23, <1>24, <1>25, <1>26, <1>27, <1>28 DEF Inv, Numbered

LEMMA Stutters == Inv /\ UNCHANGED vars => Inv'
  <1> SUFFICES ASSUME Inv, UNCHANGED vars PROVE Inv'
    OBVIOUS
  <1>1. UNCHANGED <<hist, stream, exact, tips, sigs, pc, session, answer, got, split, done,
                    signed, answers, events, expired>>
    BY DEF vars
  <1>2. Types' /\ SignsKept'
    BY <1>1 DEF Inv, Types, SignsKept
  <1>3. Numbered'
    BY <1>1 DEF Inv, Numbered, GotNumbered, WholeKept, StreamNumbered, StreamKept
  <1>4. HistNumbered' /\ HistUnique' /\ Shaped'
    BY <1>1 DEF Inv, HistNumbered, HistUnique, Shaped
  <1>5. Turns'
    BY <1>1 DEF Inv, Turns, Echo
  <1>6. Sessions'
    BY <1>1 DEF Inv, Sessions, Resolve, Plain
  <1> QED BY <1>2, <1>3, <1>4, <1>5, <1>6 DEF Inv

LEMMA Invariance == Spec => []Inv
  <1>1. Inv /\ [Next]_vars => Inv'
    <2> SUFFICES ASSUME Inv, [Next]_vars PROVE Inv'
      OBVIOUS
    <2>1. CASE Send
      BY <2>1, SendKeeps
    <2>2. ASSUME NEW chunk \in Chunks, Event(chunk) PROVE Inv'
      BY <2>2, EventKeeps
    <2>3. CASE Finish
      BY <2>3, FinishKeeps
    <2>4. CASE Disconnect \/ Fail
      BY <2>4, LeaveKeeps
    <2>5. CASE UserSpeaks
      BY <2>5, UserSpeaksKeeps
    <2>6. CASE Results
      BY <2>6, ResultsKeeps
    <2>7. CASE Expire
      BY <2>7, ExpireKeeps
    <2>8. CASE UNCHANGED vars
      BY <2>8, Stutters
    <2> QED BY <2>1, <2>2, <2>3, <2>4, <2>5, <2>6, <2>7, <2>8 DEF Next
  <1> QED BY Initially, <1>1, PTL DEF Spec

------------------------------------------------------------------------------
(* Theorems *)

(* Whatever Google sends and however the client answers, the messages are  *)
(* well formed, and no two calls of one share an id.                       *)
THEOREM MessagesTypeCorrect == Spec => []TypeOK
  <1>1. Inv => TypeOK
    <2> SUFFICES ASSUME Inv PROVE TypeOK
      OBVIOUS
    <2>1. hist \in Seq(Messages)
      BY DEF Inv, Types
    <2>2. ASSUME NEW i \in DOMAIN hist
          PROVE  /\ hist[i].role \in {"system", "user", "assistant", "tool"}
                 /\ \A k \in DOMAIN hist[i].calls : hist[i].calls[k] \in CallType
      <3>1. hist[i] \in Messages
        BY <2>1
      <3> QED BY <3>1, CallFacts DEF Messages, Roles
    <2>3. \A i \in DOMAIN hist : \A j, k \in DOMAIN hist[i].calls :
             hist[i].calls[j].id = hist[i].calls[k].id => j = k
      BY DEF Inv, HistUnique
    <2> QED BY <2>2, <2>3 DEF TypeOK, Inv, Types, SignsKept
  <1> QED BY <1>1, Invariance, PTL

(* A turn and one more message stay in the session of the turn: the tip is *)
(* remembered under the message the client will send, when it sends it as  *)
(* it came.                                                                *)
THEOREM SessionsStay == Spec => SessionKept
  <1> DEFINE Stays ==
        pc = "client" /\ pc' = "answer" /\ ~expired /\ done # <<>> /\ Front(hist) = done
          /\ (exact \/ ~answer.extra) => session' = session
  <1>1. Inv /\ [Next]_vars => [Stays]_vars
    <2> SUFFICES ASSUME Inv, Next, pc = "client", pc' = "answer", ~expired, done # <<>>,
                        Front(hist) = done, exact \/ ~answer.extra
                 PROVE  session' = session
      OBVIOUS
    <2>1. Send
      BY DEF Next, Event, Finish, Disconnect, Fail, UserSpeaks, Results, Expire
    <2>2. session' = Resolve(hist)
      BY <2>1 DEF Send
    <2>3. Resolve(hist) = session
      BY DEF Inv, Sessions, Plain
    <2> QED BY <2>2, <2>3
  <1> QED BY <1>1, Invariance, PTL DEF Spec, SessionKept

------------------------------------------------------------------------------
(* What goes to Google.  The contents of a conversation are clean when     *)
(* every response follows its calls and every remembered signature is with *)
(* its call; that is kept message by message.                              *)

Part == [kind: {"call", "text", "response"}, name: STRING \cup {None}, args: Seq(Ids),
         id: Ids \cup {None}, sig: BOOLEAN]
GeminiContent == [role: {"user", "model"}, parts: Seq(Part)]

Answered(response, content) == \E m \in DOMAIN content.parts :
    /\ content.parts[m].kind = "call"
    /\ content.parts[m].id = response.id /\ content.parts[m].name = response.name

CleanAt(cs, i) ==
    /\ HasResponses(cs[i]) =>
          /\ i > 1 /\ cs[i - 1].role = "model"
          /\ \A k \in DOMAIN cs[i].parts : Answered(cs[i].parts[k], cs[i - 1])
    /\ \A k \in DOMAIN cs[i].parts :
          cs[i].parts[k].kind = "call" /\ cs[i].parts[k].id \in sigs => cs[i].parts[k].sig

Clean(cs) == cs \in Seq(GeminiContent) /\ \A i \in DOMAIN cs : CleanAt(cs, i)

ModelParts(m) == [k \in DOMAIN m.calls |-> CallPart(m.calls[k])]
                 \o (IF m.text THEN <<TextPart>> ELSE <<>>)

LEMMA CleanFront ==
    ASSUME NEW cs, Clean(cs), cs # <<>>
    PROVE  Clean(Front(cs))
  <1>1. /\ Front(cs) \in Seq(GeminiContent) /\ Len(Front(cs)) = Len(cs) - 1 /\ Len(cs) \in Nat
        /\ \A i \in 1..(Len(cs) - 1) : Front(cs)[i] = cs[i]
    BY FrontFacts DEF Clean
  <1> DEFINE f == Front(cs)
  <1> HIDE DEF f
  <1>2. DOMAIN f = 1..(Len(cs) - 1) /\ \A i \in 1..(Len(cs) - 1) : f[i] = cs[i]
    BY <1>1 DEF f
  <1>3. ASSUME NEW i \in DOMAIN f PROVE CleanAt(f, i)
    <2>1. i \in DOMAIN cs /\ f[i] = cs[i] /\ (i > 1 => f[i - 1] = cs[i - 1])
      BY <1>1, <1>2 DEF Clean
    <2>2. CleanAt(cs, i)
      BY <2>1 DEF Clean
    <2> QED BY <2>1, <2>2 DEF CleanAt
  <1> QED BY <1>1, <1>3 DEF Clean, f

LEMMA CleanAppend ==
    ASSUME NEW cs, Clean(cs), NEW e \in GeminiContent,
           HasResponses(e) => /\ cs # <<>> /\ Last(cs).role = "model"
                              /\ \A k \in DOMAIN e.parts : Answered(e.parts[k], Last(cs)),
           \A k \in DOMAIN e.parts :
              e.parts[k].kind = "call" /\ e.parts[k].id \in sigs => e.parts[k].sig
    PROVE  /\ cs \o <<e>> = Append(cs, e)
           /\ Clean(Append(cs, e)) /\ Last(Append(cs, e)) = e /\ Append(cs, e) # <<>>
           /\ Len(Append(cs, e)) = Len(cs) + 1 /\ Front(Append(cs, e)) = cs
           /\ Len(cs) \in Nat /\ \A i \in 1..Len(cs) : Append(cs, e)[i] = cs[i]
  <1> DEFINE g == Append(cs, e)
  <1>1. /\ cs \in Seq(GeminiContent) /\ Len(cs) \in Nat /\ DOMAIN cs = 1..Len(cs)
        /\ g \in Seq(GeminiContent) /\ Len(g) = Len(cs) + 1 /\ g # <<>>
        /\ \A i \in 1..Len(cs) : g[i] = cs[i]
        /\ g[Len(cs) + 1] = e /\ Last(g) = e /\ Front(g) = cs
    BY AppendFacts DEF Clean
  <1>2. cs \o <<e>> = g
    BY <1>1, AppendIsConcat
  <1> HIDE DEF g
  <1>3. ASSUME NEW i \in 1..Len(cs) PROVE CleanAt(g, i)
    <2>1. g[i] = cs[i] /\ (i > 1 => g[i - 1] = cs[i - 1])
      BY <1>1
    <2>2. CleanAt(cs, i)
      BY <1>1 DEF Clean
    <2> QED BY <2>1, <2>2 DEF CleanAt
  <1>4. CleanAt(g, Len(cs) + 1)
    <2>1. ASSUME HasResponses(e)
          PROVE  /\ Len(cs) + 1 > 1 /\ g[(Len(cs) + 1) - 1].role = "model"
                 /\ \A k \in DOMAIN e.parts : Answered(e.parts[k], g[(Len(cs) + 1) - 1])
      <3>1. Len(cs) \in 1..Len(cs) /\ (Len(cs) + 1) - 1 = Len(cs)
        BY <1>1, <2>1
      <3>2. g[(Len(cs) + 1) - 1] = Last(cs)
        BY <1>1, <3>1 DEF Last
      <3> QED BY <1>1, <2>1, <3>1, <3>2
    <2> QED BY <1>1, <2>1 DEF CleanAt
  <1>5. \A i \in DOMAIN g : i \in 1..Len(cs) \/ i = Len(cs) + 1
    BY <1>1
  <1>6. Clean(g)
    BY <1>1, <1>3, <1>4, <1>5 DEF Clean
  <1> QED BY <1>1, <1>2, <1>6 DEF g

LEMMA ModelPartsFacts ==
    ASSUME NEW m \in Messages
    PROVE  /\ ModelParts(m) \in Seq(Part) /\ Len(m.calls) \in Nat
           /\ Len(ModelParts(m)) = Len(m.calls) + IF m.text THEN 1 ELSE 0
           /\ DOMAIN ModelParts(m) = 1..(Len(m.calls) + IF m.text THEN 1 ELSE 0)
           /\ 1..Len(m.calls) \subseteq DOMAIN ModelParts(m)
           /\ \A k \in 1..Len(m.calls) : ModelParts(m)[k] = CallPart(m.calls[k])
           /\ \A k \in DOMAIN ModelParts(m) : k > Len(m.calls) => ModelParts(m)[k] = TextPart
  <1> DEFINE called == [k \in 1..Len(m.calls) |-> CallPart(m.calls[k])]
             text   == IF m.text THEN <<TextPart>> ELSE <<>>
             extra  == IF m.text THEN 1 ELSE 0
  <1>1. /\ m.calls \in Seq(CallType) /\ Len(m.calls) \in Nat
        /\ DOMAIN m.calls = 1..Len(m.calls)
        /\ \A k \in 1..Len(m.calls) : /\ m.calls[k].id \in Ids /\ m.calls[k].name \in STRING
                                      /\ m.calls[k].sig \in BOOLEAN
                                      /\ m.calls[k].args \in Seq(Ids)
    BY CallFacts
  <1>2. ASSUME NEW k \in 1..Len(m.calls) PROVE CallPart(m.calls[k]) \in Part
    <2>1. Parsed(m.calls[k].args) \in Seq(Ids)
      BY <1>1 DEF Parsed
    <2> QED BY <1>1, <2>1 DEF CallPart, Part
  <1>3. called \in Seq(Part) /\ Len(called) = Len(m.calls)
    <2>1. called \in [1..Len(m.calls) -> Part]
      BY <1>2
    <2> HIDE DEF called
    <2> QED BY <1>1, <2>1, FunctionIsSeq
  <1>4. /\ text \in Seq(Part) /\ Len(text) = extra
        /\ \A k \in 1..extra : text[k] = TextPart
    <2>1. TextPart \in Part
      <3>1. <<>> \in Seq(Ids)
        OBVIOUS
      <3> QED BY <3>1 DEF TextPart, Part
    <2>2. CASE m.text
      BY <2>1, <2>2
    <2>3. CASE ~m.text
      BY <2>3
    <2> QED BY <2>2, <2>3
  <1>5. \A k \in 1..Len(m.calls) : called[k] = CallPart(m.calls[k])
    OBVIOUS
  <1>6. ModelParts(m) = called \o text
    BY <1>1 DEF ModelParts
  <1>7. extra \in Nat
    OBVIOUS
  <1> HIDE DEF called, text
  <1>8. /\ ModelParts(m) \in Seq(Part) /\ Len(ModelParts(m)) = Len(m.calls) + extra
        /\ \A k \in 1..(Len(m.calls) + extra) :
              ModelParts(m)[k] = IF k <= Len(m.calls) THEN called[k] ELSE text[k - Len(m.calls)]
    <2>1. called \in Seq(Part) /\ text \in Seq(Part)
      BY <1>3, <1>4
    <2>2. /\ called \o text \in Seq(Part) /\ Len(called \o text) = Len(called) + Len(text)
          /\ \A k \in 1..(Len(called) + Len(text)) :
                (called \o text)[k] = IF k <= Len(called) THEN called[k] ELSE text[k - Len(called)]
      BY <2>1, ConcatProperties
    <2> HIDE DEF extra
    <2> QED BY <1>3, <1>4, <1>6, <2>2
  <1> HIDE DEF extra
  <1>9. DOMAIN ModelParts(m) = 1..(Len(m.calls) + extra)
    BY <1>8
  <1>10. \A k \in 1..Len(m.calls) : ModelParts(m)[k] = CallPart(m.calls[k])
    BY <1>1, <1>5, <1>7, <1>8
  <1>11. ASSUME NEW k \in DOMAIN ModelParts(m), k > Len(m.calls) PROVE ModelParts(m)[k] = TextPart
    <2>1. k - Len(m.calls) \in 1..extra /\ ~(k <= Len(m.calls)) /\ k \in 1..(Len(m.calls) + extra)
      BY <1>1, <1>7, <1>9, <1>11
    <2> QED BY <1>4, <1>8, <2>1
  <1>12. 1..Len(m.calls) \subseteq DOMAIN ModelParts(m)
    BY <1>1, <1>7, <1>9
  <1> QED BY <1>1, <1>8, <1>9, <1>10, <1>11, <1>12 DEF extra

(* A result finds the name of its call. *)
LEMMA ToolNameFound ==
    ASSUME Inv, NEW i \in DOMAIN hist, NEW j \in DOMAIN hist, ResultOf(hist, i, j)
    PROVE  /\ i - j \in 1..Len(hist[j].calls)
           /\ ToolName(hist, hist[i]) = hist[j].calls[i - j].name
           /\ hist[i].ref = hist[j].calls[i - j].id
           /\ hist[j].calls[i - j] \in CallType
  <1>1. /\ hist \in Seq(Messages) /\ Len(hist) \in Nat /\ DOMAIN hist = 1..Len(hist)
        /\ hist[j] \in Messages
    BY DEF Inv, Types
  <1>2. hist[j].calls \in Seq(CallType) /\ DOMAIN hist[j].calls = 1..Len(hist[j].calls)
    BY <1>1, CallFacts
  <1> DEFINE k == i - j
             calls == hist[j].calls
  <1>3. k \in DOMAIN calls /\ hist[i].ref = calls[k].id /\ hist[i].name \in {None, calls[k].name}
    BY <1>1, <1>2 DEF ResultOf
  <1> HIDE DEF k
  <1>4. \A a \in DOMAIN hist : \A b \in DOMAIN hist[a].calls :
           hist[a].calls[b].id = hist[i].ref => a = j /\ b = k
    BY <1>3 DEF Inv, HistUnique
  <1>5. Carrying(hist, hist[i].ref) = {j}
    BY <1>3, <1>4 DEF Carrying
  <1>6. (CHOOSE b \in DOMAIN calls : calls[b].id = hist[i].ref) = k
    BY <1>3, <1>4
  <1>7. LastOf({j}) = j
    BY <1>1 DEF LastOf
  <1>8. CallWith(hist, hist[i].ref) = calls[k]
    BY <1>5, <1>6, <1>7 DEF CallWith
  <1>9. Carrying(hist, hist[i].ref) # {}
    BY <1>5
  <1>10. ToolName(hist, hist[i]) = calls[k].name
    BY <1>3, <1>8, <1>9 DEF ToolName
  <1>11. calls[k] \in CallType
    BY <1>2, <1>3
  <1> QED BY <1>2, <1>3, <1>10, <1>11 DEF k

ModelContent(m) == [role |-> "model", parts |-> ModelParts(m)]

UpTo(n) == ContentsUpTo(hist)[n]

(* After n messages the contents are clean, and end as the last of the     *)
(* messages wants it.                                                      *)
Good(n) ==
    /\ Clean(UpTo(n))
    /\ n >= 1 =>
          /\ Asks(hist[n]) => UpTo(n) # <<>> /\ Last(UpTo(n)).role = "user"
          /\ hist[n].role = "assistant" /\ hist[n].calls # <<>> =>
                UpTo(n) # <<>> /\ Last(UpTo(n)) = ModelContent(hist[n])
          /\ hist[n].role = "tool" => \A j \in DOMAIN hist : ResultOf(hist, n, j) =>
                /\ Len(UpTo(n)) >= 2 /\ HasResponses(Last(UpTo(n)))
                /\ UpTo(n)[Len(UpTo(n)) - 1] = ModelContent(hist[j])

LEMMA UpToUnfold ==
    Inv => UpTo(0) = <<>>
           /\ \A n \in 1..Len(hist) : UpTo(n) = AddMessage(hist, UpTo(n - 1), hist[n])
  <1> SUFFICES ASSUME Inv
               PROVE  UpTo(0) = <<>>
                      /\ \A n \in 1..Len(hist) : UpTo(n) = AddMessage(hist, UpTo(n - 1), hist[n])
    OBVIOUS
  <1>1. Len(hist) \in Nat
    BY DEF Inv, Types
  <1>2. \A n \in 0..Len(hist) :
           UpTo(n) = IF n = 0 THEN <<>> ELSE AddMessage(hist, UpTo(n - 1), hist[n])
    BY <1>1, ContentsUnfold DEF UpTo
  <1> QED BY <1>1, <1>2

LEMMA ModelContentFacts ==
    ASSUME NEW m \in Messages
    PROVE  /\ ModelContent(m) \in GeminiContent /\ ~HasResponses(ModelContent(m))
           /\ ModelContent(m).role = "model" /\ ModelContent(m).parts = ModelParts(m)
           /\ \A k \in DOMAIN ModelParts(m) :
                 ModelParts(m)[k].kind = "call" /\ ModelParts(m)[k].id \in sigs =>
                    ModelParts(m)[k].sig
           /\ m.calls # <<>> => ModelParts(m) # <<>>
  <1> DEFINE n == Len(m.calls)
             extra == IF m.text THEN 1 ELSE 0
             parts == ModelParts(m)
  <1>1. /\ parts \in Seq(Part) /\ n \in Nat /\ DOMAIN parts = 1..(n + extra)
        /\ Len(parts) = n + extra
        /\ \A k \in 1..n : parts[k] = CallPart(m.calls[k])
        /\ \A k \in DOMAIN parts : k > n => parts[k] = TextPart
    BY ModelPartsFacts
  <1>2. extra \in Nat
    OBVIOUS
  <1> HIDE DEF n, extra, parts
  <1>3. ASSUME NEW k \in DOMAIN parts, parts[k].kind = "call", parts[k].id \in sigs
        PROVE  parts[k].sig
    <2>1. CASE k \in 1..n
      <3> DEFINE c == m.calls[k]
      <3>1. c.id \in sigs => CallPart(c).sig = TRUE
        BY DEF CallPart
      <3>2. CallPart(c).id = c.id
        BY DEF CallPart
      <3> HIDE DEF c
      <3>3. parts[k] = CallPart(c)
        BY <1>1, <2>1 DEF c
      <3>4. c.id \in sigs
        BY <1>3, <3>2, <3>3
      <3> QED BY <3>1, <3>3, <3>4
    <2>2. CASE k > n
      <3>1. parts[k] = TextPart
        BY <1>1, <2>2
      <3> QED BY <1>3, <3>1 DEF TextPart
    <2> QED BY <1>1, <1>2, <2>1, <2>2
  <1>4. ASSUME m.calls # <<>> PROVE parts # <<>>
    <2>1. m.calls \in Seq(CallType)
      BY CallFacts
    <2>2. n # 0
      BY <1>4, <2>1 DEF n
    <2>3. Len(parts) # 0
      BY <1>1, <1>2, <2>2
    <2> QED BY <2>3
  <1>5. /\ ModelContent(m) \in GeminiContent /\ ~HasResponses(ModelContent(m))
        /\ ModelContent(m).role = "model" /\ ModelContent(m).parts = ModelParts(m)
    BY <1>1 DEF ModelContent, GeminiContent, HasResponses, parts
  <1> QED BY <1>3, <1>4, <1>5 DEF parts

LEMMA ResultOfOne ==
    ASSUME Inv, NEW i \in DOMAIN hist, NEW j \in DOMAIN hist, NEW k \in DOMAIN hist,
           ResultOf(hist, i, j), ResultOf(hist, i, k)
    PROVE  j = k
  <1>1. hist \in Seq(Messages) /\ DOMAIN hist = 1..Len(hist) /\ Len(hist) \in Nat
    BY DEF Inv, Types
  <1>2. i \in Nat /\ j \in Nat /\ k \in Nat
    BY <1>1
  <1>3. ~(j < k)
    BY <1>2 DEF ResultOf
  <1>4. ~(k < j)
    BY <1>2 DEF ResultOf
  <1> QED BY <1>2, <1>3, <1>4

(* The message before a result that is not the first is a result, too. *)
LEMMA ResultBefore ==
    ASSUME Inv, NEW i \in DOMAIN hist, NEW j \in DOMAIN hist, ResultOf(hist, i, j), i - 1 # j
    PROVE  i - 1 \in DOMAIN hist /\ hist[i - 1].role = "tool" /\ ResultOf(hist, i - 1, j)
  <1>1. hist \in Seq(Messages) /\ DOMAIN hist = 1..Len(hist) /\ Len(hist) \in Nat
    BY DEF Inv, Types
  <1>2. i \in Nat /\ j \in Nat /\ j < i - 1 /\ i - 1 \in DOMAIN hist /\ j >= 1
    BY <1>1 DEF ResultOf
  <1>3. hist[i - 1].role = "tool"
    BY <1>2 DEF ResultOf
  <1>4. PICK k \in DOMAIN hist : ResultOf(hist, i - 1, k)
    BY <1>2, <1>3 DEF Inv, Shaped, ShapeAt
  <1>5. k \in Nat /\ k < i - 1
    BY <1>1, <1>4 DEF ResultOf
  <1>6. ~(k < j)
    <2>1. k < j => j \in (k + 1)..(i - 1)
      BY <1>2, <1>5
    <2> QED BY <1>4, <2>1 DEF ResultOf
  <1>7. ~(j < k)
    <2>1. j < k => k \in (j + 1)..i
      BY <1>2, <1>5
    <2> QED BY <1>4, <2>1 DEF ResultOf
  <1>8. j = k
    BY <1>2, <1>5, <1>6, <1>7
  <1> QED BY <1>2, <1>3, <1>4, <1>8

(* A result answers its call. *)
LEMMA ResultAnswers ==
    ASSUME Inv, NEW i \in DOMAIN hist, NEW j \in DOMAIN hist, ResultOf(hist, i, j)
    PROVE  /\ ResponsePart(hist, hist[i]) \in Part
           /\ ResponsePart(hist, hist[i]).kind = "response"
           /\ Answered(ResponsePart(hist, hist[i]), ModelContent(hist[j]))
           /\ hist[j] \in Messages /\ hist[j].calls # <<>> /\ hist[j].role = "assistant"
  <1> DEFINE k == i - j
             call == hist[j].calls[k]
             p == ResponsePart(hist, hist[i])
  <1>1. /\ k \in 1..Len(hist[j].calls) /\ ToolName(hist, hist[i]) = call.name
        /\ hist[i].ref = call.id /\ call \in CallType
    BY ToolNameFound
  <1>2. hist[j] \in Messages /\ hist[j].role = "assistant"
    BY DEF Inv, Types, ResultOf
  <1> HIDE DEF k, call
  <1>3. p.kind = "response" /\ p.id = call.id /\ p.name = call.name
    BY <1>1 DEF ResponsePart
  <1>4. p \in Part
    <2>1. <<>> \in Seq(Ids) /\ call.id \in Ids /\ call.name \in STRING
      BY <1>1 DEF CallType
    <2> QED BY <1>1, <2>1 DEF ResponsePart, Part
  <1> HIDE DEF p
  <1>5. /\ ModelParts(hist[j])[k] = CallPart(call) /\ k \in DOMAIN ModelParts(hist[j])
        /\ ModelContent(hist[j]).parts = ModelParts(hist[j])
    <2> DEFINE m == hist[j]
    <2>1. m \in Messages /\ k \in 1..Len(m.calls) /\ call = m.calls[k]
      BY <1>1, <1>2 DEF call
    <2> HIDE DEF m
    <2>2. /\ ModelParts(m) \in Seq(Part) /\ Len(m.calls) \in Nat
          /\ 1..Len(m.calls) \subseteq DOMAIN ModelParts(m)
          /\ \A l \in 1..Len(m.calls) : ModelParts(m)[l] = CallPart(m.calls[l])
      BY <2>1, ModelPartsFacts
    <2>3. ModelParts(m)[k] = CallPart(call)
      BY <2>1, <2>2
    <2>4. k \in DOMAIN ModelParts(m)
      BY <2>1, <2>2
    <2>5. ModelContent(m).parts = ModelParts(m)
      BY <2>1, ModelContentFacts
    <2> QED BY <2>3, <2>4, <2>5 DEF m
  <1>6. CallPart(call).kind = "call" /\ CallPart(call).id = call.id
        /\ CallPart(call).name = call.name
    BY DEF CallPart
  <1>7. Answered(p, ModelContent(hist[j]))
    BY <1>3, <1>5, <1>6 DEF Answered
  <1>8. hist[j].calls # <<>>
    BY <1>1
  <1> QED BY <1>2, <1>3, <1>4, <1>7, <1>8 DEF p

LEMMA ContentFacts ==
    /\ \A role : Content(role, <<>>) = <<>>
    /\ \A role, parts : parts # <<>> =>
          Content(role, parts) = <<[role |-> role, parts |-> parts]>>
  BY DEF Content

(* What a message appends or, for a result, adds to the last content. *)
LEMMA AddFacts ==
    ASSUME Inv, NEW n \in 1..Len(hist), NEW c, c = hist[n], NEW cs, cs = UpTo(n - 1)
    PROVE  /\ c \in Messages /\ c.role \in Roles
           /\ c.role = "system" => UpTo(n) = cs
           /\ c.role = "user" => UpTo(n) = cs \o <<[role |-> "user", parts |-> <<TextPart>>]>>
           /\ c.role = "assistant" => UpTo(n) = cs \o Content("model", ModelParts(c))
           /\ c.role = "tool" /\ cs # <<>> /\ HasResponses(Last(cs)) =>
                 UpTo(n) = Front(cs) \o
                           Content("user", Append(Last(cs).parts, ResponsePart(hist, c)))
           /\ c.role = "tool" /\ ~(cs # <<>> /\ HasResponses(Last(cs))) =>
                 UpTo(n) = cs \o <<[role |-> "user", parts |-> <<ResponsePart(hist, c)>>]>>
  <1>1. UpTo(n) = AddMessage(hist, cs, c)
    BY UpToUnfold
  <1>2. /\ c.role = "user" => c.text
        /\ c \in Messages /\ c.role \in Roles
    <2>1. n \in DOMAIN hist /\ hist \in Seq(Messages)
      BY DEF Inv, Types
    <2>2. c.role = "user" => c.text
      BY <2>1 DEF Inv, Shaped, ShapeAt
    <2>3. c \in Messages
      BY <2>1
    <2> QED BY <2>2, <2>3 DEF Messages
  <1> DEFINE p == ResponsePart(hist, c)
             called == ModelParts(c)
             said == IF c.text THEN <<TextPart>> ELSE <<>>
             both == Append(Last(cs).parts, p)
             withCalls == Content("model", called)
             withText == Content("user", said)
             withBoth == Content("user", both)
             withOne == Content("user", <<p>>)
  <1>3. AddMessage(hist, cs, c) =
          CASE c.role = "system" -> cs
            [] c.role = "user" -> cs \o withText
            [] c.role = "assistant" -> cs \o withCalls
            [] c.role = "tool" -> IF cs # <<>> /\ HasResponses(Last(cs))
                                  THEN Front(cs) \o withBoth ELSE cs \o withOne
    BY Zenon DEF AddMessage, ModelParts
  <1>4. <<p>> # <<>> /\ <<TextPart>> # <<>>
    OBVIOUS
  <1>5. withOne = <<[role |-> "user", parts |-> <<p>>]>>
    BY <1>4, ContentFacts
  <1>6. c.text => withText = <<[role |-> "user", parts |-> <<TextPart>>]>>
    BY <1>4, ContentFacts
  <1> HIDE DEF withCalls, withText, withBoth, withOne
  <1>7. /\ c.role = "system" => UpTo(n) = cs
        /\ c.role = "user" => UpTo(n) = cs \o withText
        /\ c.role = "assistant" => UpTo(n) = cs \o withCalls
        /\ c.role = "tool" /\ cs # <<>> /\ HasResponses(Last(cs)) => UpTo(n) = Front(cs) \o withBoth
        /\ c.role = "tool" /\ ~(cs # <<>> /\ HasResponses(Last(cs))) => UpTo(n) = cs \o withOne
    BY <1>1, <1>3
  <1>8. c.role = "user" => UpTo(n) = cs \o <<[role |-> "user", parts |-> <<TextPart>>]>>
    BY <1>2, <1>6, <1>7
  <1>9. c.role = "tool" /\ ~(cs # <<>> /\ HasResponses(Last(cs))) =>
           UpTo(n) = cs \o <<[role |-> "user", parts |-> <<p>>]>>
    BY <1>5, <1>7
  <1> QED BY <1>2, <1>7, <1>8, <1>9 DEF withCalls, withBoth

(* The first result after the calls, and another one after a result. *)
LEMMA ResultStep ==
    ASSUME Inv, NEW n \in 1..Len(hist), Good(n - 1), hist[n].role = "tool"
    PROVE  Good(n)
  <1> DEFINE c == hist[n]
             cs == UpTo(n - 1)
             p == ResponsePart(hist, c)
  <1>1. /\ hist \in Seq(Messages) /\ Len(hist) \in Nat /\ DOMAIN hist = 1..Len(hist)
        /\ n \in DOMAIN hist /\ n \in Nat /\ n >= 1
    BY DEF Inv, Types
  <1>2. PICK j \in DOMAIN hist : ResultOf(hist, n, j)
    BY <1>1 DEF Inv, Shaped, ShapeAt
  <1>3. /\ p \in Part /\ p.kind = "response" /\ Answered(p, ModelContent(hist[j]))
        /\ hist[j] \in Messages /\ hist[j].calls # <<>> /\ hist[j].role = "assistant"
    BY <1>1, <1>2, ResultAnswers
  <1>4. /\ ModelContent(hist[j]) \in GeminiContent /\ ModelContent(hist[j]).role = "model"
        /\ ~HasResponses(ModelContent(hist[j]))
    BY <1>3, ModelContentFacts
  <1>5. Clean(cs) /\ cs \in Seq(GeminiContent)
    BY DEF Good, Clean
  <1>6. /\ cs # <<>> /\ HasResponses(Last(cs)) =>
             UpTo(n) = Front(cs) \o Content("user", Append(Last(cs).parts, p))
        /\ ~(cs # <<>> /\ HasResponses(Last(cs))) =>
             UpTo(n) = cs \o <<[role |-> "user", parts |-> <<p>>]>>
    BY AddFacts
  <1> HIDE DEF p, cs
  (* Both ways the calls are followed by one content of responses. *)
  <1>7. ASSUME NEW f, Clean(f), f # <<>>, Last(f) = ModelContent(hist[j]),
               NEW parts \in Seq(Part), UpTo(n) = f \o <<[role |-> "user", parts |-> parts]>>,
               \A k \in DOMAIN parts : Answered(parts[k], ModelContent(hist[j])),
               \E k \in DOMAIN parts : parts[k].kind = "response",
               \A k \in DOMAIN parts :
                  parts[k].kind = "call" /\ parts[k].id \in sigs => parts[k].sig
        PROVE  Good(n)
    <2> DEFINE e == [role |-> "user", parts |-> parts]
    <2>1. e \in GeminiContent /\ e.parts = parts /\ e.role = "user"
      BY DEF GeminiContent
    <2>2. HasResponses(e)
      BY <1>7, <2>1 DEF HasResponses
    <2> HIDE DEF e
    <2>3. /\ f \o <<e>> = Append(f, e) /\ Clean(Append(f, e)) /\ Last(Append(f, e)) = e
          /\ Append(f, e) # <<>> /\ Len(Append(f, e)) = Len(f) + 1 /\ Len(f) \in Nat
          /\ \A i \in 1..Len(f) : Append(f, e)[i] = f[i]
      <3>1. /\ HasResponses(e) =>
                  /\ f # <<>> /\ Last(f).role = "model"
                  /\ \A k \in DOMAIN e.parts : Answered(e.parts[k], Last(f))
            /\ \A k \in DOMAIN e.parts :
                  e.parts[k].kind = "call" /\ e.parts[k].id \in sigs => e.parts[k].sig
        BY <1>4, <1>7, <2>1
      <3> QED BY <1>7, <2>1, <3>1, CleanAppend
    <2>4. UpTo(n) = Append(f, e)
      BY <1>7, <2>3 DEF e
    <2>5. f \in Seq(GeminiContent) /\ Len(f) # 0
      BY <1>7 DEF Clean
    <2>6. /\ Len(UpTo(n)) >= 2 /\ Len(f) \in 1..Len(f) /\ Len(UpTo(n)) - 1 = Len(f)
      BY <2>3, <2>4, <2>5
    <2>7. UpTo(n)[Len(UpTo(n)) - 1] = ModelContent(hist[j])
      BY <1>7, <2>3, <2>4, <2>6 DEF Last
    <2>8. ASSUME NEW i \in DOMAIN hist, ResultOf(hist, n, i) PROVE i = j
      BY <1>1, <1>2, <2>8, ResultOfOne
    <2>9. Clean(UpTo(n)) /\ UpTo(n) # <<>> /\ Last(UpTo(n)) = e
      BY <2>3, <2>4
    <2> QED BY <2>1, <2>2, <2>6, <2>7, <2>8, <2>9 DEF Good
  <1>8. CASE n - 1 = j
    <2>1. cs # <<>> /\ Last(cs) = ModelContent(hist[j])
      <3>1. j >= 1
        BY <1>1
      <3> QED BY <1>3, <1>8, <3>1 DEF Good, cs
    <2>2. UpTo(n) = cs \o <<[role |-> "user", parts |-> <<p>>]>>
      BY <1>4, <1>6, <2>1
    <2> DEFINE parts == <<p>>
    <2>3. parts \in Seq(Part) /\ DOMAIN parts = {1} /\ parts[1] = p
      BY <1>3
    <2> HIDE DEF parts
    <2>4. /\ \A k \in DOMAIN parts : Answered(parts[k], ModelContent(hist[j]))
          /\ \E k \in DOMAIN parts : parts[k].kind = "response"
          /\ \A k \in DOMAIN parts :
                parts[k].kind = "call" /\ parts[k].id \in sigs => parts[k].sig
      BY <1>3, <2>3
    <2>5. UpTo(n) = cs \o <<[role |-> "user", parts |-> parts]>>
      BY <2>2 DEF parts
    <2> QED BY <1>5, <1>7, <2>1, <2>3, <2>4, <2>5
  <1>9. CASE n - 1 # j
    <2>1. n - 1 \in DOMAIN hist /\ hist[n - 1].role = "tool" /\ ResultOf(hist, n - 1, j)
      BY <1>1, <1>2, <1>9, ResultBefore
    <2>2. /\ cs # <<>> /\ Len(cs) >= 2 /\ HasResponses(Last(cs))
          /\ cs[Len(cs) - 1] = ModelContent(hist[j])
      <3>1. n - 1 >= 1
        BY <1>1, <2>1
      <3> QED BY <2>1, <3>1 DEF Good, cs, Asks
    <2> DEFINE f == Front(cs)
               last == Last(cs)
               parts == Append(last.parts, p)
    <2>3. /\ f \in Seq(GeminiContent) /\ Len(f) = Len(cs) - 1 /\ last \in GeminiContent /\ Len(cs) \in Nat
          /\ \A i \in 1..(Len(cs) - 1) : f[i] = cs[i]
      BY <1>5, <2>2, FrontFacts
    <2>4. Clean(f)
      BY <1>5, <2>2, CleanFront
    <2> HIDE DEF f
    <2>5. f # <<>> /\ Last(f) = ModelContent(hist[j])
      <3>1. Len(f) \in 1..(Len(cs) - 1) /\ Len(f) # 0
        BY <2>2, <2>3
      <3>2. f[Len(f)] = cs[Len(cs) - 1]
        BY <2>3, <3>1
      <3> QED BY <2>2, <3>1, <3>2 DEF Last
    <2>6. CleanAt(cs, Len(cs)) /\ last = cs[Len(cs)]
      <3>1. Len(cs) \in DOMAIN cs
        BY <1>5, <2>2, <2>3
      <3> QED BY <1>5, <3>1 DEF Clean, Last
    <2>7. /\ \A k \in DOMAIN last.parts : Answered(last.parts[k], ModelContent(hist[j]))
          /\ \A k \in DOMAIN last.parts :
                last.parts[k].kind = "call" /\ last.parts[k].id \in sigs => last.parts[k].sig
      BY <2>2, <2>6 DEF CleanAt
    <2>8. last.parts \in Seq(Part)
      BY <2>3 DEF GeminiContent
    <2> HIDE DEF last
    <2>9. /\ parts \in Seq(Part) /\ parts # <<>> /\ Len(parts) = Len(last.parts) + 1
          /\ \A i \in 1..Len(last.parts) : parts[i] = last.parts[i]
          /\ parts[Len(last.parts) + 1] = p
          /\ Len(last.parts) \in Nat /\ DOMAIN last.parts = 1..Len(last.parts)
      BY <1>3, <2>8, AppendFacts
    <2> HIDE DEF parts
    <2>10. \A k \in DOMAIN parts : k \in DOMAIN last.parts \/ k = Len(last.parts) + 1
      BY <2>9
    <2>11. Len(last.parts) + 1 \in DOMAIN parts
      BY <2>9
    <2>12. /\ \A k \in DOMAIN parts : Answered(parts[k], ModelContent(hist[j]))
           /\ \E k \in DOMAIN parts : parts[k].kind = "response"
           /\ \A k \in DOMAIN parts :
                 parts[k].kind = "call" /\ parts[k].id \in sigs => parts[k].sig
      BY <1>3, <2>7, <2>9, <2>10, <2>11
    <2>13. UpTo(n) = f \o <<[role |-> "user", parts |-> parts]>>
      <3>1. UpTo(n) = f \o Content("user", parts)
        BY <1>6, <2>2 DEF f, parts, last
      <3> QED BY <2>9, <3>1, ContentFacts
    <2> QED BY <1>7, <2>4, <2>5, <2>9, <2>12, <2>13
  <1> QED BY <1>8, <1>9

LEMMA GoodStep ==
    ASSUME Inv, NEW n \in 1..Len(hist), Good(n - 1)
    PROVE  Good(n)
  <1> DEFINE c == hist[n]
             cs == UpTo(n - 1)
             said == [role |-> "user", parts |-> <<TextPart>>]
  <1>1. /\ c \in Messages /\ c.role \in Roles
        /\ c.role = "system" => UpTo(n) = cs
        /\ c.role = "user" => UpTo(n) = cs \o <<said>>
        /\ c.role = "assistant" => UpTo(n) = cs \o Content("model", ModelParts(c))
    <2> HIDE DEF c, cs
    <2>1. c = hist[n] /\ cs = UpTo(n - 1)
      BY DEF c, cs
    <2>2. c \in Messages /\ c.role \in Roles
      BY <2>1, AddFacts
    <2>3. c.role = "system" => UpTo(n) = cs
      BY <2>1, AddFacts
    <2>4. c.role = "user" => UpTo(n) = cs \o <<said>>
      BY <2>1, AddFacts
    <2>5. c.role = "assistant" => UpTo(n) = cs \o Content("model", ModelParts(c))
      BY <2>1, AddFacts
    <2> QED BY <2>2, <2>3, <2>4, <2>5
  <1>2. Clean(cs) /\ cs \in Seq(GeminiContent)
    BY DEF Good, Clean
  <1> HIDE DEF cs
  <1>3. CASE c.role = "tool"
    BY <1>3, ResultStep
  <1>4. CASE c.role = "system"
    BY <1>1, <1>2, <1>4 DEF Good, Asks
  <1>5. CASE c.role = "user"
    <2>1. TextPart \in Part /\ TextPart.kind = "text"
      <3>1. <<>> \in Seq(Ids)
        OBVIOUS
      <3> QED BY <3>1 DEF TextPart, Part
    <2>2. <<TextPart>> \in Seq(Part) /\ DOMAIN <<TextPart>> = {1} /\ <<TextPart>>[1] = TextPart
      BY <2>1
    <2>3. said \in GeminiContent /\ said.parts = <<TextPart>> /\ said.role = "user"
      BY <2>2 DEF GeminiContent
    <2> HIDE DEF said
    <2>4. \A k \in DOMAIN said.parts : said.parts[k].kind = "text"
      BY <2>1, <2>2, <2>3
    <2>5. ~HasResponses(said)
      BY <2>4 DEF HasResponses
    <2>6. /\ cs \o <<said>> = Append(cs, said) /\ Clean(Append(cs, said))
          /\ Last(Append(cs, said)) = said /\ Append(cs, said) # <<>>
      BY <1>2, <2>3, <2>4, <2>5, CleanAppend
    <2>7. Clean(UpTo(n)) /\ UpTo(n) # <<>> /\ Last(UpTo(n)).role = "user"
      BY <1>1, <1>5, <2>3, <2>6
    <2> QED BY <1>5, <2>7 DEF Good
  <1>6. CASE c.role = "assistant"
    <2> DEFINE e == ModelContent(c)
    <2>1. /\ e \in GeminiContent /\ ~HasResponses(e) /\ e.parts = ModelParts(c)
          /\ \A k \in DOMAIN e.parts :
                e.parts[k].kind = "call" /\ e.parts[k].id \in sigs => e.parts[k].sig
          /\ c.calls # <<>> => ModelParts(c) # <<>>
      BY <1>1, ModelContentFacts
    <2>2. CASE ModelParts(c) = <<>>
      <3>1. UpTo(n) = cs
        BY <1>1, <1>2, <1>6, <2>2, ContentFacts, ConcatEmptySeq
      <3> QED BY <1>2, <1>6, <2>1, <2>2, <3>1 DEF Good, Asks
    <2>3. CASE ModelParts(c) # <<>>
      <3>1. UpTo(n) = cs \o <<e>>
        BY <1>1, <1>6, <2>3, ContentFacts DEF ModelContent
      <3> HIDE DEF e
      <3>2. /\ cs \o <<e>> = Append(cs, e) /\ Clean(Append(cs, e))
            /\ Last(Append(cs, e)) = e /\ Append(cs, e) # <<>>
        BY <1>2, <2>1, CleanAppend
      <3>3. Clean(UpTo(n)) /\ UpTo(n) # <<>> /\ Last(UpTo(n)) = e
        BY <3>1, <3>2
      <3> QED BY <1>6, <3>3 DEF Good, Asks, e
    <2> QED BY <2>2, <2>3
  <1> QED BY <1>1, <1>3, <1>4, <1>5, <1>6 DEF Roles

LEMMA GoodAll == ASSUME Inv, NEW n \in 0..Len(hist) PROVE Good(n)
  <1> DEFINE T == {i \in 0..Len(hist) : Good(i)}
  <1>1. Len(hist) \in Nat /\ n \in Nat
    BY DEF Inv, Types
  <1>2. Good(0)
    <2>1. UpTo(0) = <<>>
      BY UpToUnfold
    <2>2. <<>> \in Seq(GeminiContent) /\ DOMAIN <<>> = {}
      OBVIOUS
    <2>3. Clean(<<>>)
      BY <2>2 DEF Clean
    <2> QED BY <2>1, <2>3 DEF Good
  <1>3. 0 \in T
    BY <1>1, <1>2
  <1>4. ASSUME NEW i \in 1..n, i - 1 \in T PROVE i \in T
    <2>1. i \in 1..Len(hist) /\ i \in 0..Len(hist)
      BY <1>1
    <2>2. Good(i)
      BY <1>4, <2>1, GoodStep
    <2> QED BY <2>1, <2>2
  <1> HIDE DEF T
  <1>5. \A i \in 1..n : i - 1 \in T => i \in T
    BY <1>4
  <1>6. n \in T
    BY <1>1, <1>3, <1>5, BoundedInduction
  <1> QED BY <1>6 DEF T

LEMMA ContentsClean == Inv => Clean(Contents(hist))
  <1> SUFFICES ASSUME Inv PROVE Clean(Contents(hist))
    OBVIOUS
  <1>1. Len(hist) \in 0..Len(hist)
    BY DEF Inv, Types
  <1>2. Good(Len(hist))
    BY <1>1, GoodAll
  <1> QED BY <1>2 DEF Good, UpTo, Contents

(* However many calls an answer has and however often the results come     *)
(* named or not: each response that goes to Google stands directly after   *)
(* the calls, with the id and the name of one of them.                     *)
THEOREM ResponsesAlwaysMatch == Spec => []ResponsesMatch
  <1>1. Inv => ResponsesMatch
    <2> SUFFICES ASSUME Inv PROVE ResponsesMatch
      OBVIOUS
    <2> DEFINE cs == Contents(hist)
    <2>1. Clean(cs)
      BY ContentsClean
    <2> HIDE DEF cs
    <2>2. ASSUME NEW i \in DOMAIN cs, HasResponses(cs[i])
          PROVE  /\ i > 1 /\ cs[i - 1].role = "model"
                 /\ \A k \in DOMAIN cs[i].parts : Answered(cs[i].parts[k], cs[i - 1])
      BY <2>1, <2>2 DEF Clean, CleanAt
    <2> QED BY <2>2 DEF ResponsesMatch, Answered, cs
  <1> QED BY <1>1, Invariance, PTL

(* A call that Google signed goes back with its signature, in every        *)
(* request of the conversation and whether or not the client kept it,      *)
(* until Redis forgets.                                                    *)
THEOREM SignaturesReturn == Spec => []SignatureSurvives
  <1>1. Inv => SignatureSurvives
    <2> SUFFICES ASSUME Inv, ~expired PROVE SignatureSurvives
      BY DEF SignatureSurvives
    <2> DEFINE cs == Contents(hist)
    <2>1. Clean(cs)
      BY ContentsClean
    <2>2. sigs = signed
      BY DEF Inv, SignsKept
    <2> HIDE DEF cs
    <2>3. ASSUME NEW i \in DOMAIN cs, NEW k \in DOMAIN cs[i].parts,
                 cs[i].parts[k].id \in signed, cs[i].parts[k].kind = "call"
          PROVE  cs[i].parts[k].sig
      BY <2>1, <2>2, <2>3 DEF Clean, CleanAt
    <2> QED BY <2>3 DEF SignatureSurvives, cs
  <1> QED BY <1>1, Invariance, PTL

(* The calls of the message that the client appended are those that came.  *)
LEMMA EchoedCalls ==
    ASSUME Inv, pc = "client", hist = done, ~(stream /\ split)
    PROVE  /\ Last(hist) \in Messages /\ Len(Last(hist).calls) = Len(got) /\ Len(got) \in Nat
           /\ DOMAIN got = 1..Len(got)
           /\ \A k \in 1..Len(got) : /\ Last(hist).calls[k].id = got[k].id
                                     /\ Last(hist).calls[k].name = got[k].name
                                     /\ Last(hist).calls[k].args = got[k].args
                                     /\ Len(got[k].args) = 1
  <1>1. /\ answer \in Messages /\ got \in Seq(CallType) /\ Len(got) \in Nat
        /\ DOMAIN got = 1..Len(got) /\ Last(hist) = Echo(answer)
    BY DEF Inv, Types, Turns
  <1>2. /\ Len(answer.calls) = Len(got)
        /\ \A k \in 1..Len(got) : /\ answer.calls[k].id = got[k].id
                                  /\ answer.calls[k].name = got[k].name
                                  /\ answer.calls[k].args = got[k].args
    BY <1>1 DEF Inv, Numbered, WholeKept, StreamKept
  <1>3. \A k \in 1..Len(got) : Len(got[k].args) = 1
    <2>1. \A k \in 1..Len(got) : got[k].args = <<got[k].id>>
      BY <1>1 DEF Inv, Numbered, GotNumbered
    <2>2. ASSUME NEW x PROVE Len(<<x>>) = 1
      OBVIOUS
    <2> QED BY <2>1, <2>2
  <1>4. /\ Echo(answer) \in Messages /\ Len(Echo(answer).calls) = Len(answer.calls)
        /\ \A k \in 1..Len(answer.calls) :
              /\ Echo(answer).calls[k].id = answer.calls[k].id
              /\ Echo(answer).calls[k].name = answer.calls[k].name
              /\ Echo(answer).calls[k].args = answer.calls[k].args
    BY <1>1, EchoFacts
  <1> QED BY <1>1, <1>2, <1>3, <1>4

LEMMA AnswerAdded ==
    ASSUME Inv, NEW n \in 1..Len(hist), NEW m, m = hist[n], m.role = "assistant"
    PROVE  UpTo(n) = UpTo(n - 1) \o Content("model", ModelParts(m))
  <1> DEFINE cs == UpTo(n - 1)
  <1> HIDE DEF cs
  <1>1. cs = UpTo(n - 1)
    BY DEF cs
  <1>2. UpTo(n) = cs \o Content("model", ModelParts(m))
    BY <1>1, AddFacts
  <1> QED BY <1>1, <1>2

(* No call of an answer is lost or garbled on its way through the client,  *)
(* whatever their number, unless a stream brings calls in several events.  *)
THEOREM CallsReturn == Spec => []CallsSurvive
  <1>1. Inv => CallsSurvive
    <2> DEFINE cs == Contents(hist)
               parts == IF cs = <<>> \/ Last(cs).role # "model" THEN <<>> ELSE Last(cs).parts
               m == Last(hist)
               n == Len(hist)
    <2> SUFFICES ASSUME Inv, pc = "client", m.role = "assistant", hist = done,
                        ~(stream /\ split)
                 PROVE  /\ Len(parts) >= Len(got)
                        /\ \A k \in DOMAIN parts : parts[k].kind = "call" <=> k <= Len(got)
                        /\ \A k \in DOMAIN got : /\ parts[k].name = got[k].name
                                                 /\ parts[k].args = got[k].args
                                                 /\ parts[k].id = got[k].id
      BY DEF CallsSurvive
    <2>1. /\ n \in Nat /\ n >= 2 /\ Asks(hist[n - 1]) /\ m = hist[n]
      BY DEF Inv, Types, Turns, Last
    <2>2. /\ m \in Messages /\ Len(m.calls) = Len(got) /\ Len(got) \in Nat
          /\ DOMAIN got = 1..Len(got)
          /\ \A k \in 1..Len(got) : /\ m.calls[k].id = got[k].id
                                    /\ m.calls[k].name = got[k].name
                                    /\ m.calls[k].args = got[k].args
                                    /\ Len(got[k].args) = 1
      BY EchoedCalls
    <2>3. cs = UpTo(n)
      BY DEF Contents, UpTo
    <2> DEFINE before == UpTo(n - 1)
    <2>4. cs = before \o Content("model", ModelParts(m))
      <3>1. n \in 1..Len(hist) /\ m = hist[n] /\ m.role = "assistant"
        BY <2>1
      <3> HIDE DEF m, n
      <3>2. UpTo(n) = UpTo(n - 1) \o Content("model", ModelParts(m))
        BY <3>1, AnswerAdded
      <3> QED BY <2>3, <3>2 DEF n
    <2>5. before # <<>> /\ Last(before).role = "user" /\ before \in Seq(GeminiContent)
      <3>1. n - 1 \in 0..Len(hist) /\ n - 1 >= 1
        BY <2>1
      <3>2. Good(n - 1)
        BY <3>1, GoodAll
      <3> QED BY <2>1, <3>1, <3>2 DEF Good, Clean
    <2>6. /\ ModelParts(m) \in Seq(Part) /\ DOMAIN ModelParts(m) = 1..Len(ModelParts(m))
          /\ Len(ModelParts(m)) = Len(got) + IF m.text THEN 1 ELSE 0
          /\ \A k \in 1..Len(got) : ModelParts(m)[k] = CallPart(m.calls[k])
          /\ \A k \in DOMAIN ModelParts(m) : k > Len(got) => ModelParts(m)[k] = TextPart
      BY <2>2, ModelPartsFacts
    <2> HIDE DEF cs, before, m
    <2>7. parts = ModelParts(m)
      <3>1. CASE ModelParts(m) = <<>>
        <4>1. cs = before
          BY <2>4, <2>5, <3>1, ContentFacts, ConcatEmptySeq
        <4> QED BY <2>5, <3>1, <4>1
      <3>2. CASE ModelParts(m) # <<>>
        <4> DEFINE e == ModelContent(m)
        <4>1. e \in GeminiContent /\ e.role = "model" /\ e.parts = ModelParts(m)
          BY <2>2, ModelContentFacts
        <4>2. cs = before \o <<e>>
          BY <2>4, <3>2, ContentFacts DEF ModelContent
        <4> HIDE DEF e
        <4>3. cs = Append(before, e)
          BY <2>5, <4>1, <4>2, AppendIsConcat
        <4>4. cs # <<>> /\ Last(cs) = e
          BY <2>5, <4>1, <4>3, AppendFacts
        <4> QED BY <4>1, <4>4
      <3> QED BY <3>1, <3>2
    <2> HIDE DEF parts
    <2>8. Len(parts) >= Len(got)
      BY <2>2, <2>6, <2>7
    <2>9. ASSUME NEW k \in 1..Len(got)
          PROVE  /\ parts[k].kind = "call" /\ parts[k].name = got[k].name
                 /\ parts[k].args = got[k].args /\ parts[k].id = got[k].id
      <3>1. parts[k] = CallPart(m.calls[k])
        BY <2>6, <2>7
      <3>2. Parsed(m.calls[k].args) = got[k].args
        BY <2>2 DEF Parsed
      <3> QED BY <2>2, <3>1, <3>2 DEF CallPart
    <2>10. \A k \in DOMAIN parts : parts[k].kind = "call" <=> k <= Len(got)
      <3> TAKE k \in DOMAIN parts
      <3>1. k \in Nat /\ k >= 1
        BY <2>6, <2>7
      <3>2. CASE k <= Len(got)
        BY <2>2, <2>9, <3>1, <3>2
      <3>3. CASE k > Len(got)
        <4>1. parts[k] = TextPart
          BY <2>6, <2>7, <3>3
        <4>2. TextPart.kind # "call"
          BY DEF TextPart
        <4> QED BY <2>2, <3>1, <3>3, <4>1, <4>2
      <3> QED BY <2>2, <3>1, <3>2, <3>3
    <2> QED BY <2>2, <2>8, <2>9, <2>10
  <1> QED BY <1>1, Invariance, PTL
==============================================================================
