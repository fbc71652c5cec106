------------------------- MODULE SslReceiveProofs -------------------------
(***************************************************************************)
(* Theorems about SslReceive, for every set of readers, every size of the  *)
(* buffer and of the records, and any number of records.                   *)
(***************************************************************************)
EXTENDS SslReceive, SequenceTheorems, WellFoundedInduction, TLAPS

-----------------------------------------------------------------------------
(* FlattenSeq.  Induction is by the least counterexample.                  *)

(* Numbers with a property have a least one.                               *)
LEMMA Least ==
  ASSUME NEW T \in SUBSET Nat, T # {}
  PROVE  \E m \in T : \A k \in T : m <= k
<1>1. PICK m \in T : \A k \in T : ~ (<<k, m>> \in OpToRel(<, Nat))
  BY NatLessThanWellFounded, WFMin
<1>2. \A k \in T : ~ (k < m)
  BY <1>1 DEF OpToRel
<1> QED
  BY <1>2

(* f is what FlattenSeq computes of ss, from the front.                    *)
Flattens(f, ss) ==
  f = [i \in 1..Len(ss) |-> IF i = 1 THEN ss[i] ELSE f[i - 1] \o ss[i]]

LEMMA FlattensExists ==
  ASSUME NEW S, NEW ss \in Seq(Seq(S))
  PROVE  \E f : Flattens(f, ss)
<1> DEFINE Part(n) == \E f \in [1..n -> Seq(S)] : \A i \in 1..n :
                        f[i] = IF i = 1 THEN ss[i] ELSE f[i - 1] \o ss[i]
           T == {n \in 0..Len(ss) : ~ Part(n)}
<1>1. Part(0)
  <2> DEFINE g == [i \in 1..0 |-> <<>>]
  <2>1. g \in [1..0 -> Seq(S)]
    OBVIOUS
  <2>2. \A i \in 1..0 : g[i] = IF i = 1 THEN ss[i] ELSE g[i - 1] \o ss[i]
    OBVIOUS
  <2> HIDE DEF g
  <2>3. \E f \in [1..0 -> Seq(S)] : \A i \in 1..0 :
           f[i] = IF i = 1 THEN ss[i] ELSE f[i - 1] \o ss[i]
    BY <2>1, <2>2
  <2> QED BY <2>3
<1>2. ASSUME NEW n \in 1..Len(ss), Part(n - 1)
      PROVE  Part(n)
  <2>1. PICK f \in [1..n-1 -> Seq(S)] : \A i \in 1..n-1 :
               f[i] = IF i = 1 THEN ss[i] ELSE f[i - 1] \o ss[i]
    BY <1>2
  <2> DEFINE new == IF n = 1 THEN ss[n] ELSE f[n - 1] \o ss[n]
             g == [i \in 1..n |-> IF i = n THEN new ELSE f[i]]
  <2>2. ss[n] \in Seq(S)
    OBVIOUS
  <2>3. new \in Seq(S)
    BY <2>2
  <2> HIDE DEF new
  <2>4. g \in [1..n -> Seq(S)]
    BY <2>3
  <2>5. g[n] = new /\ \A i \in 1..n-1 : g[i] = f[i]
    OBVIOUS
  <2> HIDE DEF g
  <2>6. ASSUME NEW i \in 1..n
        PROVE  g[i] = IF i = 1 THEN ss[i] ELSE g[i - 1] \o ss[i]
    <3>1. CASE i = n
      BY <3>1, <2>5 DEF new
    <3>2. CASE i # n
      <4>1. i \in 1..n-1 /\ (i = 1 \/ i - 1 \in 1..n-1)
        BY <3>2
      <4> QED BY <4>1, <2>1, <2>5
    <3> QED BY <3>1, <3>2
  <2> QED BY <2>4, <2>6
<1> HIDE DEF Part
<1>3. T = {}
  <2> SUFFICES ASSUME T # {} PROVE FALSE
    OBVIOUS
  <2>1. T \in SUBSET Nat
    OBVIOUS
  <2>2. PICK n \in T : \A k \in T : n <= k
    BY <2>1, Least
  <2>3. n \in 1..Len(ss) /\ n - 1 \in 0..Len(ss) /\ n - 1 \notin T
    BY <1>1, <2>2
  <2> QED BY <2>3, <1>2
<1>4. Len(ss) \in 0..Len(ss)
  OBVIOUS
<1>5. Part(Len(ss))
  BY <1>3, <1>4
<1>6. PICK f \in [1..Len(ss) -> Seq(S)] : \A i \in 1..Len(ss) :
             f[i] = IF i = 1 THEN ss[i] ELSE f[i - 1] \o ss[i]
  BY <1>5 DEF Part
<1>7. Flattens(f, ss)
  BY <1>6 DEF Flattens
<1> QED
  BY <1>7

LEMMA FlattenIs ==
  ASSUME NEW S, NEW ss \in Seq(Seq(S)), ss # <<>>
  PROVE  \E f : Flattens(f, ss) /\ FlattenSeq(ss) = f[Len(ss)]
<1> DEFINE flatten == CHOOSE f : Flattens(f, ss)
<1>1. Flattens(flatten, ss)
  BY FlattensExists
<1>2. FlattenSeq(ss) = flatten[Len(ss)]
  BY DEF FlattenSeq, Flattens
<1> QED
  BY <1>1, <1>2

(* Two such functions agree as far as their sequences do.                  *)
Agree(f, g, m) == \A i \in 1..m : f[i] = g[i]

LEMMA FlattensAgree ==
  ASSUME NEW ss, NEW tt, Len(ss) \in Nat, Len(tt) \in Nat,
         NEW f, NEW g, Flattens(f, ss), Flattens(g, tt),
         NEW m \in 0..Len(ss), m <= Len(tt), Agree(ss, tt, m)
  PROVE  Agree(f, g, m)
<1> DEFINE T == {i \in 1..m : f[i] # g[i]}
<1> SUFFICES ASSUME T # {} PROVE FALSE
  BY DEF Agree
<1>1. T \in SUBSET Nat
  OBVIOUS
<1>2. PICK n \in T : \A k \in T : n <= k
  BY <1>1, Least
<1>3. n \in 1..m /\ n \in 1..Len(ss) /\ n \in 1..Len(tt) /\ ss[n] = tt[n]
  BY DEF Agree
<1>4. /\ f[n] = IF n = 1 THEN ss[n] ELSE f[n - 1] \o ss[n]
      /\ g[n] = IF n = 1 THEN tt[n] ELSE g[n - 1] \o tt[n]
  BY <1>3 DEF Flattens
<1>5. n = 1 \/ (n - 1 \in 1..m /\ n - 1 \notin T)
  BY <1>2, <1>3
<1>6. n = 1 \/ f[n - 1] = g[n - 1]
  BY <1>5
<1> QED
  BY <1>2, <1>3, <1>4, <1>6

LEMMA FlattenEmpty == FlattenSeq(<<>>) = <<>>
BY DEF FlattenSeq

LEMMA FlattenAppend ==
  ASSUME NEW S, NEW ss \in Seq(Seq(S)), NEW s \in Seq(S)
  PROVE  FlattenSeq(Append(ss, s)) = FlattenSeq(ss) \o s
<1> DEFINE tt == Append(ss, s)
           n == Len(ss) + 1
<1>0. Len(ss) \in Nat
  OBVIOUS
<1>1. /\ tt \in Seq(Seq(S)) /\ Len(tt) = n /\ tt[n] = s /\ tt # <<>>
      /\ \A i \in 1..Len(ss) : tt[i] = ss[i]
  BY AppendProperties, <1>0
<1> HIDE DEF tt
<1>2. PICK g : Flattens(g, tt) /\ FlattenSeq(tt) = g[n]
  BY <1>1, FlattenIs
<1>3. g[n] = IF n = 1 THEN tt[n] ELSE g[n - 1] \o tt[n]
  <2>1. n \in 1..Len(tt)
    BY <1>0, <1>1
  <2> HIDE DEF n
  <2> QED BY <2>1, <1>2 DEF Flattens
<1>4. CASE ss = <<>>
  <2>1. n = 1 /\ FlattenSeq(tt) = s
    BY <1>1, <1>2, <1>3, <1>4
  <2> QED BY <2>1, <1>4, FlattenEmpty DEF tt
<1>5. CASE ss # <<>>
  <2>1. PICK f : Flattens(f, ss) /\ FlattenSeq(ss) = f[Len(ss)]
    BY <1>5, FlattenIs
  <2>2. Len(ss) \in 1..Len(ss) /\ Len(ss) <= Len(tt)
    BY <1>1, <1>5
  <2>3. \A i \in 1..Len(ss) : f[i] = g[i]
    <3> DEFINE m == Len(ss)
    <3>1. Agree(ss, tt, m)
      BY <1>1 DEF Agree
    <3>2. m \in 0..Len(ss) /\ m <= Len(tt) /\ Len(ss) \in Nat /\ Len(tt) \in Nat
      BY <2>2, <1>0, <1>1
    <3>3. Flattens(f, ss) /\ Flattens(g, tt)
      BY <2>1, <1>2
    <3> HIDE DEF m
    <3>4. Agree(f, g, m)
      BY <3>1, <3>2, <3>3, FlattensAgree
    <3> QED BY <3>4 DEF m, Agree
  <2>4. n # 1 /\ n - 1 = Len(ss)
    BY <1>5
  <2>5. FlattenSeq(tt) = FlattenSeq(ss) \o s
    BY <2>1, <2>2, <2>3, <2>4, <1>1, <1>2, <1>3
  <2> QED BY <2>5 DEF tt
<1> QED
  BY <1>4, <1>5

(* A sequence that is not empty is made of its front and its last element. *)
LEMMA FrontLast ==
  ASSUME NEW S, NEW s \in Seq(S), s # <<>>
  PROVE  \E t \in Seq(S), e \in S : s = Append(t, e) /\ Len(t) = Len(s) - 1
<1> DEFINE n == Len(s)
           t == SubSeq(s, 1, n - 1)
<1>1. n \in Nat /\ n >= 1 /\ s[n] \in S
  OBVIOUS
<1>2. t \in Seq(S) /\ Len(t) = n - 1 /\ \A i \in 1..n-1 : t[i] = s[i]
  <2>1. \A i \in 1..n-1 : s[i] \in S
    OBVIOUS
  <2>2. n - 1 \in Int /\ (1 <= n - 1 => n - 1 - 1 + 1 = n - 1)
    BY <1>1
  <2> HIDE DEF n
  <2> QED BY <2>1, <2>2, <1>1, SubSeqProperties
<1> HIDE DEF t
<1>3. /\ Append(t, s[n]) \in Seq(S)
      /\ Len(Append(t, s[n])) = Len(s)
      /\ \A i \in 1..Len(s) : Append(t, s[n])[i] = s[i]
  BY <1>1, <1>2
<1>4. Append(t, s[n]) = s
  BY <1>3, SeqEqual
<1> HIDE DEF n
<1> QED
  BY <1>1, <1>2, <1>4 DEF n

LEMMA FlattenTyped ==
  ASSUME NEW S, NEW ss \in Seq(Seq(S))
  PROVE  FlattenSeq(ss) \in Seq(S)
<1> DEFINE T == {n \in Nat : \E x \in Seq(Seq(S)) : Len(x) = n /\ FlattenSeq(x) \notin Seq(S)}
<1>1. T = {}
  <2> SUFFICES ASSUME T # {} PROVE FALSE
    OBVIOUS
  <2>1. T \in SUBSET Nat
    OBVIOUS
  <2>2. PICK n \in T : \A k \in T : n <= k
    BY <2>1, Least
  <2>3. PICK x \in Seq(Seq(S)) : Len(x) = n /\ FlattenSeq(x) \notin Seq(S)
    BY <2>2
  <2>4. x # <<>>
    BY <2>3, FlattenEmpty
  <2>5. PICK t \in Seq(Seq(S)), e \in Seq(S) : x = Append(t, e) /\ Len(t) = Len(x) - 1
    BY <2>4, FrontLast
  <2>6. FlattenSeq(t) \in Seq(S)
    BY <2>2, <2>3, <2>5
  <2>7. FlattenSeq(x) = FlattenSeq(t) \o e
    BY <2>5, FlattenAppend
  <2> QED BY <2>3, <2>6, <2>7, ConcatProperties
<1>2. Len(ss) \in Nat /\ Len(ss) \notin T
  BY <1>1
<1> QED
  BY <1>2

LEMMA AppendConcat ==
  ASSUME NEW S, NEW s \in Seq(S), NEW t \in Seq(S), NEW e \in S
  PROVE  s \o Append(t, e) = Append(s \o t, e)
OBVIOUS

LEMMA FlattenConcat ==
  ASSUME NEW S, NEW ss \in Seq(Seq(S)), NEW tt \in Seq(Seq(S))
  PROVE  FlattenSeq(ss \o tt) = FlattenSeq(ss) \o FlattenSeq(tt)
<1> DEFINE Good(x) == FlattenSeq(ss \o x) = FlattenSeq(ss) \o FlattenSeq(x)
           T == {n \in Nat : \E x \in Seq(Seq(S)) : Len(x) = n /\ ~ Good(x)}
<1>0. Good(<<>>)
  <2>1. ss \o <<>> = ss
    OBVIOUS
  <2>2. FlattenSeq(ss) \o <<>> = FlattenSeq(ss)
    BY FlattenTyped
  <2> QED BY <2>1, <2>2, FlattenEmpty
<1>1. ASSUME NEW t \in Seq(Seq(S)), NEW e \in Seq(S), Good(t)
      PROVE  Good(Append(t, e))
  <2>1. ss \o Append(t, e) = Append(ss \o t, e) /\ ss \o t \in Seq(Seq(S))
    OBVIOUS
  <2>2. FlattenSeq(ss \o Append(t, e)) = FlattenSeq(ss \o t) \o e
    BY <2>1, FlattenAppend
  <2>3. FlattenSeq(Append(t, e)) = FlattenSeq(t) \o e
    BY FlattenAppend
  <2>4. FlattenSeq(ss) \in Seq(S) /\ FlattenSeq(t) \in Seq(S)
    BY FlattenTyped
  <2>5. FlattenSeq(ss) \o (FlattenSeq(t) \o e) = (FlattenSeq(ss) \o FlattenSeq(t)) \o e
    BY <2>4, ConcatAssociative
  <2> QED BY <1>1, <2>2, <2>3, <2>5
<1> HIDE DEF Good
<1>2. T = {}
  <2> SUFFICES ASSUME T # {} PROVE FALSE
    OBVIOUS
  <2>1. T \in SUBSET Nat
    OBVIOUS
  <2>2. PICK n \in T : \A k \in T : n <= k
    BY <2>1, Least
  <2>3. PICK x \in Seq(Seq(S)) : Len(x) = n /\ ~ Good(x)
    BY <2>2
  <2>4. x # <<>>
    BY <2>3, <1>0
  <2>5. PICK t \in Seq(Seq(S)), e \in Seq(S) : x = Append(t, e) /\ Len(t) = Len(x) - 1
    BY <2>4, FrontLast
  <2>6. Good(t)
    BY <2>2, <2>3, <2>5
  <2> QED BY <2>3, <2>5, <2>6, <1>1
<1>3. Len(tt) \in Nat /\ Len(tt) \notin T
  BY <1>2
<1>4. Good(tt)
  BY <1>3
<1> QED
  BY <1>4 DEF Good

-----------------------------------------------------------------------------
(* Units.                                                                  *)

(* For each piece, the units it brings.                                    *)
Brings(s) == [i \in DOMAIN s |-> IF s[i].kind = "data" THEN <<s[i].unit>> ELSE <<>>]

LEMMA BringsTyped ==
  ASSUME NEW s \in Seq(Pieces)
  PROVE  Brings(s) \in Seq(Seq(Nat)) /\ Len(Brings(s)) = Len(s)
<1>1. Len(s) \in Nat /\ DOMAIN s = 1..Len(s)
  OBVIOUS
<1>2. ASSUME NEW i \in 1..Len(s)
      PROVE  s[i].unit \in Nat
  <2>1. s[i] \in Pieces
    BY ElementOfSeq
  <2> QED BY <2>1 DEF Pieces
<1>3. ASSUME NEW i \in 1..Len(s)
      PROVE  Brings(s)[i] \in Seq(Nat)
  <2>1. <<s[i].unit>> \in Seq(Nat) /\ <<>> \in Seq(Nat)
    BY <1>2
  <2> QED BY <2>1, <1>1 DEF Brings
<1>4. Brings(s) \in [1..Len(s) -> Seq(Nat)]
  BY <1>1, <1>3 DEF Brings
<1> QED
  BY <1>1, <1>4

LEMMA UnitsTyped ==
  ASSUME NEW s \in Seq(Pieces)
  PROVE  Units(s) \in Seq(Nat)
BY BringsTyped, FlattenTyped DEF Units, Brings

LEMMA UnitsEmpty == Units(<<>>) = <<>>
<1>1. Brings(<<>>) = <<>>
  BY DEF Brings
<1> QED
  BY <1>1, FlattenEmpty DEF Units, Brings

(* The units of a sequence are those of its parts, in order.               *)
LEMMA UnitsConcat ==
  ASSUME NEW s \in Seq(Pieces), NEW t \in Seq(Pieces)
  PROVE  Units(s \o t) = Units(s) \o Units(t)
<1> DEFINE u == s \o t
<1>1. u \in Seq(Pieces) /\ Len(u) = Len(s) + Len(t)
      /\ Len(s) \in Nat /\ Len(t) \in Nat /\ DOMAIN u = 1..Len(u)
      /\ DOMAIN s = 1..Len(s) /\ DOMAIN t = 1..Len(t)
  BY ConcatProperties
<1>2. \A i \in 1..Len(u) : u[i] = IF i <= Len(s) THEN s[i] ELSE t[i - Len(s)]
  BY <1>1, ConcatProperties
<1> HIDE DEF u
<1>3. /\ Brings(s) \in Seq(Seq(Nat)) /\ Len(Brings(s)) = Len(s)
      /\ Brings(t) \in Seq(Seq(Nat)) /\ Len(Brings(t)) = Len(t)
      /\ Brings(u) \in Seq(Seq(Nat)) /\ Len(Brings(u)) = Len(u)
  BY <1>1, BringsTyped
<1>4. /\ Brings(s) \o Brings(t) \in Seq(Seq(Nat))
      /\ Len(Brings(s) \o Brings(t)) = Len(u)
      /\ \A i \in 1..Len(u) : (Brings(s) \o Brings(t))[i]
             = IF i <= Len(s) THEN Brings(s)[i] ELSE Brings(t)[i - Len(s)]
  <2> DEFINE a == Brings(s)
             b == Brings(t)
  <2>1. a \in Seq(Seq(Nat)) /\ b \in Seq(Seq(Nat)) /\ Len(a) = Len(s) /\ Len(b) = Len(t)
    BY <1>3
  <2> HIDE DEF a, b
  <2>2. /\ a \o b \in Seq(Seq(Nat))
        /\ Len(a \o b) = Len(a) + Len(b)
        /\ \A i \in 1..Len(a) + Len(b) : (a \o b)[i] = IF i <= Len(a) THEN a[i] ELSE b[i - Len(a)]
    BY <2>1, ConcatProperties
  <2>3. /\ a \o b \in Seq(Seq(Nat))
        /\ Len(a \o b) = Len(u)
        /\ \A i \in 1..Len(u) : (a \o b)[i] = IF i <= Len(s) THEN a[i] ELSE b[i - Len(s)]
    BY <2>1, <2>2, <1>1
  <2> QED BY <2>3 DEF a, b
<1>5. ASSUME NEW i \in 1..Len(u)
      PROVE  Brings(u)[i] = (Brings(s) \o Brings(t))[i]
  <2>1. CASE i <= Len(s)
    <3>1. i \in DOMAIN s /\ i \in DOMAIN u /\ u[i] = s[i]
      BY <2>1, <1>1, <1>2
    <3>2. Brings(u)[i] = Brings(s)[i]
      BY <3>1 DEF Brings
    <3> QED BY <2>1, <3>2, <1>4
  <2>2. CASE ~ (i <= Len(s))
    <3>1. i - Len(s) \in DOMAIN t /\ i \in DOMAIN u /\ u[i] = t[i - Len(s)]
      BY <2>2, <1>1, <1>2
    <3>2. Brings(u)[i] = Brings(t)[i - Len(s)]
      BY <3>1 DEF Brings
    <3> QED BY <2>2, <3>2, <1>4
  <2> QED BY <2>1, <2>2
<1>6. Brings(u) = Brings(s) \o Brings(t)
  BY <1>3, <1>4, <1>5, SeqEqual
<1>7. FlattenSeq(Brings(u)) = FlattenSeq(Brings(s)) \o FlattenSeq(Brings(t))
  BY <1>3, <1>6, FlattenConcat
<1> QED
  BY <1>7 DEF Units, Brings, u

LEMMA UnitsAppend ==
  ASSUME NEW s \in Seq(Pieces), NEW p \in Pieces
  PROVE  Units(Append(s, p)) = IF p.kind = "data" THEN Append(Units(s), p.unit) ELSE Units(s)
<1>1. Append(s, p) = s \o <<p>> /\ <<p>> \in Seq(Pieces)
  BY AppendIsConcat
<1>2. Units(Append(s, p)) = Units(s) \o Units(<<p>>)
  BY <1>1, UnitsConcat
<1> DEFINE e == IF p.kind = "data" THEN <<p.unit>> ELSE <<>>
<1>3. p.unit \in Nat /\ e \in Seq(Nat)
  BY DEF Pieces
<1>4. Units(<<p>>) = FlattenSeq(<<e>>)
  <2>1. Brings(<<p>>) = <<e>>
    BY DEF Brings
  <2> QED BY <2>1 DEF Units, Brings
<1>5. FlattenSeq(<<e>>) = e
  <2>1. <<e>> = Append(<<>>, e) /\ <<>> \in Seq(Seq(Nat))
    BY <1>3
  <2>2. FlattenSeq(Append(<<>>, e)) = FlattenSeq(<<>>) \o e
    BY <2>1, <1>3, FlattenAppend
  <2> HIDE DEF e
  <2> QED BY <2>1, <2>2, <1>3, FlattenEmpty, ConcatEmptySeq
<1>6. Units(s) \in Seq(Nat)
  BY UnitsTyped
<1>7. Units(Append(s, p)) = Units(s) \o e
  BY <1>2, <1>4, <1>5
<1>8. Units(s) \o <<>> = Units(s) /\ Units(s) \o <<p.unit>> = Append(Units(s), p.unit)
  BY <1>3, <1>6, ConcatEmptySeq, AppendIsConcat
<1> QED
  BY <1>7, <1>8

(* Pieces without plaintext have no units.                                 *)
LEMMA UnitsNone ==
  ASSUME NEW s \in Seq(Pieces), \A i \in 1..Len(s) : s[i].kind # "data"
  PROVE  Units(s) = <<>>
<1> DEFINE Bad(x) == Units(x) # <<>> /\ \A i \in 1..Len(x) : x[i].kind # "data"
           T == {n \in Nat : \E x \in Seq(Pieces) : Len(x) = n /\ Bad(x)}
<1>1. T = {}
  <2> SUFFICES ASSUME T # {} PROVE FALSE
    OBVIOUS
  <2>1. T \in SUBSET Nat
    OBVIOUS
  <2>2. PICK n \in T : \A k \in T : n <= k
    BY <2>1, Least
  <2>3. PICK x \in Seq(Pieces) : Len(x) = n /\ Bad(x)
    BY <2>2
  <2>4. x # <<>>
    BY <2>3, UnitsEmpty
  <2>5. PICK t \in Seq(Pieces), p \in Pieces : x = Append(t, p) /\ Len(t) = Len(x) - 1
    BY <2>4, FrontLast
  <2>6. Units(x) = IF p.kind = "data" THEN Append(Units(t), p.unit) ELSE Units(t)
    BY <2>5, UnitsAppend
  <2>7. p = x[Len(x)] /\ Len(x) \in 1..Len(x) /\ \A i \in 1..Len(t) : t[i] = x[i]
    BY <2>5, AppendProperties
  <2>8. Bad(t)
    BY <2>3, <2>5, <2>6, <2>7
  <2>9. Len(t) \in Nat /\ Len(t) < n
    BY <2>3, <2>5
  <2> QED BY <2>2, <2>8, <2>9
<1>2. Len(s) \in Nat /\ Len(s) \notin T
  BY <1>1
<1> QED
  BY <1>2

(* Pieces of data have one unit each.                                      *)
LEMMA UnitsAll ==
  ASSUME NEW s \in Seq(Pieces), \A i \in 1..Len(s) : s[i].kind = "data"
  PROVE  /\ Len(Units(s)) = Len(s)
         /\ \A i \in 1..Len(s) : Units(s)[i] = s[i].unit
<1> DEFINE Good(x) == /\ Len(Units(x)) = Len(x)
                      /\ \A i \in 1..Len(x) : Units(x)[i] = x[i].unit
           Data(x) == \A i \in 1..Len(x) : x[i].kind = "data"
           T == {n \in Nat : \E x \in Seq(Pieces) : Len(x) = n /\ Data(x) /\ ~ Good(x)}
<1>0. Good(<<>>)
  BY UnitsEmpty
<1>1. T = {}
  <2> SUFFICES ASSUME T # {} PROVE FALSE
    OBVIOUS
  <2>1. T \in SUBSET Nat
    OBVIOUS
  <2>2. PICK n \in T : \A k \in T : n <= k
    BY <2>1, Least
  <2>3. PICK x \in Seq(Pieces) : Len(x) = n /\ Data(x) /\ ~ Good(x)
    BY <2>2
  <2>4. x # <<>>
    BY <2>3, <1>0
  <2>5. PICK t \in Seq(Pieces), p \in Pieces : x = Append(t, p) /\ Len(t) = Len(x) - 1
    BY <2>4, FrontLast
  <2>7. p = x[Len(x)] /\ Len(x) \in 1..Len(x) /\ \A i \in 1..Len(t) : t[i] = x[i]
    BY <2>5, AppendProperties
  <2>6. Units(x) = Append(Units(t), p.unit) /\ Units(t) \in Seq(Nat) /\ p.unit \in Nat
    BY <2>3, <2>5, <2>7, UnitsAppend, UnitsTyped DEF Pieces
  <2>8. Data(t) /\ Len(t) \in Nat /\ Len(t) < n
    BY <2>3, <2>5, <2>7
  <2>9. Good(t)
    <3> HIDE DEF Good, Data
    <3> QED BY <2>2, <2>8
  <2>10. /\ Len(Units(x)) = Len(Units(t)) + 1
         /\ Units(x)[Len(Units(t)) + 1] = p.unit
         /\ \A i \in 1..Len(Units(t)) : Units(x)[i] = Units(t)[i]
    BY <2>6, AppendProperties
  <2>11. Good(x)
    BY <2>5, <2>7, <2>8, <2>9, <2>10
  <2> QED BY <2>3, <2>11
<1>2. Len(s) \in Nat /\ Len(s) \notin T
  BY <1>1
<1> QED
  BY <1>2

-----------------------------------------------------------------------------
(* Take, Drop, Min and Max.                                                *)

(* The lesser of two numbers.                                              *)
LEMMA MinOfTwo ==
  ASSUME NEW a \in Nat, NEW b \in Nat
  PROVE  Min({a, b}) = IF a <= b THEN a ELSE b
<1> DEFINE m == IF a <= b THEN a ELSE b
<1>1. m \in {a, b} /\ \A y \in {a, b} : m <= y
  OBVIOUS
<1>2. \A x \in {a, b} : (\A y \in {a, b} : x <= y) => x = m
  OBVIOUS
<1> QED
  BY <1>1, <1>2 DEF Min

(* The units that do not fit follow those that do.                         *)
LEMMA Cut ==
  ASSUME NEW S, NEW s \in Seq(S), NEW n \in Nat
  PROVE  /\ Take(s, n) \in Seq(S)
         /\ Drop(s, n) \in Seq(S)
         /\ Len(Take(s, n)) = IF n <= Len(s) THEN n ELSE Len(s)
         /\ Len(Drop(s, n)) = IF n <= Len(s) THEN Len(s) - n ELSE 0
         /\ \A i \in 1..Len(Take(s, n)) : Take(s, n)[i] = s[i]
         /\ \A i \in 1..Len(Drop(s, n)) : Drop(s, n)[i] = s[n + i]
         /\ Take(s, n) \o Drop(s, n) = s
<1> DEFINE m == IF n <= Len(s) THEN n ELSE Len(s)
<1>1. m \in 0..Len(s) /\ Len(s) \in Nat
  OBVIOUS
<1>2. Take(s, n) = SubSeq(s, 1, m)
  BY MinOfTwo DEF Take
<1>3. /\ Take(s, n) \in Seq(S)
      /\ Len(Take(s, n)) = m
      /\ \A i \in 1..m : Take(s, n)[i] = s[i]
  BY <1>1, <1>2
<1>4. /\ Drop(s, n) \in Seq(S)
      /\ Len(Drop(s, n)) = Len(s) - m
      /\ \A i \in 1..(Len(s) - m) : Drop(s, n)[i] = s[m + i] /\ m = n
  <2>1. CASE n <= Len(s)
    BY <1>1, <2>1 DEF Drop
  <2>2. CASE n > Len(s)
    <3>1. Drop(s, n) = <<>>
      BY <1>1, <2>2, SubSeqEmpty DEF Drop
    <3> QED
      BY <1>1, <2>2, <3>1
  <2> QED
    BY <2>1, <2>2
<1> HIDE DEF m
<1>5. Take(s, n) \o Drop(s, n) = s
  <2>1. /\ Take(s, n) \o Drop(s, n) \in Seq(S)
        /\ Len(Take(s, n) \o Drop(s, n)) = Len(s)
    BY <1>1, <1>3, <1>4
  <2>2. ASSUME NEW i \in 1..Len(s)
        PROVE  (Take(s, n) \o Drop(s, n))[i] = s[i]
    <3>1. CASE i <= m
      BY <1>1, <1>3, <1>4, <3>1
    <3>2. CASE i > m
      <4>1. i - m \in 1..(Len(s) - m) /\ m + (i - m) = i
        BY <1>1, <3>2
      <4>2. Drop(s, n)[i - m] = s[i]
        BY <1>4, <4>1
      <4> QED
        BY <1>1, <1>3, <1>4, <3>2, <4>2
    <3>3. i <= m \/ i > m
      BY <1>1
    <3> QED
      BY <3>1, <3>2, <3>3
  <2> QED
    BY <2>1, <2>2, SeqEqual
<1>6. \A i \in 1..Len(Drop(s, n)) : Drop(s, n)[i] = s[n + i]
  BY <1>4
<1>7. /\ m = IF n <= Len(s) THEN n ELSE Len(s)
      /\ Len(s) - m = IF n <= Len(s) THEN Len(s) - n ELSE 0
  BY <1>1 DEF m
<1>8. /\ Len(Take(s, n)) = IF n <= Len(s) THEN n ELSE Len(s)
      /\ Len(Drop(s, n)) = IF n <= Len(s) THEN Len(s) - n ELSE 0
      /\ \A i \in 1..Len(Take(s, n)) : Take(s, n)[i] = s[i]
  BY <1>3, <1>4, <1>7
<1> QED
  BY <1>3, <1>4, <1>5, <1>6, <1>8

LEMMA CutNothing ==
  ASSUME NEW n \in Nat
  PROVE  Take(<<>>, n) = <<>> /\ Drop(<<>>, n) = <<>>
<1>1. Len(<<>>) = 0
  OBVIOUS
<1>2. <<>> \in Seq(Nat)
  OBVIOUS
<1>3. /\ Take(<<>>, n) \in Seq(Nat) /\ Drop(<<>>, n) \in Seq(Nat)
      /\ Len(Take(<<>>, n)) = 0 /\ Len(Drop(<<>>, n)) = 0
  <2>1. /\ Take(<<>>, n) \in Seq(Nat) /\ Drop(<<>>, n) \in Seq(Nat)
        /\ Len(Take(<<>>, n)) = IF n <= Len(<<>>) THEN n ELSE Len(<<>>)
        /\ Len(Drop(<<>>, n)) = IF n <= Len(<<>>) THEN Len(<<>>) - n ELSE 0
    BY <1>2, Cut
  <2> QED BY <2>1, <1>1
<1>4. \A s \in Seq(Nat) : Len(s) = 0 => s = <<>>
  OBVIOUS
<1> QED
  BY <1>3, <1>4

LEMMA MinIs ==
  ASSUME NEW T \in SUBSET Nat, T # {}
  PROVE  Min(T) \in T /\ \A k \in T : Min(T) <= k
BY Least DEF Min

LEMMA MaxIs ==
  ASSUME NEW n \in Nat, NEW T \in SUBSET (1..n), T # {}
  PROVE  Max(T) \in T /\ \A k \in T : k <= Max(T)
<1> DEFINE U == {n - k : k \in T}
<1>1. U \in SUBSET Nat /\ U # {}
  <2>1. \A k \in T : n - k \in Nat
    OBVIOUS
  <2> QED BY <2>1
<1>2. PICK u \in U : \A k \in U : u <= k
  BY <1>1, Least
<1>3. PICK m \in T : u = n - m
  BY <1>2
<1>4. \A k \in T : n - k \in U
  OBVIOUS
<1>5. \A k \in T : m >= k
  BY <1>2, <1>3, <1>4
<1>6. Max(T) \in T /\ \A k \in T : Max(T) >= k
  BY <1>5 DEF Max
<1> QED
  BY <1>6

-----------------------------------------------------------------------------
(* Records.                                                                *)

(* The pieces of a record are of one kind.                                 *)
OneKind(s) ==
  \A i, j \in 1..Len(s) :
    i <= j /\ (\A k \in i..(j - 1) : ~ s[k].last) => s[i].kind = s[j].kind

LEMMA EndsAre ==
  ASSUME NEW s \in Seq(Pieces)
  PROVE  Ends(s) = {i \in 1..Len(s) : s[i].last} /\ Ends(s) \in SUBSET (1..Len(s))
BY DEF Ends

(* Where all records up to an end are tickets there is no plaintext.       *)
LEMMA SilentPart ==
  ASSUME NEW s \in Seq(Pieces), OneKind(s), NEW m \in 0..Len(s),
         m # 0 => m \in Ends(s),
         \A i \in Ends(s) : i <= m => s[i].kind = "ticket"
  PROVE  \A i \in 1..m : s[i].kind = "ticket"
<1> SUFFICES ASSUME NEW i \in 1..m
             PROVE  s[i].kind = "ticket"
  OBVIOUS
<1> DEFINE T == {k \in Ends(s) : i <= k /\ k <= m}
<1>0. Len(s) \in Nat /\ i \in 1..Len(s)
  OBVIOUS
<1>1. m \in T /\ T \in SUBSET Nat
  BY EndsAre
<1>2. PICK j \in T : \A k \in T : j <= k
  BY <1>1, Least
<1>3. j \in 1..Len(s) /\ i <= j /\ j <= m /\ s[j].kind = "ticket"
  BY <1>2, EndsAre
<1>4. ASSUME NEW k \in i..(j - 1)
      PROVE  ~ s[k].last
  <2>1. k \in 1..Len(s) /\ k <= m /\ i <= k /\ ~ (j <= k)
    BY <1>0, <1>3
  <2> QED BY <2>1, <1>2, EndsAre
<1> QED
  BY <1>0, <1>3, <1>4 DEF OneKind

(* Begin is the first piece of the record that ends at e.                  *)
LEMMA BeginIs ==
  ASSUME NEW s \in Seq(Pieces), NEW e \in Ends(s)
  PROVE  /\ Begin(s, e) \in 1..e
         /\ Begin(s, e) # 1 => Begin(s, e) - 1 \in Ends(s)
         /\ \A k \in Begin(s, e)..(e - 1) : ~ s[k].last
<1> DEFINE before == {i \in Ends(s) : i < e}
<1>0. Len(s) \in Nat /\ e \in 1..Len(s) /\ before \in SUBSET (1..Len(s))
  BY EndsAre
<1>1. CASE before = {}
  <2>1. Begin(s, e) = 1
    BY <1>1 DEF Begin
  <2>2. \A k \in 1..(e - 1) : k \notin Ends(s)
    BY <1>0, <1>1
  <2> QED BY <2>1, <2>2, <1>0, EndsAre
<1>2. CASE before # {}
  <2>1. Max(before) \in before /\ \A k \in before : k <= Max(before)
    BY <1>0, <1>2, MaxIs
  <2>2. Begin(s, e) = Max(before) + 1
    BY <1>2 DEF Begin
  <2> DEFINE m == Max(before)
  <2> HIDE DEF m
  <2>3. m \in Ends(s) /\ m < e /\ m \in 1..Len(s) /\ \A k \in Ends(s) : k < e => k <= m
    BY <2>1, <1>0 DEF m
  <2>4. Begin(s, e) = m + 1
    BY <2>2 DEF m
  <2>5. \A k \in (m + 1)..(e - 1) : k \in 1..Len(s) /\ k \notin Ends(s)
    BY <2>3, <1>0
  <2> QED BY <2>3, <2>4, <2>5, <1>0, EndsAre
<1> QED
  BY <1>1, <1>2

(* A sequence cut in three.                                                *)
LEMMA ThreeParts ==
  ASSUME NEW s \in Seq(Pieces), NEW b \in Nat, NEW e \in Nat, 1 <= b, b <= e, e <= Len(s)
  PROVE  /\ SubSeq(s, 1, b - 1) \in Seq(Pieces)
         /\ SubSeq(s, b, e) \in Seq(Pieces)
         /\ Drop(s, e) \in Seq(Pieces)
         /\ Units(s) = (Units(SubSeq(s, 1, b - 1)) \o Units(SubSeq(s, b, e))) \o Units(Drop(s, e))
<1>0. Len(s) \in Nat /\ e \in Nat /\ b - 1 \in Nat /\ SubSeq(s, 1, e) = Take(s, e)
  <2>1. Take(s, e) = SubSeq(s, 1, e)
    BY MinOfTwo DEF Take
  <2> QED BY <2>1
<1>1. /\ SubSeq(s, 1, e) \in Seq(Pieces) /\ Drop(s, e) \in Seq(Pieces)
      /\ s = SubSeq(s, 1, e) \o Drop(s, e)
  <2>1. Take(s, e) \in Seq(Pieces) /\ Drop(s, e) \in Seq(Pieces) /\ Take(s, e) \o Drop(s, e) = s
    BY Cut
  <2> QED BY <2>1, <1>0
<1>2. SubSeq(s, 1, b - 1) \in Seq(Pieces) /\ SubSeq(s, b, e) \in Seq(Pieces)
  <2>1. \A i \in 1..Len(s) : s[i] \in Pieces
    BY ElementOfSeq
  <2>2. \A i \in 1..(b - 1) : s[i] \in Pieces
    BY <2>1, <1>0
  <2>3. \A i \in b..e : s[i] \in Pieces
    BY <2>1, <1>0
  <2> QED BY <2>2, <2>3, SubSeqProperties
<1>3. SubSeq(s, 1, b - 1) \o SubSeq(s, (b - 1) + 1, e) = SubSeq(s, 1, e)
  <2>1. 1 \in 1..(Len(s) + 1) /\ b - 1 \in (1 - 1)..Len(s) /\ e \in (b - 1)..Len(s)
    BY <1>0
  <2> QED BY <2>1, ConcatAdjacentSubSeq
<1>4. SubSeq(s, 1, e) = SubSeq(s, 1, b - 1) \o SubSeq(s, b, e)
  <2>1. (b - 1) + 1 = b
    OBVIOUS
  <2> QED BY <2>1, <1>3
<1>5. Units(SubSeq(s, 1, e)) = Units(SubSeq(s, 1, b - 1)) \o Units(SubSeq(s, b, e))
  BY <1>2, <1>4, UnitsConcat
<1>6. Units(s) = Units(SubSeq(s, 1, e)) \o Units(Drop(s, e))
  BY <1>1, UnitsConcat
<1> QED
  BY <1>1, <1>2, <1>5, <1>6

(* No record that ends in the BIO tells anything: they are dropped.        *)
LEMMA SilentUnits ==
  ASSUME NEW s \in Seq(Pieces), Telling(s) = {}, Ends(s) # {}
  PROVE  /\ Max(Ends(s)) \in 1..Len(s)
         /\ Ends(Drop(s, Max(Ends(s)))) = {}
         /\ OneKind(s) => Units(s) = Units(Drop(s, Max(Ends(s))))
<1> DEFINE m == Max(Ends(s))
<1>0. Len(s) \in Nat
  OBVIOUS
<1>1. m \in Ends(s) /\ \A k \in Ends(s) : k <= m
  BY <1>0, EndsAre, MaxIs
<1> HIDE DEF m
<1>2. m \in 1..Len(s)
  BY <1>1, EndsAre
<1>3. /\ Take(s, m) \in Seq(Pieces) /\ Len(Take(s, m)) = m
      /\ Drop(s, m) \in Seq(Pieces) /\ Len(Drop(s, m)) = Len(s) - m
      /\ \A i \in 1..m : Take(s, m)[i] = s[i]
      /\ \A i \in 1..(Len(s) - m) : Drop(s, m)[i] = s[m + i]
      /\ Take(s, m) \o Drop(s, m) = s
  <2>1. m \in Nat /\ m <= Len(s)
    BY <1>0, <1>2
  <2>2. /\ Take(s, m) \in Seq(Pieces) /\ Len(Take(s, m)) = m
        /\ Drop(s, m) \in Seq(Pieces) /\ Len(Drop(s, m)) = Len(s) - m
        /\ \A i \in 1..Len(Take(s, m)) : Take(s, m)[i] = s[i]
        /\ \A i \in 1..Len(Drop(s, m)) : Drop(s, m)[i] = s[m + i]
    BY <2>1, Cut
  <2>3. Take(s, m) \o Drop(s, m) = s
    BY <2>1, Cut
  <2> QED BY <2>2, <2>3
<1>4. Ends(Drop(s, m)) = {}
  <2> SUFFICES ASSUME NEW i \in Ends(Drop(s, m))
               PROVE  FALSE
    OBVIOUS
  <2>1. i \in 1..(Len(s) - m) /\ Drop(s, m)[i].last
    BY <1>3, EndsAre
  <2>2. m + i \in 1..Len(s) /\ s[m + i].last
    BY <2>1, <1>0, <1>2, <1>3
  <2>3. m + i \in Ends(s)
    BY <2>2, EndsAre
  <2> QED BY <2>1, <2>3, <1>1, <1>2
<1>5. ASSUME OneKind(s)
      PROVE  Units(s) = Units(Drop(s, m))
  <2>1. \A i \in Ends(s) : s[i].kind = "ticket"
    BY DEF Telling
  <2>2. \A i \in 1..m : s[i].kind = "ticket"
    BY <2>1, <1>1, <1>2, <1>5, SilentPart
  <2>3. \A i \in 1..Len(Take(s, m)) : Take(s, m)[i].kind # "data"
    BY <2>2, <1>3
  <2>4. Units(Take(s, m)) = <<>>
    BY <2>3, <1>3, UnitsNone
  <2>5. Units(s) = Units(Take(s, m)) \o Units(Drop(s, m))
    BY <1>3, UnitsConcat
  <2> QED BY <2>4, <2>5, <1>3, UnitsTyped, ConcatEmptySeq
<1> QED
  BY <1>2, <1>4, <1>5 DEF m

(* A record of one kind: Plaintext reads off its units.                    *)
LEMMA PlaintextIs ==
  ASSUME NEW record \in Seq(Pieces), record # <<>>
  PROVE  LET last == record[Len(record)]
         IN  /\ Plaintext(record) \in Seq(Nat)
             /\ last.kind = "data" => Plaintext(record) # <<>>
             /\ last.kind # "data" => Plaintext(record) = <<>>
             /\ (\A i \in 1..Len(record) : record[i].kind = last.kind)
                  => Units(record) = Plaintext(record)
<1> DEFINE last == record[Len(record)]
           plain == [i \in 1..Len(record) |-> record[i].unit]
<1>1. Len(record) \in Nat \ {0} /\ DOMAIN record = 1..Len(record) /\ Last(record) = last
  BY DEF Last
<1>2. Plaintext(record) = IF last.kind = "data" THEN plain ELSE <<>>
  BY <1>1 DEF Plaintext
<1>3. \A i \in 1..Len(record) : record[i].unit \in Nat
  <2>1. \A i \in 1..Len(record) : record[i] \in Pieces
    BY ElementOfSeq
  <2> QED BY <2>1 DEF Pieces
<1>4. plain \in Seq(Nat) /\ Len(plain) = Len(record) /\ plain # <<>>
  <2>1. plain \in [1..Len(record) -> Nat]
    BY <1>3
  <2>2. plain \in Seq(Nat) /\ Len(plain) = Len(record)
    BY <2>1, <1>1
  <2> HIDE DEF plain
  <2> QED BY <2>2, <1>1
<1>5. ASSUME \A i \in 1..Len(record) : record[i].kind = last.kind
      PROVE  Units(record) = Plaintext(record)
  <2>1. CASE last.kind = "data"
    <3>1. /\ Len(Units(record)) = Len(record)
          /\ \A i \in 1..Len(record) : Units(record)[i] = record[i].unit
      BY <2>1, <1>5, UnitsAll
    <3>2. Units(record) \in Seq(Nat)
      BY UnitsTyped
    <3>3. \A i \in 1..Len(record) : plain[i] = record[i].unit
      OBVIOUS
    <3>4. Units(record) = plain
      <4> HIDE DEF plain
      <4> QED BY <3>1, <3>2, <3>3, <1>4, SeqEqual
    <3> QED BY <3>4, <2>1, <1>2
  <2>2. CASE last.kind # "data"
    BY <2>2, <1>5, <1>2, UnitsNone
  <2> QED BY <2>1, <2>2
<1>6. Plaintext(record) \in Seq(Nat)
  <2> HIDE DEF plain
  <2>1. <<>> \in Seq(Nat)
    OBVIOUS
  <2> QED BY <2>1, <1>2, <1>4
<1> HIDE DEF plain
<1> QED
  BY <1>2, <1>4, <1>5, <1>6

(* The first record that tells something: what is in front of it has no    *)
(* plaintext.                                                              *)
LEMMA TellingUnits ==
  ASSUME NEW s \in Seq(Pieces), Telling(s) # {}
  PROVE  LET e == Min(Telling(s))
             record == SubSeq(s, Begin(s, e), e)
         IN  /\ e \in 1..Len(s)
             /\ s[e].kind \in {"data", "close", "bad"}
             /\ Plaintext(record) \in Seq(Nat)
             /\ s[e].kind = "data" => Plaintext(record) # <<>>
             /\ s[e].kind \in {"close", "bad"} => Plaintext(record) = <<>>
             /\ OneKind(s) => Units(s) = Plaintext(record) \o Units(Drop(s, e))
<1> DEFINE e == Min(Telling(s))
           b == Begin(s, e)
           record == SubSeq(s, b, e)
           front == SubSeq(s, 1, b - 1)
<1>0. Len(s) \in Nat
  OBVIOUS
<1>1. /\ e \in Ends(s) /\ s[e].kind # "ticket"
      /\ \A k \in Ends(s) : s[k].kind # "ticket" => e <= k
  <2>1. Telling(s) \in SUBSET Nat
    BY EndsAre DEF Telling
  <2>2. e \in Telling(s) /\ \A k \in Telling(s) : e <= k
    BY <2>1, MinIs
  <2> HIDE DEF e
  <2> QED BY <2>2 DEF Telling
<1> HIDE DEF e
<1>2. e \in 1..Len(s) /\ s[e] \in Pieces
  BY <1>1, EndsAre, ElementOfSeq
<1>3. s[e].kind \in {"data", "close", "bad"}
  BY <1>1, <1>2 DEF Pieces
<1>4. b \in 1..e /\ (b # 1 => b - 1 \in Ends(s)) /\ \A k \in b..(e - 1) : ~ s[k].last
  BY <1>1, BeginIs
<1> HIDE DEF b
<1>5. b \in Nat /\ e \in Nat /\ 1 <= b /\ b <= e /\ e <= Len(s) /\ b - 1 \in 0..Len(s)
  BY <1>0, <1>2, <1>4
<1>6. /\ front \in Seq(Pieces) /\ record \in Seq(Pieces) /\ Drop(s, e) \in Seq(Pieces)
      /\ Units(s) = (Units(front) \o Units(record)) \o Units(Drop(s, e))
  BY <1>5, ThreeParts
<1>7. /\ Len(record) = e - b + 1 /\ record # <<>>
      /\ \A i \in 1..(e - b + 1) : record[i] = s[b + i - 1]
      /\ record[Len(record)] = s[e]
  <2>1. Len(record) = e - b + 1 /\ \A i \in 1..(e - b + 1) : record[i] = s[b + i - 1]
    BY <1>0, <1>5
  <2>2. e - b + 1 \in 1..(e - b + 1) /\ b + (e - b + 1) - 1 = e
    BY <1>5
  <2> HIDE DEF record
  <2>3. record[e - b + 1] = s[e]
    BY <2>1, <2>2
  <2> QED BY <2>1, <2>2, <2>3, <1>5
<1>8. ASSUME OneKind(s)
      PROVE  Units(s) = Plaintext(record) \o Units(Drop(s, e))
  <2>1. ASSUME NEW i \in Ends(s), i <= b - 1
        PROVE  s[i].kind = "ticket"
    <3>1. i \in 1..Len(s) /\ ~ (e <= i)
      BY <2>1, <1>5, EndsAre
    <3> QED BY <3>1, <2>1, <1>1
  <2>2. \A i \in 1..(b - 1) : s[i].kind = "ticket"
    <3>1. b - 1 # 0 => b - 1 \in Ends(s)
      BY <1>4, <1>5
    <3> QED BY <3>1, <2>1, <1>5, <1>8, SilentPart
  <2>3. Len(front) = b - 1 /\ \A i \in 1..(b - 1) : front[i] = s[i]
    BY <1>0, <1>5
  <2>4. Units(front) = <<>>
    <3>1. \A i \in 1..Len(front) : front[i].kind # "data"
      BY <2>2, <2>3
    <3> HIDE DEF front
    <3> QED BY <3>1, <1>6, UnitsNone
  <2>5. Units(record) \in Seq(Nat) /\ Units(Drop(s, e)) \in Seq(Nat)
    BY <1>6, UnitsTyped
  <2>6. Units(s) = Units(record) \o Units(Drop(s, e))
    <3> HIDE DEF record, front
    <3> QED BY <2>4, <2>5, <1>6, ConcatEmptySeq
  <2>7. ASSUME NEW i \in b..e
        PROVE  s[i].kind = s[e].kind
    <3>1. i \in 1..Len(s) /\ e \in 1..Len(s) /\ i <= e /\ \A k \in i..(e - 1) : k \in b..(e - 1)
      BY <1>0, <1>5
    <3> QED BY <3>1, <1>4, <1>8 DEF OneKind
  <2>8. \A i \in 1..Len(record) : record[i].kind = record[Len(record)].kind
    <3> SUFFICES ASSUME NEW i \in 1..Len(record)
                 PROVE  record[i].kind = record[Len(record)].kind
      OBVIOUS
    <3> HIDE DEF record
    <3>1. b + i - 1 \in b..e
      BY <1>7, <1>5
    <3> QED BY <3>1, <2>7, <1>7
  <2>9. Units(record) = Plaintext(record)
    <3> HIDE DEF record
    <3> QED BY <2>8, <1>6, <1>7, PlaintextIs
  <2> QED BY <2>6, <2>9
<1>9. /\ Plaintext(record) \in Seq(Nat)
      /\ s[e].kind = "data" => Plaintext(record) # <<>>
      /\ s[e].kind \in {"close", "bad"} => Plaintext(record) = <<>>
  <2> HIDE DEF record
  <2> QED BY <1>6, <1>7, PlaintextIs
<1> QED
  BY <1>2, <1>3, <1>8, <1>9 DEF e, b
(* What one SSL_read does: plain is what it has, of which as much as fits  *)
(* is returned, and k pieces of the BIO go with it.                        *)
Reads(res, s, n, plain, k, end, left) ==
  /\ plain \in Seq(Nat) /\ k \in 0..Len(s) /\ end \in BOOLEAN /\ left \in BOOLEAN
  /\ res = [got |-> Take(plain, n), bio |-> Drop(s, k), pending |-> Drop(plain, n),
            shut |-> end, left |-> left, status |-> Status(Take(plain, n), end)]

(* What there is already is returned, and nothing after the last record.   *)
ReadsPending(s, plain, k, end) ==
  /\ pending # <<>> \/ shut
  /\ plain = pending /\ k = 0 /\ end = shut

(* No record that tells something is complete.                             *)
ReadsNothing(s, plain, k, end) ==
  /\ pending = <<>> /\ ~ shut
  /\ plain = <<>> /\ ~ end
  /\ Ends(Drop(s, k)) = {}
  /\ OneKind(s) => Units(s) = Units(Drop(s, k))

(* The first record that tells something is consumed.                      *)
ReadsRecord(s, plain, k, end) ==
  /\ pending = <<>> /\ ~ shut
  /\ k \in 1..Len(s) /\ (end <=> s[k].kind \in {"close", "bad"})
  /\ ~ end => plain # <<>>
  /\ OneKind(s) => /\ Units(s) = plain \o Units(Drop(s, k))
                   /\ end => plain = <<>>

LEMMA DropNone ==
  ASSUME NEW S, NEW s \in Seq(S)
  PROVE  Drop(s, 0) = s
BY SubSeqFull DEF Drop

LEMMA ReadIs ==
  ASSUME pending \in Seq(Nat), shut \in BOOLEAN, NEW s \in Seq(Pieces), NEW n \in Nat
  PROVE  \E plain, k, end, left :
           /\ Reads(SslRead(s, n), s, n, plain, k, end, left)
           /\ \/ ReadsPending(s, plain, k, end)
              \/ ReadsNothing(s, plain, k, end)
              \/ ReadsRecord(s, plain, k, end)
<1> DEFINE result(plain, rest, end, left) ==
             [got |-> Take(plain, n), bio |-> rest, pending |-> Drop(plain, n),
              shut |-> end, left |-> left, status |-> Status(Take(plain, n), end)]
<1>0. Len(s) \in Nat
  OBVIOUS
<1>1. CASE pending # <<>> \/ shut
  <2>1. SslRead(s, n) = result(pending, s, shut, FALSE)
    BY <1>1 DEF SslRead
  <2>2. Reads(SslRead(s, n), s, n, pending, 0, shut, FALSE)
    <3>1. Drop(s, 0) = s /\ 0 \in 0..Len(s)
      BY <1>0, DropNone
    <3> QED BY <2>1, <3>1 DEF Reads
  <2>3. ReadsPending(s, pending, 0, shut)
    BY <1>1 DEF ReadsPending
  <2> QED BY <2>2, <2>3
<1>2. CASE pending = <<>> /\ ~ shut /\ Telling(s) = {}
  <2> DEFINE k == IF Ends(s) = {} THEN 0 ELSE Max(Ends(s))
  <2>1. SslRead(s, n) = result(<<>>, IF Ends(s) = {} THEN s ELSE Drop(s, Max(Ends(s))),
                              FALSE, FALSE)
    BY <1>2 DEF SslRead
  <2>2. Drop(s, k) = IF Ends(s) = {} THEN s ELSE Drop(s, Max(Ends(s)))
    BY DropNone
  <2>3. k \in 0..Len(s) /\ Ends(Drop(s, k)) = {} /\ (OneKind(s) => Units(s) = Units(Drop(s, k)))
    BY <1>0, <1>2, SilentUnits, DropNone
  <2>4. Reads(SslRead(s, n), s, n, <<>>, k, FALSE, FALSE)
    <3> HIDE DEF k
    <3>1. <<>> \in Seq(Nat)
      OBVIOUS
    <3> QED BY <3>1, <2>1, <2>2, <2>3 DEF Reads
  <2>5. ReadsNothing(s, <<>>, k, FALSE)
    <3> HIDE DEF k
    <3> QED BY <2>3, <1>2 DEF ReadsNothing
  <2> QED BY <2>4, <2>5
<1>3. CASE pending = <<>> /\ ~ shut /\ Telling(s) # {}
  <2> DEFINE e == Min(Telling(s))
             record == SubSeq(s, Begin(s, e), e)
  <2>1. SslRead(s, n) = result(Plaintext(record), Drop(s, e), s[e].kind # "data",
                              s[e].kind = "bad")
    BY <1>3 DEF SslRead
  <2>2. /\ e \in 1..Len(s)
        /\ s[e].kind \in {"data", "close", "bad"}
        /\ Plaintext(record) \in Seq(Nat)
        /\ s[e].kind = "data" => Plaintext(record) # <<>>
        /\ s[e].kind \in {"close", "bad"} => Plaintext(record) = <<>>
        /\ OneKind(s) => Units(s) = Plaintext(record) \o Units(Drop(s, e))
    BY <1>3, TellingUnits
  <2> HIDE DEF e, record
  <2>3. Plaintext(record) \in Seq(Nat) /\ e \in 0..Len(s)
    BY <2>2
  <2>4. Reads(SslRead(s, n), s, n, Plaintext(record), e, s[e].kind # "data",
              s[e].kind = "bad")
    BY <2>1, <2>3 DEF Reads
  <2>5. ReadsRecord(s, Plaintext(record), e, s[e].kind # "data")
    BY <2>2, <1>3 DEF ReadsRecord
  <2> QED BY <2>4, <2>5
<1> QED
  BY <1>1, <1>2, <1>3

-----------------------------------------------------------------------------
(* The stream of pieces.                                                   *)

(* The record that ends the stream, close_notify or a fatal error, is the  *)
(* last.                                                                   *)
CloseLast(s) ==
  \A i, j \in 1..Len(s) : i <= j /\ s[i].kind \in {"close", "bad"} => s[j].kind \in {"close", "bad"}

Orderly(s) == OneKind(s) /\ CloseLast(s)

HasClose(s) == \E i \in 1..Len(s) : s[i].kind \in {"close", "bad"}

Complete(s) == s = <<>> \/ s[Len(s)].last

(* A part of an orderly stream is orderly.                                 *)
LEMMA Parts ==
  ASSUME NEW s \in Seq(Pieces), NEW t \in Seq(Pieces)
  PROVE  /\ Orderly(s \o t) => Orderly(s) /\ Orderly(t)
         /\ HasClose(s) \/ HasClose(t) => HasClose(s \o t)
         /\ HasClose(s \o t) => HasClose(s) \/ HasClose(t)
         /\ Complete(s \o t) => Complete(t)
         /\ CloseLast(s \o t) /\ HasClose(s) => \A i \in 1..Len(t) : t[i].kind \in {"close", "bad"}
<1> DEFINE u == s \o t
           m == Len(s)
           n == Len(t)
<1>1. /\ m \in Nat /\ n \in Nat /\ Len(u) = m + n /\ u \in Seq(Pieces)
      /\ \A i \in 1..m : u[i] = s[i]
      /\ \A i \in 1..n : u[m + i] = t[i]
  OBVIOUS
<1>1a. t = <<>> \/ n \in 1..n
  OBVIOUS
<1> HIDE DEF u
<1>2. /\ \A i \in 1..m : i \in 1..Len(u)
      /\ \A i \in 1..n : m + i \in 1..Len(u)
      /\ \A i \in 1..Len(u) : i \in 1..m \/ (i - m \in 1..n /\ i = m + (i - m))
  BY <1>1
<1>3. ASSUME OneKind(u)
      PROVE  OneKind(s)
  <2> SUFFICES ASSUME NEW i \in 1..m, NEW j \in 1..m, i <= j, \A k \in i..(j - 1) : ~ s[k].last
               PROVE  s[i].kind = s[j].kind
    BY DEF OneKind
  <2>1. \A k \in i..(j - 1) : k \in 1..m /\ ~ u[k].last
    BY <1>1
  <2> QED BY <2>1, <1>1, <1>2, <1>3 DEF OneKind
<1>4. ASSUME OneKind(u)
      PROVE  OneKind(t)
  <2> SUFFICES ASSUME NEW i \in 1..n, NEW j \in 1..n, i <= j, \A k \in i..(j - 1) : ~ t[k].last
               PROVE  t[i].kind = t[j].kind
    BY DEF OneKind
  <2>1. ASSUME NEW k \in (m + i)..((m + j) - 1)
        PROVE  ~ u[k].last
    <3>1. k - m \in i..(j - 1) /\ k - m \in 1..n /\ m + (k - m) = k
      BY <1>1
    <3>2. u[k] = t[k - m]
      BY <3>1, <1>1
    <3> QED BY <3>1, <3>2
  <2>2. m + i \in 1..Len(u) /\ m + j \in 1..Len(u) /\ m + i <= m + j
    BY <1>1, <1>2
  <2>3. u[m + i].kind = u[m + j].kind
    BY <2>1, <2>2, <1>4 DEF OneKind
  <2> QED BY <2>3, <1>1
<1>5. ASSUME CloseLast(u)
      PROVE  CloseLast(s) /\ CloseLast(t)
  <2>1. CloseLast(s)
    BY <1>1, <1>2, <1>5 DEF CloseLast
  <2>2. CloseLast(t)
    <3> SUFFICES ASSUME NEW i \in 1..n, NEW j \in 1..n, i <= j, t[i].kind \in {"close", "bad"}
                 PROVE  t[j].kind \in {"close", "bad"}
      BY DEF CloseLast
    <3>1. m + i \in 1..Len(u) /\ m + j \in 1..Len(u) /\ m + i <= m + j
      BY <1>1, <1>2
    <3> QED BY <3>1, <1>1, <1>5 DEF CloseLast
  <2> QED BY <2>1, <2>2
<1>6. HasClose(s) \/ HasClose(t) => HasClose(u)
  BY <1>1, <1>2 DEF HasClose
<1>7. HasClose(u) => HasClose(s) \/ HasClose(t)
  <2> SUFFICES ASSUME NEW i \in 1..Len(u), u[i].kind \in {"close", "bad"}
               PROVE  HasClose(s) \/ HasClose(t)
    BY DEF HasClose
  <2>1. CASE i \in 1..m
    BY <2>1, <1>1 DEF HasClose
  <2>2. CASE i - m \in 1..n /\ i = m + (i - m)
    BY <2>2, <1>1 DEF HasClose
  <2> QED BY <2>1, <2>2, <1>2
<1>8. Complete(u) => Complete(t)
  <2>1. CASE t = <<>>
    BY <2>1 DEF Complete
  <2>2. CASE n \in 1..n
    <3>1. u[Len(u)] = t[n] /\ u # <<>>
      BY <2>2, <1>1
    <3> QED BY <3>1 DEF Complete
  <2> QED BY <2>1, <2>2, <1>1a
<1>9. ASSUME CloseLast(u), HasClose(s), NEW j \in 1..n
      PROVE  t[j].kind \in {"close", "bad"}
  <2>1. PICK i \in 1..m : s[i].kind \in {"close", "bad"}
    BY <1>9 DEF HasClose
  <2>2. i \in 1..Len(u) /\ m + j \in 1..Len(u) /\ i <= m + j
    BY <1>1, <1>2
  <2>3. u[m + j].kind \in {"close", "bad"}
    BY <2>1, <2>2, <1>1, <1>9 DEF CloseLast
  <2> QED BY <2>3, <1>1
<1> QED
  BY <1>3, <1>4, <1>5, <1>6, <1>7, <1>8, <1>9 DEF u, Orderly

(* A record behind complete records, none of which ends the stream.        *)
LEMMA RecordAdded ==
  ASSUME NEW s \in Seq(Pieces), Orderly(s), Complete(s), ~ HasClose(s),
         NEW t \in Seq(Pieces), NEW kind, NEW n \in Nat \ {0}, Len(t) = n,
         \A i \in 1..n : t[i].kind = kind /\ (t[i].last <=> i = n)
  PROVE  /\ Orderly(s \o t)
         /\ Complete(s \o t)
         /\ HasClose(s \o t) => kind \in {"close", "bad"}
<1> DEFINE u == s \o t
           m == Len(s)
<1>1. /\ m \in Nat /\ Len(u) = m + n /\ u \in Seq(Pieces)
      /\ \A i \in 1..m : u[i] = s[i]
      /\ \A i \in 1..n : u[m + i] = t[i]
  OBVIOUS
<1>1a. m # 0 => s[m].last
  BY DEF Complete
<1> HIDE DEF u
<1>2. /\ \A i \in 1..m : u[i] = s[i]
      /\ \A i \in (m + 1)..(m + n) : u[i].kind = kind /\ (u[i].last <=> i = m + n)
  <2> SUFFICES ASSUME NEW i \in (m + 1)..(m + n)
               PROVE  u[i].kind = kind /\ (u[i].last <=> i = m + n)
    BY <1>1
  <2>1. i - m \in 1..n /\ m + (i - m) = i /\ (i - m = n <=> i = m + n)
    BY <1>1
  <2>2. u[i] = t[i - m]
    BY <2>1, <1>1
  <2> QED BY <2>1, <2>2
<1>3. OneKind(u)
  <2> SUFFICES ASSUME NEW i \in 1..(m + n), NEW j \in 1..(m + n), i <= j,
                      \A k \in i..(j - 1) : ~ u[k].last
               PROVE  u[i].kind = u[j].kind
    BY <1>1 DEF OneKind
  <2>1. CASE j <= m
    <3>1. i \in 1..m /\ j \in 1..m /\ \A k \in i..(j - 1) : k \in 1..m
      BY <2>1, <1>1
    <3>2. \A k \in i..(j - 1) : ~ s[k].last
      BY <3>1, <1>1
    <3>3. s[i].kind = s[j].kind
      BY <3>1, <3>2 DEF Orderly, OneKind
    <3> QED BY <3>1, <3>3, <1>1
  <2>2. CASE i <= m /\ j > m
    <3>1. m \in i..(j - 1) /\ m \in 1..m /\ m # 0
      BY <2>2, <1>1
    <3> QED BY <3>1, <1>1, <1>1a
  <2>3. CASE i > m
    <3>1. i \in (m + 1)..(m + n) /\ j \in (m + 1)..(m + n)
      BY <2>3, <1>1
    <3> QED BY <3>1, <1>2
  <2> QED BY <2>1, <2>2, <2>3, <1>1
<1>4. \A i \in 1..m : s[i].kind \notin {"close", "bad"}
  BY DEF HasClose
<1>5. CloseLast(u)
  <2> SUFFICES ASSUME NEW i \in 1..(m + n), NEW j \in 1..(m + n), i <= j, u[i].kind \in {"close", "bad"}
               PROVE  u[j].kind \in {"close", "bad"}
    BY <1>1 DEF CloseLast
  <2>1. i \notin 1..m
    BY <1>1, <1>4
  <2>2. i \in (m + 1)..(m + n) /\ j \in (m + 1)..(m + n)
    BY <2>1, <1>1
  <2> QED BY <2>2, <1>2
<1>6. Complete(u)
  <2>1. m + n \in (m + 1)..(m + n)
    BY <1>1
  <2> QED BY <2>1, <1>1, <1>2 DEF Complete
<1>7. HasClose(u) => kind \in {"close", "bad"}
  <2> SUFFICES ASSUME NEW i \in 1..(m + n), u[i].kind \in {"close", "bad"}
               PROVE  kind \in {"close", "bad"}
    BY <1>1 DEF HasClose
  <2>1. i \in 1..m \/ i \in (m + 1)..(m + n)
    BY <1>1
  <2> QED BY <2>1, <1>1, <1>2, <1>4
<1> QED
  BY <1>3, <1>5, <1>6, <1>7 DEF u, Orderly

-----------------------------------------------------------------------------
(* Completions.                                                            *)

Cqes == Seq(Reader \X Int \X Seq(Pieces))

Brought(c) == [i \in DOMAIN c |-> c[i][3]]

Bytes(c) == FlattenSeq(Brought(c))

LEMMA BytesTyped ==
  ASSUME NEW c \in Cqes
  PROVE  Brought(c) \in Seq(Seq(Pieces)) /\ Bytes(c) \in Seq(Pieces)
         /\ Len(Brought(c)) = Len(c)
<1>1. DOMAIN c = 1..Len(c) /\ Len(c) \in Nat
  BY DEF Cqes
<1>2. \A i \in 1..Len(c) : c[i] \in Reader \X Int \X Seq(Pieces)
  BY ElementOfSeq DEF Cqes
<1>3. Brought(c) \in [1..Len(c) -> Seq(Pieces)]
  BY <1>1, <1>2 DEF Brought
<1>4. Brought(c) \in Seq(Seq(Pieces)) /\ Len(Brought(c)) = Len(c)
  BY <1>1, <1>3
<1> QED
  BY <1>4, FlattenTyped DEF Bytes

LEMMA BytesAppend ==
  ASSUME NEW c \in Cqes, NEW x \in Reader \X Int \X Seq(Pieces)
  PROVE  Bytes(Append(c, x)) = Bytes(c) \o x[3]
<1> DEFINE d == Append(c, x)
<1>1. d \in Cqes /\ Len(c) \in Nat /\ Len(d) = Len(c) + 1 /\ d[Len(c) + 1] = x
      /\ DOMAIN d = 1..(Len(c) + 1) /\ DOMAIN c = 1..Len(c)
      /\ \A i \in 1..Len(c) : d[i] = c[i]
  BY AppendProperties DEF Cqes
<1> HIDE DEF d
<1>2. x[3] \in Seq(Pieces)
  OBVIOUS
<1>3. /\ Brought(c) \in Seq(Seq(Pieces)) /\ Len(Brought(c)) = Len(c)
      /\ Brought(d) \in Seq(Seq(Pieces)) /\ Len(Brought(d)) = Len(c) + 1
  BY <1>1, BytesTyped
<1>4. /\ Append(Brought(c), x[3]) \in Seq(Seq(Pieces))
      /\ Len(Append(Brought(c), x[3])) = Len(c) + 1
      /\ Append(Brought(c), x[3])[Len(c) + 1] = x[3]
      /\ \A i \in 1..Len(c) : Append(Brought(c), x[3])[i] = Brought(c)[i]
  BY <1>2, <1>3, AppendProperties
<1>5. \A i \in 1..(Len(c) + 1) : Brought(d)[i] = Append(Brought(c), x[3])[i]
  <2> SUFFICES ASSUME NEW i \in 1..(Len(c) + 1)
               PROVE  Brought(d)[i] = Append(Brought(c), x[3])[i]
    OBVIOUS
  <2>1. Brought(d)[i] = d[i][3]
    BY <1>1 DEF Brought
  <2>2. CASE i = Len(c) + 1
    BY <2>1, <2>2, <1>1, <1>4
  <2>3. CASE i # Len(c) + 1
    <3>1. i \in 1..Len(c)
      BY <2>3, <1>1
    <3>2. Brought(c)[i] = c[i][3]
      BY <3>1, <1>1 DEF Brought
    <3> QED BY <2>1, <3>1, <3>2, <1>1, <1>4
  <2> QED BY <2>2, <2>3
<1>6. Brought(d) = Append(Brought(c), x[3])
  BY <1>3, <1>4, <1>5, SeqEqual
<1> QED
  BY <1>2, <1>3, <1>6, FlattenAppend DEF Bytes, d

LEMMA BytesHead ==
  ASSUME NEW c \in Cqes, c # <<>>
  PROVE  /\ Head(c) \in Reader \X Int \X Seq(Pieces) /\ Tail(c) \in Cqes
         /\ Head(c)[3] \in Seq(Pieces) /\ Bytes(Tail(c)) \in Seq(Pieces)
         /\ Bytes(c) = Head(c)[3] \o Bytes(Tail(c))
<1>1. /\ Head(c) \in Reader \X Int \X Seq(Pieces) /\ Tail(c) \in Cqes
      /\ Len(c) \in Nat /\ Len(Tail(c)) = Len(c) - 1 /\ Len(c) >= 1 /\ c[1] = Head(c)
      /\ \A i \in 1..(Len(c) - 1) : Tail(c)[i] = c[i + 1]
  BY HeadTailProperties, EmptySeq DEF Cqes
<1> DEFINE h == Head(c)[3]
           d == Tail(c)
<1>2. h \in Seq(Pieces)
  BY <1>1
<1>3. /\ Brought(c) \in Seq(Seq(Pieces)) /\ Len(Brought(c)) = Len(c)
      /\ Brought(d) \in Seq(Seq(Pieces)) /\ Len(Brought(d)) = Len(c) - 1
      /\ Bytes(d) \in Seq(Pieces)
  BY <1>1, BytesTyped
<1>4. DOMAIN c = 1..Len(c) /\ DOMAIN d = 1..(Len(c) - 1)
  BY <1>1 DEF Cqes
<1>5. <<h>> \in Seq(Seq(Pieces)) /\ Len(<<h>>) = 1 /\ <<h>>[1] = h
  BY <1>2
<1>6. /\ <<h>> \o Brought(d) \in Seq(Seq(Pieces))
      /\ Len(<<h>> \o Brought(d)) = Len(c)
      /\ \A i \in 1..Len(c) : (<<h>> \o Brought(d))[i] = IF i <= 1 THEN h ELSE Brought(d)[i - 1]
  <2> DEFINE a == <<h>>
             b == Brought(d)
  <2>1. a \in Seq(Seq(Pieces)) /\ b \in Seq(Seq(Pieces)) /\ Len(a) = 1 /\ Len(b) = Len(c) - 1 /\ a[1] = h
    BY <1>3, <1>5
  <2> HIDE DEF a, b, h, d
  <2>2. /\ a \o b \in Seq(Seq(Pieces))
        /\ Len(a \o b) = Len(a) + Len(b)
        /\ \A i \in 1..(Len(a) + Len(b)) : (a \o b)[i] = IF i <= Len(a) THEN a[i] ELSE b[i - Len(a)]
    BY <2>1, ConcatProperties
  <2>3. \A i \in 1..Len(c) : i <= 1 => i = 1
    BY <1>1
  <2>4. Len(a) + Len(b) = Len(c)
    BY <2>1, <1>1
  <2>5. /\ a \o b \in Seq(Seq(Pieces))
        /\ Len(a \o b) = Len(c)
        /\ \A i \in 1..Len(c) : (a \o b)[i] = IF i <= 1 THEN h ELSE b[i - 1]
    BY <2>1, <2>2, <2>3, <2>4
  <2> QED BY <2>5 DEF a, b
<1> HIDE DEF h, d
<1>7. \A i \in 1..Len(c) : Brought(c)[i] = (<<h>> \o Brought(d))[i]
  <2> SUFFICES ASSUME NEW i \in 1..Len(c)
               PROVE  Brought(c)[i] = (<<h>> \o Brought(d))[i]
    OBVIOUS
  <2>1. Brought(c)[i] = c[i][3]
    BY <1>4 DEF Brought
  <2>2. CASE i = 1
    BY <2>1, <2>2, <1>1, <1>6 DEF h
  <2>3. CASE i # 1
    <3>1. i - 1 \in 1..(Len(c) - 1) /\ (i - 1) + 1 = i /\ ~ (i <= 1)
      BY <2>3, <1>1
    <3>2. Brought(d)[i - 1] = d[i - 1][3] /\ d[i - 1] = c[i]
      BY <3>1, <1>1, <1>4 DEF Brought, d
    <3> QED BY <2>1, <3>1, <3>2, <1>6
  <2> QED BY <2>2, <2>3
<1>8. Brought(c) = <<h>> \o Brought(d)
  BY <1>3, <1>6, <1>7, SeqEqual
<1>9. FlattenSeq(<<h>>) = h
  <2>1. <<h>> = Append(<<>>, h) /\ <<>> \in Seq(Seq(Pieces))
    BY <1>2
  <2>2. FlattenSeq(Append(<<>>, h)) = FlattenSeq(<<>>) \o h
    BY <2>1, <1>2, FlattenAppend
  <2> QED BY <2>1, <2>2, <1>2, FlattenEmpty, ConcatEmptySeq
<1>10. FlattenSeq(Brought(c)) = h \o FlattenSeq(Brought(d))
  BY <1>3, <1>5, <1>8, <1>9, FlattenConcat
<1> QED
  BY <1>1, <1>2, <1>3, <1>10 DEF Bytes, h, d

-----------------------------------------------------------------------------
(* The invariant.                                                          *)

(* All pieces that have arrived or are on the way, in order.               *)
Stream == bio \o Completions \o wire

(* Records stay in one piece, and the one that ends the stream is the last *)
(* of them.                                                                *)
Flow(s, done, how) ==
  /\ Orderly(s)
  /\ HasClose(s) => done
  /\ how # "reset" => Complete(s)

(* What is written is read, pending, in the stream or lost, in this order. *)
(* Nothing is lost on a connection that is not broken, nor when it breaks  *)
(* after the last record has begun to arrive.                              *)
Account(w, r, p, s, how) ==
  \E lost \in Seq(Nat) :
    /\ w = (r \o p) \o (Units(s) \o lost)
    /\ how # "reset" \/ HasClose(s) => lost = <<>>

(* A raw recv has a number of bytes or a reason for having none.           *)
ResultsInv ==
  \A i \in 1..Len(cq) :
    \/ cq[i][2] \in 1..Room
    \/ cq[i][2] \in {0, ConnReset} /\ cq[i][3] = <<>>

ReceiveInv ==
  /\ TypeOK
  /\ ResultsInv
  /\ Flow(Stream, closed, transport)
  /\ Account(written, received, pending, Stream, transport)

LEMMA StreamTyped ==
  ASSUME TypeOK
  PROVE  /\ cq \in Cqes /\ Completions = Bytes(cq) /\ Completions \in Seq(Pieces)
         /\ bio \in Seq(Pieces) /\ wire \in Seq(Pieces) /\ Stream \in Seq(Pieces)
<1>1. cq \in Cqes /\ bio \in Seq(Pieces) /\ wire \in Seq(Pieces)
  BY DEF TypeOK, Cqes
<1>2. Completions = Bytes(cq)
  BY DEF Completions, Bytes, Brought
<1>3. Bytes(cq) \in Seq(Pieces)
  BY <1>1, BytesTyped
<1> QED
  BY <1>1, <1>2, <1>3, ConcatProperties DEF Stream

(* Concatenation is associative: an equation to be used where it is named. *)
Associates(s, t, u) == (s \o t) \o u = s \o (t \o u)

LEMMA Associative ==
  ASSUME NEW S, NEW s \in Seq(S), NEW t \in Seq(S), NEW u \in Seq(S)
  PROVE  Associates(s, t, u)
BY ConcatAssociative DEF Associates

LEMMA UnitsAssociate ==
  ASSUME NEW s \in Seq(Nat), NEW t \in Seq(Nat), NEW u \in Seq(Nat)
  PROVE  Associates(s, t, u)
BY Associative

LEMMA PiecesAssociate ==
  ASSUME NEW s \in Seq(Pieces), NEW t \in Seq(Pieces), NEW u \in Seq(Pieces)
  PROVE  Associates(s, t, u)
BY Associative

(* From the invariant to the properties.                                   *)
LEMMA AccountPrefix ==
  ASSUME NEW w, NEW r \in Seq(Nat), NEW p \in Seq(Nat), NEW s \in Seq(Pieces), NEW how,
         Account(w, r, p, s, how)
  PROVE  IsPrefix(r, w)
<1>1. PICK lost \in Seq(Nat) : w = (r \o p) \o (Units(s) \o lost)
  BY DEF Account
<1> DEFINE z == Units(s) \o lost
           x == p \o z
<1>2. z \in Seq(Nat) /\ x \in Seq(Nat)
  <2>1. z \in Seq(Nat)
    BY UnitsTyped, ConcatProperties
  <2> HIDE DEF z
  <2> QED BY <2>1, ConcatProperties
<1>3. w = r \o x
  <2>1. Associates(r, p, z)
    BY <1>2, UnitsAssociate
  <2> QED BY <1>1, <2>1 DEF Associates
<1> HIDE DEF x
<1>4. /\ Len(r) \in Nat /\ Len(w) = Len(r) + Len(x) /\ Len(x) \in Nat
      /\ w \in Seq(Nat)
      /\ \A i \in 1..Len(r) : w[i] = r[i]
  BY <1>2, <1>3
<1>5. SubSeq(r, 1, Len(r)) = SubSeq(w, 1, Len(r))
  BY <1>4
<1> QED
  BY <1>4, <1>5 DEF IsPrefix

LEMMA AccountIs ==
  ASSUME TypeOK, Account(written, received, pending, Stream, transport)
  PROVE  NothingLost
<1>1. PICK lost \in Seq(Nat) :
        /\ written = (received \o pending) \o (Units(Stream) \o lost)
        /\ transport # "reset" => lost = <<>>
  BY DEF Account
<1>2. Units(Stream) \in Seq(Nat)
  BY StreamTyped, UnitsTyped
<1>3. transport # "reset" => written = received \o pending \o Units(Stream)
  BY <1>1, <1>2, ConcatEmptySeq
<1> QED
  BY <1>3 DEF NothingLost, Stream

Regroups(r, p, u, v, x, g, q, d) ==
  p \o u = (g \o q) \o d
    => (r \o p) \o ((u \o v) \o x) = ((r \o g) \o q) \o ((d \o v) \o x)

LEMMA Regroup ==
  ASSUME NEW r \in Seq(Nat), NEW p \in Seq(Nat), NEW u \in Seq(Nat), NEW v \in Seq(Nat),
         NEW x \in Seq(Nat), NEW g \in Seq(Nat), NEW q \in Seq(Nat), NEW d \in Seq(Nat)
  PROVE  Regroups(r, p, u, v, x, g, q, d)
<1>1. /\ v \o x \in Seq(Nat) /\ u \o (v \o x) \in Seq(Nat) /\ d \o (v \o x) \in Seq(Nat)
      /\ g \o q \in Seq(Nat)
  <2>1. v \o x \in Seq(Nat) /\ g \o q \in Seq(Nat)
    BY ConcatProperties
  <2> QED BY <2>1, ConcatProperties
<1>2. Associates(u, v, x) /\ Associates(d, v, x) /\ Associates(r, g, q)
  BY UnitsAssociate
<1>3. Associates(r, p, u \o (v \o x)) /\ Associates(p, u, v \o x)
  BY <1>1, UnitsAssociate
<1>4. Associates(r, g \o q, d \o (v \o x)) /\ Associates(g \o q, d, v \o x)
  BY <1>1, UnitsAssociate
<1> QED
  BY <1>2, <1>3, <1>4 DEF Associates, Regroups

(* SSL_read on what is in front of the stream.                             *)
LEMMA ReadKeeps ==
  ASSUME ReceiveInv, NEW s \in Seq(Pieces), NEW rest \in Seq(Pieces), Stream = s \o rest,
         NEW res, res = SslRead(s, Room)
  PROVE  /\ res.got \in Seq(Nat) /\ Len(res.got) \in 0..Room
         /\ res.bio \in Seq(Pieces) /\ res.pending \in Seq(Nat) /\ res.shut \in BOOLEAN
         /\ res.left \in BOOLEAN
         /\ Flow(res.bio \o rest, closed, transport)
         /\ Account(written, received \o res.got, res.pending, res.bio \o rest, transport)
         /\ res.shut # shut => res.shut /\ res.got = <<>> /\ closed /\ received = written
<1>0. /\ pending \in Seq(Nat) /\ shut \in BOOLEAN /\ received \in Seq(Nat) /\ Room \in Nat
      /\ Len(s) \in Nat
  BY ReceiveAssumption DEF ReceiveInv, TypeOK
<1>1. PICK plain, k, end, left :
        /\ Reads(SslRead(s, Room), s, Room, plain, k, end, left)
        /\ \/ ReadsPending(s, plain, k, end)
           \/ ReadsNothing(s, plain, k, end)
           \/ ReadsRecord(s, plain, k, end)
  BY <1>0, ReadIs
<1>2. /\ plain \in Seq(Nat) /\ k \in 0..Len(s) /\ end \in BOOLEAN /\ left \in BOOLEAN
      /\ res = [got |-> Take(plain, Room), bio |-> Drop(s, k), pending |-> Drop(plain, Room),
                shut |-> end, left |-> left, status |-> Status(Take(plain, Room), end)]
  BY <1>1 DEF Reads
<1>3. /\ res.got = Take(plain, Room) /\ res.bio = Drop(s, k) /\ res.pending = Drop(plain, Room)
      /\ res.shut = end /\ res.status = Status(Take(plain, Room), end)
  BY <1>2
<1>4. /\ res.got \in Seq(Nat) /\ res.pending \in Seq(Nat) /\ res.got \o res.pending = plain
      /\ Len(res.got) \in 0..Room
  <2>1. /\ Take(plain, Room) \in Seq(Nat) /\ Drop(plain, Room) \in Seq(Nat)
        /\ Len(Take(plain, Room)) = IF Room <= Len(plain) THEN Room ELSE Len(plain)
    BY <1>0, <1>2, Cut
  <2>2. Take(plain, Room) \o Drop(plain, Room) = plain
    BY <1>0, <1>2, Cut
  <2>3. Len(plain) \in Nat
    BY <1>2
  <2> QED BY <1>0, <1>3, <2>1, <2>2, <2>3
<1>5. res.left \in BOOLEAN
  BY <1>2
<1> DEFINE front == Take(s, k)
           back == Drop(s, k)
<1>6. /\ front \in Seq(Pieces) /\ back \in Seq(Pieces) /\ front \o back = s
      /\ Len(front) = k /\ \A i \in 1..k : front[i] = s[i]
  <2>1. k \in Nat /\ k <= Len(s)
    BY <1>0, <1>2
  <2>2. front \in Seq(Pieces) /\ back \in Seq(Pieces) /\ front \o back = s
    BY <2>1, Cut
  <2>3. Len(front) = k /\ \A i \in 1..Len(front) : front[i] = s[i]
    BY <2>1, Cut
  <2> QED BY <2>2, <2>3
<1> HIDE DEF front, back
<1>7. Stream = front \o (back \o rest) /\ back \o rest \in Seq(Pieces)
  <2>1. Associates(front, back, rest)
    BY <1>6, PiecesAssociate
  <2>2. back \o rest \in Seq(Pieces)
    BY <1>6, ConcatProperties
  <2> QED BY <1>6, <2>1, <2>2 DEF Associates
<1>8. Flow(Stream, closed, transport) /\ Account(written, received, pending, Stream, transport)
  BY DEF ReceiveInv
<1>9. Flow(back \o rest, closed, transport) /\ (HasClose(back \o rest) => HasClose(Stream))
  BY <1>6, <1>7, <1>8, Parts DEF Flow
<1>10. OneKind(s)
  BY <1>8, Parts DEF Flow, Orderly
<1>11. pending \o Units(s) = plain \o Units(back)
  <2>1. Units(s) \in Seq(Nat) /\ Units(back) \in Seq(Nat)
    BY <1>6, UnitsTyped
  <2>2. CASE ReadsPending(s, plain, k, end)
    BY <2>2, DropNone DEF ReadsPending, back
  <2>3. CASE ReadsNothing(s, plain, k, end)
    BY <2>3, <1>10 DEF ReadsNothing, back
  <2>4. CASE ReadsRecord(s, plain, k, end)
    <3>1. pending = <<>> /\ Units(s) = plain \o Units(back)
      BY <2>4, <1>10 DEF ReadsRecord, back
    <3> QED BY <3>1, <2>1, ConcatEmptySeq
  <2> QED BY <1>1, <2>2, <2>3, <2>4
<1>12. PICK lost \in Seq(Nat) :
         /\ written = (received \o pending) \o (Units(Stream) \o lost)
         /\ transport # "reset" \/ HasClose(Stream) => lost = <<>>
  BY <1>8 DEF Account
<1>13. /\ Units(Stream) = Units(s) \o Units(rest)
       /\ Units(back \o rest) = Units(back) \o Units(rest)
       /\ Units(s) \in Seq(Nat) /\ Units(back) \in Seq(Nat) /\ Units(rest) \in Seq(Nat)
  BY <1>6, UnitsConcat, UnitsTyped
<1>14. written = ((received \o res.got) \o res.pending) \o (Units(back \o rest) \o lost)
  <2>1. pending \o Units(s) = (res.got \o res.pending) \o Units(back)
    BY <1>4, <1>11
  <2>2. (received \o pending) \o ((Units(s) \o Units(rest)) \o lost)
          = ((received \o res.got) \o res.pending) \o ((Units(back) \o Units(rest)) \o lost)
    <3> DEFINE u == Units(s)
               v == Units(rest)
               d == Units(back)
               g == res.got
               q == res.pending
    <3>1. /\ u \in Seq(Nat) /\ v \in Seq(Nat) /\ d \in Seq(Nat) /\ g \in Seq(Nat) /\ q \in Seq(Nat)
          /\ received \in Seq(Nat) /\ pending \in Seq(Nat) /\ lost \in Seq(Nat)
      BY <1>0, <1>4, <1>12, <1>13
    <3> HIDE DEF u, v, d, g, q
    <3>2. Regroups(received, pending, u, v, lost, g, q, d)
      BY <3>1, Regroup
    <3> QED BY <2>1, <3>2 DEF Regroups, u, v, d, g, q
  <2> QED BY <2>2, <1>12, <1>13
<1>15. Account(written, received \o res.got, res.pending, back \o rest, transport)
  BY <1>9, <1>12, <1>14 DEF Account
<1>16. ASSUME end # shut
       PROVE  end /\ res.got = <<>> /\ closed /\ received = written
  <2>1. ReadsRecord(s, plain, k, end) /\ end
    BY <1>1, <1>16, <1>0, <1>2 DEF ReadsPending, ReadsNothing, ReadsRecord
  <2>2. pending = <<>> /\ plain = <<>> /\ k \in 1..Len(s) /\ s[k].kind \in {"close", "bad"}
    BY <2>1, <1>10 DEF ReadsRecord
  <2>3. res.got = <<>> /\ res.pending = <<>>
    BY <2>2, <1>4, ConcatEqualIffEmpty
  <2>4. HasClose(front)
    BY <2>2, <1>6 DEF HasClose
  <2>5. HasClose(Stream)
    <3> DEFINE behind == back \o rest
    <3>1. behind \in Seq(Pieces) /\ Stream = front \o behind
      BY <1>7
    <3> HIDE DEF behind
    <3>2. HasClose(front \o behind)
      BY <2>4, <3>1, <1>6, Parts
    <3> QED BY <3>1, <3>2
  <2>6. closed /\ lost = <<>>
    BY <2>5, <1>8, <1>12 DEF Flow
  <2>7. CloseLast(front \o (back \o rest))
    BY <1>7, <1>8 DEF Flow, Orderly
  <2>8. \A i \in 1..Len(back \o rest) : (back \o rest)[i].kind \in {"close", "bad"}
    BY <2>4, <2>7, <1>6, <1>7, Parts
  <2>9. Units(back \o rest) = <<>>
    BY <2>8, <1>7, UnitsNone
  <2>10. written = ((received \o <<>>) \o <<>>) \o (<<>> \o <<>>)
    BY <2>3, <2>6, <2>9, <1>14
  <2>11. written = received
    BY <2>10, <1>0, ConcatEmptySeq
  <2> QED BY <2>1, <2>3, <2>6, <2>11
<1>17. res.bio = back /\ res.shut = end
  BY <1>3 DEF back
<1> QED
  BY <1>2, <1>4, <1>5, <1>6, <1>9, <1>15, <1>16, <1>17

-----------------------------------------------------------------------------
(* The steps.                                                              *)

LEMMA ReceiveInit == Init => ReceiveInv
<1> SUFFICES ASSUME Init
             PROVE  ReceiveInv
  OBVIOUS
<1>0. <<>> \in Seq(Nat) /\ <<>> \in Seq(Pieces) /\ <<>> \in Seq(Reader \X Int \X Seq(Pieces))
  OBVIOUS
<1>1. TypeOK
  <2>1. 0 \in 0..Room /\ 0 \in 0..MaxRecords
    BY ReceiveAssumption
  <2>2. ret \in [Reader -> {ConnReset, Busy, -1} \cup 0..Room]
    BY <2>1 DEF Init
  <2>3. op \in [Reader -> {"none", "flight", "done"}]
    BY DEF Init
  <2>4. records \in 0..MaxRecords
    BY <2>1 DEF Init
  <2> QED BY <1>0, <2>2, <2>3, <2>4 DEF Init, TypeOK
<1>2. Stream = <<>>
  <2>1. Completions = <<>>
    BY FlattenEmpty DEF Init, Completions
  <2> QED BY <2>1 DEF Init, Stream
<1>3. Flow(Stream, closed, transport)
  BY <1>2 DEF Flow, Orderly, OneKind, CloseLast, HasClose, Complete
<1>4. Account(written, received, pending, Stream, transport)
  <2>1. written = (received \o pending) \o (Units(Stream) \o <<>>)
    BY <1>2, UnitsEmpty DEF Init
  <2> QED BY <1>0, <2>1 DEF Account
<1>5. ResultsInv
  BY DEF Init, ResultsInv
<1> QED
  BY <1>1, <1>3, <1>4, <1>5 DEF ReceiveInv

(* A step that moves pieces on but does not read.                          *)
LEMMA StreamKept ==
  ASSUME ReceiveInv, TypeOK', ResultsInv', Stream' = Stream,
         written' = written, closed' = closed, received' = received, pending' = pending,
         transport' = transport \/ (transport' # "reset" /\ transport # "reset")
  PROVE  ReceiveInv'
<1>1. Flow(Stream', closed', transport')
  BY DEF ReceiveInv, Flow
<1>2. Account(written', received', pending', Stream', transport')
  BY DEF ReceiveInv, Account
<1> QED
  BY <1>1, <1>2 DEF ReceiveInv

(* What the SSL object reads is the front of the stream.                   *)
LEMMA RecvReads ==
  ASSUME ReceiveInv
  PROVE  /\ Stream = bio \o (Completions \o wire)
         /\ bio \in Seq(Pieces) /\ Completions \o wire \in Seq(Pieces)
<1>1. bio \in Seq(Pieces) /\ Completions \in Seq(Pieces) /\ wire \in Seq(Pieces)
  BY StreamTyped DEF ReceiveInv
<1>2. Completions \o wire \in Seq(Pieces)
  BY <1>1, ConcatProperties
<1>3. Associates(bio, Completions, wire)
  BY <1>1, PiecesAssociate
<1> QED
  BY <1>1, <1>2, <1>3 DEF Associates, Stream

(* The completion a resumed reader gets.                                   *)
LEMMA HeadIs ==
  ASSUME ReceiveInv, cq # <<>>
  PROVE  /\ Head(cq) \in Reader \X Int \X Seq(Pieces)
         /\ Head(cq)[3] \in Seq(Pieces) /\ Bytes(Tail(cq)) \in Seq(Pieces)
         /\ Tail(cq) \in Cqes
         /\ Completions = Head(cq)[3] \o Bytes(Tail(cq))
         /\ \/ Head(cq)[2] \in 1..Room
            \/ Head(cq)[2] \in {0, ConnReset} /\ Head(cq)[3] = <<>>
         /\ \A i \in 1..Len(Tail(cq)) :
              \/ Tail(cq)[i][2] \in 1..Room
              \/ Tail(cq)[i][2] \in {0, ConnReset} /\ Tail(cq)[i][3] = <<>>
<1>1. cq \in Cqes /\ Completions = Bytes(cq)
  BY StreamTyped DEF ReceiveInv
<1>2. /\ Len(cq) \in Nat /\ Len(cq) >= 1 /\ cq[1] = Head(cq) /\ Len(Tail(cq)) = Len(cq) - 1
      /\ \A i \in 1..Len(Tail(cq)) : Tail(cq)[i] = cq[i + 1]
  BY <1>1, HeadTailProperties, EmptySeq DEF Cqes
<1>3. \A i \in 1..Len(Tail(cq)) : i + 1 \in 1..Len(cq)
  BY <1>2
<1>4. 1 \in 1..Len(cq)
  BY <1>2
<1> QED
  BY <1>1, <1>2, <1>3, <1>4, BytesHead DEF ReceiveInv, ResultsInv

LEMMA ResumeReads ==
  ASSUME ReceiveInv, cq # <<>>
  PROVE  LET s    == bio \o Head(cq)[3]
             rest == Bytes(Tail(cq)) \o wire
         IN  s \in Seq(Pieces) /\ rest \in Seq(Pieces) /\ Stream = s \o rest
<1> DEFINE h == Head(cq)[3]
           c == Bytes(Tail(cq))
<1>1. /\ bio \in Seq(Pieces) /\ h \in Seq(Pieces) /\ c \in Seq(Pieces) /\ wire \in Seq(Pieces)
      /\ Completions = h \o c
  BY HeadIs, StreamTyped DEF ReceiveInv
<1> HIDE DEF h, c
<1>2. bio \o h \in Seq(Pieces) /\ c \o wire \in Seq(Pieces)
  BY <1>1, ConcatProperties
<1>3. Associates(bio, h, c)
  BY <1>1, PiecesAssociate
<1>4. Associates(bio \o h, c, wire)
  BY <1>1, <1>2, PiecesAssociate
<1>5. Stream = (bio \o h) \o (c \o wire)
  BY <1>1, <1>3, <1>4 DEF Associates, Stream
<1> QED
  BY <1>2, <1>5 DEF h, c

(* The step of a reader that reads res.                                    *)
LEMMA AfterKeeps ==
  ASSUME ReceiveInv, NEW s \in Seq(Pieces), NEW rest \in Seq(Pieces), Stream = s \o rest,
         NEW res, res = SslRead(s, Room), After(res),
         UNCHANGED peerVars, ResultsInv', op' \in [Reader -> {"none", "flight", "done"}],
         cq' \in Cqes, ret' \in [Reader -> {ConnReset, Busy, -1} \cup 0..Room],
         Completions' \o wire' = rest
  PROVE  ReceiveInv'
<1>1. /\ res.got \in Seq(Nat)
      /\ res.bio \in Seq(Pieces) /\ res.pending \in Seq(Nat) /\ res.shut \in BOOLEAN
      /\ res.left \in BOOLEAN
  BY ReadKeeps
<1>2. /\ Flow(res.bio \o rest, closed, transport)
      /\ Account(written, received \o res.got, res.pending, res.bio \o rest, transport)
  BY ReadKeeps
<1>3. received \o res.got \in Seq(Nat)
  BY <1>1, ConcatProperties DEF ReceiveInv, TypeOK
<1>4. TypeOK'
  BY <1>1, <1>3 DEF ReceiveInv, TypeOK, After, peerVars, Cqes
<1>5. Completions' \in Seq(Pieces)
  <2>1. Completions' = Bytes(cq')
    BY DEF Completions, Bytes, Brought
  <2> QED BY <2>1, BytesTyped
<1>6. Stream' = res.bio \o rest
  <2>1. bio' = res.bio /\ wire' \in Seq(Pieces)
    BY <1>4 DEF After, TypeOK
  <2>2. Associates(bio', Completions', wire')
    BY <1>1, <1>5, <2>1, PiecesAssociate
  <2> QED BY <2>1, <2>2 DEF Associates, Stream
<1>7. Flow(Stream', closed', transport')
  BY <1>2, <1>6 DEF peerVars
<1>8. Account(written', received', pending', Stream', transport')
  BY <1>2, <1>6 DEF peerVars, After
<1> QED
  BY <1>4, <1>7, <1>8 DEF ReceiveInv

LEMMA RecvKeeps ==
  ASSUME ReceiveInv, NEW r \in Reader, Recv(r)
  PROVE  ReceiveInv'
<1> DEFINE res == SslRead(bio, Room)
           rest == Completions \o wire
<1>1. bio \in Seq(Pieces) /\ rest \in Seq(Pieces) /\ Stream = bio \o rest
  BY RecvReads
<1>2. Len(res.got) \in 0..Room
  BY <1>1, ReadKeeps
<1>3. After(res) /\ UNCHANGED <<peerVars, cq>>
  BY DEF Recv
<1>4. op' \in [Reader -> {"none", "flight", "done"}]
      /\ ret' \in [Reader -> {ConnReset, Busy, -1} \cup 0..Room]
  <2> HIDE DEF res
  <2>1. \/ ret' = [ret EXCEPT ![r] = Len(res.got)] /\ UNCHANGED op
        \/ ret' = [ret EXCEPT ![r] = Busy] /\ op' = [op EXCEPT ![r] = "flight"]
    BY DEF Recv, res
  <2> QED BY <2>1, <1>2 DEF ReceiveInv, TypeOK
<1>5. cq' \in Cqes /\ ResultsInv' /\ Completions' \o wire' = rest
  BY <1>3 DEF ReceiveInv, TypeOK, Cqes, ResultsInv, Completions, peerVars
<1> HIDE DEF res, rest
<1>6. UNCHANGED peerVars
  BY <1>3
<1>7. res = SslRead(bio, Room)
  BY DEF res
<1> QED
  BY <1>1, <1>3, <1>4, <1>5, <1>6, <1>7, AfterKeeps

LEMMA ResumeKeeps ==
  ASSUME ReceiveInv, NEW r \in Reader, Resume(r)
  PROVE  ReceiveInv'
<1>1. /\ cq # <<>> /\ cq' = Tail(cq) /\ op' = [op EXCEPT ![r] = "none"]
      /\ UNCHANGED peerVars
  BY DEF Resume
<1>2. op' \in [Reader -> {"none", "flight", "done"}] /\ cq' \in Cqes
  BY <1>1, HeadIs DEF ReceiveInv, TypeOK
<1>3. ResultsInv'
  BY <1>1, HeadIs DEF ResultsInv
<1>4. Completions' = Bytes(Tail(cq))
  BY <1>1 DEF Completions, Bytes, Brought
<1>5. CASE Head(cq)[2] <= 0
  <2>1. /\ ret' = [ret EXCEPT ![r] = Head(cq)[2]]
        /\ UNCHANGED <<sslVars, stale, received>>
    BY <1>5 DEF Resume
  <2>2. Head(cq)[2] \in {0, ConnReset} /\ Head(cq)[3] = <<>>
    BY <1>1, <1>5, HeadIs, ReceiveAssumption
  <2>3. Completions' = Completions
    BY <1>1, <1>4, <2>2, HeadIs, ConcatEmptySeq
  <2>4. Stream' = Stream
    BY <1>1, <2>1, <2>3 DEF Stream, sslVars, peerVars
  <2>5. ret' \in [Reader -> {ConnReset, Busy, -1} \cup 0..Room]
    BY <2>1, <2>2, ReceiveAssumption DEF ReceiveInv, TypeOK
  <2>6. TypeOK'
    BY <1>1, <1>2, <2>1, <2>5 DEF ReceiveInv, TypeOK, peerVars, sslVars, Cqes
  <2> QED
    <3>1. /\ written' = written /\ closed' = closed /\ received' = received
        /\ pending' = pending /\ transport' = transport
      BY <1>1, <2>1 DEF peerVars, sslVars
    <3> QED BY <1>3, <2>4, <2>6, <3>1, StreamKept
<1>6. CASE ~ (Head(cq)[2] <= 0)
  <2> DEFINE s == bio \o Head(cq)[3]
             rest == Bytes(Tail(cq)) \o wire
             res == SslRead(s, Room)
  <2>1. s \in Seq(Pieces) /\ rest \in Seq(Pieces) /\ Stream = s \o rest
    BY <1>1, ResumeReads
  <2>2. After(res) /\ ret' = [ret EXCEPT ![r] = Outcome(res)]
    BY <1>6 DEF Resume, Feed
  <2>3. Completions' \o wire' = rest
    BY <1>1, <1>4 DEF peerVars
  <2> HIDE DEF s, rest
  <2>4. Len(res.got) \in 0..Room
    BY <2>1, ReadKeeps
  <2>5. Outcome(res) \in {ConnReset, Busy, -1} \cup 0..Room
    <3> HIDE DEF res
    <3> QED BY <2>4 DEF Outcome
  <2>6. ret' \in [Reader -> {ConnReset, Busy, -1} \cup 0..Room]
    <3> HIDE DEF res
    <3> QED BY <2>2, <2>5 DEF ReceiveInv, TypeOK
  <2> HIDE DEF res
  <2>7. UNCHANGED peerVars /\ res = SslRead(s, Room)
    BY <1>1 DEF res
  <2> QED
    BY <1>2, <1>3, <2>1, <2>2, <2>3, <2>6, <2>7, AfterKeeps
<1> QED
  BY <1>5, <1>6
(* A completion takes its pieces from the front of the wire.               *)
LEMMA PostKeeps ==
  ASSUME ReceiveInv, NEW r \in Reader, NEW n \in Int, NEW pieces \in Seq(Pieces),
         Post(r, n, pieces), wire' \in Seq(Pieces), wire = pieces \o wire',
         n \in 1..Room \/ (n \in {0, ConnReset} /\ pieces = <<>>)
  PROVE  ReceiveInv'
<1>1. /\ op' = [op EXCEPT ![r] = "done"]
      /\ cq' = Append(cq, <<r, n, pieces>>)
      /\ UNCHANGED <<written, records, closed, transport, bio, pending, shut, stale, ret, received>>
  BY DEF Post, sslVars
<1> DEFINE x == <<r, n, pieces>>
<1>2. x \in Reader \X Int \X Seq(Pieces) /\ x[2] = n /\ x[3] = pieces
  OBVIOUS
<1>3. cq \in Cqes /\ Completions = Bytes(cq) /\ Completions \in Seq(Pieces) /\ bio \in Seq(Pieces)
  BY StreamTyped DEF ReceiveInv
<1> HIDE DEF x
<1>4. /\ cq' \in Cqes /\ Len(cq') = Len(cq) + 1 /\ cq'[Len(cq) + 1] = x
      /\ \A i \in 1..Len(cq) : cq'[i] = cq[i]
  <2>1. cq' = Append(cq, x)
    BY <1>1 DEF x
  <2> QED BY <2>1, <1>2, <1>3, AppendProperties DEF Cqes
<1>5. TypeOK'
  BY <1>1, <1>4 DEF ReceiveInv, TypeOK, Cqes
<1>6. ResultsInv'
  <2> SUFFICES ASSUME NEW i \in 1..(Len(cq) + 1)
               PROVE  \/ cq'[i][2] \in 1..Room
                      \/ cq'[i][2] \in {0, ConnReset} /\ cq'[i][3] = <<>>
    BY <1>4 DEF ResultsInv
  <2>1. Len(cq) \in Nat
    BY <1>3 DEF Cqes
  <2>2. CASE i = Len(cq) + 1
    BY <2>2, <1>2, <1>4
  <2>3. CASE i # Len(cq) + 1
    <3>1. i \in 1..Len(cq)
      BY <2>1, <2>3
    <3> QED BY <3>1, <1>4 DEF ReceiveInv, ResultsInv
  <2> QED BY <2>2, <2>3
<1>7. Completions' = Completions \o pieces
  <2>1. Completions' = Bytes(cq')
    BY DEF Completions, Bytes, Brought
  <2>2. Bytes(Append(cq, x)) = Bytes(cq) \o x[3]
    BY <1>2, <1>3, BytesAppend
  <2> QED BY <2>1, <2>2, <1>1, <1>2, <1>3 DEF x
<1>8. Stream' = Stream
  <2>1. bio \o Completions \in Seq(Pieces)
    BY <1>3, ConcatProperties
  <2>2. Associates(bio, Completions, pieces) /\ Associates(bio \o Completions, pieces, wire')
    BY <1>3, <2>1, PiecesAssociate
  <2> QED BY <1>1, <1>7, <2>2 DEF Associates, Stream
<1> QED
  BY <1>1, <1>5, <1>6, <1>8, StreamKept

LEMMA ArriveKeeps ==
  ASSUME ReceiveInv, NEW r \in Reader, Arrive(r)
  PROVE  ReceiveInv'
<1>1. PICK n \in 1..Room :
        /\ n <= Len(wire)
        /\ Post(r, n, SubSeq(wire, 1, n))
        /\ wire' = Drop(wire, n)
  BY DEF Arrive
<1>2. wire \in Seq(Pieces) /\ Len(wire) \in Nat /\ n \in Nat /\ n \in Int
  BY ReceiveAssumption DEF ReceiveInv, TypeOK
<1>3. SubSeq(wire, 1, n) = Take(wire, n)
  BY <1>1, <1>2, MinOfTwo DEF Take
<1> DEFINE pieces == Take(wire, n)
<1>4. pieces \in Seq(Pieces) /\ wire' \in Seq(Pieces) /\ wire = pieces \o wire'
  BY <1>1, <1>2, Cut
<1>5. Post(r, n, pieces)
  BY <1>1, <1>3
<1> HIDE DEF pieces
<1> QED
  BY <1>1, <1>2, <1>4, <1>5, PostKeeps

LEMMA FailsKeeps ==
  ASSUME ReceiveInv, NEW r \in Reader, Fails(r)
  PROVE  ReceiveInv'
<1> DEFINE n == IF transport = "eof" THEN 0 ELSE ConnReset
<1>1. n \in {0, ConnReset} /\ n \in Int
  BY DEF ConnReset
<1>2. Post(r, n, <<>>) /\ wire' = wire /\ wire = <<>>
  BY DEF Fails
<1>3. <<>> \in Seq(Pieces) /\ wire' \in Seq(Pieces) /\ wire = <<>> \o wire'
  BY <1>2
<1> HIDE DEF n
<1> QED
  BY <1>1, <1>2, <1>3, PostKeeps

(* The record a peer writes, and the units in it.                          *)
Record(kind, n, base) == [i \in 1..n |-> Piece(kind, base + i, i = n)]

Fresh(n, base) == [i \in 1..n |-> base + i]

RecordUnits(kind, n, base) ==
  LET t == Record(kind, n, base)
  IN  /\ t \in Seq(Pieces) /\ Len(t) = n
      /\ \A i \in 1..n : t[i].kind = kind /\ (t[i].last <=> i = n)
      /\ Fresh(n, base) \in Seq(Nat)
      /\ kind = "data" => Units(t) = Fresh(n, base)
      /\ kind # "data" => Units(t) = <<>>

LEMMA RecordIs ==
  ASSUME NEW kind \in {"data", "ticket", "close", "bad"}, NEW n \in Nat \ {0}, NEW base \in Nat
  PROVE  RecordUnits(kind, n, base)
<1> DEFINE t == Record(kind, n, base)
           u == Fresh(n, base)
<1>1. \A i \in 1..n : Piece(kind, base + i, i = n) \in Pieces
  BY DEF Piece, Pieces
<1>2. t \in Seq(Pieces) /\ Len(t) = n /\ \A i \in 1..n : t[i] = Piece(kind, base + i, i = n)
  BY <1>1 DEF Record
<1>3. u \in Seq(Nat) /\ Len(u) = n /\ \A i \in 1..n : u[i] = base + i
  BY DEF Fresh
<1> HIDE DEF t, u
<1>4. \A i \in 1..n : t[i].kind = kind /\ (t[i].last <=> i = n) /\ t[i].unit = base + i
  <2> SUFFICES ASSUME NEW i \in 1..n
               PROVE  t[i].kind = kind /\ (t[i].last <=> i = n) /\ t[i].unit = base + i
    OBVIOUS
  <2>1. t[i] = [kind |-> kind, unit |-> base + i, last |-> i = n]
    BY <1>2 DEF Piece
  <2>2. t[i].kind = kind /\ t[i].unit = base + i /\ t[i].last = (i = n)
    BY <2>1
  <2> QED BY <2>2
<1>5. ASSUME kind = "data"
      PROVE  Units(t) = u
  <2>1. Units(t) \in Seq(Nat)
    BY <1>2, UnitsTyped
  <2>2. Len(Units(t)) = n /\ \A i \in 1..n : Units(t)[i] = t[i].unit
    BY <1>2, <1>4, <1>5, UnitsAll
  <2>3. \A i \in 1..n : Units(t)[i] = u[i]
    BY <2>2, <1>3, <1>4
  <2> QED BY <2>1, <2>2, <2>3, <1>3, SeqEqual
<1>6. kind # "data" => Units(t) = <<>>
  BY <1>2, <1>4, UnitsNone
<1> QED
  BY <1>2, <1>3, <1>4, <1>5, <1>6 DEF RecordUnits, t, u

LEMMA PeerRecordKeeps ==
  ASSUME ReceiveInv, NEW kind \in {"data", "ticket", "close", "bad"}, NEW n \in Nat \ {0},
         PeerRecord(kind, n)
  PROVE  ReceiveInv'
<1> DEFINE base == Len(written)
           t == Record(kind, n, base)
           u == Fresh(n, base)
           more == IF kind = "data" THEN u ELSE <<>>
<1>0. /\ written \in Seq(Nat) /\ base \in Nat /\ wire \in Seq(Pieces) /\ Stream \in Seq(Pieces)
      /\ bio \in Seq(Pieces) /\ Completions \in Seq(Pieces)
      /\ received \in Seq(Nat) /\ pending \in Seq(Nat)
  BY StreamTyped DEF ReceiveInv, TypeOK
<1>1. /\ ~closed /\ transport = "open"
      /\ records < MaxRecords /\ records' = records + 1
      /\ wire' = wire \o t
      /\ written' = IF kind = "data" THEN written \o u ELSE written
      /\ closed' = (kind \in {"close", "bad"})
      /\ UNCHANGED <<transport, op, cq, bio, pending, shut, stale, ret, received>>
  BY DEF PeerRecord, sslVars, Record, Fresh
<1>2. /\ u \in Seq(Nat)
      /\ t \in Seq(Pieces) /\ Len(t) = n
      /\ \A i \in 1..n : t[i].kind = kind /\ (t[i].last <=> i = n)
      /\ kind = "data" => Units(t) = u
      /\ kind # "data" => Units(t) = <<>>
  <2>1. base \in Nat
    BY <1>0
  <2> HIDE DEF base
  <2>2. RecordUnits(kind, n, base)
    BY <2>1, RecordIs
  <2> QED BY <2>2 DEF RecordUnits
<1>3. u \in Seq(Nat)
  BY <1>2
<1> HIDE DEF base, t, u
<1>4. more \in Seq(Nat) /\ Units(t) = more /\ written' = written \o more
  <2>1. CASE kind = "data"
    BY <2>1, <1>1, <1>2, <1>3
  <2>2. CASE kind # "data"
    <3>1. written \o <<>> = written
      BY <1>0, ConcatEmptySeq
    <3>2. more = <<>> /\ more \in Seq(Nat)
      BY <2>2
    <3> QED BY <2>2, <3>1, <3>2, <1>1, <1>2
  <2> QED BY <2>1, <2>2
<1> HIDE DEF more
<1>5. TypeOK'
  <2>1. records' \in 0..MaxRecords
    BY <1>1, ReceiveAssumption DEF ReceiveInv, TypeOK
  <2>2. wire' \in Seq(Pieces) /\ written' \in Seq(Nat)
    BY <1>0, <1>1, <1>2, <1>4, ConcatProperties
  <2> QED BY <1>1, <2>1, <2>2 DEF ReceiveInv, TypeOK
<1>6. Completions' = Completions /\ ResultsInv'
  BY <1>1 DEF ReceiveInv, ResultsInv, Completions
<1>7. Stream' = Stream \o t
  <2>1. bio \o Completions \in Seq(Pieces)
    BY <1>0, ConcatProperties
  <2>2. Associates(bio \o Completions, wire, t)
    BY <1>0, <1>2, <2>1, PiecesAssociate
  <2> QED BY <1>1, <1>6, <2>2 DEF Associates, Stream
<1>8. Orderly(Stream) /\ Complete(Stream) /\ ~ HasClose(Stream)
  BY <1>1 DEF ReceiveInv, Flow
<1>9. Flow(Stream', closed', transport')
  <2>1. /\ Orderly(Stream \o t) /\ Complete(Stream \o t)
        /\ HasClose(Stream \o t) => kind \in {"close", "bad"}
    BY <1>0, <1>2, <1>8, RecordAdded
  <2> QED BY <2>1, <1>1, <1>7 DEF Flow
<1>10. Account(written', received', pending', Stream', transport')
  <2>1. PICK lost \in Seq(Nat) :
          /\ written = (received \o pending) \o (Units(Stream) \o lost)
          /\ transport # "reset" \/ HasClose(Stream) => lost = <<>>
    BY DEF ReceiveInv, Account
  <2>2. Units(Stream) \in Seq(Nat) /\ received \o pending \in Seq(Nat)
    BY <1>0, UnitsTyped, ConcatProperties
  <2>3. written = (received \o pending) \o Units(Stream)
    BY <1>1, <2>1, <2>2, ConcatEmptySeq
  <2>4. Associates(received \o pending, Units(Stream), more)
    BY <1>4, <2>2, UnitsAssociate
  <2>5. Units(Stream') = Units(Stream) \o more
    BY <1>0, <1>2, <1>4, <1>7, UnitsConcat
  <2>6. written' = (received' \o pending') \o Units(Stream')
    BY <1>1, <1>4, <2>3, <2>4, <2>5 DEF Associates
  <2>7. Units(Stream') \in Seq(Nat) /\ Units(Stream') \o <<>> = Units(Stream')
    <3>1. Units(Stream) \o more \in Seq(Nat)
      BY <1>4, <2>2, ConcatProperties
    <3>2. Units(Stream') \in Seq(Nat)
      BY <2>5, <3>1
    <3> QED BY <3>2, ConcatEmptySeq
  <2>8. <<>> \in Seq(Nat)
    OBVIOUS
  <2> QED BY <2>6, <2>7, <2>8 DEF Account
<1> QED
  BY <1>5, <1>6, <1>9, <1>10 DEF ReceiveInv

LEMMA PeerStopsKeeps ==
  ASSUME ReceiveInv, NEW how \in {"eof", "reset"}, PeerStops(how)
  PROVE  ReceiveInv'
<1>0. /\ wire \in Seq(Pieces) /\ bio \in Seq(Pieces) /\ Completions \in Seq(Pieces)
      /\ received \in Seq(Nat) /\ pending \in Seq(Nat)
  BY StreamTyped DEF ReceiveInv, TypeOK
<1>1. /\ transport = "open" /\ transport' = how
      /\ wire' = IF how = "eof" THEN wire ELSE <<>>
      /\ UNCHANGED <<written, records, closed, op, cq, bio, pending, shut, stale, ret, received>>
  BY DEF PeerStops, sslVars
<1>2. TypeOK'
  <2>1. wire' \in Seq(Pieces)
    BY <1>0, <1>1
  <2> QED BY <1>1, <2>1 DEF ReceiveInv, TypeOK
<1>3. Completions' = Completions /\ ResultsInv'
  BY <1>1 DEF ReceiveInv, ResultsInv, Completions
<1>4. CASE how = "eof"
  <2>1. Stream' = Stream
    BY <1>1, <1>3, <1>4 DEF Stream
  <2> QED BY <2>1, <1>1, <1>2, <1>3, <1>4, StreamKept
<1>5. CASE how = "reset"
  <2> DEFINE front == bio \o Completions
  <2>1. front \in Seq(Pieces) /\ Stream = front \o wire /\ Stream' = front
    <3>1. front \in Seq(Pieces)
      BY <1>0, ConcatProperties
    <3>2. Stream' = front \o <<>>
      BY <1>1, <1>3, <1>5 DEF Stream
    <3> QED BY <3>1, <3>2, ConcatEmptySeq DEF Stream
  <2> HIDE DEF front
  <2>2. Flow(Stream', closed', transport')
    BY <1>0, <1>1, <1>5, <2>1, Parts DEF ReceiveInv, Flow
  <2>3. PICK lost \in Seq(Nat) :
          /\ written = (received \o pending) \o (Units(Stream) \o lost)
          /\ transport # "reset" \/ HasClose(Stream) => lost = <<>>
    BY DEF ReceiveInv, Account
  <2>4. Units(Stream) = Units(front) \o Units(wire) /\ Units(Stream) \in Seq(Nat)
        /\ Units(wire) \in Seq(Nat)
    BY <1>0, <2>1, UnitsConcat, UnitsTyped, ConcatProperties
  <2>5. written' = (received' \o pending') \o (Units(front) \o Units(wire))
    BY <1>1, <2>3, <2>4, ConcatEmptySeq
  <2>6. ASSUME HasClose(front)
        PROVE  Units(wire) = <<>>
    <3>1. CloseLast(front \o wire)
      BY <2>1 DEF ReceiveInv, Flow, Orderly
    <3>2. \A i \in 1..Len(wire) : wire[i].kind \in {"close", "bad"}
      BY <1>0, <2>1, <2>6, <3>1, Parts
    <3> QED BY <1>0, <3>2, UnitsNone
  <2>7. Account(written', received', pending', Stream', transport')
    BY <1>1, <1>5, <2>1, <2>4, <2>5, <2>6 DEF Account
  <2> QED BY <1>2, <1>3, <2>2, <2>7 DEF ReceiveInv
<1> QED
  BY <1>4, <1>5

LEMMA ReceiveStep == ReceiveInv /\ [Next]_vars => ReceiveInv'
<1> SUFFICES ASSUME ReceiveInv, [Next]_vars
             PROVE  ReceiveInv'
  OBVIOUS
<1>1. ASSUME Peer
      PROVE  ReceiveInv'
  <2>1. ASSUME NEW n \in 1..MaxUnits, PeerRecord("data", n)
        PROVE  ReceiveInv'
    BY <2>1, ReceiveAssumption, PeerRecordKeeps
  <2>2. ASSUME NEW kind \in {"ticket", "close", "bad"}, NEW n \in 1..MaxOther, PeerRecord(kind, n)
        PROVE  ReceiveInv'
    BY <2>2, ReceiveAssumption, PeerRecordKeeps
  <2>3. ASSUME NEW how \in {"eof", "reset"}, PeerStops(how)
        PROVE  ReceiveInv'
    BY <2>3, PeerStopsKeeps
  <2> QED BY <1>1, <2>1, <2>2, <2>3 DEF Peer
<1>2. ASSUME UNCHANGED <<peerVars, op, cq, sslVars, ret, received>>, stale' \in BOOLEAN
      PROVE  ReceiveInv'
  <2>1. Stream' = Stream
    BY <1>2 DEF Stream, Completions, peerVars, sslVars
  <2>2. TypeOK'
    BY <1>2 DEF ReceiveInv, TypeOK, peerVars, sslVars
  <2>3. ResultsInv'
    BY <1>2 DEF ReceiveInv, ResultsInv
  <2>4. /\ written' = written /\ closed' = closed /\ received' = received
        /\ pending' = pending /\ transport' = transport
    BY <1>2 DEF peerVars, sslVars
  <2> QED BY <2>1, <2>2, <2>3, <2>4, StreamKept
<1>3. ASSUME OtherFails
      PROVE  ReceiveInv'
  BY <1>2, <1>3 DEF OtherFails
<1>4. ASSUME OtherPerforms
      PROVE  ReceiveInv'
  BY <1>2, <1>4 DEF OtherPerforms
<1>5. CASE UNCHANGED vars
  <2>1. stale' \in BOOLEAN
    BY <1>5 DEF vars, ReceiveInv, TypeOK
  <2> QED BY <1>2, <1>5, <2>1 DEF vars
<1> QED
  BY <1>1, <1>3, <1>4, <1>5, RecvKeeps, ResumeKeeps, ArriveKeeps, FailsKeeps DEF Next

THEOREM ReceiveAlways == Spec => []ReceiveInv
BY ReceiveInit, ReceiveStep, PTL DEF Spec

-----------------------------------------------------------------------------
(* The properties.                                                         *)

(* A recv on a connection loses, repeats and reorders nothing until the    *)
(* connection breaks, for any number of readers, any size of the buffer    *)
(* and any records (ssl_stream.hpp:171, :195).                             *)
THEOREM ReceiveKeepsAll == Spec => []NothingLost
<1>1. ReceiveInv => NothingLost
  BY AccountIs DEF ReceiveInv
<1> QED
  BY <1>1, ReceiveAlways, PTL

(* Every variable keeps its type; recv returns what its callers can take:  *)
(* an error of the raw recv, -1, or a number of bytes in the buffer.       *)
THEOREM ReceiveTyped == Spec => []TypeOK
<1>1. ReceiveInv => TypeOK
  BY DEF ReceiveInv
<1> QED
  BY <1>1, ReceiveAlways, PTL

(* SSL_read has nothing once it has returned nothing.                      *)
LEMMA NothingLeft ==
  ASSUME ReceiveInv, NEW res, res = SslRead(bio, Room), After(res), res.got = <<>>
  PROVE  ~ AtHand'
<1>0. /\ pending \in Seq(Nat) /\ shut \in BOOLEAN /\ Room \in Nat \ {0}
      /\ bio \in Seq(Pieces)
  BY ReceiveAssumption DEF ReceiveInv, TypeOK
<1>1. PICK plain, k, end, left :
        /\ Reads(SslRead(bio, Room), bio, Room, plain, k, end, left)
        /\ \/ ReadsPending(bio, plain, k, end)
           \/ ReadsNothing(bio, plain, k, end)
           \/ ReadsRecord(bio, plain, k, end)
  BY <1>0, ReadIs
<1>2. /\ plain \in Seq(Nat) /\ end \in BOOLEAN
      /\ res.got = Take(plain, Room) /\ res.bio = Drop(bio, k) /\ res.pending = Drop(plain, Room)
      /\ res.shut = end
  BY <1>1 DEF Reads
<1>3. plain = <<>>
  <2>1. Len(Take(plain, Room)) = IF Room <= Len(plain) THEN Room ELSE Len(plain)
    BY <1>0, <1>2, Cut
  <2>2. Len(plain) \in Nat /\ (Len(plain) = 0 => plain = <<>>)
    BY <1>2
  <2> QED BY <2>1, <2>2, <1>0, <1>2
<1>4. Take(<<>>, Room) = <<>> /\ Drop(<<>>, Room) = <<>>
  BY <1>0, CutNothing
<1>5. pending' = <<>> /\ bio' = Drop(bio, k) /\ shut' = end
  BY <1>2, <1>3, <1>4 DEF After
<1>6. end \/ Telling(bio') = {}
  <2>1. CASE ReadsPending(bio, plain, k, end)
    BY <2>1, <1>3 DEF ReadsPending
  <2>2. CASE ReadsNothing(bio, plain, k, end)
    BY <2>2, <1>5 DEF ReadsNothing, Telling
  <2>3. CASE ReadsRecord(bio, plain, k, end)
    BY <2>3, <1>3 DEF ReadsRecord
  <2> QED BY <1>1, <2>1, <2>2, <2>3
<1>7. CASE end
  <2>1. pending' # <<>> \/ shut'
    BY <1>5, <1>7
  <2>2. SslRead(bio, Room).got' = Take(pending', Room)
    BY <2>1 DEF SslRead
  <2> QED BY <2>2, <1>4, <1>5 DEF AtHand
<1>8. CASE ~ end
  <2>1. pending' = <<>> /\ ~ shut' /\ Telling(bio') = {}
    BY <1>5, <1>6, <1>8
  <2>2. SslRead(bio, Room).got' = Take(<<>>, Room)
    BY <2>1 DEF SslRead
  <2> QED BY <2>2, <1>4 DEF AtHand
<1> QED
  BY <1>2, <1>7, <1>8

(* What is at hand depends on the SSL object and its BIO only.             *)
LEMMA HandKept ==
  ASSUME UNCHANGED sslVars
  PROVE  AtHand' <=> AtHand
<1>0. bio' = bio /\ pending' = pending /\ shut' = shut
  BY DEF sslVars
<1>1. CASE pending # <<>> \/ shut
  <2>1. SslRead(bio, Room).got = Take(pending, Room)
    BY <1>1 DEF SslRead
  <2>2. SslRead(bio, Room).got' = Take(pending, Room)
    BY <1>0, <1>1 DEF SslRead
  <2> QED BY <2>1, <2>2 DEF AtHand
<1>2. CASE pending = <<>> /\ ~ shut /\ Telling(bio) = {}
  <2>1. SslRead(bio, Room).got = Take(<<>>, Room)
    BY <1>2 DEF SslRead
  <2>2. SslRead(bio, Room).got' = Take(<<>>, Room)
    BY <1>0, <1>2 DEF SslRead
  <2> QED BY <2>1, <2>2 DEF AtHand
<1>3. CASE pending = <<>> /\ ~ shut /\ Telling(bio) # {}
  <2> DEFINE e == Min(Telling(bio))
             plain == Plaintext(SubSeq(bio, Begin(bio, e), e))
  <2>1. SslRead(bio, Room).got = Take(plain, Room)
    BY <1>3 DEF SslRead
  <2>2. SslRead(bio, Room).got' = Take(plain, Room)
    BY <1>0, <1>3 DEF SslRead
  <2> HIDE DEF plain
  <2> QED BY <2>1, <2>2 DEF AtHand
<1> QED
  BY <1>1, <1>2, <1>3

(* Plaintext at hand is for a reader that does not wait.                   *)
HandInv == AtHand => \E r \in Reader : ret[r] # Busy

LEMMA HandInit == Init => HandInv
<1> SUFFICES ASSUME Init
             PROVE  ~ AtHand
  BY DEF HandInv
<1>1. pending = <<>> /\ ~ shut /\ bio = <<>>
  BY DEF Init
<1>2. Telling(bio) = {}
  BY <1>1 DEF Telling, Ends
<1>3. SslRead(bio, Room).got = Take(<<>>, Room)
  BY <1>1, <1>2 DEF SslRead
<1> QED
  BY <1>3, CutNothing, ReceiveAssumption DEF AtHand

(* A step that leaves the SSL object and the results of the readers alone. *)
LEMMA HandStays ==
  ASSUME HandInv, UNCHANGED <<sslVars, ret>>
  PROVE  HandInv'
BY HandKept DEF HandInv

LEMMA HandStep == ReceiveInv /\ HandInv /\ [Next]_vars => HandInv'
<1> SUFFICES ASSUME ReceiveInv, HandInv, [Next]_vars
             PROVE  HandInv'
  OBVIOUS
<1>0. ret \in [Reader -> {ConnReset, Busy, -1} \cup 0..Room] /\ Room \in Nat
  BY ReceiveAssumption DEF ReceiveInv, TypeOK
<1>1. ASSUME NEW r \in Reader, Recv(r)
      PROVE  HandInv'
  <2> DEFINE res == SslRead(bio, Room)
             rest == Completions \o wire
  <2>1. bio \in Seq(Pieces) /\ rest \in Seq(Pieces) /\ Stream = bio \o rest
    BY RecvReads
  <2>2. Len(res.got) \in 0..Room
    <3> HIDE DEF rest
    <3> QED BY <2>1, ReadKeeps
  <2>3. /\ After(res) /\ res = SslRead(bio, Room)
        /\ res.got # <<>> => ret' = [ret EXCEPT ![r] = Len(res.got)]
    BY <1>1 DEF Recv
  <2> HIDE DEF res, rest
  <2>4. CASE res.got = <<>>
    BY <2>3, <2>4, NothingLeft DEF HandInv
  <2>5. CASE res.got # <<>>
    <3>1. ret'[r] = Len(res.got)
      BY <2>3, <2>5, <1>0
    <3>2. ret'[r] # Busy
      BY <3>1, <2>2, <1>0 DEF Busy
    <3> QED BY <3>2 DEF HandInv
  <2> QED BY <2>4, <2>5
<1>2. ASSUME NEW r \in Reader, Resume(r)
      PROVE  HandInv'
  <2>0. cq # <<>>
    BY <1>2 DEF Resume
  <2>1. CASE Head(cq)[2] <= 0
    <3>1. ret' = [ret EXCEPT ![r] = Head(cq)[2]]
      BY <1>2, <2>1 DEF Resume
    <3>2. Head(cq)[2] \in {0, ConnReset}
      BY <2>0, <2>1, HeadIs, <1>0
    <3>3. ret'[r] # Busy
      BY <3>1, <3>2, <1>0 DEF Busy, ConnReset
    <3> QED BY <3>3 DEF HandInv
  <2>2. CASE ~ (Head(cq)[2] <= 0)
    <3> DEFINE s == bio \o Head(cq)[3]
               rest == Bytes(Tail(cq)) \o wire
               res == SslRead(s, Room)
    <3>1. s \in Seq(Pieces) /\ rest \in Seq(Pieces) /\ Stream = s \o rest
      BY <2>0, ResumeReads
    <3>2. ret' = [ret EXCEPT ![r] = Outcome(res)]
      BY <1>2, <2>2 DEF Resume, Feed
    <3> HIDE DEF s, rest
    <3>3. Len(res.got) \in 0..Room
      BY <3>1, ReadKeeps
    <3> HIDE DEF res
    <3>4. Outcome(res) \in {-1} \cup 0..Room
      BY <3>3 DEF Outcome
    <3>5. ret'[r] = Outcome(res)
      BY <3>2, <1>0
    <3>6. ret'[r] # Busy
      BY <3>4, <3>5, <1>0 DEF Busy
    <3> QED BY <3>6 DEF HandInv
  <2> QED BY <2>1, <2>2
<1>3. ASSUME NEW r \in Reader, Arrive(r) \/ Fails(r)
      PROVE  HandInv'
  BY <1>3, HandStays DEF Arrive, Fails, Post
<1>4. ASSUME Peer \/ OtherFails \/ OtherPerforms
      PROVE  HandInv'
  BY <1>4, HandStays DEF Peer, PeerRecord, PeerStops, OtherFails, OtherPerforms
<1>5. CASE UNCHANGED vars
  BY <1>5, HandStays DEF vars
<1> QED
  BY <1>1, <1>2, <1>3, <1>4, <1>5 DEF Next

(* Who begins to wait.                                                     *)
StallStep ==
  \A r \in Reader : op[r] # "flight" /\ op'[r] = "flight" => ~ AtHand'

LEMMA StallStepIs == ReceiveInv /\ [Next]_vars => [StallStep]_vars
<1> SUFFICES ASSUME ReceiveInv, Next
             PROVE  StallStep
  OBVIOUS
<1>0. op \in [Reader -> {"none", "flight", "done"}]
  BY DEF ReceiveInv, TypeOK
<1>1. ASSUME \A r \in Reader : op'[r] = "flight" => op[r] = "flight"
      PROVE  StallStep
  BY <1>1 DEF StallStep
<1>2. ASSUME NEW r \in Reader, Recv(r)
      PROVE  StallStep
  <2> DEFINE res == SslRead(bio, Room)
  <2>1. /\ After(res) /\ res = SslRead(bio, Room)
        /\ res.got # <<>> => UNCHANGED op
    BY <1>2 DEF Recv
  <2> HIDE DEF res
  <2>2. CASE res.got = <<>>
    BY <2>1, <2>2, NothingLeft DEF StallStep
  <2>3. CASE res.got # <<>>
    BY <2>1, <2>3, <1>1
  <2> QED BY <2>2, <2>3
<1>3. ASSUME NEW r \in Reader, Resume(r)
      PROVE  StallStep
  <2>1. op' = [op EXCEPT ![r] = "none"]
    BY <1>3 DEF Resume
  <2> QED BY <2>1, <1>0, <1>1
<1>4. ASSUME NEW r \in Reader, Arrive(r) \/ Fails(r)
      PROVE  StallStep
  <2>1. op' = [op EXCEPT ![r] = "done"]
    BY <1>4 DEF Arrive, Fails, Post
  <2> QED BY <2>1, <1>0, <1>1
<1>5. ASSUME Peer \/ OtherFails \/ OtherPerforms
      PROVE  StallStep
  <2>1. UNCHANGED op
    BY <1>5 DEF Peer, PeerRecord, PeerStops, OtherFails, OtherPerforms
  <2> QED BY <2>1, <1>1
<1> QED
  BY <1>2, <1>3, <1>4, <1>5 DEF Next

(* Plaintext is never at hand while every reader waits, and no reader      *)
(* begins to wait with plaintext at hand, in the SSL object or in complete *)
(* records (ssl_stream.hpp:171).                                           *)
THEOREM WaitsOnlyForNews == Spec => NoStall
<1>1. Spec => []HandInv
  BY HandInit, HandStep, ReceiveAlways, PTL DEF Spec
<1>2. Spec => [][StallStep]_vars
  BY ReceiveAlways, StallStepIs, PTL DEF Spec
<1> QED
  BY <1>1, <1>2 DEF NoStall, StallStep, HandInv

-----------------------------------------------------------------------------
(* The refinement.                                                         *)

LEMMA PrefixConcat ==
  ASSUME NEW s \in Seq(Nat), NEW t \in Seq(Nat)
  PROVE  IsPrefix(s, s \o t)
<1>1. /\ Len(s) \in Nat /\ Len(s \o t) = Len(s) + Len(t) /\ Len(t) \in Nat
      /\ s \o t \in Seq(Nat)
      /\ \A i \in 1..Len(s) : (s \o t)[i] = s[i]
  BY ConcatProperties
<1>2. SubSeq(s, 1, Len(s)) = SubSeq(s \o t, 1, Len(s))
  BY <1>1
<1> QED
  BY <1>1, <1>2 DEF IsPrefix

(* A step that reads is a Read of the channel or its End.                  *)
LEMMA ReadRefines ==
  ASSUME ReceiveInv, NEW s \in Seq(Pieces), NEW rest \in Seq(Pieces),
         Stream = s \o rest, NEW res, res = SslRead(s, Room), After(res), UNCHANGED peerVars
  PROVE  Channel!Read \/ Channel!End
<1>1. /\ res.got \in Seq(Nat)
      /\ res.shut # shut => res.shut /\ res.got = <<>> /\ closed /\ received = written
  BY ReadKeeps
<1>2. received' = received \o res.got /\ shut' = res.shut /\ UNCHANGED <<written, closed>>
  BY DEF After, peerVars
<1>3. received \in Seq(Nat)
  BY DEF ReceiveInv, TypeOK
<1>4. CASE res.shut = shut
  <2>1. IsPrefix(received, received')
    BY <1>1, <1>2, <1>3, PrefixConcat
  <2>2. IsPrefix(received', written')
    <3>1. /\ Account(written, received \o res.got, res.pending, res.bio \o rest, transport)
          /\ res.pending \in Seq(Nat) /\ res.bio \in Seq(Pieces)
      BY ReadKeeps
    <3>2. received \o res.got \in Seq(Nat) /\ res.bio \o rest \in Seq(Pieces)
      BY <1>1, <1>3, <3>1, ConcatProperties
    <3> QED BY <1>2, <3>1, <3>2, AccountPrefix
  <2> QED BY <1>2, <1>4, <2>1, <2>2 DEF Channel!Read, IsPrefix, Channel!IsPrefix
<1>5. CASE res.shut # shut
  <2>1. received' = received
    BY <1>1, <1>2, <1>3, <1>5, ConcatEmptySeq
  <2> QED BY <1>1, <1>2, <1>5, <2>1 DEF Channel!End
<1> QED
  BY <1>4, <1>5

LEMMA StepRefines ==
  ReceiveInv /\ [Next]_vars => [Channel!ChannelNext]_(Channel!channelVars)
<1> SUFFICES ASSUME ReceiveInv, [Next]_vars
             PROVE  Channel!ChannelNext \/ UNCHANGED <<written, received, closed, shut>>
  BY DEF Channel!channelVars
<1>1. ASSUME NEW r \in Reader, Recv(r)
      PROVE  Channel!ChannelNext
  <2> DEFINE res == SslRead(bio, Room)
             rest == Completions \o wire
  <2>1. bio \in Seq(Pieces) /\ rest \in Seq(Pieces) /\ Stream = bio \o rest
    BY RecvReads
  <2>2. After(res) /\ UNCHANGED peerVars /\ res = SslRead(bio, Room)
    BY <1>1 DEF Recv
  <2> HIDE DEF res, rest
  <2> QED BY <2>1, <2>2, ReadRefines DEF Channel!ChannelNext
<1>2. ASSUME NEW r \in Reader, Resume(r)
      PROVE  Channel!ChannelNext \/ UNCHANGED <<written, received, closed, shut>>
  <2>1. cq # <<>> /\ UNCHANGED peerVars
    BY <1>2 DEF Resume
  <2>2. CASE Head(cq)[2] <= 0
    BY <1>2, <2>2 DEF Resume, sslVars, peerVars
  <2>3. CASE ~ (Head(cq)[2] <= 0)
    <3> DEFINE s == bio \o Head(cq)[3]
               rest == Bytes(Tail(cq)) \o wire
               res == SslRead(s, Room)
    <3>1. s \in Seq(Pieces) /\ rest \in Seq(Pieces) /\ Stream = s \o rest
      BY <2>1, ResumeReads
    <3>2. After(res)
      BY <1>2, <2>3 DEF Resume, Feed
    <3>3. res = SslRead(s, Room)
      OBVIOUS
    <3> HIDE DEF s, rest, res
    <3> QED BY <2>1, <3>1, <3>2, <3>3, ReadRefines DEF Channel!ChannelNext
  <2> QED BY <2>2, <2>3
<1>3. ASSUME NEW kind \in {"data", "ticket", "close", "bad"}, NEW n \in Nat \ {0}, PeerRecord(kind, n)
      PROVE  Channel!ChannelNext \/ UNCHANGED <<written, received, closed, shut>>
  <2>1. ~ closed /\ closed' = (kind \in {"close", "bad"}) /\ received' = received /\ shut' = shut
    BY <1>3 DEF PeerRecord, sslVars
  <2>2. CASE kind = "data"
    <3> DEFINE u == [i \in 1..n |-> Len(written) + i]
    <3>1. written' = written \o u
      BY <1>3, <2>2 DEF PeerRecord
    <3>2. written \in Seq(Nat) /\ u \in Seq(Nat)
      BY DEF ReceiveInv, TypeOK
    <3> HIDE DEF u
    <3>3. IsPrefix(written, written')
      BY <3>1, <3>2, PrefixConcat
    <3>4. closed' = closed
      BY <2>1, <2>2 DEF ReceiveInv, TypeOK
    <3> QED BY <2>1, <3>3, <3>4 DEF Channel!ChannelNext, Channel!Write, IsPrefix, Channel!IsPrefix
  <2>3. CASE kind = "ticket"
    <3>1. written' = written
      BY <1>3, <2>3 DEF PeerRecord
    <3>2. closed' = closed
      BY <2>1, <2>3 DEF ReceiveInv, TypeOK
    <3> QED BY <2>1, <3>1, <3>2
  <2>4. CASE kind \in {"close", "bad"}
    <3>1. written' = written
      BY <1>3, <2>4 DEF PeerRecord
    <3>2. closed' = TRUE
      BY <2>1, <2>4
    <3> QED BY <2>1, <3>1, <3>2 DEF Channel!ChannelNext, Channel!Close
  <2> QED BY <2>2, <2>3, <2>4
<1>4. ASSUME Peer
      PROVE  Channel!ChannelNext \/ UNCHANGED <<written, received, closed, shut>>
  <2>1. ASSUME NEW n \in 1..MaxUnits, PeerRecord("data", n)
        PROVE  Channel!ChannelNext \/ UNCHANGED <<written, received, closed, shut>>
    BY <2>1, <1>3, ReceiveAssumption
  <2>2. ASSUME NEW kind \in {"ticket", "close", "bad"}, NEW n \in 1..MaxOther, PeerRecord(kind, n)
        PROVE  Channel!ChannelNext \/ UNCHANGED <<written, received, closed, shut>>
    BY <2>2, <1>3, ReceiveAssumption
  <2>3. ASSUME NEW how, PeerStops(how)
        PROVE  UNCHANGED <<written, received, closed, shut>>
    BY <2>3 DEF PeerStops, sslVars
  <2> QED BY <1>4, <2>1, <2>2, <2>3 DEF Peer
<1>5. ASSUME NEW r \in Reader, Arrive(r) \/ Fails(r)
      PROVE  UNCHANGED <<written, received, closed, shut>>
  BY <1>5 DEF Arrive, Fails, Post, sslVars
<1>6. ASSUME OtherFails \/ OtherPerforms \/ UNCHANGED vars
      PROVE  UNCHANGED <<written, received, closed, shut>>
  BY <1>6 DEF OtherFails, OtherPerforms, vars, peerVars, sslVars
<1> QED
  BY <1>1, <1>2, <1>4, <1>5, <1>6 DEF Next

LEMMA InitRefines == Init => Channel!ChannelInit
BY DEF Init, Channel!ChannelInit

(* recv implements the channel: the plaintext in order and without gaps,   *)
(* and the end only after all of it, whatever the sizes of records and     *)
(* buffers and however many coroutines read.                               *)
THEOREM ReceiveImplementsChannel == Spec => ImplementsChannel
<1>1. Spec => Channel!ChannelSpec
  BY InitRefines, StepRefines, ReceiveAlways, PTL DEF Spec, Channel!ChannelSpec
<1> QED
  BY <1>1 DEF ImplementsChannel

=============================================================================
