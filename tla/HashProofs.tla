----------------------------- MODULE HashProofs -----------------------------
(***************************************************************************)
(* What a hash table of any size keeps through insertions, deletions and   *)
(* rehashes, whatever malloc() does.                                       *)
(*                                                                         *)
(* A table is well placed when no bucket holds an entry twice or an entry  *)
(* that hashes elsewhere.  One change of a bucket is followed to what the  *)
(* table stores (BucketChanged), the loops of transfer_entries() by        *)
(* induction to tables that together keep what both stored, and from that  *)
(* the invariant HashInv follows, and from it the properties.              *)
(***************************************************************************)
EXTENDS HashTable, Loops, SequenceTheorems

-----------------------------------------------------------------------------
(* Buckets. *)

Data == Entries \cup {NULL}
Buckets == Seq(Data) \ {<<>>}

\* The user's entries in a bucket; a bucket that holds none of them twice.
Has(b) == Range(b) \ {NULL}
Once(b) == \A k, m \in DOMAIN b : b[k] = b[m] /\ b[k] # NULL => k = m

\* The entry that a datum is, if it is one.
One(e) == {e} \ {NULL}

\* Numbers of the data of a bucket.
LEMMA BucketFacts ==
  ASSUME NEW b \in Buckets
  PROVE  /\ b \in Seq(Data) /\ Len(b) \in Nat /\ Len(b) > 0 /\ DOMAIN b = 1..Len(b)
         /\ Head(b) = b[1] /\ Head(b) \in Data
         /\ Tail(b) \in Seq(Data) /\ Len(Tail(b)) = Len(b) - 1
         /\ \A k \in 1..(Len(b) - 1) : Tail(b)[k] = b[k + 1]
  <1>1. b \in Seq(Data) /\ b # <<>>
    BY DEF Buckets
  <1> QED
    BY <1>1

\* What a sequence has, by its numbers.
LEMMA HasFacts ==
  ASSUME NEW b \in Seq(Data)
  PROVE  \A e : e \in Has(b) <=> e # NULL /\ \E k \in 1..Len(b) : b[k] = e
  <1>1. DOMAIN b = 1..Len(b)
    OBVIOUS
  <1> QED
    BY <1>1 DEF Has, Range

\* A bucket with one datum.
LEMMA Single ==
  ASSUME NEW e \in Data
  PROVE  /\ <<e>> \in Buckets /\ Once(<<e>>) /\ Has(<<e>>) = One(e)
         /\ Head(<<e>>) = e /\ Tail(<<e>>) = <<>>
  <1>1. <<e>> \in Seq(Data) /\ Len(<<e>>) = 1 /\ <<e>>[1] = e
    OBVIOUS
  <1>2. PICK b : b = <<e>>
    OBVIOUS
  <1>3. b \in Seq(Data) /\ Len(b) = 1 /\ b[1] = e /\ DOMAIN b = 1..1 /\ b # <<>> /\ Head(b) = e
    BY <1>1, <1>2
  <1>4. \A d : d \in Has(b) <=> d # NULL /\ d = e
    BY <1>3, HasFacts
  <1>5. Has(b) = One(e) /\ Once(b) /\ b \in Buckets
    BY <1>3, <1>4 DEF One, Once, Buckets
  <1>6. Tail(b) = <<>>
    <2>1. Tail(b) \in Seq(Data) /\ Len(Tail(b)) = 0
      BY <1>3, <1>5, BucketFacts
    <2> QED
      BY <2>1, EmptySeq
  <1> QED
    BY <1>2, <1>3, <1>5, <1>6

\* The rest of a bucket has what its head is not.
LEMMA Rest ==
  ASSUME NEW b \in Buckets
  PROVE  /\ Has(b) = One(Head(b)) \cup Has(Tail(b))
         /\ Once(b) => Once(Tail(b)) /\ Head(b) \notin Has(Tail(b))
  <1>1. PICK t : t = Tail(b)
    OBVIOUS
  <1>2. /\ b \in Seq(Data) /\ Len(b) \in Nat /\ Len(b) > 0 /\ DOMAIN b = 1..Len(b)
        /\ Head(b) = b[1] /\ Head(b) \in Data
        /\ t \in Seq(Data) /\ Len(t) = Len(b) - 1
        /\ \A k \in 1..(Len(b) - 1) : t[k] = b[k + 1]
    BY <1>1, BucketFacts
  <1>3. DOMAIN t = 1..(Len(b) - 1)
    BY <1>2
  <1>4. \A e : e \in Has(b) <=> e # NULL /\ \E k \in 1..Len(b) : b[k] = e
    BY <1>2, HasFacts
  <1>5. \A e : e \in Has(t) <=> e # NULL /\ \E k \in 1..(Len(b) - 1) : t[k] = e
    BY <1>2, HasFacts
  <1>6. ASSUME NEW e
        PROVE  (\E k \in 1..Len(b) : b[k] = e) <=> b[1] = e \/ \E k \in 1..(Len(b) - 1) : t[k] = e
    <2>1. ASSUME NEW k \in 1..Len(b), b[k] = e, k # 1
          PROVE  k - 1 \in 1..(Len(b) - 1) /\ t[k - 1] = e
      BY <1>2, <2>1
    <2>2. ASSUME NEW k \in 1..(Len(b) - 1), t[k] = e
          PROVE  k + 1 \in 1..Len(b) /\ b[k + 1] = e
      BY <1>2, <2>2
    <2>3. 1 \in 1..Len(b)
      BY <1>2
    <2> QED
      BY <2>1, <2>2, <2>3
  <1>7. Has(b) = One(Head(b)) \cup Has(t)
    BY <1>2, <1>4, <1>5, <1>6 DEF One
  <1>8. ASSUME Once(b)
        PROVE  Once(t) /\ Head(b) \notin Has(t)
    <2>1. ASSUME NEW k \in 1..(Len(b) - 1), NEW m \in 1..(Len(b) - 1), t[k] = t[m], t[k] # NULL
          PROVE  k = m
      <3>1. k + 1 \in DOMAIN b /\ m + 1 \in DOMAIN b /\ b[k + 1] = b[m + 1] /\ b[k + 1] # NULL
        BY <1>2, <2>1
      <3> QED
        BY <1>8, <3>1 DEF Once
    <2>2. ASSUME NEW k \in 1..(Len(b) - 1), t[k] = Head(b), t[k] # NULL
          PROVE  FALSE
      <3>1. k + 1 \in DOMAIN b /\ 1 \in DOMAIN b /\ b[k + 1] = b[1] /\ b[1] # NULL
        BY <1>2, <2>2
      <3>2. k + 1 = 1
        BY <1>8, <3>1 DEF Once
      <3> QED
        BY <3>2
    <2> QED
      BY <1>3, <1>5, <2>1, <2>2 DEF Once
  <1> QED
    BY <1>1, <1>7, <1>8

\* What a concatenation is, number by number.
LEMMA CatSeq ==
  ASSUME NEW s \in Seq(Data), NEW t \in Seq(Data), NEW u, u = s \o t
  PROVE  /\ u \in Seq(Data) /\ Len(u) = Len(s) + Len(t)
         /\ \A k \in 1..(Len(s) + Len(t)) : u[k] = IF k <= Len(s) THEN s[k] ELSE t[k - Len(s)]
  BY ConcatProperties, Zenon

\* A datum in front of a sequence.
LEMMA InFront ==
  ASSUME NEW s \in Seq(Data), NEW e \in Data
  PROVE  /\ <<e>> \o s \in Buckets /\ Has(<<e>> \o s) = One(e) \cup Has(s)
         /\ Head(<<e>> \o s) = e /\ Tail(<<e>> \o s) = s
         /\ Once(s) /\ e \notin Has(s) => Once(<<e>> \o s)
  <1>1. PICK c : c = <<e>>
    OBVIOUS
  <1>2. c \in Seq(Data) /\ Len(c) = 1 /\ c[1] = e
    BY <1>1
  <1>3. PICK b : b = c \o s
    OBVIOUS
  <1>c. /\ b \in Seq(Data) /\ Len(b) = Len(c) + Len(s)
        /\ \A k \in 1..(Len(c) + Len(s)) : b[k] = IF k <= Len(c) THEN c[k] ELSE s[k - Len(c)]
    BY <1>2, <1>3, CatSeq
  <1>4. b \in Seq(Data) /\ Len(b) = 1 + Len(s) /\ b[1] = e /\ Len(s) \in Nat
    BY <1>2, <1>c
  <1>5. \A k \in 1..Len(s) : b[k + 1] = s[k]
    BY <1>2, <1>4, <1>c
  <1>6. b \in Buckets
    BY <1>4 DEF Buckets
  <1>7. Tail(b) = s
    <2>1. PICK t : t = Tail(b)
      OBVIOUS
    <2>2. t \in Seq(Data) /\ Len(t) = Len(s) /\ \A k \in 1..Len(s) : t[k] = s[k]
      BY <1>4, <1>5, <1>6, <2>1, BucketFacts
    <2> QED
      BY <2>1, <2>2, SeqEqual
  <1>8. Head(b) = e /\ Has(b) = One(e) \cup Has(s)
    BY <1>4, <1>6, <1>7, Rest, BucketFacts
  <1>9. ASSUME Once(s), e \notin Has(s)
        PROVE  Once(b)
    <2>1. DOMAIN b = 1..(1 + Len(s)) /\ DOMAIN s = 1..Len(s) /\ Len(s) \in Nat
      BY <1>4
    <2>2. ASSUME NEW k \in 2..(1 + Len(s))
          PROVE  k - 1 \in DOMAIN s /\ b[k] = s[k - 1]
      BY <1>5, <2>1
    <2>3. ASSUME NEW k \in 2..(1 + Len(s)), b[k] = e, e # NULL
          PROVE  FALSE
      BY <1>9, <2>1, <2>2, <2>3, HasFacts
    <2>4. ASSUME NEW k \in DOMAIN b, NEW m \in DOMAIN b, b[k] = b[m], b[k] # NULL
          PROVE  k = m
      <3>1. CASE k = 1
        BY <1>4, <2>1, <2>3, <2>4, <3>1
      <3>2. CASE m = 1
        BY <1>4, <2>1, <2>3, <2>4, <3>2
      <3>3. CASE k # 1 /\ m # 1
        <4>1. k \in 2..(1 + Len(s)) /\ m \in 2..(1 + Len(s))
          BY <2>1, <3>3
        <4>2. k - 1 = m - 1
          BY <1>9, <2>2, <2>4, <4>1 DEF Once
        <4> QED
          BY <4>1, <4>2
      <3> QED
        BY <3>1, <3>2, <3>3
    <2> QED
      BY <2>4 DEF Once
  <1> QED
    BY <1>1, <1>3, <1>6, <1>7, <1>8, <1>9

\* The two ways a datum gets into a bucket.
LEMMA BucketGrows ==
  ASSUME NEW b \in Buckets, NEW e \in Data, Once(b), e \notin Has(b)
  PROVE  /\ Insert2nd(b, e) \in Buckets /\ Once(Insert2nd(b, e))
         /\ Has(Insert2nd(b, e)) = Has(b) \cup One(e)
         /\ Head(b) = NULL => /\ <<e>> \o Tail(b) \in Buckets /\ Once(<<e>> \o Tail(b))
                              /\ Has(<<e>> \o Tail(b)) = Has(b) \cup One(e)
  <1>1. PICK h, t : h = Head(b) /\ t = Tail(b)
    OBVIOUS
  <1>2. h \in Data /\ t \in Seq(Data) /\ Once(t) /\ Has(b) = One(h) \cup Has(t) /\ h \notin Has(t)
    BY <1>1, Rest, BucketFacts
  <1>3. PICK s : s = <<e>> \o t
    OBVIOUS
  <1>4. s \in Buckets /\ Has(s) = One(e) \cup Has(t) /\ Once(s)
    BY <1>2, <1>3, InFront
  <1>5. Head(b) = NULL => Has(s) = Has(b) \cup One(e)
    BY <1>1, <1>2, <1>4 DEF One
  <1>6. PICK r : r = <<h>> \o s
    OBVIOUS
  <1>7. s \in Seq(Data) /\ h \notin Has(s)
    <2>1. h \in Has(s) => h = e /\ e # NULL
      BY <1>2, <1>4 DEF One
    <2>2. h # NULL => h \in Has(b)
      BY <1>2 DEF One
    <2> QED
      BY <1>4, <2>1, <2>2 DEF Buckets
  <1>8. r \in Buckets /\ Has(r) = One(h) \cup Has(s) /\ Once(r)
    BY <1>2, <1>4, <1>6, <1>7, InFront
  <1>9. r = Insert2nd(b, e)
    <2>1. PICK p, c, d : p = <<h>> /\ c = <<h, e>> /\ d = c \o t
      OBVIOUS
    <2>2. /\ p \in Seq(Data) /\ Len(p) = 1 /\ p[1] = h
          /\ c \in Seq(Data) /\ Len(c) = 2 /\ c[1] = h /\ c[2] = e
      BY <1>2, <2>1
    <2>3. /\ d \in Seq(Data) /\ Len(d) = Len(c) + Len(t)
          /\ \A k \in 1..(Len(c) + Len(t)) : d[k] = IF k <= Len(c) THEN c[k] ELSE t[k - Len(c)]
      BY <1>2, <2>1, <2>2, CatSeq
    <2>4. /\ Len(s) = 1 + Len(t) /\ s[1] = e /\ \A k \in 2..(Len(t) + 1) : s[k] = t[k - 1]
      <3>1. s \in Buckets /\ Head(s) = e /\ Tail(s) = t
        BY <1>2, <1>3, InFront
      <3> QED
        BY <3>1, BucketFacts
    <2>5. /\ r \in Seq(Data) /\ Len(r) = Len(p) + Len(s)
          /\ \A k \in 1..(Len(p) + Len(s)) : r[k] = IF k <= Len(p) THEN p[k] ELSE s[k - Len(p)]
      <3>1. r = p \o s
        BY <1>6, <2>1, Zenon
      <3>2. p \in Seq(Data) /\ s \in Seq(Data)
        BY <1>7, <2>2
      <3> QED
        BY <3>1, <3>2, CatSeq, Zenon
    <2>6. Len(r) = Len(d) /\ Len(t) \in Nat
      BY <1>2, <2>2, <2>3, <2>4, <2>5
    <2>7. ASSUME NEW k \in 1..Len(r)
          PROVE  r[k] = d[k]
      <3>1. k = 1 \/ k = 2 \/ k \in 3..(2 + Len(t))
        BY <2>2, <2>4, <2>5, <2>6
      <3>2. CASE k = 1
        BY <2>2, <2>3, <2>4, <2>5, <2>6, <3>2
      <3>3. CASE k = 2
        BY <2>2, <2>3, <2>4, <2>5, <2>6, <3>3
      <3>4. CASE k \in 3..(2 + Len(t))
        <4>1. r[k] = s[k - 1] /\ d[k] = t[k - 2]
          BY <2>2, <2>3, <2>4, <2>5, <2>6, <3>4
        <4>2. k - 1 \in 2..(Len(t) + 1) /\ (k - 1) - 1 = k - 2
          BY <2>6, <3>4
        <4> QED
          BY <2>4, <4>1, <4>2
      <3> QED
        BY <3>1, <3>2, <3>3, <3>4
    <2>8. r = d
      BY <2>3, <2>5, <2>6, <2>7, SeqEqual
    <2> QED
      BY <1>1, <2>1, <2>8, Zenon DEF Insert2nd
  <1> QED
    BY <1>1, <1>2, <1>3, <1>4, <1>5, <1>8, <1>9

\* An entry leaves a bucket with more than one datum.
LEMMA BucketShrinks ==
  ASSUME NEW b \in Buckets, Once(b), Len(b) > 1, NEW k \in DOMAIN b, b[k] # NULL
  PROVE  /\ RemoveAt(b, k) \in Buckets /\ Once(RemoveAt(b, k))
         /\ Has(RemoveAt(b, k)) = Has(b) \ {b[k]}
  <1>1. /\ b \in Seq(Data) /\ Len(b) \in Nat /\ DOMAIN b = 1..Len(b)
        /\ k \in 1..Len(b) /\ \A j \in 1..Len(b) : b[j] \in Data
    BY BucketFacts
  <1>2. PICK s, t : s = SubSeq(b, 1, k - 1) /\ t = SubSeq(b, k + 1, Len(b))
    OBVIOUS
  <1>3. /\ s \in Seq(Data) /\ Len(s) = k - 1 /\ \A j \in 1..(k - 1) : s[j] = b[j]
    BY <1>1, <1>2, SubSeqProperties
  <1>4. /\ t \in Seq(Data) /\ Len(t) = Len(b) - k
        /\ \A j \in 1..(Len(b) - k) : t[j] = b[k + j]
    <2>1. k + 1 \in Int /\ Len(b) \in Int /\ \A j \in (k + 1)..Len(b) : b[j] \in Data
      BY <1>1
    <2>2. /\ SubSeq(b, k + 1, Len(b)) \in Seq(Data)
          /\ Len(SubSeq(b, k + 1, Len(b))) = IF k + 1 <= Len(b) THEN Len(b) - (k + 1) + 1 ELSE 0
          /\ \A j \in 1..(Len(b) - (k + 1) + 1) : SubSeq(b, k + 1, Len(b))[j] = b[k + 1 + j - 1]
      BY <2>1, SubSeqProperties
    <2>3. \A j \in 1..(Len(b) - k) : k + 1 + j - 1 = k + j /\ j \in 1..(Len(b) - (k + 1) + 1)
      BY <1>1
    <2> QED
      BY <1>1, <1>2, <2>2, <2>3
  <1>5. PICK c : c = s \o t
    OBVIOUS
  <1>6. /\ c \in Seq(Data) /\ Len(c) = Len(s) + Len(t)
        /\ \A j \in 1..(Len(s) + Len(t)) : c[j] = IF j <= Len(s) THEN s[j] ELSE t[j - Len(s)]
    BY <1>3, <1>4, <1>5, CatSeq
  <1>7. /\ DOMAIN c = 1..(Len(b) - 1) /\ Len(c) = Len(b) - 1
        /\ \A j \in 1..(Len(b) - 1) : c[j] = IF j < k THEN b[j] ELSE b[j + 1]
    <2>1. Len(c) = Len(b) - 1 /\ Len(s) + Len(t) = Len(b) - 1
      BY <1>1, <1>3, <1>4, <1>6
    <2>2. DOMAIN c = 1..(Len(b) - 1)
      BY <1>6, <2>1, LenProperties
    <2>3. ASSUME NEW j \in 1..(Len(b) - 1), j < k
          PROVE  c[j] = b[j]
      BY <1>1, <1>3, <1>6, <2>1, <2>3
    <2>4. ASSUME NEW j \in 1..(Len(b) - 1), ~(j < k)
          PROVE  c[j] = b[j + 1]
      <3>1. j - Len(s) \in 1..(Len(b) - k) /\ k + (j - Len(s)) = j + 1 /\ ~(j <= Len(s))
        BY <1>1, <1>3, <2>4
      <3>2. c[j] = t[j - Len(s)]
        BY <1>6, <2>1, <3>1
      <3> QED
        BY <1>4, <3>1, <3>2
    <2> QED
      BY <2>1, <2>2, <2>3, <2>4
  <1>8. c \in Buckets
    BY <1>1, <1>6, <1>7 DEF Buckets
  <1>9. Once(c)
    BY <1>1, <1>7 DEF Once
  <1>10. ASSUME NEW e
         PROVE  (\E j \in 1..(Len(b) - 1) : c[j] = e) /\ e # NULL
                  <=> (\E j \in 1..Len(b) : b[j] = e) /\ e # NULL /\ e # b[k]
    <2>1. ASSUME NEW j \in 1..(Len(b) - 1), c[j] = e, e # NULL
          PROVE  (\E i \in 1..Len(b) : b[i] = e) /\ e # b[k]
      <3>1. PICK i \in 1..Len(b) : i # k /\ b[i] = e
        BY <1>1, <1>7, <2>1
      <3> QED
        BY <1>1, <2>1, <3>1 DEF Once
    <2>2. ASSUME NEW j \in 1..Len(b), b[j] = e, e # b[k]
          PROVE  \E i \in 1..(Len(b) - 1) : c[i] = e
      <3>1. CASE j < k
        BY <1>1, <1>7, <2>2, <3>1
      <3>2. CASE j > k
        <4>1. j - 1 \in 1..(Len(b) - 1) /\ ~(j - 1 < k) /\ (j - 1) + 1 = j
          BY <1>1, <3>2
        <4> QED
          BY <1>7, <2>2, <4>1
      <3> QED
        BY <1>1, <2>2, <3>1, <3>2
    <2> QED
      BY <2>1, <2>2
  <1>11. Has(c) = Has(b) \ {b[k]}
    <2>1. \A e : e \in Has(c) <=> e # NULL /\ \E j \in 1..(Len(b) - 1) : c[j] = e
      BY <1>6, <1>7, HasFacts
    <2>2. \A e : e \in Has(b) <=> e # NULL /\ \E j \in 1..Len(b) : b[j] = e
      BY <1>1, HasFacts
    <2> QED
      BY <1>10, <2>1, <2>2
  <1> QED
    BY <1>2, <1>5, <1>8, <1>9, <1>11 DEF RemoveAt

\* Whatever a bucket holds, a datum can be put into it.
LEMMA BucketTypes ==
  ASSUME NEW b \in Buckets, NEW e \in Data
  PROVE  Insert2nd(b, e) \in Buckets /\ <<e>> \o Tail(b) \in Buckets
  <1>1. PICK h, t : h = Head(b) /\ t = Tail(b)
    OBVIOUS
  <1>2. h \in Data /\ t \in Seq(Data)
    BY <1>1, BucketFacts
  <1>3. PICK c, d : c = <<h, e>> /\ d = c \o t
    OBVIOUS
  <1>4. c \in Seq(Data) /\ Len(c) = 2
    BY <1>2, <1>3
  <1>5. d \in Seq(Data) /\ Len(d) = 2 + Len(t) /\ Len(t) \in Nat
    BY <1>2, <1>3, <1>4, CatSeq
  <1>6. d \in Buckets
    BY <1>5 DEF Buckets
  <1>7. d = Insert2nd(b, e)
    BY <1>1, <1>3, Zenon DEF Insert2nd
  <1>8. <<e>> \o Tail(b) \in Buckets
    BY <1>1, <1>2, InFront
  <1> QED
    BY <1>6, <1>7, <1>8

-----------------------------------------------------------------------------
(* Tables. *)

Counts == 0..SIZE_MAX
Arrays == UNION {[0..(n - 1) -> Buckets] : n \in Nat}
Tables == {t \in [bucket : Arrays, n_buckets : Nat \ {0}, default : BOOLEAN,
                  n_buckets_used : Counts, n_entries : Counts, free : Nat] :
             t.bucket \in [0..(t.n_buckets - 1) -> Buckets]}

\* No bucket holds an entry twice or an entry that hashes elsewhere.
WellPlaced(t) ==
  \A i \in DOMAIN t.bucket : /\ Once(t.bucket[i])
                             /\ \A e \in Has(t.bucket[i]) : Hash(e, t) = i

\* A table has a bucket for every datum.
LEMMA TableFacts ==
  ASSUME NEW t \in Tables
  PROVE  /\ t.n_buckets \in Nat \ {0} /\ DOMAIN t.bucket = 0..(t.n_buckets - 1)
         /\ t.bucket \in [0..(t.n_buckets - 1) -> Buckets]
         /\ t.default \in BOOLEAN /\ t.n_buckets_used \in Counts
         /\ t.n_entries \in Counts /\ t.free \in Nat
         /\ \A i \in DOMAIN t.bucket : t.bucket[i] \in Buckets
         /\ \A e \in Data : Hash(e, t) \in DOMAIN t.bucket
  <1>1. /\ t.n_buckets \in Nat \ {0} /\ t.bucket \in [0..(t.n_buckets - 1) -> Buckets]
        /\ t.default \in BOOLEAN /\ t.n_buckets_used \in Counts
        /\ t.n_entries \in Counts /\ t.free \in Nat
    BY DEF Tables
  <1>2. Data \subseteq Nat
    BY HashAssumption DEF Data, NULL, SIZE_MAX
  <1>3. \A e \in Nat, n \in Nat \ {0} : e % n \in 0..(n - 1)
    OBVIOUS
  <1> QED
    BY <1>1, <1>2, <1>3 DEF Hash

\* The table u is t but for one bucket and the counters.
Changed(t, u, i, c) ==
  u \in Tables /\ u.n_buckets = t.n_buckets /\ u.bucket = [t.bucket EXCEPT ![i] = c]

\* The ways in which a bucket and counters are changed together.
LEMMA TableChanged ==
  ASSUME NEW t \in Tables, NEW i \in DOMAIN t.bucket, NEW c \in Buckets
  PROVE  /\ Changed(t, [t EXCEPT !.bucket[i] = c], i, c)
         /\ \A f \in Nat :
              /\ Changed(t, [t EXCEPT !.bucket[i] = c, !.free = f], i, c)
              /\ \A n \in Counts :
                   /\ Changed(t, [t EXCEPT !.bucket[i] = c, !.n_buckets_used = n, !.free = f], i, c)
                   /\ Changed(t, [t EXCEPT !.bucket[i] = c, !.n_entries = n, !.free = f], i, c)
         /\ \A n \in Counts :
              /\ Changed(t, [t EXCEPT !.bucket[i] = c, !.n_buckets_used = n], i, c)
              /\ Changed(t, [t EXCEPT !.bucket[i] = c, !.n_entries = n], i, c)
              /\ \A m \in Counts :
                   Changed(t, [t EXCEPT !.bucket[i] = c, !.n_entries = m, !.n_buckets_used = n], i, c)
  <1> DEFINE R == [bucket : Arrays, n_buckets : Nat \ {0}, default : BOOLEAN,
                   n_buckets_used : Counts, n_entries : Counts, free : Nat]
  <1>1. PICK a : a = [t.bucket EXCEPT ![i] = c]
    OBVIOUS
  <1>2. t \in R /\ t.n_buckets \in Nat
    BY DEF Tables
  <1>3. a \in [0..(t.n_buckets - 1) -> Buckets]
    BY <1>1, TableFacts
  <1>4. a \in Arrays
    BY <1>2, <1>3 DEF Arrays
  <1>5. ASSUME NEW n \in Counts, NEW m \in Counts, NEW f \in Nat, NEW u,
               \/ u = [t EXCEPT !.bucket[i] = c]
               \/ u = [t EXCEPT !.bucket[i] = c, !.free = f]
               \/ u = [t EXCEPT !.bucket[i] = c, !.n_buckets_used = n]
               \/ u = [t EXCEPT !.bucket[i] = c, !.n_buckets_used = n, !.free = f]
               \/ u = [t EXCEPT !.bucket[i] = c, !.n_entries = n]
               \/ u = [t EXCEPT !.bucket[i] = c, !.n_entries = n, !.free = f]
               \/ u = [t EXCEPT !.bucket[i] = c, !.n_entries = m, !.n_buckets_used = n]
        PROVE  Changed(t, u, i, c)
    <2>1. u \in R /\ u.n_buckets = t.n_buckets /\ u.bucket = a
      BY <1>1, <1>2, <1>4, <1>5
    <2> QED
      BY <1>1, <1>3, <2>1 DEF Tables, Changed
  <1>6. 0 \in Counts /\ 0 \in Nat
    BY HashAssumption DEF Counts, SIZE_MAX
  <1> QED
    BY <1>5, <1>6, Zenon

\* The table u has the buckets of t.
Kept(t, u) ==
  /\ u \in Tables /\ u.n_buckets = t.n_buckets /\ u.bucket = t.bucket
  /\ Stored(u) = Stored(t) /\ (WellPlaced(t) => WellPlaced(u))

\* Counters are changed alone.
LEMMA CountersChanged ==
  ASSUME NEW t \in Tables
  PROVE  /\ \A f \in Nat : Kept(t, [t EXCEPT !.free = f])
         /\ \A d \in BOOLEAN : Kept(t, [t EXCEPT !.default = d])
         /\ \A n \in Counts :
              /\ Kept(t, [t EXCEPT !.n_buckets_used = n])
              /\ Kept(t, [t EXCEPT !.n_entries = n])
              /\ \A d \in BOOLEAN : Kept(t, [t EXCEPT !.n_entries = n, !.default = d])
  <1>1. ASSUME NEW n \in Counts, NEW f \in Nat, NEW d \in BOOLEAN, NEW u,
               \/ u = [t EXCEPT !.n_buckets_used = n] \/ u = [t EXCEPT !.n_entries = n]
               \/ u = [t EXCEPT !.free = f] \/ u = [t EXCEPT !.default = d]
               \/ u = [t EXCEPT !.n_entries = n, !.default = d]
        PROVE  Kept(t, u)
    <2>1. u \in Tables /\ u.n_buckets = t.n_buckets /\ u.bucket = t.bucket
      BY <1>1 DEF Tables
    <2>2. \A e : Hash(e, u) = Hash(e, t)
      BY <2>1 DEF Hash
    <2> QED
      BY <2>1, <2>2 DEF Kept, Stored, WellPlaced
  <1>2. 0 \in Counts /\ 0 \in Nat /\ FALSE \in BOOLEAN
    BY HashAssumption DEF Counts, SIZE_MAX
  <1> QED
    BY <1>1, <1>2, Zenon

\* A size_t stays one.
LEMMA SizeTCounts ==
  \A n \in Counts : n \in Int /\ SizeT(n + 1) \in Counts /\ SizeT(n - 1) \in Counts
  <1>1. SizeMod \in Nat /\ SizeMod > 0
    BY HashAssumption
  <1>2. \A n \in Int, d \in Nat : d > 0 => n % d \in 0..(d - 1)
    OBVIOUS
  <1>3. \A n \in Counts : n \in Int /\ n + 1 \in Int /\ n - 1 \in Int
    BY DEF Counts
  <1> QED
    BY <1>1, <1>2, <1>3 DEF SizeT, Counts, SIZE_MAX

\* Stored() by buckets.
LEMMA StoredFacts ==
  ASSUME NEW t \in Tables
  PROVE  /\ \A e : e \in Stored(t) <=> \E i \in DOMAIN t.bucket : e \in Has(t.bucket[i])
         /\ Stored(t) \subseteq Entries
         /\ WellPlaced(t) =>
              \A e : e \in Stored(t) <=> e \in Entries /\ e \in Has(t.bucket[Hash(e, t)])
  <1>1. \A e : e \in Stored(t) <=> \E i \in DOMAIN t.bucket : e \in Has(t.bucket[i])
    BY DEF Stored, Has
  <1>2. \A b \in Buckets : Has(b) \subseteq Entries
    <2> SUFFICES ASSUME NEW b \in Buckets, NEW e \in Has(b)
                 PROVE  e \in Entries
      OBVIOUS
    <2>1. b \in Seq(Data) /\ DOMAIN b = 1..Len(b)
      BY BucketFacts
    <2>2. PICK k \in 1..Len(b) : e # NULL /\ b[k] = e
      BY <2>1, HasFacts
    <2>3. b[k] \in Data
      BY <2>1
    <2> QED
      BY <2>2, <2>3 DEF Data
  <1>3. Stored(t) \subseteq Entries
    BY <1>1, <1>2, TableFacts
  <1>4. ASSUME WellPlaced(t), NEW e
        PROVE  e \in Stored(t) <=> e \in Entries /\ e \in Has(t.bucket[Hash(e, t)])
    <2>1. ASSUME e \in Stored(t)
          PROVE  e \in Entries /\ e \in Has(t.bucket[Hash(e, t)])
      BY <1>1, <1>3, <1>4, <2>1 DEF WellPlaced
    <2>2. e \in Entries => Hash(e, t) \in DOMAIN t.bucket
      BY TableFacts DEF Data
    <2> QED
      BY <1>1, <2>1, <2>2
  <1> QED
    BY <1>1, <1>3, <1>4

\* What a table stores after a change of one bucket.
LEMMA BucketChanged ==
  ASSUME NEW t \in Tables, NEW u \in Tables, WellPlaced(t), u.n_buckets = t.n_buckets,
         NEW i \in DOMAIN t.bucket, NEW b \in Buckets, Once(b),
         \A e \in Has(b) : Hash(e, t) = i, u.bucket = [t.bucket EXCEPT ![i] = b]
  PROVE  WellPlaced(u) /\ Stored(u) = (Stored(t) \ Has(t.bucket[i])) \cup Has(b)
  <1>1. /\ DOMAIN u.bucket = DOMAIN t.bucket /\ u.bucket[i] = b
        /\ \A j \in DOMAIN t.bucket : j # i => u.bucket[j] = t.bucket[j]
    BY TableFacts
  <1>2. \A e : Hash(e, u) = Hash(e, t)
    BY DEF Hash
  <1>3. WellPlaced(u)
    BY <1>1, <1>2 DEF WellPlaced
  <1>4. \A e : e \in Stored(t) <=> \E j \in DOMAIN t.bucket : e \in Has(t.bucket[j])
    BY StoredFacts
  <1>5. \A e : e \in Stored(u) <=> \E j \in DOMAIN t.bucket : e \in Has(u.bucket[j])
    BY <1>1, StoredFacts
  <1>6. \A j \in DOMAIN t.bucket : j # i => Has(t.bucket[j]) \cap Has(t.bucket[i]) = {}
    BY DEF WellPlaced
  <1>7. \A e : e \in Stored(u) <=> e \in Has(b) \/ e \in Stored(t) \ Has(t.bucket[i])
    BY <1>1, <1>4, <1>5, <1>6
  <1> QED
    BY <1>3, <1>7

\* A datum has been put into its bucket, in one of the two ways.
Gains(t, u, e) ==
  LET b == t.bucket[Hash(e, t)]
  IN /\ u.n_buckets = t.n_buckets
     /\ \/ u.bucket = [t.bucket EXCEPT ![Hash(e, t)] = Insert2nd(b, e)]
        \/ Head(b) = NULL /\ u.bucket = [t.bucket EXCEPT ![Hash(e, t)] = <<e>> \o Tail(b)]

\* A table that gains an entry it did not store has it, once and in its place.
LEMMA TableGains ==
  ASSUME NEW t \in Tables, NEW u \in Tables, NEW e \in Data, Gains(t, u, e),
         WellPlaced(t), e \notin Stored(t)
  PROVE  WellPlaced(u) /\ Stored(u) = Stored(t) \cup One(e)
  <1> DEFINE i == Hash(e, t)
  <1>1. i \in DOMAIN t.bucket /\ t.bucket[i] \in Buckets /\ Once(t.bucket[i])
    BY TableFacts DEF WellPlaced
  <1>2. e \notin Has(t.bucket[i]) /\ Has(t.bucket[i]) \subseteq Stored(t)
    BY <1>1, StoredFacts
  <1>3. PICK b : /\ b \in Buckets /\ Once(b) /\ Has(b) = Has(t.bucket[i]) \cup One(e)
                 /\ u.bucket = [t.bucket EXCEPT ![i] = b]
    BY <1>1, <1>2, BucketGrows DEF Gains
  <1>4. \A d \in Has(b) : Hash(d, t) = i
    BY <1>1, <1>3 DEF WellPlaced, One
  <1>5. WellPlaced(u) /\ Stored(u) = (Stored(t) \ Has(t.bucket[i])) \cup Has(b)
    <2>1. u.n_buckets = t.n_buckets
      BY DEF Gains
    <2> HIDE DEF i
    <2> QED
      BY <1>1, <1>3, <1>4, <2>1, BucketChanged
  <1> QED
    BY <1>2, <1>3, <1>5

-----------------------------------------------------------------------------
(* Moving entries. *)

Transfers == [dst : Tables, src : Tables, mem : Nat, ok : BOOLEAN]

\* Linking an overflow entry to its new bucket changes the new table only.
LEMMA OverflowMoves ==
  ASSUME NEW x \in Transfers, NEW e \in Data
  PROVE  LET y == MoveOverflow(x, e)
         IN /\ y \in Transfers /\ y.src = x.src /\ y.mem = x.mem /\ y.ok = x.ok
            /\ Gains(x.dst, y.dst, e)
  <1> DEFINE t == x.dst
             i == Hash(e, t)
             b == t.bucket[i]
             y == MoveOverflow(x, e)
  <1>1. t \in Tables /\ x.src \in Tables /\ x.mem \in Nat /\ x.ok \in BOOLEAN
    BY DEF Transfers
  <1>2. /\ i \in DOMAIN t.bucket /\ b \in Buckets /\ t.n_buckets_used \in Counts
        /\ t.free \in Nat /\ t.bucket \in [0..(t.n_buckets - 1) -> Buckets]
        /\ t.n_entries \in Counts /\ t.default \in BOOLEAN
    BY <1>1, TableFacts
  <1>3. Insert2nd(b, e) \in Buckets /\ <<e>> \o Tail(b) \in Buckets
    BY <1>2, BucketTypes
  <1>4. SizeT(t.n_buckets_used + 1) \in Counts /\ t.free + 1 \in Nat
    BY <1>2, SizeTCounts
  <1>5. CASE Head(b) # NULL
    <2>1. PICK u : u = [t EXCEPT !.bucket[i] = Insert2nd(b, e)]
      OBVIOUS
    <2>2. y = [x EXCEPT !.dst.bucket[i] = Insert2nd(@, e)]
      BY <1>5 DEF MoveOverflow
    <2>3. Changed(t, u, i, Insert2nd(b, e))
      <3> HIDE DEF i, b, t
      <3> QED
        BY <1>1, <1>2, <1>3, <2>1, TableChanged, Zenon
    <2>4. y = [x EXCEPT !.dst = u]
      BY <2>1, <2>2 DEF Transfers
    <2>5. y \in Transfers /\ y.src = x.src /\ y.mem = x.mem /\ y.ok = x.ok /\ y.dst = u
      BY <2>3, <2>4 DEF Transfers, Changed
    <2> QED
      BY <2>3, <2>5 DEF Gains, Changed
  <1>6. CASE Head(b) = NULL
    <2>1. PICK u : u = [t EXCEPT !.bucket[i] = <<e>> \o Tail(b),
                                 !.n_buckets_used = SizeT(@ + 1), !.free = @ + 1]
      OBVIOUS
    <2>2. y = [x EXCEPT !.dst.bucket[i] = <<e>> \o Tail(@),
                        !.dst.n_buckets_used = SizeT(@ + 1), !.dst.free = @ + 1]
      BY <1>6 DEF MoveOverflow
    <2>3. Changed(t, u, i, <<e>> \o Tail(b))
      <3>1. PICK c : c = <<e>> \o Tail(b)
        OBVIOUS
      <3> HIDE DEF i, b, t
      <3> QED
        BY <1>1, <1>2, <1>3, <1>4, <2>1, <3>1, TableChanged, Zenon
    <2>4. y = [x EXCEPT !.dst = u]
      BY <2>1, <2>2 DEF Transfers
    <2>5. y \in Transfers /\ y.src = x.src /\ y.mem = x.mem /\ y.ok = x.ok /\ y.dst = u
      BY <2>3, <2>4 DEF Transfers, Changed
    <2> QED
      BY <1>6, <2>3, <2>5 DEF Gains, Changed
  <1> QED
    BY <1>5, <1>6

\* The loop over the overflow entries makes a round for each of them.
LEMMA ChainRun ==
  ASSUME NEW x \in Transfers, NEW chain \in Seq(Data)
  PROVE  \E g \in [0..Len(chain) -> Transfers] :
           /\ g[0] = x /\ \A k \in 1..Len(chain) : g[k] = MoveOverflow(g[k - 1], chain[k])
           /\ MoveChain(x, chain) = g[Len(chain)]
  <1> DEFINE F == [k \in 1..Len(chain) |-> [d \in Transfers |-> MoveOverflow(d, chain[k])]]
             Is(g) == g = [k \in 0..Len(chain) |-> IF k = 0 THEN x
                                                   ELSE MoveOverflow(g[k - 1], chain[k])]
             moved == CHOOSE g : Is(g)
  <1>0. Len(chain) \in Nat /\ \A k \in 1..Len(chain) : chain[k] \in Data
    OBVIOUS
  <1>1. \A k \in 1..Len(chain), d \in Transfers : F[k][d] = MoveOverflow(d, chain[k])
    OBVIOUS
  <1>2. PICK g : IsRun(g, Len(chain), Transfers, x, F)
    <2>1. \A d \in Transfers, e \in Data : MoveOverflow(d, e) \in Transfers
      BY OverflowMoves
    <2>2. F \in [1..Len(chain) -> [Transfers -> Transfers]]
      BY <1>0, <2>1
    <2> HIDE DEF F
    <2> QED
      BY <1>0, <2>2, RunExists
  <1>3. \A k \in 1..Len(chain) : g[k] = MoveOverflow(g[k - 1], chain[k])
    <2>1. \A k \in 1..Len(chain) : g[k - 1] \in Transfers
      BY <1>0, <1>2 DEF IsRun
    <2> HIDE DEF F
    <2> QED
      BY <1>1, <1>2, <2>1 DEF IsRun
  <1>4. Is(g)
    BY <1>0, <1>2, <1>3 DEF IsRun
  <1>5. Is(moved)
    BY <1>4
  <1>6. MoveChain(x, chain) = moved[Len(chain)]
    BY DEF MoveChain
  <1> HIDE DEF moved
  <1>7. moved[0] = x /\ \A k \in 1..Len(chain) : moved[k] = MoveOverflow(moved[k - 1], chain[k])
    BY <1>0, <1>5
  <1>8. moved[Len(chain)] = g[Len(chain)]
    <2>1. g[0] = moved[0] /\ \A k \in 1..Len(chain) : moved[k - 1] = g[k - 1] => moved[k] = g[k]
      BY <1>2, <1>3, <1>7 DEF IsRun
    <2> HIDE DEF F
    <2> QED
      BY <1>0, <2>1, RunsAgree
  <1> QED
    BY <1>2, <1>3, <1>6, <1>8 DEF IsRun

\* The new table gains the entries of the chain; the rest is as it was.
LEMMA ChainMoves ==
  ASSUME NEW x \in Transfers, NEW chain \in Seq(Data)
  PROVE  LET y == MoveChain(x, chain)
         IN /\ y \in Transfers /\ y.src = x.src /\ y.mem = x.mem /\ y.ok = x.ok
            /\ y.dst.n_buckets = x.dst.n_buckets
            /\ WellPlaced(x.dst) /\ Once(chain) /\ Has(chain) \cap Stored(x.dst) = {} =>
                 WellPlaced(y.dst) /\ Stored(y.dst) = Stored(x.dst) \cup Has(chain)
  <1>1. PICK g \in [0..Len(chain) -> Transfers] :
          /\ g[0] = x /\ \A k \in 1..Len(chain) : g[k] = MoveOverflow(g[k - 1], chain[k])
          /\ MoveChain(x, chain) = g[Len(chain)]
    BY ChainRun
  <1>2. /\ Len(chain) \in Nat /\ DOMAIN chain = 1..Len(chain)
        /\ \A k \in 1..Len(chain) : chain[k] \in Data /\ k - 1 \in 0..Len(chain)
    OBVIOUS
  <1> DEFINE First(k) == {chain[j] : j \in 1..k} \ {NULL}
             Fresh == WellPlaced(x.dst) /\ Once(chain) /\ Has(chain) \cap Stored(x.dst) = {}
             Good(k) == /\ g[k].src = x.src /\ g[k].mem = x.mem /\ g[k].ok = x.ok
                        /\ g[k].dst.n_buckets = x.dst.n_buckets
                        /\ Fresh => /\ WellPlaced(g[k].dst)
                                    /\ Stored(g[k].dst) = Stored(x.dst) \cup First(k)
             S == {k \in 0..Len(chain) : Good(k)}
  <1>3. Good(0)
    BY <1>1
  <1>4. ASSUME NEW k \in 1..Len(chain), Good(k - 1)
        PROVE  Good(k)
    <2> DEFINE e == chain[k]
               y == g[k - 1]
               z == g[k]
    <2>1. y \in Transfers /\ e \in Data /\ z = MoveOverflow(y, e)
      BY <1>1, <1>2
    <2>2. /\ z \in Transfers /\ z.src = y.src /\ z.mem = y.mem /\ z.ok = y.ok
          /\ Gains(y.dst, z.dst, e)
      <3> HIDE DEF y, z, e
      <3> QED
        BY <2>1, OverflowMoves
    <2>3. ASSUME Fresh
          PROVE  WellPlaced(z.dst) /\ Stored(z.dst) = Stored(x.dst) \cup First(k)
      <3>1. e \notin Stored(y.dst)
        <4>1. \A d : d \in Has(chain) <=> d # NULL /\ \E j \in 1..Len(chain) : chain[j] = d
          BY HasFacts
        <4>2. e # NULL => e \in Has(chain) /\ e \notin Stored(x.dst)
          BY <2>3, <4>1
        <4>3. e \notin First(k - 1)
          <5>1. ASSUME NEW j \in 1..(k - 1), chain[j] = e, e # NULL
                PROVE  FALSE
            <6>1. j \in DOMAIN chain /\ k \in DOMAIN chain /\ j # k
              BY <1>2
            <6> QED
              BY <2>3, <5>1, <6>1 DEF Once
          <5> QED
            BY <5>1
        <4>4. NULL \notin Stored(y.dst)
          BY DEF Stored
        <4> QED
          BY <1>4, <2>3, <4>2, <4>3, <4>4
      <3>2. WellPlaced(z.dst) /\ Stored(z.dst) = Stored(y.dst) \cup One(e)
        <4>1. y.dst \in Tables /\ z.dst \in Tables /\ WellPlaced(y.dst)
          BY <1>4, <2>1, <2>2, <2>3 DEF Transfers
        <4> HIDE DEF y, z, e
        <4> QED
          BY <2>1, <2>2, <3>1, <4>1, TableGains
      <3>3. First(k) = First(k - 1) \cup One(e)
        BY <1>2 DEF One
      <3> QED
        BY <1>4, <2>3, <3>2, <3>3
    <2>4. z.dst.n_buckets = y.dst.n_buckets
      BY <2>2 DEF Gains
    <2> HIDE DEF Fresh, First
    <2> QED
      BY <1>4, <2>2, <2>3, <2>4
  <1>5. \A k \in 0..Len(chain) : k \in S
    <2>1. 0 \in S /\ \A k \in 1..Len(chain) : k - 1 \in S => k \in S
      <3> HIDE DEF Good
      <3> QED
        BY <1>2, <1>3, <1>4
    <2> HIDE DEF S
    <2> QED
      BY <1>2, <2>1, Induction
  <1>6. Good(Len(chain))
    <2>1. Len(chain) \in S
      <3> HIDE DEF S
      <3> QED
        BY <1>2, <1>5
    <2> HIDE DEF Good
    <2> QED
      BY <2>1
  <1>7. First(Len(chain)) = Has(chain)
    BY <1>2, HasFacts
  <1>8. g[Len(chain)] \in Transfers
    BY <1>1, <1>2
  <1> QED
    BY <1>1, <1>6, <1>7, <1>8

\* Two tables between which entries move: each is well placed, no entry is in
\* both, and together they store what they did before.
Between(x, m, n, all) ==
  /\ x \in Transfers /\ x.dst.n_buckets = m /\ x.src.n_buckets = n
  /\ WellPlaced(x.dst) /\ WellPlaced(x.src)
  /\ Stored(x.dst) \cap Stored(x.src) = {} /\ Stored(x.dst) \cup Stored(x.src) = all

\* The head of a bucket moves, or nothing does when there is no memory for it.
LEMMA HeadMoves ==
  ASSUME NEW x, NEW m, NEW n, NEW all, Between(x, m, n, all), x.ok,
         NEW i \in DOMAIN x.src.bucket, Tail(x.src.bucket[i]) = <<>>
  PROVE  LET y == MoveHead(x, i)
         IN /\ Between(y, m, n, all)
            /\ \A j \in DOMAIN x.src.bucket : j # i => y.src.bucket[j] = x.src.bucket[j]
            /\ y.ok => y.src.bucket[i] = <<NULL>>
  <1> DEFINE s == x.src
             t == x.dst
             e == Head(s.bucket[i])
             k == Hash(e, t)
             b == t.bucket[k]
             y == MoveHead(x, i)
             v == [s EXCEPT !.bucket[i] = <<NULL>>, !.n_buckets_used = SizeT(@ - 1)]
  <1>1. /\ x \in Transfers /\ s \in Tables /\ t \in Tables /\ x.mem \in Nat
        /\ WellPlaced(s) /\ WellPlaced(t) /\ t.n_buckets = m /\ s.n_buckets = n
        /\ Stored(t) \cap Stored(s) = {} /\ Stored(t) \cup Stored(s) = all
    BY DEF Between, Transfers
  <1>2. /\ s.bucket[i] \in Buckets /\ e \in Data /\ Has(s.bucket[i]) = One(e)
    <2>1. s.bucket[i] \in Buckets
      BY <1>1, TableFacts
    <2>2. Has(<<>>) = {}
      BY DEF Has, Range
    <2>3. PICK a : a = s.bucket[i]
      OBVIOUS
    <2>4. Has(a) = One(Head(a)) \cup Has(Tail(a)) /\ Head(a) \in Data
      BY <2>1, <2>3, Rest, BucketFacts
    <2>5. Tail(a) = <<>>
      BY <2>3
    <2>6. Has(a) = One(Head(a))
      BY <2>2, <2>4, <2>5
    <2> QED
      BY <2>1, <2>3, <2>4, <2>6
  <1>3. /\ k \in DOMAIN t.bucket /\ b \in Buckets /\ t.free \in Nat
        /\ t.n_buckets_used \in Counts /\ s.n_buckets_used \in Counts
    BY <1>1, <1>2, TableFacts
  <1>4. /\ Insert2nd(b, e) \in Buckets /\ <<e>> \o Tail(b) \in Buckets
        /\ SizeT(t.n_buckets_used + 1) \in Counts /\ SizeT(s.n_buckets_used - 1) \in Counts
    BY <1>2, <1>3, BucketTypes, SizeTCounts
  <1>5. <<NULL>> \in Buckets /\ Once(<<NULL>>) /\ Has(<<NULL>>) = {}
    BY Single DEF Data, One
  <1>6. Changed(s, v, i, <<NULL>>)
    <2>1. PICK c : c = <<NULL>>
      OBVIOUS
    <2>2. PICK d : d = SizeT(s.n_buckets_used - 1)
      OBVIOUS
    <2>3. Changed(s, [s EXCEPT !.bucket[i] = c, !.n_buckets_used = d], i, c)
      <3>1. c \in Buckets /\ d \in Counts
        BY <1>4, <1>5, <2>1, <2>2, Zenon
      <3> HIDE DEF s
      <3> QED
        BY <1>1, <3>1, TableChanged, Zenon DEF s
    <2> QED
      BY <2>1, <2>2, <2>3
  <1>7. WellPlaced(v) /\ Stored(v) = Stored(s) \ One(e) /\ v \in Tables /\ v.n_buckets = n
    <2>1. Stored(v) = (Stored(s) \ Has(s.bucket[i])) \cup Has(<<NULL>>) /\ WellPlaced(v)
      <3>1. PICK c : c = <<NULL>>
        OBVIOUS
      <3>2. v \in Tables /\ v.n_buckets = s.n_buckets /\ v.bucket = [s.bucket EXCEPT ![i] = c]
        BY <1>6, <3>1 DEF Changed
      <3>3. c \in Buckets /\ Once(c) /\ \A d \in Has(c) : Hash(d, s) = i
        BY <1>5, <3>1
      <3> HIDE DEF v, s
      <3>4. i \in DOMAIN s.bucket
        BY DEF s
      <3>5. Stored(v) = (Stored(s) \ Has(s.bucket[i])) \cup Has(c) /\ WellPlaced(v)
        BY <1>1, <3>2, <3>3, <3>4, BucketChanged
      <3> QED
        BY <3>1, <3>5
    <2> QED
      BY <1>1, <1>2, <1>5, <1>6, <2>1 DEF Changed
  <1>8. v.bucket[i] = <<NULL>> /\ \A j \in DOMAIN s.bucket : j # i => v.bucket[j] = s.bucket[j]
    BY <1>1, <1>6, TableFacts DEF Changed
  \* The new table gains the head.
  <1>9. ASSUME NEW u, u \in Tables, Gains(t, u, e), y \in Transfers, y.dst = u, y.src = v
        PROVE  Between(y, m, n, all)
    <2>1. e \notin Stored(t)
      <3>1. One(e) \subseteq Stored(s)
        BY <1>1, <1>2, StoredFacts
      <3>2. NULL \notin Stored(t)
        BY DEF Stored
      <3> QED
        BY <1>1, <3>1, <3>2 DEF One
    <2>2. WellPlaced(u) /\ Stored(u) = Stored(t) \cup One(e) /\ u.n_buckets = m
      <3>1. u.n_buckets = t.n_buckets
        BY <1>9 DEF Gains
      <3> HIDE DEF t, e
      <3> QED
        BY <1>1, <1>2, <1>9, <2>1, <3>1, TableGains
    <2>3. One(e) \subseteq Stored(s)
      BY <1>1, <1>2, StoredFacts
    <2> HIDE DEF y, v, s, t, e
    <2> QED
      BY <1>1, <1>7, <1>9, <2>2, <2>3 DEF Between
  <1>10. CASE Head(b) = NULL
    <2>1. PICK u : u = [t EXCEPT !.bucket[k] = <<e>> \o Tail(b),
                                 !.n_buckets_used = SizeT(@ + 1)]
      OBVIOUS
    <2>2. PICK c : c = <<e>> \o Tail(b)
      OBVIOUS
    <2>3. Changed(t, u, k, c)
      <3> HIDE DEF k, b, t, e
      <3> QED
        BY <1>1, <1>3, <1>4, <2>1, <2>2, TableChanged, Zenon
    <2>4. y = [x EXCEPT !.src = v, !.dst = u]
      BY <1>1, <1>10, <2>1 DEF MoveHead, Transfers
    <2>5. y \in Transfers /\ y.dst = u /\ y.src = v
      BY <1>1, <1>7, <2>3, <2>4 DEF Transfers, Changed
    <2>6. Gains(t, u, e)
      BY <1>10, <2>2, <2>3 DEF Gains, Changed
    <2>7. u \in Tables
      BY <2>3 DEF Changed
    <2> QED
      BY <1>8, <1>9, <2>5, <2>6, <2>7
  <1>11. CASE Head(b) # NULL /\ t.free > 0
    <2>1. PICK u : u = [t EXCEPT !.bucket[k] = Insert2nd(b, e), !.free = @ - 1]
      OBVIOUS
    <2>2. t.free - 1 \in Nat
      BY <1>3, <1>11
    <2>3. Changed(t, u, k, Insert2nd(b, e))
      <3> HIDE DEF k, b, t, e
      <3> QED
        BY <1>1, <1>3, <1>4, <2>1, <2>2, TableChanged, Zenon
    <2>4. y = [x EXCEPT !.src = v, !.dst = u]
      BY <1>1, <1>11, <2>1 DEF MoveHead, Transfers
    <2>5. y \in Transfers /\ y.dst = u /\ y.src = v
      BY <1>1, <1>7, <2>3, <2>4 DEF Transfers, Changed
    <2>6. Gains(t, u, e) /\ u \in Tables
      BY <2>3 DEF Gains, Changed
    <2> QED
      BY <1>8, <1>9, <2>5, <2>6
  <1>12. CASE Head(b) # NULL /\ ~(t.free > 0) /\ x.mem > 0
    <2>1. PICK u : u = [t EXCEPT !.bucket[k] = Insert2nd(b, e)]
      OBVIOUS
    <2>2. x.mem - 1 \in Nat
      BY <1>1, <1>12
    <2>3. Changed(t, u, k, Insert2nd(b, e))
      <3> HIDE DEF k, b, t, e
      <3> QED
        BY <1>1, <1>3, <1>4, <2>1, TableChanged, Zenon
    <2>4. y = [x EXCEPT !.src = v, !.dst = u, !.mem = @ - 1]
      BY <1>1, <1>12, <2>1 DEF MoveHead, Transfers
    <2>5. y \in Transfers /\ y.dst = u /\ y.src = v
      BY <1>1, <1>7, <2>2, <2>3, <2>4 DEF Transfers, Changed
    <2>6. Gains(t, u, e) /\ u \in Tables
      BY <2>3 DEF Gains, Changed
    <2> QED
      BY <1>8, <1>9, <2>5, <2>6
  <1>13. CASE Head(b) # NULL /\ ~(t.free > 0) /\ ~(x.mem > 0)
    <2>1. y = [x EXCEPT !.ok = FALSE]
      BY <1>13 DEF MoveHead
    <2>2. y \in Transfers /\ y.src = x.src /\ y.dst = x.dst /\ ~y.ok
      BY <1>1, <2>1 DEF Transfers
    <2> QED
      BY <1>1, <2>2 DEF Between
  <1> QED
    BY <1>10, <1>11, <1>12, <1>13

\* The overflow entries of a bucket move, then its head, unless only a safe
\* pass is made.
LEMMA BucketMoves ==
  ASSUME NEW x, NEW m, NEW n, NEW all, Between(x, m, n, all), NEW safe \in BOOLEAN,
         NEW i \in DOMAIN x.src.bucket
  PROVE  LET y == MoveBucket(x, i, safe)
         IN /\ Between(y, m, n, all)
            /\ \A j \in DOMAIN x.src.bucket : j # i => y.src.bucket[j] = x.src.bucket[j]
            /\ safe /\ x.ok => y.ok
            /\ y.ok => x.ok
            /\ ~safe /\ y.ok => y.src.bucket[i] = <<NULL>>
  <1> DEFINE s == x.src
             b == s.bucket[i]
             y == MoveChain(x, Tail(b))
             v == [s EXCEPT !.bucket[i] = <<Head(b)>>]
             z == [y EXCEPT !.src.bucket[i] = <<Head(@)>>]
  <1>1. CASE ~x.ok
    BY <1>1 DEF MoveBucket
  <1>2. CASE x.ok
    <2>1. /\ x \in Transfers /\ s \in Tables /\ x.dst \in Tables
          /\ WellPlaced(s) /\ WellPlaced(x.dst) /\ x.dst.n_buckets = m /\ s.n_buckets = n
          /\ Stored(x.dst) \cap Stored(s) = {} /\ Stored(x.dst) \cup Stored(s) = all
      BY DEF Between, Transfers
    <2>2. b \in Buckets /\ Once(b)
      BY <2>1, TableFacts DEF WellPlaced
    <2>3. PICK h, c : h = Head(b) /\ c = Tail(b)
      OBVIOUS
    <2>4. /\ h \in Data /\ c \in Seq(Data) /\ Once(c) /\ Has(b) = One(h) \cup Has(c)
          /\ h \notin Has(c)
      <3> HIDE DEF b
      <3> QED
        BY <2>2, <2>3, Rest, BucketFacts
    <2>5. Has(b) \subseteq Stored(s)
      BY <2>1, StoredFacts
    <2>6. /\ y \in Transfers /\ y.src = s /\ y.ok /\ y.dst.n_buckets = m
          /\ WellPlaced(y.dst) /\ Stored(y.dst) = Stored(x.dst) \cup Has(c)
      <3>1. Has(c) \cap Stored(x.dst) = {}
        BY <2>1, <2>4, <2>5
      <3>2. PICK w : w = MoveChain(x, c)
        OBVIOUS
      <3>3. /\ w \in Transfers /\ w.src = x.src /\ w.ok = x.ok /\ w.dst.n_buckets = x.dst.n_buckets
            /\ WellPlaced(w.dst) /\ Stored(w.dst) = Stored(x.dst) \cup Has(c)
        BY <2>1, <2>4, <3>1, <3>2, ChainMoves
      <3>4. w = y
        BY <2>3, <3>2, Zenon
      <3> QED
        BY <1>2, <2>1, <3>3, <3>4
    <2>7. v \in Tables /\ v.n_buckets = n /\ v.bucket = [s.bucket EXCEPT ![i] = <<h>>]
      <3>1. PICK d : d = <<h>>
        OBVIOUS
      <3>2. d \in Buckets
        BY <2>4, <3>1, Single
      <3>3. Changed(s, v, i, d)
        <4>1. v = [s EXCEPT !.bucket[i] = d]
          BY <2>3, <3>1
        <4> HIDE DEF s, v
        <4> QED
          BY <2>1, <3>2, <4>1, TableChanged, Zenon DEF s
      <3> QED
        BY <2>1, <3>1, <3>3 DEF Changed
    <2>8. WellPlaced(v) /\ Stored(v) = (Stored(s) \ Has(b)) \cup One(h)
      <3>1. PICK d : d = <<h>>
        OBVIOUS
      <3>2. d \in Buckets /\ Once(d) /\ Has(d) = One(h)
        BY <2>4, <3>1, Single
      <3>3. \A e \in Has(d) : Hash(e, s) = i
        BY <2>1, <2>4, <3>2 DEF WellPlaced
      <3>4. v.bucket = [s.bucket EXCEPT ![i] = d] /\ v.n_buckets = s.n_buckets
        BY <2>1, <2>7, <3>1
      <3>5. WellPlaced(v) /\ Stored(v) = (Stored(s) \ Has(s.bucket[i])) \cup Has(d)
        <4>1. i \in DOMAIN s.bucket
          OBVIOUS
        <4> HIDE DEF s, v
        <4> QED
          BY <2>1, <2>7, <3>2, <3>3, <3>4, <4>1, BucketChanged
      <3> QED
        BY <3>2, <3>5
    <2>9. z \in Transfers /\ z.dst = y.dst /\ z.src = v /\ z.ok
      <3>1. z = [y EXCEPT !.src = v]
        BY <2>6 DEF Transfers
      <3> HIDE DEF z, v, y
      <3> QED
        BY <2>6, <2>7, <3>1 DEF Transfers
    <2>10. Between(z, m, n, all)
      <3>1. Stored(v) = Stored(s) \ Has(c)
        BY <2>4, <2>5, <2>8 DEF One
      <3>2. Has(c) \subseteq Stored(s)
        BY <2>4, <2>5
      <3> HIDE DEF z, v, y, s, b
      <3> QED
        BY <2>1, <2>6, <2>7, <2>8, <2>9, <3>1, <3>2 DEF Between
    <2>11. /\ DOMAIN z.src.bucket = DOMAIN s.bucket /\ z.src.bucket[i] = <<h>>
           /\ \A j \in DOMAIN s.bucket : j # i => z.src.bucket[j] = s.bucket[j]
      <3>1. z.src.bucket = [s.bucket EXCEPT ![i] = <<h>>]
        BY <2>7, <2>9
      <3> HIDE DEF z
      <3> QED
        BY <2>1, <3>1, TableFacts
    <2>12. MoveBucket(x, i, safe) = IF safe THEN z ELSE MoveHead(z, i)
      BY <1>2 DEF MoveBucket
    <2>13. CASE safe
      <3> HIDE DEF z, s
      <3> QED
        BY <1>2, <2>9, <2>10, <2>11, <2>12, <2>13 DEF s
    <2>14. CASE ~safe
      <3>1. Tail(z.src.bucket[i]) = <<>> /\ i \in DOMAIN z.src.bucket
        <4>1. Tail(<<h>>) = <<>>
          BY <2>4, Single
        <4> HIDE DEF z
        <4> QED
          BY <2>11, <4>1
      <3>2. /\ Between(MoveHead(z, i), m, n, all)
            /\ \A j \in DOMAIN z.src.bucket : j # i =>
                 MoveHead(z, i).src.bucket[j] = z.src.bucket[j]
            /\ MoveHead(z, i).ok => MoveHead(z, i).src.bucket[i] = <<NULL>>
        <4> HIDE DEF z
        <4> QED
          BY <2>9, <2>10, <3>1, HeadMoves
      <3> HIDE DEF z, s
      <3> QED
        BY <1>2, <2>11, <2>12, <2>14, <3>2 DEF s
    <2> QED
      BY <2>13, <2>14
  <1> QED
    BY <1>1, <1>2

\* The transfer before its first round.
Start(dst, src, mem) == [dst |-> dst, src |-> src, mem |-> mem, ok |-> TRUE]

\* The transfer y is made in n rounds, one for each bucket.
Rounds(g, y, m, n, all, safe) ==
  /\ \A k \in 0..n : Between(g[k], m, n, all)
  /\ g[0].ok /\ \A k \in 1..n : g[k] = MoveBucket(g[k - 1], k - 1, safe)
  /\ y = g[n]

\* The loop of transfer_entries() over the buckets.
LEMMA TransferRun ==
  ASSUME NEW m, NEW all, NEW dst, NEW src \in Tables, NEW safe \in BOOLEAN, NEW mem,
         Between(Start(dst, src, mem), m, src.n_buckets, all)
  PROVE  \E g : Rounds(g, transfer_entries(dst, src, safe, mem), m, src.n_buckets, all, safe)
  <1> DEFINE n == src.n_buckets
             D == {x \in Transfers : Between(x, m, n, all)}
             F == [k \in 1..n |-> [d \in D |-> MoveBucket(d, k - 1, safe)]]
             Is(g) == g = [k \in 0..n |-> IF k = 0
                                          THEN [dst |-> dst, src |-> src, mem |-> mem, ok |-> TRUE]
                                          ELSE MoveBucket(g[k - 1], k - 1, safe)]
             run == CHOOSE g : Is(g)
  <1>0. n \in Nat
    BY TableFacts
  <1>s. PICK start : start = Start(dst, src, mem)
    OBVIOUS
  <1>t. Between(start, m, n, all) /\ start.ok
    BY <1>s DEF Start
  <1>1. \A k \in 1..n, d \in D : F[k][d] = MoveBucket(d, k - 1, safe)
    OBVIOUS
  <1>2. PICK g : IsRun(g, n, D, start, F)
    <2>1. ASSUME NEW d \in D, NEW k \in 1..n
          PROVE  MoveBucket(d, k - 1, safe) \in D
      <3>1. Between(d, m, n, all) /\ d.src \in Tables /\ d.src.n_buckets = n
        BY DEF Between, Transfers
      <3>2. k - 1 \in DOMAIN d.src.bucket
        BY <1>0, <3>1, TableFacts
      <3>3. Between(MoveBucket(d, k - 1, safe), m, n, all)
        <4> HIDE DEF n
        <4> QED
          BY <3>1, <3>2, BucketMoves
      <3> QED
        BY <3>3 DEF Between
    <2>2. F \in [1..n -> [D -> D]]
      BY <2>1
    <2>3. start \in D
      BY <1>t DEF Between
    <2> HIDE DEF F, D, n
    <2> QED
      BY <1>0, <2>2, <2>3, RunExists
  <1>3. \A k \in 1..n : g[k] = MoveBucket(g[k - 1], k - 1, safe)
    <2>1. \A k \in 1..n : g[k - 1] \in D
      <3> HIDE DEF D, F, n
      <3>1. g \in [0..n -> D]
        BY <1>2 DEF IsRun
      <3> QED
        BY <1>0, <3>1, RunRange
    <2> HIDE DEF F, D
    <2> QED
      BY <1>1, <1>2, <2>1 DEF IsRun
  <1>4. Is(g)
    <2> HIDE DEF F, D
    <2> QED
      BY <1>0, <1>s, <1>2, <1>3 DEF IsRun, Start
  <1>5. Is(run)
    BY <1>4
  <1>6. transfer_entries(dst, src, safe, mem) = run[n]
    BY DEF transfer_entries
  <1> HIDE DEF run
  <1>7. run[0] = start /\ \A k \in 1..n : run[k] = MoveBucket(run[k - 1], k - 1, safe)
    <2>1. run = [k \in 0..n |-> IF k = 0 THEN start ELSE MoveBucket(run[k - 1], k - 1, safe)]
      BY <1>s, <1>5, Zenon DEF Start
    <2>2. 0 \in 0..n /\ \A k \in 1..n : k \in 0..n /\ k # 0
      BY <1>0
    <2> HIDE DEF n
    <2> QED
      BY <2>1, <2>2, Zenon
  <1>8. run[n] = g[n]
    <2>1. g[0] = run[0] /\ \A k \in 1..n : run[k - 1] = g[k - 1] => run[k] = g[k]
      BY <1>2, <1>3, <1>7 DEF IsRun
    <2> HIDE DEF F, D, n
    <2> QED
      BY <1>0, <2>1, RunsAgree
  <1>9. \A k \in 0..n : Between(g[k], m, n, all)
    <2>1. \A k \in 0..n : g[k] \in D
      BY <1>2 DEF IsRun
    <2> QED
      BY <2>1
  <1> QED
    <2>1. g[0].ok
      BY <1>t, <1>2 DEF IsRun
    <2>2. Rounds(g, transfer_entries(dst, src, safe, mem), m, n, all, safe)
      <3>1. transfer_entries(dst, src, safe, mem) = g[n]
        BY <1>6, <1>8
      <3> HIDE DEF n
      <3> QED
        BY <1>3, <1>9, <2>1, <3>1 DEF Rounds
    <2> QED
      BY <2>2

\* What transfer_entries() leaves: no entry is lost, and a pass that is not safe
\* and has not run out of memory has emptied the old table.
Passed(y, m, n, all, safe) ==
  /\ Between(y, m, n, all)
  /\ safe => y.ok
  /\ ~safe /\ y.ok => Stored(y.dst) = all

Emptied(y, m, n, all) == Between(y, m, n, all) /\ (y.ok => Stored(y.dst) = all)

\* Every pass of transfer_entries() over the buckets leaves that.
LEMMA TransferKeeps ==
  ASSUME NEW m, NEW all, NEW dst, NEW src \in Tables, NEW safe \in BOOLEAN, NEW mem,
         Between(Start(dst, src, mem), m, src.n_buckets, all)
  PROVE  Passed(transfer_entries(dst, src, safe, mem), m, src.n_buckets, all, safe)
  <1> DEFINE n == src.n_buckets
  <1>1. PICK g : /\ \A k \in 0..n : Between(g[k], m, n, all)
                 /\ g[0].ok
                 /\ \A k \in 1..n : g[k] = MoveBucket(g[k - 1], k - 1, safe)
                 /\ transfer_entries(dst, src, safe, mem) = g[n]
    <2>1. PICK g : Rounds(g, transfer_entries(dst, src, safe, mem), m, src.n_buckets, all, safe)
      BY TransferRun, Zenon
    <2> QED
      BY <2>1, Zenon DEF Rounds
  <1>2. n \in Nat /\ \A k \in 1..n : k - 1 \in 0..n /\ k - 1 \in 0..(n - 1)
    BY TableFacts
  <1>3. \A k \in 0..n : DOMAIN g[k].src.bucket = 0..(n - 1)
    <2> HIDE DEF n
    <2> QED
      BY <1>1, TableFacts DEF Between, Transfers
  <1> DEFINE Good(k) == /\ safe => g[k].ok
                        /\ ~safe /\ g[k].ok => \A j \in 0..(k - 1) : g[k].src.bucket[j] = <<NULL>>
             S == {k \in 0..n : Good(k)}
  <1>4. Good(0)
    BY <1>1
  <1>5. ASSUME NEW k \in 1..n, Good(k - 1)
        PROVE  Good(k)
    <2>1. PICK x, y : x = g[k - 1] /\ y = g[k]
      OBVIOUS
    <2>2. y = MoveBucket(x, k - 1, safe) /\ Between(x, m, n, all) /\ k - 1 \in DOMAIN x.src.bucket
      BY <1>1, <1>2, <1>3, <2>1
    <2>3. /\ \A j \in DOMAIN x.src.bucket : j # k - 1 => y.src.bucket[j] = x.src.bucket[j]
          /\ safe /\ x.ok => y.ok
          /\ y.ok => x.ok
          /\ ~safe /\ y.ok => y.src.bucket[k - 1] = <<NULL>>
      BY <2>2, BucketMoves
    <2>4. ASSUME ~safe, y.ok, NEW j \in 0..(k - 1)
          PROVE  y.src.bucket[j] = <<NULL>>
      <3>1. CASE j = k - 1
        BY <2>3, <2>4, <3>1
      <3>2. CASE j # k - 1
        <4>1. j \in 0..((k - 1) - 1) /\ j \in DOMAIN x.src.bucket
          BY <1>2, <1>3, <2>1, <3>2
        <4>2. x.src.bucket[j] = <<NULL>>
          BY <1>5, <2>1, <2>3, <2>4, <4>1
        <4> QED
          BY <2>3, <3>2, <4>1, <4>2
      <3> QED
        BY <3>1, <3>2
    <2> QED
      BY <1>5, <2>1, <2>3, <2>4
  <1>6. n \in S
    <2>1. 0 \in S /\ \A k \in 1..n : k - 1 \in S => k \in S
      <3> HIDE DEF Good
      <3> QED
        BY <1>2, <1>4, <1>5
    <2> HIDE DEF S
    <2> QED
      BY <1>2, <2>1, Induction
  <1>7. Good(n)
    <2> HIDE DEF Good
    <2> QED
      BY <1>6
  <1>8. Between(g[n], m, n, all)
    BY <1>1, <1>2
  <1>9. ASSUME ~safe, g[n].ok
        PROVE  Stored(g[n].dst) = all
    <2>1. Has(<<NULL>>) = {}
      BY Single DEF Data, One
    <2>2. PICK s : s = g[n].src
      OBVIOUS
    <2>3. s \in Tables /\ \A j \in DOMAIN s.bucket : s.bucket[j] = <<NULL>>
      <3>1. s \in Tables
        BY <1>8, <2>2 DEF Between, Transfers
      <3>2. DOMAIN s.bucket = 0..(n - 1)
        <4> HIDE DEF n
        <4> QED
          BY <1>2, <1>3, <2>2
      <3> HIDE DEF n
      <3> QED
        BY <1>7, <1>9, <2>2, <3>1, <3>2
    <2>4. Stored(s) = {}
      BY <2>1, <2>3, StoredFacts
    <2> QED
      BY <1>8, <2>2, <2>4 DEF Between
  <1> QED
    <2> HIDE DEF n
    <2>1. Passed(g[n], m, n, all, safe)
      BY <1>7, <1>8, <1>9 DEF Passed
    <2> QED
      BY <1>1, <2>1, Zenon DEF n

\* A pass that is not safe, in the form in which it is used.
LEMMA FullPass ==
  ASSUME NEW m, NEW all, NEW dst, NEW src \in Tables, NEW mem,
         Between(Start(dst, src, mem), m, src.n_buckets, all)
  PROVE  Emptied(transfer_entries(dst, src, FALSE, mem), m, src.n_buckets, all)
  <1>1. FALSE \in BOOLEAN
    BY Zenon
  <1>2. Passed(transfer_entries(dst, src, FALSE, mem), m, src.n_buckets, all, FALSE)
    BY <1>1, TransferKeeps, Zenon
  <1> QED
    BY <1>2, Zenon DEF Passed, Emptied

\* A safe pass.
LEMMA SafePass ==
  ASSUME NEW m, NEW all, NEW dst, NEW src \in Tables, NEW mem,
         Between(Start(dst, src, mem), m, src.n_buckets, all)
  PROVE  Between(transfer_entries(dst, src, TRUE, mem), m, src.n_buckets, all)
  <1>1. TRUE \in BOOLEAN
    BY Zenon
  <1>2. Passed(transfer_entries(dst, src, TRUE, mem), m, src.n_buckets, all, TRUE)
    BY <1>1, TransferKeeps, Zenon
  <1> QED
    BY <1>2, Zenon DEF Passed

-----------------------------------------------------------------------------
(* Sizes. *)

\* A size_t other than 0 that next_prime() leaves alone.
Prime(n) == n \in Nat \ {0} /\ n <= SIZE_MAX /\ n = next_prime(n)

\* next_prime() of any size_t ends, at SIZE_MAX at the latest, at a number that
\* it leaves alone.
LEMMA NextPrime ==
  ASSUME NEW c \in 0..SIZE_MAX
  PROVE  Prime(next_prime(c))
  <1> DEFINE start == IF c < 10 THEN 11 ELSE IF c % 2 = 0 THEN c + 1 ELSE c
             Ends(i) == start + 2 * i = SIZE_MAX \/ is_prime(start + 2 * i)
             rounds == CHOOSE i \in 0..SIZE_MAX : Ends(i) /\ \A j \in 0..(i - 1) : ~Ends(j)
             last == (SIZE_MAX - start) \div 2
             B == {i \in 0..last : Ends(i)}
  <1>1. SIZE_MAX \in Nat /\ SIZE_MAX > 11 /\ SIZE_MAX % 2 = 1
    BY HashAssumption DEF SIZE_MAX
  <1>2. start \in Nat /\ start >= 11 /\ start <= SIZE_MAX /\ start % 2 = 1
    BY <1>1
  <1> HIDE DEF start
  <1>3. last \in Nat /\ last <= SIZE_MAX /\ start + 2 * last = SIZE_MAX
    BY <1>1, <1>2
  <1>4. PICK i \in B : \A j \in B : ~(j < i)
    <2>1. B \subseteq Nat /\ last \in B
      BY <1>3
    <2> HIDE DEF B
    <2> QED
      BY <2>1, LeastNumber
  <1>5. i \in 0..SIZE_MAX /\ i <= last /\ Ends(i) /\ \A j \in 0..(i - 1) : ~Ends(j)
    <2>1. i \in Nat /\ i <= last /\ Ends(i)
      BY <1>3
    <2>2. ASSUME NEW j \in 0..(i - 1), Ends(j)
          PROVE  FALSE
      <3>1. j \in 0..last /\ j < i
        BY <1>3, <2>1
      <3>2. j \in B
        BY <2>2, <3>1
      <3> HIDE DEF B
      <3> QED
        BY <1>4, <3>1, <3>2
    <2> HIDE DEF Ends, last
    <2> QED
      BY <1>1, <1>3, <2>1, <2>2
  <1>6. rounds \in 0..SIZE_MAX /\ Ends(rounds) /\ \A j \in 0..(rounds - 1) : ~Ends(j)
    <2> HIDE DEF Ends
    <2> QED
      BY <1>5
  <1> DEFINE n == start + 2 * rounds
  <1>7. next_prime(c) = n
    BY DEF next_prime, start
  <1> HIDE DEF rounds
  <1>8. n \in Nat /\ n >= 11 /\ n % 2 = 1 /\ n <= SIZE_MAX
    <2>1. rounds <= i
      <3> HIDE DEF Ends
      <3> QED
        BY <1>1, <1>5, <1>6
    <2> QED
      BY <1>1, <1>2, <1>3, <1>5, <1>6, <2>1
  <1>9. n = SIZE_MAX \/ is_prime(n)
    BY <1>6
  <1> HIDE DEF n
  <1>10. next_prime(n) = n
    <2> DEFINE First(k) == n + 2 * k = SIZE_MAX \/ is_prime(n + 2 * k)
               again == CHOOSE k \in 0..SIZE_MAX : First(k) /\ \A j \in 0..(k - 1) : ~First(j)
    <2>1. First(0)
      <3>1. n + 2 * 0 = n
        BY <1>8
      <3> QED
        BY <1>9, <3>1
    <2>2. again \in 0..SIZE_MAX /\ First(again) /\ \A j \in 0..(again - 1) : ~First(j)
      <3>1. 0 \in 0..SIZE_MAX /\ \A j \in 0..(0 - 1) : ~First(j)
        BY <1>1
      <3> HIDE DEF First
      <3> QED
        BY <2>1, <3>1
    <2>3. next_prime(n) = n + 2 * again
      <3>1. ~(n < 10) /\ n % 2 # 0
        BY <1>8
      <3> QED
        BY <3>1 DEF next_prime
    <2> HIDE DEF First, again
    <2>4. again = 0
      BY <1>1, <2>1, <2>2
    <2> QED
      BY <1>8, <2>3, <2>4
  <1> QED
    BY <1>7, <1>8, <1>10 DEF Prime

\* compute_bucket_size() gives such a size, or none.
LEMMA BucketSize ==
  ASSUME NEW c \in 0..SIZE_MAX, NEW t \in Tuning
  PROVE  compute_bucket_size(c, t) = 0 \/ Prime(compute_bucket_size(c, t))
  <1> DEFINE wanted == IF t.is_n_buckets THEN c ELSE (c * 1000) \div t.growth_threshold
  <1>1. SIZE_MAX \in Nat
    BY HashAssumption DEF SIZE_MAX
  <1>2. wanted \in Nat
    <2>1. c * 1000 \in Nat /\ t.growth_threshold \in Nat /\ t.growth_threshold > 0
      BY <1>1 DEF Tuning
    <2>2. \A x \in Nat, y \in Nat : y > 0 => x \div y \in Nat
      OBVIOUS
    <2>3. (c * 1000) \div t.growth_threshold \in Nat
      BY <2>1, <2>2
    <2> QED
      BY <1>1, <2>3
  <1>3. CASE ~t.is_n_buckets /\ wanted >= SIZE_MAX
    BY <1>3 DEF compute_bucket_size
  <1>4. CASE ~(~t.is_n_buckets /\ wanted >= SIZE_MAX)
    <2>1. wanted \in 0..SIZE_MAX
      BY <1>1, <1>2, <1>4
    <2>2. Prime(next_prime(wanted))
      <3> HIDE DEF wanted
      <3> QED
        BY <2>1, NextPrime
    <2> QED
      BY <2>2 DEF compute_bucket_size
  <1> QED
    BY <1>3, <1>4

\* A table as calloc() makes it stores nothing.
LEMMA NewTableFacts ==
  ASSUME NEW n \in Nat \ {0}, NEW f \in Nat, NEW t,
         t = [NewTable(n) EXCEPT !.free = f] \/ t = NewTable(n)
  PROVE  t \in Tables /\ WellPlaced(t) /\ Stored(t) = {} /\ t.n_buckets = n
  <1>1. <<NULL>> \in Buckets /\ Once(<<NULL>>) /\ Has(<<NULL>>) = {}
    BY Single DEF Data, One
  <1> DEFINE a == [i \in 0..(n - 1) |-> <<NULL>>]
  <1>2. a \in [0..(n - 1) -> Buckets] /\ DOMAIN a = 0..(n - 1)
        /\ \A i \in 0..(n - 1) : a[i] = <<NULL>>
    BY <1>1
  <1>3. a \in Arrays
    BY <1>2 DEF Arrays
  <1>4. 0 \in Counts
    BY HashAssumption DEF Counts, SIZE_MAX
  <1>5. t.bucket = a /\ t.n_buckets = n
    BY DEF NewTable
  <1>6. t \in [bucket : Arrays, n_buckets : Nat \ {0}, default : BOOLEAN,
               n_buckets_used : Counts, n_entries : Counts, free : Nat]
    <2>1. PICK d : d = a
      OBVIOUS
    <2>2. PICK u : u = [bucket |-> d, n_buckets |-> n, default |-> FALSE, n_buckets_used |-> 0,
                        n_entries |-> 0, free |-> 0]
      OBVIOUS
    <2>3. u = NewTable(n)
      BY <2>1, <2>2 DEF NewTable
    <2>4. u \in [bucket : Arrays, n_buckets : Nat \ {0}, default : BOOLEAN,
                 n_buckets_used : Counts, n_entries : Counts, free : Nat]
      <3> HIDE DEF a
      <3> QED
        BY <1>3, <1>4, <2>1, <2>2
    <2>5. t = u \/ t = [u EXCEPT !.free = f]
      BY <2>3, Zenon
    <2> HIDE DEF a
    <2> QED
      BY <2>4, <2>5
  <1> HIDE DEF a
  <1>7. t \in Tables
    BY <1>2, <1>5, <1>6 DEF Tables
  <1>8. WellPlaced(t)
    BY <1>1, <1>2, <1>5 DEF WellPlaced
  <1>9. Stored(t) = {}
    BY <1>1, <1>2, <1>5, <1>7, StoredFacts
  <1> QED
    BY <1>5, <1>7, <1>8, <1>9

-----------------------------------------------------------------------------
(* The calls of a user. *)

\* What every call keeps of a table.
Sound(t) == t \in Tables /\ WellPlaced(t) /\ Prime(t.n_buckets)

\* A rehash, finished or undone, keeps every entry; only its abort() does not
\* say where they are.
WholeRehash(r, t) ==
  /\ Sound(r.table) /\ r.mem \in Nat
  /\ r.ok \in BOOLEAN /\ r.abort \in BOOLEAN /\ r.begun \in BOOLEAN
  /\ ~r.abort => Stored(r.table) = Stored(t)
  /\ r.ok => ~r.abort

\* hash_rehash() ends that way, whether it has enough memory or not.
LEMMA RehashKeeps ==
  ASSUME NEW t, Sound(t), NEW c \in 0..SIZE_MAX, NEW user \in Tuning, NEW mem \in Nat
  PROVE  WholeRehash(hash_rehash(t, c, user, mem), t)
  <1> DEFINE size == compute_bucket_size(c, TuningOf(t, user))
             fwd == transfer_entries([NewTable(size) EXCEPT !.free = t.free], t, FALSE, mem - 1)
             all == Stored(t)
             r == hash_rehash(t, c, user, mem)
  <1>1. t \in Tables /\ WellPlaced(t) /\ Prime(t.n_buckets)
    BY DEF Sound
  <1>2. size = 0 \/ Prime(size)
    <2>1. default_tuning \in Tuning
      BY DEF default_tuning, Tuning
    <2>2. TuningOf(t, user) \in Tuning
      BY <2>1 DEF TuningOf
    <2> QED
      BY <2>2, BucketSize
  <1> HIDE DEF size
  <1>3. CASE size = 0 \/ mem = 0
    <2>1. r = Rehashed(t, mem, FALSE, FALSE, FALSE)
      BY <1>3 DEF hash_rehash, size
    <2>2. Sound(t) /\ mem \in Nat /\ FALSE \in BOOLEAN
      OBVIOUS
    <2>3. r.table = t /\ r.mem = mem /\ r.ok = FALSE /\ r.abort = FALSE /\ r.begun = FALSE
      <3> HIDE DEF r
      <3> QED
        BY <2>1, Zenon DEF Rehashed
    <2> HIDE DEF r
    <2> QED
      BY <2>2, <2>3, Zenon DEF WholeRehash, r
  <1>4. CASE ~(size = 0 \/ mem = 0)
    <2>1. Prime(size) /\ mem - 1 \in Nat
      BY <1>2, <1>4
    <2>2. PICK new : new = [NewTable(size) EXCEPT !.free = t.free]
      OBVIOUS
    <2>3. new \in Tables /\ WellPlaced(new) /\ Stored(new) = {} /\ new.n_buckets = size
      BY <1>1, <2>1, <2>2, TableFacts, NewTableFacts DEF Prime
    <2>4. Between(Start(new, t, mem - 1), size, t.n_buckets, all)
      <3> HIDE DEF all
      <3> QED
        BY <1>1, <2>1, <2>3 DEF Between, Start, Transfers, all
    <2>5. Between(fwd, size, t.n_buckets, all) /\ (fwd.ok => Stored(fwd.dst) = all)
      <3>1. fwd = transfer_entries(new, t, FALSE, mem - 1)
        BY <2>2, Zenon
      <3> HIDE DEF all, fwd
      <3>2. Emptied(transfer_entries(new, t, FALSE, mem - 1), size, t.n_buckets, all)
        BY <1>1, <2>4, FullPass, Zenon
      <3> QED
        BY <3>1, <3>2, Zenon DEF Emptied
    <2>6. r = IF fwd.ok THEN Moved(t, fwd) ELSE UndoRehash(fwd)
      BY <1>4 DEF hash_rehash, size
    <2> HIDE DEF fwd, r, all
    <2>7. /\ fwd \in Transfers /\ fwd.dst \in Tables /\ fwd.src \in Tables
          /\ WellPlaced(fwd.dst) /\ WellPlaced(fwd.src) /\ fwd.mem \in Nat /\ fwd.ok \in BOOLEAN
          /\ fwd.dst.n_buckets = size /\ fwd.src.n_buckets = t.n_buckets
          /\ Stored(fwd.dst) \cap Stored(fwd.src) = {}
          /\ Stored(fwd.dst) \cup Stored(fwd.src) = all
      BY <2>5 DEF Between, Transfers
    <2>8. CASE fwd.ok
      <3>1. PICK u : u = [fwd.dst EXCEPT !.n_entries = t.n_entries, !.default = t.default]
        OBVIOUS
      <3>2. u \in Tables /\ u.n_buckets = size /\ WellPlaced(u) /\ Stored(u) = all
        <4>1. t.n_entries \in Counts /\ t.default \in BOOLEAN
          BY <1>1, TableFacts
        <4>2. Kept(fwd.dst, u)
          BY <2>7, <3>1, <4>1, CountersChanged, Zenon
        <4> QED
          BY <2>5, <2>7, <2>8, <4>2 DEF Kept
      <3>3. r = Rehashed(u, fwd.mem, TRUE, FALSE, TRUE)
        BY <2>6, <2>8, <3>1 DEF Moved
      <3>4. /\ r.table = u /\ r.mem = fwd.mem /\ r.ok = TRUE /\ r.abort = FALSE
            /\ r.begun = TRUE
        BY <3>3, Zenon DEF Rehashed
      <3>5. Sound(u) /\ fwd.mem \in Nat /\ FALSE \in BOOLEAN /\ TRUE \in BOOLEAN
        BY <2>1, <2>7, <3>2 DEF Sound
      <3> QED
        BY <3>2, <3>4, <3>5, Zenon DEF WholeRehash, all, r
    <2>9. CASE ~fwd.ok
      <3>1. PICK u : u = [fwd.src EXCEPT !.free = fwd.dst.free]
        OBVIOUS
      <3>2. /\ u \in Tables /\ u.n_buckets = t.n_buckets /\ WellPlaced(u)
            /\ Stored(u) = Stored(fwd.src)
        <4>1. fwd.dst.free \in Nat
          BY <2>7, TableFacts
        <4>2. Kept(fwd.src, u)
          BY <2>7, <3>1, <4>1, CountersChanged, Zenon
        <4> QED
          BY <2>7, <4>2 DEF Kept
      <3>3. PICK back : back = transfer_entries(u, fwd.dst, TRUE, 0)
        OBVIOUS
      <3>4. Between(Start(u, fwd.dst, 0), t.n_buckets, fwd.dst.n_buckets, all)
        BY <2>7, <3>2 DEF Between, Start, Transfers
      <3>5. Between(back, t.n_buckets, size, all)
        <4>1. Between(transfer_entries(u, fwd.dst, TRUE, 0), t.n_buckets, fwd.dst.n_buckets, all)
          BY <2>7, <3>4, SafePass, Zenon
        <4> QED
          BY <2>7, <3>3, <4>1, Zenon
      <3>6. PICK undo : undo = transfer_entries(back.dst, back.src, FALSE, 0)
        OBVIOUS
      <3>7. /\ back.src \in Tables /\ back.src.n_buckets = size
            /\ Between(Start(back.dst, back.src, 0), t.n_buckets, size, all)
        BY <3>5 DEF Between, Start, Transfers
      <3>8. Between(undo, t.n_buckets, size, all) /\ (undo.ok => Stored(undo.dst) = all)
        <4>1. Between(Start(back.dst, back.src, 0), t.n_buckets, back.src.n_buckets, all)
          BY <3>7, Zenon
        <4>2. Emptied(transfer_entries(back.dst, back.src, FALSE, 0), t.n_buckets,
                      back.src.n_buckets, all)
          BY <3>7, <4>1, FullPass, Zenon
        <4> QED
          BY <3>6, <3>7, <4>2, Zenon DEF Emptied
      <3>9. r = Rehashed(undo.dst, 0, FALSE, ~undo.ok, TRUE)
        BY <2>6, <2>9, <3>1, <3>3, <3>6 DEF UndoRehash
      <3>10. /\ undo.dst \in Tables /\ undo.dst.n_buckets = t.n_buckets
             /\ WellPlaced(undo.dst) /\ undo.ok \in BOOLEAN
        BY <3>8 DEF Between, Transfers
      <3>11. /\ r.table = undo.dst /\ r.mem = 0 /\ r.ok = FALSE /\ r.abort = ~undo.ok
             /\ r.begun = TRUE
        BY <3>9, Zenon DEF Rehashed
      <3>12. /\ Sound(r.table) /\ r.mem \in Nat /\ r.ok \in BOOLEAN /\ r.begun \in BOOLEAN
             /\ (r.ok => ~r.abort)
        <4>1. Sound(undo.dst) /\ 0 \in Nat /\ FALSE \in BOOLEAN /\ TRUE \in BOOLEAN
          BY <1>1, <3>10 DEF Sound
        <4> QED
          BY <3>11, <4>1, Zenon
      <3>13. r.abort \in BOOLEAN /\ (~r.abort => undo.ok)
        BY <3>10, <3>11
      <3>14. ~r.abort => Stored(r.table) = Stored(t)
        BY <3>8, <3>11, <3>13 DEF all
      <3> QED
        BY <3>12, <3>13, <3>14, Zenon DEF WholeRehash, r
    <2> QED
      BY <2>7, <2>8, <2>9, Zenon
  <1> QED
    BY <1>3, <1>4, Zenon

\* The entry that is put in a table, or is not for lack of memory.
WholeInsert(r, t, e) ==
  /\ Sound(r.table)
  /\ r.ok \in BOOLEAN /\ r.abort \in BOOLEAN /\ r.moved \in BOOLEAN
  /\ ~r.abort /\ ~r.ok => Stored(r.table) = Stored(t)
  /\ ~r.abort /\ r.ok => Stored(r.table) = Stored(t) \cup {e}

\* Done() with a table in one of the three cases.
LEMMA DoneInsert ==
  ASSUME NEW t, NEW e, NEW u, Sound(u), NEW m \in BOOLEAN
  PROVE  /\ Stored(u) = Stored(t) \cup {e} => WholeInsert(Done(u, TRUE, FALSE, m), t, e)
         /\ Stored(u) = Stored(t) => /\ WholeInsert(Done(u, FALSE, FALSE, m), t, e)
                                     /\ WholeInsert(Done(u, FALSE, TRUE, m), t, e)
         /\ WholeInsert(Done(u, FALSE, TRUE, m), t, e)
  <1>1. TRUE \in BOOLEAN /\ FALSE \in BOOLEAN
    OBVIOUS
  <1>2. ASSUME NEW o \in BOOLEAN, NEW a \in BOOLEAN
        PROVE  /\ Done(u, o, a, m).table = u /\ Done(u, o, a, m).ok = o
               /\ Done(u, o, a, m).abort = a /\ Done(u, o, a, m).moved = m
    BY Zenon DEF Done
  <1> QED
    BY <1>1, <1>2, Zenon DEF WholeInsert

\* The entry that is not in the table and has a bucket.
LEMMA EntryFacts ==
  ASSUME NEW t, Sound(t), NEW e \in Entries
  PROVE  /\ e \in Data /\ e # NULL /\ One(e) = {e} /\ Hash(e, t) \in DOMAIN t.bucket
         /\ t.bucket[Hash(e, t)] \in Buckets /\ Once(t.bucket[Hash(e, t)])
         /\ Found(t, e) <=> e \in Stored(t)
         /\ Found(t, e) <=> e \in Has(t.bucket[Hash(e, t)])
  <1>1. e \in Data /\ e # NULL
    BY HashAssumption DEF Data, NULL, SIZE_MAX
  <1>2. t \in Tables /\ WellPlaced(t)
    BY DEF Sound
  <1>3. Hash(e, t) \in DOMAIN t.bucket /\ t.bucket[Hash(e, t)] \in Buckets
    BY <1>1, <1>2, TableFacts
  <1>4. Found(t, e) <=> e \in Has(t.bucket[Hash(e, t)])
    BY <1>1 DEF Found, Has
  <1>5. e \in Stored(t) <=> e \in Has(t.bucket[Hash(e, t)])
    BY <1>2, StoredFacts
  <1> QED
    BY <1>1, <1>2, <1>3, <1>4, <1>5 DEF One, WellPlaced

\* AddEntry() puts a new entry in its bucket.
LEMMA AddKeeps ==
  ASSUME NEW t, Sound(t), NEW e \in Entries, ~Found(t, e), NEW mem \in Nat, NEW moved \in BOOLEAN
  PROVE  WholeInsert(AddEntry(t, e, mem, moved), t, e)
  <1> DEFINE i == Hash(e, t)
             b == t.bucket[i]
  <1>1. t \in Tables /\ WellPlaced(t) /\ Prime(t.n_buckets)
    BY DEF Sound
  <1>2. /\ e \in Data /\ One(e) = {e} /\ i \in DOMAIN t.bucket /\ b \in Buckets
        /\ e \notin Stored(t)
    BY EntryFacts
  <1>3. t.n_entries \in Counts /\ t.n_buckets_used \in Counts /\ t.free \in Nat
    BY <1>1, TableFacts
  <1>4. /\ Insert2nd(b, e) \in Buckets /\ <<e>> \o Tail(b) \in Buckets
        /\ SizeT(t.n_buckets_used + 1) \in Counts /\ SizeT(t.n_entries + 1) \in Counts
    BY <1>2, <1>3, BucketTypes, SizeTCounts
  <1>5. ASSUME NEW u, NEW c, Changed(t, u, i, c),
               c = Insert2nd(b, e) \/ (Head(b) = NULL /\ c = <<e>> \o Tail(b))
        PROVE  Sound(u) /\ Stored(u) = Stored(t) \cup {e}
    <2>1. u \in Tables /\ Gains(t, u, e) /\ u.n_buckets = t.n_buckets
      BY <1>5 DEF Changed, Gains
    <2>2. WellPlaced(u) /\ Stored(u) = Stored(t) \cup One(e)
      <3> HIDE DEF i, b
      <3> QED
        BY <1>1, <1>2, <2>1, TableGains
    <2> QED
      BY <1>1, <1>2, <2>1, <2>2 DEF Sound
  <1>6. CASE Head(b) = NULL
    <2>1. PICK u, c : /\ u = [t EXCEPT !.bucket[i] = <<e>> \o Tail(@), !.n_entries = SizeT(@ + 1),
                                       !.n_buckets_used = SizeT(@ + 1)]
                      /\ c = <<e>> \o Tail(b)
      OBVIOUS
    <2>2. Changed(t, u, i, c)
      <3>1. u = [t EXCEPT !.bucket[i] = c, !.n_entries = SizeT(t.n_entries + 1),
                          !.n_buckets_used = SizeT(t.n_buckets_used + 1)]
        BY <2>1
      <3>3. c \in Buckets
        BY <1>4, <2>1, Zenon
      <3> HIDE DEF i, b
      <3> QED
        BY <1>1, <1>2, <1>4, <3>1, <3>3, TableChanged, Zenon
    <2>3. Sound(u) /\ Stored(u) = Stored(t) \cup {e}
      BY <1>5, <1>6, <2>1, <2>2, Zenon
    <2>4. AddEntry(t, e, mem, moved) = Done(u, TRUE, FALSE, moved)
      BY <1>6, <2>1, Zenon DEF AddEntry
    <2> QED
      BY <2>3, <2>4, DoneInsert, Zenon
  <1>7. CASE Head(b) # NULL /\ t.free > 0
    <2>1. PICK u, c : /\ u = [t EXCEPT !.bucket[i] = Insert2nd(@, e), !.n_entries = SizeT(@ + 1),
                                       !.free = @ - 1]
                      /\ c = Insert2nd(b, e)
      OBVIOUS
    <2>2. Changed(t, u, i, c)
      <3>1. u = [t EXCEPT !.bucket[i] = c, !.n_entries = SizeT(t.n_entries + 1),
                          !.free = t.free - 1]
        BY <2>1
      <3>2. t.free - 1 \in Nat
        BY <1>3, <1>7
      <3>3. c \in Buckets
        BY <1>4, <2>1, Zenon
      <3> HIDE DEF i, b
      <3> QED
        BY <1>1, <1>2, <1>4, <3>1, <3>2, <3>3, TableChanged, Zenon
    <2>3. Sound(u) /\ Stored(u) = Stored(t) \cup {e}
      BY <1>5, <2>1, <2>2, Zenon
    <2>4. AddEntry(t, e, mem, moved) = Done(u, TRUE, FALSE, moved)
      BY <1>7, <2>1, Zenon DEF AddEntry
    <2> QED
      BY <2>3, <2>4, DoneInsert, Zenon
  <1>8. CASE Head(b) # NULL /\ ~(t.free > 0) /\ mem > 0
    <2>1. PICK u, c : /\ u = [t EXCEPT !.bucket[i] = Insert2nd(@, e), !.n_entries = SizeT(@ + 1)]
                      /\ c = Insert2nd(b, e)
      OBVIOUS
    <2>2. Changed(t, u, i, c)
      <3>1. u = [t EXCEPT !.bucket[i] = c, !.n_entries = SizeT(t.n_entries + 1)]
        BY <2>1
      <3>3. c \in Buckets
        BY <1>4, <2>1, Zenon
      <3> HIDE DEF i, b
      <3> QED
        BY <1>1, <1>2, <1>4, <3>1, <3>3, TableChanged, Zenon
    <2>3. Sound(u) /\ Stored(u) = Stored(t) \cup {e}
      BY <1>5, <2>1, <2>2, Zenon
    <2>4. AddEntry(t, e, mem, moved) = Done(u, TRUE, FALSE, moved)
      BY <1>8, <2>1, Zenon DEF AddEntry
    <2> QED
      BY <2>3, <2>4, DoneInsert, Zenon
  <1>9. CASE Head(b) # NULL /\ ~(t.free > 0) /\ ~(mem > 0)
    <2>1. AddEntry(t, e, mem, moved) = Done(t, FALSE, FALSE, moved)
      BY <1>9, Zenon DEF AddEntry
    <2> QED
      BY <2>1, DoneInsert, Zenon
  <1> QED
    BY <1>6, <1>7, <1>8, <1>9, Zenon

\* The sizes that an insertion and a deletion ask for.
LEMMA Candidates ==
  ASSUME NEW t, Sound(t), NEW u \in Tuning
  PROVE  /\ GrowthCandidate(t, u) \in Nat
         /\ u.shrink_factor <= 1000 /\ u.growth_threshold <= 1000 =>
              ShrinkCandidate(t, u) \in 0..SIZE_MAX
  <1>1. /\ t.n_buckets \in Nat /\ t.n_buckets <= SIZE_MAX /\ SIZE_MAX \in Nat
        /\ u.shrink_factor \in Nat /\ u.growth_factor \in Nat /\ u.growth_threshold \in Nat
    BY HashAssumption DEF Sound, Prime, Tuning, SIZE_MAX
  <1>2. \A x \in Nat, y \in Nat : x * y \in Nat /\ x \div 1000 \in Nat
    OBVIOUS
  <1>3. ASSUME NEW x \in Nat, NEW y \in Nat, y <= 1000
        PROVE  (x * y) \div 1000 <= x
    <2>1. x * y <= x * 1000
      BY <1>3
    <2>2. x * y \in Nat
      BY <1>2
    <2>3. \A z \in Nat : z <= x * 1000 => z \div 1000 <= x
      OBVIOUS
    <2> QED
      BY <2>1, <2>2, <2>3
  <1> DEFINE g == t.n_buckets * u.growth_factor
             f == t.n_buckets * u.shrink_factor
  <1>4. GrowthCandidate(t, u) \in Nat
    <2>1. g \in Nat
      BY <1>1, <1>2
    <2>2. GrowthCandidate(t, u) =
            IF u.is_n_buckets THEN g \div 1000 ELSE ((g * u.growth_threshold) \div 1000) \div 1000
      BY DEF GrowthCandidate
    <2> HIDE DEF g
    <2>3. g \div 1000 \in Nat /\ g * u.growth_threshold \in Nat
      BY <1>1, <1>2, <2>1
    <2>4. (g * u.growth_threshold) \div 1000 \in Nat
      BY <1>2, <2>3
    <2>5. ((g * u.growth_threshold) \div 1000) \div 1000 \in Nat
      BY <1>2, <2>4
    <2> QED
      BY <2>2, <2>3, <2>5
  <1>5. ASSUME u.shrink_factor <= 1000, u.growth_threshold <= 1000
        PROVE  ShrinkCandidate(t, u) \in 0..SIZE_MAX
    <2>1. f \in Nat /\ f \div 1000 \in Nat /\ f \div 1000 <= t.n_buckets
      BY <1>1, <1>2, <1>3, <1>5
    <2>2. ShrinkCandidate(t, u) =
            IF u.is_n_buckets THEN f \div 1000 ELSE ((f * u.growth_threshold) \div 1000) \div 1000
      BY DEF ShrinkCandidate
    <2> HIDE DEF f
    <2>3. PICK x : x = (f * u.growth_threshold) \div 1000
      OBVIOUS
    <2>4. x \in Nat /\ x <= f
      BY <1>1, <1>2, <1>3, <1>5, <2>1, <2>3
    <2>5. x \div 1000 \in Nat /\ x \div 1000 <= f \div 1000
      BY <2>1, <2>4
    <2>6. x \div 1000 \in 0..SIZE_MAX /\ f \div 1000 \in 0..SIZE_MAX
      BY <1>1, <2>1, <2>5
    <2> QED
      BY <2>2, <2>3, <2>6
  <1> QED
    BY <1>4, <1>5

\* check_tuning() changes no bucket.
LEMMA TuningChecked ==
  ASSUME NEW t, Sound(t), NEW user \in Tuning, NEW c,
         c = check_tuning(t, user) \/ c = t
  PROVE  /\ Sound(c) /\ Stored(c) = Stored(t) /\ TuningOf(c, user) \in Tuning
         /\ c = check_tuning(t, user) => /\ TuningOf(c, user).shrink_factor <= 1000
                                         /\ TuningOf(c, user).growth_threshold <= 1000
  <1>1. t \in Tables /\ WellPlaced(t)
    BY DEF Sound
  <1>2. Sound(c) /\ Stored(c) = Stored(t)
    <2>1. Kept(t, [t EXCEPT !.default = TRUE])
      BY <1>1, CountersChanged, Zenon
    <2>2. c = t \/ c = [t EXCEPT !.default = TRUE]
      BY Zenon DEF check_tuning
    <2>3. CASE c = t
      BY <2>3
    <2>4. CASE c = [t EXCEPT !.default = TRUE]
      <3>1. Kept(t, c)
        BY <2>1, <2>4, Zenon
      <3> HIDE <2>4
      <3> QED
        BY <1>1, <3>1 DEF Kept, Sound
    <2> QED
      BY <2>2, <2>3, <2>4
  <1>3. /\ default_tuning \in Tuning /\ default_tuning.shrink_factor <= 1000
        /\ default_tuning.growth_threshold <= 1000
    BY DEF default_tuning, Tuning
  <1>4. TuningOf(c, user) \in Tuning
    BY <1>3, Zenon DEF TuningOf
  <1>5. ASSUME c = check_tuning(t, user)
        PROVE  TuningOf(c, user).shrink_factor <= 1000 /\ TuningOf(c, user).growth_threshold <= 1000
    <2>1. c.default \/ ValidTuning(user)
      <3>1. CASE t.default \/ ValidTuning(user)
        BY <1>5, <3>1 DEF check_tuning
      <3>2. CASE ~(t.default \/ ValidTuning(user))
        BY <1>1, <1>5, <3>2 DEF check_tuning, Tables
      <3> QED
        BY <3>1, <3>2
    <2>2. user.growth_threshold \in Nat
      BY DEF Tuning
    <2>3. ValidTuning(user) => user.shrink_factor <= 1000 /\ user.growth_threshold <= 1000
      BY <2>2 DEF ValidTuning
    <2>4. CASE c.default
      <3>1. TuningOf(c, user) = default_tuning
        BY <2>4, Zenon DEF TuningOf
      <3> QED
        BY <1>3, <3>1, Zenon
    <2>5. CASE ~c.default
      <3>1. TuningOf(c, user) = user
        BY <2>5, Zenon DEF TuningOf
      <3> QED
        BY <2>1, <2>3, <2>5, <3>1, Zenon
    <2> QED
      BY <2>4, <2>5, Zenon
  <1> QED
    BY <1>2, <1>4, <1>5

\* hash_insert() puts the entry in the table or leaves the table with what it has.
LEMMA InsertKeeps ==
  ASSUME NEW t, Sound(t), NEW e \in Entries, NEW user \in Tuning, NEW mem \in Nat
  PROVE  WholeInsert(hash_insert(t, e, user, mem), t, e)
  <1> DEFINE Grown(r) == IF ~r.ok THEN Done(r.table, FALSE, r.abort, r.begun)
                         ELSE IF Found(r.table, e) THEN Done(r.table, FALSE, TRUE, TRUE)
                         ELSE AddEntry(r.table, e, r.mem, TRUE)
             Grow(c, n) == IF n >= SIZE_MAX THEN Done(c, FALSE, FALSE, FALSE)
                           ELSE Grown(hash_rehash(c, n, user, mem))
             Checked(c) == IF ~TooFull(c, user) THEN AddEntry(c, e, mem, FALSE)
                           ELSE Grow(c, GrowthCandidate(c, TuningOf(c, user)))
             r == hash_insert(t, e, user, mem)
  <1>0. TRUE \in BOOLEAN /\ FALSE \in BOOLEAN
    OBVIOUS
  <1>1. CASE Found(t, e)
    <2>1. Stored(t) = Stored(t) \cup {e}
      BY <1>1, EntryFacts
    <2>2. r = Done(t, TRUE, FALSE, FALSE)
      BY <1>1, Zenon DEF hash_insert
    <2> QED
      BY <1>0, <2>1, <2>2, DoneInsert, Zenon
  <1>2. CASE ~Found(t, e)
    <2>1. PICK c : c = IF TooFull(t, user) THEN check_tuning(t, user) ELSE t
      OBVIOUS
    <2>2. r = Checked(c)
      BY <1>2, <2>1, Zenon DEF hash_insert
    <2>3. Sound(c) /\ Stored(c) = Stored(t) /\ TuningOf(c, user) \in Tuning
      <3>1. c = check_tuning(t, user) \/ c = t
        BY <2>1, Zenon
      <3> QED
        BY <3>1, TuningChecked
    <2>4. ~Found(c, e)
      BY <1>2, <2>3, EntryFacts
    <2>5. CASE ~TooFull(c, user)
      <3>1. r = AddEntry(c, e, mem, FALSE)
        BY <2>2, <2>5, Zenon
      <3>2. WholeInsert(r, c, e)
        BY <1>0, <2>3, <2>4, <3>1, AddKeeps, Zenon
      <3> HIDE DEF r
      <3> QED
        BY <2>3, <3>2, Zenon DEF WholeInsert, r
    <2>6. CASE TooFull(c, user)
      <3>1. PICK n : n = GrowthCandidate(c, TuningOf(c, user))
        OBVIOUS
      <3>2. n \in Nat
        BY <2>3, <3>1, Candidates, Zenon
      <3>3. r = Grow(c, n)
        BY <2>2, <2>6, <3>1, Zenon
      <3>4. CASE n >= SIZE_MAX
        <4>1. r = Done(c, FALSE, FALSE, FALSE)
          BY <3>3, <3>4, Zenon
        <4> HIDE DEF r
        <4> QED
          BY <1>0, <2>3, <4>1, DoneInsert, Zenon DEF r
      <3>5. CASE ~(n >= SIZE_MAX)
        <4>1. n \in 0..SIZE_MAX
          BY <3>2, <3>5, HashAssumption DEF SIZE_MAX
        <4>2. PICK h : h = hash_rehash(c, n, user, mem)
          OBVIOUS
        <4>3. WholeRehash(h, c)
          BY <2>3, <4>1, <4>2, RehashKeeps, Zenon
        <4>4. r = Grown(h)
          BY <3>3, <3>5, <4>2, Zenon
        <4>5. /\ Sound(h.table) /\ h.mem \in Nat /\ h.ok \in BOOLEAN /\ h.abort \in BOOLEAN
              /\ h.begun \in BOOLEAN /\ (~h.abort => Stored(h.table) = Stored(t))
              /\ (h.ok => ~h.abort)
          BY <2>3, <4>3, Zenon DEF WholeRehash
        <4>6. CASE ~h.ok
          <5>1. r = Done(h.table, FALSE, h.abort, h.begun)
            BY <4>4, <4>6, Zenon
          <5>2. /\ r.table = h.table /\ r.ok = FALSE /\ r.abort = h.abort /\ r.moved = h.begun
            <6> HIDE DEF r
            <6> QED
              BY <5>1, Zenon DEF Done
          <5> HIDE DEF r
          <5> QED
            BY <1>0, <4>5, <5>2, Zenon DEF WholeInsert, r
        <4>7. CASE h.ok /\ Found(h.table, e)
          <5>1. r = Done(h.table, FALSE, TRUE, TRUE)
            BY <4>4, <4>7, Zenon
          <5> HIDE DEF r
          <5> QED
            BY <1>0, <4>5, <5>1, DoneInsert, Zenon DEF r
        <4>8. CASE h.ok /\ ~Found(h.table, e)
          <5>1. r = AddEntry(h.table, e, h.mem, TRUE)
            BY <4>4, <4>8, Zenon
          <5>2. WholeInsert(r, h.table, e)
            BY <1>0, <4>5, <4>8, <5>1, AddKeeps, Zenon
          <5> HIDE DEF r
          <5> QED
            BY <4>5, <4>8, <5>2, Zenon DEF WholeInsert, r
        <4> QED
          BY <4>6, <4>7, <4>8, Zenon
      <3> QED
        BY <3>4, <3>5, Zenon
    <2> QED
      BY <2>5, <2>6, Zenon
  <1> QED
    BY <1>1, <1>2, Zenon

\* hash_find_entry() with delete takes the entry out and leaves the others.
LEMMA UnlinkKeeps ==
  ASSUME NEW t, Sound(t), NEW e \in Entries, Found(t, e)
  PROVE  Sound(Unlinked(t, e)) /\ Stored(Unlinked(t, e)) = Stored(t) \ {e}
  <1> DEFINE i == Hash(e, t)
             b == t.bucket[i]
             k == CHOOSE j \in DOMAIN b : b[j] = e /\ \A m \in 1..(j - 1) : b[m] # e
             u == Unlinked(t, e)
  <1>1. t \in Tables /\ WellPlaced(t) /\ Prime(t.n_buckets)
    BY DEF Sound
  <1>2. /\ e \in Data /\ e # NULL /\ i \in DOMAIN t.bucket /\ b \in Buckets /\ Once(b)
        /\ e \in Has(b)
    BY EntryFacts
  <1>3. b \in Seq(Data) /\ Len(b) \in Nat /\ Len(b) > 0 /\ DOMAIN b = 1..Len(b)
    BY <1>2, BucketFacts
  <1>4. PICK p \in 1..Len(b) : b[p] = e
    BY <1>2, <1>3, HasFacts
  <1>5. t.free \in Nat /\ t.free + 1 \in Nat
    BY <1>1, TableFacts
  <1>6. ASSUME NEW c \in Buckets, Once(c), Has(c) = Has(b) \ {e}, Changed(t, u, i, c)
        PROVE  Sound(u) /\ Stored(u) = Stored(t) \ {e}
    <2>1. u \in Tables /\ u.n_buckets = t.n_buckets /\ u.bucket = [t.bucket EXCEPT ![i] = c]
      BY <1>6 DEF Changed
    <2>2. \A d \in Has(c) : Hash(d, t) = i
      BY <1>1, <1>2, <1>6 DEF WellPlaced
    <2>3. WellPlaced(u) /\ Stored(u) = (Stored(t) \ Has(b)) \cup Has(c)
      <3> HIDE DEF i, u
      <3> QED
        BY <1>1, <1>2, <1>6, <2>1, <2>2, BucketChanged
    <2>4. Has(b) \subseteq Stored(t)
      BY <1>1, <1>2, StoredFacts
    <2> HIDE DEF u, b
    <2> QED
      BY <1>1, <1>2, <1>6, <2>1, <2>3, <2>4 DEF Sound
  <1>7. CASE Len(b) = 1
    <2>1. PICK c : c = <<NULL>>
      OBVIOUS
    <2>2. c \in Buckets /\ Once(c) /\ Has(c) = {}
      BY <2>1, Single DEF Data, One
    <2>3. Has(b) \ {e} = {}
      <3>1. \A d : d \in Has(b) <=> d # NULL /\ \E j \in 1..Len(b) : b[j] = d
        BY <1>3, HasFacts
      <3> HIDE DEF b
      <3> QED
        BY <1>4, <1>7, <3>1
    <2>4. Changed(t, u, i, c)
      <3>1. u = [t EXCEPT !.bucket[i] = c]
        BY <1>7, <2>1, Zenon DEF Unlinked
      <3> HIDE DEF i, u
      <3> QED
        BY <1>1, <1>2, <2>2, <3>1, TableChanged, Zenon
    <2>5. Has(c) = Has(b) \ {e}
      BY <2>2, <2>3, Zenon
    <2> QED
      BY <1>6, <2>2, <2>4, <2>5, Zenon
  <1>8. CASE Len(b) # 1
    <2>1. k \in DOMAIN b /\ b[k] = e
      <3> DEFINE B == {j \in 1..Len(b) : b[j] = e}
      <3>1. PICK j \in B : \A m \in B : ~(m < j)
        <4>1. B \subseteq Nat /\ p \in B
          BY <1>3, <1>4
        <4> HIDE DEF B
        <4> QED
          BY <4>1, LeastNumber
      <3>2. j \in 1..Len(b) /\ b[j] = e
        OBVIOUS
      <3>3. ASSUME NEW m \in 1..(j - 1), b[m] = e
            PROVE  FALSE
        <4>1. m \in 1..Len(b) /\ m < j
          BY <1>3, <3>2
        <4>2. m \in B
          BY <3>3, <4>1
        <4> HIDE DEF B
        <4> QED
          BY <3>1, <4>1, <4>2
      <3>4. \E d \in DOMAIN b : b[d] = e /\ \A m \in 1..(d - 1) : b[m] # e
        BY <1>3, <3>2, <3>3, Zenon
      <3> HIDE DEF b
      <3> QED
        BY <3>4, Zenon
    <2>2. PICK c : c = RemoveAt(b, k)
      OBVIOUS
    <2> HIDE DEF k
    <2>3. c \in Buckets /\ Once(c) /\ Has(c) = Has(b) \ {e}
      <3> HIDE DEF b
      <3> QED
        BY <1>2, <1>3, <1>8, <2>1, <2>2, BucketShrinks
    <2>4. Changed(t, u, i, c)
      <3>1. u = [t EXCEPT !.bucket[i] = c, !.free = t.free + 1]
        BY <1>8, <2>2 DEF Unlinked, k
      <3> HIDE DEF i, u
      <3> QED
        BY <1>1, <1>2, <1>5, <2>3, <3>1, TableChanged, Zenon
    <2> QED
      BY <1>6, <2>3, <2>4, Zenon
  <1> QED
    BY <1>7, <1>8

\* The entry that is taken out of a table, or was not in it.
WholeDelete(r, t, e) ==
  /\ Sound(r.table)
  /\ r.ok \in BOOLEAN /\ r.abort \in BOOLEAN /\ r.moved \in BOOLEAN
  /\ ~r.abort /\ ~r.ok => Stored(r.table) = Stored(t)
  /\ ~r.abort /\ r.ok => Stored(r.table) = Stored(t) \ {e}

\* The counters of a sound table can be set to any size_t.
LEMMA CountersSound ==
  ASSUME NEW t, Sound(t), NEW u, \E n \in Counts : \/ u = [t EXCEPT !.n_entries = n]
                                                   \/ u = [t EXCEPT !.n_buckets_used = n]
                                                   \/ u = [t EXCEPT !.free = 0]
  PROVE  Sound(u) /\ Stored(u) = Stored(t)
  <1>1. t \in Tables
    BY DEF Sound
  <1>2. Kept(t, u)
    <2>1. 0 \in Nat
      OBVIOUS
    <2> QED
      BY <1>1, <2>1, CountersChanged, Zenon
  <1> QED
    BY <1>2 DEF Kept, Sound

\* hash_delete() takes the entry out of the table and no other one, also when
\* the table cannot be made smaller.
LEMMA DeleteKeeps ==
  ASSUME NEW t, Sound(t), NEW e \in Entries, NEW user \in Tuning, NEW mem \in Nat
  PROVE  WholeDelete(hash_delete(t, e, user, mem), t, e)
  <1> DEFINE Shrunk(r) == IF r.ok THEN Done(r.table, TRUE, FALSE, TRUE)
                          ELSE Done([r.table EXCEPT !.free = 0], TRUE, r.abort, r.begun)
             Checked(c) ==
               IF ~TooEmpty(c, user) THEN Done(c, TRUE, FALSE, FALSE)
               ELSE Shrunk(hash_rehash(c, ShrinkCandidate(c, TuningOf(c, user)), user, mem))
             Few(v) == Checked(IF TooEmpty(v, user) THEN check_tuning(v, user) ELSE v)
             Gone(u) == IF Head(u.bucket[Hash(e, u)]) # NULL THEN Done(u, TRUE, FALSE, FALSE)
                        ELSE Few([u EXCEPT !.n_buckets_used = SizeT(@ - 1)])
             r == hash_delete(t, e, user, mem)
  <1>0. TRUE \in BOOLEAN /\ FALSE \in BOOLEAN
    OBVIOUS
  <1>1. CASE ~Found(t, e)
    <2>1. r = Done(t, FALSE, FALSE, FALSE)
      BY <1>1, Zenon DEF hash_delete
    <2>2. r.table = t /\ r.ok = FALSE /\ r.abort = FALSE /\ r.moved = FALSE
      <3> HIDE DEF r
      <3> QED
        BY <2>1, Zenon DEF Done
    <2> HIDE DEF r
    <2> QED
      BY <1>0, <2>2, Zenon DEF WholeDelete, r
  <1>2. CASE Found(t, e)
    <2>1. PICK w : w = Unlinked(t, e)
      OBVIOUS
    <2>2. PICK u : u = [w EXCEPT !.n_entries = SizeT(@ - 1)]
      OBVIOUS
    <2>3. r = Gone(u)
      <3>1. u = [Unlinked(t, e) EXCEPT !.n_entries = SizeT(@ - 1)]
        BY <2>1, <2>2, Zenon
      <3>2. r = Gone([Unlinked(t, e) EXCEPT !.n_entries = SizeT(@ - 1)])
        BY <1>2, Zenon DEF hash_delete
      <3> HIDE DEF Gone, r
      <3> QED
        BY <3>1, <3>2, Zenon
    <2>4. Sound(u) /\ Stored(u) = Stored(t) \ {e}
      <3>1. Sound(w) /\ Stored(w) = Stored(t) \ {e}
        BY <1>2, <2>1, UnlinkKeeps
      <3>2. w \in Tables /\ w.n_entries \in Counts
        BY <3>1, TableFacts DEF Sound
      <3>3. SizeT(w.n_entries - 1) \in Counts
        BY <3>2, SizeTCounts
      <3>4. \E n \in Counts : u = [w EXCEPT !.n_entries = n]
        BY <2>2, <3>3, Zenon
      <3> QED
        BY <3>1, <3>4, CountersSound
    \* What is left of the table may end with success.
    <2>5. ASSUME NEW v, Sound(v), Stored(v) = Stored(t) \ {e}, NEW m \in BOOLEAN,
                 r = Done(v, TRUE, FALSE, m)
          PROVE  WholeDelete(r, t, e)
      <3>1. r.table = v /\ r.ok = TRUE /\ r.abort = FALSE /\ r.moved = m
        <4> HIDE DEF r
        <4> QED
          BY <2>5, Zenon DEF Done
      <3> HIDE DEF r
      <3> QED
        BY <1>0, <2>5, <3>1, Zenon DEF WholeDelete
    <2>6. CASE Head(u.bucket[Hash(e, u)]) # NULL
      <3>1. r = Done(u, TRUE, FALSE, FALSE)
        BY <2>3, <2>6, Zenon
      <3> HIDE DEF r
      <3> QED
        BY <1>0, <2>4, <2>5, <3>1, Zenon DEF r
    <2>7. CASE ~(Head(u.bucket[Hash(e, u)]) # NULL)
      <3>1. PICK v : v = [u EXCEPT !.n_buckets_used = SizeT(@ - 1)]
        OBVIOUS
      <3>2. PICK c : c = IF TooEmpty(v, user) THEN check_tuning(v, user) ELSE v
        OBVIOUS
      <3>3. r = Checked(c)
        BY <2>3, <2>7, <3>1, <3>2, Zenon
      <3>4. Sound(v) /\ Stored(v) = Stored(t) \ {e}
        <4>1. u \in Tables /\ u.n_buckets_used \in Counts
          BY <2>4, TableFacts DEF Sound
        <4>2. SizeT(u.n_buckets_used - 1) \in Counts
          BY <4>1, SizeTCounts
        <4>3. \E n \in Counts : v = [u EXCEPT !.n_buckets_used = n]
          BY <3>1, <4>2, Zenon
        <4> QED
          BY <2>4, <4>3, CountersSound
      <3>5. c = check_tuning(v, user) \/ c = v
        BY <3>2, Zenon
      <3>6. /\ Sound(c) /\ Stored(c) = Stored(t) \ {e} /\ TuningOf(c, user) \in Tuning
            /\ c = check_tuning(v, user) => /\ TuningOf(c, user).shrink_factor <= 1000
                                            /\ TuningOf(c, user).growth_threshold <= 1000
        BY <3>4, <3>5, TuningChecked
      <3>7. CASE ~TooEmpty(c, user)
        <4>1. r = Done(c, TRUE, FALSE, FALSE)
          BY <3>3, <3>7, Zenon
        <4> HIDE DEF r
        <4> QED
          BY <1>0, <2>5, <3>6, <4>1, Zenon DEF r
      <3>8. CASE TooEmpty(c, user)
        <4>1. PICK n : n = ShrinkCandidate(c, TuningOf(c, user))
          OBVIOUS
        <4>2. n \in 0..SIZE_MAX
          <5>1. c = check_tuning(v, user)
            BY <3>2, <3>8, Zenon
          <5> QED
            BY <3>6, <4>1, <5>1, Candidates
        <4>3. PICK h : h = hash_rehash(c, n, user, mem)
          OBVIOUS
        <4>4. WholeRehash(h, c)
          BY <3>6, <4>2, <4>3, RehashKeeps, Zenon
        <4>5. r = Shrunk(h)
          BY <3>3, <3>8, <4>1, <4>3, Zenon
        <4>6. /\ Sound(h.table) /\ h.ok \in BOOLEAN /\ h.abort \in BOOLEAN /\ h.begun \in BOOLEAN
              /\ (~h.abort => Stored(h.table) = Stored(t) \ {e}) /\ (h.ok => ~h.abort)
          BY <3>6, <4>4, Zenon DEF WholeRehash
        <4>7. CASE h.ok
          <5>1. r = Done(h.table, TRUE, FALSE, TRUE)
            BY <4>5, <4>7, Zenon
          <5> HIDE DEF r
          <5> QED
            BY <1>0, <2>5, <4>6, <4>7, <5>1, Zenon DEF r
        <4>8. CASE ~h.ok
          <5>1. PICK z : z = [h.table EXCEPT !.free = 0]
            OBVIOUS
          <5>2. r = Done(z, TRUE, h.abort, h.begun)
            BY <4>5, <4>8, <5>1, Zenon
          <5>3. Sound(z) /\ Stored(z) = Stored(h.table)
            <6>1. 0 \in Counts
              BY HashAssumption DEF Counts, SIZE_MAX
            <6>2. \E n0 \in Counts : z = [h.table EXCEPT !.free = 0]
              BY <5>1, <6>1, Zenon
            <6> QED
              BY <4>6, <6>2, CountersSound
          <5>4. r.table = z /\ r.ok = TRUE /\ r.abort = h.abort /\ r.moved = h.begun
            <6> HIDE DEF r
            <6> QED
              BY <5>2, Zenon DEF Done
          <5> HIDE DEF r
          <5> QED
            BY <1>0, <4>6, <5>3, <5>4, Zenon DEF WholeDelete, r
        <4> QED
          BY <4>7, <4>8, Zenon
      <3> QED
        BY <3>7, <3>8, Zenon
    <2> QED
      BY <2>6, <2>7, Zenon
  <1> QED
    BY <1>1, <1>2, Zenon

\* The loop of hash_clear() over the buckets counts up the freed entries.
LEMMA ClearRun ==
  ASSUME NEW t \in Tables
  PROVE  hash_clear(t).free \in Nat
  <1> DEFINE n == t.n_buckets
             Next1(k, d) == IF Head(t.bucket[k - 1]) = NULL THEN d
                            ELSE d + Len(t.bucket[k - 1]) - 1
             F == [k \in 1..n |-> [d \in Nat |-> Next1(k, d)]]
             Is(g) == g = [k \in 0..n |-> IF k = 0 THEN t.free
                                          ELSE IF Head(t.bucket[k - 1]) = NULL THEN g[k - 1]
                                          ELSE g[k - 1] + Len(t.bucket[k - 1]) - 1]
             run == CHOOSE g : Is(g)
  <1>0. n \in Nat \ {0} /\ t.free \in Nat
    BY TableFacts
  <1>1. \A k \in 1..n, d \in Nat : F[k][d] = Next1(k, d)
    OBVIOUS
  <1>2. PICK g : IsRun(g, n, Nat, t.free, F)
    <2>1. ASSUME NEW k \in 1..n, NEW d \in Nat
          PROVE  Next1(k, d) \in Nat
      <3>1. k - 1 \in DOMAIN t.bucket
        BY <1>0, TableFacts
      <3>2. t.bucket[k - 1] \in Buckets
        BY <3>1, TableFacts
      <3>3. Len(t.bucket[k - 1]) \in Nat /\ Len(t.bucket[k - 1]) > 0
        BY <3>2, BucketFacts
      <3> QED
        BY <3>3
    <2>2. F \in [1..n -> [Nat -> Nat]]
      <3> HIDE DEF Next1
      <3> QED
        BY <2>1
    <2> HIDE DEF F, n
    <2> QED
      BY <1>0, <2>2, RunExists
  <1>3. \A k \in 1..n : g[k] = Next1(k, g[k - 1])
    <2>1. \A k \in 1..n : g[k - 1] \in Nat
      <3> HIDE DEF F, n
      <3>1. g \in [0..n -> Nat]
        BY <1>2 DEF IsRun
      <3> QED
        BY <1>0, <3>1, RunRange
    <2> HIDE DEF F, Next1
    <2> QED
      BY <1>1, <1>2, <2>1 DEF IsRun
  <1>4. Is(g)
    <2>1. g = [k \in 0..n |-> IF k = 0 THEN t.free ELSE Next1(k, g[k - 1])]
      <3> HIDE DEF F, Next1
      <3> QED
        BY <1>0, <1>2, <1>3 DEF IsRun
    <2> QED
      BY <2>1, Zenon
  <1>5. Is(run)
    BY <1>4, Zenon
  <1>6. hash_clear(t).free = run[n]
    <2>1. PICK f : f = run[n]
      OBVIOUS
    <2>2. PICK a : a = [i \in DOMAIN t.bucket |-> IF Head(t.bucket[i]) = NULL THEN t.bucket[i]
                                                  ELSE <<NULL>>]
      OBVIOUS
    <2>3. hash_clear(t) = [t EXCEPT !.bucket = a, !.free = f, !.n_buckets_used = 0,
                                    !.n_entries = 0]
      BY <2>1, <2>2 DEF hash_clear
    <2> HIDE DEF run
    <2> QED
      BY <2>1, <2>3 DEF Tables
  <1> HIDE DEF run
  <1>7. run[0] = t.free /\ \A k \in 1..n : run[k] = Next1(k, run[k - 1])
    <2>1. run = [k \in 0..n |-> IF k = 0 THEN t.free ELSE Next1(k, run[k - 1])]
      BY <1>5, Zenon
    <2>2. 0 \in 0..n /\ \A k \in 1..n : k \in 0..n /\ k # 0
      BY <1>0
    <2> HIDE DEF n, Next1
    <2> QED
      BY <2>1, <2>2, Zenon
  <1>8. run[n] = g[n]
    <2>1. g[0] = run[0] /\ \A k \in 1..n : run[k - 1] = g[k - 1] => run[k] = g[k]
      <3> HIDE DEF Next1, F
      <3> QED
        BY <1>2, <1>3, <1>7 DEF IsRun
    <2> HIDE DEF F, n
    <2> QED
      BY <1>0, <2>1, RunsAgree
  <1>9. g[n] \in Nat
    <2>1. g \in [0..n -> Nat] /\ n \in 0..n
      BY <1>0, <1>2 DEF IsRun
    <2> HIDE DEF n
    <2> QED
      BY <2>1
  <1> QED
    BY <1>6, <1>8, <1>9

\* A cleared table is a sound one.
LEMMA ClearKeeps ==
  ASSUME NEW t, Sound(t)
  PROVE  Sound(hash_clear(t))
  <1> DEFINE u == hash_clear(t)
  <1>1. t \in Tables /\ WellPlaced(t) /\ Prime(t.n_buckets)
    BY DEF Sound
  <1>2. PICK a : a = [i \in DOMAIN t.bucket |-> IF Head(t.bucket[i]) = NULL THEN t.bucket[i]
                                                ELSE <<NULL>>]
    OBVIOUS
  <1>3. PICK f : u = [t EXCEPT !.bucket = a, !.free = f, !.n_buckets_used = 0, !.n_entries = 0]
    BY <1>2 DEF hash_clear
  <1>c. PICK c : c = <<NULL>>
    OBVIOUS
  <1>4. c = <<NULL>> /\ c \in Buckets /\ Once(c) /\ Has(c) = {}
    BY <1>c, Single DEF Data, One
  <1>5. /\ DOMAIN t.bucket = 0..(t.n_buckets - 1) /\ DOMAIN a = DOMAIN t.bucket
        /\ \A i \in DOMAIN t.bucket : a[i] = t.bucket[i] \/ a[i] = c
    BY <1>1, <1>2, <1>4, TableFacts
  <1>6. a \in [0..(t.n_buckets - 1) -> Buckets]
    <2>1. \A i \in DOMAIN t.bucket : a[i] \in Buckets
      BY <1>1, <1>4, <1>5, TableFacts
    <2> QED
      BY <1>2, <1>5, <2>1
  <1>7. u.free = f
    <2> HIDE DEF u
    <2> QED
      BY <1>1, <1>3 DEF Tables
  <1>8. f \in Nat
    BY <1>1, <1>7, ClearRun
  <1> HIDE DEF u
  <1>9. u \in Tables /\ u.n_buckets = t.n_buckets /\ u.bucket = a
    <2>1. 0 \in Counts
      BY HashAssumption DEF Counts, SIZE_MAX
    <2>2. t.n_buckets \in Nat
      BY <1>1, TableFacts
    <2>3. a \in Arrays
      BY <1>6, <2>2 DEF Arrays
    <2>4. u \in [bucket : Arrays, n_buckets : Nat \ {0}, default : BOOLEAN,
                 n_buckets_used : Counts, n_entries : Counts, free : Nat]
          /\ u.n_buckets = t.n_buckets /\ u.bucket = a
      BY <1>1, <1>3, <1>8, <2>1, <2>3 DEF Tables
    <2> QED
      BY <1>6, <2>4 DEF Tables
  <1>10. WellPlaced(u)
    <2>1. \A e : Hash(e, u) = Hash(e, t)
      BY <1>9 DEF Hash
    <2> QED
      BY <1>1, <1>4, <1>5, <1>9, <2>1 DEF WellPlaced
  <1> QED
    BY <1>1, <1>9, <1>10 DEF Sound, u

\* Two sequences, one after the other.
Cat(s, t) == s \o t

\* FlattenSeq() keeps to the data.
LEMMA FlattenData ==
  ASSUME NEW n \in Nat \ {0}, NEW ss \in [1..n -> Seq(Data)]
  PROVE  FlattenSeq(ss) \in Seq(Data)
  <1> DEFINE F == [k \in 1..n |-> [s \in Seq(Data) |-> IF k = 1 THEN ss[k] ELSE Cat(s, ss[k])]]
             Is(g) == g = [i \in 1..Len(ss) |-> IF i = 1 THEN ss[i] ELSE g[i - 1] \o ss[i]]
             flatten == CHOOSE g : Is(g)
  <1>1. Len(ss) = n /\ \A k \in 1..n : ss[k] \in Seq(Data)
    OBVIOUS
  <1>2. \A s \in Seq(Data), t \in Seq(Data) : Cat(s, t) \in Seq(Data)
    BY CatSeq DEF Cat
  <1>3. PICK g : IsRun(g, n, Seq(Data), <<>>, F)
    <2>1. F \in [1..n -> [Seq(Data) -> Seq(Data)]] /\ <<>> \in Seq(Data)
      BY <1>1, <1>2
    <2> HIDE DEF F
    <2> QED
      BY <2>1, RunExists
  <1>4. g \in [0..n -> Seq(Data)]
    BY <1>3 DEF IsRun
  <1>5. \A k \in 1..n : g[k] = IF k = 1 THEN ss[k] ELSE Cat(g[k - 1], ss[k])
    <2>1. \A k \in 1..n : g[k] = F[k][g[k - 1]]
      <3> HIDE DEF F
      <3> QED
        BY <1>3 DEF IsRun
    <2>2. \A k \in 1..n : g[k - 1] \in Seq(Data)
      BY <1>4, RunRange
    <2> QED
      BY <2>1, <2>2
  <1> DEFINE h == [i \in 1..n |-> g[i]]
  <1>6. h = [i \in 1..n |-> IF i = 1 THEN ss[i] ELSE Cat(h[i - 1], ss[i])]
    <2>1. \A i \in 1..n : i # 1 => i - 1 \in 1..n
      OBVIOUS
    <2> QED
      BY <1>5, <2>1
  <1>7. Is(h)
    <2> HIDE DEF h
    <2> QED
      BY <1>1, <1>6, Zenon DEF Cat
  <1>8. Is(flatten)
    <2> HIDE DEF h
    <2> QED
      BY <1>7
  <1>9. FlattenSeq(ss) = flatten[n]
    BY <1>1 DEF FlattenSeq
  <1>10. \A i \in 1..n : flatten[i] = IF i = 1 THEN ss[i] ELSE Cat(flatten[i - 1], ss[i])
    <2>1. flatten = [i \in 1..n |-> IF i = 1 THEN ss[i] ELSE Cat(flatten[i - 1], ss[i])]
      <3> HIDE DEF flatten
      <3> QED
        BY <1>1, <1>8, Zenon DEF Cat
    <2> HIDE DEF flatten, Is
    <2> QED
      BY <2>1
  <1> HIDE DEF flatten, Is
  <1> DEFINE S == {0} \cup {i \in 1..n : flatten[i] \in Seq(Data)}
  <1>11. 0 \in S /\ \A k \in 1..n : k - 1 \in S => k \in S
    <2>1. ASSUME NEW k \in 1..n, k = 1 \/ flatten[k - 1] \in Seq(Data)
          PROVE  flatten[k] \in Seq(Data)
      BY <1>1, <1>2, <1>10, <2>1
    <2>2. \A k \in 1..n : k - 1 = 0 => k = 1
      OBVIOUS
    <2> QED
      BY <2>1, <2>2
  <1>12. n \in S
    <2>1. n \in Nat /\ n \in 0..n
      OBVIOUS
    <2> HIDE DEF S
    <2> QED
      BY <1>11, <2>1, Induction
  <1> QED
    BY <1>9, <1>12

\* What data_freer() is given are entries.
LEMMA EntriesListed ==
  ASSUME NEW t \in Tables
  PROVE  Range(hash_get_entries(t)) \ {NULL} \subseteq Entries
  <1> DEFINE n == t.n_buckets
             ss == [i \in 1..n |-> Chain(t.bucket[i - 1])]
  <1>1. n \in Nat \ {0}
    BY TableFacts
  <1>2. ss \in [1..n -> Seq(Data)]
    <2>1. ASSUME NEW i \in 1..n
          PROVE  Chain(t.bucket[i - 1]) \in Seq(Data)
      <3>1. i - 1 \in DOMAIN t.bucket
        BY <1>1, TableFacts
      <3>2. t.bucket[i - 1] \in Buckets
        BY <3>1, TableFacts
      <3>3. <<>> \in Seq(Data) /\ t.bucket[i - 1] \in Seq(Data)
        BY <3>2, BucketFacts
      <3> QED
        BY <3>3, Zenon DEF Chain
    <2> QED
      BY <2>1
  <1>3. PICK b : b = hash_get_entries(t)
    OBVIOUS
  <1>4. b \in Seq(Data)
    <2>1. hash_get_entries(t) = FlattenSeq(ss)
      BY Zenon DEF hash_get_entries
    <2> HIDE DEF ss, n
    <2> QED
      BY <1>1, <1>2, <1>3, <2>1, FlattenData
  <1>5. \A e : e \in Has(b) => e \in Entries
    <2>1. \A e : e \in Has(b) <=> e # NULL /\ \E k \in 1..Len(b) : b[k] = e
      BY <1>4, HasFacts
    <2>2. \A k \in 1..Len(b) : b[k] \in Data
      BY <1>4
    <2> QED
      BY <2>1, <2>2 DEF Data
  <1> QED
    BY <1>3, <1>5 DEF Has

-----------------------------------------------------------------------------
(* The invariant. *)

\* The user has lost no entry: what was inserted and neither deleted nor cleared
\* is in the table.
NothingLost == status = "ok" => members \subseteq Stored(table)

\* The table is sound and has what the user thinks it has.
HashInv ==
  /\ Sound(table) /\ tuning \in Tunings
  /\ members \subseteq Entries /\ freed \subseteq Entries
  /\ status \in {"ok", "freed", "abort", "segv"}
  /\ NothingLost

\* hash_initialize() makes a sound table.
LEMMA InitHash == Init => HashInv
  <1> SUFFICES ASSUME Init
               PROVE  HashInv
    OBVIOUS
  <1>1. PICK c \in Sizes, u \in Tunings, r \in BOOLEAN : hash_initialize(c, u, r)
    BY DEF Init
  <1>2. c \in 0..SIZE_MAX /\ u \in Tuning
    BY HashAssumption
  <1>3. PICK n : n = compute_bucket_size(c, u)
    OBVIOUS
  <1>4. Prime(n) /\ table = NewTable(n) /\ tuning = u
    BY <1>1, <1>2, <1>3, BucketSize DEF hash_initialize
  <1>5. PICK t : t = NewTable(n)
    OBVIOUS
  <1>6. t \in Tables /\ WellPlaced(t) /\ Stored(t) = {} /\ t.n_buckets = n
    <2>1. n \in Nat \ {0} /\ 0 \in Nat
      BY <1>4 DEF Prime
    <2> QED
      BY <1>5, <2>1, NewTableFacts
  <1> QED
    BY <1>4, <1>5, <1>6 DEF HashInv, NothingLost, Sound, Init

\* A call that is applied: what it returned, and what that means for the user.
LEMMA Applied ==
  ASSUME NEW r, NEW op, NEW e, Apply(r, op, e)
  PROVE  /\ table' = r.table /\ tuning' = tuning /\ succeeded' = r.ok
         /\ status' \in {"ok", "abort"} /\ (status' = "ok" <=> ~r.abort)
         /\ freed' \subseteq freed
  BY DEF Apply

\* A user's comparator that crashes leaves the table alone.
LEMMA SegvKeeps ==
  ASSUME HashInv, Segv
  PROVE  HashInv' /\ status' = "segv" /\ table' = table
  BY DEF HashInv, NothingLost, Segv

\* Each insertion keeps the invariant, and loses nothing if it fails.
LEMMA InsertStep ==
  ASSUME HashInv, NEW e \in Entries, NEW mem \in Mallocs, insert(e, mem)
  PROVE  HashInv' /\ (~succeeded' /\ status' = "ok" => Stored(table') = Stored(table))
  <1>1. CASE Segv
    BY <1>1, SegvKeeps
  <1>2. CASE ~Segv
    <2>1. PICK r : /\ r = hash_insert(table, e, tuning, mem) /\ Apply(r, "insert", e)
                   /\ members' = IF r.ok THEN members \cup {e} ELSE members
      BY <1>2 DEF insert
    <2>2. WholeInsert(r, table, e)
      <3>1. Sound(table) /\ tuning \in Tuning /\ mem \in Nat
        BY HashAssumption DEF HashInv
      <3> QED
        BY <2>1, <3>1, InsertKeeps, Zenon
    <2>3. /\ Sound(table') /\ (status' = "ok" <=> ~r.abort) /\ (succeeded' <=> r.ok)
          /\ status' \in {"ok", "abort"} /\ tuning' = tuning /\ freed' \subseteq freed
          /\ table' = r.table
      BY <2>1, <2>2, Applied DEF WholeInsert
    <2>4. /\ status' = "ok" /\ ~succeeded' => Stored(table') = Stored(table)
          /\ status' = "ok" /\ r.ok => Stored(table') = Stored(table) \cup {e}
          /\ status' = "ok" /\ ~r.ok => Stored(table') = Stored(table)
      BY <2>2, <2>3 DEF WholeInsert
    <2>5. status = "ok"
      BY DEF insert, CanCall
    <2>6. members' \subseteq Entries /\ NothingLost'
      BY <2>1, <2>4, <2>5 DEF HashInv, NothingLost
    <2> QED
      BY <2>3, <2>4, <2>6 DEF HashInv
  <1> QED
    BY <1>1, <1>2

\* So does each deletion.
LEMMA DeleteStep ==
  ASSUME HashInv, NEW e \in Entries, NEW mem \in Mallocs, delete(e, mem)
  PROVE  HashInv' /\ (~succeeded' /\ status' = "ok" => Stored(table') = Stored(table))
  <1>1. CASE Segv
    BY <1>1, SegvKeeps
  <1>2. CASE ~Segv
    <2>1. PICK r : /\ r = hash_delete(table, e, tuning, mem) /\ Apply(r, "delete", e)
                   /\ members' = IF r.ok THEN members \ {e} ELSE members
      BY <1>2 DEF delete
    <2>2. WholeDelete(r, table, e)
      <3>1. Sound(table) /\ tuning \in Tuning /\ mem \in Nat
        BY HashAssumption DEF HashInv
      <3> QED
        BY <2>1, <3>1, DeleteKeeps, Zenon
    <2>3. /\ Sound(table') /\ (status' = "ok" <=> ~r.abort) /\ (succeeded' <=> r.ok)
          /\ status' \in {"ok", "abort"} /\ tuning' = tuning /\ freed' \subseteq freed
          /\ table' = r.table
      BY <2>1, <2>2, Applied DEF WholeDelete
    <2>4. /\ status' = "ok" /\ ~succeeded' => Stored(table') = Stored(table)
          /\ status' = "ok" /\ r.ok => Stored(table') = Stored(table) \ {e}
          /\ status' = "ok" /\ ~r.ok => Stored(table') = Stored(table)
      BY <2>2, <2>3 DEF WholeDelete
    <2>5. status = "ok"
      BY DEF delete, CanCall
    <2>6. members' \subseteq Entries /\ NothingLost'
      BY <2>1, <2>4, <2>5 DEF HashInv, NothingLost
    <2> QED
      BY <2>3, <2>4, <2>6 DEF HashInv
  <1> QED
    BY <1>1, <1>2

\* And each rehash that the user asks for, finished, undone or not begun.
LEMMA RehashStep ==
  ASSUME HashInv, NEW c \in Sizes, NEW mem \in Mallocs, rehash(c, mem)
  PROVE  HashInv' /\ (~succeeded' /\ status' = "ok" => Stored(table') = Stored(table))
  <1>1. CASE Segv
    BY <1>1, SegvKeeps
  <1>2. CASE ~Segv
    <2>1. PICK r : /\ r = hash_rehash(table, c, tuning, mem) /\ UNCHANGED members
                   /\ Apply(Done(r.table, r.ok, r.abort, r.begun), "rehash", NULL)
      BY <1>2 DEF rehash
    <2>2. WholeRehash(r, table)
      <3>1. Sound(table) /\ tuning \in Tuning /\ mem \in Nat /\ c \in 0..SIZE_MAX
        BY HashAssumption DEF HashInv
      <3> QED
        BY <2>1, <3>1, RehashKeeps, Zenon
    <2>3. PICK d : d = Done(r.table, r.ok, r.abort, r.begun)
      OBVIOUS
    <2>4. d.table = r.table /\ d.abort = r.abort
      BY <2>3, Zenon DEF Done
    <2>5. /\ table' = r.table /\ tuning' = tuning /\ status' \in {"ok", "abort"}
          /\ (status' = "ok" => ~r.abort) /\ freed' \subseteq freed
      <3>1. Apply(d, "rehash", NULL)
        BY <2>1, <2>3
      <3> QED
        BY <2>4, <3>1, Applied
    <2>6. Sound(table') /\ (status' = "ok" => Stored(table') = Stored(table))
      BY <2>2, <2>5 DEF WholeRehash
    <2>7. status = "ok" /\ members' = members
      BY <2>1 DEF rehash, CanCall
    <2>8. NothingLost'
      BY <2>6, <2>7 DEF HashInv, NothingLost
    <2> QED
      BY <2>5, <2>6, <2>7, <2>8 DEF HashInv
  <1> QED
    BY <1>1, <1>2

\* The calls that take no entry and no memory.
LEMMA OtherSteps ==
  ASSUME HashInv, clear \/ free \/ Ended \/ (\E u \in Tunings : set_tuning(u))
  PROVE  HashInv' /\ (~succeeded' /\ status' = "ok" => Stored(table') = Stored(table))
  <1>1. Range(hash_get_entries(table)) \ {NULL} \subseteq Entries
    BY EntriesListed DEF HashInv, Sound
  <1>2. CASE clear
    <2>1. Sound(table')
      BY <1>2, ClearKeeps DEF HashInv, clear
    <2> QED
      BY <1>1, <1>2, <2>1 DEF HashInv, NothingLost, clear, CanCall
  <1>3. CASE free
    <2>1. freed' \subseteq Entries
      BY <1>1, <1>3 DEF HashInv, free
    <2> QED
      BY <1>3, <2>1 DEF HashInv, NothingLost, free
  <1>4. CASE Ended
    BY <1>4 DEF HashInv, NothingLost, Ended, vars
  <1>5. CASE \E u \in Tunings : set_tuning(u)
    BY <1>5 DEF HashInv, NothingLost, set_tuning
  <1> QED
    BY <1>2, <1>3, <1>4, <1>5

\* No step loses an entry of a table, or puts one where it is not found.
LEMMA HashSteps ==
  ASSUME HashInv, [Next]_vars
  PROVE  HashInv' /\ (Next => (~succeeded' /\ status' = "ok" => Stored(table') = Stored(table)))
  <1>1. ASSUME NEW e \in Entries, NEW mem \in Mallocs, insert(e, mem)
        PROVE  HashInv' /\ (~succeeded' /\ status' = "ok" => Stored(table') = Stored(table))
    BY <1>1, InsertStep
  <1>2. ASSUME NEW e \in Entries, NEW mem \in Mallocs, delete(e, mem)
        PROVE  HashInv' /\ (~succeeded' /\ status' = "ok" => Stored(table') = Stored(table))
    BY <1>2, DeleteStep
  <1>3. ASSUME NEW c \in Sizes, NEW mem \in Mallocs, rehash(c, mem)
        PROVE  HashInv' /\ (~succeeded' /\ status' = "ok" => Stored(table') = Stored(table))
    BY <1>3, RehashStep
  <1>4. CASE UNCHANGED vars
    BY <1>4 DEF HashInv, NothingLost, vars
  <1>5. CASE Next
    BY <1>1, <1>2, <1>3, <1>5, OtherSteps DEF Next
  <1> QED
    BY <1>4, <1>5

\* Every reachable state satisfies the invariant.
THEOREM HashInvariant == Spec => []HashInv
  <1>1. HashInv /\ [Next]_vars => HashInv'
    BY HashSteps
  <1> QED
    BY <1>1, InitHash, PTL DEF Spec

\* The table is a struct hash_table with every entry once, in the bucket it
\* hashes to: through insertions, deletions, rehashes that end, that are undone
\* and that end in abort(), for every number of entries and every malloc().
THEOREM PlacedOnceCorrect == Spec => []PlacedOnce
  <1>1. HashInv => PlacedOnce
    <2> SUFFICES ASSUME HashInv
                 PROVE  PlacedOnce
      OBVIOUS
    <2>1. table \in Tables /\ WellPlaced(table) /\ Prime(table.n_buckets)
      BY DEF HashInv, Sound
    <2>2. HashTypeOK
      <3>1. ASSUME NEW i \in DOMAIN table.bucket
            PROVE  table.bucket[i] \in Seq(Entries \cup {NULL}) /\ table.bucket[i] # <<>>
        BY <2>1, TableFacts DEF Buckets, Data
      <3>2. {table.n_buckets_used, table.n_entries} \subseteq 0..(SizeMod - 1) /\ table.free \in Nat
        BY <2>1, TableFacts DEF Counts, SIZE_MAX
      <3>3. table.n_buckets = next_prime(table.n_buckets)
        BY <2>1 DEF Prime
      <3> QED
        BY <3>1, <3>2, <3>3 DEF HashTypeOK, HashInv
    <2>3. ASSUME NEW e \in Stored(table), NEW i \in DOMAIN table.bucket,
                 e \in Range(table.bucket[i])
          PROVE  i = Hash(e, table)
      BY <2>1, <2>3 DEF WellPlaced, Has, Stored
    <2>4. ASSUME NEW e \in Stored(table), NEW k \in DOMAIN table.bucket[Hash(e, table)],
                 NEW m \in DOMAIN table.bucket[Hash(e, table)],
                 table.bucket[Hash(e, table)][k] = e, table.bucket[Hash(e, table)][m] = e
          PROVE  m = k
      <3>1. e # NULL
        BY DEF Stored
      <3>2. Hash(e, table) \in DOMAIN table.bucket
        <4>1. e \in Entries
          BY <2>1, StoredFacts
        <4> QED
          BY <2>1, <4>1, TableFacts DEF Data
      <3>3. Once(table.bucket[Hash(e, table)])
        BY <2>1, <3>2 DEF WellPlaced
      <3> QED
        BY <2>4, <3>1, <3>3 DEF Once
    <2> QED
      BY <2>2, <2>3, <2>4 DEF PlacedOnce
  <1> QED
    BY <1>1, HashInvariant, PTL

\* A call that fails loses nothing, nor does it add anything.
THEOREM FailureLosesNothingCorrect == Spec => FailureLosesNothing
  <1>1. HashInv /\ [Next]_vars =>
          [~succeeded' /\ status' = "ok" => Stored(table') = Stored(table)]_vars
    BY HashSteps
  <1> QED
    BY <1>1, HashInvariant, PTL DEF Spec, FailureLosesNothing

\* What was inserted and neither deleted nor cleared is in the table, whatever
\* rehashes and failures of malloc() there were, until the process ends.
THEOREM NothingLostCorrect == Spec => []NothingLost
  <1>1. HashInv => NothingLost
    BY DEF HashInv
  <1> QED
    BY <1>1, HashInvariant, PTL
=============================================================================
