----------------------------- MODULE ConfigProofs ----------------------------
(***************************************************************************)
(* What ct_applet_load_config accepts and refuses, for every build, every  *)
(* pair of files and all surroundings.  A file is read once by the parser, *)
(* line by line with its tables of seen keys, and once as a whole by       *)
(* Header, Under and Read; the lemmas say what one more line does to the   *)
(* second reading, and the invariant that the two agree.                   *)
(***************************************************************************)
EXTENDS Config, FiniteSetTheorems, SequenceTheorems, WellFoundedInduction, TLAPS

IsText(t) == \E S : t \in Seq(S)

\* u is t with one more line, l.
OneMore(t, l, u) ==
  /\ IsText(t) /\ Len(t) \in Nat /\ DOMAIN t = 1..Len(t)
  /\ IsText(u) /\ Len(u) = Len(t) + 1 /\ DOMAIN u = 1..(Len(t) + 1)
  /\ u[Len(t) + 1] = l
  /\ \A i \in 1..Len(t) : u[i] = t[i]

-----------------------------------------------------------------------------
(***************************************************************************)
(* Sequences and greatest elements.                                        *)
(***************************************************************************)
LEMMA TextShape ==
  ASSUME NEW t, IsText(t)
  PROVE  Len(t) \in Nat /\ DOMAIN t = 1..Len(t)
<1> PICK S : t \in Seq(S)
  BY DEF IsText
<1> QED
  BY LenProperties

LEMMA EmptyText == IsText(<<>>) /\ Len(<<>>) = 0 /\ DOMAIN <<>> = {}
<1>1. <<>> \in Seq({}) /\ Len(<<>>) = 0
  BY EmptySeq
<1> QED
  BY <1>1 DEF IsText

LEMMA EmptyIffNone ==
  ASSUME NEW t, IsText(t)
  PROVE  t = <<>> <=> Len(t) = 0
<1> PICK S : t \in Seq(S)
  BY DEF IsText
<1> QED
  BY EmptySeq

LEMMA AppendIsOneMore ==
  ASSUME NEW t, IsText(t), NEW l, NEW u, u = Append(t, l)
  PROVE  OneMore(t, l, u)
<1> PICK S : t \in Seq(S)
  BY DEF IsText
<1>1. t \in Seq(S \cup {l}) /\ l \in S \cup {l}
  BY SeqMonotonic
<1>2. /\ u \in Seq(S \cup {l})
      /\ Len(u) = Len(t) + 1
      /\ \A i \in 1..Len(t) : u[i] = t[i]
      /\ u[Len(t) + 1] = l
  BY <1>1, AppendProperties
<1>3. DOMAIN u = 1..Len(u)
  BY <1>2, LenProperties
<1> QED
  BY <1>2, <1>3, TextShape DEF OneMore, IsText

Put(t, n, e) == [t EXCEPT ![n] = e]

\* Replacing an element leaves a sequence of the same length.
LEMMA PutIsText ==
  ASSUME NEW t, IsText(t), NEW n \in DOMAIN t, NEW e
  PROVE  /\ IsText(Put(t, n, e)) /\ Len(Put(t, n, e)) = Len(t)
         /\ DOMAIN Put(t, n, e) = DOMAIN t
         /\ Put(t, n, e)[n] = e
         /\ \A i \in DOMAIN t : i # n => Put(t, n, e)[i] = t[i]
<1> PICK S : t \in Seq(S)
  BY DEF IsText
<1> PICK u : u = [t EXCEPT ![n] = e]
  OBVIOUS
<1>1. t \in Seq(S \cup {e}) /\ e \in S \cup {e}
  BY SeqMonotonic
<1>2. DOMAIN t = 1..Len(t)
  BY TextShape
<1>3. /\ u \in Seq(S \cup {e}) /\ Len(u) = Len(t)
      /\ \A j \in 1..Len(t) : u[j] = IF j = n THEN e ELSE t[j]
  BY <1>1, <1>2, ExceptSeq
<1>4. u = Put(t, n, e)
  BY DEF Put
<1> QED
  BY <1>2, <1>3, <1>4 DEF IsText

LEMMA ElementsMore ==
  ASSUME NEW t, NEW l, NEW u, OneMore(t, l, u)
  PROVE  \A i \in DOMAIN u : u[i] = l \/ (i \in DOMAIN t /\ u[i] = t[i])
<1>1. /\ Len(t) \in Nat /\ DOMAIN t = 1..Len(t) /\ DOMAIN u = 1..(Len(t) + 1)
      /\ u[Len(t) + 1] = l /\ \A i \in 1..Len(t) : u[i] = t[i]
  BY DEF OneMore
<1>2. ASSUME NEW i \in DOMAIN u PROVE u[i] = l \/ (i \in DOMAIN t /\ u[i] = t[i])
  <2>1. CASE i = Len(t) + 1
    BY <1>1, <2>1
  <2>2. CASE i # Len(t) + 1
    <3>1. i \in 1..Len(t)
      BY <1>1, <2>2
    <3> QED BY <1>1, <3>1
  <2> QED BY <2>1, <2>2
<1> QED
  BY <1>2

LEMMA ElementsPut ==
  ASSUME NEW t, IsText(t), NEW n \in DOMAIN t, NEW e
  PROVE  \A i \in DOMAIN Put(t, n, e) :
           Put(t, n, e)[i] = e \/ (i \in DOMAIN t /\ Put(t, n, e)[i] = t[i])
<1>1. PICK u : u = Put(t, n, e)
  OBVIOUS
<1>2. DOMAIN u = DOMAIN t /\ u[n] = e /\ \A i \in DOMAIN t : i # n => u[i] = t[i]
  BY <1>1, PutIsText
<1>3. ASSUME NEW i \in DOMAIN u PROVE u[i] = e \/ (i \in DOMAIN t /\ u[i] = t[i])
  <2>1. CASE i = n
    BY <1>2, <2>1
  <2>2. CASE i # n
    BY <1>2, <2>2
  <2> QED BY <2>1, <2>2
<1> QED
  BY <1>1, <1>3

LEMMA Least ==
  ASSUME NEW S \in SUBSET Nat, S # {}
  PROVE  \E x \in S : \A y \in S : x <= y
<1> DEFINE R == {p \in Nat \X Nat : p[1] < p[2]}
<1>1. IsWellFoundedOn(R, Nat)
  BY NatLessThanWellFounded, Zenon DEF OpToRel
<1>2. PICK x \in S : \A y \in S : <<y, x>> \notin R
  <2> HIDE DEF R
  <2> QED BY <1>1, WFMin
<1>3. ASSUME NEW y \in S PROVE x <= y
  <2>1. x \in Nat /\ y \in Nat /\ <<y, x>> \in Nat \X Nat
    OBVIOUS
  <2>2. ~(<<y, x>>[1] < <<y, x>>[2])
    BY <1>2, <2>1
  <2>3. ~(y < x)
    BY <2>2
  <2> QED BY <2>1, <2>3
<1> QED BY <1>3

LEMMA MaxOf ==
  ASSUME NEW n \in Nat, NEW S \in SUBSET (0..n), S # {}
  PROVE  Max(S) \in S /\ \A y \in S : y <= Max(S)
<1> DEFINE T == {k \in Nat : n - k \in S}
<1>1. T # {}
  <2> PICK x \in S : TRUE
    OBVIOUS
  <2>1. n - x \in Nat /\ n - (n - x) = x
    OBVIOUS
  <2> QED BY <2>1
<1>2. PICK k \in T : \A j \in T : k <= j
  <2>1. T \in SUBSET Nat
    OBVIOUS
  <2> HIDE DEF T
  <2> QED BY <1>1, <2>1, Least
<1>3. n - k \in S /\ k \in Nat
  OBVIOUS
<1>4. ASSUME NEW y \in S PROVE n - k >= y
  <2>1. n - y \in Nat /\ n - (n - y) = y
    OBVIOUS
  <2>2. n - y \in T
    BY <2>1
  <2>3. k <= n - y
    BY <1>2, <2>2
  <2>4. y \in Nat
    OBVIOUS
  <2> HIDE DEF T
  <2> QED BY <1>3, <2>3, <2>4
<1> HIDE DEF T
<1>5. \E x \in S : \A y \in S : x >= y
  BY <1>3, <1>4
<1>6. Max(S) \in S /\ \A y \in S : Max(S) >= y
  BY <1>5 DEF Max
<1>7. \A y \in S : y \in Int
  OBVIOUS
<1> QED
  BY <1>6, <1>7

LEMMA MaxIs ==
  ASSUME NEW n \in Nat, NEW S \in SUBSET (0..n), NEW m \in S, \A y \in S : y <= m
  PROVE  Max(S) = m
<1>1. S # {} /\ S \in SUBSET (0..n) /\ \A x \in S : x \in Int
  OBVIOUS
<1>2. Max(S) \in S /\ m <= Max(S) /\ Max(S) <= m
  BY <1>1, MaxOf
<1>3. Max(S) \in Int /\ m \in Int
  BY <1>1, <1>2
<1> QED
  BY <1>2, <1>3

-----------------------------------------------------------------------------
(***************************************************************************)
(* The header a line stands under, and the lines under a header.           *)
(***************************************************************************)
LEMMA HeaderOf ==
  ASSUME NEW t, NEW i \in Nat
  PROVE  /\ Header(t, i) \in 0..i
         /\ Header(t, i) = 0 \/ t[Header(t, i)].kind = "section"
         /\ \A j \in 1..i : j > Header(t, i) => t[j].kind # "section"
<1> DEFINE S == {0} \cup {j \in 1..i : t[j].kind = "section"}
<1>1. S \in SUBSET (0..i) /\ S # {}
  OBVIOUS
<1>2. Max(S) \in S /\ \A y \in S : y <= Max(S)
  <2> HIDE DEF S
  <2> QED BY <1>1, MaxOf
<1>3. Header(t, i) = Max(S)
  BY DEF Header
<1>4. ASSUME NEW j \in 1..i, j > Max(S) PROVE t[j].kind # "section"
  <2>1. Max(S) \in Int /\ ~(j <= Max(S))
    BY <1>1, <1>2, <1>4
  <2> QED
    BY <1>2, <2>1
<1> QED
  BY <1>1, <1>2, <1>3, <1>4

LEMMA HeaderIs ==
  ASSUME NEW t, NEW i \in Nat, NEW h \in 0..i,
         h = 0 \/ t[h].kind = "section",
         \A j \in 1..i : j > h => t[j].kind # "section"
  PROVE  Header(t, i) = h
<1>1. PICK g : g = Header(t, i)
  OBVIOUS
<1>2. /\ g \in 0..i
      /\ g = 0 \/ t[g].kind = "section"
      /\ \A j \in 1..i : j > g => t[j].kind # "section"
  BY <1>1, HeaderOf
<1>3. ~(g > h) /\ ~(h > g)
  BY <1>2
<1> QED
  BY <1>1, <1>2, <1>3

\* A line more changes the header of no line before it.
LEMMA HeaderKept ==
  ASSUME NEW t, NEW l, NEW u, OneMore(t, l, u), NEW i \in 0..Len(t)
  PROVE  Header(u, i) = Header(t, i)
<1>1. Len(t) \in Nat /\ i \in Nat /\ \A j \in 1..Len(t) : u[j] = t[j]
  BY DEF OneMore
<1>2. PICK g : g = Header(t, i)
  OBVIOUS
<1>3. /\ g \in 0..i
      /\ g = 0 \/ t[g].kind = "section"
      /\ \A j \in 1..i : j > g => t[j].kind # "section"
  BY <1>1, <1>2, HeaderOf
<1>4. g = 0 \/ u[g].kind = "section"
  BY <1>1, <1>3
<1>5. \A j \in 1..i : j > g => u[j].kind # "section"
  BY <1>1, <1>3
<1> QED
  BY <1>1, <1>2, <1>3, <1>4, <1>5, HeaderIs

LEMMA HeaderOfLast ==
  ASSUME NEW t, NEW l, NEW u, OneMore(t, l, u)
  PROVE  Header(u, Len(t) + 1) =
           IF l.kind = "section" THEN Len(t) + 1 ELSE Header(t, Len(t))
<1>1. Len(t) \in Nat /\ Len(t) + 1 \in Nat /\ u[Len(t) + 1] = l
  BY DEF OneMore
<1>2. CASE l.kind = "section"
  <2>1. Len(t) + 1 \in 0..(Len(t) + 1)
    BY <1>1
  <2>2. \A j \in 1..(Len(t) + 1) : ~(j > Len(t) + 1)
    BY <1>1
  <2> QED
    BY <1>1, <1>2, <2>1, <2>2, HeaderIs
<1>3. CASE l.kind # "section"
  <2>1. PICK g : g = Header(t, Len(t))
    OBVIOUS
  <2>2. g = Header(u, Len(t))
    BY <1>1, <2>1, HeaderKept
  <2>3. /\ g \in 0..Len(t)
        /\ g = 0 \/ u[g].kind = "section"
        /\ \A j \in 1..Len(t) : j > g => u[j].kind # "section"
    BY <1>1, <2>2, HeaderOf
  <2>4. g \in 0..(Len(t) + 1)
    BY <1>1, <2>3
  <2>5. \A j \in 1..(Len(t) + 1) : j > g => u[j].kind # "section"
    BY <1>1, <1>3, <2>3
  <2> QED
    BY <1>1, <1>3, <2>1, <2>3, <2>4, <2>5, HeaderIs
<1> QED
  BY <1>2, <1>3

LEMMA UnderIs ==
  ASSUME NEW t, IsText(t), NEW H, NEW k, NEW i
  PROVE  /\ i \in Under(t, H, k) <=>
              /\ i \in 1..Len(t)
              /\ t[i].kind = "key" /\ t[i].key = k /\ Header(t, i) \in H
         /\ Under(t, H, k) \subseteq 1..Len(t)
BY TextShape DEF Under

LEMMA UnderFinite ==
  ASSUME NEW t, IsText(t), NEW H, NEW k
  PROVE  IsFiniteSet(Under(t, H, k)) /\ Cardinality(Under(t, H, k)) \in Nat
<1>1. Under(t, H, k) \in SUBSET (1..Len(t)) /\ Len(t) \in Nat
  BY UnderIs, TextShape
<1>2. IsFiniteSet(1..Len(t))
  BY <1>1, FS_Interval
<1> QED
  BY <1>1, <1>2, FS_Subset, FS_CardinalityType

\* A line that is not a key is under no header.
LEMMA UnderOther ==
  ASSUME NEW t, NEW l, NEW u, OneMore(t, l, u), l.kind # "key", NEW H, NEW k
  PROVE  Under(u, H, k) = Under(t, H, k)
<1>1. /\ IsText(t) /\ IsText(u) /\ Len(u) = Len(t) + 1 /\ Len(t) \in Nat
      /\ u[Len(t) + 1] = l /\ \A i \in 1..Len(t) : u[i] = t[i]
  BY DEF OneMore
<1>2. ASSUME NEW i PROVE i \in Under(u, H, k) <=> i \in Under(t, H, k)
  <2>1. CASE i \in 1..Len(t)
    BY <1>1, <2>1, UnderIs, HeaderKept
  <2>2. CASE i \notin 1..Len(t)
    BY <1>1, <2>2, UnderIs
  <2> QED BY <2>1, <2>2
<1> QED
  BY <1>2

\* A key is one more line of that key under its header.
LEMMA UnderKey ==
  ASSUME NEW t, NEW l, NEW u, OneMore(t, l, u), l.kind = "key", NEW H, NEW k
  PROVE  Under(u, H, k) = Under(t, H, k) \cup
           (IF l.key = k /\ Header(t, Len(t)) \in H THEN {Len(t) + 1} ELSE {})
<1>1. /\ IsText(t) /\ IsText(u) /\ Len(u) = Len(t) + 1 /\ Len(t) \in Nat
      /\ u[Len(t) + 1] = l /\ \A i \in 1..Len(t) : u[i] = t[i]
  BY DEF OneMore
<1>2. Header(u, Len(t) + 1) = Header(t, Len(t))
  BY HeaderOfLast
<1>3. ASSUME NEW i
      PROVE  i \in Under(u, H, k) <=>
               \/ i \in Under(t, H, k)
               \/ l.key = k /\ Header(t, Len(t)) \in H /\ i = Len(t) + 1
  <2>1. CASE i \in 1..Len(t)
    <3>1. i # Len(t) + 1
      BY <1>1, <2>1
    <3> QED BY <1>1, <2>1, <3>1, UnderIs, HeaderKept
  <2>2. CASE i = Len(t) + 1
    <3>1. i \in 1..Len(u) /\ i \notin 1..Len(t)
      BY <1>1, <2>2
    <3> QED BY <1>1, <1>2, <2>2, <3>1, UnderIs
  <2>3. CASE i \notin 1..(Len(t) + 1)
    <3>1. i \notin 1..Len(t) /\ i # Len(t) + 1
      BY <1>1, <2>3
    <3> QED BY <1>1, <2>3, <3>1, UnderIs
  <2> QED BY <1>1, <2>1, <2>2, <2>3
<1> QED
  BY <1>3

\* Nothing is under a header that is not there yet.
LEMMA UnderLater ==
  ASSUME NEW t, IsText(t), NEW H, NEW G, NEW k,
         \A h : h \in 0..Len(t) => (h \in H <=> h \in G)
  PROVE  Under(t, H, k) = Under(t, G, k)
<1>1. Len(t) \in Nat
  BY TextShape
<1>2. ASSUME NEW i PROVE i \in Under(t, H, k) <=> i \in Under(t, G, k)
  <2>1. CASE i \in 1..Len(t)
    <3>1. i \in Nat /\ Header(t, i) \in 0..i
      BY <1>1, <2>1, HeaderOf
    <3>2. Header(t, i) \in 0..Len(t)
      BY <1>1, <2>1, <3>1
    <3> QED BY <3>2, UnderIs
  <2>2. CASE i \notin 1..Len(t)
    BY <2>2, UnderIs
  <2> QED BY <2>1, <2>2
<1> QED
  BY <1>2

\* Read finds the value of the last such line.
LEMMA ReadNone ==
  ASSUME NEW t, NEW H, NEW k, NEW d, Under(t, H, k) = {}
  PROVE  Read(t, H, k, d) = d
BY DEF Read

LEMMA ReadOther ==
  ASSUME NEW t, NEW l, NEW u, OneMore(t, l, u), NEW H, NEW G, NEW k, NEW d,
         Under(u, H, k) = Under(t, G, k)
  PROVE  Read(u, H, k, d) = Read(t, G, k, d)
<1>1. /\ IsText(t) /\ Len(t) \in Nat
      /\ \A i \in 1..Len(t) : u[i] = t[i]
  BY DEF OneMore
<1>2. Under(t, G, k) \subseteq 1..Len(t)
  BY <1>1, UnderIs
<1>3. CASE Under(t, G, k) = {}
  BY <1>3 DEF Read
<1>4. CASE Under(t, G, k) # {}
  <2>1. Under(t, G, k) \in SUBSET (0..Len(t))
    BY <1>1, <1>2
  <2>2. Max(Under(t, G, k)) \in 1..Len(t)
    BY <1>1, <1>2, <1>4, <2>1, MaxOf
  <2>3. u[Max(Under(t, G, k))] = t[Max(Under(t, G, k))]
    BY <1>1, <2>2
  <2> QED
    BY <1>4, <2>3 DEF Read
<1> QED
  BY <1>3, <1>4

LEMMA ReadKey ==
  ASSUME NEW t, NEW l, NEW u, OneMore(t, l, u), l.kind = "key", NEW H, NEW d,
         Header(t, Len(t)) \in H
  PROVE  Read(u, H, l.key, d) = Value(l.key, l.value)
<1>1. IsText(t) /\ Len(t) \in Nat /\ u[Len(t) + 1] = l
  BY DEF OneMore
<1>2. Under(u, H, l.key) = Under(t, H, l.key) \cup {Len(t) + 1}
  BY UnderKey
<1>3. Under(t, H, l.key) \subseteq 1..Len(t)
  BY <1>1, UnderIs
<1>4. PICK S : S = Under(u, H, l.key)
  OBVIOUS
<1>5. /\ S \in SUBSET (0..(Len(t) + 1)) /\ Len(t) + 1 \in S /\ Len(t) + 1 \in Nat
      /\ \A y \in S : y <= Len(t) + 1
  BY <1>1, <1>2, <1>3, <1>4
<1>6. Max(S) = Len(t) + 1
  BY <1>5, MaxIs
<1> QED
  BY <1>1, <1>4, <1>5, <1>6 DEF Read

\* What a key says of the other keys, and of the other headers: nothing.
LEMMA ReadElsewhere ==
  ASSUME NEW t, NEW l, NEW u, OneMore(t, l, u), l.kind = "key", NEW H, NEW k, NEW d,
         l.key # k \/ Header(t, Len(t)) \notin H
  PROVE  /\ Under(u, H, k) = Under(t, H, k)
         /\ Read(u, H, k, d) = Read(t, H, k, d)
<1>1. ~(l.key = k /\ Header(t, Len(t)) \in H)
  OBVIOUS
<1>2. Under(u, H, k) = Under(t, H, k) \cup
        (IF l.key = k /\ Header(t, Len(t)) \in H THEN {Len(t) + 1} ELSE {})
  BY UnderKey
<1>3. Under(u, H, k) = Under(t, H, k)
  BY <1>1, <1>2
<1> QED
  BY <1>3, ReadOther

-----------------------------------------------------------------------------
(***************************************************************************)
(* The headers of a file, and their places.                                *)
(***************************************************************************)
LEMMA HeadersMore ==
  ASSUME NEW t, NEW l, NEW u, OneMore(t, l, u), NEW j
  PROVE  /\ j \in Headers(u) <=> \/ j \in Headers(t)
                                 \/ j = Len(t) + 1 /\ l.kind = "section"
         /\ j \in Headers(t) => j \in 1..Len(t) /\ t[j] = u[j] /\ t[j].kind = "section"
<1>1. /\ Len(t) \in Nat /\ DOMAIN t = 1..Len(t) /\ DOMAIN u = 1..(Len(t) + 1)
      /\ u[Len(t) + 1] = l /\ \A i \in 1..Len(t) : u[i] = t[i]
  BY DEF OneMore
<1>2. CASE j \in 1..Len(t)
  BY <1>1, <1>2 DEF Headers
<1>3. CASE j \notin 1..Len(t)
  BY <1>1, <1>3 DEF Headers
<1> QED
  BY <1>2, <1>3

LEMMA HeadersSame ==
  ASSUME NEW t, NEW l, NEW u, OneMore(t, l, u), l.kind # "section"
  PROVE  /\ Headers(u) = Headers(t)
         /\ CommonHeaders(u) = CommonHeaders(t)
         /\ OtherHeaders(u) = OtherHeaders(t)
<1>1. \A j : j \in Headers(u) <=> j \in Headers(t)
  BY HeadersMore
<1>2. \A j : j \in Headers(t) => t[j] = u[j]
  BY HeadersMore
<1> QED
  BY <1>1, <1>2 DEF CommonHeaders, OtherHeaders

LEMMA HeadersAdded ==
  ASSUME NEW t, NEW l, NEW u, OneMore(t, l, u), l.kind = "section"
  PROVE  /\ Headers(u) = Headers(t) \cup {Len(t) + 1}
         /\ CommonHeaders(u) = CommonHeaders(t) \cup
              (IF l.name = "common" THEN {Len(t) + 1} ELSE {})
         /\ OtherHeaders(u) = OtherHeaders(t) \cup
              (IF l.name = "common" THEN {} ELSE {Len(t) + 1})
<1>1. \A j : j \in Headers(u) <=> j \in Headers(t) \/ j = Len(t) + 1
  BY HeadersMore
<1>2. \A j : j \in Headers(t) => t[j] = u[j]
  BY HeadersMore
<1>3. u[Len(t) + 1] = l
  BY DEF OneMore
<1> QED
  BY <1>1, <1>2, <1>3 DEF CommonHeaders, OtherHeaders

LEMMA HeadersIn ==
  ASSUME NEW t, IsText(t)
  PROVE  /\ Len(t) \in Nat
         /\ Headers(t) \subseteq 1..Len(t)
         /\ CommonHeaders(t) \subseteq Headers(t)
         /\ OtherHeaders(t) \subseteq Headers(t)
BY TextShape DEF Headers, CommonHeaders, OtherHeaders

LEMMA RankFinite ==
  ASSUME NEW n \in Nat, NEW S \in SUBSET (1..n), NEW p
  PROVE  /\ IsFiniteSet(S) /\ Cardinality(S) \in Nat
         /\ IsFiniteSet({q \in S : q <= p}) /\ Rank(S, p) \in Nat
<1>1. IsFiniteSet(1..n)
  BY FS_Interval
<1>2. {q \in S : q <= p} \in SUBSET (1..n)
  OBVIOUS
<1> QED
  BY <1>1, <1>2, FS_Subset, FS_CardinalityType DEF Rank

\* The place of a header is one of the places, and the last one belongs to the
\* last header only.
LEMMA RankBounds ==
  ASSUME NEW n \in Nat, NEW S \in SUBSET (1..n), NEW p \in S
  PROVE  /\ Rank(S, p) \in 1..Cardinality(S)
         /\ (\A q \in S : q <= p) => Rank(S, p) = Cardinality(S)
         /\ (\E q \in S : q > p) => Rank(S, p) < Cardinality(S)
<1>1. PICK B : B = {q \in S : q <= p}
  OBVIOUS
<1>2. p \in Nat /\ p <= p
  OBVIOUS
<1>3. /\ IsFiniteSet(S) /\ Cardinality(S) \in Nat /\ B \in SUBSET S /\ p \in B
      /\ IsFiniteSet(B) /\ Rank(S, p) = Cardinality(B) /\ Cardinality(B) \in Nat
  BY <1>1, <1>2, RankFinite DEF Rank
<1>4. Cardinality(B) <= Cardinality(S) /\ (Cardinality(S) = Cardinality(B) => S = B)
  BY <1>3, FS_Subset
<1>5. Cardinality(B) # 0
  BY <1>3, FS_EmptySet
<1>6. (\A q \in S : q <= p) => B = S
  BY <1>1
<1>7. (\E q \in S : q > p) => B # S
  BY <1>1
<1> QED
  BY <1>3, <1>4, <1>5, <1>6, <1>7

\* T has one header more than S, at line m.
OneBelow(S, m, T) == m - 1 \in Nat /\ S \subseteq 1..(m - 1) /\ T = S \cup {m} /\ m \in Nat

\* A header below leaves the places of those above it alone and is the last.
LEMMA RankMore ==
  ASSUME NEW S, NEW m, NEW T, OneBelow(S, m, T)
  PROVE  /\ \A p \in S : Rank(T, p) = Rank(S, p)
         /\ Rank(T, m) = Cardinality(S) + 1
         /\ Cardinality(T) = Cardinality(S) + 1
<1>1. PICK n \in Nat : /\ S \in SUBSET (1..n) /\ m = n + 1 /\ T = S \cup {m}
  <2>1. m - 1 \in Nat /\ m = (m - 1) + 1 /\ S \in SUBSET (1..(m - 1)) /\ T = S \cup {m}
    BY DEF OneBelow
  <2> QED BY <2>1
<1>2. ASSUME NEW p \in S PROVE {q \in T : q <= p} = {q \in S : q <= p}
  <2>1. p \in 1..n /\ ~(m <= p)
    BY <1>1
  <2> QED BY <1>1, <2>1
<1>3. {q \in T : q <= m} = T
  <2>1. \A q \in T : q <= m
    BY <1>1
  <2> QED BY <2>1
<1>4. IsFiniteSet(S)
  BY <1>1, RankFinite
<1>5. m \notin S
  BY <1>1
<1>6. Cardinality(T) = Cardinality(S) + 1
  BY <1>1, <1>4, <1>5, FS_AddElement
<1> QED
  BY <1>2, <1>3, <1>6 DEF Rank

OneEach(S, seq) == Len(seq) = Cardinality(S)

\* A sequence with an element for each header, when a header is added below,
\* and when the element of the last header is replaced.
LEMMA PlacesMore ==
  ASSUME NEW S, NEW m, NEW T, OneBelow(S, m, T), NEW seq, NEW x, NEW v,
         OneMore(seq, x, v), OneEach(S, seq)
  PROVE  /\ Len(v) = Cardinality(T)
         /\ v[Rank(T, m)] = x
         /\ \A p \in S : v[Rank(T, p)] = seq[Rank(S, p)]
<1>1. PICK n \in Nat : S \in SUBSET (1..n) /\ T = S \cup {m}
  BY DEF OneBelow
<1>2. /\ \A p \in S : Rank(T, p) = Rank(S, p)
      /\ Rank(T, m) = Cardinality(S) + 1
      /\ Cardinality(T) = Cardinality(S) + 1
  BY RankMore
<1>3. \A p \in S : Rank(S, p) \in 1..Cardinality(S)
  BY <1>1, RankBounds
<1>4. /\ Len(v) = Cardinality(S) + 1 /\ v[Cardinality(S) + 1] = x
      /\ \A i \in 1..Cardinality(S) : v[i] = seq[i]
  BY DEF OneMore, OneEach
<1> QED
  BY <1>2, <1>3, <1>4

\* Every element has its header.
AllPlaced(S, seq) == \A i \in DOMAIN seq : \E p \in S : i = Rank(S, p)

LEMMA PlacesAll ==
  ASSUME NEW S, NEW m, NEW T, OneBelow(S, m, T), NEW seq, NEW x, NEW v,
         OneMore(seq, x, v), OneEach(S, seq), AllPlaced(S, seq)
  PROVE  AllPlaced(T, v)
<1>1. T = S \cup {m}
  BY DEF OneBelow
<1>2. (\A p \in S : Rank(T, p) = Rank(S, p)) /\ Rank(T, m) = Cardinality(S) + 1
  BY RankMore
<1>3. /\ DOMAIN v = 1..(Cardinality(S) + 1) /\ DOMAIN seq = 1..Cardinality(S)
      /\ Cardinality(S) \in Nat
  BY DEF OneMore, OneEach
<1>4. \A i \in DOMAIN v : i \in DOMAIN seq \/ i = Cardinality(S) + 1
  BY <1>3
<1> QED
  BY <1>1, <1>2, <1>4 DEF AllPlaced

\* h is the last of the headers S.
LastOf(S, h) == \E n \in Nat : S \subseteq 1..n /\ h \in S /\ \A q \in S : q <= h

LEMMA PlacesPut ==
  ASSUME NEW S, NEW h, LastOf(S, h),
         NEW seq, IsText(seq), OneEach(S, seq), NEW e
  PROVE  /\ Len(seq) \in DOMAIN seq /\ Rank(S, h) = Len(seq)
         /\ Len(Put(seq, Len(seq), e)) = Len(seq)
         /\ Put(seq, Len(seq), e)[Rank(S, h)] = e
         /\ \A p \in S : p # h => Put(seq, Len(seq), e)[Rank(S, p)] = seq[Rank(S, p)]
<1> PICK n \in Nat : S \subseteq 1..n /\ h \in S /\ \A q \in S : q <= h
  BY DEF LastOf
<1>1. S \in SUBSET (1..n) /\ DOMAIN seq = 1..Len(seq) /\ Len(seq) \in Nat
  BY TextShape
<1>2. Rank(S, h) = Len(seq) /\ Rank(S, h) \in 1..Len(seq)
  BY <1>1, RankBounds DEF OneEach
<1>3. Len(seq) \in DOMAIN seq
  BY <1>1, <1>2
<1>4. /\ Len(Put(seq, Len(seq), e)) = Len(seq) /\ Put(seq, Len(seq), e)[Len(seq)] = e
      /\ \A i \in DOMAIN seq : i # Len(seq) => Put(seq, Len(seq), e)[i] = seq[i]
  BY <1>3, PutIsText
<1>5. ASSUME NEW p \in S, p # h
      PROVE  Rank(S, p) \in DOMAIN seq /\ Rank(S, p) # Len(seq)
  <2>1. p \in 1..n /\ h \in 1..n /\ p <= h
    OBVIOUS
  <2>2. h > p
    BY <1>5, <2>1
  <2>3. Rank(S, p) \in 1..Cardinality(S) /\ Rank(S, p) < Cardinality(S)
    BY <1>1, <2>2, RankBounds
  <2> QED BY <1>1, <2>3 DEF OneEach
<1> QED
  BY <1>2, <1>3, <1>4, <1>5

LEMMA AtMostOne ==
  ASSUME NEW x
  PROVE  Cardinality({x}) <= 1 /\ Cardinality({}) <= 1
<1>1. Cardinality({x}) = 1 /\ Cardinality({}) = 0
  BY FS_Singleton, FS_EmptySet
<1> QED
  BY <1>1

\* A new header takes no line from the sections above it, and has none yet.
LEMMA CommonAtHeader ==
  ASSUME NEW t, NEW l, NEW u, OneMore(t, l, u), l.kind = "section", NEW k
  PROVE  /\ Under(u, CommonHeaders(u), k) = Under(t, CommonHeaders(t), k)
         /\ \A d : Read(u, CommonHeaders(u), k, d) = Read(t, CommonHeaders(t), k, d)
<1>1. IsText(t) /\ Len(t) \in Nat
  BY DEF OneMore
<1>2. \A h : h \in 0..Len(t) => (h \in CommonHeaders(u) <=> h \in CommonHeaders(t))
  BY <1>1, HeadersAdded
<1>3. Under(t, CommonHeaders(u), k) = Under(t, CommonHeaders(t), k)
  BY <1>1, <1>2, UnderLater
<1>4. Under(u, CommonHeaders(u), k) = Under(t, CommonHeaders(t), k)
  BY <1>3, UnderOther
<1> QED
  BY <1>4, ReadOther

LEMMA OthersAtHeader ==
  ASSUME NEW t, NEW l, NEW u, OneMore(t, l, u), l.kind = "section", NEW H, NEW k
  PROVE  /\ Under(u, H, k) = Under(t, H, k)
         /\ \A d : Read(u, H, k, d) = Read(t, H, k, d)
BY UnderOther, ReadOther

LEMMA NoneAtHeader ==
  ASSUME NEW t, NEW l, NEW u, OneMore(t, l, u), l.kind = "section",
         NEW n, n = Len(t) + 1, NEW k
  PROVE  Under(u, {n}, k) = {}
<1>1. IsText(t) /\ Len(t) \in Nat
  BY DEF OneMore
<1>2. \A h : h \in 0..Len(t) => (h \in {n} <=> h \in {})
  BY <1>1
<1>3. Under(t, {n}, k) = Under(t, {}, k)
  BY <1>1, <1>2, UnderLater
<1>4. Under(t, {}, k) = {}
  BY DEF Under
<1> QED
  BY <1>3, <1>4, UnderOther

\* The lines down to p are the same lines when the file goes on.
LEMMA BeginningKept ==
  ASSUME NEW t, NEW l, NEW u, OneMore(t, l, u), NEW p \in 1..Len(t)
  PROVE  /\ SubSeq(u, 1, p) = SubSeq(t, 1, p)
         /\ IsText(SubSeq(t, 1, p)) /\ Len(SubSeq(t, 1, p)) = p
<1> PICK S : t \in Seq(S)
  BY DEF OneMore, IsText
<1>1. Len(t) \in Nat /\ p \in Nat /\ \A i \in 1..p : t[i] \in S /\ u[i] = t[i] /\ u[i] \in S
  BY ElementOfSeq DEF OneMore
<1>2. /\ SubSeq(t, 1, p) \in Seq(S) /\ Len(SubSeq(t, 1, p)) = p
      /\ \A i \in 1..p : SubSeq(t, 1, p)[i] = t[i]
  BY <1>1, SubSeqProperties
<1>3. /\ SubSeq(u, 1, p) \in Seq(S) /\ Len(SubSeq(u, 1, p)) = p
      /\ \A i \in 1..p : SubSeq(u, 1, p)[i] = u[i]
  BY <1>1, SubSeqProperties
<1>4. SubSeq(u, 1, p) = SubSeq(t, 1, p)
  BY <1>1, <1>2, <1>3, SeqEqual
<1> QED
  BY <1>2, <1>4 DEF IsText

LEMMA AboveKept ==
  ASSUME NEW t, NEW l, NEW u, OneMore(t, l, u), NEW p \in 1..Len(t), NEW k, NEW d
  PROVE  Read(SubSeq(u, 1, p), CommonHeaders(u), k, d)
           = Read(SubSeq(t, 1, p), CommonHeaders(t), k, d)
<1>1. PICK v : v = SubSeq(t, 1, p)
  OBVIOUS
<1>2. SubSeq(u, 1, p) = v /\ IsText(v) /\ Len(v) = p /\ Len(t) \in Nat
  BY <1>1, BeginningKept DEF OneMore
<1>3. \A h : h \in 0..p => (h \in CommonHeaders(u) <=> h \in CommonHeaders(t))
  <2>1. CASE l.kind = "section"
    <3>1. \A h : h \in 0..p => h # Len(t) + 1
      BY <1>2
    <3> QED
      BY <2>1, <3>1, HeadersAdded
  <2>2. CASE l.kind # "section"
    BY <2>2, HeadersSame
  <2> QED
    BY <2>1, <2>2
<1>4. Under(v, CommonHeaders(u), k) = Under(v, CommonHeaders(t), k)
  BY <1>2, <1>3, UnderLater
<1> QED
  BY <1>1, <1>2, <1>4 DEF Read

\* The line of a header has all of [common] down to it above it.
LEMMA AboveLast ==
  ASSUME NEW t, NEW l, NEW u, OneMore(t, l, u), l.kind = "section", NEW k, NEW d
  PROVE  Read(SubSeq(u, 1, Len(t) + 1), CommonHeaders(u), k, d)
           = Read(t, CommonHeaders(t), k, d)
<1>1. SubSeq(u, 1, Len(t) + 1) = u
  <2> PICK S : u \in Seq(S)
    BY DEF OneMore, IsText
  <2> QED
    BY SubSeqFull DEF OneMore
<1>2. Read(u, CommonHeaders(u), k, d) = Read(t, CommonHeaders(t), k, d)
  BY CommonAtHeader
<1> QED
  BY <1>1, <1>2

-----------------------------------------------------------------------------
(***************************************************************************)
(* The tables of seen keys.                                                *)
(***************************************************************************)
\* The table of seen keys has the keys written under the headers H.
SeenExactly(t, H, keys, seen) ==
  /\ seen \subseteq DOMAIN keys
  /\ \A k \in DOMAIN keys : k \in seen <=> Under(t, H, k) # {}

LEMMA SeenMore ==
  ASSUME NEW t, NEW l, NEW u, OneMore(t, l, u), l.kind = "key",
         NEW H, Header(t, Len(t)) \in H, NEW keys, NEW seen,
         SeenExactly(t, H, keys, seen), l.key \in DOMAIN keys, l.key \notin seen
  PROVE  /\ SeenExactly(u, H, keys, seen \cup {l.key})
         /\ Under(t, H, l.key) = {}
         /\ Under(u, H, l.key) = {Len(t) + 1}
<1>1. Under(t, H, l.key) = {}
  BY DEF SeenExactly
<1>2. Under(u, H, l.key) = {Len(t) + 1}
  BY <1>1, UnderKey
<1>3. \A k : k # l.key => Under(u, H, k) = Under(t, H, k)
  BY ReadElsewhere
<1> QED
  BY <1>1, <1>2, <1>3 DEF SeenExactly

LEMMA SeenKept ==
  ASSUME NEW t, NEW u, NEW H, NEW G, NEW keys, NEW seen, SeenExactly(t, H, keys, seen),
         \A k \in DOMAIN keys : Under(u, G, k) = Under(t, H, k)
  PROVE  SeenExactly(u, G, keys, seen)
BY DEF SeenExactly

\* Four keys are at most four, and six at most six.
LEMMA SixAtMost ==
  ASSUME NEW a, NEW b, NEW c, NEW d, NEW e, NEW f
  PROVE  /\ IsFiniteSet({a, b, c, d, e, f}) /\ Cardinality({a, b, c, d, e, f}) \in Nat
         /\ Cardinality({a, b, c, d, e, f}) <= 6
         /\ IsFiniteSet({a, b, c, d}) /\ Cardinality({a, b, c, d}) <= 4
<1> DEFINE Small(S, n) == /\ IsFiniteSet(S) /\ Cardinality(S) \in Nat
                          /\ Cardinality(S) <= n
<1>1. ASSUME NEW S, NEW x, NEW n \in Nat, NEW m, m = n + 1, Small(S, n)
      PROVE  Small(S \cup {x}, m)
  <2>1. IsFiniteSet(S) /\ Cardinality(S) \in Nat /\ Cardinality(S) <= n
    BY <1>1
  <2>2. /\ IsFiniteSet(S \cup {x})
        /\ Cardinality(S \cup {x}) = IF x \in S THEN Cardinality(S) ELSE Cardinality(S) + 1
    BY <2>1, FS_AddElement
  <2> QED
    BY <1>1, <2>1, <2>2
<1>2. Small({}, 0)
  BY FS_EmptySet
<1> HIDE DEF Small
<1>3. Small({} \cup {a}, 1)
  BY <1>1, <1>2, 1 = 0 + 1
<1>4. Small({} \cup {a} \cup {b}, 2)
  BY <1>1, <1>3, 2 = 1 + 1
<1>5. Small({} \cup {a} \cup {b} \cup {c}, 3)
  BY <1>1, <1>4, 3 = 2 + 1
<1>6. Small({} \cup {a} \cup {b} \cup {c} \cup {d}, 4)
  BY <1>1, <1>5, 4 = 3 + 1
<1>7. Small({} \cup {a} \cup {b} \cup {c} \cup {d} \cup {e}, 5)
  BY <1>1, <1>6, 5 = 4 + 1
<1>8. Small({} \cup {a} \cup {b} \cup {c} \cup {d} \cup {e} \cup {f}, 6)
  BY <1>1, <1>7, 6 = 5 + 1
<1>9. {} \cup {a} \cup {b} \cup {c} \cup {d} \cup {e} \cup {f} = {a, b, c, d, e, f}
  OBVIOUS
<1>10. {} \cup {a} \cup {b} \cup {c} \cup {d} = {a, b, c, d}
  OBVIOUS
<1> QED
  BY <1>6, <1>8, <1>9, <1>10 DEF Small

LEMMA UnionAtMost ==
  ASSUME NEW S, NEW T, NEW m \in Nat, NEW n \in Nat, NEW sum, sum = m + n,
         IsFiniteSet(S), Cardinality(S) <= m, IsFiniteSet(T), Cardinality(T) <= n
  PROVE  IsFiniteSet(S \cup T) /\ Cardinality(S \cup T) <= sum
<1>1. /\ IsFiniteSet(S \cup T)
      /\ Cardinality(S \cup T) = Cardinality(S) + Cardinality(T) - Cardinality(S \cap T)
  BY FS_Union
<1>2. Cardinality(S) \in Nat /\ Cardinality(T) \in Nat
  BY FS_CardinalityType
<1>3. S \cap T \in SUBSET S
  OBVIOUS
<1>4. IsFiniteSet(S \cap T)
  BY <1>3, FS_Subset
<1>5. Cardinality(S \cap T) \in Nat
  BY <1>4, FS_CardinalityType
<1> QED
  BY <1>1, <1>2, <1>5

LEMMA CommonTableFits ==
  ASSUME NEW seen, seen \subseteq DOMAIN CommonKeys
  PROVE  Cardinality(seen) # CommonSeen
<1> DEFINE A == {"bind_addr", "server_addr", "client_id", "identity_private_key",
                 "server_public_key", "authorized_clients_file"}
           B == {"log_file", "mode", "bind_port", "server_port", "allowed_ciphers",
                 "preferred_cipher"}
           C == {"default_data_encryption", "log_level", "heartbeat_interval",
                 "heartbeat_timeout", "handshake_timeout", "connect_timeout"}
           D == {"reconnect_initial_delay", "reconnect_max_delay",
                 "reconnect_jitter_percent", "pool_count", "max_clients",
                 "max_services_per_client"}
           E == {"max_streams_per_client", "max_pending_streams", "log_rotate_days",
                 "log_max_size_kib", "control_encryption", "auth_mode"}
           All == ((A \cup B) \cup (C \cup D)) \cup E
<1>1. seen \subseteq All
  <2>1. DOMAIN CommonKeys =
          {"bind_addr", "server_addr", "client_id", "identity_private_key",
           "server_public_key", "authorized_clients_file", "log_file", "mode",
           "bind_port", "server_port", "allowed_ciphers", "preferred_cipher",
           "default_data_encryption", "log_level", "heartbeat_interval",
           "heartbeat_timeout", "handshake_timeout", "connect_timeout",
           "reconnect_initial_delay", "reconnect_max_delay",
           "reconnect_jitter_percent", "pool_count", "max_clients",
           "max_services_per_client", "max_streams_per_client",
           "max_pending_streams", "log_rotate_days", "log_max_size_kib",
           "control_encryption", "auth_mode"}
    BY DEF CommonKeys
  <2>2. DOMAIN CommonKeys \subseteq All
    BY <2>1, Zenon
  <2> QED BY <2>2
<1>2. /\ IsFiniteSet(A) /\ Cardinality(A) <= 6 /\ IsFiniteSet(B) /\ Cardinality(B) <= 6
      /\ IsFiniteSet(C) /\ Cardinality(C) <= 6 /\ IsFiniteSet(D) /\ Cardinality(D) <= 6
      /\ IsFiniteSet(E) /\ Cardinality(E) <= 6
  BY SixAtMost
<1> HIDE DEF A, B, C, D, E
<1>3. /\ IsFiniteSet(A \cup B) /\ Cardinality(A \cup B) <= 12
      /\ IsFiniteSet(C \cup D) /\ Cardinality(C \cup D) <= 12
  BY <1>2, 12 = 6 + 6, UnionAtMost
<1>4. /\ IsFiniteSet((A \cup B) \cup (C \cup D))
      /\ Cardinality((A \cup B) \cup (C \cup D)) <= 24
  <2>1. PICK S, T : S = A \cup B /\ T = C \cup D
    OBVIOUS
  <2>2. /\ IsFiniteSet(S) /\ Cardinality(S) <= 12
        /\ IsFiniteSet(T) /\ Cardinality(T) <= 12
    BY <1>3, <2>1
  <2>3. IsFiniteSet(S \cup T) /\ Cardinality(S \cup T) <= 24
    BY <2>2, 24 = 12 + 12, UnionAtMost
  <2> QED BY <2>1, <2>3
<1>5. IsFiniteSet(All) /\ Cardinality(All) <= 30
  <2>1. PICK S : S = (A \cup B) \cup (C \cup D)
    OBVIOUS
  <2>2. IsFiniteSet(S) /\ Cardinality(S) <= 24
    BY <1>4, <2>1
  <2>3. IsFiniteSet(S \cup E) /\ Cardinality(S \cup E) <= 30
    BY <1>2, <2>2, 30 = 24 + 6, UnionAtMost
  <2> QED BY <2>1, <2>3
<1> HIDE DEF All
<1>6. Cardinality(seen) <= Cardinality(All) /\ IsFiniteSet(seen)
  BY <1>1, <1>5, FS_Subset
<1>7. Cardinality(seen) \in Nat /\ Cardinality(All) \in Nat
  BY <1>5, <1>6, FS_CardinalityType
<1> QED
  BY <1>5, <1>6, <1>7 DEF CommonSeen

LEMMA SectionTableFits ==
  ASSUME NEW seen, seen \subseteq DOMAIN ServiceKeys
  PROVE  Cardinality(seen) # SectionSeen
<1> DEFINE A == {"type", "remote_addr", "local_addr", "remote_port", "local_port",
                 "data_encryption"}
           B == {"proxy_protocol", "proxy_protocol_tlv", "udp_idle_timeout",
                 "udp_reply_timeout", "udp_max_sessions", "udp_max_datagram_size"}
<1>1. seen \subseteq A \cup B
  BY DEF ServiceKeys
<1>2. /\ IsFiniteSet(A) /\ Cardinality(A) <= 6 /\ IsFiniteSet(B) /\ Cardinality(B) <= 6
  BY SixAtMost
<1> HIDE DEF A, B
<1>3. IsFiniteSet(A \cup B) /\ Cardinality(A \cup B) <= 12
  BY <1>2, 12 = 6 + 6, UnionAtMost
<1>4. Cardinality(seen) <= Cardinality(A \cup B) /\ IsFiniteSet(seen)
  BY <1>1, <1>3, FS_Subset
<1>5. Cardinality(seen) \in Nat /\ Cardinality(A \cup B) \in Nat
  BY <1>3, <1>4, FS_CardinalityType
<1> QED
  BY <1>3, <1>4, <1>5 DEF SectionSeen

\* The table for a client has room for its four keys and no more: when it is
\* full, a key that is not in it is unknown.
LEMMA ClientTableFits ==
  ASSUME NEW seen, seen \subseteq DOMAIN ClientKeys, NEW k \in DOMAIN ClientKeys,
         k \notin seen
  PROVE  Cardinality(seen) # ClientSeen
<1> DEFINE A == {"public_key", "allow_bind_addr", "max_services", "max_streams"}
<1>1. DOMAIN ClientKeys = A
  BY DEF ClientKeys
<1>2. IsFiniteSet(A) /\ Cardinality(A) <= 4
  BY SixAtMost
<1> HIDE DEF A
<1>3. /\ IsFiniteSet(seen) /\ Cardinality(seen) <= Cardinality(A)
      /\ Cardinality(A) # Cardinality(seen)
  BY <1>1, <1>2, FS_Subset
<1>4. Cardinality(seen) \in Nat /\ Cardinality(A) \in Nat
  BY <1>2, <1>3, FS_CardinalityType
<1> QED
  BY <1>2, <1>3, <1>4 DEF ClientSeen

-----------------------------------------------------------------------------
(***************************************************************************)
(* The services.                                                           *)
(***************************************************************************)
ServiceFields ==
  {"id", "type", "remote_addr", "local_addr", "remote_port", "local_port",
   "data_encryption", "proxy_protocol", "udp_options_seen", "udp_idle_timeout",
   "udp_reply_timeout", "udp_max_sessions", "udp_max_datagram_size"}

LEMMA ServiceNames ==
  /\ \A id, c : DOMAIN NewService(id, c) = ServiceFields /\ NewService(id, c).id = id
  /\ \A id, c : NewService(id, c).udp_options_seen = FALSE
  /\ \A id, c, d : c.default_data_encryption = d.default_data_encryption =>
                     NewService(id, c) = NewService(id, d)
  /\ {"id", "udp_options_seen"} \cap DOMAIN ServiceKeys = {}
  /\ {"id", "udp_options_seen"} \subseteq ServiceFields
  /\ ServiceFields \ {"id", "udp_options_seen"} \subseteq DOMAIN ServiceKeys
  /\ UdpKeys \subseteq DOMAIN ServiceKeys
<1>1. \A id, c : DOMAIN NewService(id, c) = ServiceFields /\ NewService(id, c).id = id
  BY DEF NewService, ServiceFields
<1>2. \A id, c : NewService(id, c).udp_options_seen = FALSE
  BY DEF NewService
<1>3. \A id, c, d : c.default_data_encryption = d.default_data_encryption =>
                      NewService(id, c) = NewService(id, d)
  BY DEF NewService
<1>4. DOMAIN ServiceKeys = {"type", "remote_addr", "local_addr", "remote_port",
        "local_port", "data_encryption", "proxy_protocol", "proxy_protocol_tlv",
        "udp_idle_timeout", "udp_reply_timeout", "udp_max_sessions",
        "udp_max_datagram_size"}
  BY DEF ServiceKeys
<1>5. /\ {"id", "udp_options_seen"} \cap DOMAIN ServiceKeys = {}
      /\ {"id", "udp_options_seen"} \subseteq ServiceFields
      /\ ServiceFields \ {"id", "udp_options_seen"} \subseteq DOMAIN ServiceKeys
      /\ UdpKeys \subseteq DOMAIN ServiceKeys
  BY <1>4 DEF ServiceFields, UdpKeys
<1> QED
  BY <1>1, <1>2, <1>3, <1>5

\* What the parser makes of the section at line p: as ServiceWritten has it, but
\* with the default encryption written above the header.
ServiceStored(t, p, s) ==
  LET above == Read(SubSeq(t, 1, p), CommonHeaders(t), "default_data_encryption",
                    defaults.default_data_encryption)
      fresh == NewService(t[p].name, [default_data_encryption |-> above])
  IN  /\ s.id = t[p].name
      /\ s.udp_options_seen = (\E k \in UdpKeys : Under(t, {p}, k) # {})
      /\ \A k \in DOMAIN s \ {"id", "udp_options_seen"} :
           /\ s[k] = Read(t, {p}, k, fresh[k])
           /\ Cardinality(Under(t, {p}, k)) <= 1

\* Lines that all stand above p are read alike in the file down to p.
LEMMA ReadAbove ==
  ASSUME NEW t, IsText(t), NEW p \in 1..Len(t), NEW H, NEW k, NEW d,
         \A i \in Under(t, H, k) : ~(i > p)
  PROVE  Read(SubSeq(t, 1, p), H, k, d) = Read(t, H, k, d)
<1>1. PICK v : v = SubSeq(t, 1, p)
  OBVIOUS
<1>2. /\ IsText(v) /\ Len(v) = p /\ p \in Nat /\ Len(t) \in Nat
      /\ \A i \in 1..p : v[i] = t[i]
  <2> PICK S : t \in Seq(S)
    BY DEF IsText
  <2>1. Len(t) \in Nat /\ p \in Nat /\ \A i \in 1..p : t[i] \in S
    BY ElementOfSeq, LenProperties
  <2>2. /\ v \in Seq(S) /\ Len(v) = p
        /\ \A i \in 1..p : v[i] = t[i]
    BY <1>1, <2>1, SubSeqProperties
  <2> QED BY <2>1, <2>2 DEF IsText
<1>3. ASSUME NEW i \in 1..p PROVE Header(v, i) = Header(t, i)
  <2>1. PICK g : g = Header(t, i)
    OBVIOUS
  <2>2. i \in Nat
    BY <1>2
  <2>3. /\ g \in 0..i
        /\ g = 0 \/ t[g].kind = "section"
        /\ \A j \in 1..i : j > g => t[j].kind # "section"
    BY <2>1, <2>2, HeaderOf
  <2>4. g = 0 \/ v[g].kind = "section"
    BY <1>2, <2>3
  <2>5. \A j \in 1..i : j > g => v[j].kind # "section"
    BY <1>2, <2>3
  <2> QED
    BY <2>1, <2>2, <2>3, <2>4, <2>5, HeaderIs
<1>4. ASSUME NEW i PROVE i \in Under(v, H, k) <=> i \in Under(t, H, k)
  <2>1. i \in Under(v, H, k) <=>
          i \in 1..p /\ v[i].kind = "key" /\ v[i].key = k /\ Header(v, i) \in H
    BY <1>2, UnderIs
  <2>2. i \in Under(t, H, k) <=>
          i \in 1..Len(t) /\ t[i].kind = "key" /\ t[i].key = k /\ Header(t, i) \in H
    BY UnderIs
  <2>3. i \in Under(t, H, k) => i \in 1..p
    BY <1>2, <2>2
  <2>4. i \in 1..p => i \in 1..Len(t)
    BY <1>2
  <2> QED
    BY <1>2, <1>3, <2>1, <2>2, <2>3, <2>4
<1>5. Under(v, H, k) = Under(t, H, k)
  BY <1>4
<1>6. PICK U : U = Under(t, H, k)
  OBVIOUS
<1>7. U \subseteq 1..p
  BY <1>2, <1>5, <1>6, UnderIs
<1>8. CASE U = {}
  BY <1>1, <1>5, <1>6, <1>8 DEF Read
<1>9. CASE U # {}
  <2>1. U \in SUBSET (0..p)
    BY <1>2, <1>7
  <2>2. Max(U) \in 1..p
    BY <1>2, <1>7, <1>9, <2>1, MaxOf
  <2>3. v[Max(U)] = t[Max(U)]
    BY <1>2, <2>2
  <2> QED
    BY <1>1, <1>5, <1>6, <1>9, <2>3 DEF Read
<1> QED
  BY <1>8, <1>9

\* The two differ only for a default below the section.
LEMMA StoredAsWritten ==
  ASSUME NEW t, IsText(t), NEW p \in 1..Len(t), NEW s, ServiceStored(t, p, s),
         DOMAIN s = ServiceFields
  PROVE  ServiceWritten(t, p, s)
<1>1. PICK above, default :
        /\ above = Read(SubSeq(t, 1, p), CommonHeaders(t), "default_data_encryption",
                        defaults.default_data_encryption)
        /\ default = Read(t, CommonHeaders(t), "default_data_encryption",
                          defaults.default_data_encryption)
  OBVIOUS
<1>2. PICK old, new :
        /\ old = NewService(t[p].name, [default_data_encryption |-> above])
        /\ new = NewService(t[p].name, [default_data_encryption |-> default])
  OBVIOUS
<1>3. /\ s.id = t[p].name
      /\ s.udp_options_seen = (\E k \in UdpKeys : Under(t, {p}, k) # {})
      /\ \A k \in DOMAIN s \ {"id", "udp_options_seen"} :
           /\ s[k] = Read(t, {p}, k, old[k])
           /\ Cardinality(Under(t, {p}, k)) <= 1
  BY <1>1, <1>2 DEF ServiceStored
<1>4. ASSUME NEW k \in DOMAIN s \ {"id", "udp_options_seen"}
      PROVE  \/ s[k] = Read(t, {p}, k, new[k])
             \/ k = "data_encryption" /\ Under(t, {p}, k) = {} /\ DefaultBelow(t, p)
  <2>1. CASE Under(t, {p}, k) # {}
    BY <1>3, <2>1 DEF Read
  <2>2. CASE ~DefaultBelow(t, p)
    <3>1. above = default
      BY <1>1, <2>2, ReadAbove DEF DefaultBelow
    <3> QED BY <1>2, <1>3, <3>1
  <2>3. CASE k # "data_encryption"
    <3>1. /\ old.type = new.type /\ old.proxy_protocol = new.proxy_protocol
          /\ old.remote_addr = new.remote_addr /\ old.local_addr = new.local_addr
          /\ old.remote_port = new.remote_port /\ old.local_port = new.local_port
          /\ old.udp_idle_timeout = new.udp_idle_timeout
          /\ old.udp_reply_timeout = new.udp_reply_timeout
          /\ old.udp_max_sessions = new.udp_max_sessions
          /\ old.udp_max_datagram_size = new.udp_max_datagram_size
      BY <1>2 DEF NewService
    <3>2. old[k] = new[k]
      BY <2>3, <3>1 DEF ServiceFields
    <3> QED BY <1>3, <3>2
  <2> QED BY <2>1, <2>2, <2>3
<1> QED
  BY <1>1, <1>2, <1>3, <1>4 DEF ServiceWritten

\* Another section's line changes nothing of a service.
LEMMA ServiceKept ==
  ASSUME NEW t, NEW l, NEW u, OneMore(t, l, u), NEW p \in 1..Len(t), NEW s,
         ServiceStored(t, p, s),
         \A k : Under(u, {p}, k) = Under(t, {p}, k)
  PROVE  ServiceStored(u, p, s)
<1>1. u[p] = t[p]
  BY DEF OneMore
<1>2. ASSUME NEW k, NEW d PROVE Read(u, {p}, k, d) = Read(t, {p}, k, d)
  <2>1. Under(u, {p}, k) = Under(t, {p}, k)
    OBVIOUS
  <2> QED BY <2>1, ReadOther
<1>3. Read(SubSeq(u, 1, p), CommonHeaders(u), "default_data_encryption",
           defaults.default_data_encryption)
        = Read(SubSeq(t, 1, p), CommonHeaders(t), "default_data_encryption",
               defaults.default_data_encryption)
  BY AboveKept
<1>4. PICK fresh : fresh =
        NewService(u[p].name, [default_data_encryption |->
          Read(SubSeq(u, 1, p), CommonHeaders(u), "default_data_encryption",
               defaults.default_data_encryption)])
  OBVIOUS
<1>5. fresh =
        NewService(t[p].name, [default_data_encryption |->
          Read(SubSeq(t, 1, p), CommonHeaders(t), "default_data_encryption",
               defaults.default_data_encryption)])
  BY <1>1, <1>3, <1>4
<1>6. /\ s.id = t[p].name
      /\ s.udp_options_seen = (\E k \in UdpKeys : Under(t, {p}, k) # {})
      /\ \A k \in DOMAIN s \ {"id", "udp_options_seen"} :
           /\ s[k] = Read(t, {p}, k, fresh[k])
           /\ Cardinality(Under(t, {p}, k)) <= 1
  BY <1>5 DEF ServiceStored
<1>7. /\ s.id = u[p].name
      /\ s.udp_options_seen = (\E k \in UdpKeys : Under(u, {p}, k) # {})
  BY <1>1, <1>6
<1>8. \A k \in DOMAIN s \ {"id", "udp_options_seen"} :
        /\ s[k] = Read(u, {p}, k, fresh[k])
        /\ Cardinality(Under(u, {p}, k)) <= 1
  BY <1>2, <1>6
<1> QED
  BY <1>4, <1>7, <1>8 DEF ServiceStored

\* The default encryption is the one written so far.
DefaultWritten(t, c) ==
  c.default_data_encryption = Read(t, CommonHeaders(t), "default_data_encryption",
                                   defaults.default_data_encryption)

\* A service starts with what its header leaves.
LEMMA ServiceFresh ==
  ASSUME NEW t, NEW l, NEW u, OneMore(t, l, u), l.kind = "section",
         NEW n, n = Len(t) + 1, NEW c, DefaultWritten(t, c)
  PROVE  ServiceStored(u, n, NewService(l.name, c))
<1>1. u[n] = l
  BY DEF OneMore
<1>2. PICK above : above = Read(SubSeq(u, 1, n), CommonHeaders(u),
                                "default_data_encryption",
                                defaults.default_data_encryption)
  OBVIOUS
<1>3. above = c.default_data_encryption
  BY <1>2, AboveLast DEF DefaultWritten
<1>4. NewService(l.name, [default_data_encryption |-> above]) = NewService(l.name, c)
  BY <1>3, ServiceNames
<1>5. \A k : Under(u, {n}, k) = {}
  BY NoneAtHeader
<1>6. PICK s : s = NewService(l.name, c)
  OBVIOUS
<1>7. /\ s.id = l.name /\ s.udp_options_seen = FALSE
      /\ (\E k \in UdpKeys : Under(u, {n}, k) # {}) = FALSE
  BY <1>5, <1>6, ServiceNames
<1>8. ASSUME NEW k
      PROVE  /\ s[k] = Read(u, {n}, k, s[k])
             /\ Cardinality(Under(u, {n}, k)) <= 1
  <2>1. PICK x : x = s[k]
    OBVIOUS
  <2>2. Read(u, {n}, k, x) = x
    BY <1>5 DEF Read
  <2>3. Cardinality(Under(u, {n}, k)) <= 1
    BY <1>5, AtMostOne
  <2> QED BY <2>1, <2>2, <2>3
<1>9. ServiceStored(u, n, s)
  BY <1>1, <1>2, <1>4, <1>6, <1>7, <1>8 DEF ServiceStored
<1> QED
  BY <1>6, <1>9

\* ServiceKey's effect on the service.
KeyStored(s, l) ==
  [k \in DOMAIN s |->
     IF k = l.key THEN Value(k, l.value)
     ELSE IF k = "udp_options_seen" THEN s[k] \/ l.key \in UdpKeys
     ELSE s[k]]

LEMMA ServiceKeyed ==
  ASSUME NEW t, NEW l, NEW u, OneMore(t, l, u), l.kind = "key", NEW p \in 1..Len(t),
         Header(t, Len(t)) = p, NEW s, DOMAIN s = ServiceFields,
         ServiceStored(t, p, s), l.key \in DOMAIN ServiceKeys,
         Under(t, {p}, l.key) = {}
  PROVE  ServiceStored(u, p, KeyStored(s, l))
<1>1. PICK r : r = KeyStored(s, l)
  OBVIOUS
<1>2. /\ u[p] = t[p] /\ l.key # "id" /\ l.key # "udp_options_seen"
      /\ "id" \in DOMAIN s /\ "udp_options_seen" \in DOMAIN s /\ "id" # "udp_options_seen"
  BY ServiceNames DEF OneMore
<1>3. /\ DOMAIN r = DOMAIN s
      /\ r.id = s.id
      /\ r.udp_options_seen = (s.udp_options_seen \/ l.key \in UdpKeys)
      /\ \A k \in DOMAIN s \ {"id", "udp_options_seen"} :
           r[k] = IF k = l.key THEN Value(k, l.value) ELSE s[k]
  BY <1>1, <1>2 DEF KeyStored
<1>4. Under(u, {p}, l.key) = {Len(t) + 1}
  <2>1. Under(u, {p}, l.key) = Under(t, {p}, l.key) \cup
          (IF l.key = l.key /\ Header(t, Len(t)) \in {p} THEN {Len(t) + 1} ELSE {})
    BY UnderKey
  <2> QED BY <2>1
<1>5. \A k : k # l.key => /\ Under(u, {p}, k) = Under(t, {p}, k)
                          /\ \A d : Read(u, {p}, k, d) = Read(t, {p}, k, d)
  BY ReadElsewhere
<1>6. \A d : Read(u, {p}, l.key, d) = Value(l.key, l.value)
  BY ReadKey
<1>7. Cardinality(Under(u, {p}, l.key)) <= 1
  BY <1>4, AtMostOne
<1>8. PICK fresh : fresh =
        NewService(u[p].name, [default_data_encryption |->
          Read(SubSeq(u, 1, p), CommonHeaders(u), "default_data_encryption",
               defaults.default_data_encryption)])
  OBVIOUS
<1>9. fresh =
        NewService(t[p].name, [default_data_encryption |->
          Read(SubSeq(t, 1, p), CommonHeaders(t), "default_data_encryption",
               defaults.default_data_encryption)])
  BY <1>2, <1>8, AboveKept
<1>10. /\ s.id = t[p].name
       /\ s.udp_options_seen = (\E k \in UdpKeys : Under(t, {p}, k) # {})
       /\ \A k \in DOMAIN s \ {"id", "udp_options_seen"} :
            /\ s[k] = Read(t, {p}, k, fresh[k])
            /\ Cardinality(Under(t, {p}, k)) <= 1
  BY <1>9 DEF ServiceStored
<1>11. (\E k \in UdpKeys : Under(u, {p}, k) # {})
         <=> (\E k \in UdpKeys : Under(t, {p}, k) # {}) \/ l.key \in UdpKeys
  BY <1>4, <1>5
<1>12. r.udp_options_seen = (\E k \in UdpKeys : Under(u, {p}, k) # {})
  BY <1>3, <1>10, <1>11
<1>13. ASSUME NEW k \in DOMAIN r \ {"id", "udp_options_seen"}
       PROVE  /\ r[k] = Read(u, {p}, k, fresh[k])
              /\ Cardinality(Under(u, {p}, k)) <= 1
  <2>1. CASE k = l.key
    BY <1>3, <1>6, <1>7, <2>1
  <2>2. CASE k # l.key
    <3>1. k \in DOMAIN s \ {"id", "udp_options_seen"} /\ r[k] = s[k]
      BY <1>3, <2>2
    <3>2. s[k] = Read(t, {p}, k, fresh[k]) /\ Cardinality(Under(t, {p}, k)) <= 1
      BY <1>10, <3>1
    <3>3. /\ Under(u, {p}, k) = Under(t, {p}, k)
          /\ Read(u, {p}, k, fresh[k]) = Read(t, {p}, k, fresh[k])
      BY <1>5, <2>2
    <3> QED BY <3>1, <3>2, <3>3
  <2> QED BY <2>1, <2>2
<1>14. ServiceStored(u, p, r)
  BY <1>2, <1>3, <1>8, <1>10, <1>12, <1>13 DEF ServiceStored
<1> QED
  BY <1>1, <1>14

\* The header the file has arrived at.
Current(t) == Header(t, Len(t))

LEMMA CurrentOf ==
  ASSUME NEW t, IsText(t)
  PROVE  /\ Current(t) \in 0..Len(t)
         /\ Current(t) = 0 \/ Current(t) \in Headers(t)
         /\ \A q \in Headers(t) : q <= Current(t)
<1>1. Len(t) \in Nat /\ DOMAIN t = 1..Len(t)
  BY TextShape
<1>2. PICK h : h = Current(t)
  OBVIOUS
<1>3. /\ h \in 0..Len(t)
      /\ h = 0 \/ t[h].kind = "section"
      /\ \A j \in 1..Len(t) : j > h => t[j].kind # "section"
  BY <1>1, <1>2, HeaderOf DEF Current
<1>4. \A q \in Headers(t) : q \in 1..Len(t) /\ t[q].kind = "section"
  BY <1>1 DEF Headers
<1>5. \A q \in Headers(t) : q <= h
  BY <1>1, <1>3, <1>4
<1>6. h = 0 \/ h \in Headers(t)
  BY <1>1, <1>3 DEF Headers
<1> QED
  BY <1>2, <1>3, <1>5, <1>6

LEMMA CurrentMore ==
  ASSUME NEW t, NEW l, NEW u, OneMore(t, l, u)
  PROVE  Current(u) = IF l.kind = "section" THEN Len(t) + 1 ELSE Current(t)
BY HeaderOfLast DEF Current, OneMore

ServicesTyped(svcs) ==
  \A i \in DOMAIN svcs : /\ DOMAIN svcs[i] = ServiceFields
                         /\ svcs[i].remote_port \in {0} \cup PortNumbers
                         /\ svcs[i].local_port \in {0} \cup PortNumbers

\* The services are those of the file's sections, in their order.
ServicesAre(t, svcs) ==
  /\ Len(svcs) = Cardinality(OtherHeaders(t))
  /\ \A p \in OtherHeaders(t) : ServiceStored(t, p, svcs[Rank(OtherHeaders(t), p)])

\* A line of [common], or the header of one.
LEMMA ServicesSame ==
  ASSUME NEW t, NEW l, NEW u, OneMore(t, l, u), NEW svcs, ServicesAre(t, svcs),
         OtherHeaders(u) = OtherHeaders(t),
         \A p \in OtherHeaders(t) : \A k : Under(u, {p}, k) = Under(t, {p}, k)
  PROVE  ServicesAre(u, svcs)
<1>1. OtherHeaders(t) \subseteq 1..Len(t)
  BY HeadersIn DEF OneMore
<1>2. ASSUME NEW p \in OtherHeaders(t)
      PROVE  ServiceStored(u, p, svcs[Rank(OtherHeaders(t), p)])
  <2>1. PICK s : s = svcs[Rank(OtherHeaders(t), p)]
    OBVIOUS
  <2>2. ServiceStored(t, p, s) /\ p \in 1..Len(t)
    BY <1>1, <2>1 DEF ServicesAre
  <2>3. ServiceStored(u, p, s)
    BY <2>2, ServiceKept
  <2> QED BY <2>1, <2>3
<1> QED
  BY <1>2 DEF ServicesAre

LEMMA ServicesOpened ==
  ASSUME NEW t, NEW l, NEW u, OneMore(t, l, u), l.kind = "section", l.name # "common",
         NEW svcs, ServicesAre(t, svcs), NEW c, DefaultWritten(t, c),
         NEW v, OneMore(svcs, NewService(l.name, c), v)
  PROVE  ServicesAre(u, v)
<1>1. PICK S, T : S = OtherHeaders(t) /\ T = OtherHeaders(u)
  OBVIOUS
<1>2. PICK n : n = Len(t) + 1
  OBVIOUS
<1>3. S \subseteq 1..Len(t) /\ T = S \cup {n} /\ Len(t) \in Nat
  BY <1>1, <1>2, HeadersIn, HeadersAdded DEF OneMore
<1>4. OneBelow(S, n, T)
  BY <1>2, <1>3 DEF OneBelow
<1>5. OneEach(S, svcs)
  BY <1>1 DEF ServicesAre, OneEach
<1>6. /\ Len(v) = Cardinality(T)
      /\ v[Rank(T, n)] = NewService(l.name, c)
      /\ \A p \in S : v[Rank(T, p)] = svcs[Rank(S, p)]
  BY <1>4, <1>5, PlacesMore
<1>7. ASSUME NEW p \in S PROVE ServiceStored(u, p, v[Rank(T, p)])
  <2>1. PICK s : s = svcs[Rank(S, p)]
    OBVIOUS
  <2>2. ServiceStored(t, p, s) /\ p \in 1..Len(t)
    BY <1>1, <1>3, <2>1 DEF ServicesAre
  <2>3. \A k : Under(u, {p}, k) = Under(t, {p}, k)
    BY OthersAtHeader
  <2>4. ServiceStored(u, p, s)
    BY <2>2, <2>3, ServiceKept
  <2> QED BY <1>6, <2>1, <2>4
<1>8. ServiceStored(u, n, v[Rank(T, n)])
  <2>1. ServiceStored(u, n, NewService(l.name, c))
    BY <1>2, ServiceFresh
  <2> QED BY <1>6, <2>1
<1>9. \A p \in T : ServiceStored(u, p, v[Rank(T, p)])
  BY <1>3, <1>7, <1>8
<1> QED
  BY <1>1, <1>6, <1>9 DEF ServicesAre

LEMMA ServicesKeyed ==
  ASSUME NEW t, NEW l, NEW u, OneMore(t, l, u), l.kind = "key",
         NEW svcs, IsText(svcs), ServicesTyped(svcs), ServicesAre(t, svcs),
         Current(t) \in OtherHeaders(t), l.key \in DOMAIN ServiceKeys,
         Under(t, {Current(t)}, l.key) = {}
  PROVE  /\ Len(svcs) \in DOMAIN svcs
         /\ ServicesAre(u, Put(svcs, Len(svcs), KeyStored(svcs[Len(svcs)], l)))
<1>1. PICK S : S = OtherHeaders(t)
  OBVIOUS
<1>2. S \subseteq 1..Len(t) /\ S = OtherHeaders(u) /\ IsText(t) /\ Len(t) \in Nat
  BY <1>1, HeadersIn, HeadersSame DEF OneMore
<1>3. PICK h : h = Current(t)
  OBVIOUS
<1>4. h \in S /\ \A q \in S : q <= h
  BY <1>1, <1>2, <1>3, CurrentOf, HeadersIn
<1>5. PICK s : s = svcs[Len(svcs)]
  OBVIOUS
<1>6. Len(svcs) = Cardinality(S)
  BY <1>1 DEF ServicesAre
<1>7. PICK v : v = Put(svcs, Len(svcs), KeyStored(s, l))
  OBVIOUS
<1>8. /\ Len(svcs) \in DOMAIN svcs /\ Rank(S, h) = Len(svcs)
      /\ Len(v) = Len(svcs)
      /\ v[Rank(S, h)] = KeyStored(s, l)
      /\ \A p \in S : p # h => v[Rank(S, p)] = svcs[Rank(S, p)]
  <2>1. PICK e : e = KeyStored(s, l)
    OBVIOUS
  <2>2. /\ Len(svcs) \in DOMAIN svcs /\ Rank(S, h) = Len(svcs)
        /\ Len(Put(svcs, Len(svcs), e)) = Len(svcs)
        /\ Put(svcs, Len(svcs), e)[Rank(S, h)] = e
        /\ \A p \in S : p # h => Put(svcs, Len(svcs), e)[Rank(S, p)] = svcs[Rank(S, p)]
    <3>1. OneEach(S, svcs)
      BY <1>6 DEF OneEach
    <3>2. LastOf(S, h)
      BY <1>2, <1>4 DEF LastOf
    <3> QED BY <3>1, <3>2, PlacesPut
  <2> QED BY <1>7, <2>1, <2>2
<1>9. ServiceStored(u, h, v[Rank(S, h)])
  <2>1. DOMAIN s = ServiceFields /\ ServiceStored(t, h, s)
    BY <1>1, <1>4, <1>5, <1>8 DEF ServicesTyped, ServicesAre
  <2>2. h \in 1..Len(t) /\ Header(t, Len(t)) = h /\ Under(t, {h}, l.key) = {}
    BY <1>2, <1>3, <1>4 DEF Current
  <2>3. ServiceStored(u, h, KeyStored(s, l))
    BY <2>1, <2>2, ServiceKeyed
  <2> QED BY <1>8, <2>3
<1>10. ASSUME NEW p \in S, p # h PROVE ServiceStored(u, p, v[Rank(S, p)])
  <2>1. PICK r : r = svcs[Rank(S, p)]
    OBVIOUS
  <2>2. ServiceStored(t, p, r) /\ p \in 1..Len(t)
    BY <1>1, <1>2, <2>1 DEF ServicesAre
  <2>3. Header(t, Len(t)) \notin {p}
    BY <1>3, <1>10 DEF Current
  <2>4. \A k : Under(u, {p}, k) = Under(t, {p}, k)
    BY <2>3, ReadElsewhere
  <2>5. ServiceStored(u, p, r)
    BY <2>2, <2>4, ServiceKept
  <2> QED BY <1>8, <1>10, <2>1, <2>5
<1> QED
  BY <1>1, <1>2, <1>5, <1>6, <1>7, <1>8, <1>9, <1>10 DEF ServicesAre

-----------------------------------------------------------------------------
(***************************************************************************)
(* The authorized clients.                                                 *)
(***************************************************************************)
\* The ranges of a client are those listed in the section at line p.
PortsAre(t, p, ports) ==
  /\ Len(ports) = Cardinality(Under(t, {p}, "allow_remote_port"))
  /\ {ports[i] : i \in DOMAIN ports} = Ranges(t, p)
  /\ \A i \in DOMAIN ports : parse_range(ports[i])

ClientWritten(t, p, a) ==
  /\ a.id = t[p].name
  /\ a.allow_bind_addr = Read(t, {p}, "allow_bind_addr", Wildcard)
  /\ PortsAre(t, p, a.ports)

LEMMA PortsKept ==
  ASSUME NEW t, NEW l, NEW u, OneMore(t, l, u), NEW p, NEW ports, PortsAre(t, p, ports),
         Under(u, {p}, "allow_remote_port") = Under(t, {p}, "allow_remote_port")
  PROVE  PortsAre(u, p, ports)
<1>1. Under(t, {p}, "allow_remote_port") \subseteq 1..Len(t)
  BY UnderIs DEF OneMore
<1>2. \A i \in Under(t, {p}, "allow_remote_port") : u[i] = t[i]
  BY <1>1 DEF OneMore
<1>3. Ranges(u, p) = Ranges(t, p)
  BY <1>2 DEF Ranges
<1> QED
  BY <1>3 DEF PortsAre

LEMMA PortsMore ==
  ASSUME NEW t, NEW l, NEW u, OneMore(t, l, u), l.kind = "key",
         l.key = "allow_remote_port", NEW p, Header(t, Len(t)) = p,
         NEW ports, PortsAre(t, p, ports), parse_range(l.value),
         NEW w, OneMore(ports, l.value, w)
  PROVE  PortsAre(u, p, w)
<1>1. PICK L, M : /\ L = Under(t, {p}, "allow_remote_port")
                  /\ M = Under(u, {p}, "allow_remote_port")
  OBVIOUS
<1>2. PICK n : n = Len(t) + 1
  OBVIOUS
<1>3. M = L \cup {n}
  BY <1>1, <1>2, UnderKey
<1>4. IsFiniteSet(L) /\ n \notin L /\ \A i \in L : i \in 1..Len(t)
  BY <1>1, <1>2, UnderIs, UnderFinite DEF OneMore
<1>5. Cardinality(M) = Cardinality(L) + 1
  BY <1>3, <1>4, FS_AddElement
<1>6. u[n] = l /\ \A i \in L : u[i] = t[i]
  BY <1>2, <1>4 DEF OneMore
<1>7. Ranges(u, p) = Ranges(t, p) \cup {l.value}
  <2>1. Ranges(u, p) = {u[i].value : i \in M} /\ Ranges(t, p) = {t[i].value : i \in L}
    BY <1>1 DEF Ranges
  <2> QED
    BY <1>3, <1>6, <2>1
<1>8. PICK N : N = DOMAIN ports
  OBVIOUS
<1>9. PICK m : m = Len(ports) + 1
  OBVIOUS
<1>10. /\ DOMAIN w = N \cup {m} /\ Len(w) = Len(ports) + 1
       /\ w[m] = l.value /\ \A i \in N : w[i] = ports[i]
  BY <1>8, <1>9 DEF OneMore
<1>11. {w[i] : i \in DOMAIN w} = {ports[i] : i \in N} \cup {l.value}
  BY <1>10
<1>12. \A i \in DOMAIN w : parse_range(w[i])
  BY <1>8, <1>10 DEF PortsAre
<1> QED
  BY <1>1, <1>5, <1>7, <1>8, <1>10, <1>11, <1>12 DEF PortsAre

LEMMA ClientKept ==
  ASSUME NEW t, NEW l, NEW u, OneMore(t, l, u), NEW p \in 1..Len(t), NEW a,
         ClientWritten(t, p, a),
         \A k : Under(u, {p}, k) = Under(t, {p}, k)
  PROVE  ClientWritten(u, p, a)
<1>1. u[p] = t[p]
  BY DEF OneMore
<1>2. Read(u, {p}, "allow_bind_addr", Wildcard) = Read(t, {p}, "allow_bind_addr", Wildcard)
  BY ReadOther
<1>3. PICK ports : ports = a.ports
  OBVIOUS
<1>4. PortsAre(t, p, ports)
  BY <1>3 DEF ClientWritten
<1>5. PortsAre(u, p, ports)
  BY <1>4, PortsKept
<1> QED
  BY <1>1, <1>2, <1>3, <1>5 DEF ClientWritten

LEMMA ClientFresh ==
  ASSUME NEW t, NEW l, NEW u, OneMore(t, l, u), l.kind = "section",
         NEW n, n = Len(t) + 1, NEW c
  PROVE  ClientWritten(u, n, NewClient(l.name, c))
<1>1. u[n] = l
  BY DEF OneMore
<1>2. \A k : Under(u, {n}, k) = {}
  BY NoneAtHeader
<1>3. Read(u, {n}, "allow_bind_addr", Wildcard) = Wildcard
  BY <1>2 DEF Read
<1>4. PICK a : a = NewClient(l.name, c)
  OBVIOUS
<1>5. a.id = l.name /\ a.allow_bind_addr = Wildcard /\ a.ports = <<>>
  BY <1>4 DEF NewClient
<1>6. Cardinality(Under(u, {n}, "allow_remote_port")) = 0 /\ Ranges(u, n) = {}
  BY <1>2, FS_EmptySet DEF Ranges
<1>7. PortsAre(u, n, <<>>)
  BY <1>6, EmptyText DEF PortsAre
<1>8. ClientWritten(u, n, a)
  BY <1>1, <1>3, <1>5, <1>7 DEF ClientWritten
<1> QED
  BY <1>4, <1>8

ClientFields ==
  {"id", "public_key", "allow_bind_addr", "max_services", "max_streams", "ports"}

LEMMA ClientNames ==
  /\ \A id, c : DOMAIN NewClient(id, c) = ClientFields
  /\ DOMAIN ClientKeys = ClientFields \ {"id", "ports"}
  /\ "allow_remote_port" \notin ClientFields
  /\ {"id", "ports", "allow_bind_addr", "max_services", "max_streams"} \subseteq ClientFields
  /\ \A v : \A k \in ClientFields : Value(k, v) = v
<1>1. \A id, c : DOMAIN NewClient(id, c) = ClientFields
  BY DEF NewClient, ClientFields
<1>2. DOMAIN ClientKeys = {"public_key", "allow_bind_addr", "max_services", "max_streams"}
  BY DEF ClientKeys
<1>3. DOMAIN ClientKeys = ClientFields \ {"id", "ports"}
  BY <1>2 DEF ClientFields
<1>4. \A v : \A k \in ClientFields : Value(k, v) = v
  BY DEF ClientFields, Value
<1> QED
  BY <1>1, <1>3, <1>4 DEF ClientFields

\* ClientKey's effect on the client, and ClientPorts'.
LEMMA ClientKeyed ==
  ASSUME NEW t, NEW l, NEW u, OneMore(t, l, u), l.kind = "key", NEW p \in 1..Len(t),
         Header(t, Len(t)) = p, NEW a, DOMAIN a = ClientFields,
         ClientWritten(t, p, a), l.key \in DOMAIN ClientKeys
  PROVE  ClientWritten(u, p, [a EXCEPT ![l.key] = l.value])
<1>1. PICK r : r = [a EXCEPT ![l.key] = l.value]
  OBVIOUS
<1>2. /\ l.key \notin {"id", "ports", "allow_remote_port"} /\ l.key \in DOMAIN a
      /\ {"id", "ports", "allow_bind_addr"} \subseteq DOMAIN a
  BY ClientNames
<1>3. /\ r.id = a.id /\ r.ports = a.ports
      /\ r.allow_bind_addr = IF l.key = "allow_bind_addr" THEN l.value ELSE a.allow_bind_addr
  BY <1>1, <1>2
<1>4. u[p] = t[p]
  BY DEF OneMore
<1>5. Read(u, {p}, "allow_bind_addr", Wildcard) = r.allow_bind_addr
  <2>1. CASE l.key = "allow_bind_addr"
    <3>1. Read(u, {p}, l.key, Wildcard) = Value(l.key, l.value)
      BY ReadKey
    <3>2. Value(l.key, l.value) = l.value
      BY <1>2, ClientNames
    <3> QED BY <1>3, <2>1, <3>1, <3>2
  <2>2. CASE l.key # "allow_bind_addr"
    <3>1. Read(u, {p}, "allow_bind_addr", Wildcard)
            = Read(t, {p}, "allow_bind_addr", Wildcard)
      BY <2>2, ReadElsewhere
    <3> QED BY <1>3, <2>2, <3>1 DEF ClientWritten
  <2> QED BY <2>1, <2>2
<1>6. Under(u, {p}, "allow_remote_port") = Under(t, {p}, "allow_remote_port")
  BY <1>2, ReadElsewhere
<1>7. PICK ports : ports = a.ports
  OBVIOUS
<1>8. PortsAre(t, p, ports)
  BY <1>7 DEF ClientWritten
<1>9. PortsAre(u, p, ports)
  BY <1>6, <1>8, PortsKept
<1>10. ClientWritten(u, p, r)
  BY <1>3, <1>4, <1>5, <1>7, <1>9 DEF ClientWritten
<1> QED
  BY <1>1, <1>10

LEMMA ClientPorted ==
  ASSUME NEW t, NEW l, NEW u, OneMore(t, l, u), l.kind = "key",
         l.key = "allow_remote_port", NEW p \in 1..Len(t), Header(t, Len(t)) = p,
         NEW a, DOMAIN a = ClientFields, IsText(a.ports),
         ClientWritten(t, p, a), parse_range(l.value)
  PROVE  ClientWritten(u, p, [a EXCEPT !.ports = Append(a.ports, l.value)])
<1>1. PICK r : r = [a EXCEPT !.ports = Append(a.ports, l.value)]
  OBVIOUS
<1>2. PICK ports, w : ports = a.ports /\ w = Append(ports, l.value)
  OBVIOUS
<1>3. r.id = a.id /\ r.ports = w /\ r.allow_bind_addr = a.allow_bind_addr
  BY <1>1, <1>2, ClientNames
<1>4. u[p] = t[p]
  BY DEF OneMore
<1>5. Read(u, {p}, "allow_bind_addr", Wildcard) = Read(t, {p}, "allow_bind_addr", Wildcard)
  BY ReadElsewhere
<1>6. OneMore(ports, l.value, w) /\ PortsAre(t, p, ports)
  BY <1>2, AppendIsOneMore DEF ClientWritten
<1>7. PortsAre(u, p, w)
  BY <1>6, PortsMore
<1>8. ClientWritten(u, p, r)
  BY <1>3, <1>4, <1>5, <1>7 DEF ClientWritten
<1> QED
  BY <1>1, <1>8

\* The clients are those of the file's sections, one for each name.
ClientsAre(t, cls) ==
  /\ Len(cls) = Cardinality(Headers(t)) /\ AllPlaced(Headers(t), cls)
  /\ \A p \in Headers(t) : ClientWritten(t, p, cls[Rank(Headers(t), p)])
  /\ \A p, q \in Headers(t) : t[p].name = t[q].name => p = q

\* The last client is the one of the section being read.
LEMMA LastClient ==
  ASSUME NEW t, IsText(t), NEW cls, IsText(cls), ClientsAre(t, cls)
  PROVE  /\ cls # <<>> <=> Current(t) \in Headers(t)
         /\ Current(t) \in Headers(t) =>
              /\ LastOf(Headers(t), Current(t)) /\ OneEach(Headers(t), cls)
              /\ Len(cls) \in DOMAIN cls
              /\ ClientWritten(t, Current(t), cls[Len(cls)])
<1>1. PICK S, h : S = Headers(t) /\ h = Current(t)
  OBVIOUS
<1>2. /\ Len(t) \in Nat /\ S \subseteq 1..Len(t) /\ \A q \in S : q <= h
      /\ h \in 0..Len(t) /\ (h = 0 \/ h \in S)
  BY <1>1, HeadersIn, CurrentOf
<1>3. OneEach(S, cls)
  BY <1>1 DEF OneEach, ClientsAre
<1>4. ASSUME h \in S
      PROVE  LastOf(S, h) /\ Len(cls) \in DOMAIN cls /\ Rank(S, h) = Len(cls)
  <2>1. LastOf(S, h)
    BY <1>2, <1>4 DEF LastOf
  <2> QED BY <1>3, <2>1, PlacesPut
<1>5. h \in S => ClientWritten(t, h, cls[Len(cls)])
  BY <1>1, <1>4 DEF ClientsAre
<1>6. h \in S => cls # <<>>
  BY <1>4, EmptyText
<1>7. ASSUME cls # <<>> PROVE h \in S
  <2>1. Len(cls) # 0
    BY <1>7, EmptyIffNone
  <2>2. Cardinality(S) # 0
    BY <1>3, <2>1 DEF OneEach
  <2>3. S # {}
    BY <2>2, FS_EmptySet
  <2>4. PICK q \in S : q \in 1..Len(t) /\ q <= h
    BY <1>2, <2>3
  <2>5. h # 0
    BY <1>2, <2>4
  <2> QED BY <1>2, <2>5
<1> QED
  BY <1>1, <1>3, <1>4, <1>5, <1>6, <1>7

LEMMA ClientsOpened ==
  ASSUME NEW t, NEW l, NEW u, OneMore(t, l, u), l.kind = "section",
         NEW cls, ClientsAre(t, cls), \A i \in DOMAIN cls : cls[i].id # l.name,
         NEW c, NEW v, OneMore(cls, NewClient(l.name, c), v)
  PROVE  ClientsAre(u, v)
<1>1. PICK S, T : S = Headers(t) /\ T = Headers(u)
  OBVIOUS
<1>2. PICK n : n = Len(t) + 1
  OBVIOUS
<1>3. S \subseteq 1..Len(t) /\ T = S \cup {n} /\ Len(t) \in Nat
  BY <1>1, <1>2, HeadersIn, HeadersAdded DEF OneMore
<1>4. OneBelow(S, n, T)
  BY <1>2, <1>3 DEF OneBelow
<1>5. OneEach(S, cls) /\ AllPlaced(S, cls)
  BY <1>1 DEF ClientsAre, OneEach
<1>6. /\ Len(v) = Cardinality(T)
      /\ v[Rank(T, n)] = NewClient(l.name, c)
      /\ \A p \in S : v[Rank(T, p)] = cls[Rank(S, p)]
  BY <1>4, <1>5, PlacesMore
<1>7. AllPlaced(T, v)
  BY <1>4, <1>5, PlacesAll
<1>8. ASSUME NEW p \in S
      PROVE  /\ ClientWritten(u, p, v[Rank(T, p)])
             /\ u[p] = t[p] /\ t[p].name # l.name
  <2>1. PICK a : a = cls[Rank(S, p)]
    OBVIOUS
  <2>2. ClientWritten(t, p, a) /\ p \in 1..Len(t)
    BY <1>1, <1>3, <2>1 DEF ClientsAre
  <2>3. \A k : Under(u, {p}, k) = Under(t, {p}, k)
    BY OthersAtHeader
  <2>4. ClientWritten(u, p, a)
    BY <2>2, <2>3, ClientKept
  <2>5. Rank(S, p) \in 1..Cardinality(S)
    <3>1. S \in SUBSET (1..Len(t)) /\ Len(t) \in Nat
      BY <1>3
    <3> QED BY <3>1, RankBounds
  <2>6. Rank(S, p) \in DOMAIN cls
    BY <1>5, <2>5 DEF OneMore, OneEach
  <2>7. a.id = t[p].name /\ a.id # l.name
    BY <2>1, <2>2, <2>6 DEF ClientWritten
  <2>8. u[p] = t[p]
    BY <2>2 DEF OneMore
  <2> QED BY <1>6, <2>1, <2>4, <2>7, <2>8
<1>9. ClientWritten(u, n, v[Rank(T, n)])
  <2>1. ClientWritten(u, n, NewClient(l.name, c))
    BY <1>2, ClientFresh
  <2> QED BY <1>6, <2>1
<1>10. \A p \in T : ClientWritten(u, p, v[Rank(T, p)])
  BY <1>3, <1>8, <1>9
<1>11. u[n] = l
  BY <1>2 DEF OneMore
<1>12. \A p, q \in T : u[p].name = u[q].name => p = q
  <2>1. \A p, q \in S : t[p].name = t[q].name => p = q
    BY <1>1 DEF ClientsAre
  <2> QED BY <1>3, <1>8, <1>11, <2>1
<1> QED
  BY <1>1, <1>6, <1>7, <1>10, <1>12 DEF ClientsAre

LEMMA ClientsChanged ==
  ASSUME NEW t, NEW l, NEW u, OneMore(t, l, u), l.kind = "key",
         NEW cls, IsText(cls), ClientsAre(t, cls), Current(t) \in Headers(t),
         NEW e, ClientWritten(u, Current(t), e)
  PROVE  ClientsAre(u, Put(cls, Len(cls), e))
<1>1. PICK S, h : S = Headers(t) /\ h = Current(t)
  OBVIOUS
<1>2. S \subseteq 1..Len(t) /\ S = Headers(u) /\ IsText(t)
  BY <1>1, HeadersIn, HeadersSame DEF OneMore
<1>3. LastOf(S, h) /\ OneEach(S, cls)
  BY <1>1, <1>2, LastClient
<1>4. PICK v : v = Put(cls, Len(cls), e)
  OBVIOUS
<1>5. /\ Len(cls) \in DOMAIN cls /\ Len(v) = Len(cls) /\ v[Rank(S, h)] = e
      /\ \A p \in S : p # h => v[Rank(S, p)] = cls[Rank(S, p)]
  <2>1. /\ Len(cls) \in DOMAIN cls /\ Len(Put(cls, Len(cls), e)) = Len(cls)
        /\ Put(cls, Len(cls), e)[Rank(S, h)] = e
        /\ \A p \in S : p # h => Put(cls, Len(cls), e)[Rank(S, p)] = cls[Rank(S, p)]
    BY <1>3, PlacesPut
  <2> QED BY <1>4, <2>1
<1>6. DOMAIN v = DOMAIN cls
  <2>1. DOMAIN Put(cls, Len(cls), e) = DOMAIN cls
    BY <1>5, PutIsText
  <2> QED BY <1>4, <2>1
<1>7. AllPlaced(S, v)
  BY <1>1, <1>6 DEF ClientsAre, AllPlaced
<1>8. ClientWritten(u, h, v[Rank(S, h)])
  BY <1>1, <1>5
<1>9. ASSUME NEW p \in S, p # h PROVE ClientWritten(u, p, v[Rank(S, p)])
  <2>1. PICK a : a = cls[Rank(S, p)]
    OBVIOUS
  <2>2. ClientWritten(t, p, a) /\ p \in 1..Len(t)
    BY <1>1, <1>2, <2>1 DEF ClientsAre
  <2>3. Header(t, Len(t)) \notin {p}
    BY <1>1, <1>9 DEF Current
  <2>4. \A k : Under(u, {p}, k) = Under(t, {p}, k)
    BY <2>3, ReadElsewhere
  <2>5. ClientWritten(u, p, a)
    BY <2>2, <2>4, ClientKept
  <2> QED BY <1>5, <1>9, <2>1, <2>5
<1>10. \A p \in S : ClientWritten(u, p, v[Rank(S, p)])
  BY <1>8, <1>9
<1>11. \A p, q \in S : u[p].name = u[q].name => p = q
  <2>1. \A p \in S : u[p] = t[p]
    BY <1>2 DEF OneMore
  <2> QED BY <1>1, <2>1 DEF ClientsAre
<1>12. Len(v) = Cardinality(S)
  BY <1>3, <1>5 DEF OneEach
<1> QED
  BY <1>2, <1>4, <1>7, <1>10, <1>11, <1>12 DEF ClientsAre

-----------------------------------------------------------------------------
(***************************************************************************)
(* The settings of [common].                                               *)
(***************************************************************************)
CommonRead(t, c) ==
  \A k \in DOMAIN defaults : c[k] = Read(t, CommonHeaders(t), k, defaults[k])

CommonOnce(t) ==
  \A k \in DOMAIN CommonKeys : Cardinality(Under(t, CommonHeaders(t), k)) <= 1

Limits == {"max_clients", "max_services_per_client", "max_streams_per_client",
           "max_pending_streams", "log_level", "pool_count"}

\* What a limit may be: a value its key takes, or the default of the pool.
Storable(k) ==
  IF k = "pool_count" THEN CommonKeys[k] \cup {DEFAULT_POOL_COUNT} ELSE CommonKeys[k]

CommonTyped(c) ==
  DOMAIN c = DOMAIN defaults /\ \A k \in Limits : c[k] \in Storable(k)

\* CommonKey's effect on the settings.
SettingStored(c, l) ==
  [k \in DOMAIN c |-> IF k = l.key THEN Value(k, l.value) ELSE c[k]]

LEMMA CommonNames ==
  /\ Limits \subseteq DOMAIN CommonKeys /\ Limits \subseteq DOMAIN defaults
  /\ \A v : \A k \in Limits : Value(k, v) = v
  /\ DOMAIN defaults = DOMAIN CommonKeys \ {"control_encryption", "auth_mode"}
<1>1. DOMAIN CommonKeys =
        {"bind_addr", "server_addr", "client_id", "identity_private_key",
         "server_public_key", "authorized_clients_file", "log_file", "mode",
         "bind_port", "server_port", "allowed_ciphers", "preferred_cipher",
         "default_data_encryption", "log_level", "heartbeat_interval",
         "heartbeat_timeout", "handshake_timeout", "connect_timeout",
         "reconnect_initial_delay", "reconnect_max_delay",
         "reconnect_jitter_percent", "pool_count", "max_clients",
         "max_services_per_client", "max_streams_per_client",
         "max_pending_streams", "log_rotate_days", "log_max_size_kib",
         "control_encryption", "auth_mode"}
  BY DEF CommonKeys
<1>2. DOMAIN defaults =
        {"bind_addr", "server_addr", "client_id", "identity_private_key",
         "server_public_key", "authorized_clients_file", "log_file", "mode",
         "bind_port", "server_port", "allowed_ciphers", "preferred_cipher",
         "default_data_encryption", "log_level", "heartbeat_interval",
         "heartbeat_timeout", "handshake_timeout", "connect_timeout",
         "reconnect_initial_delay", "reconnect_max_delay",
         "reconnect_jitter_percent", "pool_count", "max_clients",
         "max_services_per_client", "max_streams_per_client",
         "max_pending_streams", "log_rotate_days", "log_max_size_kib"}
  BY DEF defaults
<1>3. \A v : \A k \in Limits : Value(k, v) = v
  BY DEF Limits, Value
<1>4. DOMAIN defaults = DOMAIN CommonKeys \ {"control_encryption", "auth_mode"}
  BY <1>1, <1>2
<1>5. Limits \subseteq DOMAIN CommonKeys /\ Limits \subseteq DOMAIN defaults
  BY <1>1, <1>2 DEF Limits
<1> QED
  BY <1>3, <1>4, <1>5

LEMMA CommonKeyed ==
  ASSUME NEW t, NEW l, NEW u, OneMore(t, l, u), l.kind = "key",
         Current(t) \in CommonHeaders(t), NEW c, CommonRead(t, c), CommonTyped(c),
         CommonOnce(t), Takes(CommonKeys, l.key, l.value),
         NEW seen, SeenExactly(t, CommonHeaders(t), CommonKeys, seen), l.key \notin seen
  PROVE  /\ CommonRead(u, SettingStored(c, l)) /\ CommonTyped(SettingStored(c, l))
         /\ CommonOnce(u)
         /\ SeenExactly(u, CommonHeaders(u), CommonKeys, seen \cup {l.key})
<1>1. PICK C : C = CommonHeaders(t)
  OBVIOUS
<1>2. CommonHeaders(u) = C
  BY <1>1, HeadersSame
<1>3. Header(t, Len(t)) \in C /\ l.key \in DOMAIN CommonKeys /\ l.value \in CommonKeys[l.key]
  BY <1>1 DEF Current, Takes
<1>4. /\ SeenExactly(u, C, CommonKeys, seen \cup {l.key})
      /\ Under(u, C, l.key) = {Len(t) + 1}
  BY <1>1, <1>3, SeenMore
<1>5. PICK r : r = SettingStored(c, l)
  OBVIOUS
<1>6. /\ DOMAIN r = DOMAIN defaults
      /\ \A k \in DOMAIN defaults : r[k] = IF k = l.key THEN Value(k, l.value) ELSE c[k]
  BY <1>5 DEF SettingStored, CommonTyped
<1>7. ASSUME NEW k \in DOMAIN defaults PROVE r[k] = Read(u, C, k, defaults[k])
  <2>1. PICK d : d = defaults[k]
    OBVIOUS
  <2>2. CASE k = l.key
    <3>1. Read(u, C, l.key, d) = Value(l.key, l.value)
      BY <1>3, ReadKey
    <3> QED BY <1>6, <2>1, <2>2, <3>1
  <2>3. CASE k # l.key
    <3>1. Read(u, C, k, d) = Read(t, C, k, d)
      BY <2>3, ReadElsewhere
    <3>2. c[k] = Read(t, C, k, d)
      BY <1>1, <2>1 DEF CommonRead
    <3> QED BY <1>6, <2>1, <2>3, <3>1, <3>2
  <2> QED BY <2>2, <2>3
<1>8. ASSUME NEW k \in DOMAIN CommonKeys PROVE Cardinality(Under(u, C, k)) <= 1
  <2>1. CASE k = l.key
    BY <1>4, <2>1, AtMostOne
  <2>2. CASE k # l.key
    <3>1. Under(u, C, k) = Under(t, C, k)
      BY <2>2, ReadElsewhere
    <3> QED BY <1>1, <3>1 DEF CommonOnce
  <2> QED BY <2>1, <2>2
<1>9. ASSUME NEW k \in Limits PROVE r[k] \in Storable(k)
  BY <1>3, <1>6, CommonNames DEF CommonTyped, Storable
<1>10. CommonRead(u, r) /\ CommonTyped(r) /\ CommonOnce(u)
  BY <1>2, <1>6, <1>7, <1>8, <1>9 DEF CommonRead, CommonTyped, CommonOnce
<1> QED
  BY <1>2, <1>4, <1>5, <1>10

\* A line outside of [common] leaves what is read of it.
LEMMA CommonKept ==
  ASSUME NEW t, NEW l, NEW u, OneMore(t, l, u),
         l.kind = "section" \/ (l.kind = "key" /\ Current(t) \notin CommonHeaders(t))
  PROVE  /\ \A k : Under(u, CommonHeaders(u), k) = Under(t, CommonHeaders(t), k)
         /\ CommonOnce(t) => CommonOnce(u)
         /\ \A c : CommonRead(t, c) => CommonRead(u, c)
         /\ \A seen : SeenExactly(t, CommonHeaders(t), CommonKeys, seen) =>
                        SeenExactly(u, CommonHeaders(u), CommonKeys, seen)
<1>1. PICK C, D : C = CommonHeaders(t) /\ D = CommonHeaders(u)
  OBVIOUS
<1>2. ASSUME NEW k
      PROVE  Under(u, D, k) = Under(t, C, k) /\ \A d : Read(u, D, k, d) = Read(t, C, k, d)
  <2>1. CASE l.kind = "section"
    BY <1>1, <2>1, CommonAtHeader
  <2>2. CASE l.kind # "section"
    <3>1. D = C /\ Header(t, Len(t)) \notin C /\ l.kind = "key"
      BY <1>1, <2>2, HeadersSame DEF Current
    <3> QED BY <3>1, ReadElsewhere
  <2> QED BY <2>1, <2>2
<1>3. CommonOnce(t) => CommonOnce(u)
  BY <1>1, <1>2 DEF CommonOnce
<1>4. \A c : CommonRead(t, c) => CommonRead(u, c)
  BY <1>1, <1>2 DEF CommonRead
<1>5. \A seen : SeenExactly(t, C, CommonKeys, seen) => SeenExactly(u, D, CommonKeys, seen)
  BY <1>2, SeenKept
<1> QED
  BY <1>1, <1>2, <1>3, <1>4, <1>5

-----------------------------------------------------------------------------
(***************************************************************************)
(* The ranges of the values stored.                                        *)
(***************************************************************************)
ClientTyped(a) ==
  /\ DOMAIN a = ClientFields /\ IsText(a.ports)
  /\ a.max_services \in 1..MAX_SERVICES /\ a.max_streams \in 1..MAX_STREAMS

ClientsTyped(cls) == \A i \in DOMAIN cls : ClientTyped(cls[i])

LEMMA DefaultsTyped == CommonTyped(defaults)
<1>1. /\ CommonKeys.max_clients = integer(1, MAX_CLIENTS)
      /\ CommonKeys.max_services_per_client = integer(1, MAX_SERVICES)
      /\ CommonKeys.max_streams_per_client = integer(1, MAX_STREAMS)
      /\ CommonKeys.max_pending_streams = integer(1, MAX_PENDING_STREAMS)
      /\ CommonKeys.log_level = LogLevels
  BY DEF CommonKeys
<1>2. /\ defaults.max_clients = MAX_CLIENTS
      /\ defaults.max_services_per_client = MAX_SERVICES
      /\ defaults.max_streams_per_client = DEFAULT_MAX_STREAMS
      /\ defaults.max_pending_streams = DEFAULT_MAX_PENDING_STREAMS
      /\ defaults.log_level = DEFAULT_LOG_LEVEL
      /\ defaults.pool_count = DEFAULT_POOL_COUNT
  BY DEF defaults
<1>3. /\ MAX_CLIENTS \in 1..MAX_CLIENTS /\ MAX_SERVICES \in 1..MAX_SERVICES
      /\ DEFAULT_MAX_STREAMS \in 1..MAX_STREAMS
      /\ DEFAULT_MAX_PENDING_STREAMS \in 1..MAX_PENDING_STREAMS
      /\ DEFAULT_LOG_LEVEL \in LogLevels
  BY ConfigAssumption
<1>4. \A k \in Limits : defaults[k] \in Storable(k)
  BY <1>1, <1>2, <1>3 DEF Limits, Storable, integer
<1> QED
  BY <1>4 DEF CommonTyped

LEMMA ServicesTypedMore ==
  ASSUME NEW svcs, ServicesTyped(svcs), NEW id, NEW c, NEW v,
         OneMore(svcs, NewService(id, c), v)
  PROVE  ServicesTyped(v)
<1>1. PICK s : s = NewService(id, c)
  OBVIOUS
<1>2. DOMAIN s = ServiceFields /\ s.remote_port = 0 /\ s.local_port = 0
  BY <1>1, ServiceNames DEF NewService
<1>3. \A i \in DOMAIN v : v[i] = s \/ (i \in DOMAIN svcs /\ v[i] = svcs[i])
  BY <1>1, ElementsMore
<1> QED
  BY <1>2, <1>3 DEF ServicesTyped

LEMMA ServicesTypedPut ==
  ASSUME NEW svcs, IsText(svcs), ServicesTyped(svcs), Len(svcs) \in DOMAIN svcs, NEW l,
         Takes(ServiceKeys, l.key, l.value)
  PROVE  ServicesTyped(Put(svcs, Len(svcs), KeyStored(svcs[Len(svcs)], l)))
<1>1. PICK s, r : s = svcs[Len(svcs)] /\ r = KeyStored(s, l)
  OBVIOUS
<1>2. PICK v : v = Put(svcs, Len(svcs), r)
  OBVIOUS
<1>3. \A i \in DOMAIN v : v[i] = r \/ (i \in DOMAIN svcs /\ v[i] = svcs[i])
  BY <1>2, ElementsPut
<1>4. /\ DOMAIN s = ServiceFields /\ s.remote_port \in {0} \cup PortNumbers
      /\ s.local_port \in {0} \cup PortNumbers
  BY <1>1 DEF ServicesTyped
<1>5. /\ DOMAIN r = ServiceFields
      /\ \A k \in {"remote_port", "local_port"} :
           r[k] = IF k = l.key THEN l.value ELSE s[k]
  <2>1. DOMAIN r = ServiceFields
    BY <1>1, <1>4 DEF KeyStored
  <2>2. "remote_port" \in ServiceFields /\ "local_port" \in ServiceFields
    BY DEF ServiceFields
  <2>3. \A k \in {"remote_port", "local_port"} :
          r[k] = IF k = l.key THEN Value(k, l.value) ELSE s[k]
    BY <1>1, <1>4, <2>2 DEF KeyStored
  <2>4. \A x : \A k \in {"remote_port", "local_port"} : Value(k, x) = x
    BY DEF Value
  <2> QED BY <2>1, <2>3, <2>4
<1>6. ServiceKeys.remote_port = PortNumbers /\ ServiceKeys.local_port = PortNumbers
  BY DEF ServiceKeys
<1>7. r.remote_port \in {0} \cup PortNumbers /\ r.local_port \in {0} \cup PortNumbers
  BY <1>4, <1>5, <1>6 DEF Takes
<1>8. ServicesTyped(v)
  BY <1>3, <1>5, <1>7 DEF ServicesTyped
<1> QED
  BY <1>1, <1>2, <1>8

LEMMA ClientsTypedMore ==
  ASSUME NEW cls, ClientsTyped(cls), NEW id, NEW c, CommonTyped(c), NEW v,
         OneMore(cls, NewClient(id, c), v)
  PROVE  ClientsTyped(v)
<1>1. PICK a : a = NewClient(id, c)
  OBVIOUS
<1>2. /\ c.max_services_per_client \in 1..MAX_SERVICES
      /\ c.max_streams_per_client \in 1..MAX_STREAMS
  <2>1. /\ CommonKeys.max_services_per_client = integer(1, MAX_SERVICES)
        /\ CommonKeys.max_streams_per_client = integer(1, MAX_STREAMS)
    BY DEF CommonKeys
  <2> QED BY <2>1 DEF CommonTyped, Limits, Storable, integer
<1>3. DOMAIN a = ClientFields
  BY <1>1, ClientNames
<1>4. /\ a.ports = <<>> /\ a.max_services = c.max_services_per_client
      /\ a.max_streams = c.max_streams_per_client
  BY <1>1 DEF NewClient
<1>5. ClientTyped(a)
  BY <1>2, <1>3, <1>4, EmptyText DEF ClientTyped
<1>6. \A i \in DOMAIN v : v[i] = a \/ (i \in DOMAIN cls /\ v[i] = cls[i])
  BY <1>1, ElementsMore
<1> QED
  BY <1>5, <1>6 DEF ClientsTyped

LEMMA ClientsTypedPut ==
  ASSUME NEW cls, IsText(cls), ClientsTyped(cls), Len(cls) \in DOMAIN cls, NEW e,
         ClientTyped(e)
  PROVE  ClientsTyped(Put(cls, Len(cls), e))
<1>1. PICK v : v = Put(cls, Len(cls), e)
  OBVIOUS
<1>2. \A i \in DOMAIN v : v[i] = e \/ (i \in DOMAIN cls /\ v[i] = cls[i])
  BY <1>1, ElementsPut
<1>3. ClientsTyped(v)
  BY <1>2 DEF ClientsTyped
<1> QED
  BY <1>1, <1>3

LEMMA ClientTypedKeyed ==
  ASSUME NEW a, ClientTyped(a), NEW l, Takes(ClientKeys, l.key, l.value)
  PROVE  ClientTyped([a EXCEPT ![l.key] = l.value])
<1>1. PICK r : r = [a EXCEPT ![l.key] = l.value]
  OBVIOUS
<1>2. /\ DOMAIN a = ClientFields /\ l.key \in ClientFields /\ l.key # "ports"
      /\ {"ports", "max_services", "max_streams"} \subseteq ClientFields
  BY ClientNames DEF ClientTyped, Takes
<1>3. /\ DOMAIN r = ClientFields /\ r.ports = a.ports
      /\ r.max_services = IF l.key = "max_services" THEN l.value ELSE a.max_services
      /\ r.max_streams = IF l.key = "max_streams" THEN l.value ELSE a.max_streams
  BY <1>1, <1>2
<1>4. /\ ClientKeys.max_services = 1..MAX_SERVICES
      /\ ClientKeys.max_streams = 1..MAX_STREAMS
  BY DEF ClientKeys, integer
<1>5. ClientTyped(r)
  BY <1>3, <1>4 DEF ClientTyped, Takes
<1> QED
  BY <1>1, <1>5

LEMMA ClientTypedPorted ==
  ASSUME NEW a, ClientTyped(a), NEW x
  PROVE  ClientTyped([a EXCEPT !.ports = Append(a.ports, x)])
<1>1. PICK ports, w : ports = a.ports /\ w = Append(ports, x)
  OBVIOUS
<1>2. IsText(w)
  <2>1. IsText(ports)
    BY <1>1 DEF ClientTyped
  <2>2. OneMore(ports, x, w)
    BY <1>1, <2>1, AppendIsOneMore
  <2> QED BY <2>2 DEF OneMore
<1>3. PICK r : r = [a EXCEPT !.ports = w]
  OBVIOUS
<1>4. /\ DOMAIN a = ClientFields
      /\ {"ports", "max_services", "max_streams"} \subseteq ClientFields
  BY ClientNames DEF ClientTyped
<1>5. /\ DOMAIN r = ClientFields /\ r.ports = w /\ r.max_services = a.max_services
      /\ r.max_streams = a.max_streams
  BY <1>3, <1>4
<1>6. ClientTyped(r)
  BY <1>2, <1>5 DEF ClientTyped
<1> QED
  BY <1>1, <1>3, <1>6

-----------------------------------------------------------------------------
(***************************************************************************)
(* What a refused line has wrong.                                          *)
(***************************************************************************)
LEMMA LineRead ==
  ASSUME NEW t, NEW l, NEW u, OneMore(t, l, u), NEW n, n = Len(t) + 1
  PROVE  /\ n \in DOMAIN u /\ u[n] = l
         /\ Header(u, n) = IF l.kind = "section" THEN n ELSE Current(t)
BY HeaderOfLast DEF OneMore, Current

LEMMA TwiceAt ==
  ASSUME NEW t, NEW l, NEW u, OneMore(t, l, u), l.kind = "key", NEW n, n = Len(t) + 1,
         NEW H, Under(t, H, l.key) # {}, Current(t) \in H,
         H = {Current(t)} \/ H = CommonHeaders(t)
  PROVE  Twice(u, n)
<1>1. u[n] = l /\ Header(u, n) = Current(t)
  BY LineRead
<1>2. PICK j : j \in Under(t, H, l.key)
  OBVIOUS
<1>3. j \in 1..Len(t) /\ t[j].kind = "key" /\ t[j].key = l.key /\ Header(t, j) \in H
  BY <1>2, UnderIs DEF OneMore
<1>4. u[j] = t[j] /\ j \in 1..(n - 1) /\ j \in 0..Len(t)
  BY <1>3 DEF OneMore
<1>5. Header(u, j) = Header(t, j)
  BY <1>4, HeaderKept
<1>6. CommonHeaders(u) = CommonHeaders(t)
  BY HeadersSame
<1>7. Same(u, n, j)
  BY <1>1, <1>3, <1>5, <1>6 DEF Same
<1> QED
  BY <1>1, <1>3, <1>4, <1>7 DEF Twice

LEMMA CommonKeyWrong ==
  ASSUME NEW t, NEW l, NEW u, OneMore(t, l, u), l.kind = "key", NEW n, n = Len(t) + 1,
         Current(t) \in CommonHeaders(t), NEW seen,
         SeenExactly(t, CommonHeaders(t), CommonKeys, seen),
         key_seen(seen, CommonSeen, l.key) \/ ~Takes(CommonKeys, l.key, l.value)
  PROVE  WrongInConfig(u, n)
<1>1. u[n] = l /\ Header(u, n) \in CommonHeaders(u)
  BY LineRead, HeadersSame
<1>2. CASE l.key \in seen
  <2>1. Under(t, CommonHeaders(t), l.key) # {}
    BY <1>2 DEF SeenExactly
  <2>2. Twice(u, n)
    BY <2>1, TwiceAt
  <2> QED BY <1>1, <2>2 DEF WrongInConfig
<1>3. CASE l.key \notin seen
  <2>1. Cardinality(seen) # CommonSeen
    BY CommonTableFits DEF SeenExactly
  <2>2. ~Takes(CommonKeys, l.key, l.value)
    BY <1>3, <2>1 DEF key_seen
  <2> QED BY <1>1, <2>2 DEF WrongInConfig
<1> QED
  BY <1>2, <1>3

LEMMA ServiceKeyWrong ==
  ASSUME NEW t, NEW l, NEW u, OneMore(t, l, u), l.kind = "key", NEW n, n = Len(t) + 1,
         Current(t) \in OtherHeaders(t), NEW seen,
         SeenExactly(t, {Current(t)}, ServiceKeys, seen),
         key_seen(seen, SectionSeen, l.key) \/ ~Takes(ServiceKeys, l.key, l.value)
  PROVE  WrongInConfig(u, n)
<1>1. u[n] = l /\ Header(u, n) \notin CommonHeaders(u)
  <2>1. Current(t) \notin CommonHeaders(t)
    BY DEF CommonHeaders, OtherHeaders
  <2> QED BY <2>1, LineRead, HeadersSame
<1>2. CASE l.key \in seen
  <2>1. Under(t, {Current(t)}, l.key) # {}
    BY <1>2 DEF SeenExactly
  <2>2. Twice(u, n)
    BY <2>1, TwiceAt
  <2> QED BY <1>1, <2>2 DEF WrongInConfig
<1>3. CASE l.key \notin seen
  <2>1. Cardinality(seen) # SectionSeen
    BY SectionTableFits DEF SeenExactly
  <2>2. ~Takes(ServiceKeys, l.key, l.value)
    BY <1>3, <2>1 DEF key_seen
  <2> QED BY <1>1, <2>2 DEF WrongInConfig
<1> QED
  BY <1>2, <1>3

LEMMA ClientKeyWrong ==
  ASSUME NEW t, NEW l, NEW u, OneMore(t, l, u), l.kind = "key", NEW n, n = Len(t) + 1,
         l.key # "allow_remote_port", NEW seen,
         SeenExactly(t, {Current(t)}, ClientKeys, seen),
         key_seen(seen, ClientSeen, l.key) \/ ~Takes(ClientKeys, l.key, l.value)
  PROVE  WrongInClients(u, n)
<1>1. u[n] = l
  BY LineRead
<1>2. CASE l.key \in seen
  <2>1. Under(t, {Current(t)}, l.key) # {}
    BY <1>2 DEF SeenExactly
  <2>2. Twice(u, n)
    BY <2>1, TwiceAt
  <2> QED BY <1>1, <2>2 DEF WrongInClients
<1>3. CASE l.key \notin seen
  <2>1. l.key \in DOMAIN ClientKeys => Cardinality(seen) # ClientSeen
    BY <1>3, ClientTableFits DEF SeenExactly
  <2>2. ~Takes(ClientKeys, l.key, l.value)
    BY <1>3, <2>1 DEF key_seen, Takes
  <2> QED BY <1>1, <2>2 DEF WrongInClients
<1> QED
  BY <1>2, <1>3

LEMMA OneTooMany ==
  ASSUME NEW t, NEW l, NEW u, OneMore(t, l, u), l.kind = "section", NEW m \in Nat
  PROVE  /\ Cardinality(Headers(t)) = m => Cardinality(Headers(u)) > m
         /\ l.name # "common" /\ Cardinality(OtherHeaders(t)) = m
              => Cardinality(OtherHeaders(u)) > m
<1>1. ASSUME NEW S, S \subseteq 1..Len(t), NEW T, T = S \cup {Len(t) + 1},
             Cardinality(S) = m
      PROVE  Cardinality(T) > m
  <2>1. PICK n : n = Len(t) + 1
    OBVIOUS
  <2>2. OneBelow(S, n, T)
    BY <1>1, <2>1 DEF OneBelow, OneMore
  <2>3. Cardinality(T) = Cardinality(S) + 1
    BY <2>2, RankMore
  <2> QED BY <1>1, <2>3
<1>2. Headers(t) \subseteq 1..Len(t) /\ OtherHeaders(t) \subseteq 1..Len(t)
  BY HeadersIn DEF OneMore
<1> QED
  BY <1>1, <1>2, HeadersAdded

LEMMA PortTooMany ==
  ASSUME NEW t, NEW l, NEW u, OneMore(t, l, u), l.kind = "key", NEW p, Current(t) = p,
         NEW m \in Nat, Cardinality(Under(t, {p}, l.key)) = m
  PROVE  Cardinality(Under(u, {p}, l.key)) > m
<1>1. PICK L, M : L = Under(t, {p}, l.key) /\ M = Under(u, {p}, l.key)
  OBVIOUS
<1>2. PICK n : n = Len(t) + 1
  OBVIOUS
<1>3. M = L \cup {n}
  <2>1. Header(t, Len(t)) \in {p}
    BY DEF Current
  <2> QED BY <1>1, <1>2, <2>1, UnderKey
<1>4. IsFiniteSet(L) /\ n \notin L
  BY <1>1, <1>2, UnderIs, UnderFinite DEF OneMore
<1>5. Cardinality(M) = Cardinality(L) + 1
  BY <1>3, <1>4, FS_AddElement
<1> QED
  BY <1>1, <1>5

-----------------------------------------------------------------------------
(***************************************************************************)
(* The inductive invariant: what is stored is what is written down to the  *)
(* line being read, and the tables have the keys of the open section.      *)
(***************************************************************************)
Texts ==
  /\ IsText(text) /\ IsText(clientsText) /\ IsText(services) /\ IsText(clients)
  /\ "unreadable" \in DOMAIN input

Stored ==
  phase \notin {"refused", "invalid"} =>
    /\ CommonTyped(common) /\ CommonOnce(text)
    /\ ServicesTyped(services) /\ ServicesAre(text, services)
    /\ ClientsTyped(clients) /\ ClientsAre(clientsText, clients)

InConfig ==
  phase = "config" =>
    /\ section = IF Current(text) = 0 THEN "" ELSE text[Current(text)].name
    /\ SeenExactly(text, CommonHeaders(text), CommonKeys, common_seen)
    /\ Current(text) \in OtherHeaders(text) =>
         SeenExactly(text, {Current(text)}, ServiceKeys, section_seen)
    /\ CommonRead(text, common)
    /\ clientsText = <<>> /\ clients = <<>>

InClients ==
  phase = "clients" =>
    /\ common.mode = "server"
    /\ Current(clientsText) \in Headers(clientsText) =>
         SeenExactly(clientsText, {Current(clientsText)}, ClientKeys, section_seen)

\* The settings once the environment and the command line have replaced some.
CommonSettled(t, c, in, option) ==
  LET C == CommonHeaders(t)
  IN  /\ \A k \in DOMAIN defaults \ {"log_level", "pool_count", "log_file"} :
           c[k] = Read(t, C, k, defaults[k])
      /\ c.pool_count = Override(Read(t, C, "pool_count", DEFAULT_POOL_COUNT),
                                 Env(in.env_pool))
      /\ c.log_level = Override(Override(Read(t, C, "log_level", DEFAULT_LOG_LEVEL),
                                         Env(in.env_log)), option)

\* What ct_config_validate leaves of the configurations, as far as Sound goes.
Validated(c, svcs) ==
  /\ c.heartbeat_timeout > c.heartbeat_interval /\ c.log_file # ""
  /\ IF c.mode = "server" THEN svcs = <<>> ELSE c.client_id # ""
  /\ \A i \in DOMAIN svcs :
       /\ svcs[i].type \in {"tcp", "udp"}
       /\ svcs[i].remote_port # 0 /\ svcs[i].local_port # 0
       /\ \A j \in 1..(i - 1) : svcs[j].id # svcs[i].id

Settled ==
  phase \in {"clients", "override", "accepted"} =>
    /\ Validated(common, services)
    /\ CommonSettled(text, common, input,
                     IF phase = "accepted" THEN input.option_log ELSE {})
    /\ common.mode # "server" => clients = <<>>
    /\ phase # "clients" =>
         \A i \in DOMAIN clients : clients[i].public_key \in input.usable

ConfigInv == Texts /\ Stored /\ InConfig /\ InClients /\ Settled /\ RefusedForCause

LEMMA NothingRead ==
  /\ Current(<<>>) = 0 /\ Headers(<<>>) = {}
  /\ CommonHeaders(<<>>) = {} /\ OtherHeaders(<<>>) = {}
  /\ \A H, k : Under(<<>>, H, k) = {}
<1>1. Headers(<<>>) = {} /\ CommonHeaders(<<>>) = {} /\ OtherHeaders(<<>>) = {}
  BY EmptyText DEF Headers, CommonHeaders, OtherHeaders
<1>2. \A H, k : Under(<<>>, H, k) = {}
  BY EmptyText DEF Under
<1>3. Current(<<>>) = 0
  BY <1>1, EmptyText, CurrentOf
<1> QED
  BY <1>1, <1>2, <1>3

LEMMA ConfigInit == Init => ConfigInv
<1> SUFFICES ASSUME Init PROVE ConfigInv
  OBVIOUS
<1>1. /\ phase = "config" /\ text = <<>> /\ clientsText = <<>> /\ common = defaults
      /\ services = <<>> /\ clients = <<>> /\ section = "" /\ common_seen = {}
      /\ "unreadable" \in DOMAIN input
  BY DEF Init
<1>2. Texts
  BY <1>1, EmptyText DEF Texts
<1>3. CommonTyped(common)
  BY <1>1, DefaultsTyped
<1>4. Cardinality({}) = 0
  BY FS_EmptySet
<1>5. CommonOnce(text)
  <2>1. \A k : Under(text, CommonHeaders(text), k) = {}
    BY <1>1, NothingRead
  <2>2. Cardinality({}) <= 1
    BY <1>4
  <2> QED BY <2>1, <2>2 DEF CommonOnce
<1>6. ServicesTyped(services) /\ ServicesAre(text, services)
  BY <1>1, <1>4, NothingRead, EmptyText DEF ServicesTyped, ServicesAre
<1>7. ClientsTyped(clients) /\ ClientsAre(clientsText, clients)
  BY <1>1, <1>4, NothingRead, EmptyText DEF ClientsTyped, ClientsAre, AllPlaced
<1>8. Stored
  BY <1>3, <1>5, <1>6, <1>7 DEF Stored
<1>9. SeenExactly(text, CommonHeaders(text), CommonKeys, common_seen)
  BY <1>1, NothingRead DEF SeenExactly
<1>10. CommonRead(text, common)
  BY <1>1, NothingRead DEF CommonRead, Read
<1>11. InConfig
  BY <1>1, <1>9, <1>10, NothingRead DEF InConfig
<1> QED
  BY <1>1, <1>2, <1>8, <1>11 DEF ConfigInv, InClients, Settled, RefusedForCause

\* A line of the configuration.
LEMMA LineMore ==
  ASSUME ConfigInv, NEW l, ReadLine(l)
  PROVE  OneMore(text, l, text') /\ IsText(text')
<1>1. OneMore(text, l, text')
  BY AppendIsOneMore DEF ConfigInv, Texts, ReadLine
<1> QED
  BY <1>1 DEF OneMore

LEMMA RefusedKeeps ==
  ASSUME ConfigInv, NEW l, Refuse(l), RefusedForCause'
  PROVE  ConfigInv'
<1>1. IsText(text')
  BY LineMore DEF Refuse
<1>2. Texts'
  BY <1>1 DEF ConfigInv, Texts, Refuse, ReadLine
<1>3. phase' = "refused"
  BY DEF Refuse
<1> QED
  BY <1>2, <1>3 DEF ConfigInv, Stored, InConfig, InClients, Settled

LEMMA LineRefusedKeeps ==
  ASSUME ConfigInv, NEW l, LineRefused(l)
  PROVE  ConfigInv'
<1>1. Refuse(l) /\ ReadLine(l) /\ phase = "config"
  BY DEF LineRefused, Refuse, ReadLine
<1>2. OneMore(text, l, text')
  BY <1>1, LineMore
<1>3. PICK n : n = Len(text) + 1
  OBVIOUS
<1>4. /\ n \in DOMAIN text' /\ text'[n] = l
      /\ Header(text', n) = IF l.kind = "section" THEN n ELSE Current(text)
  BY <1>2, <1>3, LineRead
<1> SUFFICES RefusedForCause'
  BY <1>1, RefusedKeeps
<1>5. WrongInConfig(text', n) => RefusedForCause'
  BY <1>4 DEF RefusedForCause
<1>6. CASE l.kind = "bad"
  BY <1>4, <1>5, <1>6 DEF WrongInConfig, Wrong
<1>7. CASE l.kind = "section" /\ l.name \notin Strings
  BY <1>4, <1>5, <1>7 DEF WrongInConfig, Wrong
<1>8. CASE l.kind = "section" /\ l.name # "common" /\ Len(services) = MAX_SERVICES
  <2>1. Cardinality(OtherHeaders(text)) = MAX_SERVICES /\ MAX_SERVICES \in Nat
    BY <1>1, <1>8, ConfigAssumption DEF ConfigInv, Stored, ServicesAre
  <2>2. Cardinality(OtherHeaders(text')) > MAX_SERVICES
    BY <1>2, <1>8, <2>1, OneTooMany
  <2> QED BY <2>2 DEF RefusedForCause
<1>9. CASE l.kind = "key" /\ section = ""
  <2>1. PICK h : h = Current(text)
    OBVIOUS
  <2>2. Header(text', n) = h
    BY <1>4, <1>9, <2>1
  <2>3. CASE h = 0
    BY <1>4, <1>5, <1>9, <2>2, <2>3 DEF WrongInConfig, Wrong
  <2>4. CASE h # 0
    <3>1. text[h].name = ""
      BY <1>1, <1>9, <2>1, <2>4 DEF ConfigInv, InConfig
    <3>2. h \in 1..Len(text)
      BY <2>1, <2>4, CurrentOf DEF ConfigInv, Texts
    <3>3. text'[h] = text[h]
      BY <1>2, <3>2 DEF OneMore
    <3> QED BY <1>4, <1>5, <1>9, <2>2, <3>1, <3>3 DEF WrongInConfig
  <2> QED BY <2>3, <2>4
<1> QED
  BY <1>6, <1>7, <1>8, <1>9 DEF LineRefused

LEMMA KeyRefusedKeeps ==
  ASSUME ConfigInv, NEW l, KeyRefused(l)
  PROVE  ConfigInv'
<1>1. Refuse(l) /\ ReadLine(l) /\ phase = "config" /\ l.kind = "key" /\ section # ""
  BY DEF KeyRefused, Refuse, ReadLine
<1>2. OneMore(text, l, text')
  BY <1>1, LineMore
<1>3. PICK n : n = Len(text) + 1
  OBVIOUS
<1>4. n \in DOMAIN text'
  BY <1>2, <1>3, LineRead
<1>5. PICK h : h = Current(text)
  OBVIOUS
<1>6. h # 0 /\ section = text[h].name
  BY <1>1, <1>5 DEF ConfigInv, InConfig
<1>7. h \in Headers(text)
  BY <1>5, <1>6, CurrentOf DEF ConfigInv, Texts
<1>8. ASSUME section = "common" PROVE WrongInConfig(text', n)
  <2>1. h \in CommonHeaders(text)
    BY <1>6, <1>7, <1>8 DEF CommonHeaders
  <2>2. SeenExactly(text, CommonHeaders(text), CommonKeys, common_seen)
    BY <1>1 DEF ConfigInv, InConfig
  <2>3. key_seen(common_seen, CommonSeen, l.key) \/ ~Takes(CommonKeys, l.key, l.value)
    BY <1>8 DEF KeyRefused
  <2> QED BY <1>1, <1>2, <1>3, <1>5, <2>1, <2>2, <2>3, CommonKeyWrong
<1>9. ASSUME section # "common" PROVE WrongInConfig(text', n)
  <2>1. h \in OtherHeaders(text)
    BY <1>6, <1>7, <1>9 DEF OtherHeaders
  <2>2. SeenExactly(text, {Current(text)}, ServiceKeys, section_seen)
    BY <1>1, <1>5, <2>1 DEF ConfigInv, InConfig
  <2>3. key_seen(section_seen, SectionSeen, l.key) \/ ~Takes(ServiceKeys, l.key, l.value)
    BY <1>9 DEF KeyRefused
  <2> QED BY <1>1, <1>2, <1>3, <1>5, <2>1, <2>2, <2>3, ServiceKeyWrong
<1>10. WrongInConfig(text', n)
  BY <1>8, <1>9
<1>11. RefusedForCause'
  BY <1>4, <1>10 DEF RefusedForCause
<1> QED
  BY <1>1, <1>11, RefusedKeeps

\* A line that is read leaves the clients' file alone.
LEMMA ReadKeeps ==
  ASSUME ConfigInv, NEW l, ReadLine(l), phase' = phase, IsText(services'),
         CommonTyped(common'), CommonOnce(text'), ServicesTyped(services'),
         ServicesAre(text', services'),
         section' = (IF Current(text') = 0 THEN "" ELSE text'[Current(text')].name),
         SeenExactly(text', CommonHeaders(text'), CommonKeys, common_seen'),
         Current(text') \in OtherHeaders(text') =>
           SeenExactly(text', {Current(text')}, ServiceKeys, section_seen'),
         CommonRead(text', common')
  PROVE  ConfigInv'
<1>1. IsText(text')
  BY LineMore
<1>2. phase = "config" /\ UNCHANGED <<clientsText, input, clients>>
  BY DEF ReadLine
<1>3. Texts'
  BY <1>1, <1>2 DEF ConfigInv, Texts
<1>4. /\ ClientsTyped(clients) /\ ClientsAre(clientsText, clients)
      /\ clientsText = <<>> /\ clients = <<>>
  BY <1>2 DEF ConfigInv, Stored, InConfig
<1>5. Stored'
  BY <1>2, <1>4 DEF Stored
<1>6. InConfig'
  BY <1>2, <1>4 DEF InConfig
<1> QED
  BY <1>2, <1>3, <1>5, <1>6 DEF ConfigInv, InClients, Settled, RefusedForCause

LEMMA CommonSectionKeeps ==
  ASSUME ConfigInv, NEW l, CommonSection(l)
  PROVE  ConfigInv'
<1>1. /\ ReadLine(l) /\ phase = "config" /\ l.kind = "section" /\ l.name = "common"
      /\ section' = "common" /\ phase' = phase
      /\ UNCHANGED <<common, services, common_seen>>
  BY DEF CommonSection, ReadLine
<1>2. OneMore(text, l, text')
  BY <1>1, LineMore
<1>3. PICK n : n = Len(text) + 1
  OBVIOUS
<1>4. Current(text') = n /\ text'[n] = l /\ n # 0
  <2>1. Len(text) \in Nat
    BY <1>2 DEF OneMore
  <2> QED BY <1>1, <1>2, <1>3, <2>1, CurrentMore, LineRead
<1>5. OtherHeaders(text') = OtherHeaders(text)
  <2>1. OtherHeaders(text') = OtherHeaders(text) \cup
          (IF l.name = "common" THEN {} ELSE {Len(text) + 1})
    BY <1>1, <1>2, HeadersAdded
  <2> QED BY <1>1, <2>1
<1>6. \A p, k : Under(text', {p}, k) = Under(text, {p}, k)
  BY <1>1, <1>2, OthersAtHeader
<1>7. ServicesAre(text', services)
  BY <1>1, <1>2, <1>5, <1>6, ServicesSame DEF ConfigInv, Stored
<1>8. /\ CommonOnce(text') /\ CommonRead(text', common)
      /\ SeenExactly(text', CommonHeaders(text'), CommonKeys, common_seen)
  BY <1>1, <1>2, CommonKept DEF ConfigInv, Stored, InConfig
<1>9. Current(text') \notin OtherHeaders(text')
  BY <1>1, <1>4 DEF OtherHeaders
<1>10. IsText(services) /\ CommonTyped(common) /\ ServicesTyped(services)
  BY <1>1 DEF ConfigInv, Texts, Stored
<1> QED
  BY <1>1, <1>4, <1>7, <1>8, <1>9, <1>10, ReadKeeps

LEMMA ServiceSectionKeeps ==
  ASSUME ConfigInv, NEW l, ServiceSection(l)
  PROVE  ConfigInv'
<1>1. /\ ReadLine(l) /\ phase = "config" /\ l.kind = "section" /\ l.name # "common"
      /\ section' = l.name /\ phase' = phase /\ section_seen' = {}
      /\ services' = Append(services, NewService(l.name, common))
      /\ UNCHANGED <<common, common_seen>>
  BY DEF ServiceSection, ReadLine
<1>2. OneMore(text, l, text')
  BY <1>1, LineMore
<1>3. PICK n : n = Len(text) + 1
  OBVIOUS
<1>4. Current(text') = n /\ text'[n] = l /\ n # 0
  <2>1. Len(text) \in Nat
    BY <1>2 DEF OneMore
  <2> QED BY <1>1, <1>2, <1>3, <2>1, CurrentMore, LineRead
<1>5. PICK s : s = NewService(l.name, common)
  OBVIOUS
<1>6. OneMore(services, NewService(l.name, common), services')
  <2>1. IsText(services)
    BY DEF ConfigInv, Texts
  <2>2. services' = Append(services, s)
    BY <1>1, <1>5
  <2>3. OneMore(services, s, services')
    BY <2>1, <2>2, AppendIsOneMore
  <2> QED BY <1>5, <2>3
<1>7. DefaultWritten(text, common)
  <2>1. "default_data_encryption" \in DOMAIN defaults
    BY DEF defaults
  <2> QED BY <1>1, <2>1 DEF ConfigInv, InConfig, CommonRead, DefaultWritten
<1>8. ServicesAre(text, services) /\ ServicesTyped(services)
  BY <1>1 DEF ConfigInv, Stored
<1>9. ServicesAre(text', services')
  BY <1>1, <1>2, <1>6, <1>7, <1>8, ServicesOpened
<1>10. ServicesTyped(services')
  BY <1>6, <1>8, ServicesTypedMore
<1>11. /\ CommonOnce(text') /\ CommonRead(text', common)
       /\ SeenExactly(text', CommonHeaders(text'), CommonKeys, common_seen)
  BY <1>1, <1>2, CommonKept DEF ConfigInv, Stored, InConfig
<1>12. SeenExactly(text', {n}, ServiceKeys, {})
  <2>1. \A k : Under(text', {n}, k) = {}
    BY <1>1, <1>2, <1>3, NoneAtHeader
  <2> QED BY <2>1 DEF SeenExactly
<1>13. IsText(services') /\ CommonTyped(common)
  BY <1>1, <1>6 DEF ConfigInv, Stored, OneMore
<1> QED
  BY <1>1, <1>4, <1>9, <1>10, <1>11, <1>12, <1>13, ReadKeeps

\* A key stands under the header of the section being read.
LEMMA SectionOpen ==
  ASSUME ConfigInv, phase = "config", section # ""
  PROVE  /\ Current(text) \in Headers(text) /\ Current(text) \in 1..Len(text)
         /\ Current(text) # 0 /\ text[Current(text)].name = section
         /\ section = "common" => Current(text) \in CommonHeaders(text)
         /\ section # "common" => Current(text) \in OtherHeaders(text)
<1>1. Current(text) # 0 /\ text[Current(text)].name = section
  BY DEF ConfigInv, InConfig
<1>2. Current(text) \in Headers(text) /\ Headers(text) \subseteq 1..Len(text)
  BY <1>1, CurrentOf, HeadersIn DEF ConfigInv, Texts
<1> QED
  BY <1>1, <1>2 DEF CommonHeaders, OtherHeaders

LEMMA KeyLine ==
  ASSUME ConfigInv, NEW l, ReadLine(l), l.kind = "key", section # ""
  PROVE  /\ Current(text') = Current(text)
         /\ section = IF Current(text') = 0 THEN "" ELSE text'[Current(text')].name
         /\ CommonHeaders(text') = CommonHeaders(text)
         /\ OtherHeaders(text') = OtherHeaders(text)
<1>1. phase = "config" /\ OneMore(text, l, text')
  BY LineMore DEF ReadLine
<1>2. PICK h : h = Current(text)
  OBVIOUS
<1>3. h # 0 /\ h \in 1..Len(text) /\ text[h].name = section
  BY <1>1, <1>2, SectionOpen
<1>4. Current(text') = h
  BY <1>1, <1>2, CurrentMore
<1>5. text'[h] = text[h]
  BY <1>1, <1>3 DEF OneMore
<1>6. CommonHeaders(text') = CommonHeaders(text) /\ OtherHeaders(text') = OtherHeaders(text)
  BY <1>1, HeadersSame
<1> QED
  BY <1>2, <1>3, <1>4, <1>5, <1>6

LEMMA CommonKeyKeeps ==
  ASSUME ConfigInv, NEW l, CommonKey(l)
  PROVE  ConfigInv'
<1>1. /\ ReadLine(l) /\ phase = "config" /\ l.kind = "key" /\ section = "common"
      /\ section' = section /\ phase' = phase /\ services' = services
      /\ l.key \notin common_seen /\ Takes(CommonKeys, l.key, l.value)
      /\ common_seen' = common_seen \cup {l.key}
      /\ common' = SettingStored(common, l)
  BY DEF CommonKey, ReadLine, key_seen, SettingStored
<1>2. OneMore(text, l, text')
  BY <1>1, LineMore
<1>3. Current(text) \in CommonHeaders(text)
  BY <1>1, SectionOpen
<1>4. /\ Current(text') = Current(text)
      /\ section = IF Current(text') = 0 THEN "" ELSE text'[Current(text')].name
      /\ OtherHeaders(text') = OtherHeaders(text)
  BY <1>1, KeyLine
<1>5. /\ CommonRead(text, common) /\ CommonTyped(common) /\ CommonOnce(text)
      /\ SeenExactly(text, CommonHeaders(text), CommonKeys, common_seen)
  BY <1>1 DEF ConfigInv, Stored, InConfig
<1>6. /\ CommonRead(text', SettingStored(common, l)) /\ CommonTyped(SettingStored(common, l))
      /\ CommonOnce(text')
      /\ SeenExactly(text', CommonHeaders(text'), CommonKeys, common_seen \cup {l.key})
  BY <1>1, <1>2, <1>3, <1>5, CommonKeyed
<1>7. ASSUME NEW p \in OtherHeaders(text), NEW k
      PROVE  Under(text', {p}, k) = Under(text, {p}, k)
  <2>1. Header(text, Len(text)) \notin {p}
    BY <1>3 DEF Current, CommonHeaders, OtherHeaders
  <2> QED BY <1>1, <1>2, <2>1, ReadElsewhere
<1>8. IsText(services) /\ ServicesAre(text, services) /\ ServicesTyped(services)
  BY <1>1 DEF ConfigInv, Texts, Stored
<1>9. ServicesAre(text', services)
  <2>1. OtherHeaders(text') = OtherHeaders(text)
    BY <1>4
  <2>2. \A p \in OtherHeaders(text) : \A k : Under(text', {p}, k) = Under(text, {p}, k)
    BY <1>7
  <2>3. ServicesAre(text, services)
    BY <1>8
  <2> QED BY <1>2, <2>1, <2>2, <2>3, ServicesSame
<1>10. Current(text') \notin OtherHeaders(text')
  BY <1>3, <1>4 DEF CommonHeaders, OtherHeaders
<1> QED
  BY <1>1, <1>4, <1>6, <1>8, <1>9, <1>10, ReadKeeps

LEMMA ServiceKeyKeeps ==
  ASSUME ConfigInv, NEW l, ServiceKey(l)
  PROVE  ConfigInv'
<1>1. /\ ReadLine(l) /\ phase = "config" /\ l.kind = "key"
      /\ section # "" /\ section # "common"
      /\ section' = section /\ phase' = phase /\ common' = common
      /\ l.key \notin section_seen /\ Takes(ServiceKeys, l.key, l.value)
      /\ section_seen' = section_seen \cup {l.key} /\ common_seen' = common_seen
  BY DEF ServiceKey, ReadLine, key_seen
<1>2. services' = Put(services, Len(services), KeyStored(services[Len(services)], l))
  BY DEF ServiceKey, Put, KeyStored
<1>3. OneMore(text, l, text')
  BY <1>1, LineMore
<1>4. Current(text) \in OtherHeaders(text) /\ Current(text) \notin CommonHeaders(text)
  BY <1>1, SectionOpen DEF CommonHeaders, OtherHeaders
<1>5. /\ Current(text') = Current(text)
      /\ section = IF Current(text') = 0 THEN "" ELSE text'[Current(text')].name
  BY <1>1, KeyLine
<1>6. /\ IsText(services) /\ ServicesAre(text, services) /\ ServicesTyped(services)
      /\ CommonTyped(common)
      /\ SeenExactly(text, {Current(text)}, ServiceKeys, section_seen)
  BY <1>1, <1>4 DEF ConfigInv, Texts, Stored, InConfig
<1>7. /\ CommonOnce(text') /\ CommonRead(text', common)
      /\ SeenExactly(text', CommonHeaders(text'), CommonKeys, common_seen)
  BY <1>1, <1>3, <1>4, CommonKept DEF ConfigInv, Stored, InConfig
<1>8. l.key \in DOMAIN ServiceKeys
  BY <1>1 DEF Takes
<1>9. PICK H : H = {Current(text)}
  OBVIOUS
<1>10. SeenExactly(text', H, ServiceKeys, section_seen \cup {l.key}) /\ Under(text, H, l.key) = {}
  <2>1. Header(text, Len(text)) \in H
    BY <1>9 DEF Current
  <2> QED BY <1>1, <1>3, <1>6, <1>8, <1>9, <2>1, SeenMore
<1>11. PICK v : v = Put(services, Len(services), KeyStored(services[Len(services)], l))
  OBVIOUS
<1>12. Len(services) \in DOMAIN services /\ ServicesAre(text', v)
  BY <1>1, <1>3, <1>4, <1>6, <1>8, <1>9, <1>10, <1>11, ServicesKeyed
<1>13. ServicesTyped(v)
  BY <1>1, <1>6, <1>11, <1>12, ServicesTypedPut
<1>14. IsText(v)
  BY <1>6, <1>11, <1>12, PutIsText
<1> QED
  BY <1>1, <1>2, <1>5, <1>6, <1>7, <1>9, <1>10, <1>11, <1>12, <1>13, <1>14, ReadKeeps

-----------------------------------------------------------------------------
(***************************************************************************)
(* The end of the configuration.                                           *)
(***************************************************************************)
LEMMA OverrideIn ==
  ASSUME NEW S, NEW old, NEW new, new \subseteq S, old \in S
  PROVE  Override(old, new) \in S
BY DEF Override

LEMMA OverrideEnv ==
  ASSUME NEW old, NEW new
  PROVE  Override(old, Env(new)) = IF Has("ENV_OVERRIDE") THEN Override(old, new) ELSE old
<1>1. CASE Has("ENV_OVERRIDE")
  BY <1>1 DEF Env
<1>2. CASE ~Has("ENV_OVERRIDE")
  BY <1>2 DEF Env, Override
<1> QED
  BY <1>1, <1>2

CompletedAs(c, in, d) == EnvironmentOK(in) /\ d = Completed(c, in)

\* d has what the environment says, and is c otherwise.
Filled(c, in, d) ==
  /\ DOMAIN d = DOMAIN defaults
  /\ \A k \in DOMAIN defaults \ {"log_level", "pool_count", "log_file"} : d[k] = c[k]
  /\ d.pool_count = Override(c.pool_count, Env(in.env_pool))
  /\ d.log_level = Override(c.log_level, Env(in.env_log))
  /\ d.log_file # ""

LEMMA CompletedIs ==
  ASSUME NEW c, CommonTyped(c), NEW in, NEW d, CompletedAs(c, in, d)
  PROVE  Filled(c, in, d)
<1>1. DOMAIN c = DOMAIN defaults /\ {"log_level", "pool_count", "log_file"} \subseteq DOMAIN c
  BY DEF defaults, CommonTyped
<1>2. PICK x, y, z :
        /\ x = IF Has("ENV_OVERRIDE") THEN Override(c.log_level, in.env_log) ELSE c.log_level
        /\ y = IF Has("ENV_OVERRIDE") THEN Override(c.pool_count, in.env_pool) ELSE c.pool_count
        /\ z = set_default_log_file(c)
  OBVIOUS
<1>3. d = [c EXCEPT !.log_level = x, !.pool_count = y, !.log_file = z]
  BY <1>2 DEF Completed, CompletedAs
<1>4. /\ DOMAIN d = DOMAIN c /\ d.log_level = x /\ d.pool_count = y /\ d.log_file = z
      /\ \A k \in DOMAIN c \ {"log_level", "pool_count", "log_file"} : d[k] = c[k]
  BY <1>1, <1>3
<1>5. x = Override(c.log_level, Env(in.env_log)) /\ y = Override(c.pool_count, Env(in.env_pool))
  BY <1>2, OverrideEnv
<1>6. z # ""
  BY <1>2 DEF set_default_log_file
<1> QED
  BY <1>1, <1>4, <1>5, <1>6 DEF Filled

LEMMA CompletedTyped ==
  ASSUME NEW c, CommonTyped(c), NEW in, NEW d, CompletedAs(c, in, d),
         ~Has("WORK_POOL") => d.pool_count = 0
  PROVE  CommonTyped(d)
<1>1. /\ DOMAIN d = DOMAIN defaults
      /\ \A k \in DOMAIN defaults \ {"log_level", "pool_count", "log_file"} : d[k] = c[k]
      /\ d.pool_count = Override(c.pool_count, Env(in.env_pool))
      /\ d.log_level = Override(c.log_level, Env(in.env_log))
  <2>1. Filled(c, in, d)
    BY CompletedIs
  <2> QED BY <2>1 DEF Filled
<1>2. Env(in.env_log) \subseteq LogLevels /\ Env(in.env_pool) \subseteq 0..MAX_STREAMS
  BY DEF Env, EnvironmentOK, CompletedAs
<1>3. /\ CommonKeys.log_level = LogLevels
      /\ CommonKeys.pool_count = IF Has("WORK_POOL") THEN 0..MAX_STREAMS ELSE {0}
  <2>1. /\ CommonKeys.log_level = LogLevels
        /\ CommonKeys.pool_count = IF Has("WORK_POOL") THEN integer(0, MAX_STREAMS) ELSE {0}
    BY DEF CommonKeys
  <2> QED BY <2>1 DEF integer
<1>4. /\ c.log_level \in CommonKeys.log_level
      /\ c.pool_count \in CommonKeys.pool_count \cup {DEFAULT_POOL_COUNT}
  BY DEF CommonTyped, Limits, Storable
<1>5. d.log_level \in CommonKeys.log_level
  BY <1>1, <1>2, <1>3, <1>4, OverrideIn
<1>6. d.pool_count \in CommonKeys.pool_count \cup {DEFAULT_POOL_COUNT}
  <2>1. CASE Has("WORK_POOL")
    <3>1. PICK S : S = 0..MAX_STREAMS \cup {DEFAULT_POOL_COUNT}
      OBVIOUS
    <3>2. /\ CommonKeys.pool_count \cup {DEFAULT_POOL_COUNT} = S
          /\ c.pool_count \in S /\ Env(in.env_pool) \subseteq S
      BY <1>2, <1>3, <1>4, <2>1, <3>1
    <3> QED BY <1>1, <3>2, OverrideIn
  <2>2. CASE ~Has("WORK_POOL")
    BY <1>3, <2>2
  <2> QED BY <2>1, <2>2
<1>7. \A k \in Limits : d[k] \in Storable(k)
  <2>1. \A k \in Limits \ {"log_level", "pool_count"} : d[k] = c[k]
    <3>1. Limits \subseteq DOMAIN defaults /\ "log_file" \notin Limits
      BY CommonNames DEF Limits
    <3> QED BY <1>1, <3>1
  <2> QED BY <1>5, <1>6, <2>1 DEF CommonTyped, Storable
<1> QED
  BY <1>1, <1>7 DEF CommonTyped

LEMMA CompletedSettled ==
  ASSUME NEW t, NEW c, CommonRead(t, c), CommonTyped(c), NEW in, NEW d,
         CompletedAs(c, in, d)
  PROVE  CommonSettled(t, d, in, {})
<1>1. /\ \A k \in DOMAIN defaults \ {"log_level", "pool_count", "log_file"} : d[k] = c[k]
      /\ d.pool_count = Override(c.pool_count, Env(in.env_pool))
      /\ d.log_level = Override(c.log_level, Env(in.env_log))
  <2>1. Filled(c, in, d)
    BY CompletedIs
  <2> QED BY <2>1 DEF Filled
<1>2. /\ defaults.pool_count = DEFAULT_POOL_COUNT /\ defaults.log_level = DEFAULT_LOG_LEVEL
      /\ "pool_count" \in DOMAIN defaults /\ "log_level" \in DOMAIN defaults
  BY DEF defaults
<1>3. /\ c.pool_count = Read(t, CommonHeaders(t), "pool_count", DEFAULT_POOL_COUNT)
      /\ c.log_level = Read(t, CommonHeaders(t), "log_level", DEFAULT_LOG_LEVEL)
  BY <1>2 DEF CommonRead
<1>4. \A x : Override(x, {}) = x
  BY DEF Override
<1>5. \A k \in DOMAIN defaults \ {"log_level", "pool_count", "log_file"} :
        d[k] = Read(t, CommonHeaders(t), k, defaults[k])
  BY <1>1 DEF CommonRead
<1> QED
  BY <1>1, <1>3, <1>4, <1>5 DEF CommonSettled

LEMMA ValidateLeaves ==
  ASSUME NEW c, NEW svcs, ct_config_validate(c, svcs), c.log_file # ""
  PROVE  Validated(c, svcs) /\ (~Has("WORK_POOL") => c.pool_count = 0)
<1>1. CASE c.mode = "server"
  BY <1>1, EmptyText DEF ct_config_validate, Validated
<1>2. CASE c.mode # "server"
  BY <1>2 DEF ct_config_validate, Validated, ServiceValid
<1> QED
  BY <1>1, <1>2

LEMMA ConfigEndKeeps ==
  ASSUME ConfigInv, NEW in \in Inputs, ConfigEnd(in)
  PROVE  ConfigInv'
<1>1. /\ phase = "config" /\ input' = in /\ common' = Completed(common, in)
      /\ UNCHANGED <<text, clientsText, services, clients>>
      /\ IF ~ConfigGood(in) THEN phase' = "invalid"
         ELSE IF common'.mode = "server" THEN phase' = "clients" ELSE phase' = "override"
  BY DEF ConfigEnd
<1>2. "unreadable" \in DOMAIN in
  BY ConfigAssumption DEF Input
<1>3. Texts'
  BY <1>1, <1>2 DEF ConfigInv, Texts
<1>4. phase' # "refused" /\ phase' # "config" /\ phase' # "accepted"
  BY <1>1
<1>5. InConfig' /\ RefusedForCause'
  BY <1>4 DEF InConfig, RefusedForCause
<1>6. CASE phase' = "invalid"
  BY <1>3, <1>5, <1>6 DEF ConfigInv, Stored, InClients, Settled
<1>7. CASE phase' # "invalid"
  <2>1. /\ EnvironmentOK(in) /\ ct_config_validate(common', services)
        /\ phase' = IF common'.mode = "server" THEN "clients" ELSE "override"
    BY <1>1, <1>7 DEF ConfigGood
  <2>2. /\ CommonTyped(common) /\ CommonOnce(text) /\ CommonRead(text, common)
        /\ ServicesTyped(services) /\ ServicesAre(text, services)
        /\ ClientsTyped(clients) /\ ClientsAre(clientsText, clients)
        /\ clientsText = <<>> /\ clients = <<>>
    BY <1>1 DEF ConfigInv, Stored, InConfig
  <2>3. CompletedAs(common, in, common')
    BY <1>1, <2>1 DEF CompletedAs
  <2>4. common'.log_file # ""
    <3>1. Filled(common, in, common')
      BY <2>3, <2>2, CompletedIs
    <3> QED BY <3>1 DEF Filled
  <2>5. Validated(common', services) /\ (~Has("WORK_POOL") => common'.pool_count = 0)
    BY <2>1, <2>4, ValidateLeaves
  <2>6. CommonTyped(common')
    BY <2>3, <2>2, <2>5, CompletedTyped
  <2>7. CommonSettled(text, common', in, {})
    BY <2>3, <2>2, CompletedSettled
  <2>8. Stored'
    BY <1>1, <2>2, <2>6 DEF Stored
  <2>9. InClients'
    BY <1>1, <2>1, <2>2, NothingRead DEF InClients
  <2>10. Settled'
    BY <1>1, <1>4, <2>2, <2>5, <2>7, EmptyText DEF Settled
  <2> QED BY <1>3, <1>5, <2>8, <2>9, <2>10 DEF ConfigInv
<1> QED
  BY <1>6, <1>7

-----------------------------------------------------------------------------
(***************************************************************************)
(* The file of authorized clients.                                         *)
(***************************************************************************)
LEMMA ClientsLineMore ==
  ASSUME ConfigInv, NEW l, ReadClientsLine(l)
  PROVE  OneMore(clientsText, l, clientsText') /\ IsText(clientsText')
<1>1. OneMore(clientsText, l, clientsText')
  BY AppendIsOneMore DEF ConfigInv, Texts, ReadClientsLine
<1> QED
  BY <1>1 DEF OneMore

LEMMA ClientsReadKeeps ==
  ASSUME ConfigInv, NEW l, ReadClientsLine(l), phase' = phase, IsText(clients'),
         ClientsTyped(clients'), ClientsAre(clientsText', clients'),
         Current(clientsText') \in Headers(clientsText') =>
           SeenExactly(clientsText', {Current(clientsText')}, ClientKeys, section_seen')
  PROVE  ConfigInv'
<1>1. IsText(clientsText')
  BY ClientsLineMore
<1>2. phase = "clients" /\ UNCHANGED <<text, input, common, services>>
  BY DEF ReadClientsLine
<1>3. Texts'
  BY <1>1, <1>2 DEF ConfigInv, Texts
<1>4. Stored'
  BY <1>2 DEF ConfigInv, Stored
<1>5. common.mode = "server"
  BY <1>2 DEF ConfigInv, InClients
<1>6. InClients'
  BY <1>2, <1>5 DEF InClients
<1>7. Settled'
  BY <1>2, <1>5 DEF ConfigInv, Settled
<1> QED
  BY <1>2, <1>3, <1>4, <1>6, <1>7 DEF ConfigInv, InConfig, RefusedForCause

LEMMA ClientSectionKeeps ==
  ASSUME ConfigInv, NEW l, ClientSection(l)
  PROVE  ConfigInv'
<1>1. /\ ReadClientsLine(l) /\ phase = "clients" /\ l.kind = "section"
      /\ phase' = phase /\ section_seen' = {}
      /\ clients' = Append(clients, NewClient(l.name, common))
      /\ \A i \in DOMAIN clients : clients[i].id # l.name
  BY DEF ClientSection, ReadClientsLine, Duplicate
<1>2. OneMore(clientsText, l, clientsText')
  BY <1>1, ClientsLineMore
<1>3. PICK n : n = Len(clientsText) + 1
  OBVIOUS
<1>4. Current(clientsText') = n
  BY <1>1, <1>2, <1>3, CurrentMore
<1>5. PICK a : a = NewClient(l.name, common)
  OBVIOUS
<1>6. /\ IsText(clients) /\ ClientsTyped(clients) /\ ClientsAre(clientsText, clients)
      /\ CommonTyped(common)
  BY <1>1 DEF ConfigInv, Texts, Stored
<1>7. OneMore(clients, NewClient(l.name, common), clients')
  <2>1. clients' = Append(clients, a)
    BY <1>1, <1>5
  <2>2. OneMore(clients, a, clients')
    BY <1>6, <2>1, AppendIsOneMore
  <2> QED BY <1>5, <2>2
<1>8. ClientsAre(clientsText', clients')
  <2>1. l.kind = "section" /\ \A i \in DOMAIN clients : clients[i].id # l.name
    BY <1>1
  <2> QED BY <1>2, <1>6, <1>7, <2>1, ClientsOpened
<1>9. ClientsTyped(clients')
  BY <1>6, <1>7, ClientsTypedMore
<1>10. SeenExactly(clientsText', {n}, ClientKeys, {})
  <2>1. \A k : Under(clientsText', {n}, k) = {}
    BY <1>1, <1>2, <1>3, NoneAtHeader
  <2> QED BY <2>1 DEF SeenExactly
<1>11. IsText(clients')
  BY <1>7 DEF OneMore
<1> QED
  BY <1>1, <1>4, <1>8, <1>9, <1>10, <1>11, ClientsReadKeeps

\* A key stands under the header of the last client.
LEMMA ClientOpen ==
  ASSUME ConfigInv, phase = "clients", clients # <<>>
  PROVE  /\ Current(clientsText) \in Headers(clientsText)
         /\ Current(clientsText) \in 1..Len(clientsText)
         /\ Len(clients) \in DOMAIN clients
         /\ ClientWritten(clientsText, Current(clientsText), clients[Len(clients)])
         /\ ClientTyped(clients[Len(clients)])
         /\ SeenExactly(clientsText, {Current(clientsText)}, ClientKeys, section_seen)
<1>1. /\ IsText(clientsText) /\ IsText(clients) /\ ClientsAre(clientsText, clients)
      /\ ClientsTyped(clients)
  BY DEF ConfigInv, Texts, Stored
<1>2. /\ Current(clientsText) \in Headers(clientsText)
      /\ Len(clients) \in DOMAIN clients
      /\ ClientWritten(clientsText, Current(clientsText), clients[Len(clients)])
  BY <1>1, LastClient
<1>3. Current(clientsText) \in 1..Len(clientsText)
  BY <1>1, <1>2, HeadersIn
<1>4. SeenExactly(clientsText, {Current(clientsText)}, ClientKeys, section_seen)
  BY <1>2 DEF ConfigInv, InClients
<1> QED
  BY <1>1, <1>2, <1>3, <1>4 DEF ClientsTyped

\* The last client is replaced by e, which has what is written so far.
LEMMA ClientChangedKeeps ==
  ASSUME ConfigInv, NEW l, ReadClientsLine(l), phase' = phase, l.kind = "key",
         clients # <<>>, NEW e, ClientTyped(e),
         ClientWritten(clientsText', Current(clientsText), e),
         clients' = Put(clients, Len(clients), e),
         SeenExactly(clientsText', {Current(clientsText)}, ClientKeys, section_seen')
  PROVE  ConfigInv'
<1>1. phase = "clients" /\ OneMore(clientsText, l, clientsText')
  BY ClientsLineMore DEF ReadClientsLine
<1>2. Current(clientsText) \in Headers(clientsText) /\ Len(clients) \in DOMAIN clients
  BY <1>1, ClientOpen
<1>3. IsText(clients) /\ ClientsTyped(clients) /\ ClientsAre(clientsText, clients)
  BY <1>1 DEF ConfigInv, Texts, Stored
<1>4. PICK v : v = Put(clients, Len(clients), e)
  OBVIOUS
<1>5. ClientsAre(clientsText', v) /\ ClientsTyped(v) /\ IsText(v)
  <2>1. /\ ClientsAre(clientsText', Put(clients, Len(clients), e))
        /\ ClientsTyped(Put(clients, Len(clients), e))
    BY <1>1, <1>2, <1>3, ClientsChanged, ClientsTypedPut
  <2>2. IsText(Put(clients, Len(clients), e))
    BY <1>2, <1>3, PutIsText
  <2> QED BY <1>4, <2>1, <2>2
<1>6. Current(clientsText') = Current(clientsText)
  BY <1>1, CurrentMore
<1> QED
  BY <1>4, <1>5, <1>6, ClientsReadKeeps

LEMMA ClientKeyKeeps ==
  ASSUME ConfigInv, NEW l, ClientKey(l)
  PROVE  ConfigInv'
<1>1. /\ ReadClientsLine(l) /\ phase = "clients" /\ l.kind = "key" /\ clients # <<>>
      /\ phase' = phase /\ l.key \notin section_seen
      /\ Takes(ClientKeys, l.key, l.value) /\ l.key \in DOMAIN ClientKeys
      /\ section_seen' = section_seen \cup {l.key}
  BY DEF ClientKey, ReadClientsLine, key_seen, Takes
<1>2. OneMore(clientsText, l, clientsText')
  BY <1>1, ClientsLineMore
<1>3. PICK a, h : a = clients[Len(clients)] /\ h = Current(clientsText)
  OBVIOUS
<1>4. /\ h \in 1..Len(clientsText) /\ ClientWritten(clientsText, h, a) /\ ClientTyped(a)
      /\ SeenExactly(clientsText, {h}, ClientKeys, section_seen)
      /\ Header(clientsText, Len(clientsText)) = h /\ DOMAIN a = ClientFields
  BY <1>1, <1>3, ClientOpen DEF Current, ClientTyped
<1>5. PICK e : e = [a EXCEPT ![l.key] = l.value]
  OBVIOUS
<1>6. clients' = Put(clients, Len(clients), e)
  BY <1>3, <1>5 DEF ClientKey, Put
<1>7. ClientWritten(clientsText', h, e)
  BY <1>1, <1>2, <1>4, <1>5, ClientKeyed
<1>8. ClientTyped(e)
  BY <1>1, <1>4, <1>5, ClientTypedKeyed
<1>9. SeenExactly(clientsText', {h}, ClientKeys, section_seen \cup {l.key})
  BY <1>1, <1>2, <1>4, SeenMore
<1> QED
  BY <1>1, <1>3, <1>6, <1>7, <1>8, <1>9, ClientChangedKeeps

LEMMA ClientPortsKeeps ==
  ASSUME ConfigInv, NEW l, ClientPorts(l)
  PROVE  ConfigInv'
<1>1. /\ ReadClientsLine(l) /\ phase = "clients" /\ l.kind = "key" /\ clients # <<>>
      /\ phase' = phase /\ l.key = "allow_remote_port" /\ parse_range(l.value)
      /\ section_seen' = section_seen
  BY DEF ClientPorts, ReadClientsLine
<1>2. OneMore(clientsText, l, clientsText')
  BY <1>1, ClientsLineMore
<1>3. PICK a, h : a = clients[Len(clients)] /\ h = Current(clientsText)
  OBVIOUS
<1>4. /\ h \in 1..Len(clientsText) /\ ClientWritten(clientsText, h, a) /\ ClientTyped(a)
      /\ SeenExactly(clientsText, {h}, ClientKeys, section_seen)
      /\ Header(clientsText, Len(clientsText)) = h /\ DOMAIN a = ClientFields
      /\ IsText(a.ports)
  BY <1>1, <1>3, ClientOpen DEF Current, ClientTyped
<1>5. PICK e : e = [a EXCEPT !.ports = Append(a.ports, l.value)]
  OBVIOUS
<1>6. clients' = Put(clients, Len(clients), e)
  BY <1>3, <1>5 DEF ClientPorts, Put
<1>7. ClientWritten(clientsText', h, e)
  BY <1>1, <1>2, <1>4, <1>5, ClientPorted
<1>8. ClientTyped(e)
  BY <1>4, <1>5, ClientTypedPorted
<1>9. SeenExactly(clientsText', {h}, ClientKeys, section_seen)
  <2>1. ASSUME NEW k \in DOMAIN ClientKeys
        PROVE  Under(clientsText', {h}, k) = Under(clientsText, {h}, k)
    <3>1. l.key # k
      BY <1>1, ClientNames
    <3> QED BY <1>1, <1>2, <3>1, ReadElsewhere
  <2> QED BY <1>4, <2>1, SeenKept
<1> QED
  BY <1>1, <1>3, <1>6, <1>7, <1>8, <1>9, ClientChangedKeeps

LEMMA ClientsLineRefusedKeeps ==
  ASSUME ConfigInv, NEW l, ClientsLineRefused(l)
  PROVE  ConfigInv'
<1>1. ReadClientsLine(l) /\ phase = "clients" /\ phase' = "refused" /\ clients' = clients
  BY DEF ClientsLineRefused, ReadClientsLine
<1>2. OneMore(clientsText, l, clientsText') /\ IsText(clientsText')
  BY <1>1, ClientsLineMore
<1>3. Texts'
  BY <1>1, <1>2 DEF ConfigInv, Texts, ReadClientsLine
<1> SUFFICES RefusedForCause'
  BY <1>1, <1>3 DEF ConfigInv, Stored, InConfig, InClients, Settled
<1>4. PICK n : n = Len(clientsText) + 1
  OBVIOUS
<1>5. /\ n \in DOMAIN clientsText' /\ clientsText'[n] = l
      /\ Header(clientsText', n) = IF l.kind = "section" THEN n ELSE Current(clientsText)
  BY <1>2, <1>4, LineRead
<1>6. WrongInClients(clientsText', n) => RefusedForCause'
  BY <1>5 DEF RefusedForCause
<1>7. /\ IsText(clientsText) /\ IsText(clients) /\ ClientsAre(clientsText, clients)
      /\ Len(clients) = Cardinality(Headers(clientsText))
      /\ AllPlaced(Headers(clientsText), clients)
  BY <1>1 DEF ConfigInv, Texts, Stored, ClientsAre
<1>8. MAX_CLIENTS \in Nat /\ MAX_PORT_RANGES \in Nat
  BY ConfigAssumption
<1>9. CASE l.kind = "bad"
  BY <1>5, <1>6, <1>9 DEF WrongInClients, Wrong
<1>10. CASE l.kind = "section" /\ l.name \notin Strings
  BY <1>5, <1>6, <1>10 DEF WrongInClients, Wrong
<1>11. CASE l.kind = "section" /\ Len(clients) = MAX_CLIENTS
  <2>1. Cardinality(Headers(clientsText')) > MAX_CLIENTS
    BY <1>2, <1>7, <1>8, <1>11, OneTooMany
  <2> QED BY <2>1 DEF RefusedForCause
<1>12. CASE l.kind = "section" /\ Duplicate(l.name)
  <2>1. PICK i \in DOMAIN clients : clients[i].id = l.name
    BY <1>12 DEF Duplicate
  <2>2. PICK p \in Headers(clientsText) : i = Rank(Headers(clientsText), p)
    BY <1>7 DEF AllPlaced
  <2>3. clientsText[p].name = l.name
    BY <1>7, <2>1, <2>2 DEF ClientsAre, ClientWritten
  <2>4. /\ p \in 1..Len(clientsText) /\ clientsText[p] = clientsText'[p]
        /\ p \in Headers(clientsText')
    BY <1>2, HeadersMore
  <2>5. p < n
    BY <1>4, <1>7, <2>4, TextShape
  <2> QED BY <1>5, <1>6, <1>12, <2>3, <2>4, <2>5 DEF WrongInClients
<1>13. CASE l.kind = "key" /\ clients = <<>>
  <2>1. Current(clientsText) \notin Headers(clientsText)
    BY <1>7, <1>13, LastClient
  <2>2. Header(clientsText', n) = 0
    BY <1>5, <1>7, <1>13, <2>1, CurrentOf
  <2> QED BY <1>5, <1>6, <1>13, <2>2 DEF WrongInClients, Wrong
<1>14. CASE /\ l.kind = "key" /\ clients # <<>> /\ l.key = "allow_remote_port"
            /\ Len(clients[Len(clients)].ports) = MAX_PORT_RANGES
  <2>1. PICK h : h = Current(clientsText)
    OBVIOUS
  <2>2. h \in Headers(clientsText) /\ ClientWritten(clientsText, h, clients[Len(clients)])
    BY <1>1, <1>14, <2>1, ClientOpen
  <2>3. Cardinality(Under(clientsText, {h}, l.key)) = MAX_PORT_RANGES
    BY <1>14, <2>2 DEF ClientWritten, PortsAre
  <2>4. Cardinality(Under(clientsText', {h}, l.key)) > MAX_PORT_RANGES
    BY <1>2, <1>8, <1>14, <2>1, <2>3, PortTooMany
  <2>5. h \in Headers(clientsText')
    BY <1>2, <2>2, HeadersMore
  <2> QED BY <1>14, <2>4, <2>5 DEF RefusedForCause
<1>15. CASE l.kind = "key" /\ l.key = "allow_remote_port" /\ ~parse_range(l.value)
  BY <1>5, <1>6, <1>15 DEF WrongInClients
<1>16. CASE /\ l.kind = "key" /\ clients # <<>> /\ l.key # "allow_remote_port"
            /\ \/ key_seen(section_seen, ClientSeen, l.key)
               \/ ~Takes(ClientKeys, l.key, l.value)
  <2>1. SeenExactly(clientsText, {Current(clientsText)}, ClientKeys, section_seen)
    BY <1>1, <1>16, ClientOpen
  <2>2. WrongInClients(clientsText', n)
    BY <1>2, <1>4, <1>16, <2>1, ClientKeyWrong
  <2> QED BY <1>6, <2>2
<1> QED
  BY <1>9, <1>10, <1>11, <1>12, <1>13, <1>14, <1>15, <1>16 DEF ClientsLineRefused

LEMMA ClientsEndKeeps ==
  ASSUME ConfigInv, ClientsEnd
  PROVE  ConfigInv'
<1>1. /\ phase = "clients" /\ phase' \in {"override", "invalid"}
      /\ UNCHANGED <<text, clientsText, input, common, services, clients>>
      /\ phase' = "override" => ct_config_validate_security_files(common, input, clients)
  BY DEF ClientsEnd
<1>2. Texts' /\ Stored'
  BY <1>1 DEF ConfigInv, Texts, Stored
<1>3. common.mode = "server"
  BY <1>1 DEF ConfigInv, InClients
<1>4. phase' = "override" => \A i \in DOMAIN clients : clients[i].public_key \in input.usable
  BY <1>1, <1>3 DEF ct_config_validate_security_files
<1>5. Settled'
  BY <1>1, <1>4 DEF ConfigInv, Settled
<1> QED
  BY <1>1, <1>2, <1>5 DEF ConfigInv, InConfig, InClients, RefusedForCause

LEMMA CommandLineKeeps ==
  ASSUME ConfigInv, CommandLine
  PROVE  ConfigInv'
<1>1. /\ phase = "override"
      /\ UNCHANGED <<text, clientsText, input, services, clients>>
  BY DEF CommandLine
<1>2. Texts'
  BY <1>1 DEF ConfigInv, Texts
<1>3. CASE ~(input.option_log \subseteq LogLevels)
  <2>1. phase' = "invalid"
    BY <1>3 DEF CommandLine
  <2> QED
    BY <1>2, <2>1 DEF ConfigInv, Stored, InConfig, InClients, Settled, RefusedForCause
<1>4. CASE input.option_log \subseteq LogLevels
  <2>1. PICK x : x = Override(common.log_level, input.option_log)
    OBVIOUS
  <2>2. phase' = "accepted" /\ common' = [common EXCEPT !.log_level = x]
    BY <1>4, <2>1 DEF CommandLine
  <2>3. /\ CommonTyped(common) /\ Validated(common, services)
        /\ CommonSettled(text, common, input, {})
        /\ common.mode # "server" => clients = <<>>
        /\ \A i \in DOMAIN clients : clients[i].public_key \in input.usable
    BY <1>1 DEF ConfigInv, Stored, Settled
  <2>4. DOMAIN common = DOMAIN defaults /\ "log_level" \in DOMAIN defaults
    BY <2>3, CommonNames DEF CommonTyped, Limits
  <2>5. /\ DOMAIN common' = DOMAIN defaults /\ common'.log_level = x
        /\ \A k \in DOMAIN defaults \ {"log_level"} : common'[k] = common[k]
    BY <2>2, <2>4
  <2>6. x \in LogLevels
    <3>1. CommonKeys.log_level = LogLevels
      BY DEF CommonKeys
    <3>2. common.log_level \in LogLevels
      BY <2>3, <3>1 DEF CommonTyped, Limits, Storable
    <3> QED BY <1>4, <2>1, <3>2, OverrideIn
  <2>7. CommonTyped(common')
    <3>1. CommonKeys.log_level = LogLevels
      BY DEF CommonKeys
    <3> QED BY <2>3, <2>5, <2>6, <3>1, CommonNames DEF CommonTyped, Storable
  <2>8. {"heartbeat_timeout", "heartbeat_interval", "log_file", "mode", "client_id",
         "pool_count"} \subseteq DOMAIN defaults \ {"log_level"}
    BY DEF defaults
  <2>9. Validated(common', services)
    BY <2>3, <2>5, <2>8 DEF Validated
  <2>10. CommonSettled(text, common', input, input.option_log)
    <3>1. \A y : Override(y, {}) = y
      BY DEF Override
    <3>2. common.log_level = Override(Read(text, CommonHeaders(text), "log_level",
                                           DEFAULT_LOG_LEVEL), Env(input.env_log))
      BY <2>3, <3>1 DEF CommonSettled
    <3>3. /\ \A k \in DOMAIN defaults \ {"log_level", "pool_count", "log_file"} :
               common'[k] = Read(text, CommonHeaders(text), k, defaults[k])
          /\ common'.pool_count =
               Override(Read(text, CommonHeaders(text), "pool_count", DEFAULT_POOL_COUNT),
                        Env(input.env_pool))
      BY <2>3, <2>5, <2>8 DEF CommonSettled
    <3> QED BY <2>1, <2>5, <3>2, <3>3 DEF CommonSettled
  <2>11. Stored'
    BY <1>1, <2>7 DEF ConfigInv, Stored
  <2>12. Settled'
    BY <1>1, <2>2, <2>3, <2>5, <2>8, <2>9, <2>10 DEF Settled
  <2> QED
    BY <1>2, <2>2, <2>11, <2>12 DEF ConfigInv, InConfig, InClients, RefusedForCause
<1> QED
  BY <1>3, <1>4

LEMMA UnreadableKeeps ==
  ASSUME ConfigInv, Unreadable
  PROVE  ConfigInv'
<1>1. /\ phase' = "refused" /\ input' = [input EXCEPT !.unreadable = TRUE]
      /\ UNCHANGED <<text, clientsText, services, clients>>
  BY DEF Unreadable
<1>2. "unreadable" \in DOMAIN input
  BY DEF ConfigInv, Texts
<1>3. "unreadable" \in DOMAIN input' /\ input'.unreadable
  BY <1>1, <1>2
<1>4. Texts' /\ RefusedForCause'
  BY <1>1, <1>3 DEF ConfigInv, Texts, RefusedForCause
<1> QED
  BY <1>1, <1>4 DEF ConfigInv, Stored, InConfig, InClients, Settled

-----------------------------------------------------------------------------
(***************************************************************************)
(* The theorems.                                                           *)
(***************************************************************************)
LEMMA ConfigNext == ConfigInv /\ [Next]_vars => ConfigInv'
<1> SUFFICES ASSUME ConfigInv, [Next]_vars PROVE ConfigInv'
  OBVIOUS
<1>1. ASSUME NEW l, ConfigLine(l) PROVE ConfigInv'
  BY <1>1, LineRefusedKeeps, CommonSectionKeeps, ServiceSectionKeeps, KeyRefusedKeeps,
     CommonKeyKeeps, ServiceKeyKeeps DEF ConfigLine
<1>2. ASSUME NEW in \in Inputs, ConfigEnd(in) PROVE ConfigInv'
  BY <1>2, ConfigEndKeeps
<1>3. ASSUME NEW l, ClientsLine(l) PROVE ConfigInv'
  BY <1>3, ClientsLineRefusedKeeps, ClientSectionKeeps, ClientKeyKeeps, ClientPortsKeeps
     DEF ClientsLine
<1>4. CASE ClientsEnd
  BY <1>4, ClientsEndKeeps
<1>5. CASE CommandLine
  BY <1>5, CommandLineKeeps
<1>6. CASE Unreadable
  BY <1>6, UnreadableKeeps
<1>7. CASE UNCHANGED vars
  BY <1>7 DEF vars, ConfigInv, Texts, Stored, InConfig, InClients, Settled, RefusedForCause
<1> QED
  BY <1>1, <1>2, <1>3, <1>4, <1>5, <1>6, <1>7 DEF Next

\* After every line of either file, what ct_config_load and ct_authorized_load
\* have stored is what the lines so far say - of the default encryption, those
\* above the section - and the tables of seen keys have
\* exactly the keys of [common] and of the section being read.
THEOREM ConfigInvariant == Spec => []ConfigInv
<1>1. Init => ConfigInv
  BY ConfigInit
<1>2. ConfigInv /\ [Next]_vars => ConfigInv'
  BY ConfigNext
<1> QED
  BY <1>1, <1>2, PTL DEF Spec

\* The configuration the program goes on with has what the other modules assume
\* of it, whatever the build, the files, the environment and the command
\* line: ct_applet_load_config returns no other.
THEOREM ConfigSound == Spec => []Sound
<1>1. ConfigInv => Sound
  <2> SUFFICES ASSUME ConfigInv, phase = "accepted" PROVE Sound
    BY DEF Sound
  <2>1. /\ CommonTyped(common) /\ Validated(common, services) /\ ServicesTyped(services)
        /\ ClientsTyped(clients) /\ IsText(services)
        /\ common.mode # "server" => clients = <<>>
        /\ \A i \in DOMAIN clients : clients[i].public_key \in input.usable
    BY DEF ConfigInv, Stored, Settled, Texts
  <2>2. /\ common.max_clients \in 1..MAX_CLIENTS
        /\ common.max_services_per_client \in 1..MAX_SERVICES
        /\ common.max_streams_per_client \in 1..MAX_STREAMS
        /\ common.max_pending_streams \in 1..MAX_PENDING_STREAMS
    <3>1. /\ CommonKeys.max_clients = integer(1, MAX_CLIENTS)
          /\ CommonKeys.max_services_per_client = integer(1, MAX_SERVICES)
          /\ CommonKeys.max_streams_per_client = integer(1, MAX_STREAMS)
          /\ CommonKeys.max_pending_streams = integer(1, MAX_PENDING_STREAMS)
      BY DEF CommonKeys
    <3>2. \A k \in Limits : common[k] \in Storable(k)
      BY <2>1 DEF CommonTyped
    <3> QED BY <3>1, <3>2 DEF Limits, Storable, integer
  <2>3. /\ common.pool_count \in CommonKeys.pool_count \cup {DEFAULT_POOL_COUNT}
        /\ common.log_level \in LogLevels
    <3>1. CommonKeys.log_level = LogLevels
      BY DEF CommonKeys
    <3> QED BY <2>1, <3>1 DEF CommonTyped, Limits, Storable
  <2>4. /\ common.heartbeat_timeout > common.heartbeat_interval /\ common.log_file # ""
        /\ common.mode = "server" => services = <<>>
        /\ common.mode = "client" => clients = <<>> /\ common.client_id # ""
    BY <2>1 DEF Validated
  <2>5. ASSUME NEW i \in DOMAIN services
        PROVE  /\ services[i].type \in {"tcp", "udp"}
               /\ {services[i].remote_port, services[i].local_port} \subseteq PortNumbers
    BY <2>1 DEF Validated, ServicesTyped
  <2>6. ASSUME NEW i \in DOMAIN services, NEW j \in DOMAIN services,
               services[i].id = services[j].id
        PROVE  i = j
    <3>1. i \in Nat /\ j \in Nat /\ i >= 1 /\ j >= 1
      BY <2>1, TextShape
    <3>2. ~(j \in 1..(i - 1)) /\ ~(i \in 1..(j - 1))
      BY <2>1, <2>6 DEF Validated
    <3> QED BY <3>1, <3>2
  <2>7. \A i \in DOMAIN clients : /\ clients[i].max_services \in 1..MAX_SERVICES
                                  /\ clients[i].max_streams \in 1..MAX_STREAMS
    BY <2>1 DEF ClientsTyped, ClientTyped
  <2> QED
    BY <2>1, <2>2, <2>3, <2>4, <2>5, <2>6, <2>7 DEF Sound
<1> QED
  BY <1>1, ConfigInvariant, PTL

\* What is accepted is what the file says, section by section, read without
\* the parser's state: for files of every length and with any mix of sections.
\* A service below which the default encryption is written is left out of this.
THEOREM ConfigAsWritten == Spec => []AsWritten
<1>1. ConfigInv => AsWritten
  <2> SUFFICES ASSUME ConfigInv, phase = "accepted" PROVE AsWritten
    BY DEF AsWritten
  <2>1. /\ CommonTyped(common) /\ CommonOnce(text) /\ ServicesAre(text, services)
        /\ CommonSettled(text, common, input, input.option_log)
        /\ IsText(text) /\ IsText(services) /\ ServicesTyped(services)
    BY DEF ConfigInv, Stored, Settled, Texts
  <2>2. \A k \in DOMAIN common \ {"log_level", "pool_count", "log_file"} :
          common[k] = Read(text, CommonHeaders(text), k, defaults[k])
    BY <2>1 DEF CommonTyped, CommonSettled
  <2>3. /\ common.pool_count =
             Override(Read(text, CommonHeaders(text), "pool_count", DEFAULT_POOL_COUNT),
                      Env(input.env_pool))
        /\ common.log_level =
             Override(Override(Read(text, CommonHeaders(text), "log_level",
                                    DEFAULT_LOG_LEVEL),
                               Env(input.env_log)), input.option_log)
    BY <2>1 DEF CommonSettled
  <2>4. \A k \in DOMAIN CommonKeys : Cardinality(Under(text, CommonHeaders(text), k)) <= 1
    BY <2>1 DEF CommonOnce
  <2>5. /\ Len(services) = Cardinality(OtherHeaders(text))
        /\ \A p \in OtherHeaders(text) :
             ServiceWritten(text, p, services[Rank(OtherHeaders(text), p)])
    <3>1. \A p \in OtherHeaders(text) : p \in 1..Len(text)
      BY <2>1, TextShape DEF OtherHeaders, Headers
    <3>2. \A p \in OtherHeaders(text) :
            DOMAIN services[Rank(OtherHeaders(text), p)] = ServiceFields
      <4>1. /\ Len(text) \in Nat /\ OtherHeaders(text) \in SUBSET (1..Len(text))
            /\ DOMAIN services = 1..Cardinality(OtherHeaders(text))
        BY <2>1, <3>1, TextShape DEF ServicesAre
      <4>2. \A p \in OtherHeaders(text) : Rank(OtherHeaders(text), p) \in DOMAIN services
        BY <4>1, RankBounds
      <4> QED BY <2>1, <4>2 DEF ServicesTyped
    <3> QED BY <2>1, <3>1, <3>2, StoredAsWritten DEF ServicesAre
  <2> QED
    BY <2>2, <2>3, <2>4, <2>5 DEF AsWritten
<1> QED
  BY <1>1, ConfigInvariant, PTL

\* A line is refused for what it says and where it stands, never for what the
\* tables of seen keys still hold or for want of room in them.
THEOREM ConfigRefusedForCause == Spec => []RefusedForCause
<1>1. ConfigInv => RefusedForCause
  BY DEF ConfigInv
<1> QED
  BY <1>1, ConfigInvariant, PTL

\* The client that ct_authorized_find returns for a listed name is the one of
\* the section of that name.
LEMMA FoundIs ==
  ASSUME NEW id, IsText(clientsText), IsText(clients), ClientsAre(clientsText, clients),
         NEW a \in ct_authorized_find(id)
  PROVE  \E h \in Headers(clientsText) : ClientWritten(clientsText, h, a) /\ a.id = id
<1>1. PICK found : found = {i \in DOMAIN clients : clients[i].id = id}
  OBVIOUS
<1>2. found # {} /\ a = clients[Min(found)]
  BY <1>1 DEF ct_authorized_find
<1>3. found \in SUBSET Nat
  BY <1>1, TextShape
<1>4. Min(found) \in found
  <2>1. \E x \in found : \A y \in found : x <= y
    BY <1>2, <1>3, Least
  <2> QED BY <2>1 DEF Min
<1>5. Min(found) \in DOMAIN clients /\ a.id = id
  BY <1>1, <1>2, <1>4
<1>6. PICK h \in Headers(clientsText) : Min(found) = Rank(Headers(clientsText), h)
  BY <1>5 DEF ClientsAre, AllPlaced
<1> QED
  BY <1>2, <1>5, <1>6 DEF ClientsAre

LEMMA FoundSome ==
  ASSUME NEW id, IsText(clientsText), IsText(clients), ClientsAre(clientsText, clients),
         NEW h \in Headers(clientsText), clientsText[h].name = id
  PROVE  \E a \in ct_authorized_find(id) : ClientWritten(clientsText, h, a)
<1>1. PICK S : S = Headers(clientsText)
  OBVIOUS
<1>2. S \in SUBSET (1..Len(clientsText)) /\ Len(clientsText) \in Nat /\ h \in S
  BY <1>1, HeadersIn
<1>3. Rank(S, h) \in 1..Cardinality(S)
  BY <1>2, RankBounds
<1>4. Rank(S, h) \in DOMAIN clients /\ clients[Rank(S, h)].id = id
  BY <1>1, <1>3, TextShape DEF ClientsAre, ClientWritten
<1>5. PICK a : a \in ct_authorized_find(id)
  BY <1>4 DEF ct_authorized_find
<1>6. PICK g \in Headers(clientsText) : ClientWritten(clientsText, g, a) /\ a.id = id
  BY <1>5, FoundIs
<1>7. g = h
  BY <1>6 DEF ClientsAre, ClientWritten
<1> QED
  BY <1>5, <1>6, <1>7

LEMMA RangeNumbers ==
  ASSUME NEW r, parse_range(r)
  PROVE  r[1] \in Int /\ r[2] \in Int
<1>1. PortNumbers \subseteq Int
  BY DEF PortNumbers, integer
<1>2. r \in PortNumbers \X PortNumbers
  BY DEF parse_range
<1>3. r[1] \in PortNumbers /\ r[2] \in PortNumbers
  BY <1>2
<1> QED
  BY <1>1, <1>3

LEMMA RangeOf ==
  ASSUME NEW p, NEW a, ClientWritten(clientsText, p, a), NEW x \in Int
  PROVE  (\E i \in DOMAIN a.ports : x >= a.ports[i][1] /\ x <= a.ports[i][2])
           <=> \E r \in Ranges(clientsText, p) : x \in r[1]..r[2]
<1>1. PICK ports : ports = a.ports
  OBVIOUS
<1>2. /\ Ranges(clientsText, p) = {ports[i] : i \in DOMAIN ports}
      /\ \A i \in DOMAIN ports : parse_range(ports[i])
  BY <1>1 DEF ClientWritten, PortsAre
<1>3. \A i \in DOMAIN ports : ports[i][1] \in Int /\ ports[i][2] \in Int
  BY <1>2, RangeNumbers
<1>4. \A i \in DOMAIN ports :
        x >= ports[i][1] /\ x <= ports[i][2] <=> x \in ports[i][1]..ports[i][2]
  BY <1>3
<1> QED
  BY <1>1, <1>2, <1>4

LEMMA AuthorizedAnywhere == ConfigInv => AuthorizedOn(Int)
<1> SUFFICES ASSUME ConfigInv, phase = "accepted",
                    NEW id \in Strings, NEW addr \in Strings, NEW x \in Int
             PROVE  (\E a \in ct_authorized_find(id) : ct_authorized_port(a, addr, x))
                      <=> \E h \in Headers(clientsText) :
                            /\ clientsText[h].name = id
                            /\ Read(clientsText, {h}, "allow_bind_addr", Wildcard)
                                 \in {"*", addr}
                            /\ \E r \in Ranges(clientsText, h) : x \in r[1]..r[2]
  BY DEF AuthorizedOn
<1>1. IsText(clientsText) /\ IsText(clients) /\ ClientsAre(clientsText, clients)
  BY DEF ConfigInv, Texts, Stored
<1>2. ASSUME NEW h, NEW a, ClientWritten(clientsText, h, a)
      PROVE  /\ a.id = clientsText[h].name
             /\ ct_authorized_port(a, addr, x) <=>
                  /\ Read(clientsText, {h}, "allow_bind_addr", Wildcard) \in {"*", addr}
                  /\ \E r \in Ranges(clientsText, h) : x \in r[1]..r[2]
  <2>1. /\ a.id = clientsText[h].name
        /\ a.allow_bind_addr = Read(clientsText, {h}, "allow_bind_addr", Wildcard)
    BY <1>2 DEF ClientWritten
  <2>2. (\E i \in DOMAIN a.ports : x >= a.ports[i][1] /\ x <= a.ports[i][2])
          <=> \E r \in Ranges(clientsText, h) : x \in r[1]..r[2]
    BY <1>2, RangeOf
  <2> QED BY <2>1, <2>2 DEF ct_authorized_port
<1>3. ASSUME NEW a \in ct_authorized_find(id), ct_authorized_port(a, addr, x)
      PROVE  \E h \in Headers(clientsText) :
               /\ clientsText[h].name = id
               /\ Read(clientsText, {h}, "allow_bind_addr", Wildcard) \in {"*", addr}
               /\ \E r \in Ranges(clientsText, h) : x \in r[1]..r[2]
  <2>1. PICK h \in Headers(clientsText) : ClientWritten(clientsText, h, a) /\ a.id = id
    BY <1>1, FoundIs
  <2> QED BY <1>2, <1>3, <2>1
<1>4. ASSUME NEW h \in Headers(clientsText), clientsText[h].name = id,
             Read(clientsText, {h}, "allow_bind_addr", Wildcard) \in {"*", addr},
             \E r \in Ranges(clientsText, h) : x \in r[1]..r[2]
      PROVE  \E a \in ct_authorized_find(id) : ct_authorized_port(a, addr, x)
  <2>1. PICK a \in ct_authorized_find(id) : ClientWritten(clientsText, h, a)
    BY <1>1, <1>4, FoundSome
  <2> QED BY <1>2, <1>4, <2>1
<1> QED
  BY <1>3, <1>4

\* Authorization is exactly what the administrator listed, on every port and
\* not only at the edges of the ranges.
THEOREM ConfigAuthorizedOnEveryPort == Spec => []AuthorizedOn(PortNumbers)
<1>1. PortNumbers \subseteq Int
  BY DEF PortNumbers, integer
<1>2. ConfigInv => AuthorizedOn(PortNumbers)
  BY <1>1, AuthorizedAnywhere DEF AuthorizedOn
<1> QED
  BY <1>2, ConfigInvariant, PTL

\* The same at the edges of the ranges, one port outside of them included, as
\* the run of TLC asks it.
THEOREM ConfigAuthorized == Spec => []AuthorizedAsListed
<1>1. ConfigInv => AuthorizedAsListed
  <2> SUFFICES ASSUME ConfigInv, phase = "accepted" PROVE AuthorizedAsListed
    BY DEF AuthorizedAsListed, AuthorizedOn
  <2>1. PICK Edges : Edges = UNION {{r[1] - 1, r[1], r[2], r[2] + 1} :
                                      r \in UNION {Ranges(clientsText, h) :
                                                     h \in Headers(clientsText)}}
    OBVIOUS
  <2>2. ASSUME NEW h \in Headers(clientsText), NEW r \in Ranges(clientsText, h)
        PROVE  r[1] \in Int /\ r[2] \in Int
    <3>1. PICK a : ClientWritten(clientsText, h, a)
      BY DEF ConfigInv, Stored, ClientsAre
    <3>2. parse_range(r)
      BY <3>1 DEF ClientWritten, PortsAre
    <3> QED BY <3>2, RangeNumbers
  <2>3. ASSUME NEW x \in Edges PROVE x \in Int
    <3>1. PICK h \in Headers(clientsText) : \E r \in Ranges(clientsText, h) :
            x \in {r[1] - 1, r[1], r[2], r[2] + 1}
      BY <2>1
    <3> QED BY <2>2, <3>1
  <2>4. AuthorizedOn(Edges)
    BY <2>3, AuthorizedAnywhere DEF AuthorizedOn
  <2> QED BY <2>1, <2>4 DEF AuthorizedAsListed
<1> QED
  BY <1>1, ConfigInvariant, PTL
==============================================================================
