------------------------- MODULE ConversationProofs -------------------------
(***************************************************************************)
(* Proofs about Conversation: what one request and its reply carry. The    *)
(* client's demands, the provider's usage, calls and end, and the statuses *)
(* survive two translations (Carried, Telling); every adapter shows its    *)
(* provider what the IR request says (Shows), and the gateways of Chat,    *)
(* Responses and Anthropic say in it what the history says (Faithful).     *)
(***************************************************************************)
EXTENDS Conversation, TLAPS, FiniteSetTheorems

-----------------------------------------------------------------------------
(***************************************************************************)
(* Flattened sequences. Induction is over sets of numbers, since the       *)
(* provers cannot instantiate an induction rule that has an operator as    *)
(* its parameter.                                                          *)
(***************************************************************************)
\* Well-foundedness of the order on the numbers, from which induction follows.
W == INSTANCE WellFoundedInduction

\* A set of numbers has a least one.
LEMMA LeastNumber ==
    ASSUME NEW T, T \subseteq Nat, T # {}
    PROVE  \E n \in T : \A m \in T : n <= m
<1> DEFINE R == W!OpToRel(<, Nat)
<1>1. W!IsWellFoundedOn(R, Nat)
  BY W!NatLessThanWellFounded, Zenon
<1>2. \A m, n \in Nat : m < n => <<m, n>> \in R
  BY DEF W!OpToRel
<1> HIDE DEF R
<1>3. PICK x \in T : \A y \in T : ~ (<<y, x>> \in R)
  BY <1>1, W!WFMin, Zenon
<1>4. \A y \in T : ~ (y < x)
  BY <1>2, <1>3, Zenon
<1> QED
  BY <1>4

\* Induction over the numbers, for a set of them.
LEMMA SetInduction ==
    ASSUME NEW P, 0 \in P, \A n \in Nat : n \in P => n + 1 \in P
    PROVE  Nat \subseteq P
<1> SUFFICES ASSUME Nat \ P # {} PROVE FALSE
  OBVIOUS
<1>1. PICK n \in Nat \ P : \A m \in Nat \ P : n <= m
  BY LeastNumber, Zenon
<1>2. n # 0 /\ n - 1 \in Nat
  BY <1>1
<1>3. n - 1 \in P
  BY <1>1, <1>2
<1> QED
  BY <1>1, <1>2, <1>3

\* The partial results of FlattenSeq.
Flattens(f, ss, n) ==
    f = [i \in 1..n |-> IF i = 1 THEN ss[i] ELSE f[i - 1] \o ss[i]]

\* FlattenSeq recurses along a function of the positions, and there is one.
LEMMA FlattensExists ==
    ASSUME NEW ss, NEW n \in Nat
    PROVE  \E f : Flattens(f, ss, n)
<1> DEFINE P == {m \in Nat : \E f : Flattens(f, ss, m)}
<1>1. 0 \in P
  <2> DEFINE f == [i \in 1..0 |-> ss]
  <2>1. f = [i \in 1..0 |-> IF i = 1 THEN ss[i] ELSE f[i - 1] \o ss[i]]
    OBVIOUS
  <2> QED
    BY <2>1, Zenon DEF Flattens
<1>2. ASSUME NEW m \in Nat, m \in P PROVE m + 1 \in P
  <2>1. PICK f : Flattens(f, ss, m)
    BY <1>2
  <2> DEFINE last == IF m + 1 = 1 THEN ss[m + 1] ELSE f[m] \o ss[m + 1]
             g == [i \in 1..(m + 1) |-> IF i = m + 1 THEN last ELSE f[i]]
  <2>2. \A i \in 1..m : f[i] = IF i = 1 THEN ss[i] ELSE f[i - 1] \o ss[i]
    BY <2>1, Zenon DEF Flattens
  <2> HIDE DEF last
  <2>3. \A i \in 1..m : g[i] = f[i]
    OBVIOUS
  <2>4. g[m + 1] = last
    OBVIOUS
  <2>5. g = [i \in 1..(m + 1) |-> g[i]]
    OBVIOUS
  <2> HIDE DEF g
  <2>6. g[m + 1] = IF m + 1 = 1 THEN ss[m + 1] ELSE g[m] \o ss[m + 1]
    BY <2>3, <2>4 DEF last
  <2>7. \A i \in 1..m : g[i] = IF i = 1 THEN ss[i] ELSE g[i - 1] \o ss[i]
    BY <2>2, <2>3
  <2>8. ASSUME NEW i \in 1..(m + 1)
        PROVE  g[i] = IF i = 1 THEN ss[i] ELSE g[i - 1] \o ss[i]
    <3>1. CASE i \in 1..m
      BY <2>7, <3>1
    <3>2. CASE i = m + 1
      BY <2>6, <3>2
    <3> QED
      BY <3>1, <3>2
  <2>9. g = [i \in 1..(m + 1) |-> IF i = 1 THEN ss[i] ELSE g[i - 1] \o ss[i]]
    BY <2>5, <2>8, Zenon
  <2>10. Flattens(g, ss, m + 1)
    BY <2>9, Zenon DEF Flattens
  <2> QED
    BY <2>10
<1> HIDE DEF P
<1>3. Nat \subseteq P
  BY <1>1, <1>2, SetInduction
<1> QED
  BY <1>3 DEF P

\* What that function has at a position.
LEMMA FlattensAt ==
    ASSUME NEW ss, NEW n \in Nat, NEW f, Flattens(f, ss, n), NEW i \in 1..n
    PROVE  f[i] = IF i = 1 THEN ss[i] ELSE f[i - 1] \o ss[i]
<1>1. f[i] = [j \in 1..n |-> IF j = 1 THEN ss[j] ELSE f[j - 1] \o ss[j]][i]
  BY Zenon DEF Flattens
<1> QED
  BY <1>1

\* Functions that are the same on the first n positions.
Agree(f, g, n) == \A i \in 1..n : f[i] = g[i]

\* The first rows decide what is flattened of them.
LEMMA FlattensUnique ==
    ASSUME NEW ss, NEW tt, NEW n \in Nat, NEW m \in Nat, n <= m,
           Agree(ss, tt, n),
           NEW f, NEW g, Flattens(f, ss, n), Flattens(g, tt, m)
    PROVE  Agree(f, g, n)
<1> DEFINE P == {k \in Nat : k \in 1..n => f[k] = g[k]}
<1>1. /\ \A i \in 1..n : f[i] = IF i = 1 THEN ss[i] ELSE f[i - 1] \o ss[i]
      /\ \A i \in 1..n : g[i] = IF i = 1 THEN tt[i] ELSE g[i - 1] \o tt[i]
  BY FlattensAt
<1>2. 0 \in P
  OBVIOUS
<1>3. ASSUME NEW k \in Nat, k \in P PROVE k + 1 \in P
  <2> SUFFICES ASSUME k + 1 \in 1..n PROVE f[k + 1] = g[k + 1]
    OBVIOUS
  <2>1. CASE k = 0
    <3>1. f[1] = ss[1] /\ g[1] = tt[1] /\ ss[1] = tt[1]
      BY <1>1, <2>1 DEF Agree
    <3> QED
      BY <2>1, <3>1
  <2>2. CASE k # 0
    <3>1. k \in 1..n /\ f[k] = g[k] /\ k + 1 # 1 /\ (k + 1) - 1 = k
      BY <1>3, <2>2
    <3>2. f[k + 1] = f[k] \o ss[k + 1] /\ g[k + 1] = g[k] \o tt[k + 1]
      BY <1>1, <3>1, Zenon
    <3> QED
      BY <3>1, <3>2, Zenon DEF Agree
  <2> QED
    BY <2>1, <2>2
<1> HIDE DEF P
<1>4. Nat \subseteq P
  BY <1>2, <1>3, SetInduction
<1> QED
  BY <1>4 DEF P, Agree

\* FlattenSeq is the last value of such a function.
LEMMA FlattenIs ==
    ASSUME NEW ss, Len(ss) \in Nat, Len(ss) # 0
    PROVE  \E f : Flattens(f, ss, Len(ss)) /\ FlattenSeq(ss) = f[Len(ss)]
<1> DEFINE f == CHOOSE g : Flattens(g, ss, Len(ss))
<1>1. Flattens(f, ss, Len(ss))
  BY FlattensExists, Zenon
<1>2. FlattenSeq(ss) = f[Len(ss)]
  BY DEF FlattenSeq, Flattens
<1> QED
  BY <1>1, <1>2, Zenon

\* Induction over sequences, for a set of them.
LEMMA SequenceInduction ==
    ASSUME NEW S, NEW P, << >> \in P,
           \A s \in Seq(S), x \in S : s \in P => Append(s, x) \in P
    PROVE  Seq(S) \subseteq P
<1> DEFINE L == {n \in Nat : \A s \in Seq(S) : Len(s) = n => s \in P}
<1>1. 0 \in L
  BY \A s \in Seq(S) : Len(s) = 0 => s = << >>
<1>2. ASSUME NEW n \in Nat, n \in L PROVE n + 1 \in L
  <2> SUFFICES ASSUME NEW s \in Seq(S), Len(s) = n + 1 PROVE s \in P
    OBVIOUS
  <2> DEFINE t == [i \in 1..n |-> s[i]]
  <2>1. s[n + 1] \in S /\ \A i \in 1..n : s[i] \in S
    OBVIOUS
  <2>2. t \in Seq(S) /\ Len(t) = n
    BY <2>1
  <2>3. Append(t, s[n + 1]) = s
    BY <2>1, <2>2
  <2>4. t \in P
    BY <1>2, <2>2
  <2> HIDE DEF t
  <2> QED
    BY <2>1, <2>2, <2>3, <2>4, Zenon
<1> HIDE DEF L
<1>3. Nat \subseteq L
  BY <1>1, <1>2, SetInduction
<1> QED
  BY <1>3 DEF L

\* No rows are flattened to nothing.
LEMMA FlattenEmpty == FlattenSeq(<< >>) = << >>
BY DEF FlattenSeq

\* A row more is flattened behind the others.
LEMMA FlattenAppend ==
    ASSUME NEW S, NEW ss \in Seq(Seq(S)), NEW s \in Seq(S)
    PROVE  FlattenSeq(Append(ss, s)) = FlattenSeq(ss) \o s
<1>1. PICK n \in Nat, m \in Nat : n = Len(ss) /\ m = n + 1
  OBVIOUS
<1>2. PICK tt : tt = Append(ss, s)
  BY Zenon
<1>3. Len(tt) = m /\ tt[m] = s /\ \A i \in 1..n : ss[i] = tt[i]
  BY <1>1, <1>2
<1>4. m # 0 /\ Len(tt) \in Nat /\ Len(tt) # 0
  BY <1>1, <1>3
<1>5. PICK g : Flattens(g, tt, m) /\ FlattenSeq(tt) = g[m]
  BY <1>3, <1>4, FlattenIs
<1>6. \A i \in 1..m : g[i] = IF i = 1 THEN tt[i] ELSE g[i - 1] \o tt[i]
  BY <1>5, FlattensAt
<1>7. CASE n = 0
  <2>1. ss = << >>
    <3>1. Len(ss) = 0
      BY <1>1, <1>7
    <3>2. PICK T : T = Seq(S)
      OBVIOUS
    <3>3. ss \in Seq(T)
      BY <3>2
    <3> QED
      BY <3>1, <3>3
  <2>2. FlattenSeq(ss) = << >>
    BY <2>1, FlattenEmpty
  <2>3. m = 1
    BY <1>1, <1>7
  <2>4. g[1] = tt[1] /\ tt[1] = s
    BY <1>3, <1>6, <2>3
  <2> QED
    BY <1>2, <1>5, <2>2, <2>3, <2>4
<1>8. CASE n # 0
  <2>1. PICK f : Flattens(f, ss, n) /\ FlattenSeq(ss) = f[n]
    <3>1. Len(ss) \in Nat /\ Len(ss) # 0
      BY <1>1, <1>8
    <3>2. \E f : Flattens(f, ss, Len(ss)) /\ FlattenSeq(ss) = f[Len(ss)]
      BY <3>1, FlattenIs
    <3> QED
      BY <1>1, <3>2
  <2>2. n <= m /\ Agree(ss, tt, n)
    BY <1>1, <1>3 DEF Agree
  <2>3. Agree(f, g, n)
    BY <1>5, <2>1, <2>2, FlattensUnique
  <2>4. f[n] = g[n]
    BY <1>8, <2>3 DEF Agree
  <2>5. m \in 1..m /\ m # 1 /\ m - 1 = n
    BY <1>1, <1>8
  <2>6. g[m] = g[m - 1] \o tt[m]
    BY <1>6, <2>5, Zenon
  <2>7. g[m] = g[n] \o tt[m]
    BY <2>5, <2>6, Zenon
  <2> QED
    BY <1>2, <1>3, <1>5, <2>1, <2>4, <2>7
<1> QED
  BY <1>7, <1>8

-----------------------------------------------------------------------------
(***************************************************************************)
(* What becomes of a sequence when every element becomes a sequence.       *)
(***************************************************************************)
FlatMap(f, s) == FlattenSeq([i \in DOMAIN s |-> f[s[i]]])

\* f makes a sequence over T of every element of S.
Maps(f, S, T) == f \in [S -> Seq(T)]

\* Nothing becomes nothing.
LEMMA FlatMapEmpty == ASSUME NEW f PROVE FlatMap(f, << >>) = << >>
<1>1. [i \in DOMAIN << >> |-> f[<< >>[i]]] = << >>
  OBVIOUS
<1> QED
  BY <1>1, FlattenEmpty DEF FlatMap

\* What f makes of an element.
LEMMA MapsAt ==
    ASSUME NEW S, NEW T, NEW f, Maps(f, S, T), NEW x \in S
    PROVE  f[x] \in Seq(T)
BY DEF Maps

\* An element more is mapped behind the others.
LEMMA FlatMapAppend ==
    ASSUME NEW S, NEW T, NEW f, Maps(f, S, T), NEW s \in Seq(S), NEW x \in S
    PROVE  FlatMap(f, Append(s, x)) = FlatMap(f, s) \o f[x]
<1> DEFINE ss == [i \in DOMAIN s |-> f[s[i]]]
           tt == [i \in DOMAIN Append(s, x) |-> f[Append(s, x)[i]]]
<1>1. ss \in Seq(Seq(T)) /\ f[x] \in Seq(T)
  BY DEF Maps
<1>2. tt = Append(ss, f[x])
  OBVIOUS
<1> HIDE DEF ss
<1> QED
  BY <1>1, <1>2, FlattenAppend, Zenon DEF FlatMap, ss

\* The elements of what is made.
LEMMA FlatMapType ==
    ASSUME NEW S, NEW T, NEW f, Maps(f, S, T), NEW s \in Seq(S)
    PROVE  FlatMap(f, s) \in Seq(T)
<1> DEFINE P == {t \in Seq(S) : FlatMap(f, t) \in Seq(T)}
<1>1. << >> \in P
  <2>1. << >> \in Seq(S) /\ << >> \in Seq(T)
    OBVIOUS
  <2> QED
    BY <2>1, FlatMapEmpty, Zenon
<1>2. ASSUME NEW t \in Seq(S), NEW x \in S, t \in P PROVE Append(t, x) \in P
  <2>1. FlatMap(f, Append(t, x)) = FlatMap(f, t) \o f[x]
    BY FlatMapAppend
  <2>2. FlatMap(f, t) \in Seq(T) /\ f[x] \in Seq(T)
    BY <1>2, MapsAt
  <2>3. FlatMap(f, t) \o f[x] \in Seq(T)
    BY <2>2
  <2>4. Append(t, x) \in Seq(S)
    OBVIOUS
  <2> QED
    BY <2>1, <2>3, <2>4, Zenon
<1> HIDE DEF P
<1>3. Seq(S) \subseteq P
  BY <1>1, <1>2, SequenceInduction
<1> QED
  BY <1>3 DEF P

\* What comes first is mapped first.
LEMMA FlatMapConcat ==
    ASSUME NEW S, NEW T, NEW f, Maps(f, S, T), NEW s \in Seq(S), NEW t \in Seq(S)
    PROVE  FlatMap(f, s \o t) = FlatMap(f, s) \o FlatMap(f, t)
<1> DEFINE P == {u \in Seq(S) : FlatMap(f, s \o u) = FlatMap(f, s) \o FlatMap(f, u)}
<1>1. << >> \in P
  <2>1. FlatMap(f, s) \in Seq(T)
    BY FlatMapType
  <2>2. FlatMap(f, s) \o << >> = FlatMap(f, s) /\ s \o << >> = s /\ << >> \in Seq(S)
    BY <2>1
  <2> QED
    BY <2>2, FlatMapEmpty, Zenon
<1>2. ASSUME NEW u \in Seq(S), NEW x \in S, u \in P PROVE Append(u, x) \in P
  <2>1. s \o Append(u, x) = Append(s \o u, x) /\ s \o u \in Seq(S)
    OBVIOUS
  <2>2. FlatMap(f, s \o Append(u, x)) = FlatMap(f, s \o u) \o f[x]
    <3>1. PICK v \in Seq(S) : v = s \o u
      BY <2>1, Zenon
    <3>2. FlatMap(f, Append(v, x)) = FlatMap(f, v) \o f[x]
      BY FlatMapAppend
    <3> QED
      BY <2>1, <3>1, <3>2, Zenon
  <2>3. FlatMap(f, Append(u, x)) = FlatMap(f, u) \o f[x]
    BY FlatMapAppend
  <2>4. /\ FlatMap(f, s) \in Seq(T) /\ FlatMap(f, u) \in Seq(T) /\ f[x] \in Seq(T)
        /\ FlatMap(f, s \o u) = FlatMap(f, s) \o FlatMap(f, u)
    BY <1>2, FlatMapType, MapsAt
  <2>5. (FlatMap(f, s) \o FlatMap(f, u)) \o f[x] = FlatMap(f, s) \o (FlatMap(f, u) \o f[x])
    <3>1. PICK a \in Seq(T), b \in Seq(T), c \in Seq(T) :
              a = FlatMap(f, s) /\ b = FlatMap(f, u) /\ c = f[x]
      BY <2>4
    <3>2. (a \o b) \o c = a \o (b \o c)
      OBVIOUS
    <3> QED
      BY <3>1, <3>2, Zenon
  <2>6. Append(u, x) \in Seq(S)
    OBVIOUS
  <2>7. FlatMap(f, s \o Append(u, x)) = FlatMap(f, s) \o FlatMap(f, Append(u, x))
    BY <2>2, <2>3, <2>4, <2>5, Zenon
  <2> QED
    BY <2>6, <2>7
<1> HIDE DEF P
<1>3. Seq(S) \subseteq P
  BY <1>1, <1>2, SequenceInduction
<1> QED
  BY <1>3 DEF P

\* Two maps, one after the other, are one map.
LEMMA FlatMapTwice ==
    ASSUME NEW S, NEW T, NEW U, NEW f, Maps(f, S, T), NEW g, Maps(g, T, U),
           NEW s \in Seq(S)
    PROVE  FlatMap(g, FlatMap(f, s)) = FlatMap([x \in S |-> FlatMap(g, f[x])], s)
<1> DEFINE h == [x \in S |-> FlatMap(g, f[x])]
           P == {t \in Seq(S) : FlatMap(g, FlatMap(f, t)) = FlatMap(h, t)}
<1>1. Maps(h, S, U) /\ \A x \in S : h[x] = FlatMap(g, f[x])
  <2>1. ASSUME NEW x \in S PROVE FlatMap(g, f[x]) \in Seq(U)
    <3>1. f[x] \in Seq(T)
      BY MapsAt
    <3> QED
      BY <3>1, FlatMapType
  <2> QED
    BY <2>1 DEF Maps
<1> HIDE DEF h
<1>2. << >> \in P
  <2>1. << >> \in Seq(S)
    OBVIOUS
  <2> QED
    BY <2>1, FlatMapEmpty
<1>3. ASSUME NEW t \in Seq(S), NEW x \in S, t \in P PROVE Append(t, x) \in P
  <2>1. FlatMap(f, t) \in Seq(T) /\ f[x] \in Seq(T)
    BY FlatMapType, MapsAt
  <2>2. FlatMap(f, Append(t, x)) = FlatMap(f, t) \o f[x]
    BY FlatMapAppend
  <2>3. FlatMap(g, FlatMap(f, t) \o f[x]) = FlatMap(g, FlatMap(f, t)) \o FlatMap(g, f[x])
    <3> DEFINE u == FlatMap(f, t)
               v == f[x]
    <3>1. u \in Seq(T) /\ v \in Seq(T)
      BY <2>1
    <3> HIDE DEF u, v
    <3>2. FlatMap(g, u \o v) = FlatMap(g, u) \o FlatMap(g, v)
      BY <3>1, FlatMapConcat
    <3> QED
      BY <3>2 DEF u, v
  <2>4. FlatMap(h, Append(t, x)) = FlatMap(h, t) \o h[x]
    <3>1. Maps(h, S, U)
      BY <1>1
    <3> QED
      BY <3>1, FlatMapAppend
  <2>5. FlatMap(g, FlatMap(f, t)) = FlatMap(h, t)
    BY <1>3
  <2>6. Append(t, x) \in Seq(S)
    OBVIOUS
  <2>7. FlatMap(g, FlatMap(f, Append(t, x))) = FlatMap(h, Append(t, x))
    BY <1>1, <2>2, <2>3, <2>4, <2>5, Zenon
  <2> QED
    BY <2>6, <2>7
<1> HIDE DEF P
<1>4. Seq(S) \subseteq P
  BY <1>2, <1>3, SequenceInduction
<1> QED
  BY <1>4 DEF P, h

\* Only what f makes of the elements of s counts.
LEMMA FlatMapSame ==
    ASSUME NEW s, NEW f, NEW g, \A i \in DOMAIN s : f[s[i]] = g[s[i]]
    PROVE  FlatMap(f, s) = FlatMap(g, s)
<1>1. [i \in DOMAIN s |-> f[s[i]]] = [i \in DOMAIN s |-> g[s[i]]]
  OBVIOUS
<1> QED
  BY <1>1 DEF FlatMap

\* One for each.
Singly(f, g, S, T) == g \in [S -> T] /\ \A x \in S : f[x] = <<g[x]>>

\* A map that makes one element of each keeps the positions.
LEMMA FlatMapEach ==
    ASSUME NEW S, NEW T, NEW g, NEW f, Singly(f, g, S, T), NEW s \in Seq(S)
    PROVE  FlatMap(f, s) = [i \in DOMAIN s |-> g[s[i]]]
<1> DEFINE e == [x \in S |-> <<g[x]>>]
           G(t) == [i \in DOMAIN t |-> g[t[i]]]
           P == {t \in Seq(S) : FlatMap(e, t) = G(t)}
<1>1. Maps(e, S, T)
  BY DEF Maps, Singly
<1>2. \A x \in S : e[x] = <<g[x]>>
  OBVIOUS
<1> HIDE DEF e
<1>3. << >> \in P
  <2>1. G(<< >>) = << >>
    OBVIOUS
  <2>2. << >> \in Seq(S)
    OBVIOUS
  <2>3. FlatMap(e, << >>) = G(<< >>)
    BY <2>1, FlatMapEmpty, Zenon
  <2> QED
    BY <2>2, <2>3, Zenon
<1>4. ASSUME NEW t \in Seq(S), NEW x \in S, t \in P PROVE Append(t, x) \in P
  <2>1. FlatMap(e, Append(t, x)) = FlatMap(e, t) \o e[x]
    BY <1>1, FlatMapAppend
  <2>2. G(t) \o <<g[x]>> = G(Append(t, x))
    <3>1. g \in [S -> T]
      BY DEF Singly
    <3> QED
      BY <3>1
  <2>3. FlatMap(e, t) = G(t)
    BY <1>4
  <2> HIDE DEF G
  <2>4. FlatMap(e, Append(t, x)) = G(Append(t, x))
    BY <1>2, <2>1, <2>2, <2>3, Zenon
  <2>5. Append(t, x) \in Seq(S)
    OBVIOUS
  <2> QED
    BY <2>4, <2>5
<1> HIDE DEF P, G
<1>5. Seq(S) \subseteq P
  BY <1>3, <1>4, SequenceInduction
<1>6. FlatMap(f, s) = FlatMap(e, s)
  <2>1. \A i \in DOMAIN s : s[i] \in S
    OBVIOUS
  <2>2. \A i \in DOMAIN s : f[s[i]] = e[s[i]]
    BY <1>2, <2>1 DEF Singly
  <2> QED
    BY <2>2, FlatMapSame
<1> QED
  BY <1>5, <1>6 DEF P, G

\* A map that makes nothing of every element makes nothing.
LEMMA FlatMapNone ==
    ASSUME NEW S, NEW f, \A x \in S : f[x] = << >>, NEW s \in Seq(S)
    PROVE  FlatMap(f, s) = << >>
<1> DEFINE e == [x \in S |-> << >>]
           P == {t \in Seq(S) : FlatMap(e, t) = << >>}
<1>1. Maps(e, S, {})
  <2>1. << >> \in Seq({})
    OBVIOUS
  <2> QED
    BY <2>1 DEF Maps
<1>2. \A x \in S : e[x] = << >>
  OBVIOUS
<1> HIDE DEF e
<1>3. << >> \in P
  BY FlatMapEmpty
<1>4. ASSUME NEW t \in Seq(S), NEW x \in S, t \in P PROVE Append(t, x) \in P
  <2>1. FlatMap(e, Append(t, x)) = FlatMap(e, t) \o e[x]
    BY <1>1, FlatMapAppend
  <2>2. FlatMap(e, t) = << >> /\ e[x] = << >>
    BY <1>2, <1>4
  <2>3. FlatMap(e, Append(t, x)) = << >>
    BY <2>1, <2>2
  <2> QED
    BY <2>3
<1> HIDE DEF P
<1>5. Seq(S) \subseteq P
  BY <1>3, <1>4, SequenceInduction
<1>6. FlatMap(f, s) = FlatMap(e, s)
  <2>1. \A i \in DOMAIN s : s[i] \in S
    OBVIOUS
  <2>2. \A i \in DOMAIN s : f[s[i]] = e[s[i]]
    BY <1>2, <2>1
  <2> QED
    BY <2>2, FlatMapSame
<1> QED
  BY <1>5, <1>6 DEF P

\* The elements of a concatenation.
LEMMA ToSetConcat ==
    ASSUME NEW T, NEW u \in Seq(T), NEW v \in Seq(T)
    PROVE  ToSet(u \o v) = ToSet(u) \cup ToSet(v)
<1> DEFINE w == u \o v
<1>1. /\ \A i \in 1..Len(u) : w[i] = u[i]
      /\ \A i \in 1..Len(v) : w[Len(u) + i] = v[i]
      /\ DOMAIN w = 1..(Len(u) + Len(v))
      /\ DOMAIN u = 1..Len(u) /\ DOMAIN v = 1..Len(v)
      /\ Len(u) \in Nat /\ Len(v) \in Nat
  OBVIOUS
<1> HIDE DEF w
<1>2. ASSUME NEW i \in 1..Len(u) PROVE u[i] \in ToSet(w)
  BY <1>1 DEF ToSet
<1>3. ASSUME NEW i \in 1..Len(v) PROVE v[i] \in ToSet(w)
  <2>1. Len(u) + i \in DOMAIN w /\ w[Len(u) + i] = v[i]
    BY <1>1
  <2> QED
    BY <2>1 DEF ToSet
<1>4. ASSUME NEW i \in DOMAIN w PROVE w[i] \in ToSet(u) \cup ToSet(v)
  <2>1. CASE i \in 1..Len(u)
    BY <1>1, <2>1 DEF ToSet
  <2>2. CASE i \notin 1..Len(u)
    <3>1. i - Len(u) \in 1..Len(v) /\ i = Len(u) + (i - Len(u))
      BY <1>1, <2>2
    <3>2. w[i] = v[i - Len(u)]
      BY <1>1, <3>1
    <3> QED
      BY <1>1, <3>1, <3>2 DEF ToSet
  <2> QED
    BY <2>1, <2>2
<1>5. ToSet(w) \subseteq ToSet(u) \cup ToSet(v)
  BY <1>4 DEF ToSet
<1>6. ToSet(u) \subseteq ToSet(w)
  BY <1>1, <1>2 DEF ToSet
<1>7. ToSet(v) \subseteq ToSet(w)
  BY <1>1, <1>3 DEF ToSet
<1> QED
  BY <1>5, <1>6, <1>7 DEF w

\* The elements of what is made.
LEMMA FlatMapSet ==
    ASSUME NEW S, NEW T, NEW f, Maps(f, S, T), NEW s \in Seq(S)
    PROVE  ToSet(FlatMap(f, s)) = UNION {ToSet(f[x]) : x \in ToSet(s)}
<1> DEFINE U(t) == UNION {ToSet(f[x]) : x \in ToSet(t)}
           P == {t \in Seq(S) : ToSet(FlatMap(f, t)) = U(t)}
<1>1. << >> \in P
  <2>1. ToSet(<< >>) = {}
    BY DEF ToSet
  <2>2. U(<< >>) = {}
    BY <2>1
  <2> QED
    BY <2>1, <2>2, FlatMapEmpty
<1>2. ASSUME NEW t \in Seq(S), NEW x \in S, t \in P PROVE Append(t, x) \in P
  <2>1. FlatMap(f, Append(t, x)) = FlatMap(f, t) \o f[x]
    BY FlatMapAppend
  <2>2. FlatMap(f, t) \in Seq(T) /\ f[x] \in Seq(T)
    BY FlatMapType, MapsAt
  <2>3. ToSet(FlatMap(f, Append(t, x))) = ToSet(FlatMap(f, t)) \cup ToSet(f[x])
    BY <2>1, <2>2, ToSetConcat
  <2>4. Append(t, x) = t \o <<x>> /\ <<x>> \in Seq(S)
    OBVIOUS
  <2>5. ToSet(<<x>>) = {x}
    BY DEF ToSet
  <2>6. ToSet(Append(t, x)) = ToSet(t) \cup {x}
    <3>1. ToSet(t \o <<x>>) = ToSet(t) \cup ToSet(<<x>>)
      BY <2>4, ToSetConcat, Zenon
    <3> QED
      BY <2>4, <2>5, <3>1
  <2>7. U(Append(t, x)) = U(t) \cup ToSet(f[x])
    BY <2>6
  <2>8. Append(t, x) \in Seq(S) /\ ToSet(FlatMap(f, t)) = U(t)
    BY <1>2
  <2> HIDE DEF U
  <2>9. ToSet(FlatMap(f, Append(t, x))) = U(Append(t, x))
    BY <2>3, <2>7, <2>8
  <2> QED
    BY <2>8, <2>9
<1> HIDE DEF P
<1>3. Seq(S) \subseteq P
  BY <1>1, <1>2, SequenceInduction
<1> QED
  BY <1>3 DEF P

\* Two images of a sequence that are alike in length go side by side.
AlikeInLength(f, g, Z) == \A z \in Z : Len(f[z]) = Len(g[z])

\* Position by position, u and v come from the same place of f and g.
SideBySide(u, v, f, g, Z) ==
    /\ Len(u) = Len(v)
    /\ \A j \in 1..Len(u) : \E z \in Z : \E k \in 1..Len(f[z]) :
          u[j] = f[z][k] /\ v[j] = g[z][k]

\* Maps whose rows are equally long keep their elements side by side.
LEMMA FlatMapPaired ==
    ASSUME NEW Z, NEW S, NEW T, NEW f, Maps(f, Z, S), NEW g, Maps(g, Z, T),
           AlikeInLength(f, g, Z), NEW s \in Seq(Z)
    PROVE  SideBySide(FlatMap(f, s), FlatMap(g, s), f, g, Z)
<1> DEFINE P == {t \in Seq(Z) : SideBySide(FlatMap(f, t), FlatMap(g, t), f, g, Z)}
<1>1. << >> \in P
  <2>1. << >> \in Seq(Z) /\ SideBySide(<< >>, << >>, f, g, Z)
    BY DEF SideBySide
  <2> QED
    BY <2>1, FlatMapEmpty
<1>2. ASSUME NEW t \in Seq(Z), NEW x \in Z, t \in P PROVE Append(t, x) \in P
  <2>1. PICK u \in Seq(S), v \in Seq(T) : u = FlatMap(f, t) /\ v = FlatMap(g, t)
    BY FlatMapType
  <2>2. PICK a \in Seq(S), b \in Seq(T) : a = f[x] /\ b = g[x]
    BY MapsAt
  <2>3. SideBySide(u, v, f, g, Z)
    BY <1>2, <2>1
  <2>4. Len(a) = Len(b) /\ Len(u) = Len(v)
    BY <2>2, <2>3 DEF AlikeInLength, SideBySide
  <2>5. Len(u \o a) = Len(v \o b) /\ Len(u \o a) = Len(u) + Len(a)
    <3>1. Len(u \o a) = Len(u) + Len(a)
      OBVIOUS
    <3>2. Len(v \o b) = Len(v) + Len(b)
      OBVIOUS
    <3> QED
      BY <2>4, <3>1, <3>2
  <2>6. ASSUME NEW j \in 1..Len(u \o a)
        PROVE  \E z \in Z : \E k \in 1..Len(f[z]) :
                   (u \o a)[j] = f[z][k] /\ (v \o b)[j] = g[z][k]
    <3>1. CASE j \in 1..Len(u)
      <4>1. (u \o a)[j] = u[j]
        BY <3>1
      <4>2. (v \o b)[j] = v[j]
        BY <2>4, <3>1
      <4>3. \E z \in Z : \E k \in 1..Len(f[z]) : u[j] = f[z][k] /\ v[j] = g[z][k]
        BY <2>3, <3>1, Zenon DEF SideBySide
      <4> QED
        BY <4>1, <4>2, <4>3
    <3>2. CASE j \notin 1..Len(u)
      <4> DEFINE k == j - Len(u)
      <4>1. k \in 1..Len(a) /\ j = Len(u) + k /\ k \in 1..Len(b) /\ j = Len(v) + k
        BY <2>4, <2>5, <3>2
      <4> HIDE DEF k
      <4>2. (u \o a)[Len(u) + k] = a[k]
        BY <4>1
      <4>3. (v \o b)[Len(v) + k] = b[k]
        BY <4>1
      <4> QED
        BY <2>2, <4>1, <4>2, <4>3, Zenon
    <3> QED
      BY <3>1, <3>2, Zenon
  <2>7. SideBySide(u \o a, v \o b, f, g, Z)
    BY <2>5, <2>6, Zenon DEF SideBySide
  <2>8. FlatMap(f, Append(t, x)) = u \o a
    <3>1. FlatMap(f, Append(t, x)) = FlatMap(f, t) \o f[x]
      BY FlatMapAppend
    <3> QED
      BY <2>1, <2>2, <3>1
  <2>9. FlatMap(g, Append(t, x)) = v \o b
    <3>1. FlatMap(g, Append(t, x)) = FlatMap(g, t) \o g[x]
      BY FlatMapAppend
    <3> QED
      BY <2>1, <2>2, <3>1
  <2>10. Append(t, x) \in Seq(Z)
    OBVIOUS
  <2> QED
    BY <2>7, <2>8, <2>9, <2>10, Zenon
<1> HIDE DEF P
<1>3. Seq(Z) \subseteq P
  BY <1>1, <1>2, SequenceInduction
<1> QED
  BY <1>3 DEF P

\* Sequences of n sequences.
Rows(ss, n, S) == ss \in [1..n -> Seq(S)]

\* To flatten rows is to map their numbers.
LEMMA FlattenRows ==
    ASSUME NEW n \in Nat, NEW S, NEW ss, Rows(ss, n, S)
    PROVE  /\ FlattenSeq(ss) = FlatMap(ss, [i \in 1..n |-> i])
           /\ Maps(ss, 1..n, S)
           /\ [i \in 1..n |-> i] \in Seq(1..n)
           /\ FlattenSeq(ss) \in Seq(S)
<1> DEFINE all == [i \in 1..n |-> i]
<1>1. all \in Seq(1..n) /\ DOMAIN all = 1..n
  OBVIOUS
<1>2. ss = [i \in DOMAIN all |-> ss[all[i]]]
  BY DEF Rows
<1>3. Maps(ss, 1..n, S)
  BY DEF Rows, Maps
<1> HIDE DEF all
<1>4. FlattenSeq(ss) = FlatMap(ss, all)
  BY <1>2 DEF FlatMap
<1>5. FlatMap(ss, all) \in Seq(S)
  BY <1>1, <1>3, FlatMapType
<1> QED
  BY <1>1, <1>3, <1>4, <1>5 DEF all

\* Rows that are equally long keep their elements side by side.
LEMMA FlattenPaired ==
    ASSUME NEW n \in Nat, NEW S, NEW T, NEW ss, Rows(ss, n, S), NEW tt, Rows(tt, n, T),
           AlikeInLength(ss, tt, 1..n)
    PROVE  SideBySide(FlattenSeq(ss), FlattenSeq(tt), ss, tt, 1..n)
<1> DEFINE all == [i \in 1..n |-> i]
<1>1. /\ FlattenSeq(ss) = FlatMap(ss, all) /\ Maps(ss, 1..n, S) /\ all \in Seq(1..n)
      /\ FlattenSeq(tt) = FlatMap(tt, all) /\ Maps(tt, 1..n, T)
  BY FlattenRows
<1> HIDE DEF all
<1>2. SideBySide(FlatMap(ss, all), FlatMap(tt, all), ss, tt, 1..n)
  BY <1>1, FlatMapPaired
<1> QED
  BY <1>1, <1>2

-----------------------------------------------------------------------------
(***************************************************************************)
(* The parts of a type.                                                    *)
(***************************************************************************)
Only(S, t) == [x \in S |-> IF x.type = t THEN <<x>> ELSE << >>]

\* OfType is a map that keeps the elements of the type.
LEMMA OfTypeIs ==
    ASSUME NEW S, NEW s \in Seq(S), NEW t
    PROVE  OfType(s, t) = FlatMap(Only(S, t), s) /\ Maps(Only(S, t), S, S)
<1>1. Maps(Only(S, t), S, S)
  BY DEF Maps, Only
<1>2. [i \in DOMAIN s |-> IF s[i].type = t THEN <<s[i]>> ELSE << >>]
          = [i \in DOMAIN s |-> Only(S, t)[s[i]]]
  BY DEF Only
<1> QED
  BY <1>1, <1>2, Zenon DEF OfType, FlatMap

\* The elements of a type are elements.
LEMMA OfTypeType ==
    ASSUME NEW S, NEW s \in Seq(S), NEW t
    PROVE  OfType(s, t) \in Seq(S)
BY OfTypeIs, FlatMapType

\* The elements of a type, of a concatenation.
LEMMA OfTypeConcat ==
    ASSUME NEW S, NEW s \in Seq(S), NEW u \in Seq(S), NEW t
    PROVE  OfType(s \o u, t) = OfType(s, t) \o OfType(u, t)
<1>1. PICK v \in Seq(S) : v = s \o u
  <2>1. s \o u \in Seq(S)
    OBVIOUS
  <2> QED
    BY <2>1, Zenon
<1>2. OfType(v, t) = FlatMap(Only(S, t), v)
  BY OfTypeIs
<1>3. FlatMap(Only(S, t), s \o u) = FlatMap(Only(S, t), s) \o FlatMap(Only(S, t), u)
  BY OfTypeIs, FlatMapConcat
<1> QED
  BY <1>1, <1>2, <1>3, OfTypeIs, Zenon

\* When all elements are of the type.
LEMMA OfTypeAll ==
    ASSUME NEW S, NEW s \in Seq(S), NEW t, \A x \in S : x.type = t
    PROVE  OfType(s, t) = s
<1> DEFINE id == [x \in S |-> x]
<1>1. Singly(Only(S, t), id, S, S)
  BY DEF Only, Singly
<1>2. [i \in DOMAIN s |-> id[s[i]]] = s
  OBVIOUS
<1> HIDE DEF id
<1>3. FlatMap(Only(S, t), s) = [i \in DOMAIN s |-> id[s[i]]]
  BY <1>1, FlatMapEach
<1> QED
  BY <1>2, <1>3, OfTypeIs

\* When no element is of the type.
LEMMA OfTypeNone ==
    ASSUME NEW S, NEW s \in Seq(S), NEW t, \A x \in S : x.type # t
    PROVE  OfType(s, t) = << >>
<1>1. \A x \in S : Only(S, t)[x] = << >>
  BY DEF Only
<1>2. FlatMap(Only(S, t), s) = << >>
  BY <1>1, FlatMapNone
<1> QED
  BY <1>2, OfTypeIs

\* The elements of type a of s have the places of those of type b of t.
InSamePlaces(s, t, a, b, n) ==
    /\ Len(OfType(s, a)) = Len(OfType(t, b))
    /\ \A j \in 1..Len(OfType(s, a)) : \E i \in 1..n :
          s[i].type = a /\ OfType(s, a)[j] = s[i] /\ OfType(t, b)[j] = t[i]

\* The elements of a type of two sequences that have them in the same places.
LEMMA OfTypePaired ==
    ASSUME NEW n \in Nat, NEW S, NEW T, NEW s \in Seq(S), NEW t \in Seq(T),
           Len(s) = n, Len(t) = n, NEW a, NEW b,
           \A i \in 1..n : s[i].type = a <=> t[i].type = b
    PROVE  InSamePlaces(s, t, a, b, n)
<1> DEFINE ss == [i \in 1..n |-> IF s[i].type = a THEN <<s[i]>> ELSE << >>]
           tt == [i \in 1..n |-> IF t[i].type = b THEN <<t[i]>> ELSE << >>]
<1>1. PICK u, v : u = OfType(s, a) /\ v = OfType(t, b)
  OBVIOUS
<1>2. u = FlattenSeq(ss) /\ v = FlattenSeq(tt)
  BY <1>1 DEF OfType
<1>3. Rows(ss, n, S) /\ Rows(tt, n, T)
  BY DEF Rows
<1>4. AlikeInLength(ss, tt, 1..n)
  BY DEF AlikeInLength
<1>5. \A i \in 1..n : \A k \in 1..Len(ss[i]) :
          s[i].type = a /\ k = 1 /\ ss[i][k] = s[i] /\ tt[i][k] = t[i]
  OBVIOUS
<1> HIDE DEF ss, tt
<1>6. SideBySide(u, v, ss, tt, 1..n)
  BY <1>2, <1>3, <1>4, FlattenPaired
<1>7. Len(u) = Len(v)
  BY <1>6 DEF SideBySide
<1>8. ASSUME NEW j \in 1..Len(u)
      PROVE  \E i \in 1..n : s[i].type = a /\ u[j] = s[i] /\ v[j] = t[i]
  <2>1. PICK i \in 1..n : \E k \in 1..Len(ss[i]) : u[j] = ss[i][k] /\ v[j] = tt[i][k]
    BY <1>6, <1>8, Zenon DEF SideBySide
  <2>2. PICK k \in 1..Len(ss[i]) : u[j] = ss[i][k] /\ v[j] = tt[i][k]
    BY <2>1, Zenon
  <2>3. s[i].type = a /\ ss[i][k] = s[i] /\ tt[i][k] = t[i]
    BY <1>5, <2>2, Zenon
  <2> QED
    BY <2>2, <2>3
<1> QED
  BY <1>1, <1>7, <1>8, Zenon DEF InSamePlaces

\* The set of the elements of a type.
LEMMA OfTypeSet ==
    ASSUME NEW S, NEW s \in Seq(S), NEW t
    PROVE  ToSet(OfType(s, t)) = {x \in ToSet(s) : x.type = t}
<1> DEFINE U == UNION {ToSet(Only(S, t)[x]) : x \in ToSet(s)}
<1>1. ToSet(OfType(s, t)) = U
  BY OfTypeIs, FlatMapSet
<1>2. ToSet(s) \subseteq S
  BY DEF ToSet
<1>3. \A x \in S : ToSet(Only(S, t)[x]) = IF x.type = t THEN {x} ELSE {}
  BY DEF Only, ToSet
<1>4. ASSUME NEW x PROVE x \in U <=> x \in {y \in ToSet(s) : y.type = t}
  <2>1. x \in U => \E y \in ToSet(s) : x \in ToSet(Only(S, t)[y])
    OBVIOUS
  <2>2. \A y \in ToSet(s) : x \in ToSet(Only(S, t)[y]) => x \in U
    OBVIOUS
  <2>3. \A y \in ToSet(s) : x \in ToSet(Only(S, t)[y]) <=> x = y /\ y.type = t
    BY <1>2, <1>3, Zenon
  <2> HIDE DEF U
  <2> QED
    BY <2>1, <2>2, <2>3
<1> QED
  BY <1>1, <1>4

\* A sequence, whatever its elements.
IsSeq(s) == s \in Seq(ToSet(s))

\* A sequence over a set is a sequence.
LEMMA IsSeqOf ==
    ASSUME NEW S, NEW s \in Seq(S)
    PROVE  IsSeq(s)
BY DEF IsSeq, ToSet

\* Length, domain and elements of a sequence.
LEMMA IsSeqFields ==
    ASSUME NEW s, IsSeq(s)
    PROVE  Len(s) \in Nat /\ DOMAIN s = 1..Len(s) /\ s \in Seq(ToSet(s))
BY DEF IsSeq

\* A function of the numbers up to n is a sequence.
LEMMA IsSeqMap ==
    ASSUME NEW s, NEW n \in Nat, s = [i \in 1..n |-> s[i]]
    PROVE  IsSeq(s) /\ Len(s) = n
BY DEF IsSeq, ToSet

\* Where the elements of a type come from, and when there are none.
LEMMA OfTypeMembers ==
    ASSUME NEW s, IsSeq(s), NEW t
    PROVE  /\ IsSeq(OfType(s, t))
           /\ \A j \in DOMAIN OfType(s, t) : \E i \in DOMAIN s :
                 OfType(s, t)[j] = s[i] /\ s[i].type = t
           /\ OfType(s, t) = << >> <=> \A i \in DOMAIN s : s[i].type # t
<1>1. s \in Seq(ToSet(s))
  BY DEF IsSeq
<1>2. ToSet(OfType(s, t)) = {x \in ToSet(s) : x.type = t}
  BY <1>1, OfTypeSet
<1>3. OfType(s, t) \in Seq(ToSet(s))
  BY <1>1, OfTypeType
<1>4. IsSeq(OfType(s, t))
  BY <1>3, IsSeqOf
<1> DEFINE u == OfType(s, t)
<1> HIDE DEF u
<1>5. ASSUME NEW j \in DOMAIN u PROVE \E i \in DOMAIN s : u[j] = s[i] /\ s[i].type = t
  <2>1. u[j] \in ToSet(u)
    BY DEF ToSet
  <2>2. u[j] \in ToSet(s) /\ u[j].type = t
    BY <1>2, <2>1 DEF u
  <2> QED
    BY <2>2 DEF ToSet
<1>6. u = << >> <=> ToSet(u) = {}
  <2>1. u \in Seq(ToSet(s))
    BY <1>3 DEF u
  <2>2. u # << >> => u[1] \in ToSet(u)
    BY <2>1 DEF ToSet
  <2>3. ToSet(<< >>) = {}
    BY DEF ToSet
  <2> QED
    BY <2>2, <2>3
<1>7. ToSet(u) = {} <=> \A i \in DOMAIN s : s[i].type # t
  BY <1>2 DEF u, ToSet
<1> QED
  BY <1>4, <1>5, <1>6, <1>7 DEF u

\* A sequence of n sequences, whatever their elements.
AreRows(ss, n) == ss = [i \in 1..n |-> ss[i]] /\ \A i \in 1..n : IsSeq(ss[i])

\* Rows have a set of elements.
LEMMA RowsTyped ==
    ASSUME NEW n \in Nat, NEW ss, AreRows(ss, n)
    PROVE  \E S : Rows(ss, n, S)
<1> DEFINE S == UNION {ToSet(ss[i]) : i \in 1..n}
<1>1. ASSUME NEW i \in 1..n PROVE ss[i] \in Seq(S)
  <2>1. ss[i] \in Seq(ToSet(ss[i]))
    BY DEF AreRows, IsSeq
  <2>2. ToSet(ss[i]) \subseteq S
    OBVIOUS
  <2> HIDE DEF S
  <2> QED
    BY <2>1, <2>2
<1> HIDE DEF S
<1>2. Rows(ss, n, S)
  BY <1>1 DEF Rows, AreRows
<1> QED
  BY <1>2

\* The parts of a type of rows, row by row.
LEMMA OfTypeFlatten ==
    ASSUME NEW n \in Nat, NEW ss, AreRows(ss, n), NEW t
    PROVE  /\ OfType(FlattenSeq(ss), t) = FlattenSeq([i \in 1..n |-> OfType(ss[i], t)])
           /\ IsSeq(FlattenSeq(ss))
           /\ AreRows([i \in 1..n |-> OfType(ss[i], t)], n)
<1>1. PICK S : Rows(ss, n, S)
  BY RowsTyped
<1> DEFINE all == [i \in 1..n |-> i]
           h == [i \in 1..n |-> FlatMap(Only(S, t), ss[i])]
           tt == [i \in 1..n |-> OfType(ss[i], t)]
<1>2. /\ FlattenSeq(ss) = FlatMap(ss, all) /\ Maps(ss, 1..n, S) /\ all \in Seq(1..n)
      /\ FlattenSeq(ss) \in Seq(S)
  BY <1>1, FlattenRows
<1>3. OfType(FlattenSeq(ss), t) = FlatMap(Only(S, t), FlattenSeq(ss)) /\ Maps(Only(S, t), S, S)
  BY <1>2, OfTypeIs
<1>4. FlatMap(Only(S, t), FlatMap(ss, all)) = FlatMap(h, all)
  <2> HIDE DEF all
  <2> QED
    BY <1>2, <1>3, FlatMapTwice
<1>5. \A i \in 1..n : ss[i] \in Seq(S)
  BY <1>1 DEF Rows
<1>6. h = tt
  BY <1>5, OfTypeIs
<1>7. \A i \in 1..n : OfType(ss[i], t) \in Seq(S)
  BY <1>5, OfTypeType
<1>8. Rows(tt, n, S)
  BY <1>7 DEF Rows
<1>9. FlattenSeq(tt) = FlatMap(tt, all)
  BY <1>8, FlattenRows, Zenon
<1>10. IsSeq(FlattenSeq(ss))
  BY <1>2, IsSeqOf
<1>11. AreRows(tt, n)
  BY <1>7, IsSeqOf DEF AreRows
<1> HIDE DEF all, h, tt
<1>12. OfType(FlattenSeq(ss), t) = FlattenSeq(tt)
  BY <1>2, <1>3, <1>4, <1>6, <1>9
<1> QED
  BY <1>10, <1>11, <1>12 DEF tt

\* An element of type a for a row with one element of type b.
RowFor(s, ss, a, b) ==
    \A i \in DOMAIN s :
        \/ s[i].type = a /\ Len(OfType(ss[i], b)) = 1
        \/ s[i].type # a /\ OfType(ss[i], b) = << >>

\* The elements of type b of the rows are those made of the elements of type a.
RowsAlike(s, ss, a, b) ==
    LET flat == FlattenSeq(ss)
    IN  /\ IsSeq(flat) /\ IsSeq(OfType(s, a)) /\ IsSeq(OfType(flat, b))
        /\ Len(OfType(s, a)) = Len(OfType(flat, b))
        /\ \A j \in 1..Len(OfType(s, a)) : \E i \in DOMAIN s :
              s[i].type = a /\ OfType(s, a)[j] = s[i] /\ OfType(flat, b)[j] = OfType(ss[i], b)[1]

\* Elements that have a row with one element of a type each.
LEMMA RowsAligned ==
    ASSUME NEW s, IsSeq(s), NEW ss, AreRows(ss, Len(s)), NEW a, NEW b, RowFor(s, ss, a, b)
    PROVE  RowsAlike(s, ss, a, b)
<1>1. PICK n \in Nat : n = Len(s)
  BY IsSeqFields
<1>2. DOMAIN s = 1..n /\ s \in Seq(ToSet(s)) /\ AreRows(ss, n)
  BY <1>1, IsSeqFields
<1> DEFINE uu == [i \in 1..n |-> IF s[i].type = a THEN <<s[i]>> ELSE << >>]
           tt == [i \in 1..n |-> OfType(ss[i], b)]
<1>3. OfType(s, a) = FlattenSeq(uu)
  BY <1>2 DEF OfType
<1>4. /\ OfType(FlattenSeq(ss), b) = FlattenSeq(tt) /\ IsSeq(FlattenSeq(ss)) /\ AreRows(tt, n)
  BY <1>2, OfTypeFlatten
<1>5. IsSeq(OfType(s, a)) /\ IsSeq(OfType(FlattenSeq(ss), b))
  BY <1>4, OfTypeMembers
<1>6. Rows(uu, n, ToSet(s))
  BY <1>2 DEF Rows
<1>7. PICK T : Rows(tt, n, T)
  BY <1>4, RowsTyped, Zenon
<1>8. \A i \in 1..n : Len(uu[i]) = Len(tt[i])
  BY <1>2, Zenon DEF RowFor
<1>9. AlikeInLength(uu, tt, 1..n)
  BY <1>8 DEF AlikeInLength
<1>10. \A i \in 1..n : \A k \in 1..Len(uu[i]) :
           s[i].type = a /\ k = 1 /\ uu[i][k] = s[i] /\ tt[i][k] = OfType(ss[i], b)[1]
  OBVIOUS
<1> HIDE DEF uu, tt
<1>11. SideBySide(FlattenSeq(uu), FlattenSeq(tt), uu, tt, 1..n)
  BY <1>6, <1>7, <1>9, FlattenPaired
<1>12. \A j \in 1..Len(FlattenSeq(uu)) : \E i \in 1..n :
           s[i].type = a /\ FlattenSeq(uu)[j] = s[i] /\ FlattenSeq(tt)[j] = OfType(ss[i], b)[1]
  BY <1>10, <1>11 DEF SideBySide
<1>13. Len(FlattenSeq(uu)) = Len(FlattenSeq(tt))
  BY <1>11 DEF SideBySide
<1> QED
  BY <1>2, <1>3, <1>4, <1>5, <1>12, <1>13 DEF RowsAlike

-----------------------------------------------------------------------------
(***************************************************************************)
(* The same for sequences whose elements are of any kind.                  *)
(***************************************************************************)
\* Every element of s becomes a sequence, whatever its elements.
Spreads(g, s) == \A k \in DOMAIN s : IsSeq(g[s[k]])

\* The map g on the elements of s.
Within(g, s) == [x \in ToSet(s) |-> g[x]]

\* A map of the elements of s has a set of elements.
LEMMA SpreadsTyped ==
    ASSUME NEW s, IsSeq(s), NEW g, Spreads(g, s)
    PROVE  /\ \E T : Maps(Within(g, s), ToSet(s), T)
           /\ FlatMap(g, s) = FlatMap(Within(g, s), s)
<1> DEFINE T == UNION {ToSet(g[x]) : x \in ToSet(s)}
<1>1. ASSUME NEW x \in ToSet(s) PROVE g[x] \in Seq(T)
  <2>1. IsSeq(g[x])
    BY DEF Spreads, ToSet
  <2>2. g[x] \in Seq(ToSet(g[x]))
    BY <2>1 DEF IsSeq
  <2>3. ToSet(g[x]) \subseteq T
    OBVIOUS
  <2> HIDE DEF T
  <2> QED
    BY <2>2, <2>3
<1> HIDE DEF T
<1>2. Maps(Within(g, s), ToSet(s), T)
  BY <1>1 DEF Maps, Within
<1>3. \A i \in DOMAIN s : g[s[i]] = Within(g, s)[s[i]]
  BY DEF Within, ToSet
<1> QED
  BY <1>2, <1>3, FlatMapSame

\* What is made of a sequence is a sequence.
LEMMA SpreadsSeq ==
    ASSUME NEW s, IsSeq(s), NEW g, Spreads(g, s)
    PROVE  IsSeq(FlatMap(g, s))
<1> DEFINE f == Within(g, s)
<1>1. PICK T : Maps(f, ToSet(s), T)
  BY SpreadsTyped
<1>2. s \in Seq(ToSet(s)) /\ FlatMap(g, s) = FlatMap(f, s)
  BY SpreadsTyped DEF IsSeq
<1> HIDE DEF f
<1>3. FlatMap(f, s) \in Seq(T)
  BY <1>1, <1>2, FlatMapType
<1> QED
  BY <1>2, <1>3, IsSeqOf

\* Row by row.
RowsSpread(g, ss, n) == \A i \in 1..n : Spreads(g, ss[i])

\* The elements of the flattened rows, and when there are none.
LEMMA FlattenMembers ==
    ASSUME NEW n \in Nat, NEW ss, AreRows(ss, n)
    PROVE  /\ IsSeq(FlattenSeq(ss))
           /\ \A x : x \in ToSet(FlattenSeq(ss)) <=> \E i \in 1..n : x \in ToSet(ss[i])
           /\ FlattenSeq(ss) = << >> <=> \A i \in 1..n : ss[i] = << >>
<1>1. PICK S : Rows(ss, n, S)
  BY RowsTyped
<1> DEFINE all == [i \in 1..n |-> i]
<1>2. /\ FlattenSeq(ss) = FlatMap(ss, all) /\ Maps(ss, 1..n, S) /\ all \in Seq(1..n)
      /\ FlattenSeq(ss) \in Seq(S)
  BY <1>1, FlattenRows
<1>3. ToSet(all) = 1..n
  BY DEF ToSet
<1> HIDE DEF all
<1>4. ToSet(FlattenSeq(ss)) = UNION {ToSet(ss[i]) : i \in ToSet(all)}
  BY <1>2, FlatMapSet
<1>5. \A x : x \in ToSet(FlattenSeq(ss)) <=> \E i \in 1..n : x \in ToSet(ss[i])
  BY <1>3, <1>4
<1>6. \A s : IsSeq(s) => (s = << >> <=> ToSet(s) = {})
  <2> SUFFICES ASSUME NEW s, IsSeq(s) PROVE s = << >> <=> ToSet(s) = {}
    OBVIOUS
  <2>1. s \in Seq(ToSet(s))
    BY DEF IsSeq
  <2>2. s # << >> => s[1] \in ToSet(s)
    BY <2>1 DEF ToSet
  <2>3. ToSet(<< >>) = {}
    BY DEF ToSet
  <2> QED
    BY <2>2, <2>3
<1>7. IsSeq(FlattenSeq(ss))
  BY <1>2, IsSeqOf
<1>8. \A i \in 1..n : IsSeq(ss[i])
  BY DEF AreRows
<1> QED
  BY <1>5, <1>6, <1>7, <1>8

\* Rows may be mapped before or after they are flattened.
LEMMA FlatMapFlatten ==
    ASSUME NEW n \in Nat, NEW ss, AreRows(ss, n), NEW g, RowsSpread(g, ss, n)
    PROVE  /\ FlatMap(g, FlattenSeq(ss)) = FlattenSeq([i \in 1..n |-> FlatMap(g, ss[i])])
           /\ AreRows([i \in 1..n |-> FlatMap(g, ss[i])], n)
           /\ Spreads(g, FlattenSeq(ss))
<1> DEFINE flat == FlattenSeq(ss)
           tt == [i \in 1..n |-> FlatMap(g, ss[i])]
<1>1. IsSeq(flat) /\ \A x : x \in ToSet(flat) <=> \E i \in 1..n : x \in ToSet(ss[i])
  BY FlattenMembers
<1> DEFINE S == ToSet(flat)
<1>2. Rows(ss, n, S)
  <2>1. ASSUME NEW i \in 1..n PROVE ss[i] \in Seq(S)
    <3>1. ss[i] \in Seq(ToSet(ss[i]))
      BY DEF AreRows, IsSeq
    <3>2. ToSet(ss[i]) \subseteq S
      BY <1>1
    <3> HIDE DEF S
    <3> QED
      BY <3>1, <3>2
  <2> HIDE DEF S
  <2> QED
    BY <2>1 DEF Rows, AreRows
<1>3. Spreads(g, flat)
  <2>1. ASSUME NEW k \in DOMAIN flat PROVE IsSeq(g[flat[k]])
    <3>1. flat[k] \in ToSet(flat)
      BY DEF ToSet
    <3>2. PICK i \in 1..n : flat[k] \in ToSet(ss[i])
      BY <1>1, <3>1
    <3>3. PICK j \in DOMAIN ss[i] : flat[k] = ss[i][j]
      BY <3>2 DEF ToSet
    <3> QED
      BY <3>3 DEF RowsSpread, Spreads
  <2> HIDE DEF flat
  <2> QED
    BY <2>1 DEF Spreads
<1> DEFINE f == Within(g, flat)
           all == [i \in 1..n |-> i]
           h == [i \in 1..n |-> FlatMap(f, ss[i])]
<1>4. PICK T : Maps(f, S, T)
  BY <1>1, <1>3, SpreadsTyped
<1>5. FlatMap(g, flat) = FlatMap(f, flat)
  BY <1>1, <1>3, SpreadsTyped
<1>6. flat = FlatMap(ss, all) /\ Maps(ss, 1..n, S) /\ all \in Seq(1..n)
  BY <1>2, FlattenRows
<1>7. \A i \in 1..n : FlatMap(f, ss[i]) = FlatMap(g, ss[i])
  <2> SUFFICES ASSUME NEW i \in 1..n PROVE FlatMap(f, ss[i]) = FlatMap(g, ss[i])
    OBVIOUS
  <2>1. \A k \in DOMAIN ss[i] : ss[i][k] \in ToSet(ss[i])
    BY DEF ToSet
  <2>2. \A k \in DOMAIN ss[i] : ss[i][k] \in ToSet(flat)
    BY <1>1, <2>1
  <2> HIDE DEF flat
  <2>3. \A k \in DOMAIN ss[i] : f[ss[i][k]] = g[ss[i][k]]
    BY <2>2 DEF Within
  <2> HIDE DEF f
  <2> QED
    BY <2>3, FlatMapSame
<1>8. h = tt
  BY <1>7
<1>9. Maps(h, 1..n, T)
  <2> HIDE DEF f, S
  <2>1. \A i \in 1..n : ss[i] \in Seq(S)
    BY <1>2 DEF Rows
  <2>2. \A i \in 1..n : FlatMap(f, ss[i]) \in Seq(T)
    BY <1>4, <2>1, FlatMapType
  <2> QED
    BY <2>2 DEF Maps
<1>10. FlatMap(f, FlatMap(ss, all)) = FlatMap(h, all)
  <2> HIDE DEF f, S, all
  <2> QED
    BY <1>4, <1>6, FlatMapTwice
<1>11. Rows(tt, n, T)
  BY <1>8, <1>9 DEF Rows, Maps
<1>12. FlattenSeq(tt) = FlatMap(tt, all)
  BY <1>11, FlattenRows, Zenon
<1>13. AreRows(tt, n)
  <2>1. \A i \in 1..n : tt[i] \in Seq(T)
    BY <1>11 DEF Rows
  <2>2. \A i \in 1..n : IsSeq(tt[i])
    BY <2>1, IsSeqOf
  <2>3. tt = [i \in 1..n |-> tt[i]]
    OBVIOUS
  <2> HIDE DEF tt
  <2> QED
    BY <2>2, <2>3 DEF AreRows
<1> HIDE DEF f, h, tt, all
<1>14. FlatMap(g, flat) = FlattenSeq(tt)
  BY <1>5, <1>6, <1>8, <1>10, <1>12
<1> QED
  BY <1>3, <1>13, <1>14 DEF tt

\* What comes first is mapped first, whatever the elements.
LEMMA FlatMapJoin ==
    ASSUME NEW s, IsSeq(s), NEW t, IsSeq(t), NEW g, Spreads(g, s), Spreads(g, t)
    PROVE  /\ FlatMap(g, s \o t) = FlatMap(g, s) \o FlatMap(g, t)
           /\ IsSeq(s \o t)
           /\ Spreads(g, s \o t)
           /\ ToSet(s \o t) = ToSet(s) \cup ToSet(t)
<1> DEFINE S == ToSet(s) \cup ToSet(t)
           u == s \o t
<1>1. s \in Seq(S) /\ t \in Seq(S)
  BY DEF IsSeq
<1>2. u \in Seq(S) /\ ToSet(u) = S
  BY <1>1, ToSetConcat
<1>3. IsSeq(u)
  BY <1>2, IsSeqOf, Zenon
<1>4. \A x \in S : IsSeq(g[x])
  BY DEF Spreads, ToSet
<1> HIDE DEF S
<1>5. Spreads(g, u)
  BY <1>2, <1>4 DEF Spreads
<1> HIDE DEF u
<1> DEFINE f == Within(g, u)
<1>6. PICK T : Maps(f, S, T)
  BY <1>2, <1>3, <1>5, SpreadsTyped
<1>7. FlatMap(g, u) = FlatMap(f, u)
  BY <1>3, <1>5, SpreadsTyped
<1>8. \A x \in S : f[x] = g[x]
  BY <1>2 DEF Within
<1> HIDE DEF f
<1>9. FlatMap(g, s) = FlatMap(f, s) /\ FlatMap(g, t) = FlatMap(f, t)
  <2>1. \A i \in DOMAIN s : g[s[i]] = f[s[i]]
    BY <1>1, <1>8
  <2>2. \A i \in DOMAIN t : g[t[i]] = f[t[i]]
    BY <1>1, <1>8
  <2> QED
    BY <2>1, <2>2, FlatMapSame
<1>10. FlatMap(f, s \o t) = FlatMap(f, s) \o FlatMap(f, t)
  BY <1>1, <1>6, FlatMapConcat
<1> QED
  BY <1>2, <1>3, <1>5, <1>7, <1>9, <1>10 DEF u, S

\* A map of one element.
LEMMA FlatMapSingle ==
    ASSUME NEW g, NEW x, IsSeq(g[x])
    PROVE  FlatMap(g, <<x>>) = g[x]
<1>1. << >> \in Seq({x}) /\ Append(<< >>, x) = <<x>>
  OBVIOUS
<1> DEFINE f == [y \in {x} |-> g[y]]
<1>2. f[x] = g[x]
  OBVIOUS
<1>3. Maps(f, {x}, ToSet(g[x]))
  BY DEF Maps, IsSeq
<1> HIDE DEF f
<1>4. x \in {x}
  OBVIOUS
<1>5. FlatMap(f, Append(<< >>, x)) = FlatMap(f, << >>) \o f[x]
  BY <1>1, <1>3, <1>4, FlatMapAppend, Zenon
<1>6. << >> \o g[x] = g[x]
  BY DEF IsSeq
<1>7. FlatMap(f, <<x>>) = g[x]
  BY <1>1, <1>2, <1>5, <1>6, FlatMapEmpty, Zenon
<1>8. FlatMap(g, <<x>>) = FlatMap(f, <<x>>)
  <2>1. \A i \in DOMAIN <<x>> : g[<<x>>[i]] = f[<<x>>[i]]
    BY <1>2
  <2> QED
    BY <2>1, FlatMapSame
<1> QED
  BY <1>7, <1>8

\* g makes nothing of the elements of s.
Vanish(g, s) == \A k \in DOMAIN s : g[s[k]] = << >>

\* Then nothing is made.
LEMMA FlatMapVanish ==
    ASSUME NEW s, IsSeq(s), NEW g, Vanish(g, s)
    PROVE  FlatMap(g, s) = << >>
<1>1. s \in Seq(ToSet(s)) /\ \A x \in ToSet(s) : g[x] = << >>
  BY DEF Vanish, ToSet, IsSeq
<1> QED
  BY <1>1, FlatMapNone

\* An element for each part of a type.
ForEach(h, e, s, t) ==
    \A k \in DOMAIN s : /\ s[k].type = t => h[s[k]] = <<e[s[k]]>>
                        /\ s[k].type # t => h[s[k]] = << >>

\* A map that makes one element of each element of a type.
LEMMA FlatMapOfType ==
    ASSUME NEW s, IsSeq(s), NEW t, NEW h, NEW e, ForEach(h, e, s, t)
    PROVE  FlatMap(h, s) = [j \in DOMAIN OfType(s, t) |-> e[OfType(s, t)[j]]]
<1> DEFINE S == ToSet(s)
           T == {e[x] : x \in S}
           one == [x \in S |-> e[x]]
           g == [x \in S |-> <<e[x]>>]
           u == OfType(s, t)
<1>1. s \in Seq(S) /\ \A k \in DOMAIN s : s[k] \in S
  BY DEF IsSeq, ToSet
<1>2. u = FlatMap(Only(S, t), s) /\ Maps(Only(S, t), S, S) /\ u \in Seq(S)
  BY <1>1, OfTypeIs, OfTypeType
<1>3. Singly(g, one, S, T) /\ Maps(g, S, T)
  BY DEF Singly, Maps
<1>4. FlatMap(g, u) = [i \in DOMAIN u |-> one[u[i]]]
  <2> HIDE DEF u, S, T, g, one
  <2> QED
    BY <1>2, <1>3, FlatMapEach
<1>5. [i \in DOMAIN u |-> one[u[i]]] = [i \in DOMAIN u |-> e[u[i]]]
  <2> HIDE DEF u, S
  <2> QED
    BY <1>2
<1> DEFINE w == [x \in S |-> FlatMap(g, Only(S, t)[x])]
<1>6. FlatMap(g, FlatMap(Only(S, t), s)) = FlatMap(w, s)
  <2> HIDE DEF S, T, g
  <2> QED
    BY <1>1, <1>2, <1>3, FlatMapTwice
<1>7. \A x \in S : w[x] = IF x.type = t THEN <<e[x]>> ELSE << >>
  <2> SUFFICES ASSUME NEW x \in S PROVE w[x] = IF x.type = t THEN <<e[x]>> ELSE << >>
    OBVIOUS
  <2>1. g[x] = <<e[x]>> /\ IsSeq(<<e[x]>>)
    <3>1. <<e[x]>> \in Seq({e[x]})
      OBVIOUS
    <3> QED
      BY <3>1, IsSeqOf, Zenon
  <2> HIDE DEF S, g
  <2>2. FlatMap(g, <<x>>) = <<e[x]>>
    BY <2>1, FlatMapSingle
  <2>3. Only(S, t)[x] = IF x.type = t THEN <<x>> ELSE << >>
    BY DEF Only
  <2> QED
    BY <2>2, <2>3, FlatMapEmpty
<1>8. \A k \in DOMAIN s : w[s[k]] = h[s[k]]
  <2> SUFFICES ASSUME NEW k \in DOMAIN s PROVE w[s[k]] = h[s[k]]
    BY Zenon
  <2>1. w[s[k]] = IF s[k].type = t THEN <<e[s[k]]>> ELSE << >>
    BY <1>1, <1>7, Zenon
  <2> HIDE DEF w
  <2> QED
    BY <2>1 DEF ForEach
<1> HIDE DEF w, u, one, g
<1>9. FlatMap(w, s) = FlatMap(h, s)
  BY <1>8, FlatMapSame
<1> QED
  BY <1>2, <1>4, <1>5, <1>6, <1>9 DEF u

\* The first row comes first.
LEMMA FlattenHead ==
    ASSUME NEW n \in Nat, n # 0, NEW ss, AreRows(ss, n), ss[1] # << >>
    PROVE  FlattenSeq(ss) # << >> /\ FlattenSeq(ss)[1] = ss[1][1]
<1>1. PICK S : Rows(ss, n, S)
  BY RowsTyped
<1> DEFINE all == [i \in 1..n |-> i]
           rest == [i \in 1..(n - 1) |-> i + 1]
<1>2. FlattenSeq(ss) = FlatMap(ss, all) /\ Maps(ss, 1..n, S)
  BY <1>1, FlattenRows
<1>3. <<1>> \in Seq(1..n) /\ rest \in Seq(1..n)
  OBVIOUS
<1>4. all = <<1>> \o rest
  OBVIOUS
<1> HIDE DEF all, rest
<1> DEFINE one == <<1>>
<1>5. one \in Seq(1..n)
  BY <1>3
<1>6. FlatMap(ss, one) = ss[1]
  <2>1. IsSeq(ss[1])
    BY DEF AreRows
  <2> QED
    BY <2>1, FlatMapSingle
<1> HIDE DEF one
<1>7. FlatMap(ss, one \o rest) = FlatMap(ss, one) \o FlatMap(ss, rest)
  BY <1>2, <1>3, <1>5, FlatMapConcat
<1>8. PICK a \in Seq(S), b \in Seq(S) : a = ss[1] /\ b = FlatMap(ss, rest)
  <2>1. ss[1] \in Seq(S)
    BY <1>1 DEF Rows
  <2>2. FlatMap(ss, rest) \in Seq(S)
    BY <1>2, <1>3, FlatMapType
  <2> QED
    BY <2>1, <2>2
<1>9. a # << >> => a \o b # << >> /\ (a \o b)[1] = a[1]
  OBVIOUS
<1>10. FlattenSeq(ss) = a \o b
  BY <1>2, <1>4, <1>6, <1>7, <1>8, Zenon DEF one
<1> QED
  BY <1>8, <1>9, <1>10

\* What is left beside the calls.
LEMMA BesideCallsOfType ==
    ASSUME NEW s, IsSeq(s), NEW t, t # "tool_call"
    PROVE  OfType(BesideCalls(s), t) = OfType(s, t) /\ IsSeq(BesideCalls(s))
<1> DEFINE S == ToSet(s)
           b == [x \in S |-> IF x.type = "tool_call" THEN << >> ELSE <<x>>]
           w == [x \in S |-> FlatMap(Only(S, t), b[x])]
<1>1. s \in Seq(S) /\ \A k \in DOMAIN s : s[k] \in S
  BY DEF IsSeq, ToSet
<1>2. Maps(b, S, S)
  BY DEF Maps
<1>3. BesideCalls(s) = FlatMap(b, s)
  <2>1. [i \in DOMAIN s |-> IF s[i].type = "tool_call" THEN << >> ELSE <<s[i]>>]
            = [i \in DOMAIN s |-> b[s[i]]]
    BY <1>1
  <2> QED
    BY <2>1, Zenon DEF BesideCalls, FlatMap
<1>4. \A x \in S : w[x] = Only(S, t)[x]
  <2> SUFFICES ASSUME NEW x \in S PROVE FlatMap(Only(S, t), b[x]) = Only(S, t)[x]
    BY Zenon
  <2>1. Only(S, t)[x] = IF x.type = t THEN <<x>> ELSE << >>
    BY DEF Only
  <2>2. IsSeq(<<x>>) /\ IsSeq(<< >>)
    BY DEF IsSeq, ToSet
  <2>3. IsSeq(Only(S, t)[x])
    BY <2>1, <2>2
  <2>4. FlatMap(Only(S, t), <<x>>) = Only(S, t)[x]
    BY <2>3, FlatMapSingle
  <2>5. b[x] = IF x.type = "tool_call" THEN << >> ELSE <<x>>
    OBVIOUS
  <2> HIDE DEF b, S
  <2> QED
    BY <2>1, <2>4, <2>5, FlatMapEmpty
<1>5. Maps(Only(S, t), S, S) /\ OfType(s, t) = FlatMap(Only(S, t), s)
  BY <1>1, OfTypeIs
<1> HIDE DEF b, S
<1>6. FlatMap(b, s) \in Seq(S)
  BY <1>1, <1>2, FlatMapType
<1>7. OfType(FlatMap(b, s), t) = FlatMap(Only(S, t), FlatMap(b, s))
  BY <1>6, OfTypeIs
<1>8. FlatMap(Only(S, t), FlatMap(b, s)) = FlatMap(w, s)
  BY <1>1, <1>2, <1>5, FlatMapTwice
<1> HIDE DEF w
<1>9. FlatMap(w, s) = FlatMap(Only(S, t), s)
  <2>1. \A k \in DOMAIN s : w[s[k]] = Only(S, t)[s[k]]
    BY <1>1, <1>4
  <2> QED
    BY <2>1, FlatMapSame
<1> QED
  BY <1>3, <1>5, <1>6, <1>7, <1>8, <1>9, IsSeqOf

-----------------------------------------------------------------------------
(***************************************************************************)
(* Each protocol's module has its own copy of the IR's definitions: what a *)
(* translator validates is what Conversation calls valid.                  *)
(***************************************************************************)
\* The operators on sequences are the same for every translator.
LEMMA ChatSequences ==
    ASSUME NEW s, NEW t
    PROVE  /\ Chat!FlattenSeq(s) = FlattenSeq(s) /\ Chat!ToSet(s) = ToSet(s)
           /\ Chat!OfType(s, t) = OfType(s, t) /\ Chat!Contents(s) = Contents(s)
           /\ Chat!BesideCalls(s) = BesideCalls(s) /\ Chat!AfterSystem(s) = AfterSystem(s)
<1>1. ASSUME NEW u PROVE Chat!FlattenSeq(u) = FlattenSeq(u)
  BY DEF FlattenSeq, Chat!FlattenSeq
<1>2. Chat!ToSet(s) = ToSet(s)
  BY DEF ToSet, Chat!ToSet
<1>3. Chat!OfType(s, t) = OfType(s, t)
  BY <1>1 DEF OfType, Chat!OfType
<1>4. Chat!Contents(s) = Contents(s)
  BY <1>1 DEF Contents, Chat!Contents
<1>5. Chat!BesideCalls(s) = BesideCalls(s)
  BY <1>1 DEF BesideCalls, Chat!BesideCalls
<1>6. Chat!AfterSystem(s) = AfterSystem(s)
  BY <1>1 DEF AfterSystem, Chat!AfterSystem
<1> QED
  BY <1>1, <1>2, <1>3, <1>4, <1>5, <1>6

\* The same for OpenAI Responses.
LEMMA ResponsesSequences ==
    ASSUME NEW s, NEW t
    PROVE  /\ Responses!FlattenSeq(s) = FlattenSeq(s) /\ Responses!ToSet(s) = ToSet(s)
           /\ Responses!OfType(s, t) = OfType(s, t) /\ Responses!Contents(s) = Contents(s)
           /\ Responses!BesideCalls(s) = BesideCalls(s) /\ Responses!AfterSystem(s) = AfterSystem(s)
<1>1. ASSUME NEW u PROVE Responses!FlattenSeq(u) = FlattenSeq(u)
  BY DEF FlattenSeq, Responses!FlattenSeq
<1>2. Responses!ToSet(s) = ToSet(s)
  BY DEF ToSet, Responses!ToSet
<1>3. Responses!OfType(s, t) = OfType(s, t)
  BY <1>1 DEF OfType, Responses!OfType
<1>4. Responses!Contents(s) = Contents(s)
  BY <1>1 DEF Contents, Responses!Contents
<1>5. Responses!BesideCalls(s) = BesideCalls(s)
  BY <1>1 DEF BesideCalls, Responses!BesideCalls
<1>6. Responses!AfterSystem(s) = AfterSystem(s)
  BY <1>1 DEF AfterSystem, Responses!AfterSystem
<1> QED
  BY <1>1, <1>2, <1>3, <1>4, <1>5, <1>6

\* The same for Anthropic.
LEMMA MessagesSequences ==
    ASSUME NEW s, NEW t
    PROVE  /\ Messages!FlattenSeq(s) = FlattenSeq(s) /\ Messages!ToSet(s) = ToSet(s)
           /\ Messages!OfType(s, t) = OfType(s, t) /\ Messages!Contents(s) = Contents(s)
           /\ Messages!BesideCalls(s) = BesideCalls(s) /\ Messages!AfterSystem(s) = AfterSystem(s)
<1>1. ASSUME NEW u PROVE Messages!FlattenSeq(u) = FlattenSeq(u)
  BY DEF FlattenSeq, Messages!FlattenSeq
<1>2. Messages!ToSet(s) = ToSet(s)
  BY DEF ToSet, Messages!ToSet
<1>3. Messages!OfType(s, t) = OfType(s, t)
  BY <1>1 DEF OfType, Messages!OfType
<1>4. Messages!Contents(s) = Contents(s)
  BY <1>1 DEF Contents, Messages!Contents
<1>5. Messages!BesideCalls(s) = BesideCalls(s)
  BY <1>1 DEF BesideCalls, Messages!BesideCalls
<1>6. Messages!AfterSystem(s) = AfterSystem(s)
  BY <1>1 DEF AfterSystem, Messages!AfterSystem
<1> QED
  BY <1>1, <1>2, <1>3, <1>4, <1>5, <1>6

\* The same for Gemini.
LEMMA ContentSequences ==
    ASSUME NEW s, NEW t
    PROVE  /\ Content!FlattenSeq(s) = FlattenSeq(s) /\ Content!ToSet(s) = ToSet(s)
           /\ Content!OfType(s, t) = OfType(s, t) /\ Content!Contents(s) = Contents(s)
           /\ Content!BesideCalls(s) = BesideCalls(s) /\ Content!AfterSystem(s) = AfterSystem(s)
<1>1. ASSUME NEW u PROVE Content!FlattenSeq(u) = FlattenSeq(u)
  BY DEF FlattenSeq, Content!FlattenSeq
<1>2. Content!ToSet(s) = ToSet(s)
  BY DEF ToSet, Content!ToSet
<1>3. Content!OfType(s, t) = OfType(s, t)
  BY <1>1 DEF OfType, Content!OfType
<1>4. Content!Contents(s) = Contents(s)
  BY <1>1 DEF Contents, Content!Contents
<1>5. Content!BesideCalls(s) = BesideCalls(s)
  BY <1>1 DEF BesideCalls, Content!BesideCalls
<1>6. Content!AfterSystem(s) = AfterSystem(s)
  BY <1>1 DEF AfterSystem, Content!AfterSystem
<1> QED
  BY <1>1, <1>2, <1>3, <1>4, <1>5, <1>6

\* Request.Validate and Response.Validate are the same for every translator.
LEMMA SameValidation ==
    ASSUME NEW r
    PROVE  /\ Chat!RequestValid(r) = RequestValid(r) /\ Chat!ResponseValid(r) = ResponseValid(r)
           /\ Responses!RequestValid(r) = RequestValid(r)
           /\ Responses!ResponseValid(r) = ResponseValid(r)
           /\ Messages!RequestValid(r) = RequestValid(r)
           /\ Messages!ResponseValid(r) = ResponseValid(r)
           /\ Content!RequestValid(r) = RequestValid(r)
           /\ Content!ResponseValid(r) = ResponseValid(r)
<1>1. Chat!RequestValid(r) = RequestValid(r) /\ Chat!ResponseValid(r) = ResponseValid(r)
  <2>1. ASSUME NEW c PROVE Chat!ContentValid(c) = ContentValid(c)
    BY DEF ContentValid, Chat!ContentValid, NoID, Chat!NoID, NoName, Chat!NoName,
           isJSONObject, Chat!isJSONObject, NoObject, Chat!NoObject
  <2>2. ASSUME NEW m PROVE Chat!MessageValid(m) = MessageValid(m)
    BY <2>1 DEF MessageValid, Chat!MessageValid, Allowed, Chat!Allowed
  <2>3. ASSUME NEW m PROVE Chat!SystemFirst(m) = SystemFirst(m)
    BY DEF SystemFirst, Chat!SystemFirst
  <2>4. ASSUME NEW m PROVE Chat!Contents(m) = Contents(m)
    BY ChatSequences
  <2>5. ASSUME NEW m PROVE Chat!CallsUnique(m) = CallsUnique(m)
    BY ChatSequences DEF CallsUnique, Chat!CallsUnique
  <2>6. ASSUME NEW m PROVE Chat!ResultsMatch(m) = ResultsMatch(m)
    BY <2>4 DEF ResultsMatch, Chat!ResultsMatch, NoName, Chat!NoName
  <2>7. ASSUME NEW t, NEW c PROVE Chat!ToolsValid(t, c) = ToolsValid(t, c)
    BY DEF ToolsValid, Chat!ToolsValid, NoToolChoice, Chat!NoToolChoice, NoName, Chat!NoName,
           Named, Chat!Named, ToSet, Chat!ToSet
  <2> QED
    BY <2>1, <2>2, <2>3, <2>5, <2>6, <2>7 DEF RequestValid, Chat!RequestValid, ResponseValid,
           Chat!ResponseValid
<1>2. Responses!RequestValid(r) = RequestValid(r) /\ Responses!ResponseValid(r) = ResponseValid(r)
  <2>1. ASSUME NEW c PROVE Responses!ContentValid(c) = ContentValid(c)
    BY DEF ContentValid, Responses!ContentValid, NoID, Responses!NoID, NoName,
           Responses!NoName, isJSONObject, Responses!isJSONObject, NoObject, Responses!NoObject
  <2>2. ASSUME NEW m PROVE Responses!MessageValid(m) = MessageValid(m)
    BY <2>1 DEF MessageValid, Responses!MessageValid, Allowed, Responses!Allowed
  <2>3. ASSUME NEW m PROVE Responses!SystemFirst(m) = SystemFirst(m)
    BY DEF SystemFirst, Responses!SystemFirst
  <2>4. ASSUME NEW m PROVE Responses!Contents(m) = Contents(m)
    BY ResponsesSequences
  <2>5. ASSUME NEW m PROVE Responses!CallsUnique(m) = CallsUnique(m)
    BY ResponsesSequences DEF CallsUnique, Responses!CallsUnique
  <2>6. ASSUME NEW m PROVE Responses!ResultsMatch(m) = ResultsMatch(m)
    BY <2>4 DEF ResultsMatch, Responses!ResultsMatch, NoName, Responses!NoName
  <2>7. ASSUME NEW t, NEW c PROVE Responses!ToolsValid(t, c) = ToolsValid(t, c)
    BY DEF ToolsValid, Responses!ToolsValid, NoToolChoice, Responses!NoToolChoice, NoName,
           Responses!NoName, Named, Responses!Named, ToSet, Responses!ToSet
  <2> QED
    BY <2>1, <2>2, <2>3, <2>5, <2>6, <2>7 DEF RequestValid, Responses!RequestValid,
           ResponseValid, Responses!ResponseValid
<1>3. Messages!RequestValid(r) = RequestValid(r) /\ Messages!ResponseValid(r) = ResponseValid(r)
  <2>1. ASSUME NEW c PROVE Messages!ContentValid(c) = ContentValid(c)
    BY DEF ContentValid, Messages!ContentValid, NoID, Messages!NoID, NoName, Messages!NoName,
           isJSONObject, Messages!isJSONObject, NoObject, Messages!NoObject
  <2>2. ASSUME NEW m PROVE Messages!MessageValid(m) = MessageValid(m)
    BY <2>1 DEF MessageValid, Messages!MessageValid, Allowed, Messages!Allowed
  <2>3. ASSUME NEW m PROVE Messages!SystemFirst(m) = SystemFirst(m)
    BY DEF SystemFirst, Messages!SystemFirst
  <2>4. ASSUME NEW m PROVE Messages!Contents(m) = Contents(m)
    BY MessagesSequences
  <2>5. ASSUME NEW m PROVE Messages!CallsUnique(m) = CallsUnique(m)
    BY MessagesSequences DEF CallsUnique, Messages!CallsUnique
  <2>6. ASSUME NEW m PROVE Messages!ResultsMatch(m) = ResultsMatch(m)
    BY <2>4 DEF ResultsMatch, Messages!ResultsMatch, NoName, Messages!NoName
  <2>7. ASSUME NEW t, NEW c PROVE Messages!ToolsValid(t, c) = ToolsValid(t, c)
    BY DEF ToolsValid, Messages!ToolsValid, NoToolChoice, Messages!NoToolChoice, NoName,
           Messages!NoName, Named, Messages!Named, ToSet, Messages!ToSet
  <2> QED
    BY <2>1, <2>2, <2>3, <2>5, <2>6, <2>7 DEF RequestValid, Messages!RequestValid,
           ResponseValid, Messages!ResponseValid
<1>4. Content!RequestValid(r) = RequestValid(r) /\ Content!ResponseValid(r) = ResponseValid(r)
  <2>1. ASSUME NEW c PROVE Content!ContentValid(c) = ContentValid(c)
    BY DEF ContentValid, Content!ContentValid, NoID, Content!NoID, NoName, Content!NoName,
           isJSONObject, Content!isJSONObject, NoObject, Content!NoObject
  <2>2. ASSUME NEW m PROVE Content!MessageValid(m) = MessageValid(m)
    BY <2>1 DEF MessageValid, Content!MessageValid, Allowed, Content!Allowed
  <2>3. ASSUME NEW m PROVE Content!SystemFirst(m) = SystemFirst(m)
    BY DEF SystemFirst, Content!SystemFirst
  <2>4. ASSUME NEW m PROVE Content!Contents(m) = Contents(m)
    BY ContentSequences
  <2>5. ASSUME NEW m PROVE Content!CallsUnique(m) = CallsUnique(m)
    BY ContentSequences DEF CallsUnique, Content!CallsUnique
  <2>6. ASSUME NEW m PROVE Content!ResultsMatch(m) = ResultsMatch(m)
    BY <2>4 DEF ResultsMatch, Content!ResultsMatch, NoName, Content!NoName
  <2>7. ASSUME NEW t, NEW c PROVE Content!ToolsValid(t, c) = ToolsValid(t, c)
    BY DEF ToolsValid, Content!ToolsValid, NoToolChoice, Content!NoToolChoice, NoName,
           Content!NoName, Named, Content!Named, ToSet, Content!ToSet
  <2> QED
    BY <2>1, <2>2, <2>3, <2>5, <2>6, <2>7 DEF RequestValid, Content!RequestValid,
           ResponseValid, Content!ResponseValid
<1> QED
  BY <1>1, <1>2, <1>3, <1>4

-----------------------------------------------------------------------------
(***************************************************************************)
(* The gateways: what they accept of a client is valid, and carries what   *)
(* the client demands.                                                     *)
(***************************************************************************)
ChoiceKept(choice, want) ==
    /\ choice.mode \in {"-", "auto", "none", "required", "named"}
    /\ choice.disableParallel \in BOOLEAN
    /\ Mode(choice.mode) = Mode(want.mode)
    /\ want.mode = "named" => choice.name = want.name
    /\ want.mode # "none" => choice.disableParallel = ~want.parallel

\* The IR request has the client's demands.
Demanded(ir, want) ==
    /\ ~want.extras
    /\ ir.tools = want.tools
    /\ ir.max = want.max
    /\ ir.stop = want.stop
    /\ want.tools # << >> => ChoiceKept(ir.choice, want)

\* A want has its fields.
LEMMA WantFields ==
    ASSUME NEW want \in Wants
    PROVE  /\ want.mode \in {"-", "auto", "none", "required", "named"}
           /\ want.name \in STRING
           /\ want.parallel \in BOOLEAN
           /\ want.max \in SUBSET Nat
           /\ want.stop \in BOOLEAN
BY DEF Wants

\* A choice of the mode and name of a want, with or without parallel calls.
LEMMA KeptParallel ==
    ASSUME NEW want, want.parallel, want.parallel \in BOOLEAN,
           NEW mode \in {"-", "auto", "none", "required", "named"}, NEW name,
           Mode(mode) = Mode(want.mode), want.mode = "named" => name = want.name,
           NEW choice, choice = [mode |-> mode, name |-> name, disableParallel |-> FALSE]
    PROVE  ChoiceKept(choice, want)
BY Zenon DEF ChoiceKept

\* A choice that disables parallel calls is the one that was demanded.
LEMMA KeptSingle ==
    ASSUME NEW want, ~want.parallel, want.parallel \in BOOLEAN,
           NEW mode \in {"-", "auto", "none", "required", "named"}, NEW name,
           Mode(mode) = Mode(want.mode), want.mode = "named" => name = want.name,
           NEW choice, choice = [mode |-> mode, name |-> name, disableParallel |-> TRUE]
    PROVE  ChoiceKept(choice, want)
BY Zenon DEF ChoiceKept

\* parallel_tool_calls = false makes an absent choice auto, and keeps others.
LEMMA ChatParallel ==
    ASSUME NEW ask, ask.parallel, NEW choice
    PROVE  Chat!WithParallel(choice, ask) = choice
BY DEF Chat!WithParallel

\* How a request without parallel calls changes the choice of the client.
LEMMA ChatSingle ==
    ASSUME NEW mode, mode # "-", NEW name, NEW ask, ~ask.parallel, ask.tools # << >>,
           NEW choice, choice = [mode |-> mode, name |-> name, disableParallel |-> FALSE]
    PROVE  Chat!WithParallel(choice, ask)
               = [mode |-> mode, name |-> name, disableParallel |-> TRUE]
BY Zenon DEF Chat!WithParallel

\* Without a choice it becomes auto.
LEMMA ChatSingleAuto ==
    ASSUME NEW name, NEW ask, ~ask.parallel, ask.tools # << >>,
           NEW choice, choice = [mode |-> "-", name |-> name, disableParallel |-> FALSE]
    PROVE  Chat!WithParallel(choice, ask)
               = [mode |-> "auto", name |-> name, disableParallel |-> TRUE]
BY Zenon DEF Chat!WithParallel

\* The choice of a client of the chat gateway, for all modes.
LEMMA ChatChoice ==
    ASSUME NEW want \in Wants, want.tools # << >>,
           NEW parsed, parsed = Chat!parseToolChoice(Chat!Spelled(want), want.tools), parsed.ok,
           NEW ask, ask.tools = want.tools, ask.parallel = want.parallel,
           NEW value, value = parsed.value,
           NEW choice, choice = Chat!WithParallel(value, ask)
    PROVE  ChoiceKept(choice, want)
<1> DEFINE spelled == Chat!Spelled(want)
<1>0. want.parallel \in BOOLEAN
  BY WantFields
<1>1. CASE want.mode = "-"
  <2>1. spelled.mode = "-" /\ spelled.name = "-"
    BY <1>1 DEF Chat!Spelled, Chat!NoName
  <2> HIDE DEF spelled
  <2>2. value = [mode |-> "-", name |-> "-", disableParallel |-> FALSE]
    BY <2>1, Zenon DEF spelled, Chat!parseToolChoice, Chat!AcceptIf, Chat!Accepted,
           Chat!Refused,
         Chat!NoToolChoice, Chat!ToolChoice, Chat!NoName
  <2>3. CASE want.parallel
    <3>1. choice = [mode |-> "-", name |-> "-", disableParallel |-> FALSE]
      BY <2>2, <2>3, ChatParallel, Zenon
    <3>2. Mode("-") = Mode(want.mode) /\ (want.mode = "named" => "-" = want.name)
      BY <1>1 DEF Mode
    <3> QED
      BY <1>0, <2>3, <3>1, <3>2, KeptParallel, Zenon
  <2>4. CASE ~want.parallel
    <3>1. choice = [mode |-> "auto", name |-> "-", disableParallel |-> TRUE]
      BY <2>2, <2>4, ChatSingleAuto, Zenon
    <3>2. Mode("auto") = Mode(want.mode) /\ (want.mode = "named" => "-" = want.name)
      BY <1>1 DEF Mode
    <3> QED
      BY <1>0, <2>4, <3>1, <3>2, KeptSingle, Zenon
  <2> QED
    BY <2>3, <2>4
<1>2. CASE want.mode = "auto"
  <2>1. spelled.mode = "auto" /\ spelled.name = "-"
    BY <1>2 DEF Chat!Spelled, Chat!NoName
  <2> HIDE DEF spelled
  <2>2. value = [mode |-> "auto", name |-> "-", disableParallel |-> FALSE]
    BY <2>1, Zenon DEF spelled, Chat!parseToolChoice, Chat!AcceptIf, Chat!Accepted,
           Chat!Refused,
         Chat!NoToolChoice, Chat!ToolChoice, Chat!NoName
  <2>3. CASE want.parallel
    <3>1. choice = [mode |-> "auto", name |-> "-", disableParallel |-> FALSE]
      BY <2>2, <2>3, ChatParallel, Zenon
    <3>2. Mode("auto") = Mode(want.mode) /\ (want.mode = "named" => "-" = want.name)
      BY <1>2 DEF Mode
    <3> QED
      BY <1>0, <2>3, <3>1, <3>2, KeptParallel, Zenon
  <2>4. CASE ~want.parallel
    <3>1. choice = [mode |-> "auto", name |-> "-", disableParallel |-> TRUE]
      BY <2>2, <2>4, ChatSingle, Zenon
    <3>2. Mode("auto") = Mode(want.mode) /\ (want.mode = "named" => "-" = want.name)
      BY <1>2 DEF Mode
    <3> QED
      BY <1>0, <2>4, <3>1, <3>2, KeptSingle, Zenon
  <2> QED
    BY <2>3, <2>4
<1>3. CASE want.mode = "none"
  <2>1. spelled.mode = "none" /\ spelled.name = "-"
    BY <1>3 DEF Chat!Spelled, Chat!NoName
  <2> HIDE DEF spelled
  <2>2. value = [mode |-> "none", name |-> "-", disableParallel |-> FALSE]
    BY <2>1, Zenon DEF spelled, Chat!parseToolChoice, Chat!AcceptIf, Chat!Accepted,
           Chat!Refused,
         Chat!NoToolChoice, Chat!ToolChoice, Chat!NoName
  <2>3. CASE want.parallel
    <3>1. choice = [mode |-> "none", name |-> "-", disableParallel |-> FALSE]
      BY <2>2, <2>3, ChatParallel, Zenon
    <3>2. Mode("none") = Mode(want.mode) /\ (want.mode = "named" => "-" = want.name)
      BY <1>3 DEF Mode
    <3> QED
      BY <1>0, <2>3, <3>1, <3>2, KeptParallel, Zenon
  <2>4. CASE ~want.parallel
    <3>1. choice = [mode |-> "none", name |-> "-", disableParallel |-> TRUE]
      BY <2>2, <2>4, ChatSingle, Zenon
    <3>2. Mode("none") = Mode(want.mode) /\ (want.mode = "named" => "-" = want.name)
      BY <1>3 DEF Mode
    <3> QED
      BY <1>0, <2>4, <3>1, <3>2, KeptSingle, Zenon
  <2> QED
    BY <2>3, <2>4
<1>4. CASE want.mode = "required"
  <2>1. spelled.mode = "required" /\ spelled.name = "-"
    BY <1>4 DEF Chat!Spelled, Chat!NoName
  <2> HIDE DEF spelled
  <2>2. value = [mode |-> "required", name |-> "-", disableParallel |-> FALSE]
    BY <2>1, Zenon DEF spelled, Chat!parseToolChoice, Chat!AcceptIf, Chat!Accepted,
           Chat!Refused,
         Chat!NoToolChoice, Chat!ToolChoice, Chat!NoName
  <2>3. CASE want.parallel
    <3>1. choice = [mode |-> "required", name |-> "-", disableParallel |-> FALSE]
      BY <2>2, <2>3, ChatParallel, Zenon
    <3>2. Mode("required") = Mode(want.mode) /\ (want.mode = "named" => "-" = want.name)
      BY <1>4 DEF Mode
    <3> QED
      BY <1>0, <2>3, <3>1, <3>2, KeptParallel, Zenon
  <2>4. CASE ~want.parallel
    <3>1. choice = [mode |-> "required", name |-> "-", disableParallel |-> TRUE]
      BY <2>2, <2>4, ChatSingle, Zenon
    <3>2. Mode("required") = Mode(want.mode) /\ (want.mode = "named" => "-" = want.name)
      BY <1>4 DEF Mode
    <3> QED
      BY <1>0, <2>4, <3>1, <3>2, KeptSingle, Zenon
  <2> QED
    BY <2>3, <2>4
<1>5. CASE want.mode = "named"
  <2>1. spelled.mode = "function" /\ spelled.name = want.name
    BY <1>5 DEF Chat!Spelled, Chat!NoName
  <2> HIDE DEF spelled
  <2>2. value = [mode |-> "named", name |-> want.name, disableParallel |-> FALSE]
    BY <2>1 DEF spelled, Chat!parseToolChoice, Chat!AcceptIf, Chat!Accepted, Chat!Refused,
         Chat!NoToolChoice, Chat!ToolChoice, Chat!NoName
  <2>3. CASE want.parallel
    <3>1. choice = [mode |-> "named", name |-> want.name, disableParallel |-> FALSE]
      BY <2>2, <2>3, ChatParallel, Zenon
    <3>2. Mode("named") = Mode(want.mode) /\ (want.mode = "named" => want.name = want.name)
      BY <1>5 DEF Mode
    <3> QED
      BY <1>0, <2>3, <3>1, <3>2, KeptParallel, Zenon
  <2>4. CASE ~want.parallel
    <3>1. choice = [mode |-> "named", name |-> want.name, disableParallel |-> TRUE]
      BY <2>2, <2>4, ChatSingle, Zenon
    <3>2. Mode("named") = Mode(want.mode) /\ (want.mode = "named" => want.name = want.name)
      BY <1>5 DEF Mode
    <3> QED
      BY <1>0, <2>4, <3>1, <3>2, KeptSingle, Zenon
  <2> QED
    BY <2>3, <2>4
<1> QED
  BY <1>1, <1>2, <1>3, <1>4, <1>5, WantFields

\* What the chat gateway dispatches.
LEMMA ChatGateway ==
    ASSUME NEW want \in Wants, NEW messages, NEW n, NEW model,
           Chat!ToIR(Chat!Ask(want, messages), n, model).ok
    PROVE  /\ RequestValid(Chat!ToIR(Chat!Ask(want, messages), n, model).value)
           /\ Demanded(Chat!ToIR(Chat!Ask(want, messages), n, model).value, want)
<1> DEFINE ask == Chat!Ask(want, messages)
           parsed == Chat!parseToolChoice(ask.choice, ask.tools)
           ir == Chat!ToIR(ask, n, model)
<1>1. ask.choice = Chat!Spelled(want) /\ ask.tools = want.tools /\ ask.max = want.max
  BY DEF Chat!Ask
<1>2. ir.ok
  OBVIOUS
<1>3. ask.extras = want.extras /\ ask.stop = want.stop /\ ask.parallel = want.parallel
  BY DEF Chat!Ask
<1> HIDE DEF ask
<1>4. ~ask.extras /\ parsed.ok
  BY <1>2 DEF Chat!ToIR, Chat!AcceptIf, Chat!Accepted, Chat!Refused
<1>5. Chat!RequestValid(ir.value)
  BY <1>2 DEF Chat!ToIR, Chat!AcceptIf, Chat!Accepted, Chat!Refused
<1>6. ir.value.tools = ask.tools /\ ir.value.max = ask.max
  BY <1>2 DEF Chat!ToIR, Chat!AcceptIf, Chat!Accepted, Chat!Refused
<1>7. ir.value.stop = ask.stop
  BY <1>2 DEF Chat!ToIR, Chat!AcceptIf, Chat!Accepted, Chat!Refused
<1>8. ir.value.choice = Chat!WithParallel(parsed.value, ask)
  BY <1>2 DEF Chat!ToIR, Chat!AcceptIf, Chat!Accepted, Chat!Refused
<1>9. parsed = Chat!parseToolChoice(Chat!Spelled(want), want.tools)
  BY <1>1
<1> HIDE DEF ir, parsed
<1>10. want.tools # << >> => ChoiceKept(ir.value.choice, want)
  BY <1>1, <1>3, <1>4, <1>8, <1>9, ChatChoice, Zenon
<1>11. ~want.extras
  BY <1>3, <1>4
<1>12. ir.value.stop = want.stop
  BY <1>3, <1>7, WantFields
<1>13. Demanded(ir.value, want)
  BY <1>1, <1>6, <1>10, <1>11, <1>12, Zenon DEF Demanded
<1> QED
  BY <1>5, <1>13, SameValidation DEF ask, ir

\* parallel_tool_calls = false makes an absent choice auto, and keeps others.
LEMMA ResponsesParallel ==
    ASSUME NEW ask, ask.parallel, NEW choice
    PROVE  Responses!WithParallel(choice, ask) = choice
BY DEF Responses!WithParallel

\* How a request without parallel calls changes the choice of the client.
LEMMA ResponsesSingle ==
    ASSUME NEW mode, mode # "-", NEW name, NEW ask, ~ask.parallel, ask.tools # << >>,
           NEW choice, choice = [mode |-> mode, name |-> name, disableParallel |-> FALSE]
    PROVE  Responses!WithParallel(choice, ask)
               = [mode |-> mode, name |-> name, disableParallel |-> TRUE]
BY Zenon DEF Responses!WithParallel

\* Without a choice it becomes auto.
LEMMA ResponsesSingleAuto ==
    ASSUME NEW name, NEW ask, ~ask.parallel, ask.tools # << >>,
           NEW choice, choice = [mode |-> "-", name |-> name, disableParallel |-> FALSE]
    PROVE  Responses!WithParallel(choice, ask)
               = [mode |-> "auto", name |-> name, disableParallel |-> TRUE]
BY Zenon DEF Responses!WithParallel

\* The choice of a client of the responses gateway, for all modes.
LEMMA ResponsesChoice ==
    ASSUME NEW want \in Wants, want.tools # << >>,
           NEW parsed, parsed = Responses!parseToolChoice(Responses!Spelled(want), want.tools), parsed.ok,
           NEW ask, ask.tools = want.tools, ask.parallel = want.parallel,
           NEW value, value = parsed.value,
           NEW choice, choice = Responses!WithParallel(value, ask)
    PROVE  ChoiceKept(choice, want)
<1> DEFINE spelled == Responses!Spelled(want)
<1>0. want.parallel \in BOOLEAN
  BY WantFields
<1>1. CASE want.mode = "-"
  <2>1. spelled.mode = "-" /\ spelled.name = "-"
    BY <1>1 DEF Responses!Spelled, Responses!NoName
  <2> HIDE DEF spelled
  <2>2. value = [mode |-> "-", name |-> "-", disableParallel |-> FALSE]
    BY <2>1, Zenon DEF spelled, Responses!parseToolChoice, Responses!AcceptIf,
           Responses!Accepted,
           Responses!Refused,
         Responses!NoToolChoice, Responses!ToolChoice, Responses!NoName
  <2>3. CASE want.parallel
    <3>1. choice = [mode |-> "-", name |-> "-", disableParallel |-> FALSE]
      BY <2>2, <2>3, ResponsesParallel, Zenon
    <3>2. Mode("-") = Mode(want.mode) /\ (want.mode = "named" => "-" = want.name)
      BY <1>1 DEF Mode
    <3> QED
      BY <1>0, <2>3, <3>1, <3>2, KeptParallel, Zenon
  <2>4. CASE ~want.parallel
    <3>1. choice = [mode |-> "auto", name |-> "-", disableParallel |-> TRUE]
      BY <2>2, <2>4, ResponsesSingleAuto, Zenon
    <3>2. Mode("auto") = Mode(want.mode) /\ (want.mode = "named" => "-" = want.name)
      BY <1>1 DEF Mode
    <3> QED
      BY <1>0, <2>4, <3>1, <3>2, KeptSingle, Zenon
  <2> QED
    BY <2>3, <2>4
<1>2. CASE want.mode = "auto"
  <2>1. spelled.mode = "auto" /\ spelled.name = "-"
    BY <1>2 DEF Responses!Spelled, Responses!NoName
  <2> HIDE DEF spelled
  <2>2. value = [mode |-> "auto", name |-> "-", disableParallel |-> FALSE]
    BY <2>1, Zenon DEF spelled, Responses!parseToolChoice, Responses!AcceptIf,
           Responses!Accepted,
           Responses!Refused,
         Responses!NoToolChoice, Responses!ToolChoice, Responses!NoName
  <2>3. CASE want.parallel
    <3>1. choice = [mode |-> "auto", name |-> "-", disableParallel |-> FALSE]
      BY <2>2, <2>3, ResponsesParallel, Zenon
    <3>2. Mode("auto") = Mode(want.mode) /\ (want.mode = "named" => "-" = want.name)
      BY <1>2 DEF Mode
    <3> QED
      BY <1>0, <2>3, <3>1, <3>2, KeptParallel, Zenon
  <2>4. CASE ~want.parallel
    <3>1. choice = [mode |-> "auto", name |-> "-", disableParallel |-> TRUE]
      BY <2>2, <2>4, ResponsesSingle, Zenon
    <3>2. Mode("auto") = Mode(want.mode) /\ (want.mode = "named" => "-" = want.name)
      BY <1>2 DEF Mode
    <3> QED
      BY <1>0, <2>4, <3>1, <3>2, KeptSingle, Zenon
  <2> QED
    BY <2>3, <2>4
<1>3. CASE want.mode = "none"
  <2>1. spelled.mode = "none" /\ spelled.name = "-"
    BY <1>3 DEF Responses!Spelled, Responses!NoName
  <2> HIDE DEF spelled
  <2>2. value = [mode |-> "none", name |-> "-", disableParallel |-> FALSE]
    BY <2>1, Zenon DEF spelled, Responses!parseToolChoice, Responses!AcceptIf,
           Responses!Accepted,
           Responses!Refused,
         Responses!NoToolChoice, Responses!ToolChoice, Responses!NoName
  <2>3. CASE want.parallel
    <3>1. choice = [mode |-> "none", name |-> "-", disableParallel |-> FALSE]
      BY <2>2, <2>3, ResponsesParallel, Zenon
    <3>2. Mode("none") = Mode(want.mode) /\ (want.mode = "named" => "-" = want.name)
      BY <1>3 DEF Mode
    <3> QED
      BY <1>0, <2>3, <3>1, <3>2, KeptParallel, Zenon
  <2>4. CASE ~want.parallel
    <3>1. choice = [mode |-> "none", name |-> "-", disableParallel |-> TRUE]
      BY <2>2, <2>4, ResponsesSingle, Zenon
    <3>2. Mode("none") = Mode(want.mode) /\ (want.mode = "named" => "-" = want.name)
      BY <1>3 DEF Mode
    <3> QED
      BY <1>0, <2>4, <3>1, <3>2, KeptSingle, Zenon
  <2> QED
    BY <2>3, <2>4
<1>4. CASE want.mode = "required"
  <2>1. spelled.mode = "required" /\ spelled.name = "-"
    BY <1>4 DEF Responses!Spelled, Responses!NoName
  <2> HIDE DEF spelled
  <2>2. value = [mode |-> "required", name |-> "-", disableParallel |-> FALSE]
    BY <2>1, Zenon DEF spelled, Responses!parseToolChoice, Responses!AcceptIf,
           Responses!Accepted,
           Responses!Refused,
         Responses!NoToolChoice, Responses!ToolChoice, Responses!NoName
  <2>3. CASE want.parallel
    <3>1. choice = [mode |-> "required", name |-> "-", disableParallel |-> FALSE]
      BY <2>2, <2>3, ResponsesParallel, Zenon
    <3>2. Mode("required") = Mode(want.mode) /\ (want.mode = "named" => "-" = want.name)
      BY <1>4 DEF Mode
    <3> QED
      BY <1>0, <2>3, <3>1, <3>2, KeptParallel, Zenon
  <2>4. CASE ~want.parallel
    <3>1. choice = [mode |-> "required", name |-> "-", disableParallel |-> TRUE]
      BY <2>2, <2>4, ResponsesSingle, Zenon
    <3>2. Mode("required") = Mode(want.mode) /\ (want.mode = "named" => "-" = want.name)
      BY <1>4 DEF Mode
    <3> QED
      BY <1>0, <2>4, <3>1, <3>2, KeptSingle, Zenon
  <2> QED
    BY <2>3, <2>4
<1>5. CASE want.mode = "named"
  <2>1. spelled.mode = "function" /\ spelled.name = want.name
    BY <1>5 DEF Responses!Spelled, Responses!NoName
  <2> HIDE DEF spelled
  <2>2. value = [mode |-> "named", name |-> want.name, disableParallel |-> FALSE]
    BY <2>1 DEF spelled, Responses!parseToolChoice, Responses!AcceptIf, Responses!Accepted,
           Responses!Refused,
         Responses!NoToolChoice, Responses!ToolChoice, Responses!NoName
  <2>3. CASE want.parallel
    <3>1. choice = [mode |-> "named", name |-> want.name, disableParallel |-> FALSE]
      BY <2>2, <2>3, ResponsesParallel, Zenon
    <3>2. Mode("named") = Mode(want.mode) /\ (want.mode = "named" => want.name = want.name)
      BY <1>5 DEF Mode
    <3> QED
      BY <1>0, <2>3, <3>1, <3>2, KeptParallel, Zenon
  <2>4. CASE ~want.parallel
    <3>1. choice = [mode |-> "named", name |-> want.name, disableParallel |-> TRUE]
      BY <2>2, <2>4, ResponsesSingle, Zenon
    <3>2. Mode("named") = Mode(want.mode) /\ (want.mode = "named" => want.name = want.name)
      BY <1>5 DEF Mode
    <3> QED
      BY <1>0, <2>4, <3>1, <3>2, KeptSingle, Zenon
  <2> QED
    BY <2>3, <2>4
<1> QED
  BY <1>1, <1>2, <1>3, <1>4, <1>5, WantFields

\* What the responses gateway dispatches.
LEMMA ResponsesGateway ==
    ASSUME NEW want \in Wants, ~want.stop, NEW messages, NEW n, NEW model,
           Responses!ToIR(Responses!Ask(want, messages), n, model).ok
    PROVE  /\ RequestValid(Responses!ToIR(Responses!Ask(want, messages), n, model).value)
           /\ Demanded(Responses!ToIR(Responses!Ask(want, messages), n, model).value, want)
<1> DEFINE ask == Responses!Ask(want, messages)
           parsed == Responses!parseToolChoice(ask.choice, ask.tools)
           ir == Responses!ToIR(ask, n, model)
<1>1. ask.choice = Responses!Spelled(want) /\ ask.tools = want.tools /\ ask.max = want.max
  BY DEF Responses!Ask
<1>2. ir.ok
  OBVIOUS
<1>3. ask.extras = want.extras /\ ask.parallel = want.parallel
  BY DEF Responses!Ask
<1> HIDE DEF ask
<1>4. ~ask.extras /\ parsed.ok
  BY <1>2 DEF Responses!ToIR, Responses!AcceptIf, Responses!Accepted, Responses!Refused
<1>5. Responses!RequestValid(ir.value)
  BY <1>2 DEF Responses!ToIR, Responses!AcceptIf, Responses!Accepted, Responses!Refused
<1>6. ir.value.tools = ask.tools /\ ir.value.max = ask.max
  BY <1>2 DEF Responses!ToIR, Responses!AcceptIf, Responses!Accepted, Responses!Refused
<1>7. ir.value.stop = FALSE
  BY <1>2 DEF Responses!ToIR, Responses!AcceptIf, Responses!Accepted, Responses!Refused
<1>8. ir.value.choice = Responses!WithParallel(parsed.value, ask)
  BY <1>2 DEF Responses!ToIR, Responses!AcceptIf, Responses!Accepted, Responses!Refused
<1>9. parsed = Responses!parseToolChoice(Responses!Spelled(want), want.tools)
  BY <1>1
<1> HIDE DEF ir, parsed
<1>10. want.tools # << >> => ChoiceKept(ir.value.choice, want)
  BY <1>1, <1>3, <1>4, <1>8, <1>9, ResponsesChoice, Zenon
<1>11. ~want.extras
  BY <1>3, <1>4
<1>12. ir.value.stop = want.stop
  BY <1>3, <1>7, WantFields, Zenon
<1>13. Demanded(ir.value, want)
  BY <1>1, <1>6, <1>10, <1>11, <1>12, Zenon DEF Demanded
<1> QED
  BY <1>5, <1>13, SameValidation DEF ask, ir

\* The choice of a client of the anthropic gateway, for all modes.
LEMMA AnthropicChoice ==
    ASSUME NEW want \in Wants, want.tools # << >>,
           NEW parsed, parsed = Messages!ChoiceToIR(Messages!Spelled(want), want.tools), parsed.ok,
           NEW choice, choice = parsed.value
    PROVE  ChoiceKept(choice, want)
<1> DEFINE spelled == Messages!Spelled(want)
<1>0. want.parallel \in BOOLEAN
  BY WantFields
<1>1. CASE want.mode = "-"
  <2>1. CASE want.parallel
    <3>1. /\ spelled.type = "-"
          /\ spelled.name = "-"
          /\ spelled.disableParallel = FALSE
      BY <1>1, <2>1, Zenon DEF Messages!Spelled, Messages!NoName
    <3> HIDE DEF spelled
    <3>2. choice = [mode |-> "-", name |-> "-", disableParallel |-> FALSE]
      BY <3>1, Zenon DEF spelled, Messages!ChoiceToIR, Messages!AcceptIf, Messages!Accepted,
             Messages!Refused,
         Messages!NoToolChoice, Messages!ToolChoice, Messages!NoName
    <3>3. Mode("-") = Mode(want.mode) /\ (want.mode = "named" => "-" = want.name)
      BY <1>1 DEF Mode
    <3> QED
      BY <1>0, <2>1, <3>2, <3>3, KeptParallel, Zenon
  <2>2. CASE ~want.parallel
    <3>1. /\ spelled.type = "auto"
          /\ spelled.name = "-"
          /\ spelled.disableParallel = TRUE
      BY <1>1, <2>2, Zenon DEF Messages!Spelled, Messages!NoName
    <3> HIDE DEF spelled
    <3>2. choice = [mode |-> "auto", name |-> "-", disableParallel |-> TRUE]
      BY <3>1, Zenon DEF spelled, Messages!ChoiceToIR, Messages!AcceptIf, Messages!Accepted,
             Messages!Refused,
         Messages!NoToolChoice, Messages!ToolChoice, Messages!NoName
    <3>3. Mode("auto") = Mode(want.mode) /\ (want.mode = "named" => "-" = want.name)
      BY <1>1 DEF Mode
    <3> QED
      BY <1>0, <2>2, <3>2, <3>3, KeptSingle, Zenon
  <2> QED
    BY <2>1, <2>2, WantFields
<1>2. CASE want.mode = "auto"
  <2>1. CASE want.parallel
    <3>1. /\ spelled.type = "auto"
          /\ spelled.name = "-"
          /\ spelled.disableParallel = FALSE
      BY <1>2, <2>1, Zenon DEF Messages!Spelled, Messages!NoName
    <3> HIDE DEF spelled
    <3>2. choice = [mode |-> "auto", name |-> "-", disableParallel |-> FALSE]
      BY <3>1, Zenon DEF spelled, Messages!ChoiceToIR, Messages!AcceptIf, Messages!Accepted,
             Messages!Refused,
         Messages!NoToolChoice, Messages!ToolChoice, Messages!NoName
    <3>3. Mode("auto") = Mode(want.mode) /\ (want.mode = "named" => "-" = want.name)
      BY <1>2 DEF Mode
    <3> QED
      BY <1>0, <2>1, <3>2, <3>3, KeptParallel, Zenon
  <2>2. CASE ~want.parallel
    <3>1. /\ spelled.type = "auto"
          /\ spelled.name = "-"
          /\ spelled.disableParallel = TRUE
      BY <1>2, <2>2, Zenon DEF Messages!Spelled, Messages!NoName
    <3> HIDE DEF spelled
    <3>2. choice = [mode |-> "auto", name |-> "-", disableParallel |-> TRUE]
      BY <3>1, Zenon DEF spelled, Messages!ChoiceToIR, Messages!AcceptIf, Messages!Accepted,
             Messages!Refused,
         Messages!NoToolChoice, Messages!ToolChoice, Messages!NoName
    <3>3. Mode("auto") = Mode(want.mode) /\ (want.mode = "named" => "-" = want.name)
      BY <1>2 DEF Mode
    <3> QED
      BY <1>0, <2>2, <3>2, <3>3, KeptSingle, Zenon
  <2> QED
    BY <2>1, <2>2, WantFields
<1>3. CASE want.mode = "none"
  <2>1. CASE want.parallel
    <3>1. /\ spelled.type = "none"
          /\ spelled.name = "-"
          /\ spelled.disableParallel = FALSE
      BY <1>3, <2>1, Zenon DEF Messages!Spelled, Messages!NoName
    <3> HIDE DEF spelled
    <3>2. choice = [mode |-> "none", name |-> "-", disableParallel |-> FALSE]
      BY <3>1 DEF spelled, Messages!ChoiceToIR, Messages!AcceptIf, Messages!Accepted,
             Messages!Refused,
         Messages!NoToolChoice, Messages!ToolChoice, Messages!NoName
    <3>3. Mode("none") = Mode(want.mode) /\ (want.mode = "named" => "-" = want.name)
      BY <1>3 DEF Mode
    <3> QED
      BY <1>0, <2>1, <3>2, <3>3, KeptParallel, Zenon
  <2>2. CASE ~want.parallel
    <3>1. /\ spelled.type = "none"
          /\ spelled.name = "-"
          /\ spelled.disableParallel = TRUE
      BY <1>3, <2>2, Zenon DEF Messages!Spelled, Messages!NoName
    <3> HIDE DEF spelled
    <3>2. FALSE
      BY <3>1 DEF spelled, Messages!ChoiceToIR, Messages!AcceptIf, Messages!Accepted,
             Messages!Refused,
         Messages!NoToolChoice, Messages!ToolChoice, Messages!NoName
    <3>3. Mode("none") = Mode(want.mode) /\ (want.mode = "named" => "-" = want.name)
      BY <1>3 DEF Mode
    <3> QED
      BY <1>0, <2>2, <3>2, <3>3, KeptSingle, Zenon
  <2> QED
    BY <2>1, <2>2, WantFields
<1>4. CASE want.mode = "required"
  <2>1. CASE want.parallel
    <3>1. /\ spelled.type = "any"
          /\ spelled.name = "-"
          /\ spelled.disableParallel = FALSE
      BY <1>4, <2>1, Zenon DEF Messages!Spelled, Messages!NoName
    <3> HIDE DEF spelled
    <3>2. choice = [mode |-> "required", name |-> "-", disableParallel |-> FALSE]
      BY <3>1, Zenon DEF spelled, Messages!ChoiceToIR, Messages!AcceptIf, Messages!Accepted,
             Messages!Refused,
         Messages!NoToolChoice, Messages!ToolChoice, Messages!NoName
    <3>3. Mode("required") = Mode(want.mode) /\ (want.mode = "named" => "-" = want.name)
      BY <1>4 DEF Mode
    <3> QED
      BY <1>0, <2>1, <3>2, <3>3, KeptParallel, Zenon
  <2>2. CASE ~want.parallel
    <3>1. /\ spelled.type = "any"
          /\ spelled.name = "-"
          /\ spelled.disableParallel = TRUE
      BY <1>4, <2>2, Zenon DEF Messages!Spelled, Messages!NoName
    <3> HIDE DEF spelled
    <3>2. choice = [mode |-> "required", name |-> "-", disableParallel |-> TRUE]
      BY <3>1, Zenon DEF spelled, Messages!ChoiceToIR, Messages!AcceptIf, Messages!Accepted,
             Messages!Refused,
         Messages!NoToolChoice, Messages!ToolChoice, Messages!NoName
    <3>3. Mode("required") = Mode(want.mode) /\ (want.mode = "named" => "-" = want.name)
      BY <1>4 DEF Mode
    <3> QED
      BY <1>0, <2>2, <3>2, <3>3, KeptSingle, Zenon
  <2> QED
    BY <2>1, <2>2, WantFields
<1>5. CASE want.mode = "named"
  <2>1. CASE want.parallel
    <3>1. /\ spelled.type = "tool"
          /\ spelled.name = want.name
          /\ spelled.disableParallel = FALSE
      BY <1>5, <2>1, Zenon DEF Messages!Spelled, Messages!NoName
    <3> HIDE DEF spelled
    <3>2. choice = [mode |-> "named", name |-> want.name, disableParallel |-> FALSE]
      BY <3>1, Zenon DEF spelled, Messages!ChoiceToIR, Messages!AcceptIf, Messages!Accepted,
             Messages!Refused,
         Messages!NoToolChoice, Messages!ToolChoice, Messages!NoName
    <3>3. Mode("named") = Mode(want.mode) /\ (want.mode = "named" => want.name = want.name)
      BY <1>5 DEF Mode
    <3> QED
      BY <1>0, <2>1, <3>2, <3>3, KeptParallel, Zenon
  <2>2. CASE ~want.parallel
    <3>1. /\ spelled.type = "tool"
          /\ spelled.name = want.name
          /\ spelled.disableParallel = TRUE
      BY <1>5, <2>2, Zenon DEF Messages!Spelled, Messages!NoName
    <3> HIDE DEF spelled
    <3>2. choice = [mode |-> "named", name |-> want.name, disableParallel |-> TRUE]
      BY <3>1, Zenon DEF spelled, Messages!ChoiceToIR, Messages!AcceptIf, Messages!Accepted,
             Messages!Refused,
         Messages!NoToolChoice, Messages!ToolChoice, Messages!NoName
    <3>3. Mode("named") = Mode(want.mode) /\ (want.mode = "named" => want.name = want.name)
      BY <1>5 DEF Mode
    <3> QED
      BY <1>0, <2>2, <3>2, <3>3, KeptSingle, Zenon
  <2> QED
    BY <2>1, <2>2, WantFields
<1> QED
  BY <1>1, <1>2, <1>3, <1>4, <1>5, WantFields

\* What the anthropic gateway dispatches.
LEMMA AnthropicGateway ==
    ASSUME NEW want \in Wants, NEW messages, NEW n, NEW model,
           Messages!ToIRRequest(Messages!Ask(want, messages), n, model).ok
    PROVE  /\ RequestValid(Messages!ToIRRequest(Messages!Ask(want, messages), n, model).value)
           /\ Demanded(Messages!ToIRRequest(Messages!Ask(want, messages), n, model).value, want)
<1> DEFINE ask == Messages!Ask(want, messages)
           parsed == Messages!ChoiceToIR(ask.choice, ask.tools)
           ir == Messages!ToIRRequest(ask, n, model)
<1>1. ask.choice = Messages!Spelled(want) /\ ask.tools = want.tools /\ ask.max = want.max
  BY DEF Messages!Ask
<1>2. ir.ok
  OBVIOUS
<1>3. ask.extras = want.extras /\ ask.stop = want.stop
  BY DEF Messages!Ask
<1> HIDE DEF ask
<1>4. ~ask.extras /\ parsed.ok
  BY <1>2 DEF Messages!ToIRRequest, Messages!AcceptIf, Messages!Accepted, Messages!Refused
<1>5. Messages!RequestValid(ir.value)
  BY <1>2 DEF Messages!ToIRRequest, Messages!AcceptIf, Messages!Accepted, Messages!Refused
<1>6. ir.value.tools = ask.tools /\ ir.value.max = ask.max
  BY <1>2 DEF Messages!ToIRRequest, Messages!AcceptIf, Messages!Accepted, Messages!Refused
<1>7. ir.value.stop = ask.stop
  BY <1>2 DEF Messages!ToIRRequest, Messages!AcceptIf, Messages!Accepted, Messages!Refused
<1>8. ir.value.choice = parsed.value
  BY <1>2 DEF Messages!ToIRRequest, Messages!AcceptIf, Messages!Accepted, Messages!Refused
<1>9. parsed = Messages!ChoiceToIR(Messages!Spelled(want), want.tools)
  BY <1>1
<1> HIDE DEF ir, parsed
<1>10. want.tools # << >> => ChoiceKept(ir.value.choice, want)
  BY <1>4, <1>8, <1>9, AnthropicChoice, Zenon
<1>11. ~want.extras
  BY <1>3, <1>4
<1>12. ir.value.stop = want.stop
  BY <1>3, <1>7, WantFields
<1>13. Demanded(ir.value, want)
  BY <1>1, <1>6, <1>10, <1>11, <1>12, Zenon DEF Demanded
<1> QED
  BY <1>5, <1>13, SameValidation DEF ask, ir

\* The choice of a client of the gemini gateway, for all modes.
LEMMA GeminiChoice ==
    ASSUME NEW want \in Wants, want.parallel, want.tools # << >>,
           NEW parsed, parsed = Content!ConfigToIR(Content!Spelled(want), want.tools), parsed.ok,
           NEW choice, choice = parsed.value
    PROVE  ChoiceKept(choice, want)
<1> DEFINE spelled == Content!Spelled(want)
<1>0. want.parallel \in BOOLEAN
  BY WantFields
<1>1. CASE want.mode = "-"
  <2>1. spelled.mode = "absent" /\ spelled.allowed = << >>
    BY <1>1 DEF Content!Spelled, Content!NoName
  <2> HIDE DEF spelled
  <2>2. choice = [mode |-> "-", name |-> "-", disableParallel |-> FALSE]
    BY <2>1, Zenon DEF spelled, Content!ConfigToIR, Content!AcceptIf, Content!Accepted,
           Content!Refused,
         Content!NoToolChoice, Content!ToolChoice, Content!NoName
  <2>3. Mode("-") = Mode(want.mode) /\ (want.mode = "named" => "-" = want.name)
    BY <1>1 DEF Mode
  <2> QED
    BY <1>0, <2>2, <2>3, KeptParallel, Zenon
<1>2. CASE want.mode = "auto"
  <2>1. spelled.mode = "AUTO" /\ spelled.allowed = << >>
    BY <1>2 DEF Content!Spelled, Content!NoName
  <2> HIDE DEF spelled
  <2>2. choice = [mode |-> "auto", name |-> "-", disableParallel |-> FALSE]
    BY <2>1, Zenon DEF spelled, Content!ConfigToIR, Content!AcceptIf, Content!Accepted,
           Content!Refused,
         Content!NoToolChoice, Content!ToolChoice, Content!NoName
  <2>3. Mode("auto") = Mode(want.mode) /\ (want.mode = "named" => "-" = want.name)
    BY <1>2 DEF Mode
  <2> QED
    BY <1>0, <2>2, <2>3, KeptParallel, Zenon
<1>3. CASE want.mode = "none"
  <2>1. spelled.mode = "NONE" /\ spelled.allowed = << >>
    BY <1>3 DEF Content!Spelled, Content!NoName
  <2> HIDE DEF spelled
  <2>2. choice = [mode |-> "none", name |-> "-", disableParallel |-> FALSE]
    BY <2>1, Zenon DEF spelled, Content!ConfigToIR, Content!AcceptIf, Content!Accepted,
           Content!Refused,
         Content!NoToolChoice, Content!ToolChoice, Content!NoName
  <2>3. Mode("none") = Mode(want.mode) /\ (want.mode = "named" => "-" = want.name)
    BY <1>3 DEF Mode
  <2> QED
    BY <1>0, <2>2, <2>3, KeptParallel, Zenon
<1>4. CASE want.mode = "required"
  <2>1. spelled.mode = "ANY" /\ spelled.allowed = << >>
    BY <1>4 DEF Content!Spelled, Content!NoName
  <2> HIDE DEF spelled
  <2>2. choice = [mode |-> "required", name |-> "-", disableParallel |-> FALSE]
    BY <2>1, Zenon DEF spelled, Content!ConfigToIR, Content!AcceptIf, Content!Accepted,
           Content!Refused,
         Content!NoToolChoice, Content!ToolChoice, Content!NoName
  <2>3. Mode("required") = Mode(want.mode) /\ (want.mode = "named" => "-" = want.name)
    BY <1>4 DEF Mode
  <2> QED
    BY <1>0, <2>2, <2>3, KeptParallel, Zenon
<1>5. CASE want.mode = "named"
  <2>1. spelled.mode = "ANY" /\ spelled.allowed = <<want.name>>
    BY <1>5 DEF Content!Spelled, Content!NoName
  <2> HIDE DEF spelled
  <2>2. choice = [mode |-> "named", name |-> want.name, disableParallel |-> FALSE]
    BY <2>1 DEF spelled, Content!ConfigToIR, Content!AcceptIf, Content!Accepted,
           Content!Refused,
         Content!NoToolChoice, Content!ToolChoice, Content!NoName
  <2>3. Mode("named") = Mode(want.mode) /\ (want.mode = "named" => want.name = want.name)
    BY <1>5 DEF Mode
  <2> QED
    BY <1>0, <2>2, <2>3, KeptParallel, Zenon
<1> QED
  BY <1>1, <1>2, <1>3, <1>4, <1>5, WantFields

\* What the gemini gateway dispatches.
LEMMA GeminiGateway ==
    ASSUME NEW want \in Wants, want.parallel, NEW messages, NEW n, NEW model,
           Content!ToIRRequest(Content!Ask(want, messages), n, model).ok
    PROVE  /\ RequestValid(Content!ToIRRequest(Content!Ask(want, messages), n, model).value)
           /\ Demanded(Content!ToIRRequest(Content!Ask(want, messages), n, model).value, want)
<1> DEFINE ask == Content!Ask(want, messages)
           parsed == Content!ConfigToIR(ask.config, ask.tools)
           ir == Content!ToIRRequest(ask, n, model)
<1>1. ask.config = Content!Spelled(want) /\ ask.tools = want.tools /\ ask.max = want.max
  BY DEF Content!Ask
<1>2. ir.ok
  OBVIOUS
<1>3. ask.extras = want.extras /\ ask.stop = want.stop
  BY DEF Content!Ask
<1> HIDE DEF ask
<1>4. ~ask.extras /\ parsed.ok
  BY <1>2 DEF Content!ToIRRequest, Content!AcceptIf, Content!Accepted, Content!Refused,
         Content!validateGenerationConfig
<1>5. Content!RequestValid(ir.value)
  BY <1>2 DEF Content!ToIRRequest, Content!AcceptIf, Content!Accepted, Content!Refused
<1>6. ir.value.tools = ask.tools /\ ir.value.max = ask.max
  BY <1>2 DEF Content!ToIRRequest, Content!AcceptIf, Content!Accepted, Content!Refused
<1>7. ir.value.stop = ask.stop
  BY <1>2 DEF Content!ToIRRequest, Content!AcceptIf, Content!Accepted, Content!Refused
<1>8. ir.value.choice = parsed.value
  BY <1>2 DEF Content!ToIRRequest, Content!AcceptIf, Content!Accepted, Content!Refused
<1>9. parsed = Content!ConfigToIR(Content!Spelled(want), want.tools)
  BY <1>1
<1> HIDE DEF ir, parsed
<1>10. want.tools # << >> => ChoiceKept(ir.value.choice, want)
  BY <1>4, <1>8, <1>9, GeminiChoice, Zenon
<1>11. ~want.extras
  BY <1>3, <1>4
<1>12. ir.value.stop = want.stop
  BY <1>3, <1>7, WantFields
<1>13. Demanded(ir.value, want)
  BY <1>1, <1>6, <1>10, <1>11, <1>12, Zenon DEF Demanded
<1> QED
  BY <1>5, <1>13, SameValidation DEF ask, ir

-----------------------------------------------------------------------------
(***************************************************************************)
(* The adapters: what the provider sees of the IR request.                 *)
(***************************************************************************)
Met(seen, want) ==
    /\ ~want.extras
    /\ seen.tools = want.tools
    /\ want.tools # << >> =>
          /\ Mode(seen.mode) = Mode(want.mode)
          /\ want.mode = "named" => seen.name = want.name
          /\ want.mode # "none" => seen.parallel = want.parallel
    /\ want.max # {} => seen.max = want.max
    /\ want.stop = seen.stop

\* The provider is asked for what the IR request demands.
Presented(ir, seen) ==
    /\ seen.tools = ir.tools
    /\ ir.max # {} => seen.max = ir.max
    /\ ir.stop \in BOOLEAN => seen.stop = ir.stop
    /\ (ir.choice.mode \in {"-", "auto", "none", "required", "named"}
        /\ ir.choice.disableParallel \in BOOLEAN) =>
          /\ Mode(seen.mode) = Mode(ir.choice.mode)
          /\ ir.choice.mode = "named" => seen.name = ir.choice.name
          /\ ir.choice.mode # "none" => seen.parallel = ~ir.choice.disableParallel

\* What is presented of a request that carries the demands meets them.
LEMMA PresentedMeets ==
    ASSUME NEW want \in Wants, NEW ir, Demanded(ir, want), NEW seen, Presented(ir, seen)
    PROVE  Met(seen, want)
<1>1. ~want.extras /\ seen.tools = want.tools /\ (want.max # {} => seen.max = want.max)
  BY DEF Demanded, Presented
<1>2. want.stop = seen.stop
  BY WantFields DEF Demanded, Presented
<1>3. ASSUME want.tools # << >>
      PROVE  /\ Mode(seen.mode) = Mode(want.mode)
             /\ want.mode = "named" => seen.name = want.name
             /\ want.mode # "none" => seen.parallel = want.parallel
  <2>1. ChoiceKept(ir.choice, want)
    BY <1>3 DEF Demanded
  <2>2. ir.choice.mode \in {"-", "auto", "none", "required", "named"}
        /\ ir.choice.disableParallel \in BOOLEAN
    BY <2>1 DEF ChoiceKept
  <2>3. /\ Mode(seen.mode) = Mode(ir.choice.mode)
        /\ ir.choice.mode = "named" => seen.name = ir.choice.name
    BY <2>2 DEF Presented
  <2>4. Mode(seen.mode) = Mode(want.mode)
    BY <2>1, <2>3 DEF ChoiceKept
  <2>5. want.mode = "named" => ir.choice.mode = "named"
    BY <2>1 DEF ChoiceKept, Mode
  <2>6. want.mode # "none" => ir.choice.mode # "none"
    BY <2>1, WantFields DEF ChoiceKept, Mode
  <2>7. want.mode = "named" => seen.name = want.name
    BY <2>1, <2>3, <2>5 DEF ChoiceKept
  <2>8. ASSUME want.mode # "none" PROVE seen.parallel = want.parallel
    <3>1. seen.parallel = ~ir.choice.disableParallel
      BY <2>2, <2>6, <2>8 DEF Presented
    <3>2. ir.choice.disableParallel = ~want.parallel
      BY <2>1, <2>8 DEF ChoiceKept
    <3>3. want.parallel \in BOOLEAN
      BY WantFields
    <3> QED
      BY <2>2, <3>1, <3>2, <3>3, Zenon
  <2> QED
    BY <2>4, <2>7, <2>8
<1> QED
  BY <1>1, <1>2, <1>3, Zenon DEF Met

\* What the chat provider sees.
LEMMA ChatAdapter ==
    ASSUME NEW ir, Chat!ToChatRequest(ir).ok,
           NEW sent, sent = Chat!ToChatRequest(ir).value,
           NEW seen, seen = Chat!Seen(sent)
    PROVE  Presented(ir, seen)
<1>1. sent.tools = ir.tools /\ sent.max = ir.max
  BY DEF Chat!ToChatRequest, Chat!AcceptIf, Chat!Accepted, Chat!Refused
<1>2. seen.tools = sent.tools /\ seen.max = sent.max
  BY DEF Chat!Seen
<1>3. sent.stop = ir.stop
  BY DEF Chat!ToChatRequest, Chat!AcceptIf, Chat!Accepted, Chat!Refused
<1>4. seen.stop = sent.stop
  BY DEF Chat!Seen
<1>5. seen.stop = ir.stop
  BY <1>3, <1>4
<1>6. sent.choice = IF ir.choice.mode = "named"
                    THEN [mode |-> "function", name |-> ir.choice.name]
                    ELSE [mode |-> ir.choice.mode, name |-> Chat!NoName]
  BY DEF Chat!ToChatRequest, Chat!AcceptIf, Chat!Accepted, Chat!Refused
<1>7. /\ seen.mode = (IF sent.choice.mode = "function" THEN "named" ELSE sent.choice.mode)
      /\ seen.name = sent.choice.name
  BY DEF Chat!Seen
<1>8. seen.parallel = ~ir.choice.disableParallel
  <2>1. sent.parallel = ~ir.choice.disableParallel
    BY DEF Chat!ToChatRequest, Chat!AcceptIf, Chat!Accepted, Chat!Refused
  <2>2. seen.parallel = sent.parallel
    BY DEF Chat!Seen
  <2> QED
    BY <2>1, <2>2
<1>9. ir.choice.mode \in {"-", "auto", "none", "required", "named"} =>
          seen.mode = ir.choice.mode /\ (ir.choice.mode = "named" => seen.name = ir.choice.name)
  BY <1>6, <1>7
<1> QED
  BY <1>1, <1>2, <1>5, <1>8, <1>9, Zenon DEF Presented

\* What the responses provider sees.
LEMMA ResponsesAdapter ==
    ASSUME NEW ir, Responses!ToProviderRequest(ir).ok,
           NEW sent, sent = Responses!ToProviderRequest(ir).value,
           NEW seen, seen = Responses!Seen(sent)
    PROVE  Presented(ir, seen)
<1>1. sent.tools = ir.tools /\ sent.max = ir.max
  BY DEF Responses!ToProviderRequest, Responses!AcceptIf, Responses!Accepted, Responses!Refused
<1>2. seen.tools = sent.tools /\ seen.max = sent.max
  BY DEF Responses!Seen
<1>3. ~ir.stop
  BY DEF Responses!ToProviderRequest, Responses!AcceptIf, Responses!Accepted, Responses!Refused
<1>4. seen.stop = FALSE
  BY DEF Responses!Seen
<1>5. ir.stop \in BOOLEAN => seen.stop = ir.stop
  BY <1>3, <1>4, Zenon
<1>6. sent.choice = IF ir.choice.mode = "named"
                    THEN [mode |-> "function", name |-> ir.choice.name]
                    ELSE [mode |-> ir.choice.mode, name |-> Responses!NoName]
  BY DEF Responses!ToProviderRequest, Responses!AcceptIf, Responses!Accepted,
         Responses!Refused, Responses!toolChoiceJSON
<1>7. /\ seen.mode = (IF sent.choice.mode = "function" THEN "named" ELSE sent.choice.mode)
      /\ seen.name = sent.choice.name
  BY DEF Responses!Seen
<1>8. seen.parallel = ~ir.choice.disableParallel
  <2>1. sent.parallel = ~ir.choice.disableParallel
    BY DEF Responses!ToProviderRequest, Responses!AcceptIf, Responses!Accepted,
           Responses!Refused
  <2>2. seen.parallel = sent.parallel
    BY DEF Responses!Seen
  <2> QED
    BY <2>1, <2>2
<1>9. ir.choice.mode \in {"-", "auto", "none", "required", "named"} =>
          seen.mode = ir.choice.mode /\ (ir.choice.mode = "named" => seen.name = ir.choice.name)
  BY <1>6, <1>7
<1> QED
  BY <1>1, <1>2, <1>5, <1>8, <1>9, Zenon DEF Presented

\* What the anthropic provider sees.
LEMMA AnthropicAdapter ==
    ASSUME NEW ir, Messages!ToMessageRequest(ir).ok,
           NEW sent, sent = Messages!ToMessageRequest(ir).value,
           NEW seen, seen = Messages!Seen(sent)
    PROVE  Presented(ir, seen)
<1>1. sent.tools = ir.tools /\ (ir.max # {} => sent.max = ir.max)
  BY DEF Messages!ToMessageRequest, Messages!AcceptIf, Messages!Accepted, Messages!Refused
<1>2. seen.tools = sent.tools /\ seen.max = sent.max
  BY DEF Messages!Seen
<1>3. sent.stop = ir.stop
  BY DEF Messages!ToMessageRequest, Messages!AcceptIf, Messages!Accepted, Messages!Refused
<1>4. seen.stop = sent.stop
  BY DEF Messages!Seen
<1>5. seen.stop = ir.stop
  BY <1>3, <1>4
<1>6. /\ sent.choice.type = (CASE ir.choice.mode = "required" -> "any"
                                [] ir.choice.mode = "named" -> "tool"
                                [] OTHER -> ir.choice.mode)
      /\ sent.choice.name = ir.choice.name
  BY DEF Messages!ToMessageRequest, Messages!AcceptIf, Messages!Accepted, Messages!Refused
<1>7. /\ seen.mode = (CASE sent.choice.type = "any" -> "required"
                        [] sent.choice.type = "tool" -> "named"
                        [] OTHER -> sent.choice.type)
      /\ seen.name = sent.choice.name
  BY DEF Messages!Seen
<1>8. ASSUME ir.choice.mode # "none", ir.choice.disableParallel \in BOOLEAN
      PROVE  seen.parallel = ~ir.choice.disableParallel
  <2>1. sent.choice.disableParallel = (ir.choice.mode # "none" /\ ir.choice.disableParallel)
    BY DEF Messages!ToMessageRequest, Messages!AcceptIf, Messages!Accepted, Messages!Refused
  <2>2. seen.parallel = ~sent.choice.disableParallel
    BY DEF Messages!Seen
  <2> QED
    BY <1>8, <2>1, <2>2, Zenon
<1>9. ir.choice.mode \in {"-", "auto", "none", "required", "named"} =>
          seen.mode = ir.choice.mode /\ (ir.choice.mode = "named" => seen.name = ir.choice.name)
  BY <1>6, <1>7
<1> QED
  BY <1>1, <1>2, <1>5, <1>8, <1>9, Zenon DEF Presented

\* What the gemini provider sees.
LEMMA GeminiAdapter ==
    ASSUME NEW ir, Content!ToProviderRequest(ir).ok,
           NEW sent, sent = Content!ToProviderRequest(ir).value,
           NEW seen, seen = Content!Seen(sent)
    PROVE  Presented(ir, seen)
<1>1. sent.tools = ir.tools /\ (ir.max # {} => sent.max = ir.max)
  BY DEF Content!ToProviderRequest, Content!AcceptIf, Content!Accepted, Content!Refused
<1>2. seen.tools = sent.tools /\ seen.max = sent.max
  BY Zenon DEF Content!Seen
<1>3. sent.stop = ir.stop
  BY DEF Content!ToProviderRequest, Content!AcceptIf, Content!Accepted, Content!Refused
<1>4. seen.stop = sent.stop
  BY Zenon DEF Content!Seen
<1>5. seen.stop = ir.stop
  BY <1>3, <1>4
<1>6. /\ sent.config.mode = (CASE ir.choice.mode = "auto" -> "AUTO"
                                [] ir.choice.mode = "none" -> "NONE"
                                [] ir.choice.mode \in {"required", "named"} -> "ANY"
                                [] OTHER -> "absent")
      /\ sent.config.allowed = (IF ir.choice.mode = "named" THEN <<ir.choice.name>> ELSE << >>)
  BY DEF Content!ToProviderRequest, Content!AcceptIf, Content!Accepted, Content!Refused
<1>7. /\ seen.mode = (CASE sent.config.mode = "ANY" ->
                               IF sent.config.allowed # << >> THEN "named" ELSE "required"
                        [] sent.config.mode = "NONE" -> "none"
                        [] sent.config.mode = "AUTO" -> "auto"
                        [] OTHER -> "-")
      /\ seen.name = (IF sent.config.allowed = << >> THEN Content!NoName ELSE sent.config.allowed[1])
  BY Zenon DEF Content!Seen
<1>8. ir.choice.disableParallel \in BOOLEAN => seen.parallel = ~ir.choice.disableParallel
  <2>1. ~ir.choice.disableParallel
    BY DEF Content!ToProviderRequest, Content!AcceptIf, Content!Accepted, Content!Refused
  <2>2. seen.parallel = TRUE
    BY Zenon DEF Content!Seen
  <2> QED
    BY <2>1, <2>2, Zenon
<1>9. ASSUME ir.choice.mode \in {"-", "auto", "none", "required", "named"}
      PROVE  seen.mode = ir.choice.mode /\ (ir.choice.mode = "named" => seen.name = ir.choice.name)
  <2>1. CASE ir.choice.mode = "named"
    <3>1. /\ sent.config.mode = "ANY"
          /\ sent.config.allowed # << >> /\ sent.config.allowed[1] = ir.choice.name
      BY <1>6, <2>1
    <3> QED
      BY <1>7, <2>1, <3>1
  <2>2. CASE ir.choice.mode # "named"
    <3>1. sent.config.allowed = << >>
      BY <1>6, <2>2
    <3> QED
      BY <1>6, <1>7, <1>9, <2>2, <3>1
  <2> QED
    BY <2>1, <2>2
<1> QED
  BY <1>1, <1>2, <1>5, <1>8, <1>9, Zenon DEF Presented

-----------------------------------------------------------------------------
(***************************************************************************)
(* The way back: what an adapter accepts of a provider is valid and has    *)
(* the provider's usage, which every gateway tells its client.             *)
(***************************************************************************)
Counted(usage) ==
    /\ usage.input \in Int /\ usage.output \in Int
    /\ usage.created \in Int /\ usage.cached \in Int

\* What a client is told of the usage.
Told(usage) == [input |-> usage.input, output |-> usage.output, cached |-> usage.cached]

\* The numbers in the usage of a provider's reply.
CountedReply(protocol, body) ==
    /\ protocol \in {"chat", "responses", "anthropic", "gemini"}
    /\ protocol = "chat" =>
          body.usage.prompt \in Int /\ body.usage.completion \in Int /\ body.usage.cached \in Int
    /\ protocol = "responses" => body.usage \in [input : Int, output : Int, cached : Int]
    /\ protocol = "anthropic" =>
          /\ body.usage.input \in Int /\ body.usage.output \in Int
          /\ body.usage.created \in Int /\ body.usage.read \in Int
    /\ protocol = "gemini" =>
          /\ body.usage.prompt \in Nat /\ body.usage.candidates \in Nat
          /\ body.usage.thoughts \in Nat /\ body.usage.cached \in Int
          /\ body.candidates = 0 => body.usage.cached \in Nat

\* What the chat adapter answers.
LEMMA ChatReply ==
    ASSUME NEW body, CountedReply("chat", body), NEW ask,
           NEW out, out = Chat!FromChatResponse(body, ask), out.ok
    PROVE  /\ ResponseValid(out.value)
           /\ Counted(out.value.usage)
           /\ Chat!Read(body).usage = Told(out.value.usage)
<1>1. Chat!ResponseValid(out.value)
  BY DEF Chat!FromChatResponse, Chat!AcceptIf, Chat!Accepted, Chat!Refused
<1>2. out.value.usage = [input |-> body.usage.prompt, output |-> body.usage.completion,
                         created |-> 0, cached |-> body.usage.cached]
  BY DEF Chat!FromChatResponse, Chat!AcceptIf, Chat!Accepted, Chat!Refused, Chat!Response,
         Chat!Usage
<1>3. Chat!Read(body).usage = [input |-> body.usage.prompt, output |-> body.usage.completion,
                               cached |-> body.usage.cached]
  BY DEF Chat!Read
<1>4. Counted(out.value.usage)
  BY <1>2 DEF Counted, CountedReply
<1>5. Chat!Read(body).usage = Told(out.value.usage)
  BY <1>2, <1>3 DEF Told
<1> QED
  BY <1>1, <1>4, <1>5, SameValidation

\* What the responses adapter answers.
LEMMA ResponsesReply ==
    ASSUME NEW body, CountedReply("responses", body), NEW ask,
           NEW out, out = Responses!ToIRResponse(body, ask), out.ok
    PROVE  /\ ResponseValid(out.value)
           /\ Counted(out.value.usage)
           /\ Responses!Read(body).usage = Told(out.value.usage)
<1>1. Responses!ResponseValid(out.value)
  BY DEF Responses!ToIRResponse, Responses!AcceptIf, Responses!Accepted, Responses!Refused
<1>2. out.value.usage = [input |-> body.usage.input, output |-> body.usage.output,
                         created |-> 0, cached |-> body.usage.cached]
  BY DEF Responses!ToIRResponse, Responses!AcceptIf, Responses!Accepted, Responses!Refused,
         Responses!Response, Responses!Usage
<1>3. Responses!Read(body).usage = body.usage
  BY DEF Responses!Read
<1>4. body.usage \in [input : Int, output : Int, cached : Int]
  BY DEF CountedReply
<1>5. Counted(out.value.usage)
  BY <1>2, <1>4 DEF Counted
<1>6. Responses!Read(body).usage = Told(out.value.usage)
  BY <1>2, <1>3, <1>4 DEF Told
<1> QED
  BY <1>1, <1>5, <1>6, SameValidation

\* What the anthropic adapter answers.
LEMMA AnthropicReply ==
    ASSUME NEW body, CountedReply("anthropic", body), NEW ask,
           NEW out, out = Messages!ToIRResponse(body, ask), out.ok
    PROVE  /\ ResponseValid(out.value)
           /\ Counted(out.value.usage)
           /\ Messages!Read(body).usage = Told(out.value.usage)
<1>1. Messages!ResponseValid(out.value)
  BY DEF Messages!ToIRResponse, Messages!AcceptIf, Messages!Accepted, Messages!Refused
<1>2. out.value.usage = [input |-> body.usage.input + body.usage.created + body.usage.read,
                         output |-> body.usage.output,
                         created |-> body.usage.created, cached |-> body.usage.read]
  BY DEF Messages!ToIRResponse, Messages!AcceptIf, Messages!Accepted, Messages!Refused,
         Messages!Response, Messages!Usage
<1>3. Messages!Read(body).usage
          = [input |-> body.usage.input + body.usage.created + body.usage.read,
             output |-> body.usage.output, cached |-> body.usage.read]
  BY DEF Messages!Read
<1>4. Counted(out.value.usage)
  BY <1>2 DEF Counted, CountedReply
<1>5. Messages!Read(body).usage = Told(out.value.usage)
  BY <1>2, <1>3 DEF Told
<1> QED
  BY <1>1, <1>4, <1>5, SameValidation

\* What the gemini adapter answers; a blocked prompt is a filtered response.
LEMMA GeminiReply ==
    ASSUME NEW body, CountedReply("gemini", body), NEW ask,
           NEW out, out = Content!ToIRResponse(body, ask), out.ok
    PROVE  /\ ResponseValid(out.value)
           /\ Counted(out.value.usage)
           /\ Content!Read(body).usage = Told(out.value.usage)
<1>2. out.value.usage = [input |-> body.usage.prompt,
                         output |-> body.usage.candidates + body.usage.thoughts,
                         created |-> 0, cached |-> body.usage.cached]
  BY Zenon DEF Content!ToIRResponse, Content!AcceptIf, Content!Accepted, Content!Refused,
         Content!Response, Content!Usage
<1>1. Content!ResponseValid(out.value)
  <2>1. CASE body.candidates = 0
    <3>1. out.value.content = << >> /\ out.value.finish = "content_filter"
      BY <2>1 DEF Content!ToIRResponse, Content!AcceptIf, Content!Accepted, Content!Refused,
                  Content!Response
    <3>2. /\ out.value.usage.input >= 0 /\ out.value.usage.output >= 0
          /\ out.value.usage.created >= 0 /\ out.value.usage.cached >= 0
      BY <1>2, <2>1 DEF CountedReply
    <3> QED
      BY <3>1, <3>2 DEF Content!ResponseValid
  <2>2. CASE body.candidates # 0
    BY <2>2, Zenon DEF Content!ToIRResponse, Content!AcceptIf, Content!Accepted, Content!Refused
  <2> QED
    BY <2>1, <2>2
<1>3. Content!Read(body).usage = [input |-> body.usage.prompt,
                                  output |-> body.usage.candidates + body.usage.thoughts,
                                  cached |-> body.usage.cached]
  BY DEF Content!Read
<1>4. Counted(out.value.usage)
  BY <1>2 DEF Counted, CountedReply
<1>5. Content!Read(body).usage = Told(out.value.usage)
  BY <1>2, <1>3 DEF Told
<1> QED
  BY <1>1, <1>4, <1>5, SameValidation

\* What the gateways tell of the usage.
LEMMA UsageTold ==
    ASSUME NEW ir, Counted(ir.usage)
    PROVE  /\ Chat!FromIR(ir).ok => Chat!Read(Chat!FromIR(ir).value).usage = Told(ir.usage)
           /\ Responses!FromIR(ir).ok =>
                 Responses!Read(Responses!FromIR(ir).value).usage = Told(ir.usage)
           /\ Messages!FromIRResponse(ir).ok =>
                 Messages!Read(Messages!FromIRResponse(ir).value).usage = Told(ir.usage)
           /\ Content!FromIRResponse(ir).ok =>
                 Content!Read(Content!FromIRResponse(ir).value).usage = Told(ir.usage)
<1>1. ASSUME Chat!FromIR(ir).ok
      PROVE  Chat!Read(Chat!FromIR(ir).value).usage = Told(ir.usage)
  <2>1. Chat!FromIR(ir).value.usage = [prompt |-> ir.usage.input, completion |-> ir.usage.output,
                                       cached |-> ir.usage.cached]
    BY <1>1 DEF Chat!FromIR, Chat!AcceptIf, Chat!Accepted, Chat!Refused
  <2> QED
    BY <2>1 DEF Chat!Read, Told
<1>2. ASSUME Responses!FromIR(ir).ok
      PROVE  Responses!Read(Responses!FromIR(ir).value).usage = Told(ir.usage)
  <2>1. Responses!FromIR(ir).value.usage = Told(ir.usage)
    BY <1>2 DEF Responses!FromIR, Responses!AcceptIf, Responses!Accepted, Responses!Refused,
           Told
  <2> QED
    BY <2>1 DEF Responses!Read
<1>3. ASSUME Messages!FromIRResponse(ir).ok
      PROVE  Messages!Read(Messages!FromIRResponse(ir).value).usage = Told(ir.usage)
  <2>1. Messages!FromIRResponse(ir).value.usage
            = [input |-> ir.usage.input - ir.usage.created - ir.usage.cached,
               output |-> ir.usage.output, created |-> ir.usage.created,
               read |-> ir.usage.cached]
    BY <1>3 DEF Messages!FromIRResponse, Messages!AcceptIf, Messages!Accepted, Messages!Refused,
                Messages!uncachedInput
  <2>2. (ir.usage.input - ir.usage.created - ir.usage.cached) + ir.usage.created
            + ir.usage.cached = ir.usage.input
    BY DEF Counted
  <2> QED
    BY <2>1, <2>2 DEF Messages!Read, Told
<1>4. ASSUME Content!FromIRResponse(ir).ok
      PROVE  Content!Read(Content!FromIRResponse(ir).value).usage = Told(ir.usage)
  <2>1. Content!FromIRResponse(ir).value.usage
            = [prompt |-> ir.usage.input, candidates |-> ir.usage.output, thoughts |-> 0,
               cached |-> ir.usage.cached]
    BY <1>4 DEF Content!FromIRResponse, Content!AcceptIf, Content!Accepted, Content!Refused
  <2>2. ir.usage.output + 0 = ir.usage.output
    BY DEF Counted
  <2> QED
    BY <2>1, <2>2 DEF Content!Read, Told
<1> QED
  BY <1>1, <1>2, <1>3, <1>4

\* Every reply of a provider has a usage.
LEMMA RepliesCounted ==
    ASSUME NEW n, NEW model
    PROVE  /\ \A b \in {Chat!Talk} \cup Chat!ToolReplies(n) \cup Chat!OddReplies(n) :
                 CountedReply("chat", b)
           /\ \A b \in {Responses!Talk} \cup Responses!ToolReplies(n)
                           \cup Responses!OddReplies(n) : CountedReply("responses", b)
           /\ \A b \in {Messages!Talk} \cup Messages!ToolReplies(n)
                           \cup Messages!OddReplies(n) : CountedReply("anthropic", b)
           /\ \A b \in {Content!Talk} \cup Content!ToolReplies(n, model)
                           \cup Content!OddReplies(n, model) : CountedReply("gemini", b)
<1>1. ASSUME NEW b \in {Chat!Talk} \cup Chat!ToolReplies(n) \cup Chat!OddReplies(n)
      PROVE  CountedReply("chat", b)
  <2> DEFINE Known_(r) == \E cached \in {0, 3, 6} :
                 r.usage = [prompt |-> 5, completion |-> 2, cached |-> cached]
  <2>1. \A content, calls, finish : \A cached \in {0, 3, 6} :
            Known_(Chat!Reply(content, calls, finish, cached))
    BY DEF Chat!Reply
  <2>2. Known_(Chat!Talk)
    BY DEF Chat!Reply, Chat!Talk
  <2>3. /\ [Chat!Talk EXCEPT !.choices = 0].usage = Chat!Talk.usage
        /\ [Chat!Talk EXCEPT !.refusal = TRUE].usage = Chat!Talk.usage
        /\ [Chat!Talk EXCEPT !.refusal = TRUE, !.content = FALSE].usage = Chat!Talk.usage
    BY DEF Chat!Reply, Chat!Talk
  <2>4. /\ Known_([Chat!Talk EXCEPT !.choices = 0])
        /\ Known_([Chat!Talk EXCEPT !.refusal = TRUE])
        /\ Known_([Chat!Talk EXCEPT !.refusal = TRUE, !.content = FALSE])
    BY <2>2, <2>3
  <2> HIDE DEF Known_
  <2>5. ASSUME b \in {Chat!Talk} \cup Chat!ToolReplies(n) PROVE Known_(b)
    BY <2>1, <2>2, <2>5, Zenon DEF Chat!ToolReplies
  <2>6. ASSUME b \in Chat!OddReplies(n) PROVE Known_(b)
    <3> DEFINE T1 == [Chat!Talk EXCEPT !.choices = 0]
               T2 == [Chat!Talk EXCEPT !.refusal = TRUE]
               T3 == [Chat!Talk EXCEPT !.refusal = TRUE, !.content = FALSE]
    <3>1. Known_(T1) /\ Known_(T2) /\ Known_(T3)
      BY <2>4
    <3>2. \/ \E content, calls, finish : \E cached \in {0, 3, 6} :
                 b = Chat!Reply(content, calls, finish, cached)
          \/ b = T1 \/ b = T2 \/ b = T3
      <4> HIDE DEF T1, T2, T3
      <4> QED
        BY <2>6, Zenon DEF Chat!OddReplies, T1, T2, T3
    <3> HIDE DEF T1, T2, T3
    <3> QED
      BY <2>1, <3>1, <3>2
  <2>7. Known_(b)
    BY <1>1, <2>5, <2>6
  <2> QED
    BY <2>7 DEF CountedReply, Known_
<1>2. ASSUME NEW b \in {Responses!Talk} \cup Responses!ToolReplies(n)
                           \cup Responses!OddReplies(n)
      PROVE  CountedReply("responses", b)
  <2>1. \E cached \in {0, 3, 6} :
            b.usage = [input |-> 5, output |-> 2, cached |-> cached]
    BY <1>2 DEF Responses!Talk, Responses!ToolReplies, Responses!OddReplies, Responses!Reply
  <2> QED
    BY <2>1 DEF CountedReply
<1>3. ASSUME NEW b \in {Messages!Talk} \cup Messages!ToolReplies(n) \cup Messages!OddReplies(n)
      PROVE  CountedReply("anthropic", b)
  <2>1. \E created \in {0, 1}, read \in {0, 3, -1} :
            b.usage = [input |-> 5, output |-> 2, created |-> created, read |-> read]
    BY <1>3 DEF Messages!Talk, Messages!ToolReplies, Messages!OddReplies, Messages!Reply
  <2> QED
    BY <2>1 DEF CountedReply
<1>4. ASSUME NEW b \in {Content!Talk} \cup Content!ToolReplies(n, model)
                           \cup Content!OddReplies(n, model)
      PROVE  CountedReply("gemini", b)
  <2> DEFINE Known_(r) == \E cached \in {0, 3, 6, -1} :
                 /\ r.usage = [prompt |-> 5, candidates |-> 2, thoughts |-> 1, cached |-> cached]
                 /\ r.candidates = 0 => cached = 0
             Empty == Content!Reply(<< >>, "-", 0)
  <2>1. \A parts, finish : \A cached \in {0, 3, 6, -1} :
            Known_(Content!Reply(parts, finish, cached))
    BY DEF Content!Reply
  <2>2. Known_(Content!Talk)
    BY DEF Content!Reply, Content!Talk
  <2>3. /\ [Empty EXCEPT !.candidates = 0].usage = Empty.usage
        /\ [Empty EXCEPT !.candidates = 0, !.blocked = TRUE].usage = Empty.usage
        /\ Empty.usage = [prompt |-> 5, candidates |-> 2, thoughts |-> 1, cached |-> 0]
    BY DEF Content!Reply
  <2>30. \A role : /\ [Content!Talk EXCEPT !.role = role].usage = Content!Talk.usage
                   /\ [Content!Talk EXCEPT !.role = role].candidates = Content!Talk.candidates
    BY DEF Content!Reply, Content!Talk
  <2>4. /\ Known_([Empty EXCEPT !.candidates = 0])
        /\ Known_([Empty EXCEPT !.candidates = 0, !.blocked = TRUE])
        /\ \A role : Known_([Content!Talk EXCEPT !.role = role])
    <3>1. /\ Known_([Empty EXCEPT !.candidates = 0])
          /\ Known_([Empty EXCEPT !.candidates = 0, !.blocked = TRUE])
      BY <2>3
    <3>2. \A role : Known_([Content!Talk EXCEPT !.role = role])
      BY <2>2, <2>30
    <3> QED
      BY <3>1, <3>2
  <2> HIDE DEF Known_
  <2>5. ASSUME b \in {Content!Talk} \cup Content!ToolReplies(n, model) PROVE Known_(b)
    <3>1. CASE b = Content!Talk
      BY <2>2, <3>1
    <3>2. CASE b \in Content!ToolReplies(n, model)
      <4>1. \E parts : b = Content!Reply(parts, "STOP", 0)
        BY <3>2, Zenon DEF Content!ToolReplies
      <4> QED
        BY <2>1, <4>1
    <3> QED
      BY <2>5, <3>1, <3>2
  <2>6. ASSUME b \in Content!OddReplies(n, model) PROVE Known_(b)
    BY <2>1, <2>4, <2>6 DEF Content!OddReplies
  <2>7. Known_(b)
    BY <1>4, <2>5, <2>6
  <2> QED
    BY <2>7 DEF CountedReply, Known_
<1> QED
  BY <1>1, <1>2, <1>3, <1>4

-----------------------------------------------------------------------------
(***************************************************************************)
(* The invariant: at every step what passes carries the demands of the     *)
(* client, and what comes back the usage of the provider.                  *)
(***************************************************************************)
Wanted ==
    /\ wants \in {Plain} \cup OtherWants
    /\ Expressible(client.protocol, wants)

\* A request on its way: no reply yet, a route, and the client's demands.
Outward ==
    /\ pc \in {"gateway", "adapter", "provider"} => reply = Nothing
    /\ pc \in {"gateway", "adapter", "provider", "reply", "answer"} => route \in Routes
    /\ pc = "gateway" => flight = AskWith(client.protocol, history)
    /\ pc = "adapter" => Demanded(flight, wants)

\* A reply on its way: what the provider sent, and usage that is counted.
Homeward ==
    /\ pc = "reply" =>
          \/ reply = [code |-> 429]
          \/ reply = [code |-> 500]
          \/ reply = [code |-> 200, body |-> flight] /\ CountedReply(route.protocol, flight)
    /\ pc = "answer" =>
          /\ reply.code = 200
          /\ reply # Nothing
          /\ Counted(flight.usage)
          /\ ReadAnswer(route.protocol, reply.body).usage = Told(flight.usage)

\* The first inductive invariant: what one request and its reply carry.
Carried ==
    TypeOK /\ Wanted /\ Outward /\ Homeward /\ StatusTells /\ DemandsKept /\ UsageKept

\* Clients and routes have a protocol.
LEMMA Protocols ==
    /\ \A c \in Clients : c.protocol \in {"chat", "responses", "anthropic", "gemini"}
    /\ \A r \in Routes : r.protocol \in {"chat", "responses", "anthropic", "gemini"}
BY DEF Clients, Routes

\* The initial states.
LEMMA CarriedInit == Init => Carried
<1> SUFFICES ASSUME Init PROVE Carried
  OBVIOUS
<1>1. TypeOK
  BY ConfigurationAssumption DEF Init, TypeOK
<1>2. Wanted
  BY DEF Init, Wanted
<1>3. pc = "client" /\ status = 0
  BY DEF Init
<1> QED
  BY <1>1, <1>2, <1>3 DEF Carried, Outward, Homeward, StatusTells, DemandsKept, UsageKept

\* The statuses of a failure.
LEMMA Statuses ==
    ASSUME NEW p, NEW cause \in {"translation", "adapter", "deadline", "other"}, NEW code
    PROVE  /\ writeRuntimeError(p, cause, code) \in {400, 429, 502, 504}
           /\ writeRuntimeError(p, cause, code) = 400 => cause = "translation"
           /\ writeRuntimeError(p, cause, code) = 429 => cause = "adapter" /\ code = 429
BY DEF writeRuntimeError

\* A failure ends the request: its status is all that it has to justify.
LEMMA FailCarries ==
    ASSUME Carried, NEW step, NEW code \in {400, 429, 502, 504},
           step \in {"request", "adapter", "resolve", "provider", "reply", "answer", "lost"},
           code = 400 => reply = Nothing /\ step = "request",
           code = 429 => reply = [code |-> 429],
           Fail(step, code)
    PROVE  Carried'
<1>1. TypeOK'
  BY DEF Carried, TypeOK, Fail
<1>2. Wanted'
  BY DEF Carried, Wanted, Fail
<1>3. pc' = "client" /\ status' = code /\ failed' = step /\ reply' = reply
  BY DEF Fail
<1>4. StatusTells'
  BY <1>3 DEF StatusTells
<1>5. Outward' /\ Homeward' /\ DemandsKept' /\ UsageKept'
  BY <1>3 DEF Outward, Homeward, DemandsKept, UsageKept
<1> QED
  BY <1>1, <1>2, <1>4, <1>5 DEF Carried

\* A gateway hands on a request that is valid and carries the demands.
LEMMA DispatchCarries ==
    ASSUME Carried, NEW translated,
           translated.ok => RequestValid(translated.value) /\ Demanded(translated.value, wants),
           Dispatch(translated)
    PROVE  Carried'
<1>1. CASE translated.ok /\ pc' = "adapter"
  <2>1. /\ pc = "gateway" /\ pc' = "adapter" /\ flight' = translated.value
        /\ UNCHANGED <<client, wants, history, request, route, asked, reply, status,
                       failed, made, portable>>
    BY <1>1 DEF Dispatch, Fail
  <2>2. TypeOK'
    BY <1>1, <2>1 DEF Carried, TypeOK
  <2>3. Wanted'
    BY <2>1 DEF Carried, Wanted
  <2>4. Outward'
    BY <1>1, <2>1 DEF Carried, Outward
  <2> QED
    BY <2>1, <2>2, <2>3, <2>4 DEF Carried, Homeward, StatusTells, DemandsKept, UsageKept
<1>2. CASE pc = "gateway" /\ Fail("request", writeRuntimeError(client.protocol, "translation", 0))
  <2>1. reply = Nothing
    BY <1>2 DEF Carried, Outward
  <2> QED
    BY <1>2, <2>1, Statuses, FailCarries
<1> QED
  BY <1>1, <1>2 DEF Dispatch

\* A gateway answers with the usage of the response.
LEMMA AnswerCarries ==
    ASSUME Carried, NEW translated,
           (pc = "answer" /\ translated.ok) =>
               ReadAnswer(client.protocol, translated.value).usage = Told(flight.usage),
           Answer(translated)
    PROVE  Carried'
<1>1. CASE translated.ok /\ pc' = "client" /\ flight' = translated.value /\ status' = 200
           /\ UNCHANGED <<client, wants, history, request, route, asked, reply, failed, made,
                          portable>>
  <2>1. pc = "answer"
    BY DEF Answer
  <2>2. TypeOK'
    BY <1>1 DEF Carried, TypeOK
  <2>3. Wanted'
    BY <1>1 DEF Carried, Wanted
  <2>4. StatusTells'
    BY <1>1, <2>1 DEF Carried, Homeward, StatusTells
  <2>5. UsageKept'
    <3>1. ReadAnswer(client.protocol, translated.value).usage
              = ReadAnswer(route.protocol, reply.body).usage
      BY <1>1, <2>1 DEF Carried, Homeward
    <3>2. /\ client' = client /\ route' = route /\ reply' = reply
          /\ flight' = translated.value
      BY <1>1
    <3>3. ReadAnswer(client'.protocol, flight').usage = ReadAnswer(route'.protocol, reply'.body).usage
      BY <3>1, <3>2, Zenon
    <3> QED
      BY <3>3, Zenon DEF UsageKept
  <2> QED
    BY <1>1, <2>2, <2>3, <2>4, <2>5 DEF Carried, Outward, Homeward, DemandsKept
<1>2. CASE Fail("answer", writeRuntimeError(client.protocol, "other", 0))
  BY <1>2, Statuses, FailCarries
<1> QED
  BY <1>1, <1>2 DEF Answer

\* What the adapter of this route sends is what the provider sees.
LEMMA SendCarries ==
    ASSUME Carried, NEW translated,
           (pc = "adapter" /\ translated.ok) =>
               Presented(flight, By(route.protocol, Chat!Seen(translated.value),
                                    Responses!Seen(translated.value),
                                    Messages!Seen(translated.value),
                                    Content!Seen(translated.value))),
           Send(translated)
    PROVE  Carried'
<1>1. CASE /\ translated.ok /\ pc' = "provider" /\ flight' = translated.value
           /\ UNCHANGED <<client, wants, history, request, route, reply, status, failed, made,
                          portable>>
  <2>1. pc = "adapter"
    BY DEF Send
  <2>2. TypeOK'
    BY <1>1 DEF Carried, TypeOK
  <2>3. Wanted'
    BY <1>1 DEF Carried, Wanted
  <2>4. Outward'
    BY <1>1, <2>1 DEF Carried, Outward
  <2>5. wants \in Wants
    BY WantsAssumption DEF Carried, Wanted
  <2>6. Demanded(flight, wants)
    BY <2>1 DEF Carried, Outward
  <2> DEFINE seen == By(route.protocol, Chat!Seen(translated.value),
                        Responses!Seen(translated.value), Messages!Seen(translated.value),
                        Content!Seen(translated.value))
  <2>7. Presented(flight, seen)
    BY <1>1, <2>1
  <2>8. Seen' = seen
    <3>1. flight' = translated.value /\ route' = route
      BY <1>1
    <3> QED
      BY <3>1, Zenon DEF Seen
  <2> HIDE DEF seen
  <2>9. Met(seen, wants)
    BY <2>5, <2>6, <2>7, PresentedMeets, Zenon
  <2>10. wants' = wants
    BY <1>1
  <2>11. DemandsKept'
    BY <2>8, <2>9, <2>10, Zenon DEF DemandsKept, Met
  <2> QED
    BY <1>1, <2>2, <2>3, <2>4, <2>11 DEF Carried, Homeward, StatusTells, UsageKept
<1>2. CASE Report("resolve", 422)
  BY <1>2, Statuses, FailCarries DEF Report
<1>3. CASE Report("resolve", 502)
  BY <1>3, Statuses, FailCarries DEF Report
<1>4. CASE Report("adapter", 400)
  BY <1>4, Statuses, FailCarries DEF Report
<1> QED
  BY <1>1, <1>2, <1>3, <1>4 DEF Send

\* What the adapter of this route makes of the reply is valid, with its usage.
LEMMA ReceiveCarries ==
    ASSUME Carried, NEW translated,
           (pc = "reply" /\ CountedReply(route.protocol, flight) /\ translated.ok) =>
               /\ ResponseValid(translated.value)
               /\ Counted(translated.value.usage)
               /\ ReadAnswer(route.protocol, flight).usage = Told(translated.value.usage),
           Receive(translated)
    PROVE  Carried'
<1>1. CASE /\ reply.code = 200 /\ translated.ok /\ pc' = "answer" /\ flight' = translated.value
           /\ UNCHANGED <<client, wants, history, request, route, reply, status, failed, made,
                          portable>>
  <2>1. pc = "reply"
    BY DEF Receive
  <2>2. reply = [code |-> 200, body |-> flight] /\ CountedReply(route.protocol, flight)
    BY <1>1, <2>1 DEF Carried, Homeward
  <2>3. /\ ResponseValid(translated.value)
        /\ Counted(translated.value.usage)
        /\ ReadAnswer(route.protocol, flight).usage = Told(translated.value.usage)
    BY <1>1, <2>1, <2>2
  <2>4. TypeOK'
    BY <1>1, <2>3 DEF Carried, TypeOK
  <2>5. Wanted'
    BY <1>1 DEF Carried, Wanted
  <2>6. Outward'
    BY <1>1, <2>1 DEF Carried, Outward
  <2>7. reply.body = flight /\ reply # Nothing
    BY <2>2 DEF Nothing
  <2>8. /\ flight' = translated.value /\ route' = route /\ reply' = reply /\ pc' = "answer"
    BY <1>1
  <2>9. /\ Counted(flight'.usage)
        /\ ReadAnswer(route'.protocol, reply'.body).usage = Told(flight'.usage)
    BY <2>3, <2>7, <2>8, Zenon
  <2>10. Homeward'
    BY <1>1, <2>7, <2>8, <2>9 DEF Homeward
  <2> QED
    BY <1>1, <2>4, <2>5, <2>6, <2>10 DEF Carried, StatusTells, DemandsKept, UsageKept
<1>2. CASE pc = "reply" /\ reply.code = 429 /\ Report("provider", 429)
  <2>1. reply = [code |-> 429]
    BY <1>2 DEF Carried, Homeward
  <2> QED
    BY <1>2, <2>1, Statuses, FailCarries DEF Report
<1>3. CASE Report("provider", 502)
  BY <1>3, Statuses, FailCarries DEF Report
<1>4. CASE Report("reply", 502)
  BY <1>4, Statuses, FailCarries DEF Report
<1> QED
  BY <1>1, <1>2, <1>3, <1>4 DEF Receive

\* The provider's reply.
LEMMA ProviderCarries ==
    ASSUME Carried, Provider
    PROVE  Carried'
<1>1. ASSUME NEW body, CountedReply(route.protocol, body), Replied(body)
      PROVE  Carried'
  <2>1. TypeOK'
    BY <1>1 DEF Carried, TypeOK, Replied
  <2>2. Wanted'
    BY <1>1 DEF Carried, Wanted, Replied
  <2>3. Outward'
    BY <1>1 DEF Carried, Outward, Replied, Provider
  <2>4. /\ pc' = "reply" /\ flight' = body /\ route' = route
        /\ reply' = [code |-> 200, body |-> body]
    BY <1>1 DEF Replied
  <2>5. CountedReply(route'.protocol, flight')
    BY <1>1, <2>4, Zenon
  <2>6. Homeward'
    BY <2>4, <2>5, Zenon DEF Homeward
  <2> QED
    BY <2>1, <2>2, <2>3, <2>4, <2>6 DEF Carried, StatusTells, DemandsKept, UsageKept
<1>2. ASSUME NEW code \in {429, 500}, pc' = "reply", reply' = [code |-> code],
             UNCHANGED <<client, wants, history, request, route, asked, status, failed,
                         made, portable>>
      PROVE  Carried'
  <2>1. TypeOK'
    BY <1>2 DEF Carried, TypeOK
  <2>2. Wanted'
    BY <1>2 DEF Carried, Wanted
  <2>3. Outward'
    BY <1>2 DEF Carried, Outward, Provider
  <2>4. Homeward'
    BY <1>2 DEF Homeward
  <2> QED
    BY <1>2, <2>1, <2>2, <2>3, <2>4 DEF Carried, StatusTells, DemandsKept, UsageKept
<1>3. route.protocol \in {"chat", "responses", "anthropic", "gemini"}
  BY Protocols DEF Carried, Outward, Provider
<1>4. \A body \in {Talk} \cup ToolReplies \cup OddReplies : CountedReply(route.protocol, body)
  <2>1. CASE route.protocol = "chat"
    BY <2>1, RepliesCounted DEF Talk, ToolReplies, OddReplies, By
  <2>2. CASE route.protocol = "responses"
    BY <2>2, RepliesCounted DEF Talk, ToolReplies, OddReplies, By
  <2>3. CASE route.protocol = "anthropic"
    BY <2>3, RepliesCounted DEF Talk, ToolReplies, OddReplies, By
  <2>4. CASE route.protocol = "gemini"
    BY <2>4, RepliesCounted DEF Talk, ToolReplies, OddReplies, By
  <2> QED
    BY <1>3, <2>1, <2>2, <2>3, <2>4
<1>5. CASE Replied(Talk)
  BY <1>1, <1>4, <1>5, Zenon
<1>6. ASSUME NEW body \in ToolReplies \cup OddReplies, Replied(body) PROVE Carried'
  BY <1>1, <1>4, <1>6, Zenon
<1>8. CASE \E code \in {429, 500} :
              /\ pc' = "reply"
              /\ flight' = Nothing
              /\ reply' = [code |-> code]
              /\ UNCHANGED <<client, wants, history, request, route, asked, status, failed,
                             made, portable>>
  BY <1>2, <1>8
<1>9. CASE \E body \in ToolReplies \cup OddReplies : Replied(body)
  BY <1>6, <1>9, Zenon
<1> QED
  BY <1>5, <1>8, <1>9, Zenon DEF Provider

\* The client's requests.
LEMMA AskCarries ==
    ASSUME Carried, NEW messages, Ask(messages), portable' \in BOOLEAN
    PROVE  Carried'
<1>1. TypeOK'
  BY ConfigurationAssumption DEF Carried, TypeOK, Ask
<1>2. Wanted'
  BY DEF Carried, Wanted, Ask
<1>3. /\ pc' = "gateway" /\ reply' = Nothing /\ route' \in Routes
      /\ history' = messages /\ flight' = AskWith(client.protocol, messages)
      /\ client' = client /\ wants' = wants
  BY DEF Ask
<1>4. flight' = AskWith(client.protocol, history)'
  BY <1>3, Zenon DEF AskWith
<1>5. Outward'
  BY <1>3, <1>4 DEF Outward
<1> QED
  BY <1>1, <1>2, <1>3, <1>5 DEF Carried, Homeward, StatusTells, DemandsKept, UsageKept

\* A gateway's step.
LEMMA GatewayCarries ==
    ASSUME Carried,
           createChatCompletion \/ createResponse \/ createMessage \/ generateContent
    PROVE  Carried'
<1>1. wants \in Wants /\ Expressible(client.protocol, wants)
  BY WantsAssumption DEF Carried, Wanted
<1>2. pc = "gateway" => flight = AskWith(client.protocol, history)
  BY DEF Carried, Outward
<1>3. pc = "answer" => Counted(flight.usage)
  BY DEF Carried, Homeward
<1>4. CASE createChatCompletion
  <2>1. client.protocol = "chat"
    BY <1>4 DEF createChatCompletion
  <2>2. CASE Dispatch(Chat!ToIR(flight, request, route.model))
    <3>1. flight = Chat!Ask(wants, history)
      BY <1>2, <2>1, <2>2 DEF Dispatch, AskWith, By
    <3> QED
      BY <1>1, <2>2, <3>1, ChatGateway, DispatchCarries, Zenon
  <2>3. CASE Answer(Chat!FromIR(flight))
    <3>1. \A body : ReadAnswer(client.protocol, body) = Chat!Read(body)
      BY <2>1 DEF ReadAnswer, By
    <3> QED
      BY <1>3, <2>3, <3>1, UsageTold, AnswerCarries, Zenon
  <2> QED
    BY <1>4, <2>2, <2>3 DEF createChatCompletion
<1>5. CASE createResponse
  <2>1. client.protocol = "responses"
    BY <1>5 DEF createResponse
  <2>2. CASE Dispatch(Responses!ToIR(flight, request, route.model))
    <3>1. flight = Responses!Ask(wants, history)
      BY <1>2, <2>1, <2>2 DEF Dispatch, AskWith, By
    <3>2. ~wants.stop
      BY <1>1, <2>1 DEF Expressible
    <3> QED
      BY <1>1, <2>2, <3>1, <3>2, ResponsesGateway, DispatchCarries, Zenon
  <2>3. CASE Answer(Responses!FromIR(flight))
    <3>1. \A body : ReadAnswer(client.protocol, body) = Responses!Read(body)
      BY <2>1 DEF ReadAnswer, By
    <3> QED
      BY <1>3, <2>3, <3>1, UsageTold, AnswerCarries, Zenon
  <2> QED
    BY <1>5, <2>2, <2>3 DEF createResponse
<1>6. CASE createMessage
  <2>1. client.protocol = "anthropic"
    BY <1>6 DEF createMessage
  <2>2. CASE Dispatch(Messages!ToIRRequest(flight, request, route.model))
    <3>1. flight = Messages!Ask(wants, history)
      BY <1>2, <2>1, <2>2 DEF Dispatch, AskWith, By
    <3> QED
      BY <1>1, <2>2, <3>1, AnthropicGateway, DispatchCarries, Zenon
  <2>3. CASE Answer(Messages!FromIRResponse(flight))
    <3>1. \A body : ReadAnswer(client.protocol, body) = Messages!Read(body)
      BY <2>1 DEF ReadAnswer, By
    <3> QED
      BY <1>3, <2>3, <3>1, UsageTold, AnswerCarries, Zenon
  <2> QED
    BY <1>6, <2>2, <2>3 DEF createMessage
<1>7. CASE generateContent
  <2>1. client.protocol = "gemini"
    BY <1>7 DEF generateContent
  <2>2. CASE Dispatch(Content!ToIRRequest(flight, request, route.model))
    <3>1. flight = Content!Ask(wants, history)
      BY <1>2, <2>1, <2>2 DEF Dispatch, AskWith, By
    <3>2. wants.parallel
      BY <1>1, <2>1 DEF Expressible
    <3> QED
      BY <1>1, <2>2, <3>1, <3>2, GeminiGateway, DispatchCarries, Zenon
  <2>3. CASE Answer(Content!FromIRResponse(flight))
    <3>1. \A body : ReadAnswer(client.protocol, body) = Content!Read(body)
      BY <2>1 DEF ReadAnswer, By
    <3>2. (pc = "answer" /\ Content!FromIRResponse(flight).ok) =>
              Content!Read(Content!FromIRResponse(flight).value).usage = Told(flight.usage)
      BY <1>3, UsageTold
    <3> QED
      BY <2>3, <3>1, <3>2, AnswerCarries, Zenon
  <2> QED
    BY <1>7, <2>2, <2>3 DEF generateContent
<1> QED
  BY <1>4, <1>5, <1>6, <1>7

\* An adapter's step.
LEMMA AdapterCarries ==
    ASSUME Carried,
           generateChat \/ generateResponses \/ generateMessages \/ generateGemini
    PROVE  Carried'
<1> DEFINE SeenOf(sent) == By(route.protocol, Chat!Seen(sent), Responses!Seen(sent),
                              Messages!Seen(sent), Content!Seen(sent))
<1>1. CASE generateChat
  <2>1. route.protocol = "chat"
    BY <1>1 DEF generateChat
  <2>2. /\ \A sent : SeenOf(sent) = Chat!Seen(sent)
        /\ \A body : ReadAnswer(route.protocol, body) = Chat!Read(body)
    BY <2>1 DEF ReadAnswer, By
  <2> HIDE DEF SeenOf
  <2>3. CASE Send(Chat!ToChatRequest(flight))
    <3>1. Chat!ToChatRequest(flight).ok =>
              Presented(flight, SeenOf(Chat!ToChatRequest(flight).value))
      BY <2>2, ChatAdapter, Zenon
    <3> QED
      BY <2>3, <3>1, SendCarries, Zenon DEF SeenOf
  <2>4. CASE Receive(Chat!FromChatResponse(flight, asked))
    BY <2>1, <2>2, <2>4, ChatReply, ReceiveCarries, Zenon
  <2> QED
    BY <1>1, <2>3, <2>4 DEF generateChat
<1>2. CASE generateResponses
  <2>1. route.protocol = "responses"
    BY <1>2 DEF generateResponses
  <2>2. /\ \A sent : SeenOf(sent) = Responses!Seen(sent)
        /\ \A body : ReadAnswer(route.protocol, body) = Responses!Read(body)
    BY <2>1 DEF ReadAnswer, By
  <2> HIDE DEF SeenOf
  <2> DEFINE out == IF Responses!WithinLimit(flight) THEN Responses!ToProviderRequest(flight)
                    ELSE Refused
  <2>3. CASE Send(out)
    <3>1. out.ok => out = Responses!ToProviderRequest(flight)
      BY DEF Refused
    <3> HIDE DEF out
    <3>2. out.ok => Presented(flight, SeenOf(out.value))
      BY <2>2, <3>1, ResponsesAdapter, Zenon
    <3> QED
      BY <2>3, <3>2, SendCarries, Zenon DEF SeenOf
  <2>4. CASE Receive(Responses!ToIRResponse(flight, asked))
    BY <2>1, <2>2, <2>4, ResponsesReply, ReceiveCarries, Zenon
  <2> QED
    BY <1>2, <2>3, <2>4 DEF generateResponses
<1>3. CASE generateMessages
  <2>1. route.protocol = "anthropic"
    BY <1>3 DEF generateMessages
  <2>2. /\ \A sent : SeenOf(sent) = Messages!Seen(sent)
        /\ \A body : ReadAnswer(route.protocol, body) = Messages!Read(body)
    BY <2>1 DEF ReadAnswer, By
  <2> HIDE DEF SeenOf
  <2>3. CASE Send(Messages!ToMessageRequest(flight))
    <3>1. Messages!ToMessageRequest(flight).ok =>
              Presented(flight, SeenOf(Messages!ToMessageRequest(flight).value))
      BY <2>2, AnthropicAdapter, Zenon
    <3> QED
      BY <2>3, <3>1, SendCarries, Zenon DEF SeenOf
  <2>4. CASE Receive(Messages!ToIRResponse(flight, asked))
    BY <2>1, <2>2, <2>4, AnthropicReply, ReceiveCarries, Zenon
  <2> QED
    BY <1>3, <2>3, <2>4 DEF generateMessages
<1>4. CASE generateGemini
  <2>1. route.protocol = "gemini"
    BY <1>4 DEF generateGemini
  <2>2. /\ \A sent : SeenOf(sent) = Content!Seen(sent)
        /\ \A body : ReadAnswer(route.protocol, body) = Content!Read(body)
    BY <2>1 DEF ReadAnswer, By
  <2> HIDE DEF SeenOf
  <2>3. CASE Send(Content!ToProviderRequest(flight))
    <3>1. Content!ToProviderRequest(flight).ok =>
              Presented(flight, SeenOf(Content!ToProviderRequest(flight).value))
      BY <2>2, GeminiAdapter, Zenon
    <3> QED
      BY <2>3, <3>1, SendCarries, Zenon DEF SeenOf
  <2>4. CASE Receive(Content!ToIRResponse(flight, asked))
    BY <2>1, <2>2, <2>4, GeminiReply, ReceiveCarries, Zenon
  <2> QED
    BY <1>4, <2>3, <2>4 DEF generateGemini
<1> QED
  BY <1>1, <1>2, <1>3, <1>4

\* Every step keeps the invariant.
LEMMA CarriedNext == Carried /\ [Next]_vars => Carried'
<1> SUFFICES ASSUME Carried, [Next]_vars PROVE Carried'
  OBVIOUS
<1>1. portable \in BOOLEAN
  BY DEF Carried, TypeOK
<1>2. CASE createChatCompletion \/ createResponse \/ createMessage \/ generateContent
  BY <1>2, GatewayCarries
<1>3. CASE generateChat \/ generateResponses \/ generateMessages \/ generateGemini
  BY <1>3, AdapterCarries
<1>4. CASE Abandon
  BY <1>4, Statuses, FailCarries DEF Abandon
<1>5. CASE Provider
  BY <1>5, ProviderCarries
<1>6. CASE AskAgain
  BY <1>1, <1>6, AskCarries, Zenon DEF AskAgain
<1>7. CASE AskWithResults
  <2>1. /\ \E messages : Ask(messages)
        /\ \E form, isError :
              portable' = (portable /\ OrdinaryReply /\ form # "image" /\ ~isError)
    BY <1>7, Zenon DEF AskWithResults
  <2>2. portable' \in BOOLEAN
    BY <2>1
  <2> QED
    BY <2>1, <2>2, AskCarries, Zenon
<1>8. CASE AskMore
  <2>1. (\E messages : Ask(messages)) /\ portable' = (portable /\ OrdinaryReply)
    BY <1>8, Zenon DEF AskMore
  <2>2. portable' \in BOOLEAN
    BY <2>1
  <2> QED
    BY <2>1, <2>2, AskCarries, Zenon
<1>9. CASE UNCHANGED vars
  BY <1>9 DEF vars, Carried, TypeOK, Wanted, Outward, Homeward, StatusTells, DemandsKept,
              UsageKept, Seen, AskWith
<1> QED
  BY <1>2, <1>3, <1>4, <1>5, <1>6, <1>7, <1>8, <1>9 DEF Next

\* The inductive invariant of the conversation.
THEOREM CarriedInvariant == Spec => []Carried
BY CarriedInit, CarriedNext, PTL DEF Spec

(***************************************************************************)
(* Every variable has its type, and what is on its way to an adapter or    *)
(* comes from one is valid IR: the gateways dispatch nothing that          *)
(* Request.Validate refuses and the adapters answer nothing that           *)
(* Response.Validate refuses.                                              *)
(***************************************************************************)
THEOREM TypeCorrect == Spec => []TypeOK
<1>1. Carried => TypeOK
  BY DEF Carried
<1> QED
  BY <1>1, CarriedInvariant, PTL

(***************************************************************************)
(* The status tells the truth: a client that gets 400 has had no provider  *)
(* asked, 429 only comes from a provider's 429, 200 only from its answer.  *)
(***************************************************************************)
THEOREM StatusHonest == Spec => []StatusTells
<1>1. Carried => StatusTells
  BY DEF Carried
<1> QED
  BY <1>1, CarriedInvariant, PTL

(***************************************************************************)
(* Tools, choice, parallel calls, token limit and stop sequences survive   *)
(* the translations of any gateway and any adapter, for whatever a client  *)
(* wants and whatever the history of the conversation, or the request is   *)
(* refused.                                                                *)
(***************************************************************************)
THEOREM DemandsReachProvider == Spec => []DemandsKept
<1>1. Carried => DemandsKept
  BY DEF Carried
<1> QED
  BY <1>1, CarriedInvariant, PTL

(***************************************************************************)
(* The usage that a client reads is the one that the provider counted.     *)
(***************************************************************************)
THEOREM UsageReported == Spec => []UsageKept
<1>1. Carried => UsageKept
  BY DEF Carried
<1> QED
  BY <1>1, CarriedInvariant, PTL

-----------------------------------------------------------------------------
(***************************************************************************)
(* The answers: what a gateway makes of an IR response tells its calls, in *)
(* their order, and how it ended.                                          *)
(***************************************************************************)
\* The names and arguments of calls, in their order.
Pairs(calls) == [k \in DOMAIN calls |-> <<calls[k].name, calls[k].arguments>>]

\* Calls with the same names and arguments.
LEMMA PairsSame ==
    ASSUME NEW c, NEW d, IsSeq(c), IsSeq(d), Len(c) = Len(d),
           \A k \in 1..Len(c) : c[k].name = d[k].name /\ c[k].arguments = d[k].arguments
    PROVE  Pairs(c) = Pairs(d)
BY IsSeqFields DEF Pairs

\* How a client reads the finish reason of an IR response.
EndOf(finish) ==
    IF finish = "length" THEN "limit"
    ELSE IF finish = "content_filter" THEN "filter" ELSE "complete"

\* What is read of an answer has the calls of the IR response and its end.
Tells(response, read) ==
    /\ IsSeq(response.content)
    /\ Pairs(OfType(response.content, "tool_call")) = Pairs(read.calls)
    /\ EndOf(response.finish) = read.ended

\* The answers of the gateways.
LEMMA ChatAnswer ==
    ASSUME NEW r, IsSeq(r.content), Chat!FromIR(r).ok
    PROVE  Tells(r, Chat!Read(Chat!FromIR(r).value))
<1> DEFINE v == Chat!FromIR(r).value
           calls == OfType(r.content, "tool_call")
           texts == OfType(r.content, "text")
           filtered == r.finish = "content_filter" /\ texts # << >>
<1>1. IsSeq(calls)
  BY OfTypeMembers
<1>3. /\ v.calls = [k \in DOMAIN calls |->
                        Chat!Call(calls[k].id, calls[k].name, calls[k].arguments)]
      /\ v.finish = r.finish
      /\ v.refusal = filtered
  BY ChatSequences DEF Chat!FromIR, Chat!AcceptIf, Chat!Accepted, Chat!Refused
<1> HIDE DEF v, calls
<1>4. Pairs(calls) = Pairs(v.calls)
  <2>1. \A k \in DOMAIN calls : /\ v.calls[k].name = calls[k].name
                                /\ v.calls[k].arguments = calls[k].arguments
    BY <1>3 DEF Chat!Call
  <2>2. DOMAIN v.calls = DOMAIN calls
    BY <1>3
  <2> QED
    BY <2>1, <2>2 DEF Pairs
<1>5. Chat!Read(v).calls = v.calls
  BY DEF Chat!Read
<1>6. Chat!Read(v).ended = EndOf(r.finish)
  BY <1>3, Zenon DEF Chat!Read, EndOf
<1> QED
  BY <1>4, <1>5, <1>6 DEF Tells, calls, v

\* What is said comes before the calls: the calls are the last elements.
NoneOf(s, t) == \A k \in DOMAIN s : s[k].type # t
AllOf(s, t) == \A k \in DOMAIN s : s[k].type = t

\* Parts that are no calls, followed by calls.
LEMMA SaidThenCalls ==
    ASSUME NEW said, IsSeq(said), NEW calls, IsSeq(calls), NEW t,
           NoneOf(said, t), AllOf(calls, t)
    PROVE  /\ OfType(said \o calls, t) = calls
           /\ IsSeq(said \o calls)
           /\ ToSet(said \o calls) = ToSet(said) \cup ToSet(calls)
<1> DEFINE S == ToSet(said) \cup ToSet(calls)
<1>1. said \in Seq(S) /\ calls \in Seq(S)
  BY DEF IsSeq
<1>2. OfType(said \o calls, t) = OfType(said, t) \o OfType(calls, t)
  BY <1>1, OfTypeConcat
<1>3. OfType(said, t) = << >>
  <2>1. said \in Seq(ToSet(said)) /\ \A x \in ToSet(said) : x.type # t
    BY DEF IsSeq, ToSet, NoneOf
  <2> QED
    BY <2>1, OfTypeNone
<1>4. OfType(calls, t) = calls
  <2>1. calls \in Seq(ToSet(calls)) /\ \A x \in ToSet(calls) : x.type = t
    BY DEF IsSeq, ToSet, AllOf
  <2> QED
    BY <2>1, OfTypeAll
<1>5. << >> \o calls = calls /\ said \o calls \in Seq(S)
  BY <1>1
<1>6. IsSeq(said \o calls)
  BY <1>5, IsSeqOf, Zenon
<1>7. ToSet(said \o calls) = ToSet(said) \cup ToSet(calls)
  BY <1>1, ToSetConcat
<1> QED
  BY <1>2, <1>3, <1>4, <1>5, <1>6, <1>7

\* The answer of the Responses gateway tells what the IR response says.
LEMMA ResponsesAnswer ==
    ASSUME NEW r, IsSeq(r.content), Responses!FromIR(r).ok
    PROVE  Tells(r, Responses!Read(Responses!FromIR(r).value))
<1> DEFINE v == Responses!FromIR(r).value
           calls == OfType(r.content, "tool_call")
           texts == OfType(r.content, "text")
           said == IF texts = << >> THEN << >>
                   ELSE <<Responses!MessageItem("assistant",
                              [k \in DOMAIN texts |-> [type |-> "output_text"]])>>
           items == [k \in DOMAIN calls |->
                        Responses!CallItem(calls[k].id, calls[k].name, calls[k].arguments)]
<1>1. IsSeq(calls) /\ IsSeq(texts)
  BY OfTypeMembers
<1>2. /\ v.output = said \o items
      /\ v.reason = CASE r.finish = "length" -> "max_output_tokens"
                      [] r.finish = "content_filter" -> "content_filter"
                      [] OTHER -> "-"
  BY ResponsesSequences, Zenon DEF Responses!FromIR, Responses!AcceptIf, Responses!Accepted,
                            Responses!Refused
<1>3. /\ DOMAIN calls = 1..Len(calls) /\ Len(calls) \in Nat
      /\ DOMAIN texts = 1..Len(texts) /\ Len(texts) \in Nat
  BY <1>1, IsSeqFields
<1>4. /\ IsSeq(items) /\ DOMAIN items = DOMAIN calls
      /\ \A k \in DOMAIN calls : /\ items[k].type = "function_call"
                                 /\ items[k].name = calls[k].name
                                 /\ items[k].arguments = calls[k].arguments
  <2>1. items = [k \in 1..Len(calls) |-> items[k]]
    BY <1>3
  <2>2. IsSeq(items)
    BY <1>3, <2>1, IsSeqMap
  <2> QED
    BY <2>2 DEF Responses!CallItem
<1>5. /\ IsSeq(said)
      /\ \A x \in ToSet(said) :
            x.type = "message" /\ \A part \in ToSet(x.content) : part = [type |-> "output_text"]
  <2>1. CASE texts = << >>
    BY <2>1 DEF IsSeq, ToSet
  <2>2. CASE texts # << >>
    <3> DEFINE m == Responses!MessageItem("assistant",
                        [k \in DOMAIN texts |-> [type |-> "output_text"]])
    <3>1. /\ m.type = "message"
          /\ \A part \in ToSet(m.content) : part = [type |-> "output_text"]
      BY DEF Responses!MessageItem, ToSet
    <3> HIDE DEF m
    <3>2. said = <<m>>
      BY <2>2 DEF m
    <3> HIDE DEF said
    <3>3. ToSet(said) = {m} /\ said \in Seq({m})
      BY <3>2 DEF ToSet
    <3> QED
      BY <3>1, <3>3, IsSeqOf
  <2> QED
    BY <2>1, <2>2
<1> HIDE DEF v, calls, texts, said, items
<1>6. /\ OfType(v.output, "function_call") = items
      /\ ToSet(v.output) = ToSet(said) \cup ToSet(items)
  <2>1. NoneOf(said, "function_call")
    BY <1>5 DEF NoneOf, ToSet
  <2>2. AllOf(items, "function_call")
    BY <1>4 DEF AllOf
  <2> QED
    BY <1>2, <1>4, <1>5, <2>1, <2>2, SaidThenCalls
<1>7. Pairs(Responses!Read(v).calls) = Pairs(calls)
  <2>1. Responses!Read(v).calls = [k \in DOMAIN items |->
            [id |-> items[k].id, name |-> items[k].name, arguments |-> items[k].arguments]]
    BY <1>6, ResponsesSequences DEF Responses!Read, Responses!OutputCalls
  <2> QED
    BY <1>4, <2>1 DEF Pairs
<1>8. \A item \in ToSet(v.output) :
          ~(item.type = "message" /\ [type |-> "refusal"] \in ToSet(item.content))
  <2>2. \A x \in ToSet(items) : x.type # "message"
    BY <1>4 DEF ToSet
  <2>3. [type |-> "refusal"] # [type |-> "output_text"]
    OBVIOUS
  <2> QED
    BY <1>5, <1>6, <2>2, <2>3
<1>9. Responses!Read(v).ended = EndOf(r.finish)
  <2>1. Responses!Read(v).ended =
            IF v.reason = "max_output_tokens" THEN "limit"
            ELSE IF v.reason = "content_filter" THEN "filter" ELSE "complete"
    BY <1>8, ResponsesSequences DEF Responses!Read
  <2> QED
    BY <1>2, <2>1 DEF EndOf
<1> QED
  BY <1>7, <1>9 DEF Tells, calls, v

\* A part for a part: calls stay calls.
Mirrors(u, s, b, a) ==
    /\ u = [k \in DOMAIN s |-> u[k]]
    /\ \A k \in DOMAIN s : s[k].type = a <=> u[k].type = b

\* The elements of type b of u are made of those of type a of s.
Aligned(u, s, b, a) ==
    /\ IsSeq(u) /\ IsSeq(OfType(s, a)) /\ IsSeq(OfType(u, b))
    /\ Len(OfType(s, a)) = Len(OfType(u, b))
    /\ \A j \in 1..Len(OfType(s, a)) : \E k \in DOMAIN s :
          s[k].type = a /\ OfType(s, a)[j] = s[k] /\ OfType(u, b)[j] = u[k]

\* A copy, element by element, that changes types one to one.
LEMMA MirrorAligned ==
    ASSUME NEW s, IsSeq(s), NEW u, NEW a, NEW b, Mirrors(u, s, b, a)
    PROVE  Aligned(u, s, b, a)
<1>1. Len(s) \in Nat /\ DOMAIN s = 1..Len(s) /\ s \in Seq(ToSet(s))
  BY IsSeqFields
<1>2. IsSeq(u) /\ Len(u) = Len(s)
  BY <1>1, IsSeqMap, Zenon DEF Mirrors
<1>3. u \in Seq(ToSet(u))
  BY <1>2, IsSeqFields
<1>4. IsSeq(OfType(s, a)) /\ IsSeq(OfType(u, b))
  BY <1>2, OfTypeMembers
<1>5. PICK n \in Nat : n = Len(s)
  BY <1>1, Zenon
<1>6. \A i \in 1..n : s[i].type = a <=> u[i].type = b
  BY <1>1, <1>5 DEF Mirrors
<1>7. InSamePlaces(s, u, a, b, n)
  <2>1. PICK S, T : S = ToSet(s) /\ T = ToSet(u)
    OBVIOUS
  <2>2. s \in Seq(S) /\ u \in Seq(T) /\ Len(s) = n /\ Len(u) = n
    BY <1>1, <1>2, <1>3, <1>5, <2>1
  <2> QED
    BY <1>6, <2>2, OfTypePaired
<1>8. DOMAIN s = 1..n
  BY <1>1, <1>5
<1> QED
  BY <1>2, <1>4, <1>7, <1>8, Zenon DEF Aligned, InSamePlaces

\* The answer of the Anthropic gateway tells what the IR response says.
LEMMA AnthropicAnswer ==
    ASSUME NEW r, IsSeq(r.content), Messages!FromIRResponse(r).ok
    PROVE  Tells(r, Messages!Read(Messages!FromIRResponse(r).value))
<1> DEFINE v == Messages!FromIRResponse(r).value
           BlockOf(part) == IF part.type = "text" THEN Messages!Text
                            ELSE Messages!ToolUse(part.id, part.name, part.arguments)
<1>1. /\ ResponseValid(r)
      /\ OfType(r.content, "image") = << >>
      /\ v.content = [k \in DOMAIN r.content |-> BlockOf(r.content[k])]
      /\ v.stopReason = CASE r.finish = "stop" ->
                                IF r.stopSequence THEN "stop_sequence" ELSE "end_turn"
                          [] r.finish = "length" -> "max_tokens"
                          [] r.finish = "tool_calls" -> "tool_use"
                          [] r.finish = "content_filter" -> "refusal"
  BY MessagesSequences, SameValidation, Zenon DEF Messages!FromIRResponse, Messages!AcceptIf,
         Messages!Accepted, Messages!Refused
<1> HIDE DEF v
<1>2. \A k \in DOMAIN r.content : r.content[k].type \in {"text", "tool_call"}
  <2>1. \A k \in DOMAIN r.content : r.content[k].type # "image"
    BY <1>1, OfTypeMembers
  <2> QED
    BY <1>1, <2>1 DEF ResponseValid
<1>3. \A k \in DOMAIN r.content :
          /\ r.content[k].type = "tool_call" <=> v.content[k].type = "tool_use"
          /\ r.content[k].type = "tool_call" =>
                /\ v.content[k].name = r.content[k].name
                /\ v.content[k].input = r.content[k].arguments
  BY <1>1, <1>2 DEF Messages!Text, Messages!ToolUse
<1>4. Mirrors(v.content, r.content, "tool_use", "tool_call")
  BY <1>1, <1>3 DEF Mirrors
<1> DEFINE calls == OfType(r.content, "tool_call")
           uses == OfType(v.content, "tool_use")
<1>5. /\ IsSeq(calls) /\ IsSeq(uses) /\ Len(calls) = Len(uses)
      /\ \A j \in 1..Len(calls) : \E k \in DOMAIN r.content :
            r.content[k].type = "tool_call" /\ calls[j] = r.content[k] /\ uses[j] = v.content[k]
  BY <1>4, MirrorAligned DEF Aligned
<1> HIDE DEF calls, uses
<1>6. \A j \in 1..Len(calls) : uses[j].name = calls[j].name /\ uses[j].input = calls[j].arguments
  BY <1>3, <1>5
<1>7. DOMAIN calls = 1..Len(calls) /\ DOMAIN uses = 1..Len(calls)
  BY <1>5, IsSeqFields
<1>8. Messages!Read(v).calls = [k \in DOMAIN uses |->
          [id |-> uses[k].id, name |-> uses[k].name, arguments |-> uses[k].input]]
  BY MessagesSequences DEF Messages!Read, uses
<1>9. Pairs(calls) = Pairs(Messages!Read(v).calls)
  BY <1>6, <1>7, <1>8 DEF Pairs
<1>10. Messages!Read(v).ended = EndOf(r.finish)
  <2>1. r.finish \in {"stop", "length", "tool_calls", "content_filter"}
    BY <1>1 DEF ResponseValid
  <2> QED
    BY <1>1, <2>1 DEF EndOf, Messages!Read, Messages!FinishOf
<1> QED
  BY <1>9, <1>10 DEF Tells, calls, v

\* The answer of the Gemini gateway tells what the IR response says.
LEMMA GeminiAnswer ==
    ASSUME NEW r, IsSeq(r.content), Content!FromIRResponse(r).ok
    PROVE  Tells(r, Content!Read(Content!FromIRResponse(r).value))
<1> DEFINE v == Content!FromIRResponse(r).value
<1>1. /\ ResponseValid(r)
      /\ v.parts = [k \in DOMAIN r.content |-> Content!contentToProvider(r.content[k], r.model)]
      /\ v.blocked = FALSE
      /\ v.finish = CASE r.finish = "length" -> "MAX_TOKENS"
                      [] r.finish = "content_filter" -> "SAFETY"
                      [] OTHER -> "STOP"
  BY SameValidation
     DEF Content!FromIRResponse, Content!AcceptIf, Content!Accepted, Content!Refused
<1> HIDE DEF v
<1>2. \A k \in DOMAIN r.content : r.content[k].type \in {"text", "image", "tool_call"}
  BY <1>1 DEF ResponseValid
<1>3. \A k \in DOMAIN r.content :
          /\ r.content[k].type = "tool_call" <=> v.parts[k].type = "functionCall"
          /\ r.content[k].type = "tool_call" =>
                /\ v.parts[k].name = r.content[k].name
                /\ v.parts[k].args = r.content[k].arguments
  BY <1>1, <1>2 DEF Content!contentToProvider, Content!FunctionCall
<1>4. Mirrors(v.parts, r.content, "functionCall", "tool_call")
  BY <1>1, <1>3 DEF Mirrors
<1> DEFINE calls == OfType(r.content, "tool_call")
           uses == OfType(v.parts, "functionCall")
<1>5. /\ IsSeq(calls) /\ IsSeq(uses) /\ Len(calls) = Len(uses)
      /\ \A j \in 1..Len(calls) : \E k \in DOMAIN r.content :
            r.content[k].type = "tool_call" /\ calls[j] = r.content[k] /\ uses[j] = v.parts[k]
  BY <1>4, MirrorAligned DEF Aligned
<1> HIDE DEF calls, uses
<1>6. \A j \in 1..Len(calls) : uses[j].name = calls[j].name /\ uses[j].args = calls[j].arguments
  BY <1>3, <1>5
<1>7. DOMAIN calls = 1..Len(calls) /\ DOMAIN uses = 1..Len(calls)
  BY <1>5, IsSeqFields
<1>8. Content!Read(v).calls = [k \in DOMAIN uses |->
          [id |-> uses[k].id, name |-> uses[k].name, arguments |-> uses[k].args]]
  BY ContentSequences DEF Content!Read, uses
<1>9. Pairs(calls) = Pairs(Content!Read(v).calls)
  BY <1>6, <1>7, <1>8 DEF Pairs
<1>10. Content!Read(v).ended = EndOf(r.finish)
  BY <1>1 DEF EndOf, Content!Read
<1> QED
  BY <1>9, <1>10 DEF Tells, calls, v

-----------------------------------------------------------------------------
(***************************************************************************)
(* The replies: what an adapter makes of one tells what it told.           *)
(***************************************************************************)
ChatReplyFormed(body) ==
    IsSeq(body.calls) /\ ~(body.finish = "length" /\ body.refusal)

\* The form of the replies of OpenAI Responses.
ResponsesReplyFormed(body) ==
    /\ IsSeq(body.output)
    /\ \A item \in ToSet(body.output) : item.type = "message" =>
          IsSeq(item.content) /\ \A part \in ToSet(item.content) : part = [type |-> part.type]
    /\ body.status = "completed" => body.reason = "-"

\* The form of the replies of Anthropic.
AnthropicReplyFormed(body) == IsSeq(body.content)

\* The form of the replies of Gemini.
GeminiReplyFormed(body) ==
    /\ IsSeq(body.parts)
    /\ body.candidates = 0 => body.parts = << >>
    /\ body.blocked => body.candidates = 0 /\ body.finish = "-"

\* The IR response of the Chat adapter tells what the reply says.
LEMMA ChatReplyTold ==
    ASSUME NEW body, NEW ir, ChatReplyFormed(body), Chat!FromChatResponse(body, ir).ok
    PROVE  Tells(Chat!FromChatResponse(body, ir).value, Chat!Read(body))
<1> DEFINE v == Chat!FromChatResponse(body, ir).value
           said == IF body.content \/ body.refusal THEN <<Chat!Text>> ELSE << >>
           calls == [k \in DOMAIN body.calls |->
                        Chat!ToolCall(body.calls[k].id, body.calls[k].name,
                                      body.calls[k].arguments, Chat!NoSignature)]
<1>1. /\ v.content = said \o calls
      /\ v.finish = IF body.refusal THEN "content_filter" ELSE Chat!FinishOf(body.finish)
      /\ Chat!FinishOf(body.finish) # "-"
  BY Zenon DEF Chat!FromChatResponse, Chat!AcceptIf, Chat!Accepted, Chat!Refused, Chat!Response
<1>2. /\ IsSeq(said)
      /\ \A x \in ToSet(said) : x.type = "text"
  <2>1. IsSeq(<< >>) /\ ToSet(<< >>) = {}
    BY DEF IsSeq, ToSet
  <2>2. IsSeq(<<Chat!Text>>) /\ ToSet(<<Chat!Text>>) = {Chat!Text}
    BY DEF IsSeq, ToSet
  <2>3. Chat!Text.type = "text"
    BY DEF Chat!Text
  <2>4. said = << >> \/ said = <<Chat!Text>>
    OBVIOUS
  <2> HIDE DEF said
  <2> QED
    BY <2>1, <2>2, <2>3, <2>4
<1>3. DOMAIN body.calls = 1..Len(body.calls) /\ Len(body.calls) \in Nat
  BY IsSeqFields DEF ChatReplyFormed
<1>4. /\ IsSeq(calls) /\ DOMAIN calls = DOMAIN body.calls
      /\ \A k \in DOMAIN calls : /\ calls[k].type = "tool_call"
                                 /\ calls[k].name = body.calls[k].name
                                 /\ calls[k].arguments = body.calls[k].arguments
  <2>1. calls = [k \in 1..Len(body.calls) |-> calls[k]]
    BY <1>3
  <2>2. IsSeq(calls)
    BY <1>3, <2>1, IsSeqMap, Zenon
  <2> QED
    BY <2>2 DEF Chat!ToolCall
<1> HIDE DEF v, said, calls
<1>5. OfType(v.content, "tool_call") = calls /\ IsSeq(v.content)
  <2>1. NoneOf(said, "tool_call")
    BY <1>2 DEF NoneOf, ToSet
  <2>2. AllOf(calls, "tool_call")
    BY <1>4 DEF AllOf
  <2> QED
    BY <1>1, <1>2, <1>4, <2>1, <2>2, SaidThenCalls
<1>6. Pairs(calls) = Pairs(Chat!Read(body).calls)
  BY <1>4 DEF Pairs, Chat!Read
<1>7. Chat!Read(body).ended = EndOf(v.finish)
  BY <1>1 DEF Chat!Read, EndOf, Chat!FinishOf, ChatReplyFormed
<1> QED
  BY <1>5, <1>6, <1>7 DEF Tells, v

\* A sequence of one part, and of none.
LEMMA OfTypeOne ==
    ASSUME NEW x, NEW t
    PROVE  /\ IsSeq(<<x>>)
           /\ x.type = t => OfType(<<x>>, t) = <<x>>
           /\ x.type # t => OfType(<<x>>, t) = << >>
<1> DEFINE s == <<x>>
<1>1. s \in Seq({x}) /\ DOMAIN s = {1} /\ s[1] = x
  OBVIOUS
<1> HIDE DEF s
<1>2. IsSeq(s)
  BY <1>1, IsSeqOf
<1>3. x.type = t => OfType(s, t) = s
  <2> SUFFICES ASSUME x.type = t PROVE OfType(s, t) = s
    OBVIOUS
  <2>1. \A y \in {x} : y.type = t
    OBVIOUS
  <2> QED
    BY ONLY <1>1, <2>1, OfTypeAll
<1>4. x.type # t => OfType(s, t) = << >>
  BY <1>1, <1>2, OfTypeMembers
<1> QED
  BY <1>2, <1>3, <1>4 DEF s

\* Nothing has no elements of a type.
LEMMA OfTypeZero ==
    ASSUME NEW t
    PROVE  OfType(<< >>, t) = << >> /\ IsSeq(<< >>)
<1>1. IsSeq(<< >>)
  BY DEF IsSeq
<1>2. \A i \in DOMAIN << >> : (<< >>)[i].type # t
  OBVIOUS
<1> QED
  BY <1>1, <1>2, OfTypeMembers

\* The IR response of the Anthropic adapter tells what the reply says.
LEMMA AnthropicReplyTold ==
    ASSUME NEW body, NEW ir, AnthropicReplyFormed(body), Messages!ToIRResponse(body, ir).ok
    PROVE  Tells(Messages!ToIRResponse(body, ir).value, Messages!Read(body))
<1> DEFINE v == Messages!ToIRResponse(body, ir).value
           PartOf(block) == IF block.type = "tool_use"
                            THEN Messages!ToolCall(block.id, block.name, block.input,
                                                   Messages!NoSignature)
                            ELSE block
<1>1. /\ v.content = [k \in DOMAIN body.content |-> PartOf(body.content[k])]
      /\ v.finish = Messages!FinishOf(body.stopReason)
      /\ ResponseValid(v)
      /\ \A block \in ToSet(body.content) : block.type \in {"text", "tool_use"}
  BY MessagesSequences, SameValidation
     DEF Messages!ToIRResponse, Messages!AcceptIf, Messages!Accepted, Messages!Refused,
         Messages!Response
<1> HIDE DEF v
<1>2. IsSeq(body.content)
  BY DEF AnthropicReplyFormed
<1>3. \A k \in DOMAIN body.content : body.content[k].type \in {"text", "tool_use"}
  BY <1>1 DEF ToSet
<1>4. \A k \in DOMAIN body.content :
          /\ body.content[k].type = "tool_use" <=> v.content[k].type = "tool_call"
          /\ body.content[k].type = "tool_use" =>
                /\ v.content[k].name = body.content[k].name
                /\ v.content[k].arguments = body.content[k].input
  BY <1>1, <1>3 DEF Messages!ToolCall
<1>5. Mirrors(v.content, body.content, "tool_call", "tool_use")
  BY <1>1, <1>4 DEF Mirrors
<1> DEFINE calls == OfType(v.content, "tool_call")
           uses == OfType(body.content, "tool_use")
<1>6. /\ IsSeq(v.content) /\ IsSeq(calls) /\ IsSeq(uses) /\ Len(calls) = Len(uses)
      /\ \A j \in 1..Len(uses) : \E k \in DOMAIN body.content :
            /\ body.content[k].type = "tool_use"
            /\ uses[j] = body.content[k] /\ calls[j] = v.content[k]
  BY <1>2, <1>5, MirrorAligned DEF Aligned
<1> HIDE DEF calls, uses
<1>7. \A j \in 1..Len(calls) : uses[j].name = calls[j].name /\ uses[j].input = calls[j].arguments
  BY <1>4, <1>6
<1>8. DOMAIN calls = 1..Len(calls) /\ DOMAIN uses = 1..Len(calls)
  BY <1>6, IsSeqFields
<1>9. Messages!Read(body).calls = [k \in DOMAIN uses |->
          [id |-> uses[k].id, name |-> uses[k].name, arguments |-> uses[k].input]]
  BY MessagesSequences DEF Messages!Read, uses
<1>10. Pairs(calls) = Pairs(Messages!Read(body).calls)
  BY <1>7, <1>8, <1>9 DEF Pairs
<1>11. Messages!Read(body).ended = EndOf(v.finish)
  <2>1. v.finish # "-"
    BY <1>1 DEF ResponseValid
  <2> QED
    BY <1>1, <2>1 DEF EndOf, Messages!Read, Messages!FinishOf
<1> QED
  BY <1>6, <1>10, <1>11 DEF Tells, calls, v

\* The IR response of the Responses adapter tells what the reply says.
LEMMA ResponsesReplyTold ==
    ASSUME NEW body, NEW ir, ResponsesReplyFormed(body), Responses!ToIRResponse(body, ir).ok
    PROVE  Tells(Responses!ToIRResponse(body, ir).value, Responses!Read(body))
<1> DEFINE v == Responses!ToIRResponse(body, ir).value
           output == body.output
           rows == [i \in DOMAIN output |-> Responses!ItemContent(output[i])]
<1>1. /\ v.content = FlattenSeq(rows)
      /\ v.finish = Responses!FinishOf(body, v.content)
      /\ ResponseValid(v)
      /\ body.status \in {"completed", "incomplete"}
  BY ResponsesSequences, SameValidation
     DEF Responses!ToIRResponse, Responses!AcceptIf, Responses!Accepted, Responses!Refused,
         Responses!Response
<1>2. IsSeq(output) /\ \A i \in DOMAIN output : output[i].type = "message" => IsSeq(output[i].content)
  BY DEF ResponsesReplyFormed, ToSet
<1>3. DOMAIN output = 1..Len(output) /\ Len(output) \in Nat
  BY <1>2, IsSeqFields
<1> HIDE DEF v, output
<1>4. ASSUME NEW i \in DOMAIN output
      PROVE  /\ IsSeq(rows[i])
             /\ \/ output[i].type = "function_call" /\ Len(OfType(rows[i], "tool_call")) = 1
                \/ output[i].type # "function_call" /\ OfType(rows[i], "tool_call") = << >>
             /\ output[i].type = "function_call" =>
                   /\ OfType(rows[i], "tool_call")[1].name = output[i].name
                   /\ OfType(rows[i], "tool_call")[1].arguments = output[i].arguments
  <2>1. CASE output[i].type = "message"
    <3> DEFINE texts == [k \in DOMAIN output[i].content |-> Responses!Text]
    <3>1. rows[i] = texts
      BY <2>1 DEF Responses!ItemContent
    <3>2. DOMAIN output[i].content = 1..Len(output[i].content) /\ Len(output[i].content) \in Nat
      BY <1>2, <2>1, IsSeqFields
    <3>3. IsSeq(texts)
      BY <3>2, IsSeqMap, Zenon
    <3>4. \A k \in DOMAIN texts : texts[k].type # "tool_call"
      BY DEF Responses!Text
    <3> HIDE DEF texts
    <3>5. OfType(texts, "tool_call") = << >>
      BY <3>3, <3>4, OfTypeMembers
    <3> QED
      BY <2>1, <3>1, <3>3, <3>5
  <2>2. CASE output[i].type = "function_call"
    <3> DEFINE call == Responses!ToolCall(output[i].id, output[i].name, output[i].arguments,
                                          Responses!NoSignature)
    <3>1. rows[i] = <<call>>
      BY <2>2 DEF Responses!ItemContent
    <3>2. /\ call.type = "tool_call" /\ call.name = output[i].name
          /\ call.arguments = output[i].arguments
      BY DEF Responses!ToolCall
    <3> HIDE DEF call
    <3>3. OfType(<<call>>, "tool_call") = <<call>> /\ IsSeq(<<call>>)
      BY <3>2, OfTypeOne
    <3> QED
      BY <2>2, <3>1, <3>2, <3>3
  <2>3. CASE output[i].type \notin {"message", "function_call"}
    <3>1. rows[i] = << >>
      BY <2>3 DEF Responses!ItemContent
    <3> QED
      BY <2>3, <3>1, OfTypeZero
  <2> QED
    BY <2>1, <2>2, <2>3
<1>5. AreRows(rows, Len(output))
  BY <1>3, <1>4 DEF AreRows
<1>6. RowFor(output, rows, "function_call", "tool_call")
  BY <1>4 DEF RowFor
<1>7. \A i \in DOMAIN output : output[i].type = "function_call" =>
          /\ OfType(rows[i], "tool_call")[1].name = output[i].name
          /\ OfType(rows[i], "tool_call")[1].arguments = output[i].arguments
  BY <1>4
<1> HIDE DEF rows
<1> DEFINE calls == OfType(v.content, "tool_call")
           items == OfType(output, "function_call")
<1>8. /\ IsSeq(v.content) /\ IsSeq(calls) /\ IsSeq(items) /\ Len(items) = Len(calls)
      /\ \A j \in 1..Len(items) : \E i \in DOMAIN output :
            /\ output[i].type = "function_call"
            /\ items[j] = output[i] /\ calls[j] = OfType(rows[i], "tool_call")[1]
  BY <1>1, <1>2, <1>5, <1>6, RowsAligned DEF RowsAlike
<1> HIDE DEF calls, items
<1>9. \A j \in 1..Len(calls) : items[j].name = calls[j].name /\ items[j].arguments = calls[j].arguments
  BY <1>7, <1>8
<1>10. DOMAIN calls = 1..Len(calls) /\ DOMAIN items = 1..Len(calls)
  BY <1>8, IsSeqFields
<1>11. Responses!Read(body).calls = [k \in DOMAIN items |->
          [id |-> items[k].id, name |-> items[k].name, arguments |-> items[k].arguments]]
  BY ResponsesSequences DEF Responses!Read, Responses!OutputCalls, items, output
<1>12. Pairs(calls) = Pairs(Responses!Read(body).calls)
  BY <1>9, <1>10, <1>11 DEF Pairs
<1>13. Responses!Read(body).ended = EndOf(v.finish)
  <2> DEFINE refused == \E item \in ToSet(body.output) :
                            /\ item.type = "message"
                            /\ \E part \in ToSet(item.content) : part.type = "refusal"
  <2>1. refused <=> \E item \in ToSet(body.output) :
                        item.type = "message" /\ [type |-> "refusal"] \in ToSet(item.content)
    BY DEF ResponsesReplyFormed
  <2>2. Responses!Read(body).ended =
            IF body.reason = "max_output_tokens" THEN "limit"
            ELSE IF body.reason = "content_filter" \/ refused THEN "filter" ELSE "complete"
    BY <2>1, ResponsesSequences DEF Responses!Read
  <2>3. v.finish =
            IF body.status = "incomplete"
            THEN IF body.reason = "max_output_tokens" THEN "length"
                 ELSE IF body.reason = "content_filter" THEN "content_filter" ELSE "-"
            ELSE IF refused THEN "content_filter"
            ELSE IF OfType(v.content, "tool_call") # << >> THEN "tool_calls" ELSE "stop"
    BY <1>1, ResponsesSequences DEF Responses!FinishOf
  <2>4. v.finish # "-" /\ (body.status = "completed" => body.reason = "-")
    BY <1>1 DEF ResponseValid, ResponsesReplyFormed
  <2> HIDE DEF refused
  <2> QED
    BY <1>1, <2>2, <2>3, <2>4 DEF EndOf
<1> QED
  BY <1>8, <1>12, <1>13 DEF Tells, calls, v

\* The IR response of the Gemini adapter tells what the reply says.
LEMMA GeminiReplyTold ==
    ASSUME NEW body, NEW ir, GeminiReplyFormed(body), Content!ToIRResponse(body, ir).ok
    PROVE  Tells(Content!ToIRResponse(body, ir).value, Content!Read(body))
<1> DEFINE v == Content!ToIRResponse(body, ir).value
           parts == body.parts
           Call(i) == Content!ToolCall(IF parts[i].id = Content!NoID
                                       THEN Content!ReplyID(ir.id, i) ELSE parts[i].id,
                                       parts[i].name, parts[i].args, parts[i].signature)
           RowAt(i) == CASE parts[i].type = "thought" -> << >>
                         [] parts[i].type = "text" -> <<Content!Text>>
                         [] parts[i].type = "inlineData" -> <<Content!Image("inline")>>
                         [] parts[i].type = "functionCall" -> <<Call(i)>>
           rows == [i \in DOMAIN parts |-> RowAt(i)]
<1>1. CASE body.candidates = 0
  <2>1. v.content = << >> /\ v.finish = "content_filter" /\ body.blocked
    BY <1>1 DEF Content!ToIRResponse, Content!AcceptIf, Content!Accepted, Content!Refused,
                Content!Response
  <2>2. parts = << >> /\ body.finish = "-"
    BY <1>1, <2>1 DEF GeminiReplyFormed
  <2>3. Content!Read(body).calls = << >>
    <3>1. OfType(<< >>, "functionCall") = << >>
      BY OfTypeZero
    <3> QED
      BY <2>2, <3>1, ContentSequences DEF Content!Read
  <2>4. Content!Read(body).ended = "filter"
    BY <2>1, <2>2 DEF Content!Read
  <2> HIDE DEF v
  <2>5. OfType(v.content, "tool_call") = << >> /\ IsSeq(v.content)
    BY <2>1, OfTypeZero
  <2> QED
    BY <2>1, <2>3, <2>4, <2>5 DEF Tells, EndOf, v
<1>2. CASE body.candidates # 0
  <2>1. /\ v.content = FlattenSeq(rows)
        /\ v.finish = Content!finishReasonToIR(body.finish,
                          OfType(FlattenSeq(rows), "tool_call") # << >>)
        /\ ResponseValid(v)
        /\ \A part \in ToSet(parts) :
              part.type \in {"thought", "text", "inlineData", "functionCall"}
    BY <1>2, ContentSequences, SameValidation, Zenon DEF Content!ToIRResponse,
           Content!AcceptIf, Content!Accepted, Content!Refused,
           Content!Response
  <2>2. IsSeq(parts) /\ ~body.blocked
    BY <1>2 DEF GeminiReplyFormed
  <2>3. DOMAIN parts = 1..Len(parts) /\ Len(parts) \in Nat
    BY <2>2, IsSeqFields
  <2> HIDE DEF v, parts
  <2>4. ASSUME NEW i \in DOMAIN parts
        PROVE  /\ IsSeq(rows[i])
               /\ \/ parts[i].type = "functionCall" /\ Len(OfType(rows[i], "tool_call")) = 1
                  \/ parts[i].type # "functionCall" /\ OfType(rows[i], "tool_call") = << >>
               /\ parts[i].type = "functionCall" =>
                     /\ OfType(rows[i], "tool_call")[1].name = parts[i].name
                     /\ OfType(rows[i], "tool_call")[1].arguments = parts[i].args
    <3>1. parts[i].type \in {"thought", "text", "inlineData", "functionCall"}
      BY <2>1 DEF ToSet
    <3>2. CASE parts[i].type = "thought"
      <4>1. rows[i] = << >>
        BY <3>2
      <4> QED
        BY <3>2, <4>1, OfTypeZero
    <3>3. CASE parts[i].type = "text"
      <4>1. rows[i] = <<Content!Text>> /\ Content!Text.type = "text"
        BY <3>3 DEF Content!Text
      <4> QED
        BY <3>3, <4>1, OfTypeOne
    <3>4. CASE parts[i].type = "inlineData"
      <4> DEFINE image == Content!Image("inline")
      <4>1. rows[i] = <<image>> /\ image.type = "image"
        BY <3>4 DEF Content!Image
      <4> HIDE DEF image
      <4> QED
        BY <3>4, <4>1, OfTypeOne
    <3>5. CASE parts[i].type = "functionCall"
      <4> DEFINE call == Call(i)
      <4>1. rows[i] = <<call>>
        BY <3>5
      <4>2. /\ call.type = "tool_call" /\ call.name = parts[i].name
            /\ call.arguments = parts[i].args
        BY DEF Content!ToolCall
      <4> HIDE DEF call
      <4>3. OfType(<<call>>, "tool_call") = <<call>> /\ IsSeq(<<call>>)
        BY <4>2, OfTypeOne
      <4> QED
        BY <3>5, <4>1, <4>2, <4>3
    <3> QED
      BY <3>1, <3>2, <3>3, <3>4, <3>5
  <2>5. AreRows(rows, Len(parts))
    <3>1. rows = [i \in 1..Len(parts) |-> rows[i]]
      <4> HIDE DEF RowAt
      <4> QED
        BY <2>3
    <3>2. \A i \in 1..Len(parts) : IsSeq(rows[i])
      BY <2>3, <2>4, Zenon
    <3> HIDE DEF rows
    <3> QED
      BY <3>1, <3>2 DEF AreRows
  <2>6. RowFor(parts, rows, "functionCall", "tool_call")
    BY <2>4, Zenon DEF RowFor
  <2>7. \A i \in DOMAIN parts : parts[i].type = "functionCall" =>
            /\ OfType(rows[i], "tool_call")[1].name = parts[i].name
            /\ OfType(rows[i], "tool_call")[1].arguments = parts[i].args
    BY <2>4
  <2> HIDE DEF rows
  <2> DEFINE calls == OfType(v.content, "tool_call")
             items == OfType(parts, "functionCall")
  <2>8. /\ IsSeq(v.content) /\ IsSeq(calls) /\ IsSeq(items) /\ Len(items) = Len(calls)
        /\ \A j \in 1..Len(items) : \E i \in DOMAIN parts :
              /\ parts[i].type = "functionCall"
              /\ items[j] = parts[i] /\ calls[j] = OfType(rows[i], "tool_call")[1]
    BY <2>1, <2>2, <2>5, <2>6, RowsAligned DEF RowsAlike
  <2> HIDE DEF calls, items
  <2>9. \A j \in 1..Len(calls) : items[j].name = calls[j].name /\ items[j].args = calls[j].arguments
    BY <2>7, <2>8
  <2>10. DOMAIN calls = 1..Len(calls) /\ DOMAIN items = 1..Len(calls)
    BY <2>8, IsSeqFields
  <2>11. Content!Read(body).calls = [k \in DOMAIN items |->
            [id |-> items[k].id, name |-> items[k].name, arguments |-> items[k].args]]
    BY ContentSequences DEF Content!Read, items, parts
  <2>12. Pairs(calls) = Pairs(Content!Read(body).calls)
    BY <2>9, <2>10, <2>11 DEF Pairs
  <2>13. Content!Read(body).ended = EndOf(v.finish)
    <3>1. v.finish # "-"
      BY <2>1 DEF ResponseValid
    <3> QED
      BY <2>1, <2>2, <3>1 DEF EndOf, Content!Read, Content!finishReasonToIR
  <2> QED
    BY <2>8, <2>12, <2>13 DEF Tells, calls, v
<1> QED
  BY <1>1, <1>2

\* Tuples are sequences.
LEMMA IsSeqTuples ==
    /\ IsSeq(<< >>)
    /\ \A a : IsSeq(<<a>>) /\ ToSet(<<a>>) = {a}
    /\ \A a, b : IsSeq(<<a, b>>) /\ ToSet(<<a, b>>) = {a, b}
    /\ \A a, b, c : IsSeq(<<a, b, c>>) /\ ToSet(<<a, b, c>>) = {a, b, c}
<1>1. IsSeq(<< >>)
  BY DEF IsSeq
<1>2. ASSUME NEW a PROVE IsSeq(<<a>>) /\ ToSet(<<a>>) = {a}
  <2>1. <<a>> \in Seq({a})
    OBVIOUS
  <2>2. ToSet(<<a>>) = {a}
    BY DEF ToSet
  <2> QED
    BY <2>1, <2>2 DEF IsSeq
<1>3. ASSUME NEW a, NEW b PROVE IsSeq(<<a, b>>) /\ ToSet(<<a, b>>) = {a, b}
  <2>1. <<a, b>> \in Seq({a, b})
    OBVIOUS
  <2>2. ToSet(<<a, b>>) = {a, b}
    BY DEF ToSet
  <2> QED
    BY <2>1, <2>2 DEF IsSeq
<1>4. ASSUME NEW a, NEW b, NEW c PROVE IsSeq(<<a, b, c>>) /\ ToSet(<<a, b, c>>) = {a, b, c}
  <2>1. <<a, b, c>> \in Seq({a, b, c})
    OBVIOUS
  <2>2. ToSet(<<a, b, c>>) = {a, b, c}
    BY DEF ToSet
  <2> QED
    BY <2>1, <2>2 DEF IsSeq
<1> QED
  BY <1>1, <1>2, <1>3, <1>4

\* The replies of OpenAI Chat have their form.
LEMMA ChatFormed ==
    ASSUME NEW n, NEW body \in {Chat!Talk} \cup Chat!ToolReplies(n) \cup Chat!OddReplies(n)
    PROVE  ChatReplyFormed(body)
<1> DEFINE Plain_(r) == IsSeq(r.calls) /\ ~r.refusal
           T1 == [Chat!Talk EXCEPT !.choices = 0]
           T2 == [Chat!Talk EXCEPT !.refusal = TRUE]
           T3 == [Chat!Talk EXCEPT !.refusal = TRUE, !.content = FALSE]
<1>1. \A content, calls, finish, cached :
          IsSeq(calls) => Plain_(Chat!Reply(content, calls, finish, cached))
  BY DEF Chat!Reply
<1>2. /\ Plain_(Chat!Talk)
      /\ Chat!Talk.calls = << >>
      /\ Chat!Talk.finish = "stop"
  BY IsSeqTuples DEF Chat!Talk, Chat!Reply
<1>3. /\ T1.calls = Chat!Talk.calls /\ T1.refusal = Chat!Talk.refusal
      /\ T2.calls = Chat!Talk.calls /\ T2.finish = Chat!Talk.finish
      /\ T3.calls = Chat!Talk.calls /\ T3.finish = Chat!Talk.finish
  BY DEF Chat!Talk, Chat!Reply
<1> HIDE DEF T1, T2, T3
<1>4. ChatReplyFormed(T1) /\ ChatReplyFormed(T2) /\ ChatReplyFormed(T3)
  BY <1>2, <1>3 DEF ChatReplyFormed
<1>5. \/ body = Chat!Talk \/ body = T1 \/ body = T2 \/ body = T3
      \/ \E content, calls, finish, cached :
            /\ calls = << >> \/ (\E a : calls = <<a>>) \/ (\E a, b : calls = <<a, b>>)
            /\ body = Chat!Reply(content, calls, finish, cached)
  <2>1. CASE body \in Chat!ToolReplies(n)
    BY <2>1, Zenon DEF Chat!ToolReplies
  <2>2. CASE body \in Chat!OddReplies(n)
    BY <2>2, Zenon DEF Chat!OddReplies, T1, T2, T3
  <2> QED
    BY <2>1, <2>2
<1>6. ASSUME NEW content, NEW calls, NEW finish, NEW cached,
             calls = << >> \/ (\E a : calls = <<a>>) \/ (\E a, b : calls = <<a, b>>),
             body = Chat!Reply(content, calls, finish, cached)
      PROVE  Plain_(body)
  <2>1. IsSeq(calls)
    BY <1>6, IsSeqTuples
  <2> QED
    BY <1>1, <1>6, <2>1
<1>7. Plain_(body) => ChatReplyFormed(body)
  BY DEF ChatReplyFormed
<1> QED
  BY <1>2, <1>4, <1>5, <1>6, <1>7

\* The replies of OpenAI Responses have their form.
LEMMA ResponsesFormed ==
    ASSUME NEW n,
           NEW body \in {Responses!Talk} \cup Responses!ToolReplies(n) \cup Responses!OddReplies(n)
    PROVE  ResponsesReplyFormed(body)
<1> DEFINE Item(item) ==
               \/ item.type # "message"
               \/ \E t : item.type = "message" /\ item.content = <<[type |-> t]>>
           Items(output) == IsSeq(output) /\ \A item \in ToSet(output) : Item(item)
           E == [Responses!Talk EXCEPT !.error = TRUE]
<1>1. ASSUME NEW item, item.type = "message", NEW t, item.content = <<[type |-> t]>>
      PROVE  IsSeq(item.content) /\ \A part \in ToSet(item.content) : part = [type |-> part.type]
  <2>1. IsSeq(item.content) /\ ToSet(item.content) = {[type |-> t]}
    BY <1>1, IsSeqTuples
  <2> QED
    BY <2>1
<1>2. ASSUME NEW r, Items(r.output), r.status = "completed" => r.reason = "-"
      PROVE  ResponsesReplyFormed(r)
  BY <1>1, <1>2, Zenon DEF ResponsesReplyFormed
<1>3. /\ \A t : Item(Responses!Say(t))
      /\ \A k, name : Item(Responses!UpCall(n, k, name))
      /\ \A id, name, arguments : Item(Responses!CallItem(id, name, arguments))
      /\ Item(Responses!Reasoning)
      /\ \A t : t # "message" => Item([type |-> t])
  <2>1. \A t : Responses!Say(t).type = "message" /\ Responses!Say(t).content = <<[type |-> t]>>
    BY DEF Responses!Say, Responses!MessageItem
  <2>2. \A k, name : Responses!UpCall(n, k, name).type = "function_call"
    BY DEF Responses!UpCall, Responses!CallItem
  <2>3. \A id, name, arguments : Responses!CallItem(id, name, arguments).type = "function_call"
    BY DEF Responses!CallItem
  <2>4. Responses!Reasoning.type = "reasoning"
    BY DEF Responses!Reasoning
  <2> QED
    BY <2>1, <2>2, <2>3, <2>4, Zenon
<1> HIDE DEF Item
<1>4. /\ Items(<< >>)
      /\ \A a : Item(a) => Items(<<a>>)
      /\ \A a, b : Item(a) /\ Item(b) => Items(<<a, b>>)
      /\ \A a, b, c : Item(a) /\ Item(b) /\ Item(c) => Items(<<a, b, c>>)
  <2>1. ToSet(<< >>) = {}
    BY DEF ToSet
  <2> QED
    BY <2>1, IsSeqTuples
<1> HIDE DEF Items
<1>5. \A output, status_, reason, cached :
          /\ Responses!Reply(output, status_, reason, cached).output = output
          /\ Responses!Reply(output, status_, reason, cached).status = status_
          /\ Responses!Reply(output, status_, reason, cached).reason = reason
  BY DEF Responses!Reply
<1>6. /\ E.output = Responses!Talk.output /\ E.status = Responses!Talk.status
      /\ E.reason = Responses!Talk.reason
  BY DEF Responses!Talk, Responses!Reply
<1> HIDE DEF E
<1>7. \/ body = Responses!Talk \/ body = E
      \/ \E output, status_, reason, cached :
            /\ Items(output)
            /\ status_ = "completed" => reason = "-"
            /\ body = Responses!Reply(output, status_, reason, cached)
  <2> DEFINE P(b) == \E output, status_, reason, cached :
                        /\ Items(output)
                        /\ status_ = "completed" => reason = "-"
                        /\ b = Responses!Reply(output, status_, reason, cached)
  <2>1. \A output, cached : Items(output) => P(Responses!Reply(output, "completed", "-", cached))
    OBVIOUS
  <2>2. \A output, cached, status_, reason :
            Items(output) /\ status_ # "completed" =>
                P(Responses!Reply(output, status_, reason, cached))
    OBVIOUS
  <2> HIDE DEF P
  <2>3. CASE body \in Responses!ToolReplies(n)
    <3>1. /\ Items(<<Responses!UpCall(n, 1, "f"), Responses!Say("output_text"),
                     Responses!UpCall(n, 2, "f")>>)
          /\ Items(<<Responses!Reasoning, Responses!UpCall(n, 1, "g")>>)
      BY <1>3, <1>4
    <3>2. P(body)
      BY <2>1, <2>3, <3>1, Zenon DEF Responses!ToolReplies
    <3> QED
      BY <3>2 DEF P
  <2>4. CASE body \in Responses!OddReplies(n)
    <3>1. /\ \A t : Items(<<Responses!Say(t)>>)
          /\ Items(<<Responses!UpCall(n, 1, "f")>>)
          /\ Items(<<Responses!CallItem(<<"up", n, 1, 0>>, "f", Responses!NoObject)>>)
          /\ Items(<<[type |-> "web_search_call"]>>)
      <4>1. "web_search_call" # "message"
        OBVIOUS
      <4> QED
        BY <1>3, <1>4, <4>1
    <3>2. "incomplete" # "completed" /\ "in_progress" # "completed"
      OBVIOUS
    <3>3. P(body) \/ body = E
      BY <1>4, <2>1, <2>2, <2>4, <3>1, <3>2, Zenon DEF Responses!OddReplies, E
    <3> QED
      BY <3>3 DEF P
  <2> QED
    BY <2>3, <2>4
<1>8. /\ Items(Responses!Talk.output)
      /\ Responses!Talk.status = "completed" => Responses!Talk.reason = "-"
  BY <1>3, <1>4, <1>5 DEF Responses!Talk
<1> QED
  BY <1>2, <1>5, <1>6, <1>7, <1>8

\* The replies of Anthropic have their form.
LEMMA AnthropicFormed ==
    ASSUME NEW n,
           NEW body \in {Messages!Talk} \cup Messages!ToolReplies(n) \cup Messages!OddReplies(n)
    PROVE  AnthropicReplyFormed(body)
<1> DEFINE E1 == [Messages!Reply(<<Messages!Text>>, "stop_sequence", 0, 0)
                     EXCEPT !.stopSequence = TRUE]
           E2 == [Messages!Talk EXCEPT !.stopSequence = TRUE]
           E3 == [Messages!Talk EXCEPT !.kind = "error"]
           E(name) == [Messages!Talk EXCEPT !.model = name]
<1>1. \A content, stopReason, created, read :
          Messages!Reply(content, stopReason, created, read).content = content
  BY DEF Messages!Reply
<1>2. Messages!Talk.content = <<Messages!Text>>
  BY DEF Messages!Reply, Messages!Talk
<1>3. /\ E1.content = <<Messages!Text>> /\ E2.content = <<Messages!Text>>
      /\ E3.content = <<Messages!Text>> /\ \A name : E(name).content = <<Messages!Text>>
  BY DEF Messages!Reply, Messages!Talk
<1> HIDE DEF E1, E2, E3, E
<1>4. \/ body = Messages!Talk \/ body = E1 \/ body = E2 \/ body = E3
      \/ \E name : body = E(name)
      \/ \E content, stopReason, created, read :
            /\ \/ content = << >> \/ (\E a : content = <<a>>) \/ (\E a, b : content = <<a, b>>)
               \/ \E a, b, c : content = <<a, b, c>>
            /\ body = Messages!Reply(content, stopReason, created, read)
  <2>1. CASE body \in Messages!ToolReplies(n)
    BY <2>1, Zenon DEF Messages!ToolReplies
  <2>2. CASE body \in Messages!OddReplies(n)
    BY <2>2, Zenon DEF Messages!OddReplies, E1, E2, E3, E
  <2> QED
    BY <2>1, <2>2
<1>5. ASSUME NEW content, NEW stopReason, NEW created, NEW read,
             \/ content = << >> \/ (\E a : content = <<a>>) \/ (\E a, b : content = <<a, b>>)
             \/ \E a, b, c : content = <<a, b, c>>,
             body = Messages!Reply(content, stopReason, created, read)
      PROVE  AnthropicReplyFormed(body)
  <2>1. IsSeq(content)
    BY <1>5, IsSeqTuples
  <2> QED
    BY <1>1, <1>5, <2>1 DEF AnthropicReplyFormed
<1>6. body = Messages!Talk \/ body = E1 \/ body = E2 \/ body = E3 => AnthropicReplyFormed(body)
  BY <1>2, <1>3, IsSeqTuples, Zenon DEF AnthropicReplyFormed
<1>7. ASSUME NEW name, body = E(name) PROVE AnthropicReplyFormed(body)
  BY <1>3, <1>7, IsSeqTuples, Zenon DEF AnthropicReplyFormed
<1> QED
  BY <1>4, <1>5, <1>6, <1>7, Zenon

\* The replies of Gemini have their form.
LEMMA GeminiFormed ==
    ASSUME NEW n, NEW model,
           NEW body \in {Content!Talk} \cup Content!ToolReplies(n, model)
                            \cup Content!OddReplies(n, model)
    PROVE  GeminiReplyFormed(body)
<1> DEFINE Empty == Content!Reply(<< >>, "-", 0)
           E1 == [Empty EXCEPT !.candidates = 0]
           E2 == [Empty EXCEPT !.candidates = 0, !.blocked = TRUE]
           E(role) == [Content!Talk EXCEPT !.role = role]
<1>1. \A parts, finish, cached :
          /\ Content!Reply(parts, finish, cached).parts = parts
          /\ Content!Reply(parts, finish, cached).candidates = 1
          /\ ~Content!Reply(parts, finish, cached).blocked
  BY DEF Content!Reply
<1>2. \A parts, finish, cached :
          IsSeq(parts) => GeminiReplyFormed(Content!Reply(parts, finish, cached))
  BY <1>1 DEF GeminiReplyFormed
<1>3. /\ Empty.parts = << >> /\ Empty.finish = "-" /\ ~Empty.blocked
      /\ E1.parts = Empty.parts /\ E1.candidates = 0 /\ E1.blocked = Empty.blocked
      /\ E2.parts = Empty.parts /\ E2.candidates = 0 /\ E2.finish = Empty.finish
  BY DEF Content!Reply
<1>30. \A role : /\ \E a, b : E(role).parts = <<a, b>>
                 /\ E(role).candidates = 1 /\ ~E(role).blocked
  BY DEF Content!Reply, Content!Talk
<1> HIDE DEF Empty, E1, E2, E
<1>4. GeminiReplyFormed(E1) /\ GeminiReplyFormed(E2)
  BY <1>3, IsSeqTuples DEF GeminiReplyFormed
<1>40. ASSUME NEW role PROVE GeminiReplyFormed(E(role))
  <2>1. PICK v : v = E(role)
    BY Zenon
  <2>2. PICK p : p = v.parts
    BY Zenon
  <2>3. /\ \E a, b : p = <<a, b>>
        /\ v.candidates = 1 /\ ~v.blocked
    BY <1>30, <2>1, <2>2, Zenon
  <2>4. IsSeq(p)
    BY <2>3, IsSeqTuples
  <2>5. GeminiReplyFormed(v)
    BY <2>2, <2>3, <2>4 DEF GeminiReplyFormed
  <2> QED
    BY <2>1, <2>5, Zenon
<1>5. \/ body = E1 \/ body = E2 \/ \E role : body = E(role)
      \/ \E parts, finish, cached :
            /\ \/ (\E a : parts = <<a>>) \/ (\E a, b : parts = <<a, b>>)
               \/ \E a, b, c : parts = <<a, b, c>>
            /\ body = Content!Reply(parts, finish, cached)
  <2>1. CASE body = Content!Talk
    BY <2>1, Zenon DEF Content!Talk
  <2>2. CASE body \in Content!ToolReplies(n, model)
    BY <2>2, Zenon DEF Content!ToolReplies
  <2>3. CASE body \in Content!OddReplies(n, model)
    BY <2>3, Zenon DEF Content!OddReplies, Empty, E1, E2, E
  <2> QED
    BY <2>1, <2>2, <2>3
<1>6. ASSUME NEW parts, NEW finish, NEW cached,
             \/ (\E a : parts = <<a>>) \/ (\E a, b : parts = <<a, b>>)
             \/ \E a, b, c : parts = <<a, b, c>>,
             body = Content!Reply(parts, finish, cached)
      PROVE  GeminiReplyFormed(body)
  <2>1. IsSeq(parts)
    BY <1>6, IsSeqTuples
  <2> QED
    BY <1>2, <1>6, <2>1
<1> QED
  BY <1>4, <1>40, <1>5, <1>6, Zenon
-----------------------------------------------------------------------------
(***************************************************************************)
(* The invariant: what comes back tells what the provider told.            *)
(***************************************************************************)
FormedReply(protocol, body) ==
    /\ protocol = "chat" => ChatReplyFormed(body)
    /\ protocol = "responses" => ResponsesReplyFormed(body)
    /\ protocol = "anthropic" => AnthropicReplyFormed(body)
    /\ protocol = "gemini" => GeminiReplyFormed(body)

\* The second inductive invariant: what comes back tells of the provider's reply.
Telling ==
    /\ (pc = "reply" /\ reply.code = 200) => FormedReply(route.protocol, flight)
    /\ pc = "answer" => Tells(flight, ReadAnswer(route.protocol, reply.body))
    /\ AnswerKept

\* The initial states.
LEMMA TellingInit == Init => Telling
BY DEF Init, Telling, AnswerKept

\* A failure leaves nothing to tell.
LEMMA FailTells ==
    ASSUME NEW step, NEW code \in {400, 429, 502, 504}, Fail(step, code)
    PROVE  Telling'
<1>1. pc' = "client" /\ status' # 200
  BY DEF Fail
<1> QED
  BY <1>1 DEF Telling, AnswerKept

\* There is nothing to tell before the reply.
LEMMA OnwardTells ==
    ASSUME pc' \in {"gateway", "adapter", "provider"}
    PROVE  Telling'
BY DEF Telling, AnswerKept

\* The gateway's last step.
LEMMA AnswerTells ==
    ASSUME Telling, NEW translated,
           (pc = "answer" /\ translated.ok) =>
               Tells(flight, ReadAnswer(client.protocol, translated.value)),
           Answer(translated)
    PROVE  Telling'
<1>1. CASE translated.ok /\ pc' = "client" /\ flight' = translated.value
           /\ UNCHANGED <<client, route, reply>>
  <2>1. pc = "answer"
    BY DEF Answer
  <2> DEFINE answer == ReadAnswer(client.protocol, translated.value)
             origin == ReadAnswer(route.protocol, reply.body)
  <2>2. Tells(flight, answer) /\ Tells(flight, origin)
    BY <1>1, <2>1 DEF Telling
  <2> HIDE DEF answer, origin
  <2>3. answer.ended = origin.ended /\ Pairs(answer.calls) = Pairs(origin.calls)
    BY <2>2 DEF Tells
  <2>4. /\ client' = client /\ route' = route /\ reply' = reply
        /\ flight' = translated.value
    BY <1>1
  <2>5. /\ ReadAnswer(client.protocol, flight)' = answer
        /\ ReadAnswer(route.protocol, reply.body)' = origin
    BY <2>4, Zenon DEF answer, origin, ReadAnswer
  <2>6. AnswerKept'
    BY <2>3, <2>5, Zenon DEF AnswerKept, Pairs
  <2> QED
    BY <1>1, <2>6 DEF Telling
<1>2. CASE Fail("answer", writeRuntimeError(client.protocol, "other", 0))
  BY <1>2, Statuses, FailTells
<1> QED
  BY <1>1, <1>2 DEF Answer

\* The adapter's last step.
LEMMA ReceiveTells ==
    ASSUME Carried, Telling, NEW translated,
           (pc = "reply" /\ reply.code = 200 /\ translated.ok) =>
               Tells(translated.value, ReadAnswer(route.protocol, flight)),
           Receive(translated)
    PROVE  Telling'
<1>1. CASE /\ reply.code = 200 /\ translated.ok /\ pc' = "answer"
           /\ flight' = translated.value /\ UNCHANGED <<route, reply>>
  <2>1. pc = "reply"
    BY DEF Receive
  <2>2. reply.body = flight
    <3>1. reply = [code |-> 200, body |-> flight]
      BY <1>1, <2>1 DEF Carried, Homeward
    <3> QED
      BY <3>1
  <2>3. Tells(translated.value, ReadAnswer(route.protocol, flight))
    BY <1>1, <2>1
  <2>4. flight' = translated.value /\ route' = route /\ reply' = reply
    BY <1>1
  <2>5. Tells(flight, ReadAnswer(route.protocol, reply.body))'
    BY <2>2, <2>3, <2>4, Zenon DEF ReadAnswer
  <2> QED
    BY <1>1, <2>5 DEF Telling, AnswerKept
<1>2. CASE \E step, code : Report(step, code)
  <2>1. PICK step, code : Report(step, code)
    BY <1>2
  <2> QED
    BY <2>1, Statuses, FailTells DEF Report
<1> QED
  BY <1>1, <1>2 DEF Receive

\* The adapter's first step.
LEMMA SendTells ==
    ASSUME NEW translated, Send(translated)
    PROVE  Telling'
<1>1. CASE pc' = "provider"
  BY <1>1, OnwardTells
<1>2. CASE \E step, code : Report(step, code)
  <2>1. PICK step, code : Report(step, code)
    BY <1>2
  <2> QED
    BY <2>1, Statuses, FailTells DEF Report
<1> QED
  BY <1>1, <1>2 DEF Send

\* The gateway's first step.
LEMMA DispatchTells ==
    ASSUME NEW translated, Dispatch(translated)
    PROVE  Telling'
<1>1. CASE pc' = "adapter"
  BY <1>1, OnwardTells
<1>2. CASE Fail("request", writeRuntimeError(client.protocol, "translation", 0))
  BY <1>2, Statuses, FailTells
<1> QED
  BY <1>1, <1>2 DEF Dispatch

\* The provider replies.
LEMMA ProviderTells ==
    ASSUME Carried, Provider
    PROVE  Telling'
<1>1. ASSUME NEW body, FormedReply(route.protocol, body), Replied(body)
      PROVE  Telling'
  <2>1. pc' = "reply" /\ flight' = body /\ route' = route
    BY <1>1 DEF Replied
  <2>2. FormedReply(route'.protocol, flight')
    BY <1>1, <2>1, Zenon
  <2> QED
    BY <2>1, <2>2 DEF Telling, AnswerKept
<1>2. CASE \E code \in {429, 500} :
              /\ pc' = "reply"
              /\ flight' = Nothing
              /\ reply' = [code |-> code]
              /\ UNCHANGED <<client, wants, history, request, route, asked, status, failed,
                             made, portable>>
  BY <1>2 DEF Telling, AnswerKept
<1>3. route.protocol \in {"chat", "responses", "anthropic", "gemini"}
  BY Protocols DEF Carried, Outward, Provider
<1>4. \A body \in {Talk} \cup ToolReplies \cup OddReplies : FormedReply(route.protocol, body)
  <2>1. CASE route.protocol = "chat"
    BY <2>1, ChatFormed DEF Talk, ToolReplies, OddReplies, By, FormedReply
  <2>2. CASE route.protocol = "responses"
    BY <2>2, ResponsesFormed DEF Talk, ToolReplies, OddReplies, By, FormedReply
  <2>3. CASE route.protocol = "anthropic"
    BY <2>3, AnthropicFormed DEF Talk, ToolReplies, OddReplies, By, FormedReply
  <2>4. CASE route.protocol = "gemini"
    BY <2>4, GeminiFormed DEF Talk, ToolReplies, OddReplies, By, FormedReply
  <2> QED
    BY <1>3, <2>1, <2>2, <2>3, <2>4
<1>5. CASE Replied(Talk)
  BY <1>1, <1>4, <1>5, Zenon
<1>6. CASE \E body \in ToolReplies \cup OddReplies : Replied(body)
  BY <1>1, <1>4, <1>6, Zenon
<1> QED
  BY <1>2, <1>5, <1>6, Zenon DEF Provider

\* The steps of the gateways.
LEMMA GatewayTells ==
    ASSUME Telling,
           createChatCompletion \/ createResponse \/ createMessage \/ generateContent
    PROVE  Telling'
<1>1. pc = "answer" => IsSeq(flight.content)
  BY DEF Telling, Tells
<1>2. CASE createChatCompletion
  <2>1. \A body : ReadAnswer(client.protocol, body) = Chat!Read(body)
    BY <1>2 DEF createChatCompletion, ReadAnswer, By
  <2>2. CASE Answer(Chat!FromIR(flight))
    <3>1. (pc = "answer" /\ Chat!FromIR(flight).ok) =>
              Tells(flight, Chat!Read(Chat!FromIR(flight).value))
      BY <1>1, ChatAnswer
    <3> QED
      BY <2>1, <2>2, <3>1, AnswerTells, Zenon
  <2> QED
    BY <1>2, <2>2, DispatchTells DEF createChatCompletion
<1>3. CASE createResponse
  <2>1. \A body : ReadAnswer(client.protocol, body) = Responses!Read(body)
    BY <1>3 DEF createResponse, ReadAnswer, By
  <2>2. CASE Answer(Responses!FromIR(flight))
    <3>1. (pc = "answer" /\ Responses!FromIR(flight).ok) =>
              Tells(flight, Responses!Read(Responses!FromIR(flight).value))
      BY <1>1, ResponsesAnswer
    <3> QED
      BY <2>1, <2>2, <3>1, AnswerTells, Zenon
  <2> QED
    BY <1>3, <2>2, DispatchTells DEF createResponse
<1>4. CASE createMessage
  <2>1. \A body : ReadAnswer(client.protocol, body) = Messages!Read(body)
    BY <1>4 DEF createMessage, ReadAnswer, By
  <2>2. CASE Answer(Messages!FromIRResponse(flight))
    <3>1. (pc = "answer" /\ Messages!FromIRResponse(flight).ok) =>
              Tells(flight, Messages!Read(Messages!FromIRResponse(flight).value))
      BY <1>1, AnthropicAnswer
    <3> QED
      BY <2>1, <2>2, <3>1, AnswerTells, Zenon
  <2> QED
    BY <1>4, <2>2, DispatchTells DEF createMessage
<1>5. CASE generateContent
  <2>1. \A body : ReadAnswer(client.protocol, body) = Content!Read(body)
    BY <1>5 DEF generateContent, ReadAnswer, By
  <2>2. CASE Answer(Content!FromIRResponse(flight))
    <3>1. (pc = "answer" /\ Content!FromIRResponse(flight).ok) =>
              Tells(flight, Content!Read(Content!FromIRResponse(flight).value))
      BY <1>1, GeminiAnswer
    <3> QED
      BY <2>1, <2>2, <3>1, AnswerTells, Zenon
  <2> QED
    BY <1>5, <2>2, DispatchTells DEF generateContent
<1> QED
  BY <1>2, <1>3, <1>4, <1>5

\* The steps of the adapters.
LEMMA AdapterTells ==
    ASSUME Carried, Telling,
           generateChat \/ generateResponses \/ generateMessages \/ generateGemini
    PROVE  Telling'
<1>1. (pc = "reply" /\ reply.code = 200) => FormedReply(route.protocol, flight)
  BY DEF Telling
<1>2. CASE generateChat
  <2>1. route.protocol = "chat" /\ \A body : ReadAnswer(route.protocol, body) = Chat!Read(body)
    BY <1>2 DEF generateChat, ReadAnswer, By
  <2>2. CASE Receive(Chat!FromChatResponse(flight, asked))
    <3>1. (pc = "reply" /\ reply.code = 200 /\ Chat!FromChatResponse(flight, asked).ok) =>
              Tells(Chat!FromChatResponse(flight, asked).value, Chat!Read(flight))
      BY <1>1, <2>1, ChatReplyTold DEF FormedReply
    <3> QED
      BY <2>1, <2>2, <3>1, ReceiveTells, Zenon
  <2> QED
    BY <1>2, <2>2, SendTells DEF generateChat
<1>3. CASE generateResponses
  <2>1. route.protocol = "responses" /\ \A body : ReadAnswer(route.protocol, body) = Responses!Read(body)
    BY <1>3 DEF generateResponses, ReadAnswer, By
  <2>2. CASE Receive(Responses!ToIRResponse(flight, asked))
    <3>1. (pc = "reply" /\ reply.code = 200 /\ Responses!ToIRResponse(flight, asked).ok) =>
              Tells(Responses!ToIRResponse(flight, asked).value, Responses!Read(flight))
      BY <1>1, <2>1, ResponsesReplyTold DEF FormedReply
    <3> QED
      BY <2>1, <2>2, <3>1, ReceiveTells, Zenon
  <2> QED
    BY <1>3, <2>2, SendTells DEF generateResponses
<1>4. CASE generateMessages
  <2>1. route.protocol = "anthropic" /\ \A body : ReadAnswer(route.protocol, body) = Messages!Read(body)
    BY <1>4 DEF generateMessages, ReadAnswer, By
  <2>2. CASE Receive(Messages!ToIRResponse(flight, asked))
    <3>1. (pc = "reply" /\ reply.code = 200 /\ Messages!ToIRResponse(flight, asked).ok) =>
              Tells(Messages!ToIRResponse(flight, asked).value, Messages!Read(flight))
      BY <1>1, <2>1, AnthropicReplyTold DEF FormedReply
    <3> QED
      BY <2>1, <2>2, <3>1, ReceiveTells, Zenon
  <2> QED
    BY <1>4, <2>2, SendTells DEF generateMessages
<1>5. CASE generateGemini
  <2>1. route.protocol = "gemini" /\ \A body : ReadAnswer(route.protocol, body) = Content!Read(body)
    BY <1>5 DEF generateGemini, ReadAnswer, By
  <2>2. CASE Receive(Content!ToIRResponse(flight, asked))
    <3>1. (pc = "reply" /\ reply.code = 200 /\ Content!ToIRResponse(flight, asked).ok) =>
              Tells(Content!ToIRResponse(flight, asked).value, Content!Read(flight))
      BY <1>1, <2>1, GeminiReplyTold DEF FormedReply
    <3> QED
      BY <2>1, <2>2, <3>1, ReceiveTells, Zenon
  <2> QED
    BY <1>5, <2>2, SendTells DEF generateGemini
<1> QED
  BY <1>2, <1>3, <1>4, <1>5

\* Every step keeps it.
LEMMA TellingNext == Carried /\ Telling /\ [Next]_vars => Telling'
<1> SUFFICES ASSUME Carried, Telling, [Next]_vars PROVE Telling'
  OBVIOUS
<1>1. CASE createChatCompletion \/ createResponse \/ createMessage \/ generateContent
  BY <1>1, GatewayTells
<1>2. CASE generateChat \/ generateResponses \/ generateMessages \/ generateGemini
  BY <1>2, AdapterTells
<1>3. CASE Abandon
  BY <1>3, Statuses, FailTells DEF Abandon
<1>4. CASE Provider
  BY <1>4, ProviderTells
<1>5. CASE \E messages : Ask(messages)
  <2>1. pc' = "gateway"
    BY <1>5 DEF Ask
  <2> QED
    BY <2>1, OnwardTells
<1>6. CASE UNCHANGED vars
  BY <1>6 DEF vars, Telling, AnswerKept, ReadAnswer
<1>7. AskAgain \/ AskWithResults \/ AskMore => \E messages : Ask(messages)
  BY Zenon DEF AskAgain, AskWithResults, AskMore
<1> QED
  BY <1>1, <1>2, <1>3, <1>4, <1>5, <1>6, <1>7 DEF Next

\* The second inductive invariant of the conversation, over the first.
THEOREM TellingInvariant == Spec => []Telling
BY CarriedInvariant, TellingInit, TellingNext, PTL DEF Spec

(***************************************************************************)
(* The answer has the calls of the provider's reply, in their order, and   *)
(* tells whether it is complete, whatever the two protocols.               *)
(***************************************************************************)
THEOREM AnswersTrue == Spec => []AnswerKept
<1>1. Telling => AnswerKept
  BY DEF Telling
<1> QED
  BY <1>1, TellingInvariant, PTL

-----------------------------------------------------------------------------
(***************************************************************************)
(* What a provider sees of a valid IR request: its calls and results, in   *)
(* their order, and its images, whatever the adapter makes of the          *)
(* messages.                                                               *)
(***************************************************************************)
\* What a provider sees of a call and of a result.
SeenCall(id, name, arguments, signature) ==
    [type |-> "call", id |-> id, name |-> name, arguments |-> arguments,
     signature |-> signature]
SeenResult(id, name, outcome, isError) ==
    [type |-> "result", id |-> id, name |-> name, outcome |-> outcome, isError |-> isError]

\* What is seen depends on the provider: signatures, names and failures.
CallView(protocol, model, x) ==
    SeenCall(x.id, x.name, x.arguments,
             IF protocol # "gemini" THEN NoSignature
             ELSE IF x.signature = NoSignature /\ model = Content!Gemini3
             THEN Content!SkipThoughtSignatureValidator ELSE x.signature)
ResultView(protocol, x) ==
    SeenResult(x.id, IF protocol = "gemini" THEN x.name ELSE NoName, x.outcome,
               CASE protocol = "anthropic" -> x.isError
                 [] protocol = "gemini" -> x.form = "text" /\ x.isError
                 [] OTHER -> FALSE)

\* Calls and results are seen, other parts are not listed.
PartView(protocol, model, x) ==
    IF x.type = "tool_call" THEN <<CallView(protocol, model, x)>>
    ELSE IF x.type = "tool_result" THEN <<ResultView(protocol, x)>>
    ELSE << >>

\* What is seen of each of a set of parts.
View(protocol, model, S) == [x \in S |-> PartView(protocol, model, x)]

\* The parts of a request.
Formed(messages) == IsSeq(messages) /\ \A i \in DOMAIN messages : IsSeq(messages[i].content)

\* The contents of messages, one row for each.
ContentRows(messages) == [i \in 1..Len(messages) |-> messages[i].content]

\* The parts of a conversation are those of its messages, in their order.
LEMMA ContentsRows ==
    ASSUME NEW ms, Formed(ms)
    PROVE  /\ Len(ms) \in Nat /\ DOMAIN ms = 1..Len(ms)
           /\ Contents(ms) = FlattenSeq(ContentRows(ms))
           /\ AreRows(ContentRows(ms), Len(ms))
           /\ IsSeq(Contents(ms))
           /\ \A i \in DOMAIN ms : ToSet(ms[i].content) \subseteq ToSet(Contents(ms))
           /\ \A x \in ToSet(Contents(ms)) : \E i \in DOMAIN ms : x \in ToSet(ms[i].content)
<1>1. Len(ms) \in Nat /\ DOMAIN ms = 1..Len(ms)
  BY IsSeqFields DEF Formed
<1>2. Contents(ms) = FlattenSeq(ContentRows(ms))
  BY <1>1 DEF Contents, ContentRows
<1>3. AreRows(ContentRows(ms), Len(ms))
  BY <1>1 DEF AreRows, ContentRows, Formed
<1>4. /\ IsSeq(FlattenSeq(ContentRows(ms)))
      /\ \A x : x \in ToSet(FlattenSeq(ContentRows(ms)))
                    <=> \E i \in 1..Len(ms) : x \in ToSet(ContentRows(ms)[i])
  BY <1>1, <1>3, FlattenMembers
<1>5. \A i \in 1..Len(ms) : ContentRows(ms)[i] = ms[i].content
  BY DEF ContentRows
<1> QED
  BY <1>1, <1>2, <1>3, <1>4, <1>5

\* Two ways to look at the messages.
LEMMA ContentsSame ==
    ASSUME NEW ms, Formed(ms), NEW h, Spreads(h, Contents(ms)),
           NEW tt, AreRows(tt, Len(ms)), NEW g, RowsSpread(g, tt, Len(ms)),
           \A i \in DOMAIN ms : FlatMap(g, tt[i]) = FlatMap(h, ms[i].content)
    PROVE  FlatMap(g, FlattenSeq(tt)) = FlatMap(h, Contents(ms))
<1> DEFINE rows == ContentRows(ms)
<1>1. PICK n \in Nat : n = Len(ms)
  BY ContentsRows
<1>2. /\ DOMAIN ms = 1..n /\ AreRows(rows, n) /\ Contents(ms) = FlattenSeq(rows)
      /\ AreRows(tt, n) /\ RowsSpread(g, tt, n)
  BY <1>1, ContentsRows
<1>3. \A i \in 1..n : rows[i] = ms[i].content
  BY <1>1 DEF ContentRows
<1>4. RowsSpread(h, rows, n)
  <2>1. ASSUME NEW i \in 1..n, NEW k \in DOMAIN rows[i] PROVE IsSeq(h[rows[i][k]])
    <3>1. rows[i][k] \in ToSet(Contents(ms))
      <4>1. rows[i][k] \in ToSet(rows[i])
        BY DEF ToSet
      <4> QED
        BY <1>2, <1>3, <4>1, ContentsRows
    <3> QED
      BY <3>1 DEF Spreads, ToSet
  <2> HIDE DEF rows
  <2> QED
    BY <2>1 DEF RowsSpread, Spreads
<1> HIDE DEF rows
<1>5. FlatMap(g, FlattenSeq(tt)) = FlattenSeq([i \in 1..n |-> FlatMap(g, tt[i])])
  BY <1>2, FlatMapFlatten
<1>6. FlatMap(h, FlattenSeq(rows)) = FlattenSeq([i \in 1..n |-> FlatMap(h, rows[i])])
  BY <1>2, <1>4, FlatMapFlatten
<1>7. [i \in 1..n |-> FlatMap(g, tt[i])] = [i \in 1..n |-> FlatMap(h, rows[i])]
  BY <1>2, <1>3
<1> QED
  BY <1>2, <1>5, <1>6, <1>7

\* What is seen of a part is a sequence.
LEMMA ViewSpreads ==
    ASSUME NEW s, NEW p, NEW model, NEW S, ToSet(s) \subseteq S
    PROVE  /\ Spreads(View(p, model, S), s)
           /\ \A k \in DOMAIN s : View(p, model, S)[s[k]] = PartView(p, model, s[k])
<1>1. \A k \in DOMAIN s : s[k] \in S
  BY DEF ToSet
<1>2. \A k \in DOMAIN s : View(p, model, S)[s[k]] = PartView(p, model, s[k])
  BY <1>1 DEF View
<1>3. \A x : IsSeq(PartView(p, model, x))
  <2> SUFFICES ASSUME NEW x PROVE IsSeq(PartView(p, model, x))
    OBVIOUS
  <2>1. IsSeq(<<CallView(p, model, x)>>) /\ IsSeq(<<ResultView(p, x)>>) /\ IsSeq(<< >>)
    BY IsSeqTuples
  <2> QED
    BY <2>1 DEF PartView
<1> QED
  BY <1>2, <1>3 DEF Spreads

\* The role of a valid message tells what is in it.
LEMMA ValidRoles ==
    ASSUME NEW m, IsSeq(m.content), MessageValid(m)
    PROVE  /\ m.content # << >>
           /\ m.role \in {"system", "user", "assistant", "tool"}
           /\ m.role = "tool" => \A k \in DOMAIN m.content : m.content[k].type = "tool_result"
           /\ m.role # "tool" => \A k \in DOMAIN m.content : m.content[k].type # "tool_result"
           /\ m.role = "system" => \A k \in DOMAIN m.content : m.content[k].type = "text"
<1>1. m.content # << >> /\ \A k \in DOMAIN m.content : m.content[k].type \in Allowed(m.role)
  BY DEF MessageValid
<1>2. 1 \in DOMAIN m.content
  BY <1>1 DEF IsSeq
<1>3. Allowed(m.role) # {}
  BY <1>1, <1>2
<1>4. m.role \in {"system", "user", "assistant", "tool"}
  BY <1>3 DEF Allowed
<1> QED
  BY <1>1, <1>4 DEF Allowed

\* Parts of a type that are read message by message.
LEMMA ContentsOfType ==
    ASSUME NEW ms, Formed(ms), NEW t, NEW tt, AreRows(tt, Len(ms)),
           NEW g, RowsSpread(g, tt, Len(ms)),
           \A i \in DOMAIN ms : FlatMap(g, tt[i]) = OfType(ms[i].content, t)
    PROVE  FlatMap(g, FlattenSeq(tt)) = OfType(Contents(ms), t)
<1> DEFINE rows == ContentRows(ms)
<1>1. PICK n \in Nat : n = Len(ms)
  BY ContentsRows
<1>2. /\ DOMAIN ms = 1..n /\ AreRows(rows, n) /\ Contents(ms) = FlattenSeq(rows)
      /\ AreRows(tt, n) /\ RowsSpread(g, tt, n)
  BY <1>1, ContentsRows
<1>3. \A i \in 1..n : rows[i] = ms[i].content
  BY <1>1 DEF ContentRows
<1> HIDE DEF rows
<1>5. FlatMap(g, FlattenSeq(tt)) = FlattenSeq([i \in 1..n |-> FlatMap(g, tt[i])])
  BY <1>2, FlatMapFlatten
<1>6. OfType(FlattenSeq(rows), t) = FlattenSeq([i \in 1..n |-> OfType(rows[i], t)])
  BY <1>2, OfTypeFlatten
<1>7. [i \in 1..n |-> FlatMap(g, tt[i])] = [i \in 1..n |-> OfType(rows[i], t)]
  BY <1>2, <1>3
<1> QED
  BY <1>2, <1>5, <1>6, <1>7

\* What a provider sees of a request.
Shows(protocol, r, seen) ==
    /\ seen.parts = FlatMap(View(protocol, r.model, ToSet(Contents(r.messages))),
                            Contents(r.messages))
    /\ IF protocol = "gemini"
       THEN /\ seen.images = [k \in DOMAIN OfType(Contents(r.messages), "image") |->
                                 Image("inline")]
            /\ \A part \in ToSet(Contents(r.messages)) : Content!Representable(part)
       ELSE seen.images = OfType(Contents(r.messages), "image")
    /\ protocol = "responses" =>
          \A part \in ToSet(Contents(r.messages)) : part.type = "tool_result" => ~part.isError
    /\ r.messages[1].role = "system" => seen.system

-----------------------------------------------------------------------------
(* Chat. *)
ChatParts(m) ==
    IF m.role = "tool" THEN <<SeenResult(m.callID, NoName, m.outcome, FALSE)>>
    ELSE [k \in DOMAIN m.calls |->
             SeenCall(m.calls[k].id, m.calls[k].name, m.calls[k].arguments, NoSignature)]

\* The Chat messages for a message.
ChatRow(m) == IF m.role = "tool" THEN Chat!toolMessages(m) ELSE <<Chat!ordinaryMessage(m)>>

\* g reads calls and results as a Chat provider does.
Reads(g, s) == \A k \in DOMAIN s : g[s[k]] = ChatParts(s[k])

\* A Chat provider sees the calls and results of a message.
LEMMA ChatMessageShown ==
    ASSUME NEW m, IsSeq(m.content), MessageValid(m), NEW model, NEW S, ToSet(m.content) \subseteq S,
           NEW g, Reads(g, ChatRow(m))
    PROVE  /\ IsSeq(ChatRow(m))
           /\ Spreads(g, ChatRow(m))
           /\ FlatMap(g, ChatRow(m)) = FlatMap(View("chat", model, S), m.content)
<1> DEFINE c == m.content
           h == View("chat", model, S)
           calls == OfType(c, "tool_call")
<1>1. DOMAIN c = 1..Len(c) /\ Len(c) \in Nat
  BY IsSeqFields
<1>2. \A k \in DOMAIN c : h[c[k]] = PartView("chat", model, c[k])
  <2>1. \A k \in DOMAIN c : c[k] \in S
    BY DEF ToSet
  <2> QED
    BY <2>1 DEF View
<1> HIDE DEF h
<1>3. CASE m.role = "tool"
  <2> DEFINE row == ChatRow(m)
  <2>1. row = [k \in 1..Len(c) |-> Chat!ToolMessage(c[k].id, c[k].outcome)]
    BY <1>1, <1>3 DEF ChatRow, Chat!toolMessages
  <2>2. IsSeq(row) /\ DOMAIN row = DOMAIN c
    <3>1. row = [k \in 1..Len(c) |-> row[k]]
      BY <2>1
    <3> HIDE DEF row
    <3> QED
      BY <1>1, <3>1, IsSeqMap, Zenon
  <2>3. \A k \in DOMAIN c : c[k].type = "tool_result"
    BY <1>3, ValidRoles
  <2>4. ASSUME NEW k \in DOMAIN c
        PROVE  g[row[k]] = <<SeenResult(c[k].id, NoName, c[k].outcome, FALSE)>>
    <3>1. row[k] = Chat!ToolMessage(c[k].id, c[k].outcome)
      BY <1>1, <2>1
    <3>2. g[row[k]] = ChatParts(row[k])
      BY <2>2 DEF Reads
    <3> HIDE DEF row
    <3>3. row[k].role = "tool" /\ row[k].callID = c[k].id /\ row[k].outcome = c[k].outcome
      BY <3>1 DEF Chat!ToolMessage
    <3> QED
      BY <3>2, <3>3 DEF ChatParts
  <2>5. \A k \in DOMAIN c : h[c[k]] = <<SeenResult(c[k].id, NoName, c[k].outcome, FALSE)>>
    BY <1>2, <2>3, Zenon DEF PartView, ResultView
  <2> HIDE DEF row
  <2>6. [k \in DOMAIN row |-> g[row[k]]] = [k \in DOMAIN c |-> h[c[k]]]
    BY <2>2, <2>4, <2>5, Zenon
  <2>7. FlatMap(g, row) = FlatMap(h, c)
    BY <2>6 DEF FlatMap
  <2>8. Spreads(g, row)
    BY <2>2, <2>4, IsSeqTuples, Zenon DEF Spreads
  <2> QED
    BY <2>2, <2>7, <2>8 DEF row, h
<1>4. CASE m.role # "tool"
  <2> DEFINE o == Chat!ordinaryMessage(m)
             e == [x \in ToSet(c) |-> CallView("chat", model, x)]
             seen == [k \in DOMAIN calls |->
                         SeenCall(calls[k].id, calls[k].name, calls[k].arguments, NoSignature)]
  <2>1. ChatRow(m) = <<o>>
    BY <1>4 DEF ChatRow
  <2>2. /\ o.role = m.role
        /\ o.calls = [k \in DOMAIN calls |->
                         Chat!Call(calls[k].id, calls[k].name, calls[k].arguments)]
    BY ChatSequences DEF Chat!ordinaryMessage, Chat!ChatMessage
  <2>3. ChatParts(o) = seen
    <3> HIDE DEF o, calls
    <3> QED
      BY <1>4, <2>2 DEF ChatParts, Chat!Call
  <2>4. g[o] = seen
    BY <2>1, <2>3 DEF Reads
  <2>5. IsSeq(calls) /\ \A j \in DOMAIN calls : calls[j] \in ToSet(c)
    <3>1. /\ IsSeq(calls)
          /\ \A j \in DOMAIN calls : \E i \in DOMAIN c : calls[j] = c[i]
      BY OfTypeMembers
    <3> QED
      BY <3>1 DEF ToSet
  <2>6. IsSeq(seen)
    <3> HIDE DEF calls
    <3>1. DOMAIN calls = 1..Len(calls) /\ Len(calls) \in Nat
      BY <2>5, IsSeqFields
    <3>2. seen = [k \in 1..Len(calls) |-> seen[k]]
      BY <3>1
    <3> HIDE DEF seen
    <3> QED
      BY <3>1, <3>2, IsSeqMap, Zenon
  <2>7. ForEach(h, e, c, "tool_call")
    <3>1. \A k \in DOMAIN c : c[k].type # "tool_result"
      BY <1>4, ValidRoles
    <3>2. \A k \in DOMAIN c : c[k] \in ToSet(c)
      BY DEF ToSet
    <3>3. \A k \in DOMAIN c : e[c[k]] = CallView("chat", model, c[k])
      BY <3>2
    <3> HIDE DEF e, c
    <3> QED
      BY <1>2, <3>1, <3>3, Zenon DEF ForEach, PartView
  <2>8. FlatMap(h, c) = [j \in DOMAIN calls |-> e[calls[j]]]
    BY <2>7, FlatMapOfType
  <2>9. [j \in DOMAIN calls |-> e[calls[j]]] = seen
    <3>1. \A j \in DOMAIN calls : e[calls[j]] =
              SeenCall(calls[j].id, calls[j].name, calls[j].arguments, NoSignature)
      BY <2>5 DEF CallView
    <3> HIDE DEF calls, e
    <3> QED
      BY <3>1
  <2> HIDE DEF o, seen
  <2>10. FlatMap(g, <<o>>) = seen
    BY <2>4, <2>6, FlatMapSingle
  <2>11. Spreads(g, <<o>>) /\ IsSeq(<<o>>)
    BY <2>4, <2>6, IsSeqTuples DEF Spreads
  <2> QED
    BY <2>1, <2>8, <2>9, <2>10, <2>11, Zenon DEF h
<1> QED
  BY <1>3, <1>4

\* g reads the images of Chat messages.
ChatImages(g, s) == \A k \in DOMAIN s : g[s[k]] = OfType(s[k].content, "image")

\* A Chat provider sees the images of a message.
LEMMA ChatMessageImages ==
    ASSUME NEW m, IsSeq(m.content), MessageValid(m), NEW g, ChatImages(g, ChatRow(m))
    PROVE  /\ Spreads(g, ChatRow(m))
           /\ FlatMap(g, ChatRow(m)) = OfType(m.content, "image")
           /\ \A k \in DOMAIN ChatRow(m) : IsSeq(ChatRow(m)[k].content)
<1> DEFINE c == m.content
           row == ChatRow(m)
<1>1. DOMAIN c = 1..Len(c) /\ Len(c) \in Nat
  BY IsSeqFields
<1>2. CASE m.role = "tool"
  <2>1. row = [k \in 1..Len(c) |-> Chat!ToolMessage(c[k].id, c[k].outcome)]
    BY <1>1, <1>2 DEF ChatRow, Chat!toolMessages
  <2>2. IsSeq(row) /\ DOMAIN row = DOMAIN c
    <3>1. row = [k \in 1..Len(c) |-> row[k]]
      BY <2>1
    <3> HIDE DEF row
    <3> QED
      BY <1>1, <3>1, IsSeqMap, Zenon
  <2>3. \A k \in DOMAIN c : c[k].type = "tool_result"
    BY <1>2, ValidRoles
  <2>4. OfType(c, "image") = << >>
    BY <2>3, OfTypeMembers
  <2>5. ASSUME NEW k \in DOMAIN row
        PROVE  g[row[k]] = << >> /\ IsSeq(row[k].content)
    <3>1. row[k].content = <<Chat!Text>>
      BY <1>1, <2>1, <2>2 DEF Chat!ToolMessage
    <3>2. g[row[k]] = OfType(row[k].content, "image")
      BY DEF ChatImages
    <3>3. OfType(<<Chat!Text>>, "image") = << >> /\ IsSeq(<<Chat!Text>>)
      <4> DEFINE x == Chat!Text
      <4>1. x.type # "image"
        BY DEF Chat!Text
      <4> HIDE DEF x
      <4> QED
        BY <4>1, OfTypeOne DEF x
    <3> HIDE DEF row
    <3> QED
      BY <3>1, <3>2, <3>3
  <2> HIDE DEF row
  <2>6. Vanish(g, row) /\ Spreads(g, row)
    BY <2>5, IsSeqTuples DEF Vanish, Spreads
  <2>7. FlatMap(g, row) = << >>
    BY <2>2, <2>6, FlatMapVanish
  <2> QED
    BY <2>4, <2>5, <2>6, <2>7 DEF row
<1>3. CASE m.role # "tool"
  <2> DEFINE o == Chat!ordinaryMessage(m)
  <2>1. row = <<o>>
    BY <1>3 DEF ChatRow
  <2>2. o.content = BesideCalls(c)
    BY ChatSequences DEF Chat!ordinaryMessage, Chat!ChatMessage
  <2>3. OfType(o.content, "image") = OfType(c, "image") /\ IsSeq(o.content)
    BY <2>2, BesideCallsOfType
  <2>4. g[o] = OfType(o.content, "image")
    BY <2>1 DEF ChatImages
  <2> HIDE DEF o
  <2>5. IsSeq(g[o])
    BY <2>3, <2>4, OfTypeMembers
  <2>6. FlatMap(g, <<o>>) = g[o] /\ Spreads(g, <<o>>)
    BY <2>5, FlatMapSingle DEF Spreads
  <2> QED
    BY <2>1, <2>3, <2>4, <2>6
<1> QED
  BY <1>2, <1>3

\* A Chat provider sees what the IR request says.
LEMMA ChatShows ==
    ASSUME NEW r, Formed(r.messages), Chat!ToChatRequest(r).ok
    PROVE  Shows("chat", r, Chat!Seen(Chat!ToChatRequest(r).value))
<1> DEFINE sent == Chat!ToChatRequest(r).value
           seen == Chat!Seen(sent)
           ms == r.messages
           tt == [i \in 1..Len(ms) |-> ChatRow(ms[i])]
           S == ToSet(Contents(ms))
<1>1. DOMAIN ms = 1..Len(ms) /\ Len(ms) \in Nat
  BY ContentsRows
<1>2. RequestValid(r) /\ sent.messages = FlattenSeq([i \in DOMAIN ms |-> ChatRow(ms[i])])
  BY ChatSequences, SameValidation, Zenon DEF Chat!ToChatRequest, Chat!AcceptIf,
         Chat!Accepted, Chat!Refused, ChatRow
<1>3. sent.messages = FlattenSeq(tt)
  BY <1>1, <1>2
<1> HIDE DEF sent
<1> DEFINE all == sent.messages
           g == [y \in ToSet(all) |-> ChatParts(y)]
           gi == [y \in ToSet(all) |-> OfType(y.content, "image")]
<1>4. /\ seen.parts = FlattenSeq([i \in DOMAIN all |-> ChatParts(all[i])])
      /\ seen.images = OfType(FlattenSeq([i \in DOMAIN all |-> all[i].content]), "image")
      /\ seen.system = (all[1].role = "system")
  <2> HIDE DEF all, g, gi
  <2>1. seen.parts = FlattenSeq([i \in DOMAIN all |-> ChatParts(all[i])])
    <3>1. seen.parts = Chat!FlattenSeq([i \in DOMAIN all |-> ChatParts(all[i])])
      BY DEF Chat!Seen, ChatParts, SeenCall, SeenResult, all, NoName, Chat!NoName,
             NoSignature, Chat!NoSignature
    <3> QED
      BY <3>1, ChatSequences
  <2>2. seen.images = OfType(FlattenSeq([i \in DOMAIN all |-> all[i].content]), "image")
    BY ChatSequences DEF Chat!Seen, all
  <2>3. seen.system = (all[1].role = "system")
    BY DEF Chat!Seen, all
  <2> QED
    BY <2>1, <2>2, <2>3
<1> HIDE DEF seen
<1>5. \A i \in 1..Len(ms) : IsSeq(ms[i].content) /\ MessageValid(ms[i])
  BY <1>1, <1>2 DEF Formed, RequestValid
<1>6. \A i \in 1..Len(ms) : IsSeq(ChatRow(ms[i]))
  <2> SUFFICES ASSUME NEW i \in 1..Len(ms) PROVE IsSeq(ChatRow(ms[i]))
    OBVIOUS
  <2> DEFINE m == ms[i]
             w == [y \in ToSet(ChatRow(m)) |-> ChatParts(y)]
  <2>1. Reads(w, ChatRow(m))
    BY DEF Reads, ToSet
  <2> HIDE DEF w
  <2>2. IsSeq(m.content) /\ MessageValid(m)
    BY <1>5
  <2> HIDE DEF m
  <2> QED
    BY <2>1, <2>2, ChatMessageShown, Zenon DEF m
<1>7. AreRows(tt, Len(ms))
  BY <1>6 DEF AreRows
<1>8. \A i \in 1..Len(ms) : \A k \in DOMAIN tt[i] : tt[i][k] \in ToSet(all)
  <2>1. \A x : x \in ToSet(all) <=> \E i \in 1..Len(ms) : x \in ToSet(tt[i])
    BY <1>1, <1>3, <1>7, FlattenMembers, Zenon
  <2> HIDE DEF tt, all
  <2> QED
    BY <2>1, Zenon DEF ToSet
<1>9. IsSeq(all) /\ \A k \in DOMAIN all : all[k] \in ToSet(all)
  BY <1>1, <1>3, <1>7, FlattenMembers, Zenon DEF ToSet
<1>10. \A i \in 1..Len(ms) : Reads(g, ChatRow(ms[i])) /\ ChatImages(gi, ChatRow(ms[i]))
  <2>1. \A i \in 1..Len(ms) : tt[i] = ChatRow(ms[i])
    OBVIOUS
  <2> HIDE DEF tt, all
  <2> QED
    BY <1>8, <2>1 DEF Reads, ChatImages
<1>11. seen.parts = FlatMap(g, all)
  <2>1. [i \in DOMAIN all |-> ChatParts(all[i])] = [i \in DOMAIN all |-> g[all[i]]]
    <3> HIDE DEF all
    <3> QED
      BY <1>9
  <2> QED
    BY <1>4, <2>1, Zenon DEF FlatMap
<1> HIDE DEF g, gi
<1>12. \A i \in 1..Len(ms) : ToSet(ms[i].content) \subseteq S
  BY <1>1, ContentsRows
<1> HIDE DEF S
<1>13. ASSUME NEW i \in 1..Len(ms)
       PROVE  /\ Spreads(g, tt[i])
              /\ FlatMap(g, tt[i]) = FlatMap(View("chat", r.model, S), ms[i].content)
              /\ Spreads(gi, tt[i])
              /\ FlatMap(gi, tt[i]) = OfType(ms[i].content, "image")
              /\ \A k \in DOMAIN tt[i] : IsSeq(tt[i][k].content)
  <2>1. PICK m : m = ms[i]
    OBVIOUS
  <2>2. /\ IsSeq(m.content) /\ MessageValid(m) /\ ToSet(m.content) \subseteq S
        /\ Reads(g, ChatRow(m)) /\ ChatImages(gi, ChatRow(m))
    BY <1>5, <1>10, <1>12, <2>1
  <2>3. /\ Spreads(g, ChatRow(m))
        /\ FlatMap(g, ChatRow(m)) = FlatMap(View("chat", r.model, S), m.content)
    BY <2>2, ChatMessageShown
  <2>4. /\ Spreads(gi, ChatRow(m))
        /\ FlatMap(gi, ChatRow(m)) = OfType(m.content, "image")
        /\ \A k \in DOMAIN ChatRow(m) : IsSeq(ChatRow(m)[k].content)
    BY <2>2, ChatMessageImages
  <2>5. tt[i] = ChatRow(m)
    BY <2>1
  <2> HIDE DEF tt
  <2> QED
    BY <2>1, <2>3, <2>4, <2>5
<1> HIDE DEF tt
<1>14. RowsSpread(g, tt, Len(ms)) /\ RowsSpread(gi, tt, Len(ms))
  BY <1>13 DEF RowsSpread
<1>15. FlatMap(g, FlattenSeq(tt)) = FlatMap(View("chat", r.model, S), Contents(ms))
  <2>1. Spreads(View("chat", r.model, S), Contents(ms))
    BY ViewSpreads DEF S
  <2>2. \A i \in DOMAIN ms : FlatMap(g, tt[i]) = FlatMap(View("chat", r.model, S), ms[i].content)
    BY <1>1, <1>13
  <2> DEFINE h == View("chat", r.model, S)
  <2> HIDE DEF ms, h
  <2> QED
    BY <1>7, <1>14, <2>1, <2>2, ContentsSame DEF ms, h
<1>16. FlatMap(gi, FlattenSeq(tt)) = OfType(Contents(ms), "image")
  <2>1. \A i \in DOMAIN ms : FlatMap(gi, tt[i]) = OfType(ms[i].content, "image")
    BY <1>1, <1>13
  <2> QED
    BY <1>7, <1>14, <2>1, ContentsOfType
<1>17. seen.images = OfType(Contents(ms), "image")
  <2> DEFINE cc == [i \in 1..Len(all) |-> all[i].content]
  <2>1. Len(all) \in Nat /\ DOMAIN all = 1..Len(all)
    BY <1>9, IsSeqFields
  <2>2. \A k \in DOMAIN all : IsSeq(all[k].content)
    <3> SUFFICES ASSUME NEW k \in DOMAIN all PROVE IsSeq(all[k].content)
      OBVIOUS
    <3>1. \A x : x \in ToSet(all) <=> \E i \in 1..Len(ms) : x \in ToSet(tt[i])
      BY <1>1, <1>3, <1>7, FlattenMembers
    <3>2. PICK i \in 1..Len(ms) : all[k] \in ToSet(tt[i])
      BY <1>9, <3>1
    <3> QED
      BY <1>13, <3>2 DEF ToSet
  <2>3. AreRows(cc, Len(all))
    BY <2>1, <2>2 DEF AreRows
  <2>4. [i \in DOMAIN all |-> all[i].content] = cc
    BY <2>1
  <2>5. OfType(FlattenSeq(cc), "image") = FlattenSeq([i \in 1..Len(all) |-> OfType(cc[i], "image")])
    BY <2>1, <2>3, OfTypeFlatten, Zenon
  <2>6. [i \in 1..Len(all) |-> OfType(cc[i], "image")] = [i \in DOMAIN all |-> gi[all[i]]]
    <3>1. \A i \in DOMAIN all : gi[all[i]] = OfType(all[i].content, "image")
      BY <1>9 DEF gi
    <3> QED
      BY <2>1, <3>1
  <2> HIDE DEF cc, all
  <2>7. seen.images = FlatMap(gi, all)
    BY <1>4, <2>4, <2>5, <2>6, Zenon DEF FlatMap
  <2> QED
    BY <1>3, <1>16, <2>7 DEF all
<1>18. ms[1].role = "system" => seen.system
  <2> SUFFICES ASSUME ms[1].role = "system" PROVE all[1].role = "system"
    BY <1>4, Zenon
  <2>1. Len(ms) # 0
    BY <1>1, <1>2 DEF RequestValid
  <2>2. tt[1] = <<Chat!ordinaryMessage(ms[1])>>
    BY <1>1, <2>1 DEF tt, ChatRow
  <2>3. FlattenSeq(tt)[1] = tt[1][1]
    BY <1>1, <1>7, <2>1, <2>2, FlattenHead
  <2> QED
    BY <1>3, <2>2, <2>3 DEF Chat!ordinaryMessage, Chat!ChatMessage
<1> QED
  BY <1>3, <1>11, <1>15, <1>17, <1>18 DEF Shows, S, seen, sent

\* g makes one element of each, which v lists.
Singles(g, s, v) == \A k \in DOMAIN s : g[s[k]] = <<v[k]>>

\* Then the positions are kept.
LEMMA FlatMapSingles ==
    ASSUME NEW s, IsSeq(s), NEW g, NEW v, Singles(g, s, v)
    PROVE  /\ FlatMap(g, s) = [k \in DOMAIN s |-> v[k]]
           /\ Spreads(g, s)
<1>1. PICK n \in Nat : n = Len(s) /\ DOMAIN s = 1..n
  BY IsSeqFields
<1> DEFINE f == [k \in 1..n |-> <<v[k]>>]
           e == [k \in 1..n |-> v[k]]
           T == {v[k] : k \in 1..n}
           all == [i \in 1..n |-> i]
<1>2. FlatMap(g, s) = FlattenSeq(f)
  BY <1>1, Zenon DEF FlatMap, Singles
<1>3. Singly(f, e, 1..n, T)
  BY DEF Singly
<1>4. Rows(f, n, T)
  BY DEF Rows
<1>5. FlattenSeq(f) = FlatMap(f, all) /\ all \in Seq(1..n)
  BY <1>4, FlattenRows
<1>6. FlatMap(f, all) = [i \in DOMAIN all |-> e[all[i]]]
  <2> HIDE DEF f, e, T, all
  <2> QED
    BY <1>3, <1>5, FlatMapEach
<1>7. [i \in DOMAIN all |-> e[all[i]]] = [k \in DOMAIN s |-> v[k]]
  BY <1>1
<1>8. Spreads(g, s)
  BY IsSeqTuples, Zenon DEF Spreads, Singles
<1> QED
  BY <1>2, <1>5, <1>6, <1>7, <1>8, Zenon

-----------------------------------------------------------------------------
(* Responses. *)
RespPart(item) ==
    CASE item.type = "function_call" ->
            <<SeenCall(item.id, item.name, item.arguments, NoSignature)>>
      [] item.type = "function_call_output" ->
            <<SeenResult(item.id, NoName, item.outcome, FALSE)>>
      [] OTHER -> << >>
RespImages(item) == IF item.type = "message" THEN OfType(item.content, "image") ELSE << >>

\* The Responses items for a message.
RespRow(m) ==
    CASE m.role = "system" -> << >>
      [] m.role = "tool" ->
            [k \in DOMAIN m.content |-> Responses!encodeToolOutput(m.content[k]).value]
      [] OTHER -> Responses!encodeMessageContent(m)

\* g and gi read items as a Responses provider does.
RespReads(g, gi, s) == \A k \in DOMAIN s : g[s[k]] = RespPart(s[k]) /\ gi[s[k]] = RespImages(s[k])

\* No result is that of a failed call.
NoErrors(s) == \A k \in DOMAIN s : s[k].type = "tool_result" => ~s[k].isError

\* A Responses provider sees the calls of a message.
LEMMA ResponsesCallRow ==
    ASSUME NEW calls, IsSeq(calls), NEW row,
           row = [k \in DOMAIN calls |->
                     Responses!CallItem(calls[k].id, calls[k].name, calls[k].arguments)],
           NEW g, NEW gi, RespReads(g, gi, row)
    PROVE  /\ IsSeq(row) /\ Spreads(g, row) /\ Spreads(gi, row)
           /\ FlatMap(gi, row) = << >>
           /\ FlatMap(g, row) = [k \in DOMAIN calls |->
                  SeenCall(calls[k].id, calls[k].name, calls[k].arguments, NoSignature)]
<1> DEFINE v == [k \in DOMAIN calls |->
                    SeenCall(calls[k].id, calls[k].name, calls[k].arguments, NoSignature)]
<1>1. DOMAIN calls = 1..Len(calls) /\ Len(calls) \in Nat
  BY IsSeqFields
<1>2. IsSeq(row) /\ DOMAIN row = DOMAIN calls
  <2>1. row = [k \in 1..Len(calls) |-> row[k]]
    BY <1>1
  <2> QED
    BY <1>1, <2>1, IsSeqMap
<1>3. ASSUME NEW k \in DOMAIN row PROVE g[row[k]] = <<v[k]>> /\ gi[row[k]] = << >>
  <2>1. g[row[k]] = RespPart(row[k]) /\ gi[row[k]] = RespImages(row[k])
    BY DEF RespReads
  <2>2. /\ row[k].type = "function_call" /\ row[k].id = calls[k].id
        /\ row[k].name = calls[k].name /\ row[k].arguments = calls[k].arguments
    BY <1>2 DEF Responses!CallItem
  <2>3. v[k] = SeenCall(calls[k].id, calls[k].name, calls[k].arguments, NoSignature)
    BY <1>2
  <2> QED
    BY <2>1, <2>2, <2>3 DEF RespPart, RespImages
<1> HIDE DEF v
<1>4. Singles(g, row, v) /\ Vanish(gi, row) /\ Spreads(gi, row)
  BY <1>3, IsSeqTuples, Zenon DEF Singles, Vanish, Spreads
<1>5. FlatMap(g, row) = [k \in DOMAIN row |-> v[k]] /\ Spreads(g, row)
  BY <1>2, <1>4, FlatMapSingles
<1>6. [k \in DOMAIN row |-> v[k]] = v
  BY <1>2 DEF v
<1> QED
  BY <1>2, <1>4, <1>5, <1>6, FlatMapVanish DEF v

\* A Responses provider sees the calls, results and images of a message.
LEMMA ResponsesMessageShown ==
    ASSUME NEW m, IsSeq(m.content), MessageValid(m), NoErrors(m.content), NEW model, NEW S,
           ToSet(m.content) \subseteq S, NEW g, NEW gi, RespReads(g, gi, RespRow(m))
    PROVE  /\ IsSeq(RespRow(m))
           /\ Spreads(g, RespRow(m)) /\ Spreads(gi, RespRow(m))
           /\ FlatMap(g, RespRow(m)) = FlatMap(View("responses", model, S), m.content)
           /\ FlatMap(gi, RespRow(m)) = OfType(m.content, "image")
<1> DEFINE c == m.content
           h == View("responses", model, S)
           calls == OfType(c, "tool_call")
           row == RespRow(m)
<1>1. DOMAIN c = 1..Len(c) /\ Len(c) \in Nat
  BY IsSeqFields
<1>2. \A k \in DOMAIN c : h[c[k]] = PartView("responses", model, c[k])
  <2>1. \A k \in DOMAIN c : c[k] \in S
    BY DEF ToSet
  <2> QED
    BY <2>1 DEF View
<1> HIDE DEF h
<1>3. CASE m.role = "tool"
  <2>1. \A k \in DOMAIN c : c[k].type = "tool_result" /\ ~c[k].isError
    BY <1>3, ValidRoles DEF NoErrors
  <2>2. row = [k \in 1..Len(c) |-> Responses!encodeToolOutput(c[k]).value]
    BY <1>1, <1>3 DEF RespRow
  <2>3. IsSeq(row) /\ DOMAIN row = DOMAIN c
    <3>1. row = [k \in 1..Len(c) |-> row[k]]
      BY <2>2
    <3> HIDE DEF row
    <3> QED
      BY <1>1, <3>1, IsSeqMap, Zenon
  <2>4. ASSUME NEW k \in DOMAIN c
        PROVE  /\ g[row[k]] = <<SeenResult(c[k].id, NoName, c[k].outcome, FALSE)>>
               /\ gi[row[k]] = << >>
    <3>1. row[k] = Responses!encodeToolOutput(c[k]).value
      BY <1>1, <2>2
    <3>2. g[row[k]] = RespPart(row[k]) /\ gi[row[k]] = RespImages(row[k])
      BY <2>3 DEF RespReads
    <3> HIDE DEF row
    <3>3. /\ row[k].type = "function_call_output" /\ row[k].id = c[k].id
          /\ row[k].outcome = c[k].outcome
      <4>1. ~c[k].isError
        BY <2>1
      <4> QED
        BY <3>1, <4>1 DEF Responses!encodeToolOutput, Responses!AcceptIf, Responses!Accepted,
                          Responses!OutputItem
    <3> QED
      BY <3>2, <3>3, Zenon DEF RespPart, RespImages
  <2>5. \A k \in DOMAIN c : h[c[k]] = <<SeenResult(c[k].id, NoName, c[k].outcome, FALSE)>>
    BY <1>2, <2>1, Zenon DEF PartView, ResultView
  <2> HIDE DEF row
  <2>6. [k \in DOMAIN row |-> g[row[k]]] = [k \in DOMAIN c |-> h[c[k]]]
    BY <2>3, <2>4, <2>5, Zenon
  <2>7. FlatMap(g, row) = FlatMap(h, c)
    BY <2>6 DEF FlatMap
  <2>8. Spreads(g, row) /\ Spreads(gi, row) /\ Vanish(gi, row)
    BY <2>3, <2>4, IsSeqTuples, Zenon DEF Spreads, Vanish
  <2>9. FlatMap(gi, row) = << >>
    BY <2>3, <2>8, FlatMapVanish
  <2>10. OfType(c, "image") = << >>
    BY <2>1, OfTypeMembers
  <2> QED
    BY <2>3, <2>7, <2>8, <2>9, <2>10 DEF row, h
<1>4. CASE m.role = "system"
  <2>1. row = << >>
    BY <1>4 DEF RespRow
  <2>2. \A k \in DOMAIN c : c[k].type = "text"
    BY <1>4, ValidRoles
  <2>3. Vanish(h, c)
    BY <1>2, <2>2, Zenon DEF Vanish, PartView
  <2>4. FlatMap(h, c) = << >> /\ OfType(c, "image") = << >>
    BY <2>2, <2>3, FlatMapVanish, OfTypeMembers
  <2>5. FlatMap(g, << >>) = << >> /\ FlatMap(gi, << >>) = << >>
    BY FlatMapEmpty
  <2>6. Spreads(g, << >>) /\ Spreads(gi, << >>)
    BY DEF Spreads
  <2> HIDE DEF row
  <2> QED
    BY <2>1, <2>4, <2>5, <2>6, IsSeqTuples DEF row, h
<1>5. CASE m.role \notin {"tool", "system"}
  <2> DEFINE parts == BesideCalls(c)
             item == Responses!MessageItem(m.role, parts)
             said == IF parts = << >> THEN << >> ELSE <<item>>
             asks == [k \in DOMAIN calls |->
                         Responses!CallItem(calls[k].id, calls[k].name, calls[k].arguments)]
             e == [x \in ToSet(c) |-> CallView("responses", model, x)]
             seen == [k \in DOMAIN calls |->
                         SeenCall(calls[k].id, calls[k].name, calls[k].arguments, NoSignature)]
  <2>1. row = said \o asks
    BY <1>5, ResponsesSequences DEF RespRow, Responses!encodeMessageContent
  <2>2. IsSeq(calls) /\ \A j \in DOMAIN calls : calls[j] \in ToSet(c)
    <3>1. IsSeq(calls) /\ \A j \in DOMAIN calls : \E i \in DOMAIN c : calls[j] = c[i]
      BY OfTypeMembers
    <3> QED
      BY <3>1 DEF ToSet
  <2>3. IsSeq(said) /\ IsSeq(asks)
    <3>1. IsSeq(said)
      <4> HIDE DEF parts, item
      <4> QED
        BY IsSeqTuples
    <3>2. DOMAIN calls = 1..Len(calls) /\ Len(calls) \in Nat
      BY <2>2, IsSeqFields
    <3>3. asks = [k \in 1..Len(calls) |-> asks[k]]
      BY <3>2
    <3> HIDE DEF asks, calls, said
    <3> QED
      BY <3>1, <3>2, <3>3, IsSeqMap, Zenon
  <2> DEFINE none == [x \in ToSet(said) \cup ToSet(asks) |-> << >>]
  <2>4. ToSet(row) = ToSet(said) \cup ToSet(asks)
    <3>1. Spreads(none, said) /\ Spreads(none, asks)
      <4>1. \A x \in ToSet(said) \cup ToSet(asks) : none[x] = << >>
        OBVIOUS
      <4>2. (\A k \in DOMAIN said : said[k] \in ToSet(said))
            /\ (\A k \in DOMAIN asks : asks[k] \in ToSet(asks))
        BY DEF ToSet
      <4> HIDE DEF none, said, asks
      <4> QED
        BY <4>1, <4>2, IsSeqTuples DEF Spreads
    <3> HIDE DEF none, said, asks, row
    <3> QED
      BY <2>1, <2>3, <3>1, FlatMapJoin
  <2>5. \A x \in ToSet(row) : g[x] = RespPart(x) /\ gi[x] = RespImages(x)
    BY DEF RespReads, ToSet
  <2>6. RespReads(g, gi, asks) /\ RespReads(g, gi, said)
    <3>1. (\A k \in DOMAIN said : said[k] \in ToSet(said))
          /\ (\A k \in DOMAIN asks : asks[k] \in ToSet(asks))
      BY DEF ToSet
    <3> HIDE DEF said, asks, row
    <3> QED
      BY <2>4, <2>5, <3>1 DEF RespReads
  <2>7. /\ IsSeq(asks) /\ Spreads(g, asks) /\ Spreads(gi, asks)
        /\ FlatMap(gi, asks) = << >> /\ FlatMap(g, asks) = seen
    <3> HIDE DEF calls
    <3> QED
      BY <2>2, <2>6, ResponsesCallRow
  <2>8. OfType(parts, "image") = OfType(c, "image") /\ IsSeq(OfType(c, "image"))
    BY BesideCallsOfType, OfTypeMembers
  <2>9. /\ Spreads(g, said) /\ Spreads(gi, said)
        /\ FlatMap(g, said) = << >> /\ FlatMap(gi, said) = OfType(c, "image")
    <3>1. CASE parts = << >>
      <4>1. said = << >>
        BY <3>1
      <4>2. OfType(c, "image") = << >>
        BY <2>8, <3>1, OfTypeZero
      <4>3. Spreads(g, << >>) /\ Spreads(gi, << >>)
        BY DEF Spreads
      <4> HIDE DEF said
      <4> QED
        BY <4>1, <4>2, <4>3, FlatMapEmpty
    <3>2. CASE parts # << >>
      <4>1. said = <<item>>
        BY <3>2
      <4>2. item.type = "message" /\ item.content = parts
        BY DEF Responses!MessageItem
      <4>3. g[item] = << >> /\ gi[item] = OfType(parts, "image")
        <5>1. g[item] = RespPart(item) /\ gi[item] = RespImages(item)
          <6> HIDE DEF said, item
          <6> QED
            BY <2>6, <4>1 DEF RespReads
        <5> HIDE DEF item
        <5> QED
          BY <4>2, <5>1 DEF RespPart, RespImages
      <4> HIDE DEF item, said, parts
      <4>4. FlatMap(g, <<item>>) = g[item] /\ FlatMap(gi, <<item>>) = gi[item]
        BY <2>8, <4>3, FlatMapSingle, IsSeqTuples
      <4>5. Spreads(g, <<item>>) /\ Spreads(gi, <<item>>)
        BY <2>8, <4>3, IsSeqTuples DEF Spreads
      <4> QED
        BY <2>8, <4>1, <4>3, <4>4, <4>5
    <3> QED
      BY <3>1, <3>2
  <2>10. ForEach(h, e, c, "tool_call")
    <3>1. \A k \in DOMAIN c : c[k].type # "tool_result"
      BY <1>5, ValidRoles
    <3>2. \A k \in DOMAIN c : c[k] \in ToSet(c)
      BY DEF ToSet
    <3>3. \A k \in DOMAIN c : e[c[k]] = CallView("responses", model, c[k])
      BY <3>2
    <3> HIDE DEF e, c
    <3> QED
      BY <1>2, <3>1, <3>3, Zenon DEF ForEach, PartView
  <2>11. FlatMap(h, c) = [j \in DOMAIN calls |-> e[calls[j]]]
    BY <2>10, FlatMapOfType
  <2>12. [j \in DOMAIN calls |-> e[calls[j]]] = seen
    <3>1. \A j \in DOMAIN calls : e[calls[j]] =
              SeenCall(calls[j].id, calls[j].name, calls[j].arguments, NoSignature)
      BY <2>2 DEF CallView
    <3> HIDE DEF calls, e
    <3> QED
      BY <3>1
  <2>13. IsSeq(seen)
    <3>1. IsSeq(FlatMap(g, asks))
      <4> HIDE DEF asks, seen
      <4> QED
        BY <2>7, SpreadsSeq
    <3> QED
      BY <2>7, <3>1
  <2> HIDE DEF said, asks, seen, row, e
  <2>14. /\ FlatMap(g, said \o asks) = FlatMap(g, said) \o FlatMap(g, asks)
         /\ Spreads(g, said \o asks) /\ IsSeq(said \o asks)
    BY <2>3, <2>7, <2>9, FlatMapJoin, Zenon
  <2>15. /\ FlatMap(gi, said \o asks) = FlatMap(gi, said) \o FlatMap(gi, asks)
         /\ Spreads(gi, said \o asks)
    BY <2>3, <2>7, <2>9, FlatMapJoin, Zenon
  <2>16. << >> \o seen = seen /\ OfType(c, "image") \o << >> = OfType(c, "image")
    BY <2>8, <2>13 DEF IsSeq
  <2>17. FlatMap(g, row) = FlatMap(h, c) /\ FlatMap(gi, row) = OfType(c, "image")
    BY <2>1, <2>7, <2>9, <2>11, <2>12, <2>14, <2>15, <2>16
  <2> QED
    BY <2>1, <2>14, <2>15, <2>17, Zenon DEF row, h
<1> QED
  BY <1>3, <1>4, <1>5

\* Message by message.
ReadAlike(g, gi, h, row, content) ==
    /\ Spreads(g, row) /\ Spreads(gi, row)
    /\ FlatMap(g, row) = FlatMap(h, content)
    /\ FlatMap(gi, row) = OfType(content, "image")

\* What is seen message by message is seen of the whole conversation.
LEMMA RowsRead ==
    ASSUME NEW ms, Formed(ms), NEW tt, AreRows(tt, Len(ms)), NEW g, NEW gi,
           NEW h, Spreads(h, Contents(ms)),
           \A i \in DOMAIN ms : ReadAlike(g, gi, h, tt[i], ms[i].content)
    PROVE  /\ FlatMap(g, FlattenSeq(tt)) = FlatMap(h, Contents(ms))
           /\ FlatMap(gi, FlattenSeq(tt)) = OfType(Contents(ms), "image")
<1>1. DOMAIN ms = 1..Len(ms)
  BY ContentsRows
<1>2. RowsSpread(g, tt, Len(ms)) /\ RowsSpread(gi, tt, Len(ms))
  BY <1>1 DEF RowsSpread, ReadAlike
<1>3. \A i \in DOMAIN ms : /\ FlatMap(g, tt[i]) = FlatMap(h, ms[i].content)
                           /\ FlatMap(gi, tt[i]) = OfType(ms[i].content, "image")
  BY DEF ReadAlike
<1> QED
  BY <1>2, <1>3, ContentsSame, ContentsOfType

\* A Responses provider sees what the IR request says.
LEMMA ResponsesShows ==
    ASSUME NEW r, Formed(r.messages), Responses!ToProviderRequest(r).ok
    PROVE  Shows("responses", r, Responses!Seen(Responses!ToProviderRequest(r).value))
<1> DEFINE sent == Responses!ToProviderRequest(r).value
           seen == Responses!Seen(sent)
           ms == r.messages
           tt == [i \in 1..Len(ms) |-> RespRow(ms[i])]
           S == ToSet(Contents(ms))
           h == View("responses", r.model, S)
           results == OfType(Contents(ms), "tool_result")
<1>1. DOMAIN ms = 1..Len(ms) /\ Len(ms) \in Nat /\ IsSeq(Contents(ms))
  BY ContentsRows
<1>2. /\ RequestValid(r) /\ sent.input = FlattenSeq([i \in DOMAIN ms |-> RespRow(ms[i])])
      /\ sent.instructions = (\E m \in ToSet(ms) : m.role = "system")
      /\ \A k \in DOMAIN results : Responses!encodeToolOutput(results[k]).ok
  BY ResponsesSequences, SameValidation, Zenon DEF Responses!ToProviderRequest,
         Responses!AcceptIf, Responses!Accepted, Responses!Refused,
         RespRow
<1>3. sent.input = FlattenSeq(tt)
  BY <1>1, <1>2
<1>4. \A x \in S : x.type = "tool_result" => ~x.isError
  <2> SUFFICES ASSUME NEW x \in S, x.type = "tool_result" PROVE ~x.isError
    OBVIOUS
  <2>1. ToSet(results) = {y \in ToSet(Contents(ms)) : y.type = "tool_result"}
    BY <1>1, OfTypeSet DEF IsSeq
  <2>2. x \in ToSet(results)
    BY <2>1
  <2> HIDE DEF results
  <2>3. PICK k \in DOMAIN results : results[k] = x
    BY <2>2 DEF ToSet
  <2>4. Responses!encodeToolOutput(x).ok
    BY <1>2, <2>3
  <2> QED
    BY <2>4 DEF Responses!encodeToolOutput, Responses!AcceptIf, Responses!Refused
<1> HIDE DEF sent, results
<1> DEFINE all == sent.input
           g == [y \in ToSet(all) |-> RespPart(y)]
           gi == [y \in ToSet(all) |-> RespImages(y)]
<1>5. /\ seen.parts = FlattenSeq([i \in DOMAIN all |-> RespPart(all[i])])
      /\ seen.images = FlattenSeq([i \in DOMAIN all |-> RespImages(all[i])])
      /\ seen.system = sent.instructions
  <2> HIDE DEF all, g, gi
  <2>1. seen.parts = FlattenSeq([i \in DOMAIN all |-> RespPart(all[i])])
    <3>1. seen.parts = Responses!FlattenSeq([i \in DOMAIN all |-> RespPart(all[i])])
      BY DEF Responses!Seen, RespPart, SeenCall, SeenResult, all, NoName, Responses!NoName,
             NoSignature, Responses!NoSignature
    <3> QED
      BY <3>1, ResponsesSequences
  <2>2. seen.images = FlattenSeq([i \in DOMAIN all |-> RespImages(all[i])])
    BY ResponsesSequences DEF Responses!Seen, all, RespImages
  <2>3. seen.system = sent.instructions
    BY DEF Responses!Seen
  <2> QED
    BY <2>1, <2>2, <2>3
<1> HIDE DEF seen
<1>6. \A i \in 1..Len(ms) : ToSet(ms[i].content) \subseteq S
  BY <1>1, ContentsRows
<1> HIDE DEF S
<1>7. \A i \in 1..Len(ms) : /\ IsSeq(ms[i].content) /\ MessageValid(ms[i])
                            /\ NoErrors(ms[i].content)
  <2>1. \A i \in 1..Len(ms) : \A k \in DOMAIN ms[i].content : ms[i].content[k] \in ToSet(ms[i].content)
    BY DEF ToSet
  <2>2. \A i \in 1..Len(ms) : NoErrors(ms[i].content)
    BY <1>4, <1>6, <2>1 DEF NoErrors
  <2> QED
    BY <1>1, <1>2, <2>2 DEF Formed, RequestValid
<1>8. \A i \in 1..Len(ms) : IsSeq(RespRow(ms[i]))
  <2> SUFFICES ASSUME NEW i \in 1..Len(ms) PROVE IsSeq(RespRow(ms[i]))
    OBVIOUS
  <2> DEFINE m == ms[i]
             w == [y \in ToSet(RespRow(m)) |-> RespPart(y)]
             wi == [y \in ToSet(RespRow(m)) |-> RespImages(y)]
  <2>1. RespReads(w, wi, RespRow(m))
    <3>1. \A k \in DOMAIN RespRow(m) : RespRow(m)[k] \in ToSet(RespRow(m))
      BY DEF ToSet
    <3> QED
      BY <3>1 DEF RespReads
  <2> HIDE DEF w, wi
  <2>2. IsSeq(m.content) /\ MessageValid(m) /\ NoErrors(m.content) /\ ToSet(m.content) \subseteq S
    BY <1>6, <1>7
  <2> HIDE DEF m
  <2> QED
    BY <2>1, <2>2, ResponsesMessageShown, Zenon DEF m
<1>9. AreRows(tt, Len(ms))
  BY <1>8 DEF AreRows
<1>10. /\ IsSeq(all) /\ \A k \in DOMAIN all : all[k] \in ToSet(all)
       /\ \A i \in 1..Len(ms) : \A k \in DOMAIN tt[i] : tt[i][k] \in ToSet(all)
  <2>1. IsSeq(all) /\ \A x : x \in ToSet(all) <=> \E i \in 1..Len(ms) : x \in ToSet(tt[i])
    BY <1>1, <1>3, <1>9, FlattenMembers, Zenon
  <2> HIDE DEF tt, all
  <2> QED
    BY <2>1, Zenon DEF ToSet
<1>11. \A i \in 1..Len(ms) : RespReads(g, gi, RespRow(ms[i]))
  <2>1. \A i \in 1..Len(ms) : tt[i] = RespRow(ms[i])
    OBVIOUS
  <2> HIDE DEF tt, all
  <2> QED
    BY <1>10, <2>1 DEF RespReads
<1>12. seen.parts = FlatMap(g, all) /\ seen.images = FlatMap(gi, all)
  <2>1. /\ [i \in DOMAIN all |-> RespPart(all[i])] = [i \in DOMAIN all |-> g[all[i]]]
        /\ [i \in DOMAIN all |-> RespImages(all[i])] = [i \in DOMAIN all |-> gi[all[i]]]
    <3> HIDE DEF all
    <3> QED
      BY <1>10
  <2> QED
    BY <1>5, <2>1, Zenon DEF FlatMap
<1> HIDE DEF g, gi
<1>13. \A i \in DOMAIN ms : ReadAlike(g, gi, h, tt[i], ms[i].content)
  <2> SUFFICES ASSUME NEW i \in 1..Len(ms)
               PROVE  ReadAlike(g, gi, h, tt[i], ms[i].content)
    BY <1>1, Zenon
  <2>1. PICK m : m = ms[i]
    OBVIOUS
  <2>2. /\ IsSeq(m.content) /\ MessageValid(m) /\ NoErrors(m.content)
        /\ ToSet(m.content) \subseteq S /\ RespReads(g, gi, RespRow(m))
    BY <1>6, <1>7, <1>11, <2>1
  <2>3. ReadAlike(g, gi, h, RespRow(m), m.content)
    BY <2>2, ResponsesMessageShown DEF ReadAlike
  <2>4. tt[i] = RespRow(m)
    BY <2>1
  <2> QED
    BY <2>1, <2>3, <2>4
<1>14. Spreads(h, Contents(ms))
  BY ViewSpreads DEF S
<1> HIDE DEF tt, h
<1>15. /\ FlatMap(g, FlattenSeq(tt)) = FlatMap(h, Contents(ms))
       /\ FlatMap(gi, FlattenSeq(tt)) = OfType(Contents(ms), "image")
  BY <1>9, <1>13, <1>14, RowsRead
<1>16. ms[1].role = "system" => seen.system
  <2> SUFFICES ASSUME ms[1].role = "system" PROVE \E m \in ToSet(ms) : m.role = "system"
    BY <1>2, <1>5
  <2>1. 1 \in DOMAIN ms
    BY <1>1, <1>2 DEF RequestValid
  <2> QED
    BY <2>1 DEF ToSet
<1> QED
  BY <1>3, <1>4, <1>12, <1>15, <1>16 DEF Shows, S, h, seen, sent

\* The messages after the system's: system messages count as empty rows.
LEMMA AfterSystemRows ==
    ASSUME NEW ms, IsSeq(ms), NEW B, Spreads(B, ms)
    PROVE  /\ IsSeq(AfterSystem(ms))
           /\ \A k \in DOMAIN AfterSystem(ms) :
                 AfterSystem(ms)[k].role # "system" /\ AfterSystem(ms)[k] \in ToSet(ms)
           /\ FlatMap(B, AfterSystem(ms))
                 = FlattenSeq([i \in 1..Len(ms) |->
                                  IF ms[i].role = "system" THEN << >> ELSE B[ms[i]]])
           /\ AreRows([i \in 1..Len(ms) |->
                          IF ms[i].role = "system" THEN << >> ELSE B[ms[i]]], Len(ms))
<1>1. PICK n \in Nat : n = Len(ms) /\ DOMAIN ms = 1..n
  BY IsSeqFields
<1> DEFINE ss == [i \in 1..n |-> IF ms[i].role = "system" THEN << >> ELSE <<ms[i]>>]
           tt == [i \in 1..n |-> IF ms[i].role = "system" THEN << >> ELSE B[ms[i]]]
           uu == [i \in 1..n |-> FlatMap(B, ss[i])]
           conv == AfterSystem(ms)
<1>2. conv = FlattenSeq(ss)
  BY <1>1 DEF AfterSystem
<1>3. \A i \in 1..n : IsSeq(ss[i]) /\ IsSeq(B[ms[i]])
  BY <1>1, IsSeqTuples DEF Spreads
<1>4. AreRows(ss, n) /\ AreRows(tt, n)
  <2>1. \A i \in 1..n : IsSeq(tt[i])
    BY <1>3, IsSeqTuples, Zenon
  <2> QED
    BY <1>3, <2>1 DEF AreRows
<1>5. \A i \in 1..n : FlatMap(B, ss[i]) = tt[i] /\ Spreads(B, ss[i])
  <2> SUFFICES ASSUME NEW i \in 1..n PROVE FlatMap(B, ss[i]) = tt[i] /\ Spreads(B, ss[i])
    OBVIOUS
  <2>1. CASE ms[i].role = "system"
    <3>1. ss[i] = << >> /\ tt[i] = << >>
      BY <2>1
    <3>2. Spreads(B, << >>)
      BY DEF Spreads
    <3> HIDE DEF ss, tt
    <3> QED
      BY <3>1, <3>2, FlatMapEmpty
  <2>2. CASE ms[i].role # "system"
    <3>1. PICK m : m = ms[i]
      OBVIOUS
    <3>2. ss[i] = <<m>> /\ tt[i] = B[m] /\ IsSeq(B[m])
      BY <1>3, <2>2, <3>1
    <3>3. Spreads(B, <<m>>)
      BY <3>2 DEF Spreads
    <3> HIDE DEF ss, tt
    <3> QED
      BY <3>2, <3>3, FlatMapSingle
  <2> QED
    BY <2>1, <2>2
<1>6. RowsSpread(B, ss, n)
  BY <1>5 DEF RowsSpread
<1>7. IsSeq(conv) /\ \A x : x \in ToSet(conv) <=> \E i \in 1..n : x \in ToSet(ss[i])
  BY <1>2, <1>4, FlattenMembers, Zenon
<1>8. ASSUME NEW k \in DOMAIN conv PROVE conv[k].role # "system" /\ conv[k] \in ToSet(ms)
  <2>1. conv[k] \in ToSet(conv)
    BY DEF ToSet
  <2>2. PICK i \in 1..n : conv[k] \in ToSet(ss[i])
    BY <1>7, <2>1
  <2>3. PICK j \in DOMAIN ss[i] : conv[k] = ss[i][j]
    BY <2>2 DEF ToSet
  <2>4. conv[k] = ms[i] /\ ms[i].role # "system"
    BY <2>3
  <2> QED
    BY <1>1, <2>4 DEF ToSet
<1>9. uu = tt
  BY <1>5
<1> HIDE DEF conv, ss, tt
<1>10. FlatMap(B, FlattenSeq(ss)) = FlattenSeq([i \in 1..n |-> FlatMap(B, ss[i])])
  BY <1>4, <1>6, FlatMapFlatten
<1> QED
  BY <1>1, <1>2, <1>4, <1>7, <1>8, <1>9, <1>10 DEF conv, tt

\* The types of the parts of a valid message.
LEMMA ValidTypes ==
    ASSUME NEW m, IsSeq(m.content), MessageValid(m)
    PROVE  \A k \in DOMAIN m.content :
               m.content[k].type \in {"text", "image", "tool_call", "tool_result"}
<1>1. \A k \in DOMAIN m.content : m.content[k].type \in Allowed(m.role)
  BY DEF MessageValid
<1>2. m.role \in {"system", "user", "assistant", "tool"}
  BY ValidRoles
<1> QED
  BY <1>1, <1>2 DEF Allowed

-----------------------------------------------------------------------------
(* Anthropic. *)
AnthPart(block) ==
    CASE block.type = "tool_use" ->
            <<SeenCall(block.id, block.name, block.input, NoSignature)>>
      [] block.type = "tool_result" ->
            <<SeenResult(block.id, NoName, block.outcome, block.isError)>>
      [] OTHER -> << >>
AnthImages(block) == IF block.type = "image" THEN <<block>> ELSE << >>

\* The Anthropic blocks for a message.
AnthBlocks(m) == [k \in DOMAIN m.content |-> Messages!contentToAnthropic(m.content[k])]
AnthRow(m) == IF m.role = "system" THEN << >> ELSE AnthBlocks(m)

\* g and gi read blocks as an Anthropic provider does.
AnthReads(g, gi, s) == \A k \in DOMAIN s : g[s[k]] = AnthPart(s[k]) /\ gi[s[k]] = AnthImages(s[k])

\* There is a block for every part.
LEMMA AnthBlocksSeq ==
    ASSUME NEW m, IsSeq(m.content)
    PROVE  IsSeq(AnthBlocks(m)) /\ DOMAIN AnthBlocks(m) = DOMAIN m.content
<1> DEFINE row == AnthBlocks(m)
<1>1. PICK n \in Nat : n = Len(m.content) /\ DOMAIN m.content = 1..n
  BY IsSeqFields
<1>2. row = [k \in 1..n |-> row[k]]
  BY <1>1 DEF AnthBlocks
<1> HIDE DEF row
<1>3. IsSeq(row) /\ DOMAIN row = 1..n
  BY <1>2, IsSeqMap
<1> QED
  BY <1>1, <1>3 DEF row

\* An Anthropic provider sees the calls, results and images of a message.
LEMMA AnthropicMessageShown ==
    ASSUME NEW m, IsSeq(m.content), MessageValid(m), NEW model, NEW S,
           ToSet(m.content) \subseteq S, NEW g, NEW gi, AnthReads(g, gi, AnthRow(m))
    PROVE  /\ IsSeq(AnthRow(m))
           /\ ReadAlike(g, gi, View("anthropic", model, S), AnthRow(m), m.content)
<1> DEFINE c == m.content
           h == View("anthropic", model, S)
           row == AnthRow(m)
<1>1. \A k \in DOMAIN c : h[c[k]] = PartView("anthropic", model, c[k])
  <2>1. \A k \in DOMAIN c : c[k] \in S
    BY DEF ToSet
  <2> QED
    BY <2>1 DEF View
<1> HIDE DEF h
<1>2. CASE m.role = "system"
  <2>1. row = << >>
    BY <1>2 DEF AnthRow
  <2>2. \A k \in DOMAIN c : c[k].type = "text"
    BY <1>2, ValidRoles
  <2>3. Vanish(h, c)
    BY <1>1, <2>2, Zenon DEF Vanish, PartView
  <2>4. FlatMap(h, c) = << >> /\ OfType(c, "image") = << >>
    BY <2>2, <2>3, FlatMapVanish, OfTypeMembers
  <2>5. FlatMap(g, << >>) = << >> /\ FlatMap(gi, << >>) = << >>
    BY FlatMapEmpty
  <2>6. Spreads(g, << >>) /\ Spreads(gi, << >>)
    BY DEF Spreads
  <2> HIDE DEF row
  <2> QED
    BY <2>1, <2>4, <2>5, <2>6, IsSeqTuples DEF row, h, ReadAlike
<1>3. CASE m.role # "system"
  <2>1. row = AnthBlocks(m)
    BY <1>3 DEF AnthRow
  <2>2. IsSeq(row) /\ DOMAIN row = DOMAIN c
    BY <2>1, AnthBlocksSeq
  <2>3. \A k \in DOMAIN c : c[k].type \in {"text", "image", "tool_call", "tool_result"}
    BY ValidTypes
  <2>4. ASSUME NEW k \in DOMAIN c
        PROVE  /\ g[row[k]] = h[c[k]]
               /\ gi[row[k]] = IF c[k].type = "image" THEN <<c[k]>> ELSE << >>
    <3>1. PICK b : b = row[k]
      OBVIOUS
    <3>2. b = Messages!contentToAnthropic(c[k])
      BY <2>1, <3>1 DEF AnthBlocks
    <3>3. g[row[k]] = AnthPart(b) /\ gi[row[k]] = AnthImages(b)
      BY <2>2, <3>1 DEF AnthReads
    <3>4. PICK x : x = c[k]
      OBVIOUS
    <3>5. h[c[k]] = PartView("anthropic", model, x)
      BY <1>1, <3>4
    <3>6. CASE x.type = "tool_call"
      <4>1. b.type = "tool_use" /\ b.id = x.id /\ b.name = x.name /\ b.input = x.arguments
        BY <3>2, <3>4, <3>6 DEF Messages!contentToAnthropic, Messages!ToolUse
      <4>2. AnthPart(b) = <<SeenCall(x.id, x.name, x.arguments, NoSignature)>> /\ AnthImages(b) = << >>
        BY <4>1 DEF AnthPart, AnthImages
      <4>3. PartView("anthropic", model, x) = <<SeenCall(x.id, x.name, x.arguments, NoSignature)>>
        BY <3>6 DEF PartView, CallView
      <4> QED
        BY <3>3, <3>4, <3>5, <3>6, <4>2, <4>3
    <3>7. CASE x.type = "tool_result"
      <4>1. /\ b.type = "tool_result" /\ b.id = x.id /\ b.outcome = x.outcome
            /\ b.isError = x.isError
        BY <3>2, <3>4, <3>7 DEF Messages!contentToAnthropic, Messages!ResultBlock
      <4>2. AnthPart(b) = <<SeenResult(x.id, NoName, x.outcome, x.isError)>> /\ AnthImages(b) = << >>
        BY <4>1 DEF AnthPart, AnthImages
      <4>3. PartView("anthropic", model, x) = <<SeenResult(x.id, NoName, x.outcome, x.isError)>>
        BY <3>7 DEF PartView, ResultView
      <4> QED
        BY <3>3, <3>4, <3>5, <3>7, <4>2, <4>3
    <3>8. CASE x.type \in {"text", "image"}
      <4>1. b = x
        BY <3>2, <3>4, <3>8 DEF Messages!contentToAnthropic
      <4> QED
        BY <3>3, <3>4, <3>5, <3>8, <4>1 DEF AnthPart, AnthImages, PartView
    <3> QED
      BY <2>3, <3>4, <3>6, <3>7, <3>8
  <2> HIDE DEF row
  <2>5. [k \in DOMAIN row |-> g[row[k]]] = [k \in DOMAIN c |-> h[c[k]]]
    BY <2>2, <2>4, Zenon
  <2>6. FlatMap(g, row) = FlatMap(h, c)
    BY <2>5 DEF FlatMap
  <2>7. [k \in DOMAIN row |-> gi[row[k]]]
            = [k \in DOMAIN c |-> IF c[k].type = "image" THEN <<c[k]>> ELSE << >>]
    BY <2>2, <2>4
  <2>8. FlatMap(gi, row) = OfType(c, "image")
    BY <2>7, Zenon DEF FlatMap, OfType
  <2>9. Spreads(h, c)
    BY ViewSpreads DEF h
  <2>10. Spreads(g, row) /\ Spreads(gi, row)
    BY <2>2, <2>4, <2>9, IsSeqTuples, Zenon DEF Spreads
  <2> QED
    BY <2>2, <2>6, <2>8, <2>10 DEF row, h, ReadAlike
<1> QED
  BY <1>2, <1>3

\* An Anthropic provider sees what the IR request says.
LEMMA AnthropicShows ==
    ASSUME NEW r, Formed(r.messages), Messages!ToMessageRequest(r).ok
    PROVE  Shows("anthropic", r, Messages!Seen(Messages!ToMessageRequest(r).value))
<1> DEFINE sent == Messages!ToMessageRequest(r).value
           seen == Messages!Seen(sent)
           ms == r.messages
           conv == AfterSystem(ms)
           B == [m \in ToSet(ms) |-> AnthBlocks(m)]
           tt == [i \in 1..Len(ms) |-> IF ms[i].role = "system" THEN << >> ELSE B[ms[i]]]
           S == ToSet(Contents(ms))
           h == View("anthropic", r.model, S)
<1>1. DOMAIN ms = 1..Len(ms) /\ Len(ms) \in Nat /\ IsSeq(Contents(ms)) /\ IsSeq(ms)
  BY ContentsRows DEF Formed
<1>2. /\ RequestValid(r)
      /\ sent.system = (conv # ms)
      /\ sent.messages = [i \in DOMAIN conv |->
             Messages!Message(IF conv[i].role = "tool" THEN "user" ELSE conv[i].role,
                              AnthBlocks(conv[i]))]
  <2>1. RequestValid(r)
    BY SameValidation DEF Messages!ToMessageRequest, Messages!AcceptIf, Messages!Refused
  <2>2. Messages!AfterSystem(ms) = conv
    BY MessagesSequences
  <2>3. sent.system = (conv # ms)
    BY <2>2 DEF Messages!ToMessageRequest, Messages!AcceptIf, Messages!Accepted,
           Messages!Refused
  <2>4. sent.messages = [i \in DOMAIN conv |->
             Messages!Message(IF conv[i].role = "tool" THEN "user" ELSE conv[i].role,
                              AnthBlocks(conv[i]))]
    BY <2>2 DEF Messages!ToMessageRequest, Messages!AcceptIf, Messages!Accepted,
           Messages!Refused,
         AnthBlocks
  <2> QED
    BY <2>1, <2>3, <2>4
<1>3. \A k \in DOMAIN ms : ms[k] \in ToSet(ms) /\ B[ms[k]] = AnthBlocks(ms[k])
  <2>1. \A k \in DOMAIN ms : ms[k] \in ToSet(ms)
    BY DEF ToSet
  <2> HIDE DEF ms
  <2> QED
    BY <2>1
<1>4. Spreads(B, ms)
  <2>1. \A k \in DOMAIN ms : IsSeq(ms[k].content)
    BY DEF Formed
  <2> HIDE DEF B
  <2> QED
    BY <1>3, <2>1, AnthBlocksSeq DEF Spreads
<1> HIDE DEF B
<1>5. /\ IsSeq(conv)
      /\ \A k \in DOMAIN conv : conv[k].role # "system" /\ conv[k] \in ToSet(ms)
      /\ FlatMap(B, conv) = FlattenSeq(tt)
      /\ AreRows(tt, Len(ms))
  BY <1>1, <1>4, AfterSystemRows, Zenon
<1> HIDE DEF sent, conv
<1> DEFINE all == Contents(sent.messages)
           g == [y \in ToSet(all) |-> AnthPart(y)]
           gi == [y \in ToSet(all) |-> AnthImages(y)]
<1>6. all = FlattenSeq(tt)
  <2>1. \A i \in DOMAIN conv : sent.messages[i].content = AnthBlocks(conv[i])
    BY <1>2 DEF Messages!Message
  <2>2. \A i \in DOMAIN conv : B[conv[i]] = AnthBlocks(conv[i])
    BY <1>5 DEF B
  <2>3. [i \in DOMAIN sent.messages |-> sent.messages[i].content] = [i \in DOMAIN conv |-> B[conv[i]]]
    BY <1>2, <2>1, <2>2
  <2>4. all = FlatMap(B, conv)
    BY <2>3 DEF Contents, FlatMap
  <2> QED
    BY <1>5, <2>4
<1>7. /\ seen.parts = FlattenSeq([i \in DOMAIN all |-> AnthPart(all[i])])
      /\ seen.images = OfType(all, "image")
      /\ seen.system = sent.system
  <2> HIDE DEF g, gi
  <2>1. seen.parts = FlattenSeq([i \in DOMAIN all |-> AnthPart(all[i])])
    <3>1. seen.parts = Messages!FlattenSeq([i \in DOMAIN all |-> AnthPart(all[i])])
      BY MessagesSequences, Zenon DEF Messages!Seen, AnthPart, SeenCall, SeenResult, NoName,
             Messages!NoName,
             NoSignature, Messages!NoSignature
    <3> QED
      BY <3>1, MessagesSequences
  <2>2. seen.images = OfType(all, "image")
    BY MessagesSequences DEF Messages!Seen
  <2>3. seen.system = sent.system
    BY DEF Messages!Seen
  <2> QED
    BY <2>1, <2>2, <2>3
<1> HIDE DEF seen
<1>8. /\ IsSeq(all) /\ \A k \in DOMAIN all : all[k] \in ToSet(all)
      /\ \A i \in 1..Len(ms) : \A k \in DOMAIN tt[i] : tt[i][k] \in ToSet(all)
  <2>1. IsSeq(all) /\ \A x : x \in ToSet(all) <=> \E i \in 1..Len(ms) : x \in ToSet(tt[i])
    BY <1>1, <1>5, <1>6, FlattenMembers, Zenon
  <2> HIDE DEF tt, all
  <2> QED
    BY <2>1, Zenon DEF ToSet
<1>9. \A i \in 1..Len(ms) : tt[i] = AnthRow(ms[i])
  BY <1>1, <1>3 DEF AnthRow
<1>10. seen.parts = FlatMap(g, all) /\ seen.images = FlatMap(gi, all)
  <2> HIDE DEF all
  <2>1. [i \in DOMAIN all |-> AnthPart(all[i])] = [i \in DOMAIN all |-> g[all[i]]]
    BY <1>8
  <2>2. [i \in DOMAIN all |-> IF all[i].type = "image" THEN <<all[i]>> ELSE << >>]
            = [i \in DOMAIN all |-> gi[all[i]]]
    BY <1>8 DEF AnthImages
  <2> QED
    BY <1>7, <2>1, <2>2, Zenon DEF FlatMap, OfType
<1>11. \A i \in 1..Len(ms) : AnthReads(g, gi, AnthRow(ms[i]))
  <2> HIDE DEF tt, all
  <2> QED
    BY <1>8, <1>9 DEF AnthReads
<1> HIDE DEF g, gi, tt
<1>12. \A i \in DOMAIN ms : ReadAlike(g, gi, h, tt[i], ms[i].content)
  <2> SUFFICES ASSUME NEW i \in 1..Len(ms)
               PROVE  ReadAlike(g, gi, h, tt[i], ms[i].content)
    BY <1>1
  <2>1. PICK m : m = ms[i]
    OBVIOUS
  <2>2. ToSet(m.content) \subseteq S
    BY <1>1, <2>1, ContentsRows
  <2> HIDE DEF S
  <2>3. IsSeq(m.content) /\ MessageValid(m) /\ AnthReads(g, gi, AnthRow(m))
    BY <1>1, <1>2, <1>11, <2>1 DEF Formed, RequestValid
  <2>4. ReadAlike(g, gi, h, AnthRow(m), m.content)
    BY <2>2, <2>3, AnthropicMessageShown
  <2> QED
    BY <1>9, <2>1, <2>4
<1>13. Spreads(h, Contents(ms))
  BY ViewSpreads
<1> HIDE DEF h
<1>14. /\ FlatMap(g, FlattenSeq(tt)) = FlatMap(h, Contents(ms))
       /\ FlatMap(gi, FlattenSeq(tt)) = OfType(Contents(ms), "image")
  BY <1>5, <1>12, <1>13, RowsRead
<1>15. ms[1].role = "system" => seen.system
  <2> SUFFICES ASSUME ms[1].role = "system" PROVE conv # ms
    BY <1>2, <1>7, Zenon
  <2>1. 1 \in DOMAIN ms
    BY <1>1, <1>2 DEF RequestValid
  <2> QED
    BY <1>5, <2>1
<1> QED
  BY <1>6, <1>10, <1>14, <1>15 DEF Shows, h, seen, sent

\* The last row is flattened behind the others.
LEMMA FlattenSnoc ==
    ASSUME NEW n \in Nat, NEW ss, AreRows(ss, n + 1)
    PROVE  /\ FlattenSeq(ss) = FlattenSeq([i \in 1..n |-> ss[i]]) \o ss[n + 1]
           /\ AreRows([i \in 1..n |-> ss[i]], n)
<1> DEFINE front == [i \in 1..n |-> ss[i]]
<1>1. n + 1 \in Nat
  OBVIOUS
<1>2. PICK S : Rows(ss, n + 1, S)
  BY <1>1, RowsTyped
<1>3. front \in Seq(Seq(S)) /\ ss[n + 1] \in Seq(S)
  BY <1>2 DEF Rows
<1>4. ss = Append(front, ss[n + 1])
  <2>1. ss = [i \in 1..(n + 1) |-> ss[i]]
    BY DEF AreRows
  <2>2. Append(front, ss[n + 1]) = [i \in 1..(n + 1) |-> ss[i]]
    OBVIOUS
  <2> QED
    BY <2>1, <2>2
<1>5. AreRows(front, n)
  BY DEF AreRows
<1>6. PICK last : last = ss[n + 1]
  OBVIOUS
<1> HIDE DEF front
<1>7. FlattenSeq(Append(front, last)) = FlattenSeq(front) \o last
  BY <1>3, <1>6, FlattenAppend, Zenon
<1> QED
  BY <1>4, <1>5, <1>6, <1>7, Zenon DEF front

\* Concatenation is associative.
LEMMA FlatAssociative ==
    ASSUME NEW a, IsSeq(a), NEW b, IsSeq(b), NEW c, IsSeq(c)
    PROVE  (a \o b) \o c = a \o (b \o c) /\ IsSeq(b \o c)
<1> DEFINE S == ToSet(a) \cup ToSet(b) \cup ToSet(c)
<1>1. a \in Seq(S) /\ b \in Seq(S) /\ c \in Seq(S)
  BY DEF IsSeq
<1> HIDE DEF S
<1>2. b \o c \in Seq(S)
  BY <1>1
<1>3. IsSeq(b \o c)
  BY <1>2, IsSeqOf, Zenon
<1>4. (a \o b) \o c = a \o (b \o c)
  BY <1>1
<1> QED
  BY <1>3, <1>4

\* The form of Gemini contents, and their parts.
PartsFormed(cs) ==
    /\ IsSeq(cs)
    /\ \A k \in DOMAIN cs :
          IsSeq(cs[k].parts) /\ cs[k] = [role |-> cs[k].role, parts |-> cs[k].parts]
PartRows(cs) == [k \in 1..Len(cs) |-> cs[k].parts]
Flat(cs) == FlattenSeq(PartRows(cs))

\* The parts of contents are rows.
LEMMA PartRowsAre ==
    ASSUME NEW cs, PartsFormed(cs)
    PROVE  /\ Len(cs) \in Nat /\ DOMAIN cs = 1..Len(cs)
           /\ AreRows(PartRows(cs), Len(cs))
           /\ IsSeq(Flat(cs))
<1>1. Len(cs) \in Nat /\ DOMAIN cs = 1..Len(cs)
  BY IsSeqFields DEF PartsFormed
<1>2. AreRows(PartRows(cs), Len(cs))
  BY <1>1 DEF AreRows, PartRows, PartsFormed
<1> QED
  BY <1>1, <1>2, FlattenMembers DEF Flat

\* Merged or not, the parts stay in order.
LEMMA AppendContent ==
    ASSUME NEW cs, PartsFormed(cs), NEW role, NEW parts, IsSeq(parts)
    PROVE  /\ PartsFormed(Content!appendContent(cs, role, parts))
           /\ Flat(Content!appendContent(cs, role, parts)) = Flat(cs) \o parts
<1> DEFINE out == Content!appendContent(cs, role, parts)
<1>1. PICK n \in Nat : n = Len(cs) /\ DOMAIN cs = 1..n /\ AreRows(PartRows(cs), n)
  BY PartRowsAre
<1>2. /\ cs \in Seq(ToSet(cs))
      /\ \A k \in DOMAIN cs :
            IsSeq(cs[k].parts) /\ cs[k] = [role |-> cs[k].role, parts |-> cs[k].parts]
  BY DEF PartsFormed, IsSeq
<1>3. CASE ~(cs # << >> /\ cs[n].role = role)
  <2> DEFINE new == [role |-> role, parts |-> parts]
             S == ToSet(cs) \cup {new}
  <2>1. out = Append(cs, new)
    BY <1>1, <1>3 DEF Content!appendContent
  <2>2. cs \in Seq(S) /\ new \in S
    BY <1>2
  <2>3. new.parts = parts /\ new = [role |-> new.role, parts |-> new.parts]
    OBVIOUS
  <2> HIDE DEF new, S, out
  <2>4. /\ out \in Seq(S) /\ Len(out) = n + 1 /\ DOMAIN out = 1..(n + 1)
        /\ out[n + 1] = new /\ \A k \in 1..n : out[k] = cs[k]
    BY <1>1, <2>1, <2>2
  <2>5. PartsFormed(out)
    <3>1. \A k \in 1..(n + 1) :
              IsSeq(out[k].parts) /\ out[k] = [role |-> out[k].role, parts |-> out[k].parts]
      <4>1. \A k \in 1..n :
                IsSeq(out[k].parts) /\ out[k] = [role |-> out[k].role, parts |-> out[k].parts]
        BY <1>1, <1>2, <2>4, Zenon
      <4>2. /\ IsSeq(out[n + 1].parts)
            /\ out[n + 1] = [role |-> out[n + 1].role, parts |-> out[n + 1].parts]
        BY <2>3, <2>4
      <4> QED
        BY <4>1, <4>2
    <3> QED
      BY <2>4, <3>1, IsSeqOf DEF PartsFormed
  <2>6. AreRows(PartRows(out), n + 1)
    BY <2>4, <2>5, PartRowsAre
  <2>7. [i \in 1..n |-> PartRows(out)[i]] = PartRows(cs) /\ PartRows(out)[n + 1] = parts
    BY <1>1, <2>3, <2>4 DEF PartRows
  <2>8. FlattenSeq(PartRows(out)) = FlattenSeq([i \in 1..n |-> PartRows(out)[i]]) \o PartRows(out)[n + 1]
    BY <2>6, FlattenSnoc
  <2> QED
    BY <2>5, <2>7, <2>8, Zenon DEF Flat, out
<1>4. CASE cs # << >> /\ cs[n].role = role
  <2>1. PICK m \in Nat : n = m + 1
    BY <1>1, <1>4
  <2>2. out = [cs EXCEPT ![n].parts = @ \o parts]
    BY <1>1, <1>4 DEF Content!appendContent
  <2>3. cs = [k \in 1..n |-> cs[k]]
    BY <1>1, <1>2
  <2>4. PICK last : last = [cs[n] EXCEPT !.parts = cs[n].parts \o parts]
    BY Zenon
  <2>5. out = [cs EXCEPT ![n] = last]
    BY <2>2, <2>4, Zenon
  <2>6. /\ out = [k \in 1..n |-> out[k]] /\ out[n] = last /\ \A k \in 1..m : out[k] = cs[k]
    <3> HIDE DEF out
    <3>1. n \in 1..n /\ \A k \in 1..m : k \in 1..n /\ k # n
      BY <2>1
    <3>2. PICK c0 : c0 = [k \in 1..n |-> cs[k]]
      BY Zenon
    <3>3. out = [c0 EXCEPT ![n] = last]
      BY <2>3, <2>5, <3>2, Zenon
    <3>4. out = [k \in 1..n |-> IF k = n THEN last ELSE cs[k]]
      BY <3>2, <3>3
    <3> QED
      BY <3>1, <3>4
  <2>7. /\ out[n].parts = cs[n].parts \o parts
        /\ out[n] = [role |-> out[n].role, parts |-> out[n].parts]
    <3>1. last = [role |-> cs[n].role, parts |-> cs[n].parts \o parts]
      <4>1. PICK role0, parts0 : role0 = cs[n].role /\ parts0 = cs[n].parts
        OBVIOUS
      <4>2. cs[n] = [role |-> role0, parts |-> parts0]
        BY <1>1, <1>2, <2>1, <4>1
      <4> QED
        BY <2>4, <4>1, <4>2, Zenon
    <3> HIDE DEF out
    <3>2. out[n] = last
      BY <2>6
    <3> QED
      BY <3>1, <3>2
  <2> HIDE DEF out
  <2>8. IsSeq(out) /\ Len(out) = n /\ DOMAIN out = 1..n
    BY <2>6, IsSeqMap
  <2>9. IsSeq(cs[n].parts) /\ IsSeq(cs[n].parts \o parts)
    BY <1>1, <1>2, <2>1, FlatAssociative
  <2>10. PartsFormed(out)
    <3>1. \A k \in 1..n :
              IsSeq(out[k].parts) /\ out[k] = [role |-> out[k].role, parts |-> out[k].parts]
      <4>1. \A k \in 1..m :
                IsSeq(out[k].parts) /\ out[k] = [role |-> out[k].role, parts |-> out[k].parts]
        <5>1. \A k \in 1..m : out[k] = cs[k] /\ k \in DOMAIN cs
          BY <1>1, <2>1, <2>6
        <5> QED
          BY <1>2, <5>1
      <4>2. \A k \in 1..n : k \in 1..m \/ k = n
        BY <2>1
      <4> QED
        BY <2>7, <2>9, <4>1, <4>2, Zenon
    <3> QED
      BY <2>8, <3>1 DEF PartsFormed
  <2>11. AreRows(PartRows(out), m + 1) /\ AreRows(PartRows(cs), m + 1)
    BY <1>1, <2>1, <2>8, <2>10, PartRowsAre
  <2> DEFINE front == [i \in 1..m |-> PartRows(cs)[i]]
  <2>12. [i \in 1..m |-> PartRows(out)[i]] = front
    <3>1. \A k \in 1..m : out[k] = cs[k] /\ k \in 1..n
      <4>1. \A k \in 1..m : k \in 1..n
        BY <2>1
      <4>2. \A k \in 1..m : out[k] = cs[k]
        BY <2>6, Zenon
      <4> QED
        BY <4>1, <4>2
    <3> QED
      BY <1>1, <2>8, <3>1 DEF PartRows
  <2>13. PartRows(out)[m + 1] = cs[n].parts \o parts /\ PartRows(cs)[m + 1] = cs[n].parts
    BY <1>1, <2>1, <2>7, <2>8 DEF PartRows
  <2>14. /\ FlattenSeq(PartRows(out)) = FlattenSeq(front) \o (cs[n].parts \o parts)
         /\ FlattenSeq(PartRows(cs)) = FlattenSeq(front) \o cs[n].parts
         /\ AreRows(front, m)
    BY <2>11, <2>12, <2>13, FlattenSnoc, Zenon
  <2> HIDE DEF front
  <2>15. IsSeq(FlattenSeq(front))
    BY <2>14, FlattenMembers
  <2>16. (FlattenSeq(front) \o cs[n].parts) \o parts = FlattenSeq(front) \o (cs[n].parts \o parts)
    <3>1. PICK a, b : a = FlattenSeq(front) /\ b = cs[n].parts
      OBVIOUS
    <3>2. IsSeq(a) /\ IsSeq(b)
      BY <2>9, <2>15, <3>1
    <3>3. (a \o b) \o parts = a \o (b \o parts)
      <4> DEFINE S == ToSet(a) \cup ToSet(b) \cup ToSet(parts)
      <4>1. a \in Seq(S) /\ b \in Seq(S) /\ parts \in Seq(S)
        BY <3>2 DEF IsSeq
      <4> HIDE DEF S
      <4> QED
        BY <4>1
    <3> QED
      BY <3>1, <3>3
  <2> QED
    BY <2>10, <2>14, <2>16 DEF Flat, out
<1> QED
  BY <1>3, <1>4

-----------------------------------------------------------------------------
(* Gemini. *)
GemParts(m, model) ==
    [k \in DOMAIN m.content |-> Content!contentToProvider(m.content[k], model)]
GemRole(m) == IF m.role = "assistant" THEN "model" ELSE "user"

\* The contents that the Gemini adapter has made of the first messages.
Merges(f, conv, model, n) ==
    f = [i \in 0..n |-> IF i = 0 THEN << >>
                        ELSE Content!appendContent(f[i - 1], GemRole(conv[i]),
                                                   GemParts(conv[i], model))]

\* appendContent is folded along the messages, and there is such a fold.
LEMMA MergesExists ==
    ASSUME NEW conv, NEW model, NEW n \in Nat
    PROVE  \E f : Merges(f, conv, model, n)
<1> DEFINE P == {m \in Nat : \E f : Merges(f, conv, model, m)}
           At(f, i) == Content!appendContent(f[i - 1], GemRole(conv[i]), GemParts(conv[i], model))
<1>1. 0 \in P
  <2> DEFINE f == [i \in 0..0 |-> << >>]
  <2>1. f = [i \in 0..0 |-> IF i = 0 THEN << >> ELSE At(f, i)]
    <3> HIDE DEF At
    <3> QED
      OBVIOUS
  <2> QED
    BY <2>1, Zenon DEF Merges
<1>2. ASSUME NEW m \in Nat, m \in P PROVE m + 1 \in P
  <2>1. PICK f : Merges(f, conv, model, m)
    BY <1>2
  <2> DEFINE last == Content!appendContent(f[m], GemRole(conv[m + 1]), GemParts(conv[m + 1], model))
             g == [i \in 0..(m + 1) |-> IF i = m + 1 THEN last ELSE f[i]]
  <2>2. f[0] = << >> /\ \A i \in 1..m : f[i] = At(f, i)
    <3>1. f = [i \in 0..m |-> IF i = 0 THEN << >> ELSE At(f, i)]
      BY <2>1, Zenon DEF Merges
    <3> HIDE DEF At
    <3> QED
      BY <3>1
  <2> HIDE DEF last
  <2>3. \A i \in 0..m : g[i] = f[i]
    OBVIOUS
  <2>4. g[m + 1] = last
    OBVIOUS
  <2>5. g = [i \in 0..(m + 1) |-> g[i]]
    OBVIOUS
  <2> HIDE DEF g
  <2>6. g[m + 1] = At(g, m + 1)
    <3>1. m + 1 - 1 = m /\ g[m] = f[m]
      BY <2>3
    <3> QED
      BY <2>4, <3>1 DEF last
  <2>7. \A i \in 1..m : g[i] = At(g, i)
    <3> SUFFICES ASSUME NEW i \in 1..m PROVE g[i] = At(g, i)
      OBVIOUS
    <3>1. g[i - 1] = f[i - 1] /\ g[i] = f[i]
      BY <2>3
    <3> QED
      BY <2>2, <3>1
  <2>8. ASSUME NEW i \in 0..(m + 1) PROVE g[i] = IF i = 0 THEN << >> ELSE At(g, i)
    <3> HIDE DEF At
    <3>1. CASE i = 0
      BY <2>2, <2>3, <3>1
    <3>2. CASE i \in 1..m
      BY <2>7, <3>2
    <3>3. CASE i = m + 1
      BY <2>6, <3>3
    <3> QED
      BY <3>1, <3>2, <3>3
  <2>9. g = [i \in 0..(m + 1) |-> IF i = 0 THEN << >> ELSE At(g, i)]
    <3> HIDE DEF At
    <3> QED
      BY <2>5, <2>8
  <2>10. Merges(g, conv, model, m + 1)
    BY <2>9, Zenon DEF Merges
  <2> QED
    BY <2>10
<1> HIDE DEF P
<1>3. Nat \subseteq P
  BY <1>1, <1>2, SetInduction
<1> QED
  BY <1>3 DEF P

\* What the fold has at a position.
LEMMA MergesAt ==
    ASSUME NEW conv, NEW model, NEW n \in Nat, NEW f, Merges(f, conv, model, n)
    PROVE  /\ f[0] = << >>
           /\ \A i \in 1..n : f[i] = Content!appendContent(f[i - 1], GemRole(conv[i]),
                                                           GemParts(conv[i], model))
<1> DEFINE At(i) == Content!appendContent(f[i - 1], GemRole(conv[i]), GemParts(conv[i], model))
<1>1. f = [i \in 0..n |-> IF i = 0 THEN << >> ELSE At(i)]
  BY Zenon DEF Merges
<1> HIDE DEF At
<1>2. f[0] = << >> /\ \A i \in 1..n : f[i] = At(i)
  BY <1>1
<1> QED
  BY <1>2 DEF At

\* Messages that are merged into one content keep their parts and order.
LEMMA MergedParts ==
    ASSUME NEW conv, IsSeq(conv), NEW model, NEW f, Merges(f, conv, model, Len(conv)),
           NEW B, Spreads(B, conv), \A i \in DOMAIN conv : B[conv[i]] = GemParts(conv[i], model)
    PROVE  PartsFormed(f[Len(conv)]) /\ Flat(f[Len(conv)]) = FlatMap(B, conv)
<1>1. PICK n \in Nat : n = Len(conv) /\ DOMAIN conv = 1..n
  BY IsSeqFields
<1> DEFINE pre(i) == [k \in 1..i |-> conv[k]]
           P == {i \in Nat : i <= n => PartsFormed(f[i]) /\ Flat(f[i]) = FlatMap(B, pre(i))}
<1>2. f[0] = << >> /\ \A i \in 1..n : f[i] = Content!appendContent(f[i - 1], GemRole(conv[i]),
                                                                   GemParts(conv[i], model))
  <2>1. Merges(f, conv, model, n)
    BY <1>1
  <2> QED
    BY <2>1, MergesAt, Zenon
<1>3. 0 \in P
  <2>1. pre(0) = << >> /\ PartRows(<< >>) = << >>
    BY DEF PartRows
  <2>2. PartsFormed(<< >>)
    BY IsSeqTuples DEF PartsFormed
  <2> QED
    BY <1>2, <2>1, <2>2, FlattenEmpty, FlatMapEmpty DEF Flat
<1>4. ASSUME NEW i \in Nat, i \in P PROVE i + 1 \in P
  <2> SUFFICES ASSUME i + 1 <= n
               PROVE  PartsFormed(f[i + 1]) /\ Flat(f[i + 1]) = FlatMap(B, pre(i + 1))
    OBVIOUS
  <2>1. PartsFormed(f[i]) /\ Flat(f[i]) = FlatMap(B, pre(i))
    BY <1>4
  <2>2. i + 1 \in 1..n /\ (i + 1) - 1 = i
    OBVIOUS
  <2>3. PICK m : m = conv[i + 1]
    OBVIOUS
  <2>4. IsSeq(B[m]) /\ B[m] = GemParts(m, model)
    BY <1>1, <2>2, <2>3 DEF Spreads
  <2>5. f[i + 1] = Content!appendContent(f[i], GemRole(m), B[m])
    BY <1>2, <2>2, <2>3, <2>4
  <2>6. PartsFormed(f[i + 1]) /\ Flat(f[i + 1]) = Flat(f[i]) \o B[m]
    <3>1. PICK cs, role, parts : cs = f[i] /\ role = GemRole(m) /\ parts = B[m]
      OBVIOUS
    <3>2. /\ PartsFormed(Content!appendContent(cs, role, parts))
          /\ Flat(Content!appendContent(cs, role, parts)) = Flat(cs) \o parts
      BY <2>1, <2>4, <3>1, AppendContent, Zenon
    <3> QED
      BY <2>5, <3>1, <3>2
  <2> DEFINE a == pre(i)
             b == <<m>>
  <2>7. pre(i + 1) = a \o b
    BY <2>3
  <2>8. IsSeq(a)
    <3>1. a = [k \in 1..i |-> a[k]]
      OBVIOUS
    <3> HIDE DEF a
    <3> QED
      BY <3>1, IsSeqMap
  <2>9. Spreads(B, a) /\ Spreads(B, b) /\ IsSeq(b)
    <3>1. \A k \in DOMAIN a : a[k] = conv[k] /\ k \in DOMAIN conv
      BY <1>1
    <3> QED
      BY <2>4, <3>1, IsSeqTuples DEF Spreads
  <2>10. FlatMap(B, b) = B[m]
    BY <2>4, FlatMapSingle
  <2> HIDE DEF a, b
  <2>11. FlatMap(B, a \o b) = FlatMap(B, a) \o FlatMap(B, b)
    BY <2>8, <2>9, FlatMapJoin
  <2> QED
    BY <2>1, <2>6, <2>7, <2>10, <2>11, Zenon DEF a
<1>5. Nat \subseteq P
  <2> HIDE DEF P
  <2> QED
    BY <1>3, <1>4, SetInduction
<1>6. pre(n) = conv
  BY <1>1 DEF IsSeq
<1>7. n \in P
  BY <1>5
<1> QED
  BY <1>1, <1>6, <1>7

\* What a Gemini provider sees of a part.
GemPart(part) ==
    CASE part.type = "functionCall" ->
            <<SeenCall(part.id, part.name, part.args, part.signature)>>
      [] part.type = "functionResponse" ->
            <<SeenResult(part.id, part.name, part.outcome, part.isError)>>
      [] OTHER -> << >>
GemImages(part) == IF part.type = "inlineData" THEN <<Image("inline")>> ELSE << >>
InlineView(S) == [x \in S |-> IF x.type = "image" THEN <<Image("inline")>> ELSE << >>]
GemRow(m, model) == IF m.role = "system" THEN << >> ELSE GemParts(m, model)

\* g and gi read parts as a Gemini provider does.
GemReads(g, gi, s) == \A k \in DOMAIN s : g[s[k]] = GemPart(s[k]) /\ gi[s[k]] = GemImages(s[k])

\* There is a Gemini part for every part.
LEMMA GemPartsSeq ==
    ASSUME NEW m, IsSeq(m.content), NEW model
    PROVE  IsSeq(GemParts(m, model)) /\ DOMAIN GemParts(m, model) = DOMAIN m.content
<1> DEFINE row == GemParts(m, model)
<1>1. PICK n \in Nat : n = Len(m.content) /\ DOMAIN m.content = 1..n
  BY IsSeqFields
<1>2. row = [k \in 1..n |-> row[k]]
  BY <1>1 DEF GemParts
<1> HIDE DEF row
<1>3. IsSeq(row) /\ DOMAIN row = 1..n
  BY <1>2, IsSeqMap
<1> QED
  BY <1>1, <1>3 DEF row

\* A Gemini provider sees a part as PartView says.
LEMMA GemPartShown ==
    ASSUME NEW x, x.type \in {"text", "image", "tool_call", "tool_result"}, NEW model,
           NEW b, b = Content!contentToProvider(x, model)
    PROVE  /\ GemPart(b) = PartView("gemini", model, x)
           /\ GemImages(b) = IF x.type = "image" THEN <<Image("inline")>> ELSE << >>
<1>1. CASE x.type = "tool_call"
  <2> DEFINE sign == IF x.signature = NoSignature /\ model = Content!Gemini3
                     THEN Content!SkipThoughtSignatureValidator ELSE x.signature
  <2>1. b = Content!FunctionCall(x.id, x.name, x.arguments, sign)
    BY <1>1 DEF Content!contentToProvider, NoSignature, Content!NoSignature
  <2>2. PartView("gemini", model, x) = <<SeenCall(x.id, x.name, x.arguments, sign)>>
    BY <1>1 DEF PartView, CallView
  <2> HIDE DEF sign
  <2>3. /\ b.type = "functionCall" /\ b.id = x.id /\ b.name = x.name /\ b.args = x.arguments
        /\ b.signature = sign
    BY <2>1 DEF Content!FunctionCall
  <2> QED
    BY <1>1, <2>2, <2>3 DEF GemPart, GemImages
<1>2. CASE x.type = "tool_result"
  <2> DEFINE flag == x.form = "text" /\ x.isError
  <2>1. b = Content!FunctionResponse(x.id, x.name, x.outcome, flag)
    BY <1>2, Zenon DEF Content!contentToProvider
  <2>2. PartView("gemini", model, x) = <<SeenResult(x.id, x.name, x.outcome, flag)>>
    <3>1. "gemini" # "anthropic" /\ "tool_result" # "tool_call"
      OBVIOUS
    <3> QED
      BY <1>2, <3>1, Zenon DEF PartView, ResultView
  <2> HIDE DEF flag
  <2>3. /\ b.type = "functionResponse" /\ b.id = x.id /\ b.name = x.name
        /\ b.outcome = x.outcome /\ b.isError = flag
    BY <2>1 DEF Content!FunctionResponse
  <2> QED
    BY <1>2, <2>2, <2>3 DEF GemPart, GemImages
<1>3. CASE x.type = "image"
  <2>1. b = [type |-> "inlineData"]
    BY <1>3 DEF Content!contentToProvider
  <2>2. b.type = "inlineData"
    BY <2>1
  <2> QED
    BY <1>3, <2>2 DEF GemPart, GemImages, PartView
<1>4. CASE x.type = "text"
  <2>1. b = x
    BY <1>4 DEF Content!contentToProvider
  <2> QED
    BY <1>4, <2>1 DEF GemPart, GemImages, PartView
<1> QED
  BY <1>1, <1>2, <1>3, <1>4

\* A Gemini provider sees the calls, results and images of a message.
LEMMA GeminiMessageShown ==
    ASSUME NEW m, IsSeq(m.content), MessageValid(m), NEW model, NEW S,
           ToSet(m.content) \subseteq S, NEW g, NEW gi, GemReads(g, gi, GemRow(m, model))
    PROVE  /\ IsSeq(GemRow(m, model))
           /\ Spreads(g, GemRow(m, model)) /\ Spreads(gi, GemRow(m, model))
           /\ FlatMap(g, GemRow(m, model)) = FlatMap(View("gemini", model, S), m.content)
           /\ FlatMap(gi, GemRow(m, model)) = FlatMap(InlineView(S), m.content)
<1> DEFINE c == m.content
           h == View("gemini", model, S)
           hi == InlineView(S)
           row == GemRow(m, model)
<1>1. \A k \in DOMAIN c : /\ h[c[k]] = PartView("gemini", model, c[k])
                          /\ hi[c[k]] = IF c[k].type = "image" THEN <<Image("inline")>> ELSE << >>
  <2>1. \A k \in DOMAIN c : c[k] \in S
    BY DEF ToSet
  <2> QED
    BY <2>1 DEF View, InlineView
<1> HIDE DEF h, hi
<1>2. CASE m.role = "system"
  <2>1. row = << >>
    BY <1>2 DEF GemRow
  <2>2. \A k \in DOMAIN c : c[k].type = "text"
    BY <1>2, ValidRoles
  <2>3. Vanish(h, c) /\ Vanish(hi, c)
    BY <1>1, <2>2, Zenon DEF Vanish, PartView
  <2>4. FlatMap(h, c) = << >> /\ FlatMap(hi, c) = << >>
    BY <2>3, FlatMapVanish
  <2>5. FlatMap(g, << >>) = << >> /\ FlatMap(gi, << >>) = << >>
    BY FlatMapEmpty
  <2>6. Spreads(g, << >>) /\ Spreads(gi, << >>)
    BY DEF Spreads
  <2> HIDE DEF row
  <2> QED
    BY <2>1, <2>4, <2>5, <2>6, IsSeqTuples DEF row, h, hi
<1>3. CASE m.role # "system"
  <2>1. row = GemParts(m, model)
    BY <1>3 DEF GemRow
  <2>2. IsSeq(row) /\ DOMAIN row = DOMAIN c
    BY <2>1, GemPartsSeq
  <2>3. \A k \in DOMAIN c : c[k].type \in {"text", "image", "tool_call", "tool_result"}
    BY ValidTypes
  <2>4. ASSUME NEW k \in DOMAIN c
        PROVE  g[row[k]] = h[c[k]] /\ gi[row[k]] = hi[c[k]]
    <3>1. PICK b, x : b = row[k] /\ x = c[k]
      OBVIOUS
    <3>2. b = Content!contentToProvider(x, model)
      BY <2>1, <3>1 DEF GemParts
    <3>3. g[row[k]] = GemPart(b) /\ gi[row[k]] = GemImages(b)
      BY <2>2, <3>1 DEF GemReads
    <3>4. /\ GemPart(b) = PartView("gemini", model, x)
          /\ GemImages(b) = IF x.type = "image" THEN <<Image("inline")>> ELSE << >>
      BY <2>3, <3>1, <3>2, GemPartShown
    <3> QED
      BY <1>1, <3>1, <3>3, <3>4
  <2> HIDE DEF row
  <2>5. /\ [k \in DOMAIN row |-> g[row[k]]] = [k \in DOMAIN c |-> h[c[k]]]
        /\ [k \in DOMAIN row |-> gi[row[k]]] = [k \in DOMAIN c |-> hi[c[k]]]
    BY <2>2, <2>4
  <2>6. FlatMap(g, row) = FlatMap(h, c) /\ FlatMap(gi, row) = FlatMap(hi, c)
    BY <2>5 DEF FlatMap
  <2>7. Spreads(h, c)
    BY ViewSpreads DEF h
  <2>8. Spreads(g, row)
    BY <2>2, <2>4, <2>7 DEF Spreads
  <2>9. Spreads(gi, row)
    <3>1. \A k \in DOMAIN row : gi[row[k]] = << >> \/ gi[row[k]] = <<Image("inline")>>
      BY <1>1, <2>2, <2>4
    <3>2. IsSeq(<< >>) /\ IsSeq(<<Image("inline")>>)
      BY IsSeqTuples
    <3> QED
      BY <3>1, <3>2 DEF Spreads
  <2> QED
    BY <2>2, <2>6, <2>8, <2>9 DEF row, h, hi
<1> QED
  BY <1>2, <1>3

\* What the Gemini adapter makes of a request.
LEMMA GeminiMerged ==
    ASSUME NEW r, Content!ToProviderRequest(r).ok, IsSeq(AfterSystem(r.messages))
    PROVE  /\ RequestValid(r)
           /\ Content!ToProviderRequest(r).value.system = (AfterSystem(r.messages) # r.messages)
           /\ \A part \in ToSet(Contents(r.messages)) : Content!Representable(part)
           /\ \E f : /\ Merges(f, AfterSystem(r.messages), r.model, Len(AfterSystem(r.messages)))
                     /\ Content!ToProviderRequest(r).value.contents
                            = f[Len(AfterSystem(r.messages))]
<1> DEFINE conv == AfterSystem(r.messages)
           f == CHOOSE f : f = [i \in 0..Len(conv) |->
                    IF i = 0 THEN << >>
                    ELSE Content!appendContent(f[i - 1],
                             IF conv[i].role = "assistant" THEN "model" ELSE "user",
                             [k \in DOMAIN conv[i].content |->
                                 Content!contentToProvider(conv[i].content[k], r.model)])]
<1>1. Content!AfterSystem(r.messages) = conv
  BY ContentSequences
<1>2. RequestValid(r)
  BY SameValidation DEF Content!ToProviderRequest, Content!AcceptIf, Content!Refused
<1>3. Content!ToProviderRequest(r).value.system = (conv # r.messages)
  BY <1>1 DEF Content!ToProviderRequest, Content!AcceptIf, Content!Accepted, Content!Refused
<1>4. \A part \in ToSet(Contents(r.messages)) : Content!Representable(part)
  BY ContentSequences, Zenon DEF Content!ToProviderRequest, Content!AcceptIf, Content!Refused
<1>5. Content!ToProviderRequest(r).value.contents = f[Len(conv)]
  BY <1>1 DEF Content!ToProviderRequest, Content!AcceptIf, Content!Accepted, Content!Refused
<1>6. Len(conv) \in Nat
  BY IsSeqFields
<1>7. \E e : Merges(e, conv, r.model, Len(conv))
  BY <1>6, MergesExists, Zenon
<1>8. Merges(f, conv, r.model, Len(conv))
  BY <1>7, Zenon DEF Merges, GemRole, GemParts
<1> HIDE DEF f, conv
<1> QED
  BY <1>2, <1>3, <1>4, <1>5, <1>8 DEF conv

\* A Gemini provider sees what the IR request says.
LEMMA GeminiShows ==
    ASSUME NEW r, Formed(r.messages), Content!ToProviderRequest(r).ok
    PROVE  Shows("gemini", r, Content!Seen(Content!ToProviderRequest(r).value))
<1> DEFINE sent == Content!ToProviderRequest(r).value
           seen == Content!Seen(sent)
           ms == r.messages
           conv == AfterSystem(ms)
           B == [m \in ToSet(ms) |-> GemParts(m, r.model)]
           tt == [i \in 1..Len(ms) |-> IF ms[i].role = "system" THEN << >> ELSE B[ms[i]]]
           S == ToSet(Contents(ms))
           h == View("gemini", r.model, S)
           hi == InlineView(S)
<1>1. DOMAIN ms = 1..Len(ms) /\ Len(ms) \in Nat /\ IsSeq(Contents(ms)) /\ IsSeq(ms)
  BY ContentsRows DEF Formed
<1>2. \A k \in DOMAIN ms : ms[k] \in ToSet(ms) /\ B[ms[k]] = GemParts(ms[k], r.model)
  <2>1. \A k \in DOMAIN ms : ms[k] \in ToSet(ms)
    BY DEF ToSet
  <2> HIDE DEF ms
  <2> QED
    BY <2>1
<1>3. Spreads(B, ms)
  <2>1. \A k \in DOMAIN ms : IsSeq(ms[k].content)
    BY DEF Formed
  <2> HIDE DEF B
  <2> QED
    BY <1>2, <2>1, GemPartsSeq DEF Spreads
<1> HIDE DEF B
<1>4. /\ IsSeq(conv)
      /\ \A k \in DOMAIN conv : conv[k].role # "system" /\ conv[k] \in ToSet(ms)
      /\ FlatMap(B, conv) = FlattenSeq(tt)
      /\ AreRows(tt, Len(ms))
  BY <1>1, <1>3, AfterSystemRows, Zenon
<1>5. /\ RequestValid(r) /\ sent.system = (conv # ms)
      /\ \A part \in S : Content!Representable(part)
  BY <1>4, GeminiMerged
<1>6. PICK f : Merges(f, conv, r.model, Len(conv)) /\ sent.contents = f[Len(conv)]
  BY <1>4, GeminiMerged
<1> HIDE DEF sent, conv
<1>7. PartsFormed(sent.contents) /\ Flat(sent.contents) = FlattenSeq(tt)
  <2>1. \A i \in DOMAIN conv : B[conv[i]] = GemParts(conv[i], r.model)
    BY <1>4 DEF B
  <2>2. \A m \in ToSet(ms) : IsSeq(m.content)
    BY DEF Formed, ToSet
  <2>3. Spreads(B, conv)
    BY <1>4, <2>1, <2>2, GemPartsSeq DEF Spreads
  <2>4. PartsFormed(f[Len(conv)]) /\ Flat(f[Len(conv)]) = FlatMap(B, conv)
    BY <1>4, <1>6, <2>1, <2>3, MergedParts
  <2> QED
    BY <1>4, <1>6, <2>4
<1> DEFINE all == Flat(sent.contents)
           g == [y \in ToSet(all) |-> GemPart(y)]
           gi == [y \in ToSet(all) |-> GemImages(y)]
           e == [y \in ToSet(all) |-> Image("inline")]
           ei == [y \in S |-> Image("inline")]
           images == OfType(all, "inlineData")
<1>8. /\ seen.parts = FlattenSeq([i \in DOMAIN all |-> GemPart(all[i])])
      /\ seen.images = [i \in DOMAIN images |-> Image("inline")]
      /\ seen.system = sent.system
  <2> HIDE DEF g, gi
  <2>1. Content!FlattenSeq([i \in DOMAIN sent.contents |-> sent.contents[i].parts]) = all
    <3>1. DOMAIN sent.contents = 1..Len(sent.contents)
      BY <1>7, PartRowsAre
    <3>2. FlattenSeq([i \in DOMAIN sent.contents |-> sent.contents[i].parts]) = all
      BY <3>1 DEF Flat, PartRows
    <3> QED
      BY <3>2, ContentSequences
  <2> HIDE DEF all
  <2>2. seen.parts = FlattenSeq([i \in DOMAIN all |-> GemPart(all[i])])
    <3>1. seen.parts = Content!FlattenSeq([i \in DOMAIN all |-> GemPart(all[i])])
      BY <2>1 DEF Content!Seen, GemPart, SeenCall, SeenResult
    <3> QED
      BY <3>1, ContentSequences
  <2>3. seen.images = [i \in DOMAIN images |-> Image("inline")]
    BY <2>1, ContentSequences DEF Content!Seen, Image, Content!Image
  <2>4. seen.system = sent.system
    BY DEF Content!Seen
  <2> QED
    BY <2>2, <2>3, <2>4
<1> HIDE DEF seen
<1>9. /\ IsSeq(all) /\ \A k \in DOMAIN all : all[k] \in ToSet(all)
      /\ \A i \in 1..Len(ms) : \A k \in DOMAIN tt[i] : tt[i][k] \in ToSet(all)
  <2>1. IsSeq(all) /\ \A x : x \in ToSet(all) <=> \E i \in 1..Len(ms) : x \in ToSet(tt[i])
    BY <1>1, <1>4, <1>7, FlattenMembers, Zenon
  <2> HIDE DEF tt, all
  <2> QED
    BY <2>1, Zenon DEF ToSet
<1>10. \A i \in 1..Len(ms) : tt[i] = GemRow(ms[i], r.model)
  BY <1>1, <1>2 DEF GemRow
<1>11. seen.parts = FlatMap(g, all)
  <2> HIDE DEF all
  <2>1. [i \in DOMAIN all |-> GemPart(all[i])] = [i \in DOMAIN all |-> g[all[i]]]
    BY <1>9
  <2> QED
    BY <1>8, <2>1, Zenon DEF FlatMap
<1>12. seen.images = FlatMap(gi, all)
  <2> HIDE DEF all
  <2>1. ForEach(gi, e, all, "inlineData")
    BY <1>9 DEF ForEach, GemImages
  <2>2. FlatMap(gi, all) = [j \in DOMAIN images |-> e[images[j]]]
    <3> HIDE DEF gi, e
    <3> QED
      BY <1>9, <2>1, FlatMapOfType
  <2>3. \A j \in DOMAIN images : images[j] \in ToSet(all)
    <3>1. \A j \in DOMAIN images : \E i \in DOMAIN all : images[j] = all[i]
      BY <1>9, OfTypeMembers
    <3> QED
      BY <3>1 DEF ToSet
  <2>4. [j \in DOMAIN images |-> e[images[j]]] = [j \in DOMAIN images |-> Image("inline")]
    <3> HIDE DEF images
    <3> QED
      BY <2>3
  <2> QED
    BY <1>8, <2>2, <2>4
<1>13. \A i \in 1..Len(ms) : GemReads(g, gi, GemRow(ms[i], r.model))
  <2> HIDE DEF tt, all
  <2> QED
    BY <1>9, <1>10 DEF GemReads
<1> HIDE DEF g, gi, tt, e
<1>14. \A i \in DOMAIN ms : /\ Spreads(g, tt[i]) /\ Spreads(gi, tt[i])
                            /\ FlatMap(g, tt[i]) = FlatMap(h, ms[i].content)
                            /\ FlatMap(gi, tt[i]) = FlatMap(hi, ms[i].content)
  <2> SUFFICES ASSUME NEW i \in 1..Len(ms)
               PROVE  /\ Spreads(g, tt[i]) /\ Spreads(gi, tt[i])
                      /\ FlatMap(g, tt[i]) = FlatMap(h, ms[i].content)
                      /\ FlatMap(gi, tt[i]) = FlatMap(hi, ms[i].content)
    BY <1>1
  <2>1. PICK m : m = ms[i]
    OBVIOUS
  <2>2. ToSet(m.content) \subseteq S
    BY <1>1, <2>1, ContentsRows
  <2> HIDE DEF S
  <2>3. IsSeq(m.content) /\ MessageValid(m) /\ GemReads(g, gi, GemRow(m, r.model))
    BY <1>1, <1>5, <1>13, <2>1 DEF Formed, RequestValid
  <2>4. /\ Spreads(g, GemRow(m, r.model)) /\ Spreads(gi, GemRow(m, r.model))
        /\ FlatMap(g, GemRow(m, r.model)) = FlatMap(h, m.content)
        /\ FlatMap(gi, GemRow(m, r.model)) = FlatMap(hi, m.content)
    BY <2>2, <2>3, GeminiMessageShown, Zenon
  <2> QED
    BY <1>10, <2>1, <2>4
<1>15. Spreads(h, Contents(ms))
  BY ViewSpreads
<1>16. /\ \A k \in DOMAIN Contents(ms) : Contents(ms)[k] \in S
       /\ \A x \in S : hi[x] = IF x.type = "image" THEN <<Image("inline")>> ELSE << >>
       /\ \A x \in S : ei[x] = Image("inline")
  BY DEF ToSet, InlineView
<1> HIDE DEF S, hi, ei
<1>17. Spreads(hi, Contents(ms)) /\ ForEach(hi, ei, Contents(ms), "image")
  <2>1. IsSeq(<< >>) /\ IsSeq(<<Image("inline")>>)
    BY IsSeqTuples
  <2> QED
    BY <1>16, <2>1 DEF Spreads, ForEach
<1> HIDE DEF h
<1>18. RowsSpread(g, tt, Len(ms)) /\ RowsSpread(gi, tt, Len(ms))
  BY <1>1, <1>14 DEF RowsSpread
<1>19. FlatMap(g, FlattenSeq(tt)) = FlatMap(h, Contents(ms))
  BY <1>4, <1>14, <1>15, <1>18, ContentsSame
<1>20. FlatMap(gi, FlattenSeq(tt)) = FlatMap(hi, Contents(ms))
  BY <1>4, <1>14, <1>17, <1>18, ContentsSame
<1>21. FlatMap(hi, Contents(ms)) = [k \in DOMAIN OfType(Contents(ms), "image") |-> Image("inline")]
  <2> DEFINE pics == OfType(Contents(ms), "image")
  <2>1. FlatMap(hi, Contents(ms)) = [k \in DOMAIN pics |-> ei[pics[k]]]
    BY <1>1, <1>17, FlatMapOfType
  <2>2. \A k \in DOMAIN pics : pics[k] \in S
    <3>1. \A k \in DOMAIN pics : \E i \in DOMAIN Contents(ms) : pics[k] = Contents(ms)[i]
      BY <1>1, OfTypeMembers
    <3> QED
      BY <1>16, <3>1
  <2> HIDE DEF pics
  <2>3. [k \in DOMAIN pics |-> ei[pics[k]]] = [k \in DOMAIN pics |-> Image("inline")]
    BY <1>16, <2>2
  <2> QED
    BY <2>1, <2>3 DEF pics
<1>22. ms[1].role = "system" => seen.system
  <2> SUFFICES ASSUME ms[1].role = "system" PROVE conv # ms
    BY <1>5, <1>8, Zenon
  <2>1. 1 \in DOMAIN ms
    BY <1>1, <1>5 DEF RequestValid
  <2> QED
    BY <1>4, <2>1
<1> QED
  BY <1>5, <1>7, <1>11, <1>12, <1>19, <1>20, <1>21, <1>22 DEF Shows, h, seen, sent, S

-----------------------------------------------------------------------------
(***************************************************************************)
(* Content that tells of the calls that were made: the same calls in the   *)
(* same order, a result for each of them, and the images of the prompt.    *)
(***************************************************************************)
\* A result is that of the call, and of the call that was made.
Answers(x, call, entry) ==
    /\ x.id = call.id
    /\ x.outcome = entry.arguments
    /\ x.isError = entry.isError
    /\ entry.isError => x.form \in {"text", "image"}

\* The calls are the ones that were made, in their order.
SameCalls(calls, M) ==
    /\ IsSeq(calls) /\ IsSeq(M) /\ Len(calls) = Len(M)
    /\ \A k \in 1..Len(M) : /\ calls[k].name = M[k].name
                            /\ calls[k].arguments = M[k].arguments
                            /\ calls[k].signature = M[k].signature

\* Every result is that of a call, and every call has a result.
IsAnswered(x, calls, M) == \E k \in 1..Len(M) : Answers(x, calls[k], M[k])
AllAnswered(T, calls, M) ==
    /\ \A x \in T : x.type = "tool_result" => IsAnswered(x, calls, M)
    /\ \A k \in 1..Len(M) : \E x \in T : x.type = "tool_result" /\ x.id = calls[k].id

\* Content tells of the calls M and their results, and has the images.
Faithful(C, M, images) ==
    /\ IsSeq(C)
    /\ SameCalls(OfType(C, "tool_call"), M)
    /\ AllAnswered(ToSet(C), OfType(C, "tool_call"), M)
    /\ OfType(C, "image") = images

\* The parts of a type of two contents, one after the other.
LEMMA OfTypeJoin ==
    ASSUME NEW C, IsSeq(C), NEW D, IsSeq(D), NEW t
    PROVE  /\ OfType(C \o D, t) = OfType(C, t) \o OfType(D, t)
           /\ IsSeq(C \o D)
           /\ ToSet(C \o D) = ToSet(C) \cup ToSet(D)
<1> DEFINE S == ToSet(C) \cup ToSet(D)
<1>1. C \in Seq(S) /\ D \in Seq(S)
  BY DEF IsSeq
<1> HIDE DEF S
<1>2. C \o D \in Seq(S)
  BY <1>1
<1>3. IsSeq(C \o D)
  BY <1>2, IsSeqOf, Zenon
<1>4. OfType(C \o D, t) = OfType(C, t) \o OfType(D, t)
  BY <1>1, OfTypeConcat
<1>5. ToSet(C \o D) = ToSet(C) \cup ToSet(D)
  BY <1>1, ToSetConcat
<1> QED
  BY <1>3, <1>4, <1>5

\* One sequence after the other.
Joins(u, s, t) ==
    /\ IsSeq(u) /\ Len(u) = Len(s) + Len(t)
    /\ \A k \in 1..Len(s) : u[k] = s[k]
    /\ \A k \in 1..Len(t) : u[Len(s) + k] = t[k]

\* Concatenation, as a predicate on positions.
LEMMA JoinsConcat ==
    ASSUME NEW s, IsSeq(s), NEW t, IsSeq(t)
    PROVE  Joins(s \o t, s, t)
<1> DEFINE S == ToSet(s) \cup ToSet(t)
<1>1. s \in Seq(S) /\ t \in Seq(S)
  BY DEF IsSeq
<1> HIDE DEF S
<1>2. s \o t \in Seq(S)
  BY <1>1
<1>3. IsSeq(s \o t)
  BY <1>2, IsSeqOf, Zenon
<1>4. Len(s \o t) = Len(s) + Len(t)
  BY <1>1
<1>5. \A k \in 1..Len(s) : (s \o t)[k] = s[k]
  BY <1>1
<1>6. \A k \in 1..Len(t) : (s \o t)[Len(s) + k] = t[k]
  BY <1>1
<1> QED
  BY <1>3, <1>4, <1>5, <1>6 DEF Joins

\* What is told in two contents is told in both together.
LEMMA FaithfulJoin ==
    ASSUME NEW C, NEW M, NEW im, Faithful(C, M, im), NEW D, NEW N, NEW jm, Faithful(D, N, jm)
    PROVE  Faithful(C \o D, M \o N, im \o jm)
<1>1. PICK a, b, u, P : /\ a = OfType(C, "tool_call") /\ b = OfType(D, "tool_call")
                        /\ u = OfType(C \o D, "tool_call") /\ P = M \o N
  BY Zenon
<1>2. IsSeq(C) /\ IsSeq(D) /\ SameCalls(a, M) /\ SameCalls(b, N)
  BY <1>1 DEF Faithful
<1>3. /\ u = a \o b /\ IsSeq(C \o D) /\ ToSet(C \o D) = ToSet(C) \cup ToSet(D)
      /\ OfType(C \o D, "image") = im \o jm
  <2>1. /\ OfType(C \o D, "tool_call") = OfType(C, "tool_call") \o OfType(D, "tool_call")
        /\ IsSeq(C \o D)
        /\ ToSet(C \o D) = ToSet(C) \cup ToSet(D)
    BY <1>2, OfTypeJoin
  <2>2. OfType(C \o D, "image") = OfType(C, "image") \o OfType(D, "image")
    BY <1>2, OfTypeJoin
  <2>3. OfType(C, "image") = im /\ OfType(D, "image") = jm
    BY DEF Faithful
  <2>4. u = a \o b
    BY <1>1, <2>1
  <2>5. OfType(C \o D, "image") = im \o jm
    BY <2>2, <2>3
  <2> QED
    BY <2>1, <2>4, <2>5
<1>4. Joins(u, a, b) /\ Joins(P, M, N)
  BY <1>1, <1>2, <1>3, JoinsConcat, Zenon DEF SameCalls
<1>5. PICK m \in Nat, n \in Nat : /\ m = Len(M) /\ n = Len(N) /\ m = Len(a) /\ n = Len(b)
                                  /\ Len(u) = m + n /\ Len(P) = m + n
  BY <1>2, <1>4, IsSeqFields, Zenon DEF SameCalls, Joins
<1>6. \A k \in 1..(m + n) : k \in 1..m \/ \E j \in 1..n : k = m + j
  <2> SUFFICES ASSUME NEW k \in 1..(m + n), k \notin 1..m PROVE \E j \in 1..n : k = m + j
    OBVIOUS
  <2>1. k - m \in 1..n /\ k = m + (k - m)
    OBVIOUS
  <2> QED
    BY <2>1
<1>7. /\ \A k \in 1..m : k \in 1..(m + n) /\ u[k] = a[k] /\ P[k] = M[k]
      /\ \A k \in 1..n : m + k \in 1..(m + n) /\ u[m + k] = b[k] /\ P[m + k] = N[k]
  BY <1>4, <1>5 DEF Joins
<1>8. SameCalls(u, P)
  <2>1. \A k \in 1..m : /\ u[k].name = P[k].name /\ u[k].arguments = P[k].arguments
                        /\ u[k].signature = P[k].signature
    BY <1>2, <1>5, <1>7 DEF SameCalls
  <2>2. \A k \in 1..n : /\ u[m + k].name = P[m + k].name
                        /\ u[m + k].arguments = P[m + k].arguments
                        /\ u[m + k].signature = P[m + k].signature
    <3> SUFFICES ASSUME NEW k \in 1..n
                 PROVE  /\ u[m + k].name = P[m + k].name
                        /\ u[m + k].arguments = P[m + k].arguments
                        /\ u[m + k].signature = P[m + k].signature
      OBVIOUS
    <3>1. u[m + k] = b[k] /\ P[m + k] = N[k]
      BY <1>7
    <3>2. /\ b[k].name = N[k].name /\ b[k].arguments = N[k].arguments
          /\ b[k].signature = N[k].signature
      BY <1>2, <1>5 DEF SameCalls
    <3> QED
      BY <3>1, <3>2
  <2>3. IsSeq(u) /\ IsSeq(P)
    BY <1>4 DEF Joins
  <2>4. ASSUME NEW k \in 1..(m + n)
        PROVE  /\ u[k].name = P[k].name /\ u[k].arguments = P[k].arguments
               /\ u[k].signature = P[k].signature
    <3>1. CASE k \in 1..m
      BY <2>1, <3>1
    <3>2. CASE \E j \in 1..n : k = m + j
      <4>1. PICK j \in 1..n : k = m + j
        BY <3>2
      <4> QED
        BY <2>2, <4>1
    <3> QED
      BY <1>6, <3>1, <3>2
  <2> QED
    BY <1>5, <2>3, <2>4 DEF SameCalls
<1>9. AllAnswered(ToSet(C), a, M) /\ AllAnswered(ToSet(D), b, N)
  BY <1>1 DEF Faithful
<1>10. AllAnswered(ToSet(C \o D), u, P)
  <2>1. ASSUME NEW x \in ToSet(C), x.type = "tool_result" PROVE IsAnswered(x, u, P)
    <3>1. PICK k \in 1..m : Answers(x, a[k], M[k])
      BY <1>5, <1>9, <2>1 DEF AllAnswered, IsAnswered
    <3> QED
      BY <1>5, <1>7, <3>1 DEF IsAnswered
  <2>2. ASSUME NEW x \in ToSet(D), x.type = "tool_result" PROVE IsAnswered(x, u, P)
    <3>1. PICK k \in 1..n : Answers(x, b[k], N[k])
      BY <1>5, <1>9, <2>2 DEF AllAnswered, IsAnswered
    <3>2. m + k \in 1..(m + n) /\ u[m + k] = b[k] /\ P[m + k] = N[k]
      BY <1>7
    <3>3. Answers(x, u[m + k], P[m + k])
      BY <3>1, <3>2
    <3> QED
      BY <1>5, <3>2, <3>3 DEF IsAnswered
  <2>3. \A k \in 1..m : \E x \in ToSet(C) : x.type = "tool_result" /\ x.id = u[k].id
    BY <1>5, <1>7, <1>9 DEF AllAnswered
  <2>4. \A k \in 1..n : \E x \in ToSet(D) : x.type = "tool_result" /\ x.id = u[m + k].id
    BY <1>5, <1>7, <1>9 DEF AllAnswered
  <2>5. ASSUME NEW k \in 1..Len(P)
        PROVE  \E x \in ToSet(C \o D) : x.type = "tool_result" /\ x.id = u[k].id
    <3>1. CASE k \in 1..m
      BY <1>3, <2>3, <3>1, Zenon
    <3>2. CASE \E j \in 1..n : k = m + j
      <4>1. PICK j \in 1..n : k = m + j
        BY <3>2
      <4> QED
        BY <1>3, <2>4, <4>1, Zenon
    <3> QED
      BY <1>5, <1>6, <3>1, <3>2
  <2> QED
    BY <1>3, <2>1, <2>2, <2>5, Zenon DEF AllAnswered
<1> QED
  BY <1>1, <1>3, <1>8, <1>10 DEF Faithful

\* The names of results make no difference.
Likened(t, u) ==
    /\ t = [i \in DOMAIN u |-> t[i]]
    /\ \A i \in DOMAIN u :
          \/ t[i] = u[i]
          \/ /\ t[i].type = "tool_result" /\ u[i].type = "tool_result"
             /\ t[i].id = u[i].id /\ t[i].form = u[i].form /\ t[i].outcome = u[i].outcome
             /\ t[i].isError = u[i].isError

\* Content that says the same tells of the same calls.
LEMMA FaithfulLike ==
    ASSUME NEW u, NEW t, Likened(t, u), NEW M, NEW im, Faithful(u, M, im)
    PROVE  Faithful(t, M, im)
<1>1. IsSeq(u) /\ Len(u) \in Nat /\ DOMAIN u = 1..Len(u)
  BY IsSeqFields DEF Faithful
<1>2. DOMAIN t = DOMAIN u
  BY DEF Likened
<1>3. IsSeq(t)
  <2>1. t = [i \in 1..Len(u) |-> t[i]]
    BY <1>1 DEF Likened
  <2> QED
    BY <1>1, <2>1, IsSeqMap
<1>4. ASSUME NEW type, type # "tool_result" PROVE OfType(t, type) = OfType(u, type)
  <2>1. \A i \in DOMAIN u : (IF t[i].type = type THEN <<t[i]>> ELSE << >>)
                                = (IF u[i].type = type THEN <<u[i]>> ELSE << >>)
    BY <1>4 DEF Likened
  <2>2. [i \in DOMAIN t |-> IF t[i].type = type THEN <<t[i]>> ELSE << >>]
            = [i \in DOMAIN u |-> IF u[i].type = type THEN <<u[i]>> ELSE << >>]
    BY <1>2, <2>1
  <2> QED
    BY <2>2, Zenon DEF OfType
<1>5. PICK calls : calls = OfType(u, "tool_call")
  OBVIOUS
<1>6. /\ OfType(t, "tool_call") = calls /\ OfType(t, "image") = im
      /\ SameCalls(calls, M) /\ AllAnswered(ToSet(u), calls, M)
  BY <1>4, <1>5 DEF Faithful
<1>7. ASSUME NEW x \in ToSet(t), x.type = "tool_result" PROVE IsAnswered(x, calls, M)
  <2>1. PICK i \in DOMAIN u : x = t[i]
    BY <1>2 DEF ToSet
  <2>2. u[i] \in ToSet(u)
    BY DEF ToSet
  <2>3. /\ u[i].type = "tool_result" /\ x.id = u[i].id /\ x.form = u[i].form
        /\ x.outcome = u[i].outcome /\ x.isError = u[i].isError
    BY <1>7, <2>1 DEF Likened
  <2>4. PICK k \in 1..Len(M) : Answers(u[i], calls[k], M[k])
    BY <1>6, <2>2, <2>3 DEF AllAnswered, IsAnswered
  <2>5. Answers(x, calls[k], M[k])
    BY <2>3, <2>4 DEF Answers
  <2> QED
    BY <2>5 DEF IsAnswered
<1>8. ASSUME NEW k \in 1..Len(M)
      PROVE  \E x \in ToSet(t) : x.type = "tool_result" /\ x.id = calls[k].id
  <2>1. PICK y \in ToSet(u) : y.type = "tool_result" /\ y.id = calls[k].id
    BY <1>6 DEF AllAnswered
  <2>2. PICK i \in DOMAIN u : y = u[i]
    BY DEF ToSet
  <2>3. t[i] \in ToSet(t)
    BY <1>2 DEF ToSet
  <2> QED
    BY <2>1, <2>2, <2>3 DEF Likened
<1>9. AllAnswered(ToSet(t), calls, M)
  BY <1>7, <1>8 DEF AllAnswered
<1> QED
  BY <1>3, <1>6, <1>9 DEF Faithful

\* Content without calls and results.
LEMMA FaithfulSilent ==
    ASSUME NEW C, IsSeq(C), \A i \in DOMAIN C : C[i].type \notin {"tool_call", "tool_result"}
    PROVE  Faithful(C, << >>, OfType(C, "image"))
<1>1. OfType(C, "tool_call") = << >>
  BY OfTypeMembers
<1>2. \A x \in ToSet(C) : x.type # "tool_result"
  BY DEF ToSet
<1>3. SameCalls(<< >>, << >>)
  BY IsSeqTuples DEF SameCalls
<1> QED
  BY <1>1, <1>2, <1>3 DEF Faithful, AllAnswered

\* The rows uu are the m rows ss and then the n rows tt.
Splits(uu, ss, m, tt, n) == ss = [i \in 1..m |-> uu[i]] /\ tt = [i \in 1..n |-> uu[m + i]]

\* Rows may be split before they are flattened.
LEMMA FlattenJoin ==
    ASSUME NEW m \in Nat, NEW n \in Nat, NEW uu, AreRows(uu, m + n),
           NEW ss, NEW tt, Splits(uu, ss, m, tt, n)
    PROVE  /\ FlattenSeq(uu) = FlattenSeq(ss) \o FlattenSeq(tt)
           /\ AreRows(ss, m) /\ AreRows(tt, n)
<1> DEFINE s == [i \in 1..m |-> i]
           t == [i \in 1..n |-> m + i]
           D == 1..(m + n)
<1>1. m + n \in Nat
  OBVIOUS
<1>2. PICK S : Rows(uu, m + n, S)
  BY <1>1, RowsTyped
<1>3. /\ FlattenSeq(uu) = FlatMap(uu, [i \in 1..(m + n) |-> i])
      /\ Maps(uu, D, S)
  BY <1>1, <1>2, FlattenRows
<1>4. s \in Seq(D) /\ t \in Seq(D)
  OBVIOUS
<1>5. s \o t = [i \in 1..(m + n) |-> i]
  <2>1. Len(s) = m /\ Len(t) = n
    OBVIOUS
  <2>2. s \o t = [i \in 1..(m + n) |-> IF i <= m THEN s[i] ELSE t[i - m]]
    BY <1>4, <2>1
  <2>3. \A i \in 1..(m + n) : (IF i <= m THEN s[i] ELSE t[i - m]) = i
    OBVIOUS
  <2> HIDE DEF s, t
  <2> QED
    BY <2>2, <2>3
<1>6. FlatMap(uu, s) = FlattenSeq(ss) /\ FlatMap(uu, t) = FlattenSeq(tt)
  <2>1. [i \in DOMAIN s |-> uu[s[i]]] = ss /\ [i \in DOMAIN t |-> uu[t[i]]] = tt
    BY DEF Splits
  <2> QED
    BY <2>1, Zenon DEF FlatMap
<1>7. AreRows(ss, m) /\ AreRows(tt, n)
  BY DEF AreRows, Splits
<1> HIDE DEF s, t, D
<1>8. FlatMap(uu, s \o t) = FlatMap(uu, s) \o FlatMap(uu, t)
  BY <1>3, <1>4, FlatMapConcat
<1> QED
  BY <1>3, <1>5, <1>6, <1>7, <1>8

\* Rows with one element each.
LEMMA FlattenSingles ==
    ASSUME NEW n \in Nat, NEW v, NEW ss, ss = [i \in 1..n |-> <<v[i]>>]
    PROVE  /\ FlattenSeq(ss) = [i \in 1..n |-> v[i]]
           /\ AreRows(ss, n)
<1> DEFINE s == [i \in 1..n |-> i]
<1>1. AreRows(ss, n)
  BY IsSeqTuples DEF AreRows
<1>2. PICK S : Rows(ss, n, S)
  BY <1>1, RowsTyped, Zenon
<1>3. FlattenSeq(ss) = FlatMap(ss, s) /\ s \in Seq(1..n)
  BY <1>2, FlattenRows
<1>4. IsSeq(s) /\ DOMAIN s = 1..n
  BY <1>3, IsSeqOf, Zenon
<1>5. Singles(ss, s, v)
  BY DEF Singles
<1> HIDE DEF s
<1>6. FlatMap(ss, s) = [k \in DOMAIN s |-> v[k]]
  <2>1. PICK q, g : q = s /\ g = ss
    OBVIOUS
  <2>2. IsSeq(q) /\ Singles(g, q, v)
    BY <1>4, <1>5, <2>1
  <2>3. FlatMap(g, q) = [k \in DOMAIN q |-> v[k]]
    BY <2>2, FlatMapSingles
  <2> QED
    BY <2>1, <2>3
<1> QED
  BY <1>1, <1>3, <1>4, <1>6

\* One row.
LEMMA FlattenOne ==
    ASSUME NEW x, IsSeq(x), NEW ss, ss = [i \in 1..1 |-> x]
    PROVE  FlattenSeq(ss) = x /\ AreRows(ss, 1)
<1> DEFINE S == ToSet(x)
<1>1. x \in Seq(S)
  BY DEF IsSeq
<1>2. AreRows(ss, 1)
  BY DEF AreRows
<1> HIDE DEF S
<1>3. << >> \in Seq(Seq(S)) /\ ss = Append(<< >>, x)
  BY <1>1
<1>4. FlattenSeq(Append(<< >>, x)) = FlattenSeq(<< >>) \o x
  BY <1>1, <1>3, FlattenAppend, Zenon
<1>5. << >> \o x = x
  BY <1>1
<1> QED
  BY <1>2, <1>3, <1>4, <1>5, FlattenEmpty, Zenon

\* Rows that say the same say the same together.
LEMMA LikenedFlatten ==
    ASSUME NEW n \in Nat, NEW tt, tt = [i \in 1..n |-> tt[i]], NEW uu, AreRows(uu, n),
           \A i \in 1..n : Likened(tt[i], uu[i])
    PROVE  Likened(FlattenSeq(tt), FlattenSeq(uu)) /\ AreRows(tt, n)
<1>1. ASSUME NEW i \in 1..n PROVE IsSeq(tt[i]) /\ Len(tt[i]) = Len(uu[i])
  <2>1. PICK t, u : t = tt[i] /\ u = uu[i]
    OBVIOUS
  <2>2. IsSeq(u) /\ Likened(t, u)
    BY <2>1 DEF AreRows
  <2>3. Len(u) \in Nat /\ DOMAIN u = 1..Len(u)
    BY <2>2, IsSeqFields
  <2>4. t = [k \in 1..Len(u) |-> t[k]]
    BY <2>2, <2>3 DEF Likened
  <2>5. IsSeq(t) /\ Len(t) = Len(u)
    BY <2>3, <2>4, IsSeqMap, Zenon
  <2> QED
    BY <2>1, <2>5
<1>2. AreRows(tt, n)
  BY <1>1 DEF AreRows
<1>3. PICK S : Rows(tt, n, S)
  BY <1>2, RowsTyped, Zenon
<1>4. PICK T : Rows(uu, n, T)
  BY RowsTyped
<1>5. AlikeInLength(tt, uu, 1..n)
  BY <1>1 DEF AlikeInLength
<1>6. SideBySide(FlattenSeq(tt), FlattenSeq(uu), tt, uu, 1..n)
  BY <1>3, <1>4, <1>5, FlattenPaired
<1>7. PICK t, u : t = FlattenSeq(tt) /\ u = FlattenSeq(uu)
  BY Zenon
<1>8. IsSeq(t) /\ IsSeq(u)
  BY <1>2, <1>7, FlattenMembers
<1>9. /\ Len(t) \in Nat /\ DOMAIN t = 1..Len(t) /\ t \in Seq(ToSet(t))
      /\ Len(u) \in Nat /\ DOMAIN u = 1..Len(u) /\ Len(t) = Len(u)
  BY <1>6, <1>7, <1>8, IsSeqFields DEF SideBySide
<1>10. t = [i \in DOMAIN u |-> t[i]]
  BY <1>9
<1>11. ASSUME NEW j \in DOMAIN u
       PROVE  \/ t[j] = u[j]
              \/ /\ t[j].type = "tool_result" /\ u[j].type = "tool_result"
                 /\ t[j].id = u[j].id /\ t[j].form = u[j].form /\ t[j].outcome = u[j].outcome
                 /\ t[j].isError = u[j].isError
  <2>1. PICK z \in 1..n : \E k \in 1..Len(tt[z]) : t[j] = tt[z][k] /\ u[j] = uu[z][k]
    BY <1>6, <1>7, <1>9, Zenon DEF SideBySide
  <2>2. PICK k \in 1..Len(tt[z]) : t[j] = tt[z][k] /\ u[j] = uu[z][k]
    BY <2>1
  <2>3. IsSeq(uu[z]) /\ Len(tt[z]) = Len(uu[z]) /\ Likened(tt[z], uu[z])
    BY <1>1 DEF AreRows
  <2>4. k \in DOMAIN uu[z]
    BY <2>3, IsSeqFields
  <2> QED
    BY <2>2, <2>3, <2>4 DEF Likened
<1>12. Likened(t, u)
  BY <1>10, <1>11 DEF Likened
<1> QED
  BY <1>2, <1>7, <1>12

\* The calls and then their results.
Onto(order, n) ==
    /\ \A k \in 1..n : order[k] \in 1..n
    /\ \A j \in 1..n : \E k \in 1..n : order[k] = j

\* R has the results of the calls C, in the order in which they were given.
AnswersInOrder(R, C, N, order) ==
    /\ Len(R) = Len(N)
    /\ \A k \in 1..Len(N) : R[k].type = "tool_result" /\ Answers(R[k], C[order[k]], N[order[k]])

\* Calls with their results tell of these calls, whatever the order of the results.
LEMMA RoundFaithful ==
    ASSUME NEW E, IsSeq(E), NEW R, IsSeq(R), NEW N, NEW order, Onto(order, Len(N)),
           SameCalls(OfType(E, "tool_call"), N),
           \A i \in DOMAIN E : E[i].type \notin {"tool_result", "image"},
           AnswersInOrder(R, OfType(E, "tool_call"), N, order)
    PROVE  Faithful(E \o R, N, << >>)
<1>1. PICK C : C = OfType(E, "tool_call")
  OBVIOUS
<1>2. SameCalls(C, N) /\ AnswersInOrder(R, C, N, order)
  BY <1>1
<1>3. PICK n \in Nat : n = Len(N) /\ n = Len(R) /\ DOMAIN R = 1..n
  BY <1>2, IsSeqFields DEF SameCalls, AnswersInOrder
<1>4. OfType(R, "tool_call") = << >> /\ OfType(R, "image") = << >> /\ OfType(E, "image") = << >>
  <2>1. \A k \in DOMAIN R : R[k].type # "tool_call" /\ R[k].type # "image"
    BY <1>2, <1>3 DEF AnswersInOrder
  <2>2. \A k \in DOMAIN E : E[k].type # "image"
    OBVIOUS
  <2>3. OfType(R, "tool_call") = << >>
    BY <2>1, OfTypeMembers
  <2>4. OfType(R, "image") = << >>
    BY <2>1, OfTypeMembers
  <2>5. OfType(E, "image") = << >>
    BY <2>2, OfTypeMembers
  <2> QED
    BY <2>3, <2>4, <2>5
<1>5. IsSeq(C)
  BY <1>2 DEF SameCalls
<1>6. C \o << >> = C /\ << >> \o << >> = << >>
  BY <1>5 DEF IsSeq
<1>7. /\ OfType(E \o R, "tool_call") = C \o << >>
      /\ IsSeq(E \o R) /\ ToSet(E \o R) = ToSet(E) \cup ToSet(R)
  <2>1. /\ OfType(E \o R, "tool_call") = OfType(E, "tool_call") \o OfType(R, "tool_call")
        /\ IsSeq(E \o R) /\ ToSet(E \o R) = ToSet(E) \cup ToSet(R)
    BY OfTypeJoin
  <2> QED
    BY <1>1, <1>4, <2>1, Zenon
<1>8. OfType(E \o R, "image") = << >> \o << >>
  <2>1. OfType(E \o R, "image") = OfType(E, "image") \o OfType(R, "image")
    BY OfTypeJoin
  <2> QED
    BY <1>4, <2>1
<1>9. ASSUME NEW x \in ToSet(E \o R), x.type = "tool_result" PROVE IsAnswered(x, C, N)
  <2>1. x \in ToSet(R)
    BY <1>7, <1>9, Zenon DEF ToSet
  <2>2. PICK k \in 1..n : x = R[k]
    BY <1>3, <2>1 DEF ToSet
  <2>3. order[k] \in 1..n
    BY <1>3 DEF Onto
  <2>4. Answers(x, C[order[k]], N[order[k]])
    BY <1>2, <1>3, <2>2 DEF AnswersInOrder
  <2> QED
    BY <1>3, <2>3, <2>4 DEF IsAnswered
<1>10. ASSUME NEW j \in 1..Len(N)
       PROVE  \E x \in ToSet(E \o R) : x.type = "tool_result" /\ x.id = C[j].id
  <2>1. PICK k \in 1..n : order[k] = j
    BY <1>3 DEF Onto
  <2>2. R[k] \in ToSet(E \o R)
    BY <1>3, <1>7, Zenon DEF ToSet
  <2>3. R[k].type = "tool_result" /\ R[k].id = C[j].id
    BY <1>2, <1>3, <2>1 DEF AnswersInOrder, Answers
  <2> QED
    BY <2>2, <2>3
<1>11. AllAnswered(ToSet(E \o R), C, N)
  BY <1>9, <1>10 DEF AllAnswered
<1> QED
  BY <1>2, <1>6, <1>7, <1>8, <1>11 DEF Faithful

\* The client gives every call its result; without IDs, in the order of the calls.
LEMMA OrdersOnto ==
    ASSUME NEW n \in Nat, NEW order \in Orders(n)
    PROVE  /\ Onto(order, n)
           /\ order \in [1..n -> 1..n]
           /\ client.style # "ids" => order = [k \in 1..n |-> k]
<1>1. CASE client.style # "ids"
  BY <1>1 DEF Orders, Onto
<1>2. CASE client.style = "ids"
  <2>1. IsFiniteSet(1..n) /\ Cardinality(1..n) = n
    BY FS_Interval
  <2>2. order \in [1..n -> 1..n] /\ \A i, j \in 1..n : i # j => order[i] # order[j]
    BY <1>2, <2>1 DEF Orders, SetToSeqs
  <2>3. order \in Injection(1..n, 1..n)
    BY <2>2 DEF Injection, IsInjective
  <2>4. order \in Surjection(1..n, 1..n)
    BY <2>1, <2>3, FS_Injection
  <2>5. \A j \in 1..n : \E k \in 1..n : order[k] = j
    BY <2>4 DEF Surjection
  <2> QED
    BY <1>2, <2>2, <2>5, Zenon DEF Onto
<1> QED
  BY <1>1, <1>2

-----------------------------------------------------------------------------
(***************************************************************************)
(* What a history says, message by message, and the IR requests that say   *)
(* the same.                                                               *)
(***************************************************************************)
\* What a message of a Chat history says.
ChatLift(m) ==
    IF m.role = "tool" THEN <<ToolResult(m.callID, NoName, "text", m.outcome, FALSE)>>
    ELSE m.content \o [k \in DOMAIN m.calls |->
             ToolCall(m.calls[k].id, m.calls[k].name, m.calls[k].arguments, NoSignature)]

\* What an item of a Responses history says.
RespLift(item) ==
    IF item.type = "message"
    THEN [k \in DOMAIN item.content |->
             IF item.content[k].type = "output_text" THEN Text ELSE item.content[k]]
    ELSE IF item.type = "function_call"
    THEN <<ToolCall(item.id, item.name, item.arguments, NoSignature)>>
    ELSE <<ToolResult(item.id, NoName, IF item.form = "json" THEN "object" ELSE item.form,
                      item.outcome, FALSE)>>

\* What a block, and a message, of an Anthropic history say.
AnthBlock(block) ==
    IF block.type = "tool_use" THEN ToolCall(block.id, block.name, block.input, NoSignature)
    ELSE IF block.type = "tool_result"
    THEN ToolResult(block.id, NoName, block.form, block.outcome, block.isError)
    ELSE block
AnthLift(m) == [k \in DOMAIN m.content |-> AnthBlock(m.content[k])]

\* What a history says, in the IR.
Lift(p, x) ==
    IF p = "chat" THEN ChatLift(x)
    ELSE IF p = "responses" THEN RespLift(x)
    ELSE AnthLift(x)
LiftRows(p, h) == [i \in 1..Len(h) |-> Lift(p, h[i])]
Lifted(p, h) == FlattenSeq(LiftRows(p, h))
Lifts(p, h) == IsSeq(h) /\ \A i \in DOMAIN h : IsSeq(Lift(p, h[i]))

\* What a history says is a sequence of parts.
LEMMA LiftedRows ==
    ASSUME NEW p, NEW h, Lifts(p, h)
    PROVE  /\ Len(h) \in Nat /\ DOMAIN h = 1..Len(h)
           /\ AreRows(LiftRows(p, h), Len(h))
           /\ IsSeq(Lifted(p, h))
<1>1. Len(h) \in Nat /\ DOMAIN h = 1..Len(h)
  BY IsSeqFields DEF Lifts
<1>2. AreRows(LiftRows(p, h), Len(h))
  BY <1>1 DEF AreRows, LiftRows, Lifts
<1> QED
  BY <1>1, <1>2, FlattenMembers DEF Lifted

\* A longer history says what its two pieces say.
LEMMA LiftedJoin ==
    ASSUME NEW p, NEW h, Lifts(p, h), NEW e, Lifts(p, e)
    PROVE  Lifts(p, h \o e) /\ Lifted(p, h \o e) = Lifted(p, h) \o Lifted(p, e)
<1>1. PICK u : u = h \o e
  BY Zenon
<1>2. Joins(u, h, e)
  BY <1>1, JoinsConcat DEF Lifts
<1>3. PICK m \in Nat, n \in Nat : /\ m = Len(h) /\ n = Len(e) /\ DOMAIN h = 1..m
                                  /\ DOMAIN e = 1..n
  BY LiftedRows
<1>4. IsSeq(u) /\ Len(u) = m + n /\ DOMAIN u = 1..(m + n)
  BY <1>2, <1>3, IsSeqFields DEF Joins
<1>5. /\ \A k \in 1..m : k \in 1..(m + n) /\ u[k] = h[k]
      /\ \A k \in 1..n : m + k \in 1..(m + n) /\ u[m + k] = e[k]
  BY <1>2, <1>3 DEF Joins
<1>6. \A k \in 1..(m + n) : k \in 1..m \/ (k - m \in 1..n /\ k = m + (k - m))
  OBVIOUS
<1>7. Lifts(p, u)
  <2> SUFFICES ASSUME NEW k \in 1..(m + n) PROVE IsSeq(Lift(p, u[k]))
    BY <1>4 DEF Lifts
  <2>1. CASE k \in 1..m
    BY <1>3, <1>5, <2>1, Zenon DEF Lifts
  <2>2. CASE \E j \in 1..n : k = m + j
    <3>1. PICK j \in 1..n : k = m + j
      BY <2>2
    <3>2. u[k] = e[j] /\ j \in DOMAIN e
      BY <1>3, <1>5, <3>1
    <3> QED
      BY <3>2 DEF Lifts
  <2> QED
    BY <1>6, <2>1, <2>2
<1>8. PICK uu : uu = LiftRows(p, u)
  OBVIOUS
<1>9. AreRows(uu, m + n)
  BY <1>4, <1>7, <1>8, LiftedRows
<1>10. LiftRows(p, h) = [i \in 1..m |-> uu[i]] /\ LiftRows(p, e) = [i \in 1..n |-> uu[m + i]]
  <2>1. \A i \in 1..m : uu[i] = Lift(p, h[i])
    BY <1>4, <1>5, <1>8 DEF LiftRows
  <2>2. ASSUME NEW i \in 1..n PROVE uu[m + i] = Lift(p, e[i])
    <3>1. m + i \in 1..(m + n) /\ u[m + i] = e[i]
      BY <1>5
    <3>2. uu[m + i] = Lift(p, u[m + i])
      BY <1>4, <1>8, <3>1 DEF LiftRows
    <3> QED
      BY <3>1, <3>2
  <2> QED
    BY <1>3, <2>1, <2>2, Zenon DEF LiftRows
<1>11. FlattenSeq(uu) = FlattenSeq(LiftRows(p, h)) \o FlattenSeq(LiftRows(p, e))
  <2>1. PICK ss, tt : ss = LiftRows(p, h) /\ tt = LiftRows(p, e)
    OBVIOUS
  <2>2. Splits(uu, ss, m, tt, n)
    BY <1>10, <2>1, Zenon DEF Splits
  <2>3. FlattenSeq(uu) = FlattenSeq(ss) \o FlattenSeq(tt)
    BY <1>9, <2>2, FlattenJoin
  <2> QED
    BY <2>1, <2>3
<1> QED
  BY <1>1, <1>7, <1>8, <1>11 DEF Lifted

\* A history of one message.
LEMMA LiftedOne ==
    ASSUME NEW p, NEW x, IsSeq(Lift(p, x))
    PROVE  Lifts(p, <<x>>) /\ Lifted(p, <<x>>) = Lift(p, x)
<1>1. Lifts(p, <<x>>)
  BY IsSeqTuples DEF Lifts
<1>2. PICK y : y = Lift(p, x)
  OBVIOUS
<1>3. LiftRows(p, <<x>>) = [i \in 1..1 |-> y]
  BY <1>2 DEF LiftRows
<1>4. FlattenSeq(LiftRows(p, <<x>>)) = y
  BY <1>2, <1>3, FlattenOne
<1> QED
  BY <1>1, <1>2, <1>4 DEF Lifted

\* Every message says one thing.
LiftsTo(p, e, v) == IsSeq(e) /\ \A i \in DOMAIN e : Lift(p, e[i]) = <<v[i]>>

\* Then the history lists these things.
LEMMA LiftedEach ==
    ASSUME NEW p, NEW e, NEW v, LiftsTo(p, e, v)
    PROVE  Lifts(p, e) /\ Lifted(p, e) = [i \in 1..Len(e) |-> v[i]]
<1>1. Lifts(p, e)
  BY IsSeqTuples DEF Lifts, LiftsTo
<1>2. Len(e) \in Nat /\ DOMAIN e = 1..Len(e)
  BY <1>1, LiftedRows
<1>3. PICK n \in Nat : n = Len(e)
  BY <1>2, Zenon
<1>4. LiftRows(p, e) = [i \in 1..n |-> <<v[i]>>]
  BY <1>2, <1>3 DEF LiftRows, LiftsTo
<1>5. FlattenSeq(LiftRows(p, e)) = [i \in 1..n |-> v[i]]
  BY <1>4, FlattenSingles, Zenon
<1> QED
  BY <1>1, <1>3, <1>5 DEF Lifted

\* The text of the system adds no call, result or image.
LEMMA FaithfulAfter ==
    ASSUME NEW D, NEW M, NEW im, Faithful(D, M, im)
    PROVE  Faithful(<<Text>> \o D, M, im)
<1>1. IsSeq(<<Text>>) /\ Text.type = "text" /\ DOMAIN <<Text>> = 1..1 /\ <<Text>>[1] = Text
  BY IsSeqTuples DEF Text
<1>2. OfType(<<Text>>, "image") = << >>
  BY <1>1, OfTypeOne
<1>3. Faithful(<<Text>>, << >>, << >>)
  <2>1. \A i \in DOMAIN <<Text>> : <<Text>>[i].type \notin {"tool_call", "tool_result"}
    BY <1>1
  <2>2. PICK T : T = <<Text>>
    BY Zenon
  <2>3. Faithful(T, << >>, OfType(T, "image"))
    BY <1>1, <2>1, <2>2, FaithfulSilent
  <2> QED
    BY <1>2, <2>2, <2>3
<1>4. IsSeq(M) /\ IsSeq(im)
  BY OfTypeMembers DEF Faithful, SameCalls
<1>5. << >> \o M = M /\ << >> \o im = im
  BY <1>4 DEF IsSeq
<1>6. Faithful(<<Text>> \o D, << >> \o M, << >> \o im)
  BY <1>3, FaithfulJoin, Zenon
<1> QED
  BY <1>5, <1>6

\* The messages of a translation, row by row.
Translated(ms, p, h) ==
    /\ ms = [i \in 1..Len(h) |-> ms[i]]
    /\ \A i \in 1..Len(h) : Likened(ms[i].content, Lift(p, h[i]))

\* Messages that say what the history says tell of the same calls.
LEMMA TranslatedFaithful ==
    ASSUME NEW p, NEW h, Lifts(p, h), NEW ms, Translated(ms, p, h)
    PROVE  /\ Formed(ms)
           /\ \A M, im : Faithful(Lifted(p, h), M, im) => Faithful(Contents(ms), M, im)
<1>1. PICK n \in Nat : n = Len(h) /\ DOMAIN h = 1..n
  BY LiftedRows
<1>2. PICK uu : uu = LiftRows(p, h)
  OBVIOUS
<1>3. AreRows(uu, n) /\ \A i \in 1..n : uu[i] = Lift(p, h[i])
  BY <1>1, <1>2, LiftedRows DEF LiftRows
<1>4. IsSeq(ms) /\ Len(ms) = n /\ DOMAIN ms = 1..n
  BY <1>1, IsSeqMap DEF Translated
<1>5. PICK tt : tt = ContentRows(ms)
  OBVIOUS
<1>6. tt = [i \in 1..n |-> tt[i]] /\ \A i \in 1..n : tt[i] = ms[i].content
  BY <1>4, <1>5 DEF ContentRows
<1>7. \A i \in 1..n : Likened(tt[i], uu[i])
  BY <1>1, <1>3, <1>6 DEF Translated
<1>8. Likened(FlattenSeq(tt), FlattenSeq(uu)) /\ AreRows(tt, n)
  BY <1>3, <1>6, <1>7, LikenedFlatten
<1>9. Formed(ms)
  BY <1>4, <1>6, <1>8 DEF Formed, AreRows
<1>10. Contents(ms) = FlattenSeq(tt)
  BY <1>5, <1>9, ContentsRows
<1>11. ASSUME NEW M, NEW im, Faithful(Lifted(p, h), M, im) PROVE Faithful(Contents(ms), M, im)
  <2>1. PICK t, u : t = FlattenSeq(tt) /\ u = FlattenSeq(uu)
    OBVIOUS
  <2>2. Likened(t, u) /\ Faithful(u, M, im)
    BY <1>2, <1>8, <1>11, <2>1 DEF Lifted
  <2>3. Faithful(t, M, im)
    BY <2>2, FaithfulLike
  <2> QED
    BY <1>10, <2>1, <2>3
<1> QED
  BY <1>9, <1>11

\* The same after the system message that the gateway puts first.
LEMMA WithSystem ==
    ASSUME NEW ms, Formed(ms), NEW rs, rs = <<Message("system", <<Text>>)>> \o ms
    PROVE  /\ Formed(rs) /\ rs[1].role = "system"
           /\ Contents(rs) = <<Text>> \o Contents(ms)
<1>1. PICK s : s = Message("system", <<Text>>)
  OBVIOUS
<1>2. s.role = "system" /\ s.content = <<Text>>
  BY <1>1 DEF Message
<1>3. IsSeq(<<s>>) /\ Len(<<s>>) = 1 /\ <<s>>[1] = s /\ IsSeq(<<Text>>)
  BY IsSeqTuples
<1>4. Joins(rs, <<s>>, ms)
  BY <1>1, <1>3, JoinsConcat DEF Formed
<1>5. PICK n \in Nat : n = Len(ms) /\ DOMAIN ms = 1..n
  BY IsSeqFields DEF Formed
<1>6. IsSeq(rs) /\ Len(rs) = 1 + n /\ DOMAIN rs = 1..(1 + n)
  BY <1>3, <1>4, <1>5, IsSeqFields DEF Joins
<1>7. /\ rs[1] = s
      /\ \A k \in 1..n : 1 + k \in 1..(1 + n) /\ rs[1 + k] = ms[k]
  BY <1>3, <1>4, <1>5 DEF Joins
<1>8. \A k \in 1..(1 + n) : k = 1 \/ (k - 1 \in 1..n /\ k = 1 + (k - 1))
  OBVIOUS
<1>9. Formed(rs)
  <2> SUFFICES ASSUME NEW k \in 1..(1 + n) PROVE IsSeq(rs[k].content)
    BY <1>6 DEF Formed
  <2>1. CASE k = 1
    BY <1>2, <1>3, <1>7, <2>1
  <2>2. CASE \E j \in 1..n : k = 1 + j
    <3>1. PICK j \in 1..n : k = 1 + j
      BY <2>2
    <3>2. rs[k] = ms[j] /\ j \in DOMAIN ms
      BY <1>5, <1>7, <3>1
    <3> QED
      BY <3>2, Zenon DEF Formed
  <2> QED
    BY <1>8, <2>1, <2>2, Zenon
<1>10. PICK uu : uu = ContentRows(rs)
  OBVIOUS
<1>11. AreRows(uu, 1 + n) /\ Contents(rs) = FlattenSeq(uu)
  BY <1>6, <1>9, <1>10, ContentsRows, Zenon
<1>12. \A k \in 1..(1 + n) : uu[k] = rs[k].content
  BY <1>6, <1>10 DEF ContentRows
<1>13. ContentRows(ms) = [i \in 1..n |-> uu[1 + i]]
  <2>1. ASSUME NEW i \in 1..n PROVE uu[1 + i] = ms[i].content
    <3>1. 1 + i \in 1..(1 + n) /\ rs[1 + i] = ms[i]
      BY <1>7, Zenon
    <3>2. uu[1 + i] = rs[1 + i].content
      BY <1>12, <3>1, Zenon
    <3> QED
      BY <3>1, <3>2
  <2> QED
    BY <1>5, <2>1 DEF ContentRows
<1>14. PICK ss : ss = [i \in 1..1 |-> uu[i]]
  BY Zenon
<1>15. FlattenSeq(uu) = FlattenSeq(ss) \o FlattenSeq(ContentRows(ms))
  <2>1. PICK m \in Nat : m = 1
    OBVIOUS
  <2>2. PICK tt : tt = ContentRows(ms)
    OBVIOUS
  <2>3. Splits(uu, ss, m, tt, n)
    BY <1>13, <1>14, <2>1, <2>2, Zenon DEF Splits
  <2>4. AreRows(uu, m + n)
    BY <1>11, <2>1
  <2>5. FlattenSeq(uu) = FlattenSeq(ss) \o FlattenSeq(tt)
    BY <2>3, <2>4, FlattenJoin
  <2> QED
    BY <2>2, <2>5
<1>16. FlattenSeq(ss) = <<Text>>
  <2>1. uu[1] = <<Text>>
    BY <1>2, <1>7, <1>12
  <2>2. PICK x : x = <<Text>>
    OBVIOUS
  <2>3. ss = [i \in 1..1 |-> x]
    BY <1>14, <2>1, <2>2
  <2> QED
    BY <1>3, <2>2, <2>3, FlattenOne
<1>17. Contents(ms) = FlattenSeq(ContentRows(ms))
  BY ContentsRows
<1> QED
  BY <1>2, <1>7, <1>9, <1>11, <1>15, <1>16, <1>17, Zenon

-----------------------------------------------------------------------------
(***************************************************************************)
(* The gateways of OpenAI Chat, OpenAI Responses and Anthropic say in the  *)
(* IR request what the history says.                                       *)
(***************************************************************************)
\* The IR request says what the history says, after the system's text.
Said(v, p, h, model) ==
    /\ Formed(v.messages) /\ RequestValid(v) /\ v.model = model
    /\ v.messages[1].role = "system"
    /\ \A M, im : Faithful(Lifted(p, h), M, im) => Faithful(Contents(v.messages), M, im)

\* The same with the system's message before them.
LEMMA SaidAfterSystem ==
    ASSUME NEW p, NEW h, Lifts(p, h), NEW ms, Translated(ms, p, h), NEW model,
           NEW v, v.messages = <<Message("system", <<Text>>)>> \o ms, RequestValid(v),
           v.model = model
    PROVE  Said(v, p, h, model)
<1>1. PICK rs : rs = v.messages
  BY Zenon
<1>2. /\ Formed(ms)
      /\ \A M, im : Faithful(Lifted(p, h), M, im) => Faithful(Contents(ms), M, im)
  BY TranslatedFaithful
<1>3. /\ Formed(rs) /\ rs[1].role = "system"
      /\ Contents(rs) = <<Text>> \o Contents(ms)
  BY <1>1, <1>2, WithSystem, Zenon
<1>4. ASSUME NEW M, NEW im, Faithful(Lifted(p, h), M, im) PROVE Faithful(Contents(rs), M, im)
  <2>1. PICK D : D = Contents(ms)
    OBVIOUS
  <2>2. Faithful(D, M, im)
    BY <1>2, <1>4, <2>1
  <2>3. Faithful(<<Text>> \o D, M, im)
    BY <2>2, FaithfulAfter
  <2> QED
    BY <1>3, <2>1, <2>3
<1> QED
  BY <1>1, <1>3, <1>4 DEF Said

\* The Responses gateway says what the history says.
LEMMA ResponsesSaid ==
    ASSUME NEW want, NEW h, Lifts("responses", h), NEW n, NEW model,
           NEW out, out = Responses!ToIR(Responses!Ask(want, h), n, model), out.ok
    PROVE  Said(out.value, "responses", h, model)
<1> DEFINE ms == [i \in DOMAIN h |-> Responses!ItemToIR(h, i)]
           v == out.value
<1>1. /\ v.messages = <<Message("system", <<Text>>)>> \o ms
      /\ RequestValid(v)
      /\ v.model = model
      /\ \A i \in DOMAIN h : Responses!ItemAccepted(h, i)
  <2>1. PICK ask : ask = Responses!Ask(want, h)
    OBVIOUS
  <2>2. ask.instructions = TRUE /\ ask.input = h
    BY <2>1 DEF Responses!Ask
  <2>3. /\ v.messages = (IF ask.instructions THEN <<Message("system", <<Text>>)>> ELSE << >>)
                         \o [i \in DOMAIN ask.input |-> Responses!ItemToIR(ask.input, i)]
        /\ v.model = model
        /\ Responses!RequestValid(v)
        /\ \A i \in DOMAIN ask.input : Responses!ItemAccepted(ask.input, i)
    BY <2>1, Zenon DEF Responses!ToIR, Responses!AcceptIf, Responses!Accepted,
           Responses!Refused,
                Responses!Message, Message, Responses!Text, Text
  <2> QED
    BY <2>2, <2>3, SameValidation
<1>2. Len(h) \in Nat /\ DOMAIN h = 1..Len(h)
  BY LiftedRows
<1>3. Translated(ms, "responses", h)
  <2>1. ms = [i \in 1..Len(h) |-> ms[i]]
    BY <1>2
  <2>2. ASSUME NEW i \in 1..Len(h) PROVE Likened(ms[i].content, Lift("responses", h[i]))
    <3>1. PICK item, t, u : item = h[i] /\ t = ms[i].content /\ u = Lift("responses", item)
      BY Zenon
    <3>2. Responses!ItemAccepted(h, i) /\ ms[i] = Responses!ItemToIR(h, i)
      BY <1>1, <1>2, Zenon
    <3>3. item.type \in {"message", "function_call", "function_call_output"}
      BY <3>1, <3>2 DEF Responses!ItemAccepted
    <3>4. u = RespLift(item)
      BY <3>1 DEF Lift
    <3> HIDE DEF ms
    <3>5. CASE item.type = "message"
      <4>1. t = [k \in DOMAIN item.content |->
                    IF item.content[k].type = "output_text" THEN Text ELSE item.content[k]]
        BY <3>1, <3>2, <3>5 DEF Responses!ItemToIR, Responses!Message, Responses!Text, Text
      <4>2. u = [k \in DOMAIN item.content |->
                    IF item.content[k].type = "output_text" THEN Text ELSE item.content[k]]
        BY <3>4, <3>5 DEF RespLift
      <4>3. t = u /\ u = [k \in DOMAIN item.content |-> u[k]]
        BY <4>1, <4>2
      <4>4. Likened(t, u)
        BY <4>3 DEF Likened
      <4> QED
        BY <3>1, <4>4
    <3>6. CASE item.type = "function_call"
      <4>1. t = <<ToolCall(item.id, item.name, item.arguments, NoSignature)>>
        BY <3>1, <3>2, <3>6 DEF Responses!ItemToIR, Responses!Message, Responses!ToolCall,
                                ToolCall, Responses!NoSignature, NoSignature
      <4>2. u = <<ToolCall(item.id, item.name, item.arguments, NoSignature)>>
        BY <3>4, <3>6 DEF RespLift
      <4>3. PICK x : t = <<x>> /\ u = <<x>>
        BY <4>1, <4>2
      <4>4. Likened(t, u)
        BY <4>3 DEF Likened
      <4> QED
        BY <3>1, <4>4
    <3>7. CASE item.type = "function_call_output"
      <4>1. PICK name, form : /\ name = Responses!NameOf(Responses!CallsBefore(h, i), item.id)
                              /\ form = IF item.form = "json" THEN "object" ELSE item.form
        OBVIOUS
      <4>2. t = <<ToolResult(item.id, name, form, item.outcome, FALSE)>>
        <5>1. PICK z : z = Responses!parseToolResult(item, name)
          OBVIOUS
        <5>2. Responses!ItemToIR(h, i) = Responses!Message("tool", <<z>>)
          BY <3>1, <3>7, <4>1, <5>1 DEF Responses!ItemToIR
        <5>3. t = <<z>>
          BY <3>1, <3>2, <5>2 DEF Responses!Message
        <5>4. z = ToolResult(item.id, name, form, item.outcome, FALSE)
          BY <4>1, <5>1, Zenon DEF Responses!parseToolResult, Responses!ToolResult, ToolResult
        <5> QED
          BY <5>3, <5>4
      <4>3. u = <<ToolResult(item.id, NoName, form, item.outcome, FALSE)>>
        BY <3>4, <3>7, <4>1 DEF RespLift
      <4>4. PICK x, y : /\ x = ToolResult(item.id, name, form, item.outcome, FALSE)
                        /\ y = ToolResult(item.id, NoName, form, item.outcome, FALSE)
        BY Zenon
      <4>5. /\ x.type = "tool_result" /\ y.type = "tool_result" /\ x.id = y.id
            /\ x.form = y.form /\ x.outcome = y.outcome /\ x.isError = y.isError
        BY <4>4 DEF ToolResult
      <4>6. t = <<x>> /\ u = <<y>>
        BY <4>2, <4>3, <4>4
      <4>7. Likened(t, u)
        BY <4>5, <4>6 DEF Likened
      <4> QED
        BY <3>1, <4>7
    <3> QED
      BY <3>3, <3>5, <3>6, <3>7
  <2> HIDE DEF ms
  <2> QED
    BY <2>1, <2>2 DEF Translated
<1> HIDE DEF ms, v
<1> QED
  BY <1>1, <1>3, SaidAfterSystem, Zenon DEF v

\* The Anthropic gateway says what the history says.
LEMMA AnthropicSaid ==
    ASSUME NEW want, NEW h, Lifts("anthropic", h), NEW n, NEW model,
           NEW out, out = Messages!ToIRRequest(Messages!Ask(want, h), n, model), out.ok
    PROVE  Said(out.value, "anthropic", h, model)
<1> DEFINE ms == [i \in DOMAIN h |-> Messages!MessageToIR(h, i)]
           v == out.value
<1>1. /\ v.messages = <<Message("system", <<Text>>)>> \o ms
      /\ RequestValid(v)
      /\ v.model = model
  <2>1. PICK ask : ask = Messages!Ask(want, h)
    OBVIOUS
  <2>2. ask.system = TRUE /\ ask.messages = h
    BY <2>1 DEF Messages!Ask
  <2>3. /\ v.messages = (IF ask.system THEN <<Message("system", <<Text>>)>> ELSE << >>)
                         \o [i \in DOMAIN ask.messages |-> Messages!MessageToIR(ask.messages, i)]
        /\ v.model = model
        /\ Messages!RequestValid(v)
    BY <2>1, Zenon DEF Messages!ToIRRequest, Messages!AcceptIf, Messages!Accepted,
           Messages!Refused,
                Messages!Message, Message, Messages!Text, Text
  <2> QED
    BY <2>2, <2>3, SameValidation
<1>2. Len(h) \in Nat /\ DOMAIN h = 1..Len(h)
  BY LiftedRows
<1>3. Translated(ms, "anthropic", h)
  <2>1. ms = [i \in 1..Len(h) |-> ms[i]]
    BY <1>2
  <2>2. ASSUME NEW i \in 1..Len(h) PROVE Likened(ms[i].content, Lift("anthropic", h[i]))
    <3>1. PICK content, t, u, uses : /\ content = h[i].content /\ t = ms[i].content
                                     /\ u = Lift("anthropic", h[i])
                                     /\ uses = Messages!UsesBefore(h, i)
      BY Zenon
    <3>2. ms[i] = Messages!MessageToIR(h, i)
      BY <1>2
    <3>3. t = [k \in DOMAIN content |-> Messages!BlockToIR(content[k], uses)]
      BY <3>1, <3>2 DEF Messages!MessageToIR, Messages!Message
    <3>4. u = [k \in DOMAIN content |-> AnthBlock(content[k])]
      BY <3>1 DEF Lift, AnthLift
    <3>5. ASSUME NEW b
          PROVE  LET x == Messages!BlockToIR(b, uses)
                     y == AnthBlock(b)
                 IN  \/ x = y
                     \/ /\ x.type = "tool_result" /\ y.type = "tool_result"
                        /\ x.id = y.id /\ x.form = y.form /\ x.outcome = y.outcome
                        /\ x.isError = y.isError
      <4>1. CASE b.type = "tool_use"
        BY <4>1 DEF Messages!BlockToIR, AnthBlock, Messages!ToolCall, ToolCall,
                    Messages!NoSignature, NoSignature
      <4>2. CASE b.type = "tool_result"
        <5>1. PICK name : name = Messages!NameOf(uses, b.id)
          OBVIOUS
        <5>2. Messages!BlockToIR(b, uses) = ToolResult(b.id, name, b.form, b.outcome, b.isError)
          BY <4>2, <5>1 DEF Messages!BlockToIR, Messages!ToolResult, ToolResult
        <5>3. AnthBlock(b) = ToolResult(b.id, NoName, b.form, b.outcome, b.isError)
          BY <4>2 DEF AnthBlock
        <5> QED
          BY <5>2, <5>3 DEF ToolResult
      <4>3. CASE b.type \notin {"tool_use", "tool_result"}
        BY <4>3 DEF Messages!BlockToIR, AnthBlock
      <4> QED
        BY <4>1, <4>2, <4>3
    <3>6. DOMAIN u = DOMAIN content /\ t = [k \in DOMAIN u |-> t[k]]
      BY <3>3, <3>4
    <3>7. \A k \in DOMAIN u : t[k] = Messages!BlockToIR(content[k], uses) /\ u[k] = AnthBlock(content[k])
      BY <3>3, <3>4
    <3>8. Likened(t, u)
      BY <3>5, <3>6, <3>7 DEF Likened
    <3> QED
      BY <3>1, <3>8
  <2> HIDE DEF ms
  <2> QED
    BY <2>1, <2>2 DEF Translated
<1> HIDE DEF ms, v
<1> QED
  BY <1>1, <1>3, SaidAfterSystem, Zenon DEF v

\* The Chat gateway says what the history says.
LEMMA ChatSaid ==
    ASSUME NEW want, NEW h, Lifts("chat", h), NEW n, NEW model,
           NEW out, out = Chat!ToIR(Chat!Ask(want, h), n, model), out.ok
    PROVE  Said(out.value, "chat", h, model)
<1> DEFINE dev == Chat!ChatMessage("developer", <<Text>>, << >>)
           all == <<dev>> \o h
           ms == [i \in DOMAIN all |-> Chat!MessageToIR(all, i)]
           v == out.value
<1>1. /\ v.messages = ms
      /\ RequestValid(v)
      /\ v.model = model
  <2>1. PICK ask : ask = Chat!Ask(want, h)
    OBVIOUS
  <2>2. ask.messages = all
    BY <2>1 DEF Chat!Ask, Chat!Text, Text
  <2>3. /\ v.messages = [i \in DOMAIN ask.messages |-> Chat!MessageToIR(ask.messages, i)]
        /\ v.model = model
        /\ Chat!RequestValid(v)
    BY <2>1 DEF Chat!ToIR, Chat!AcceptIf, Chat!Accepted, Chat!Refused
  <2> QED
    BY <2>2, <2>3, SameValidation
<1>2. dev.role = "developer" /\ dev.content = <<Text>> /\ dev.calls = << >>
  BY DEF Chat!ChatMessage
<1>3. Lift("chat", dev) = <<Text>> /\ IsSeq(<<Text>>)
  <2>1. [k \in DOMAIN dev.calls |->
             ToolCall(dev.calls[k].id, dev.calls[k].name, dev.calls[k].arguments, NoSignature)]
            = << >>
    BY <1>2
  <2>2. Lift("chat", dev) = <<Text>> \o << >>
    BY <1>2, <2>1, Zenon DEF Lift, ChatLift
  <2>3. <<Text>> \o << >> = <<Text>>
    OBVIOUS
  <2> QED
    BY <2>2, <2>3, IsSeqTuples
<1> HIDE DEF dev
<1>4. Lifts("chat", <<dev>>) /\ Lifted("chat", <<dev>>) = <<Text>>
  BY <1>3, LiftedOne
<1>5. Lifts("chat", all) /\ Lifted("chat", all) = <<Text>> \o Lifted("chat", h)
  <2>1. PICK e : e = <<dev>>
    BY Zenon
  <2>2. Lifts("chat", e \o h) /\ Lifted("chat", e \o h) = Lifted("chat", e) \o Lifted("chat", h)
    BY <1>4, <2>1, LiftedJoin, Zenon
  <2> QED
    BY <1>4, <2>1, <2>2, Zenon
<1>6. all[1] = dev /\ 1 \in DOMAIN all
  <2>1. IsSeq(<<dev>>) /\ IsSeq(h)
    BY IsSeqTuples DEF Lifts
  <2>2. Joins(all, <<dev>>, h)
    BY <2>1, JoinsConcat
  <2>3. PICK k \in Nat : k = Len(h)
    BY <2>1, IsSeqFields
  <2>4. IsSeq(all) /\ Len(all) = 1 + k /\ all[1] = dev
    BY <2>2, <2>3 DEF Joins
  <2> QED
    BY <2>4, IsSeqFields
<1> HIDE DEF all
<1>7. Len(all) \in Nat /\ DOMAIN all = 1..Len(all)
  BY <1>5, LiftedRows
<1>8. Translated(ms, "chat", all)
  <2>1. ms = [i \in 1..Len(all) |-> ms[i]]
    BY <1>7
  <2>2. ASSUME NEW i \in 1..Len(all) PROVE Likened(ms[i].content, Lift("chat", all[i]))
    <3>1. PICK m, t, u : m = all[i] /\ t = ms[i].content /\ u = Lift("chat", m)
      BY Zenon
    <3>2. ms[i] = Chat!MessageToIR(all, i)
      BY <1>7
    <3>3. u = ChatLift(m) /\ IsSeq(u)
      BY <1>5, <1>7, <3>1 DEF Lift, Lifts
    <3> HIDE DEF ms
    <3>4. CASE m.role = "tool"
      <4>1. PICK name : name = Chat!NameOf(Chat!CallsBefore(all, i), m.callID)
        OBVIOUS
      <4>2. t = <<ToolResult(m.callID, name, "text", m.outcome, FALSE)>>
        <5>1. PICK z : z = Chat!ToolResult(m.callID, name, "text", m.outcome, FALSE)
          BY Zenon
        <5>2. Chat!MessageToIR(all, i) = Chat!Message("tool", <<z>>)
          BY <3>1, <3>4, <4>1, <5>1 DEF Chat!MessageToIR
        <5>3. t = <<z>>
          BY <3>1, <3>2, <5>2 DEF Chat!Message
        <5>4. z = ToolResult(m.callID, name, "text", m.outcome, FALSE)
          BY <5>1, Zenon DEF Chat!ToolResult, ToolResult
        <5> QED
          BY <5>3, <5>4
      <4>3. u = <<ToolResult(m.callID, NoName, "text", m.outcome, FALSE)>>
        BY <3>3, <3>4 DEF ChatLift
      <4>4. PICK x, y : /\ x = ToolResult(m.callID, name, "text", m.outcome, FALSE)
                        /\ y = ToolResult(m.callID, NoName, "text", m.outcome, FALSE)
        BY Zenon
      <4>5. /\ x.type = "tool_result" /\ y.type = "tool_result" /\ x.id = y.id
            /\ x.form = y.form /\ x.outcome = y.outcome /\ x.isError = y.isError
        BY <4>4 DEF ToolResult
      <4>6. t = <<x>> /\ u = <<y>>
        BY <4>2, <4>3, <4>4
      <4>7. Likened(t, u)
        BY <4>5, <4>6 DEF Likened
      <4> QED
        BY <3>1, <4>7
    <3>5. CASE m.role # "tool"
      <4>1. t = u
        <5>1. PICK calls : calls = [k \in DOMAIN m.calls |->
                  Chat!ToolCall(m.calls[k].id, m.calls[k].name, m.calls[k].arguments,
                                Chat!NoSignature)]
          BY Zenon
        <5>2. \E role : Chat!MessageToIR(all, i) = Chat!Message(role, m.content \o calls)
          BY <3>1, <3>5, <5>1, Zenon DEF Chat!MessageToIR
        <5>3. t = m.content \o calls
          BY <3>1, <3>2, <5>2 DEF Chat!Message
        <5>4. calls = [k \in DOMAIN m.calls |->
                  ToolCall(m.calls[k].id, m.calls[k].name, m.calls[k].arguments, NoSignature)]
          BY <5>1 DEF Chat!ToolCall, ToolCall, Chat!NoSignature, NoSignature
        <5> QED
          BY <3>3, <3>5, <5>3, <5>4 DEF ChatLift
      <4>2. u = [k \in DOMAIN u |-> u[k]]
        BY <3>3 DEF IsSeq
      <4>3. Likened(t, u)
        BY <4>1, <4>2 DEF Likened
      <4> QED
        BY <3>1, <4>3
    <3> QED
      BY <3>4, <3>5
  <2> HIDE DEF ms
  <2> QED
    BY <2>1, <2>2 DEF Translated
<1>9. ms[1].role = "system"
  <2>1. ms[1] = Chat!MessageToIR(all, 1)
    BY <1>6
  <2> QED
    BY <1>2, <1>6, <2>1 DEF Chat!MessageToIR, Chat!Message
<1> HIDE DEF ms
<1>10. /\ Formed(ms)
       /\ \A M, im : Faithful(Lifted("chat", all), M, im) => Faithful(Contents(ms), M, im)
  BY <1>5, <1>8, TranslatedFaithful
<1>11. ASSUME NEW M, NEW im, Faithful(Lifted("chat", h), M, im) PROVE Faithful(Contents(ms), M, im)
  <2>1. PICK D : D = Lifted("chat", h)
    OBVIOUS
  <2>2. Faithful(<<Text>> \o D, M, im)
    BY <1>11, <2>1, FaithfulAfter
  <2> QED
    BY <1>5, <1>10, <2>1, <2>2, Zenon
<1> QED
  BY <1>1, <1>9, <1>10, <1>11 DEF Said
=============================================================================
