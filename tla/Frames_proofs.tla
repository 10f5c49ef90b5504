---------------------------- MODULE Frames_proofs ----------------------------
(***************************************************************************)
(* Whatever messages follow each other on a stream, the reader stays in    *)
(* step with the writer, for every number of values of a byte, every set   *)
(* of messages and every length of the stream.  First what the recursive   *)
(* functions of the TLV values compute, then that each decoder undoes its  *)
(* encoder, then the stream.                                               *)
(***************************************************************************)
EXTENDS Frames, Integers, WellFoundedInduction, TLAPS

-----------------------------------------------------------------------------
(* Recursion *)

\* Every set of numbers that is not empty has a least one.
LEMMA Least ==
  ASSUME NEW T, T \subseteq Nat, T # {}
  PROVE  \E x \in T : \A y \in T : x <= y
<1>. DEFINE R == {p \in Nat \X Nat : p[1] < p[2]}
<1>0. IsWellFoundedOn(R, Nat)
  BY NatLessThanWellFounded DEF OpToRel
<1>. HIDE DEF R
<1>1. PICK x \in T : \A y \in T : ~(<<y, x>> \in R)
  BY <1>0, WFMin, Zenon
<1>2. \A y \in T : ~(y < x)
  BY <1>1, Zenon DEF R
<1>. QED  BY <1>2

\* Induction over the size of the elements of S.
Inductive(S, size, Good) ==
  /\ size \in [S -> Nat]
  /\ \A s \in S : (\A r \in S : size[r] < size[s] => r \in Good) => s \in Good

LEMMA Descent ==
  ASSUME NEW S, NEW size, NEW Good, Inductive(S, size, Good)
  PROVE  S \subseteq Good
<1>. /\ size \in [S -> Nat]
     /\ \A s \in S : (\A r \in S : size[r] < size[s] => r \in Good) => s \in Good
  BY DEF Inductive
<1>. DEFINE Sizes == {k \in Nat : \E s \in S : size[s] = k /\ s \notin Good}
<1>1. SUFFICES ASSUME Sizes # {} PROVE FALSE
  OBVIOUS
<1>2. PICK k \in Sizes : \A j \in Sizes : k <= j
  BY <1>1, Least, Zenon
<1>3. PICK s \in S : size[s] = k /\ s \notin Good
  OBVIOUS
<1>4. ASSUME NEW r \in S, size[r] < size[s] PROVE r \in Good
  <2>1. r \notin Good => size[r] \in Sizes
    OBVIOUS
  <2>. HIDE DEF Sizes
  <2>2. size[r] \in Nat /\ size[s] \in Nat
    OBVIOUS
  <2>. QED  BY <1>2, <1>3, <1>4, <2>1, <2>2
<1>. QED  BY <1>3, <1>4

\* A function on S that is given on a part of S, and elsewhere is made of its
\* value at one smaller element, exists.
Descends(S, T, size, stop, base, comb, nxt) ==
  /\ size \in [S -> Nat] /\ base \in [S -> T] /\ comb \in [S \X T -> T] /\ nxt \in [S -> S]
  /\ \A s \in S : s \notin stop => size[nxt[s]] < size[s]

Recurs(g, S, T, stop, base, comb, nxt) ==
  /\ g \in [S -> T]
  /\ \A s \in S : g[s] = IF s \in stop THEN base[s] ELSE comb[<<s, g[nxt[s]]>>]

LEMMA Recursion ==
  ASSUME NEW S, NEW T, NEW size, NEW stop, NEW base, NEW comb, NEW nxt,
         Descends(S, T, size, stop, base, comb, nxt)
  PROVE  \E g : Recurs(g, S, T, stop, base, comb, nxt)
<1>. /\ size \in [S -> Nat] /\ base \in [S -> T] /\ comb \in [S \X T -> T] /\ nxt \in [S -> S]
     /\ \A s \in S : s \notin stop => size[nxt[s]] < size[s]
  BY DEF Descends
<1>. DEFINE Rhs(g, s) == IF s \in stop THEN base[s] ELSE comb[<<s, g[nxt[s]]>>]
            Solves(n, g) == g \in [S -> T] /\ \A s \in S : size[s] < n => g[s] = Rhs(g, s)
<1>1. ASSUME NEW g \in [S -> T], NEW h \in [S -> T], NEW s \in S,
             s \notin stop => g[nxt[s]] = h[nxt[s]]
      PROVE  Rhs(g, s) = Rhs(h, s) /\ Rhs(g, s) \in T
  BY <1>1
<1>. HIDE DEF Rhs
<1>2. ASSUME NEW n \in Nat PROVE \E g : Solves(n, g)
  <2>. DEFINE Hard == {k \in Nat : ~\E g : Solves(k, g)}
  <2>1. SUFFICES ASSUME Hard # {} PROVE FALSE
    BY Zenon
  <2>2. PICK m \in Hard : \A k \in Hard : m <= k
    BY <2>1, Least, Zenon
  <2>3. m # 0
    <3>1. Solves(0, base)
      OBVIOUS
    <3>. QED  BY <3>1
  <2>4. PICK g : Solves(m - 1, g)
    BY <2>2, <2>3
  <2>. DEFINE h == [s \in S |-> IF size[s] < m - 1 THEN g[s] ELSE Rhs(g, s)]
  <2>5. h \in [S -> T]
    BY <1>1, <2>4
  <2>6. ASSUME NEW s \in S, size[s] < m PROVE h[s] = Rhs(h, s)
    <3>1. h[s] = Rhs(g, s)
      BY <2>4
    <3>2. s \notin stop => h[nxt[s]] = g[nxt[s]]
      <4>1. s \notin stop => size[nxt[s]] < m - 1 /\ nxt[s] \in S
        BY <2>3, <2>6
      <4>. QED  BY <4>1
    <3>. HIDE DEF h
    <3>. QED  BY <1>1, <2>4, <2>5, <3>1, <3>2
  <2>7. Solves(m, h)
    BY <2>5, <2>6
  <2>. QED  BY <2>7, Zenon
<1>3. ASSUME NEW n \in Nat, NEW m \in Nat, NEW g, NEW h, Solves(n, g), Solves(m, h)
      PROVE  \A s \in S : size[s] < n /\ size[s] < m => g[s] = h[s]
  <2>. DEFINE Differ == {k \in Nat : \E s \in S : size[s] = k /\ k < n /\ k < m /\ g[s] # h[s]}
  <2>1. SUFFICES ASSUME Differ # {} PROVE FALSE
    BY DEF Differ
  <2>2. PICK k \in Differ : \A j \in Differ : k <= j
    BY <2>1, Least, Zenon
  <2>3. PICK s \in S : size[s] = k /\ k < n /\ k < m /\ g[s] # h[s]
    BY DEF Differ
  <2>4. s \notin stop => g[nxt[s]] = h[nxt[s]]
    <3>1. SUFFICES ASSUME s \notin stop, g[nxt[s]] # h[nxt[s]] PROVE FALSE
      OBVIOUS
    <3>2. size[nxt[s]] < k /\ nxt[s] \in S /\ size[nxt[s]] \in Nat
      BY <2>3, <3>1
    <3>3. size[nxt[s]] \in Differ
      BY <2>3, <3>1, <3>2 DEF Differ
    <3>. QED  BY <2>2, <3>2, <3>3
  <2>5. Rhs(g, s) = Rhs(h, s)
    BY <1>1, <1>3, <2>4
  <2>. QED  BY <1>3, <2>3, <2>5
<1>. DEFINE sol(s) == CHOOSE g : Solves(size[s] + 1, g)
            f == [s \in S |-> sol(s)[s]]
<1>4. ASSUME NEW s \in S PROVE Solves(size[s] + 1, sol(s))
  <2>1. size[s] + 1 \in Nat
    OBVIOUS
  <2>. HIDE DEF Solves
  <2>. QED  BY <1>2, <2>1
<1>. HIDE DEF sol
<1>5. f \in [S -> T]
  BY <1>4
<1>6. ASSUME NEW s \in S PROVE f[s] = Rhs(f, s)
  <2>1. f[s] = Rhs(sol(s), s)
    BY <1>4
  <2>2. s \notin stop => f[nxt[s]] = sol(s)[nxt[s]]
    <3>1. SUFFICES ASSUME s \notin stop PROVE f[nxt[s]] = sol(s)[nxt[s]]
      OBVIOUS
    <3>. DEFINE r == nxt[s]
    <3>2. r \in S /\ size[r] < size[s] /\ size[r] \in Nat /\ size[s] \in Nat
      BY <3>1
    <3>3. Solves(size[r] + 1, sol(r)) /\ Solves(size[s] + 1, sol(s))
      BY <1>4, <3>2
    <3>. HIDE DEF Solves, r
    <3>4. sol(r)[r] = sol(s)[r]
      BY <1>3, <3>2, <3>3
    <3>. QED  BY <3>2, <3>4 DEF r
  <2>. HIDE DEF f
  <2>. QED  BY <1>1, <1>4, <1>5, <2>1, <2>2, Zenon
<1>. HIDE DEF f
<1>. QED  BY <1>5, <1>6, Zenon DEF Rhs, Recurs

-----------------------------------------------------------------------------
(* The values of a PUBLISH *)

Values == Seq(Seq(Nat))
Results == [ok : BOOLEAN, values : Values]

LEMMA DivMod ==
  ASSUME NEW n \in Nat, NEW R \in Nat, R > 0
  PROVE  n \div R \in Nat /\ n % R \in Nat /\ n = (n \div R) * R + (n % R)
<1>1. n % R \in 0 .. R - 1
  OBVIOUS
<1>2. n = R * (n \div R) + (n % R)
  OBVIOUS
<1>3. n \div R \in Int
  OBVIOUS
<1>4. n \div R \in Nat
  BY <1>1, <1>2, <1>3
<1>5. R * (n \div R) = (n \div R) * R
  BY <1>3
<1>. QED BY <1>1, <1>2, <1>4, <1>5

\* c is s and then t.
IsJoin(c, s, t) ==
  /\ c \in Seq(Nat) /\ Len(c) = Len(s) + Len(t)
  /\ \A i \in 1 .. Len(s) : c[i] = s[i]
  /\ \A i \in 1 .. Len(t) : c[Len(s) + i] = t[i]

LEMMA Joined ==
  ASSUME NEW s \in Seq(Nat), NEW t \in Seq(Nat)
  PROVE  s \o t \in Seq(Nat) /\ IsJoin(s \o t, s, t)
<1>1. s \o t \in Seq(Nat)
  OBVIOUS
<1>2. Len(s \o t) = Len(s) + Len(t)
  OBVIOUS
<1>3. \A i \in 1 .. Len(s) : (s \o t)[i] = s[i]
  OBVIOUS
<1>4. \A i \in 1 .. Len(t) : (s \o t)[Len(s) + i] = t[i]
  OBVIOUS
<1>. QED  BY <1>1, <1>2, <1>3, <1>4, Zenon DEF IsJoin

\* What SubSeq cuts out, byte by byte.
LEMMA Cut ==
  ASSUME NEW s \in Seq(Nat), NEW i \in Nat, i >= 1, NEW j \in Nat, j <= Len(s), i <= j + 1
  PROVE  /\ SubSeq(s, i, j) \in Seq(Nat) /\ Len(SubSeq(s, i, j)) = j + 1 - i
         /\ \A k \in 1 .. j + 1 - i : SubSeq(s, i, j)[k] = s[i + k - 1]
OBVIOUS

LEMMA SameElements ==
  ASSUME NEW S, NEW s \in Seq(S), NEW t \in Seq(S), Len(s) = Len(t), \A i \in 1 .. Len(s) : s[i] = t[i]
  PROVE  s = t
OBVIOUS

LEMMA Same ==
  ASSUME NEW s \in Seq(Nat), NEW t \in Seq(Nat), Len(s) = Len(t), \A i \in 1 .. Len(s) : s[i] = t[i]
  PROVE  s = t
OBVIOUS

\* A number written in two bytes is read back.
LEMMA Uint16OK ==
  ASSUME NEW n \in Nat
  PROVE  /\ Uint16(n) \in Seq(Nat) /\ Len(Uint16(n)) = 2
         /\ Uint16(n)[1] * Radix + Uint16(n)[2] = n
<1>1. n \div Radix \in Nat /\ n % Radix \in Nat /\ n = (n \div Radix) * Radix + (n % Radix)
  BY FramesAssumption, DivMod
<1>. QED  BY <1>1 DEF Uint16

\* A value in its TLV: a type, its length, its bytes.
LEMMA TLVOK ==
  ASSUME NEW v \in Seq(Nat)
  PROVE  /\ TLV(v) \in Seq(Nat) /\ Len(TLV(v)) = 3 + Len(v)
         /\ TLV(v)[2] * Radix + TLV(v)[3] = Len(v)
         /\ \A i \in 1 .. Len(v) : TLV(v)[3 + i] = v[i]
<1>. DEFINE n == Len(v)
            u == Uint16(n)
            w == <<4>> \o u
            e == w \o v
<1>1. n \in Nat
  OBVIOUS
<1>2. u \in Seq(Nat) /\ Len(u) = 2 /\ u[1] * Radix + u[2] = n
  BY <1>1, Uint16OK, Zenon
<1>. HIDE DEF u
<1>3. <<4>> \in Seq(Nat) /\ Len(<<4>>) = 1
  OBVIOUS
<1>4. w \in Seq(Nat) /\ IsJoin(w, <<4>>, u)
  BY <1>2, <1>3, Joined, Zenon
<1>. HIDE DEF w
<1>5. Len(w) = 3 /\ w[2] = u[1] /\ w[3] = u[2]
  BY <1>2, <1>3, <1>4 DEF IsJoin
<1>6. e \in Seq(Nat) /\ IsJoin(e, w, v)
  BY <1>4, Joined, Zenon
<1>7. TLV(v) = e
  BY DEF TLV, u, w
<1>. HIDE DEF e
<1>8. Len(e) = 3 + Len(v) /\ e[2] = w[2] /\ e[3] = w[3] /\ \A i \in 1 .. Len(v) : e[3 + i] = v[i]
  <2>1. Len(e) = Len(w) + Len(v) /\ \A i \in 1 .. Len(w) : e[i] = w[i]
    BY <1>6 DEF IsJoin
  <2>2. \A i \in 1 .. Len(v) : e[Len(w) + i] = v[i]
    BY <1>6 DEF IsJoin
  <2>3. 2 \in 1 .. 3 /\ 3 \in 1 .. 3
    OBVIOUS
  <2>. QED  BY <1>5, <2>1, <2>2, <2>3, Zenon
<1>9. e[2] * Radix + e[3] = Len(v)
  BY <1>2, <1>5, <1>8, Zenon
<1>. QED  BY <1>6, <1>7, <1>8, <1>9, Zenon

Lengths == [values \in Values |-> Len(values)]

\* What EncodeAll is.
LEMMA EncodeAllIs ==
  EncodeAll = [values \in Values |->
                 IF values = <<>> THEN <<>> ELSE TLV(Head(values)) \o EncodeAll[Tail(values)]]
<1>. DEFINE S == Values
            T == Seq(Nat)
            stop == {<<>>}
            base == [s \in S |-> <<>>]
            nxt == [s \in S |-> IF s = <<>> THEN s ELSE Tail(s)]
            comb == [p \in S \X T |-> IF p[1] = <<>> THEN <<>> ELSE TLV(Head(p[1])) \o p[2]]
            Rhs(g, s) == IF s = <<>> THEN <<>> ELSE TLV(Head(s)) \o g[Tail(s)]
            Is(g) == g = [s \in S |-> Rhs(g, s)]
<1>1. Lengths \in [S -> Nat] /\ base \in [S -> T] /\ nxt \in [S -> S]
  BY DEF Values, Lengths
<1>2. comb \in [S \X T -> T]
  <2>1. ASSUME NEW p \in S \X T, p[1] # <<>> PROVE TLV(Head(p[1])) \o p[2] \in T
    <3>1. Head(p[1]) \in Seq(Nat) /\ p[2] \in Seq(Nat)
      BY <2>1 DEF Values
    <3>. QED  BY <3>1, TLVOK, Joined, Zenon
  <2>. QED  BY <2>1
<1>3. \A s \in S : s \notin stop => Lengths[nxt[s]] < Lengths[s]
  BY DEF Values, Lengths
<1>. HIDE DEF S, T, stop, base, nxt, comb
<1>4. PICK g : Recurs(g, S, T, stop, base, comb, nxt)
  <2>1. Descends(S, T, Lengths, stop, base, comb, nxt)
    BY <1>1, <1>2, <1>3, Zenon DEF Descends
  <2>. QED  BY <2>1, Recursion, Zenon
<1>. USE DEF S, T, stop, base, nxt, comb
<1>5. g \in [S -> T] /\ \A s \in S : g[s] = Rhs(g, s)
  BY <1>1, <1>4, Zenon DEF Recurs
<1>. HIDE DEF S, T, Rhs
<1>6. Is(g)
  <2>1. g = [s \in S |-> g[s]]
    BY <1>5
  <2>2. [s \in S |-> g[s]] = [s \in S |-> Rhs(g, s)]
    BY <1>5, Zenon
  <2>. QED  BY <2>1, <2>2
<1>7. EncodeAll = CHOOSE f : Is(f)
  BY DEF EncodeAll, Values, S, Rhs
<1>. HIDE DEF Is
<1>8. Is(EncodeAll)
  BY <1>6, <1>7
<1>. QED  BY <1>8, Zenon DEF S, Rhs, Is

\* EncodeAll makes bytes, value by value.
LEMMA EncodeAllOK ==
  ASSUME NEW values \in Values
  PROVE  /\ EncodeAll[values] \in Seq(Nat)
         /\ values = <<>> => EncodeAll[values] = <<>>
         /\ values # <<>> => EncodeAll[values] = TLV(Head(values)) \o EncodeAll[Tail(values)]
<1>. DEFINE Good == {s \in Values : EncodeAll[s] \in Seq(Nat)}
<1>1. \A s \in Values : EncodeAll[s] = IF s = <<>> THEN <<>> ELSE TLV(Head(s)) \o EncodeAll[Tail(s)]
  BY EncodeAllIs, Zenon
<1>2. ASSUME NEW s \in Values, \A r \in Values : Lengths[r] < Lengths[s] => r \in Good
      PROVE  EncodeAll[s] \in Seq(Nat)
  <2>1. CASE s = <<>>
    <3>1. EncodeAll[s] = <<>>
      BY <1>1, <2>1, Zenon
    <3>. QED  BY <3>1
  <2>2. CASE s # <<>>
    <3>1. EncodeAll[s] = TLV(Head(s)) \o EncodeAll[Tail(s)]
      BY <1>1, <2>2, Zenon
    <3>2. Head(s) \in Seq(Nat) /\ Tail(s) \in Values /\ Lengths[Tail(s)] < Lengths[s]
      BY <2>2 DEF Values, Lengths
    <3>3. EncodeAll[Tail(s)] \in Seq(Nat) /\ TLV(Head(s)) \in Seq(Nat)
      BY <1>2, <3>2, TLVOK
    <3>. QED  BY <3>1, <3>3, Joined, Zenon
  <2>. QED  BY <2>1, <2>2
<1>3. Inductive(Values, Lengths, Good)
  <2>1. Lengths \in [Values -> Nat]
    BY DEF Lengths, Values
  <2>. QED  BY <1>2, <2>1, Zenon DEF Inductive
<1>. HIDE DEF Good
<1>4. Values \subseteq Good
  BY <1>3, Descent, Zenon
<1>. QED  BY <1>1, <1>4, Zenon DEF Good

\* Where DecodeAll has no value to take: at the end, or before half a value.
Stops(data) == data = <<>> \/ Len(data) < 3 \/ Len(data) < 3 + Number(Tail(data))

\* What DecodeAll makes of a value and of what it makes of the rest.
Taken(data, rest) ==
  IF rest.ok
    THEN [rest EXCEPT !.values = <<SubSeq(data, 4, 3 + Number(Tail(data)))>> \o @]
    ELSE rest

Rest(data) == SubSeq(data, 4 + Number(Tail(data)), Len(data))

DataLengths == [data \in Seq(Nat) |-> Len(data)]

\* A length of two bytes is a number.
LEMMA TwoBytes ==
  ASSUME NEW a \in Nat, NEW b \in Nat
  PROVE  a * Radix + b \in Nat
<1>1. Radix \in Nat
  BY FramesAssumption
<1>2. a * Radix \in Nat
  BY <1>1
<1>. QED  BY <1>2

\* DecodeAll takes a value off and goes on with less.
LEMMA ValueTaken ==
  ASSUME NEW data \in Seq(Nat), ~Stops(data)
  PROVE  /\ Number(Tail(data)) \in Nat
         /\ Rest(data) \in Seq(Nat) /\ Len(Rest(data)) < Len(data)
         /\ \A rest \in Results : Taken(data, rest) \in Results
<1>1. Len(data) >= 3 /\ Number(Tail(data)) = data[2] * Radix + data[3]
  BY DEF Stops, Number
<1>2. data[2] \in Nat /\ data[3] \in Nat
  BY <1>1
<1>. DEFINE n == Number(Tail(data))
<1>4. n \in Nat
  BY <1>1, <1>2, TwoBytes, Zenon
<1>5. Len(data) \in Nat /\ Len(data) >= 3 + n
  <2>1. ~(Len(data) < 3 + n) /\ Len(data) \in Nat
    BY DEF Stops
  <2>. HIDE DEF n
  <2>. QED  BY <1>4, <2>1
<1>. HIDE DEF n
<1>6. SubSeq(data, 4 + n, Len(data)) \in Seq(Nat) /\ Len(SubSeq(data, 4 + n, Len(data))) < Len(data)
  <2>. DEFINE i == 4 + n
              j == Len(data)
  <2>1. i \in Nat /\ i >= 1 /\ j \in Nat /\ j <= Len(data) /\ i <= j + 1 /\ j + 1 - i < Len(data)
    BY <1>4, <1>5
  <2>. HIDE DEF i, j
  <2>2. SubSeq(data, i, j) \in Seq(Nat) /\ Len(SubSeq(data, i, j)) = j + 1 - i
    BY <2>1, Cut, Zenon
  <2>3. SubSeq(data, i, j) \in Seq(Nat) /\ Len(SubSeq(data, i, j)) < Len(data)
    BY <2>1, <2>2, Zenon
  <2>. QED  BY <2>3 DEF i, j
<1>7. SubSeq(data, 4, 3 + n) \in Seq(Nat)
  BY <1>4, <1>5, Cut
<1>8. ASSUME NEW rest \in Results PROVE Taken(data, rest) \in Results
  <2>. DEFINE v == SubSeq(data, 4, 3 + n)
  <2>1. <<v>> \o rest.values \in Values
    <3>. HIDE DEF v
    <3>. QED  BY <1>7 DEF Results, Values, v
  <2>2. Taken(data, rest) = IF rest.ok THEN [rest EXCEPT !.values = <<v>> \o rest.values] ELSE rest
    BY DEF Taken, n
  <2>. HIDE DEF v
  <2>. QED  BY <2>1, <2>2, Zenon DEF Results
<1>. QED  BY <1>4, <1>6, <1>8, Zenon DEF n, Rest

\* What DecodeAll is.
LEMMA DecodeAllIs ==
  DecodeAll = [data \in Seq(Nat) |->
                 IF Stops(data) THEN [ok |-> data = <<>>, values |-> <<>>]
                 ELSE Taken(data, DecodeAll[Rest(data)])]
<1>. DEFINE S == Seq(Nat)
            T == Results
            stop == {s \in S : Stops(s)}
            base == [s \in S |-> [ok |-> s = <<>>, values |-> <<>>]]
            nxt == [s \in S |-> IF Stops(s) THEN s ELSE Rest(s)]
            comb == [p \in S \X T |-> IF Stops(p[1]) THEN p[2] ELSE Taken(p[1], p[2])]
            Rhs(g, s) == IF Stops(s) THEN [ok |-> s = <<>>, values |-> <<>>] ELSE Taken(s, g[Rest(s)])
            Is(g) == g = [s \in S |-> Rhs(g, s)]
<1>1. DataLengths \in [S -> Nat] /\ base \in [S -> T] /\ nxt \in [S -> S]
  <2>1. <<>> \in Values
    BY DEF Values
  <2>2. \A s \in S : [ok |-> s = <<>>, values |-> <<>>] \in T
    BY <2>1 DEF Results
  <2>3. \A s \in S : (IF Stops(s) THEN s ELSE Rest(s)) \in S
    BY ValueTaken
  <2>. QED  BY <2>2, <2>3 DEF DataLengths
<1>2. comb \in [S \X T -> T]
  BY ValueTaken
<1>3. \A s \in S : s \notin stop => DataLengths[nxt[s]] < DataLengths[s]
  BY ValueTaken DEF DataLengths
<1>. HIDE DEF S, T, stop, base, nxt, comb
<1>4. PICK g : Recurs(g, S, T, stop, base, comb, nxt)
  <2>1. Descends(S, T, DataLengths, stop, base, comb, nxt)
    BY <1>1, <1>2, <1>3, Zenon DEF Descends
  <2>. QED  BY <2>1, Recursion, Zenon
<1>. USE DEF S, stop, base, nxt, comb
<1>5. g \in [S -> T] /\ \A s \in S : g[s] = Rhs(g, s)
  <2>1. g \in [S -> T]
    BY <1>4 DEF Recurs
  <2>2. ASSUME NEW s \in S PROVE g[s] = Rhs(g, s)
    BY <1>1, <1>4, Zenon DEF Recurs
  <2>. QED  BY <2>1, <2>2
<1>. HIDE DEF S, T, Rhs
<1>6. Is(g)
  <2>1. g = [s \in S |-> g[s]]
    BY <1>5
  <2>2. [s \in S |-> g[s]] = [s \in S |-> Rhs(g, s)]
    BY <1>5, Zenon
  <2>. QED  BY <2>1, <2>2
<1>7. DecodeAll = CHOOSE f : Is(f)
  BY ZenonT(30) DEF DecodeAll, S, Rhs, Stops, Taken, Rest
<1>. HIDE DEF Is
<1>8. Is(DecodeAll)
  BY <1>6, <1>7
<1>. QED  BY <1>8, Zenon DEF S, Rhs, Is

\* DecodeAll undoes EncodeAll.
LEMMA ValuesSurvive ==
  ASSUME NEW values \in Values
  PROVE  DecodeAll[EncodeAll[values]] = [ok |-> TRUE, values |-> values]
<1>. DEFINE Good == {s \in Values : DecodeAll[EncodeAll[s]] = [ok |-> TRUE, values |-> s]}
<1>1. ASSUME NEW s \in Values, \A r \in Values : Lengths[r] < Lengths[s] => r \in Good
      PROVE  DecodeAll[EncodeAll[s]] = [ok |-> TRUE, values |-> s]
  <2>1. \A data \in Seq(Nat) :
          DecodeAll[data] = IF Stops(data) THEN [ok |-> data = <<>>, values |-> <<>>]
                            ELSE Taken(data, DecodeAll[Rest(data)])
    BY DecodeAllIs, Zenon
  <2>2. CASE s = <<>>
    <3>1. EncodeAll[s] = <<>> /\ <<>> \in Seq(Nat)
      BY <2>2, EncodeAllOK, Zenon
    <3>2. Stops(<<>>)
      BY DEF Stops
    <3>. QED  BY <2>1, <2>2, <3>1, <3>2, Zenon
  <2>3. CASE s # <<>>
    <3>. DEFINE v == Head(s)
                t == TLV(v)
                r == EncodeAll[Tail(s)]
                e == t \o r
    <3>1. v \in Seq(Nat) /\ Tail(s) \in Values /\ Lengths[Tail(s)] < Lengths[s]
      BY <2>3 DEF Values, Lengths
    <3>2. EncodeAll[s] = e /\ r \in Seq(Nat)
      BY <2>3, <3>1, EncodeAllOK, Zenon
    <3>3. DecodeAll[r] = [ok |-> TRUE, values |-> Tail(s)]
      BY <1>1, <3>1, Zenon
    <3>4. /\ t \in Seq(Nat) /\ Len(t) = 3 + Len(v) /\ t[2] * Radix + t[3] = Len(v)
          /\ \A i \in 1 .. Len(v) : t[3 + i] = v[i]
      BY <3>1, TLVOK, Zenon
    <3>. HIDE DEF v, t, r
    <3>5. e \in Seq(Nat) /\ IsJoin(e, t, r)
      BY <3>2, <3>4, Joined, Zenon
    <3>. HIDE DEF e
    <3>6. /\ Len(e) = 3 + Len(v) + Len(r) /\ Len(v) \in Nat /\ Len(r) \in Nat
          /\ e[2] = t[2] /\ e[3] = t[3]
      BY <3>1, <3>2, <3>4, <3>5, SMTT(30) DEF IsJoin
    <3>7. Number(Tail(e)) = e[2] * Radix + e[3]
      BY <3>5, <3>6 DEF Number
    <3>8. Number(Tail(e)) = Len(v)
      BY <3>4, <3>6, <3>7, Zenon
    <3>9. ~Stops(e)
      <4>1. Len(e) >= 3 /\ e # <<>> /\ ~(Len(e) < 3 + Len(v))
        BY <3>5, <3>6
      <4>. QED  BY <3>6, <3>8, <4>1 DEF Stops
    <3>10. ASSUME NEW i \in 1 .. Len(v) PROVE e[3 + i] = v[i]
      <4>1. 3 + i \in 1 .. Len(t)
        BY <3>4, <3>6
      <4>2. e[3 + i] = t[3 + i]
        BY <3>5, <4>1, Zenon DEF IsJoin
      <4>. QED  BY <3>4, <4>2, Zenon
    <3>11. \A i \in 1 .. Len(r) : e[3 + Len(v) + i] = r[i]
      BY <3>4, <3>5, <3>6 DEF IsJoin
    <3>12. SubSeq(e, 4, 3 + Len(v)) = v
      <4>1. /\ SubSeq(e, 4, 3 + Len(v)) \in Seq(Nat) /\ Len(SubSeq(e, 4, 3 + Len(v))) = Len(v)
            /\ \A i \in 1 .. Len(v) : SubSeq(e, 4, 3 + Len(v))[i] = e[3 + i]
        BY <3>5, <3>6, SMTT(30)
      <4>. QED  BY <3>1, <3>10, <4>1, Same
    <3>13. Rest(e) = r
      <4>1. Rest(e) = SubSeq(e, 4 + Len(v), Len(e))
        BY <3>8, Zenon DEF Rest
      <4>2. /\ SubSeq(e, 4 + Len(v), Len(e)) \in Seq(Nat) /\ Len(SubSeq(e, 4 + Len(v), Len(e))) = Len(r)
            /\ \A i \in 1 .. Len(r) : SubSeq(e, 4 + Len(v), Len(e))[i] = e[3 + Len(v) + i]
        <5>. DEFINE a == 4 + Len(v)
                    z == Len(e)
        <5>1. a \in Nat /\ a >= 1 /\ z \in Nat /\ z <= Len(e) /\ a <= z + 1 /\ z + 1 - a = Len(r)
          BY <3>6
        <5>2. \A i \in 1 .. Len(r) : a + i - 1 = 3 + Len(v) + i
          BY <3>6
        <5>. HIDE DEF a, z
        <5>3. /\ SubSeq(e, a, z) \in Seq(Nat) /\ Len(SubSeq(e, a, z)) = z + 1 - a
              /\ \A i \in 1 .. z + 1 - a : SubSeq(e, a, z)[i] = e[a + i - 1]
          BY <3>5, <5>1, Cut, Zenon
        <5>4. /\ SubSeq(e, a, z) \in Seq(Nat) /\ Len(SubSeq(e, a, z)) = Len(r)
              /\ \A i \in 1 .. Len(r) : SubSeq(e, a, z)[i] = e[3 + Len(v) + i]
          BY <5>1, <5>2, <5>3, Zenon
        <5>. QED  BY <5>4, Zenon DEF a, z
      <4>. QED  BY <3>2, <3>11, <4>1, <4>2, Same
    <3>14. DecodeAll[e] = Taken(e, [ok |-> TRUE, values |-> Tail(s)])
      BY <2>1, <3>3, <3>5, <3>9, <3>13, Zenon
    <3>15. Taken(e, [ok |-> TRUE, values |-> Tail(s)]) = [ok |-> TRUE, values |-> <<v>> \o Tail(s)]
      BY <3>8, <3>12, Zenon DEF Taken
    <3>16. <<v>> \o Tail(s) = s
      BY <2>3 DEF Values, v
    <3>. QED  BY <3>2, <3>14, <3>15, <3>16, Zenon
  <2>. QED  BY <2>2, <2>3
<1>2. Inductive(Values, Lengths, Good)
  <2>1. Lengths \in [Values -> Nat]
    BY DEF Lengths, Values
  <2>. QED  BY <1>1, <2>1, Zenon DEF Inductive
<1>. HIDE DEF Good
<1>3. Values \subseteq Good
  BY <1>2, Descent, Zenon
<1>. QED  BY <1>3, Zenon DEF Good

-----------------------------------------------------------------------------
(* Frames and what stands in them *)

\* t stands in s from position i on.
Holds(s, i, t) ==
  /\ s \in Seq(Nat) /\ t \in Seq(Nat) /\ i \in Nat /\ i >= 1 /\ i + Len(t) <= Len(s) + 1
  /\ \A k \in 1 .. Len(t) : s[i + k - 1] = t[k]

\* c is s and then t, and what stands in s stands in c.
IsChain(c, s, t) ==
  /\ c \in Seq(Nat) /\ Len(c) = Len(s) + Len(t) /\ Holds(c, Len(s) + 1, t)
  /\ \A i \in Nat, u \in Seq(Nat) : Holds(s, i, u) => Holds(c, i, u)

LEMMA Chain ==
  ASSUME NEW s \in Seq(Nat), NEW t \in Seq(Nat)
  PROVE  IsChain(s \o t, s, t)
<1>. DEFINE c == s \o t
<1>1. c \in Seq(Nat) /\ IsJoin(c, s, t)
  BY Joined, Zenon
<1>. HIDE DEF c
<1>2. Len(c) = Len(s) + Len(t) /\ Len(s) \in Nat /\ Len(t) \in Nat
  BY <1>1 DEF IsJoin
<1>3. Holds(c, Len(s) + 1, t)
  <2>1. ASSUME NEW k \in 1 .. Len(t) PROVE c[(Len(s) + 1) + k - 1] = t[k]
    <3>1. (Len(s) + 1) + k - 1 = Len(s) + k
      BY <1>2
    <3>. QED  BY <1>1, <3>1, Zenon DEF IsJoin
  <2>2. Len(s) + 1 \in Nat /\ Len(s) + 1 >= 1 /\ (Len(s) + 1) + Len(t) <= Len(c) + 1
    BY <1>2
  <2>. QED  BY <1>1, <2>1, <2>2, Zenon DEF Holds
<1>4. ASSUME NEW i \in Nat, NEW u \in Seq(Nat), Holds(s, i, u) PROVE Holds(c, i, u)
  <2>1. i >= 1 /\ i + Len(u) <= Len(s) + 1 /\ Len(u) \in Nat
    BY <1>4 DEF Holds
  <2>2. ASSUME NEW k \in 1 .. Len(u) PROVE c[i + k - 1] = u[k]
    <3>1. i + k - 1 \in 1 .. Len(s)
      BY <1>2, <2>1
    <3>2. c[i + k - 1] = s[i + k - 1]
      BY <1>1, <3>1, Zenon DEF IsJoin
    <3>3. s[i + k - 1] = u[k]
      BY <1>4, Zenon DEF Holds
    <3>. QED  BY <3>2, <3>3, Zenon
  <2>3. i + Len(u) <= Len(c) + 1
    BY <1>2, <2>1
  <2>. QED  BY <1>1, <2>1, <2>2, <2>3, Zenon DEF Holds
<1>. QED  BY <1>1, <1>2, <1>3, <1>4, Zenon DEF c, IsChain

LEMMA HoldsItself ==
  ASSUME NEW s \in Seq(Nat)
  PROVE  Holds(s, 1, s)
BY DEF Holds

\* SubSeq cuts out what stands there.
LEMMA CutOut ==
  ASSUME NEW s, NEW i, NEW t, NEW j, Holds(s, i, t), j = i + Len(t) - 1
  PROVE  SubSeq(s, i, j) = t
<1>1. s \in Seq(Nat) /\ t \in Seq(Nat) /\ i \in Nat /\ i >= 1 /\ i + Len(t) <= Len(s) + 1
  BY DEF Holds
<1>2. Len(t) \in Nat /\ j \in Nat /\ j <= Len(s) /\ i <= j + 1 /\ j + 1 - i = Len(t)
  BY <1>1
<1>3. /\ SubSeq(s, i, j) \in Seq(Nat) /\ Len(SubSeq(s, i, j)) = Len(t)
      /\ \A k \in 1 .. Len(t) : SubSeq(s, i, j)[k] = s[i + k - 1]
  <2>1. /\ SubSeq(s, i, j) \in Seq(Nat) /\ Len(SubSeq(s, i, j)) = j + 1 - i
        /\ \A k \in 1 .. j + 1 - i : SubSeq(s, i, j)[k] = s[i + k - 1]
    BY <1>1, <1>2, Cut, ZenonT(30)
  <2>. QED  BY <1>2, <2>1, Zenon
<1>4. \A k \in 1 .. Len(SubSeq(s, i, j)) : SubSeq(s, i, j)[k] = t[k]
  BY <1>3, Zenon DEF Holds
<1>. QED  BY <1>1, <1>3, <1>4, Same, Zenon

\* What stands in s from position n + 1 on stands in the part of s after n.
LEMMA Later ==
  ASSUME NEW s, NEW i \in Nat, NEW t, NEW n \in Nat, NEW j \in Nat, Holds(s, j, t), j = n + i, i >= 1
  PROVE  /\ Holds(SubSeq(s, n + 1, Len(s)), i, t)
         /\ Len(SubSeq(s, n + 1, Len(s))) = Len(s) - n
<1>1. s \in Seq(Nat) /\ t \in Seq(Nat) /\ j + Len(t) <= Len(s) + 1 /\ Len(t) \in Nat /\ Len(s) \in Nat
  BY DEF Holds
<1>. DEFINE a == n + 1
            z == Len(s)
            b == SubSeq(s, a, z)
<1>2. a \in Nat /\ a >= 1 /\ z \in Nat /\ z <= Len(s) /\ a <= z + 1 /\ z + 1 - a = Len(s) - n
  BY <1>1
<1>. HIDE DEF a, z
<1>3. /\ b \in Seq(Nat) /\ Len(b) = z + 1 - a
      /\ \A k \in 1 .. z + 1 - a : b[k] = s[a + k - 1]
  BY <1>1, <1>2, Cut, ZenonT(30)
<1>. HIDE DEF b
<1>4. ASSUME NEW k \in 1 .. Len(t) PROVE b[i + k - 1] = t[k]
  <2>1. i + k - 1 \in 1 .. z + 1 - a /\ a + (i + k - 1) - 1 = j + k - 1
    BY <1>1, <1>2 DEF a
  <2>2. b[i + k - 1] = s[a + (i + k - 1) - 1]
    BY <1>3, <2>1, Zenon
  <2>. QED  BY <2>1, <2>2, Zenon DEF Holds
<1>5. i + Len(t) <= Len(b) + 1
  BY <1>1, <1>2, <1>3
<1>6. Holds(b, i, t)
  BY <1>1, <1>3, <1>4, <1>5, Zenon DEF Holds
<1>. QED  BY <1>2, <1>3, <1>6, Zenon DEF a, b, z

\* ParseMessage on a frame with the short form of the length.
LEMMA Framed ==
  ASSUME NEW e \in Seq(Nat), Len(e) >= 3, e[1] = Len(e)
  PROVE  ParseMessage(e) = DecodeBody(e[2], SubSeq(e, 3, Len(e)))
BY DEF ParseMessage

\* Bytes are numbers.
LEMMA Plain ==
  /\ Byte \subseteq Nat /\ Numbers16 \subseteq Nat
  /\ Bytes \subseteq Seq(Nat) /\ Seq(Bytes) \subseteq Values
<1>1. Byte \subseteq Nat
  BY FramesAssumption DEF Byte
<1>2. Numbers16 \subseteq Nat
  BY FramesAssumption DEF Numbers16
<1>3. Bytes \subseteq Seq(Nat)
  <2>1. ASSUME NEW s \in Seq(Byte) PROVE s \in Seq(Nat)
    <3>1. Len(s) \in Nat /\ s = [i \in 1 .. Len(s) |-> s[i]] /\ \A i \in 1 .. Len(s) : s[i] \in Byte
      OBVIOUS
    <3>2. \A i \in 1 .. Len(s) : s[i] \in Nat
      BY <1>1, <3>1
    <3>. QED  BY <3>1, <3>2
  <2>. QED  BY <2>1 DEF Bytes
<1>4. Seq(Bytes) \subseteq Values
  BY <1>3 DEF Values
<1>. QED  BY <1>1, <1>2, <1>3, <1>4

\* writeLength: the length itself, as long as a byte holds it.
LEMMA WriteLengthOK ==
  ASSUME NEW n \in Nat
  PROVE  /\ WriteLength(n) \in Seq(Nat) /\ Len(WriteLength(n)) \in Nat /\ Len(WriteLength(n)) >= 1
         /\ n < Radix => WriteLength(n) = <<n>>
<1>1. CASE n < Radix
  BY <1>1 DEF WriteLength
<1>2. CASE ~(n < Radix)
  <2>1. Uint16(n) \in Seq(Nat) /\ Len(Uint16(n)) = 2 /\ <<1>> \in Seq(Nat)
    BY Uint16OK
  <2>2. WriteLength(n) = <<1>> \o Uint16(n)
    BY <1>2 DEF WriteLength
  <2>. QED  BY <1>2, <2>1, <2>2
<1>. QED  BY <1>1, <1>2

\* e is an encoding of m: if it is not too long for a byte to give its length,
\* its first byte does, and it is read as m.
Encoded(e, m) ==
  /\ e \in Seq(Nat) /\ Len(e) >= 3
  /\ Len(e) < Radix => e[1] = Len(e) /\ ParseMessage(e) = m

\* What follows the length and the type of a message: t stands there from i on.
LEMMA InBody ==
  ASSUME NEW e \in Seq(Nat), NEW t, NEW i \in Nat, NEW j \in Nat, Holds(e, j, t), j = 2 + i, i >= 1
  PROVE  Holds(SubSeq(e, 3, Len(e)), i, t) /\ Len(SubSeq(e, 3, Len(e))) = Len(e) - 2
<1>1. 2 \in Nat
  OBVIOUS
<1>2. Holds(SubSeq(e, 2 + 1, Len(e)), i, t) /\ Len(SubSeq(e, 2 + 1, Len(e))) = Len(e) - 2
  BY <1>1, Later, Zenon
<1>. QED  BY <1>2

\* A byte of what stands in s.
LEMMA ByteAt ==
  ASSUME NEW s, NEW i, NEW t, NEW k \in 1 .. Len(t), NEW j, Holds(s, i, t), j = i + k - 1
  PROVE  s[j] = t[k]
BY Zenon DEF Holds

LEMMA FirstByte ==
  ASSUME NEW s, NEW i, NEW t, Holds(s, i, t), Len(t) >= 1
  PROVE  s[i] = t[1]
<1>1. 1 \in 1 .. Len(t) /\ i \in Nat
  BY DEF Holds
<1>2. s[i + 1 - 1] = t[1]
  BY <1>1, Zenon DEF Holds
<1>. QED  BY <1>1, <1>2

\* A frame that starts with its length and h is decoded by the type h starts with.
LEMMA Opened ==
  ASSUME NEW e \in Seq(Nat), Len(e) >= 3, Holds(e, 1, <<Len(e)>>),
         NEW h, Holds(e, 2, h), Len(h) >= 1
  PROVE  e[1] = Len(e) /\ ParseMessage(e) = DecodeBody(h[1], SubSeq(e, 3, Len(e)))
<1>1. Len(<<Len(e)>>) >= 1 /\ <<Len(e)>>[1] = Len(e)
  OBVIOUS
<1>2. e[1] = Len(e)
  BY <1>1, FirstByte, Zenon
<1>3. e[2] = h[1]
  BY FirstByte, Zenon
<1>. QED  BY <1>2, <1>3, Framed, Zenon

\* The decoder of each type.
LEMMA Picks ==
  ASSUME NEW b
  PROVE  /\ DecodeBody(CONNECT, b) = DecodeConnect(b) /\ DecodeBody(PUBLISH, b) = DecodePublish(b)
         /\ DecodeBody(SUBSCRIBE, b) = DecodeSubscribe(b) /\ DecodeBody(STATUS, b) = DecodeStatus(b)
         /\ DecodeBody(FETCH, b) = DecodeFetch(b) /\ DecodeBody(CMD, b) = DecodeCmd(b)
         /\ DecodeBody(CMDACK, b) = DecodeCmdAck(b)
BY DEF DecodeBody, CONNECT, PUBLISH, SUBSCRIBE, STATUS, FETCH, CMD, CMDACK

-----------------------------------------------------------------------------
(* One lemma per type of message: its encoding is decoded to it *)

LEMMA ConnectOK ==
  ASSUME NEW m \in [type : {CONNECT}, id : Bytes]
  PROVE  Encoded(EncodeConnect(m), m)
<1>. DEFINE id == m.id
            n == 6 + Len(id)
            w == WriteLength(n)
            h == <<CONNECT, 0, 1>>
            u == Uint16(60)
            p == w \o h
            q == p \o u
            e == q \o id
            b == SubSeq(e, 3, Len(e))
<1>1. id \in Seq(Nat) /\ Len(id) \in Nat /\ n \in Nat /\ m = [type |-> CONNECT, id |-> id]
  BY Plain
<1>2. w \in Seq(Nat) /\ Len(w) >= 1 /\ Len(w) \in Nat /\ (n < Radix => w = <<n>>)
  BY <1>1, WriteLengthOK, Zenon
<1>3. h \in Seq(Nat) /\ Len(h) = 3 /\ u \in Seq(Nat) /\ Len(u) = 2
  <2>1. h \in Seq(Nat) /\ Len(h) = 3 /\ 60 \in Nat
    BY DEF CONNECT
  <2>. QED  BY <2>1, Uint16OK, Zenon
<1>4. EncodeConnect(m) = e
  BY DEF EncodeConnect
<1>. HIDE DEF id, w, h, u
<1>5. IsChain(p, w, h) /\ p \in Seq(Nat)
  BY <1>2, <1>3, Chain, Zenon DEF IsChain
<1>. HIDE DEF p
<1>6. IsChain(q, p, u) /\ q \in Seq(Nat)
  BY <1>3, <1>5, Chain, Zenon DEF IsChain
<1>. HIDE DEF q
<1>7. IsChain(e, q, id) /\ e \in Seq(Nat)
  BY <1>1, <1>6, Chain, Zenon DEF IsChain
<1>. HIDE DEF e
<1>8. Len(p) = Len(w) + 3 /\ Len(q) = Len(w) + 5 /\ Len(e) = Len(w) + 5 + Len(id)
  BY <1>1, <1>2, <1>3, <1>5, <1>6, <1>7 DEF IsChain
<1>9. Len(e) >= 3
  BY <1>1, <1>2, <1>8
<1>10. ASSUME Len(e) < Radix PROVE e[1] = Len(e) /\ ParseMessage(e) = m
  <2>1. n < Radix
    BY <1>1, <1>2, <1>8, <1>10, FramesAssumption
  <2>2. w = <<n>> /\ Len(w) = 1
    BY <1>2, <2>1
  <2>3. Holds(e, 1, <<Len(e)>>)
    <3>1. Holds(e, 1, w)
      BY <1>2, <1>5, <1>6, <1>7, HoldsItself DEF IsChain
    <3>2. n = Len(e)
      BY <1>1, <1>8, <2>2
    <3>. QED  BY <2>2, <3>1, <3>2, Zenon
  <2>4. Holds(e, 2, h) /\ Holds(e, 7, id)
    <3>1. Len(w) + 1 = 2 /\ Len(q) + 1 = 7
      BY <1>8, <2>2
    <3>. QED  BY <1>1, <1>3, <1>5, <1>6, <1>7, <3>1 DEF IsChain
  <2>5. e[1] = Len(e) /\ ParseMessage(e) = DecodeConnect(b)
    <3>1. Len(h) >= 1 /\ h[1] = CONNECT
      BY <1>3 DEF h
    <3>. QED  BY <1>7, <1>9, <2>3, <2>4, <3>1, Opened, Picks, Zenon
  <2>6. Holds(b, 5, id) /\ Len(b) = 4 + Len(id)
    <3>1. Holds(b, 5, id) /\ Len(b) = Len(e) - 2
      BY <1>7, <2>4, InBody
    <3>. QED  BY <1>1, <1>8, <2>2, <3>1
  <2>. HIDE DEF b
  <2>7. SubSeq(b, 5, Len(b)) = id /\ ~(Len(b) < 4)
    <3>1. Len(b) = 5 + Len(id) - 1 /\ ~(Len(b) < 4)
      BY <1>1, <2>6
    <3>. QED  BY <2>6, <3>1, CutOut, Zenon
  <2>. QED  BY <1>1, <2>5, <2>7, Zenon DEF DecodeConnect
<1>. QED  BY <1>4, <1>7, <1>9, <1>10, Zenon DEF Encoded

\* A number of two bytes is read from where it stands.
LEMMA NumberAt ==
  ASSUME NEW s, NEW i \in Nat, NEW n \in Nat, Holds(s, i, Uint16(n))
  PROVE  s[i] * Radix + s[i + 1] = n
<1>. DEFINE u == Uint16(n)
<1>1. Len(u) = 2 /\ u[1] * Radix + u[2] = n
  BY Uint16OK, Zenon
<1>2. Holds(s, i, u)
  OBVIOUS
<1>. HIDE DEF u
<1>3. 1 \in 1 .. Len(u) /\ 2 \in 1 .. Len(u) /\ i = i + 1 - 1 /\ i + 1 = i + 2 - 1
  BY <1>1
<1>4. s[i] = u[1] /\ s[i + 1] = u[2]
  <2>1. s[i + 1 - 1] = u[1] /\ s[i + 2 - 1] = u[2]
    BY <1>2, <1>3, Zenon DEF Holds
  <2>. QED  BY <1>3, <2>1
<1>. QED  BY <1>1, <1>4, Zenon

\* What stands in a piece of s stands in s.
LEMMA Nested ==
  ASSUME NEW s, NEW i, NEW t, NEW j, NEW u, NEW k, Holds(s, i, t), Holds(t, j, u), k = i + j - 1
  PROVE  Holds(s, k, u)
<1>1. /\ s \in Seq(Nat) /\ t \in Seq(Nat) /\ u \in Seq(Nat) /\ i \in Nat /\ j \in Nat /\ i >= 1 /\ j >= 1
      /\ i + Len(t) <= Len(s) + 1 /\ j + Len(u) <= Len(t) + 1
  BY DEF Holds
<1>2. Len(s) \in Nat /\ Len(t) \in Nat /\ Len(u) \in Nat
  BY <1>1
<1>3. k \in Nat /\ k >= 1 /\ k + Len(u) <= Len(s) + 1
  BY <1>1, <1>2
<1>4. ASSUME NEW x \in 1 .. Len(u) PROVE s[k + x - 1] = u[x]
  <2>1. j + x - 1 \in 1 .. Len(t) /\ i + (j + x - 1) - 1 = k + x - 1
    BY <1>1, <1>2
  <2>2. s[i + (j + x - 1) - 1] = t[j + x - 1]
    BY <2>1, Zenon DEF Holds
  <2>3. t[j + x - 1] = u[x]
    BY Zenon DEF Holds
  <2>. QED  BY <2>1, <2>2, <2>3, Zenon
<1>. QED  BY <1>1, <1>3, <1>4, Zenon DEF Holds

LEMMA PublishOK ==
  ASSUME NEW m \in [type : {PUBLISH}, topic : Numbers16, msgID : Numbers16, values : Seq(Bytes)]
  PROVE  Encoded(EncodePublish(m), m)
<1>. DEFINE data == EncodeAll[m.values]
            n == 7 + Len(data)
            w == WriteLength(n)
            h == <<PUBLISH, 0>>
            u == Uint16(m.topic)
            v == Uint16(m.msgID)
            p == w \o h
            q == p \o u
            r == q \o v
            e == r \o data
            b == SubSeq(e, 3, Len(e))
<1>0. /\ m = [type |-> PUBLISH, topic |-> m.topic, msgID |-> m.msgID, values |-> m.values]
      /\ m.topic \in Nat /\ m.msgID \in Nat /\ m.values \in Values
  BY Plain, Zenon
<1>1. data \in Seq(Nat) /\ Len(data) \in Nat /\ n \in Nat
  <2>1. data \in Seq(Nat)
    BY <1>0, EncodeAllOK, Zenon
  <2>. HIDE DEF data
  <2>. QED  BY <2>1
<1>2. w \in Seq(Nat) /\ Len(w) >= 1 /\ Len(w) \in Nat /\ (n < Radix => w = <<n>>)
  BY <1>1, WriteLengthOK, Zenon
<1>3. h \in Seq(Nat) /\ Len(h) = 2 /\ u \in Seq(Nat) /\ Len(u) = 2 /\ v \in Seq(Nat) /\ Len(v) = 2
  <2>1. h \in Seq(Nat) /\ Len(h) = 2
    BY DEF PUBLISH
  <2>. QED  BY <1>0, <2>1, Uint16OK, Zenon
<1>4. EncodePublish(m) = e
  BY DEF EncodePublish
<1>5. DecodeAll[data] = [ok |-> TRUE, values |-> m.values]
  BY <1>0, ValuesSurvive, Zenon
<1>. HIDE DEF data, w, h, u, v
<1>6. IsChain(p, w, h) /\ p \in Seq(Nat)
  BY <1>2, <1>3, Chain, Zenon DEF IsChain
<1>. HIDE DEF p
<1>7. IsChain(q, p, u) /\ q \in Seq(Nat)
  BY <1>3, <1>6, Chain, Zenon DEF IsChain
<1>. HIDE DEF q
<1>8. IsChain(r, q, v) /\ r \in Seq(Nat)
  BY <1>3, <1>7, Chain, Zenon DEF IsChain
<1>. HIDE DEF r
<1>9. IsChain(e, r, data) /\ e \in Seq(Nat)
  BY <1>1, <1>8, Chain, Zenon DEF IsChain
<1>. HIDE DEF e
<1>10. /\ Len(p) = Len(w) + 2 /\ Len(q) = Len(w) + 4 /\ Len(r) = Len(w) + 6
       /\ Len(e) = Len(w) + 6 + Len(data)
  BY <1>1, <1>2, <1>3, <1>6, <1>7, <1>8, <1>9 DEF IsChain
<1>11. Len(e) >= 3
  BY <1>1, <1>2, <1>10
<1>12. ASSUME Len(e) < Radix PROVE e[1] = Len(e) /\ ParseMessage(e) = m
  <2>1. n < Radix
    BY <1>1, <1>2, <1>10, <1>12, FramesAssumption
  <2>2. w = <<n>> /\ Len(w) = 1
    BY <1>2, <2>1
  <2>3. Holds(e, 1, <<Len(e)>>)
    <3>1. Holds(e, 1, w)
      BY <1>2, <1>6, <1>7, <1>8, <1>9, HoldsItself DEF IsChain
    <3>2. n = Len(e)
      BY <1>1, <1>10, <2>2
    <3>. QED  BY <2>2, <3>1, <3>2, Zenon
  <2>4. Holds(e, 2, h) /\ Holds(e, 4, u) /\ Holds(e, 6, v) /\ Holds(e, 8, data)
    <3>1. Len(w) + 1 = 2 /\ Len(p) + 1 = 4 /\ Len(q) + 1 = 6 /\ Len(r) + 1 = 8
      BY <1>10, <2>2
    <3>2. Holds(p, 2, h) /\ Holds(q, 4, u) /\ Holds(r, 6, v) /\ Holds(e, 8, data)
      BY <1>6, <1>7, <1>8, <1>9, <3>1, Zenon DEF IsChain
    <3>. QED  BY <1>3, <1>6, <1>7, <1>8, <1>9, <3>2 DEF IsChain
  <2>5. e[1] = Len(e) /\ ParseMessage(e) = DecodePublish(b)
    <3>1. Len(h) >= 1 /\ h[1] = PUBLISH
      BY <1>3 DEF h
    <3>. QED  BY <1>9, <1>11, <2>3, <2>4, <3>1, Opened, Picks, Zenon
  <2>6. Holds(b, 2, u) /\ Holds(b, 4, v) /\ Holds(b, 6, data) /\ Len(b) = 5 + Len(data)
    <3>1. Holds(b, 2, u) /\ Len(b) = Len(e) - 2
      BY <1>9, <2>4, InBody
    <3>2. Holds(b, 4, v)
      BY <1>9, <2>4, InBody
    <3>3. Holds(b, 6, data)
      BY <1>9, <2>4, InBody
    <3>. QED  BY <1>1, <1>10, <2>2, <3>1, <3>2, <3>3
  <2>. HIDE DEF b
  <2>7. SubSeq(b, 6, Len(b)) = data /\ SubSeq(b, 4, 5) = v /\ ~(Len(b) < 5)
    <3>1. Len(b) = 6 + Len(data) - 1 /\ 5 = 4 + Len(v) - 1 /\ ~(Len(b) < 5)
      BY <1>1, <1>3, <2>6
    <3>. QED  BY <2>6, <3>1, CutOut, ZenonT(30)
  <2>8. Number(Tail(b)) = m.topic
    <3>1. b[2] * Radix + b[2 + 1] = m.topic
      BY <1>0, <2>6, NumberAt DEF u
    <3>2. b \in Seq(Nat) /\ Len(b) >= 5
      BY <1>1, <2>6 DEF Holds
    <3>3. Tail(b)[1] = b[2] /\ Tail(b)[2] = b[2 + 1]
      BY <3>2
    <3>. QED  BY <3>1, <3>3, Zenon DEF Number
  <2>9. Number(v) = m.msgID
    BY <1>0, Uint16OK, Zenon DEF Number, v
  <2>10. DecodePublish(b) = [type |-> PUBLISH, topic |-> m.topic, msgID |-> m.msgID, values |-> m.values]
    <3>1. DecodeAll[data].ok /\ DecodeAll[data].values = m.values
      BY <1>5
    <3>. QED  BY <2>7, <2>8, <2>9, <3>1, Zenon DEF DecodePublish
  <2>. QED  BY <1>0, <2>5, <2>10, Zenon
<1>. QED  BY <1>4, <1>9, <1>11, <1>12, Zenon DEF Encoded

LEMMA SubscribeOK ==
  ASSUME NEW m \in [type : {SUBSCRIBE}, msgID : Numbers16, topicName : Bytes \ {<<>>}, qos : Byte]
  PROVE  Encoded(EncodeSubscribe(m), m)
<1>. DEFINE name == m.topicName
            n == 5 + Len(name)
            w == WriteLength(n)
            h == <<SUBSCRIBE>>
            u == Uint16(m.msgID)
            l == <<m.qos>>
            p == w \o h
            q == p \o u
            r == q \o name
            e == r \o l
            b == SubSeq(e, 3, Len(e))
<1>0. /\ m = [type |-> SUBSCRIBE, msgID |-> m.msgID, topicName |-> name, qos |-> m.qos]
      /\ m.msgID \in Nat /\ m.qos \in Nat /\ name \in Seq(Nat) /\ name # <<>>
  BY Plain, Zenon
<1>1. name \in Seq(Nat) /\ Len(name) \in Nat /\ Len(name) >= 1 /\ n \in Nat
  BY <1>0
<1>2. w \in Seq(Nat) /\ Len(w) >= 1 /\ Len(w) \in Nat /\ (n < Radix => w = <<n>>)
  BY <1>1, WriteLengthOK, Zenon
<1>3. h \in Seq(Nat) /\ Len(h) = 1 /\ u \in Seq(Nat) /\ Len(u) = 2 /\ l \in Seq(Nat) /\ Len(l) = 1
  <2>1. h \in Seq(Nat) /\ Len(h) = 1
    BY DEF SUBSCRIBE
  <2>2. l \in Seq(Nat) /\ Len(l) = 1
    BY <1>0
  <2>. QED  BY <1>0, <2>1, <2>2, Uint16OK, Zenon
<1>4. EncodeSubscribe(m) = e
  BY DEF EncodeSubscribe
<1>. HIDE DEF name, w, h, u, l
<1>5. IsChain(p, w, h) /\ p \in Seq(Nat)
  BY <1>2, <1>3, Chain, Zenon DEF IsChain
<1>. HIDE DEF p
<1>6. IsChain(q, p, u) /\ q \in Seq(Nat)
  BY <1>3, <1>5, Chain, Zenon DEF IsChain
<1>. HIDE DEF q
<1>7. IsChain(r, q, name) /\ r \in Seq(Nat)
  BY <1>1, <1>6, Chain, Zenon DEF IsChain
<1>. HIDE DEF r
<1>8. IsChain(e, r, l) /\ e \in Seq(Nat)
  BY <1>3, <1>7, Chain, Zenon DEF IsChain
<1>. HIDE DEF e
<1>9. /\ Len(p) = Len(w) + 1 /\ Len(q) = Len(w) + 3 /\ Len(r) = Len(w) + 3 + Len(name)
      /\ Len(e) = Len(w) + 4 + Len(name)
  BY <1>1, <1>2, <1>3, <1>5, <1>6, <1>7, <1>8 DEF IsChain
<1>10. Len(e) >= 3
  BY <1>1, <1>2, <1>9
<1>11. ASSUME Len(e) < Radix PROVE e[1] = Len(e) /\ ParseMessage(e) = m
  <2>1. n < Radix
    BY <1>1, <1>2, <1>9, <1>11, FramesAssumption
  <2>2. w = <<n>> /\ Len(w) = 1
    BY <1>2, <2>1
  <2>. DEFINE at == 5 + Len(name)
              last == 3 + Len(name)
  <2>3. Holds(e, 1, <<Len(e)>>)
    <3>1. Holds(e, 1, w)
      BY <1>2, <1>5, <1>6, <1>7, <1>8, HoldsItself DEF IsChain
    <3>2. n = Len(e)
      BY <1>1, <1>9, <2>2
    <3>. QED  BY <2>2, <3>1, <3>2, Zenon
  <2>4. Holds(e, 2, h) /\ Holds(e, 3, u) /\ Holds(e, 5, name) /\ Holds(e, at, l)
    <3>1. Len(w) + 1 = 2 /\ Len(p) + 1 = 3 /\ Len(q) + 1 = 5 /\ Len(r) + 1 = at
      BY <1>1, <1>9, <2>2
    <3>. HIDE DEF at
    <3>2. Holds(p, 2, h) /\ Holds(q, 3, u) /\ Holds(r, 5, name) /\ Holds(e, at, l)
      BY <1>5, <1>6, <1>7, <1>8, <3>1, Zenon DEF IsChain
    <3>. QED  BY <1>1, <1>3, <1>5, <1>6, <1>7, <1>8, <3>2 DEF IsChain
  <2>5. e[1] = Len(e) /\ ParseMessage(e) = DecodeSubscribe(b)
    <3>1. Len(h) >= 1 /\ h[1] = SUBSCRIBE
      BY <1>3 DEF h
    <3>. QED  BY <1>8, <1>10, <2>3, <2>4, <3>1, Opened, Picks, Zenon
  <2>6. Holds(b, 1, u) /\ Holds(b, 3, name) /\ Holds(b, last, l) /\ Len(b) = last
    <3>1. last \in Nat /\ at \in Nat /\ at = 2 + last /\ last >= 1 /\ Len(e) - 2 = last
      BY <1>1, <1>9, <2>2
    <3>. HIDE DEF at, last
    <3>2. Holds(b, 1, u) /\ Len(b) = Len(e) - 2
      BY <1>8, <2>4, InBody
    <3>3. Holds(b, 3, name)
      BY <1>8, <2>4, InBody
    <3>4. Holds(b, last, l)
      BY <1>8, <2>4, <3>1, InBody, Zenon
    <3>. QED  BY <3>1, <3>2, <3>3, <3>4, Zenon
  <2>. HIDE DEF b
  <2>7. SubSeq(b, 3, Len(b) - 1) = name /\ ~(Len(b) < 4) /\ b[Len(b)] = m.qos
    <3>1. Len(b) - 1 = 3 + Len(name) - 1 /\ ~(Len(b) < 4)
      BY <1>1, <2>6
    <3>2. b[last] = l[1]
      <4>1. Len(l) >= 1
        BY <1>3
      <4>. QED  BY <2>6, <4>1, FirstByte, Zenon
    <3>3. b[Len(b)] = m.qos
      BY <2>6, <3>2 DEF l
    <3>. QED  BY <2>6, <3>1, <3>3, CutOut, Zenon
  <2>8. Number(b) = m.msgID
    <3>1. b[1] * Radix + b[1 + 1] = m.msgID
      BY <1>0, <2>6, NumberAt DEF u
    <3>. QED  BY <3>1 DEF Number
  <2>9. DecodeSubscribe(b) = [type |-> SUBSCRIBE, msgID |-> m.msgID, topicName |-> name, qos |-> m.qos]
    BY <2>7, <2>8, Zenon DEF DecodeSubscribe
  <2>. QED  BY <1>0, <2>5, <2>9, Zenon
<1>. QED  BY <1>4, <1>8, <1>10, <1>11, Zenon DEF Encoded

\* The messages with the short form only start with a length and a type.
LEMMA ShortOpened ==
  ASSUME NEW e \in Seq(Nat), Len(e) >= 3, NEW type, Holds(e, 1, <<Len(e), type>>)
  PROVE  e[1] = Len(e) /\ ParseMessage(e) = DecodeBody(type, SubSeq(e, 3, Len(e)))
<1>. DEFINE h == <<Len(e), type>>
<1>1. 1 \in 1 .. Len(h) /\ 2 \in 1 .. Len(h) /\ h[1] = Len(e) /\ h[2] = type /\ 1 = 1 + 1 - 1 /\ 2 = 1 + 2 - 1
  OBVIOUS
<1>. HIDE DEF h
<1>2. e[1 + 1 - 1] = h[1] /\ e[1 + 2 - 1] = h[2]
  BY <1>1, Zenon DEF Holds, h
<1>3. e[1] = Len(e) /\ e[2] = type
  BY <1>1, <1>2
<1>. QED  BY <1>3, Framed, Zenon

LEMMA ModRadix ==
  ASSUME NEW n \in Nat
  PROVE  n % Radix \in Nat /\ (n < Radix => n % Radix = n)
BY FramesAssumption

LEMMA LengthByte ==
  ASSUME NEW n \in Nat
  PROVE  <<n % Radix>> \in Seq(Nat) /\ Len(<<n % Radix>>) = 1 /\ (n < Radix => <<n % Radix>> = <<n>>)
<1>1. n % Radix \in Nat /\ (n < Radix => n % Radix = n)
  BY ModRadix
<1>. QED  BY <1>1

LEMMA FetchOK ==
  ASSUME NEW m \in [type : {FETCH}, id : Bytes \ {<<>>}]
  PROVE  Encoded(EncodeFetch(m), m)
<1>. DEFINE id == m.id
            n == 2 + Len(id)
            h == <<n % Radix, FETCH>>
            e == h \o id
            b == SubSeq(e, 3, Len(e))
<1>1. m = [type |-> FETCH, id |-> id] /\ id \in Seq(Nat) /\ Len(id) \in Nat /\ Len(id) >= 1 /\ n \in Nat
  BY Plain
<1>2. h \in Seq(Nat) /\ Len(h) = 2 /\ (n < Radix => h = <<n, FETCH>>)
  BY <1>1, ModRadix DEF FETCH
<1>3. EncodeFetch(m) = e
  BY DEF EncodeFetch
<1>. HIDE DEF id, h
<1>4. IsChain(e, h, id) /\ e \in Seq(Nat)
  BY <1>1, <1>2, Chain, Zenon DEF IsChain
<1>. HIDE DEF e
<1>5. Len(e) = n /\ Len(e) >= 3
  BY <1>1, <1>2, <1>4 DEF IsChain
<1>6. ASSUME Len(e) < Radix PROVE e[1] = Len(e) /\ ParseMessage(e) = m
  <2>1. Holds(e, 1, <<Len(e), FETCH>>)
    BY <1>2, <1>4, <1>5, <1>6, HoldsItself, Zenon DEF IsChain
  <2>2. e[1] = Len(e) /\ ParseMessage(e) = DecodeFetch(b)
    BY <1>4, <1>5, <2>1, ShortOpened, Picks, Zenon
  <2>3. b = id
    <3>1. Holds(e, 3, id)
      BY <1>2, <1>4 DEF IsChain
    <3>2. Len(e) = 3 + Len(id) - 1
      BY <1>1, <1>5
    <3>. QED  BY <3>1, <3>2, CutOut, Zenon
  <2>. HIDE DEF b
  <2>4. ~(Len(b) < 1)
    BY <1>1, <2>3
  <2>. QED  BY <1>1, <2>2, <2>3, <2>4, Zenon DEF DecodeFetch
<1>. QED  BY <1>3, <1>4, <1>5, <1>6, Zenon DEF Encoded

LEMMA StatusOK ==
  ASSUME NEW m \in [type : {STATUS}, id : Bytes \ {<<>>}, state : Byte]
  PROVE  Encoded(EncodeStatus(m), m)
<1>. DEFINE id == m.id
            n == 3 + Len(id)
            h == <<n % Radix, STATUS>>
            l == <<m.state>>
            p == h \o id
            e == p \o l
            b == SubSeq(e, 3, Len(e))
<1>1. /\ m = [type |-> STATUS, id |-> id, state |-> m.state]
      /\ id \in Seq(Nat) /\ Len(id) \in Nat /\ Len(id) >= 1 /\ n \in Nat
  BY Plain
<1>2. h \in Seq(Nat) /\ Len(h) = 2 /\ (n < Radix => h = <<n, STATUS>>)
  BY <1>1, ModRadix DEF STATUS
<1>3. l \in Seq(Nat) /\ Len(l) = 1 /\ l[1] = m.state
  <2>1. m.state \in Nat
    BY Plain, Zenon
  <2>. QED  BY <2>1
<1>4. EncodeStatus(m) = e
  BY DEF EncodeStatus
<1>. HIDE DEF id, h, l
<1>5. IsChain(p, h, id) /\ p \in Seq(Nat)
  BY <1>1, <1>2, Chain, Zenon DEF IsChain
<1>. HIDE DEF p
<1>6. IsChain(e, p, l) /\ e \in Seq(Nat)
  BY <1>3, <1>5, Chain, Zenon DEF IsChain
<1>. HIDE DEF e
<1>7. Len(p) = 2 + Len(id) /\ Len(e) = n /\ Len(e) >= 3
  BY <1>1, <1>2, <1>3, <1>5, <1>6 DEF IsChain
<1>8. ASSUME Len(e) < Radix PROVE e[1] = Len(e) /\ ParseMessage(e) = m
  <2>. DEFINE last == 1 + Len(id)
  <2>1. Holds(e, 1, <<Len(e), STATUS>>)
    BY <1>2, <1>5, <1>6, <1>7, <1>8, HoldsItself, Zenon DEF IsChain
  <2>2. e[1] = Len(e) /\ ParseMessage(e) = DecodeStatus(b)
    BY <1>6, <1>7, <2>1, ShortOpened, Picks, Zenon
  <2>3. Holds(b, 1, id) /\ Holds(b, last, l) /\ Len(b) = last
    <3>1. last \in Nat /\ n = 2 + last /\ last >= 1 /\ Len(e) - 2 = last /\ Len(p) + 1 = n
      BY <1>1, <1>7
    <3>2. Holds(e, 3, id) /\ Holds(e, n, l)
      <4>1. Holds(p, 3, id)
        BY <1>2, <1>5 DEF IsChain
      <4>. HIDE DEF n
      <4>. QED  BY <1>1, <1>6, <3>1, <4>1 DEF IsChain
    <3>3. Holds(b, 1, id) /\ Len(b) = Len(e) - 2
      BY <1>6, <3>2, InBody
    <3>. HIDE DEF n, last
    <3>4. Holds(b, last, l)
      BY <1>1, <1>6, <3>1, <3>2, InBody, Zenon
    <3>. QED  BY <3>1, <3>3, <3>4, Zenon
  <2>. HIDE DEF b
  <2>4. SubSeq(b, 1, Len(b) - 1) = id /\ ~(Len(b) < 2)
    <3>1. Len(b) - 1 = 1 + Len(id) - 1 /\ ~(Len(b) < 2)
      BY <1>1, <2>3
    <3>. QED  BY <2>3, <3>1, CutOut, Zenon
  <2>5. b[Len(b)] = m.state
    <3>1. Len(l) >= 1
      BY <1>3
    <3>2. b[last] = l[1]
      BY <2>3, <3>1, FirstByte, Zenon
    <3>. QED  BY <1>3, <2>3, <3>2, Zenon
  <2>. QED  BY <1>1, <2>2, <2>4, <2>5, Zenon DEF DecodeStatus
<1>. QED  BY <1>4, <1>6, <1>7, <1>8, Zenon DEF Encoded

\* Two identifiers, each after its length.
Identified(s, id, cmdID) ==
  /\ Holds(s, 1, <<Len(id)>>) /\ Holds(s, 2, id)
  /\ Holds(s, 2 + Len(id), <<Len(cmdID)>>) /\ Holds(s, 3 + Len(id), cmdID)

LEMMA IdentifiersOK ==
  ASSUME NEW m, m.id \in Seq(Nat), m.cmdID \in Seq(Nat)
  PROVE  /\ Identifiers(m) \in Seq(Nat) /\ Len(Identifiers(m)) = 2 + Len(m.id) + Len(m.cmdID)
         /\ Len(m.id) < Radix /\ Len(m.cmdID) < Radix => Identified(Identifiers(m), m.id, m.cmdID)
<1>. DEFINE id == m.id
            cmdID == m.cmdID
            a == <<Len(id) % Radix>>
            c == <<Len(cmdID) % Radix>>
            p == a \o id
            q == p \o c
            e == q \o cmdID
<1>1. id \in Seq(Nat) /\ cmdID \in Seq(Nat) /\ Len(id) \in Nat /\ Len(cmdID) \in Nat
  OBVIOUS
<1>2. a \in Seq(Nat) /\ Len(a) = 1 /\ (Len(id) < Radix => a = <<Len(id)>>)
  BY <1>1, LengthByte, Zenon
<1>3. c \in Seq(Nat) /\ Len(c) = 1 /\ (Len(cmdID) < Radix => c = <<Len(cmdID)>>)
  BY <1>1, LengthByte, Zenon
<1>4. Identifiers(m) = e
  BY DEF Identifiers
<1>. HIDE DEF id, cmdID, a, c
<1>5. IsChain(p, a, id) /\ p \in Seq(Nat)
  BY <1>1, <1>2, Chain, Zenon DEF IsChain
<1>. HIDE DEF p
<1>6. IsChain(q, p, c) /\ q \in Seq(Nat)
  BY <1>3, <1>5, Chain, Zenon DEF IsChain
<1>. HIDE DEF q
<1>7. IsChain(e, q, cmdID) /\ e \in Seq(Nat)
  BY <1>1, <1>6, Chain, Zenon DEF IsChain
<1>. HIDE DEF e
<1>8. Len(p) = 1 + Len(id) /\ Len(q) = 2 + Len(id) /\ Len(e) = 2 + Len(id) + Len(cmdID)
  BY <1>1, <1>2, <1>3, <1>5, <1>6, <1>7 DEF IsChain
<1>9. ASSUME Len(id) < Radix, Len(cmdID) < Radix PROVE Identified(e, id, cmdID)
  <2>. DEFINE x == 2 + Len(id)
              y == 3 + Len(id)
  <2>1. x \in Nat /\ Len(a) + 1 = 2 /\ Len(p) + 1 = x /\ Len(q) + 1 = y
    BY <1>1, <1>2, <1>8
  <2>. HIDE DEF x, y
  <2>2. Holds(a, 1, a) /\ Holds(p, 2, id) /\ Holds(q, x, c) /\ Holds(e, y, cmdID)
    BY <1>2, <1>5, <1>6, <1>7, <2>1, HoldsItself, Zenon DEF IsChain
  <2>3. Holds(e, 1, a) /\ Holds(e, 2, id) /\ Holds(e, x, c)
    BY <1>1, <1>2, <1>3, <1>5, <1>6, <1>7, <2>1, <2>2 DEF IsChain
  <2>. QED  BY <1>2, <1>3, <1>9, <2>2, <2>3, Zenon DEF Identified, x, y
<1>. QED  BY <1>4, <1>7, <1>8, <1>9, Zenon DEF id, cmdID

\* Where the decoders of the commands find the identifiers.
LEMMA IdentifiersRead ==
  ASSUME NEW b, NEW s, NEW id \in Seq(Nat), NEW cmdID \in Seq(Nat), Holds(b, 1, s), Identified(s, id, cmdID)
  PROVE  /\ b[1] = Len(id) /\ Second(b) = 3 + Len(id) /\ EndOf(b) = 2 + Len(id) + Len(cmdID)
         /\ SubSeq(b, 2, 1 + b[1]) = id /\ SubSeq(b, Second(b), EndOf(b)) = cmdID
<1>. DEFINE x == 2 + Len(id)
            y == 3 + Len(id)
<1>1. /\ x \in Nat /\ y \in Nat /\ 1 = 1 + 1 - 1 /\ 2 = 1 + 2 - 1 /\ x = 1 + x - 1 /\ y = 1 + y - 1
      /\ Len(id) \in Nat /\ Len(cmdID) \in Nat
  OBVIOUS
<1>2. Holds(s, 1, <<Len(id)>>) /\ Holds(s, 2, id) /\ Holds(s, x, <<Len(cmdID)>>) /\ Holds(s, y, cmdID)
  BY Zenon DEF Identified
<1>. HIDE DEF x, y
<1>3. Holds(b, 1, <<Len(id)>>) /\ Holds(b, 2, id) /\ Holds(b, x, <<Len(cmdID)>>) /\ Holds(b, y, cmdID)
  BY <1>1, <1>2, Nested, Zenon
<1>4. b[1] = Len(id) /\ b[x] = Len(cmdID)
  <2>1. \A n \in Nat : Len(<<n>>) >= 1 /\ <<n>>[1] = n
    OBVIOUS
  <2>2. b[1] = <<Len(id)>>[1] /\ b[x] = <<Len(cmdID)>>[1]
    BY <1>1, <1>3, <2>1, FirstByte, ZenonT(30)
  <2>. QED  BY <1>1, <2>1, <2>2, Zenon
<1>5. Second(b) = y
  BY <1>4 DEF Second, y
<1>6. EndOf(b) = 2 + Len(id) + Len(cmdID)
  <2>1. b[2 + b[1]] = Len(cmdID)
    BY <1>4 DEF x
  <2>. QED  BY <1>1, <1>5, <2>1 DEF EndOf, y
<1>7. 1 + b[1] = 2 + Len(id) - 1 /\ EndOf(b) = y + Len(cmdID) - 1
  BY <1>1, <1>4, <1>6 DEF y
<1>8. SubSeq(b, 2, 1 + b[1]) = id
  BY <1>3, <1>7, CutOut, Zenon
<1>9. SubSeq(b, y, EndOf(b)) = cmdID
  BY <1>3, <1>7, CutOut, Zenon
<1>. QED  BY <1>4, <1>5, <1>6, <1>8, <1>9, Zenon DEF y

LEMMA CmdOK ==
  ASSUME NEW m \in [type : {CMD}, id : Bytes, cmdID : Bytes, cmdType : Byte, payload : Bytes]
  PROVE  Encoded(EncodeCmd(m), m)
<1>. DEFINE id == m.id
            cmdID == m.cmdID
            load == m.payload
            n == 5 + Len(id) + Len(cmdID) + Len(load)
            h == <<n % Radix, CMD>>
            s == Identifiers(m)
            c == <<m.cmdType>>
            p == h \o s
            q == p \o c
            e == q \o load
            b == SubSeq(e, 3, Len(e))
<1>0. /\ m = [type |-> CMD, id |-> id, cmdID |-> cmdID, cmdType |-> m.cmdType, payload |-> load]
      /\ id \in Seq(Nat) /\ cmdID \in Seq(Nat) /\ load \in Seq(Nat) /\ m.cmdType \in Nat
  BY Plain, Zenon
<1>1. Len(id) \in Nat /\ Len(cmdID) \in Nat /\ Len(load) \in Nat /\ n \in Nat
  BY <1>0
<1>2. h \in Seq(Nat) /\ Len(h) = 2 /\ (n < Radix => h = <<n, CMD>>)
  BY <1>1, ModRadix DEF CMD
<1>3. /\ s \in Seq(Nat) /\ Len(s) = 2 + Len(id) + Len(cmdID)
      /\ Len(id) < Radix /\ Len(cmdID) < Radix => Identified(s, id, cmdID)
  BY <1>0, IdentifiersOK, Zenon
<1>4. c \in Seq(Nat) /\ Len(c) = 1 /\ c[1] = m.cmdType
  BY <1>0
<1>5. EncodeCmd(m) = e
  BY DEF EncodeCmd
<1>. HIDE DEF id, cmdID, load, h, s, c
<1>6. IsChain(p, h, s) /\ p \in Seq(Nat)
  BY <1>2, <1>3, Chain, Zenon DEF IsChain
<1>. HIDE DEF p
<1>7. IsChain(q, p, c) /\ q \in Seq(Nat)
  BY <1>4, <1>6, Chain, Zenon DEF IsChain
<1>. HIDE DEF q
<1>8. IsChain(e, q, load) /\ e \in Seq(Nat)
  BY <1>0, <1>7, Chain, Zenon DEF IsChain
<1>. HIDE DEF e
<1>9. /\ Len(p) = 4 + Len(id) + Len(cmdID) /\ Len(q) = 5 + Len(id) + Len(cmdID)
      /\ Len(e) = n /\ Len(e) >= 3
  BY <1>1, <1>2, <1>3, <1>4, <1>6, <1>7, <1>8 DEF IsChain
<1>10. ASSUME Len(e) < Radix PROVE e[1] = Len(e) /\ ParseMessage(e) = m
  <2>. DEFINE x == 3 + Len(id) + Len(cmdID)
              y == 4 + Len(id) + Len(cmdID)
              z == 5 + Len(id) + Len(cmdID)
              zz == 6 + Len(id) + Len(cmdID)
  <2>1. Holds(e, 1, <<Len(e), CMD>>)
    BY <1>2, <1>6, <1>7, <1>8, <1>9, <1>10, HoldsItself, Zenon DEF IsChain
  <2>2. e[1] = Len(e) /\ ParseMessage(e) = DecodeCmd(b)
    BY <1>8, <1>9, <2>1, ShortOpened, Picks, Zenon
  <2>3. /\ x \in Nat /\ y \in Nat /\ z \in Nat /\ zz \in Nat /\ z = 2 + x /\ zz = 2 + y /\ x >= 1 /\ y >= 1
        /\ Len(p) + 1 = z /\ Len(q) + 1 = zz
    BY <1>1, <1>9
  <2>4. Holds(b, 1, s) /\ Holds(b, x, c) /\ Holds(b, y, load) /\ Len(b) = Len(e) - 2
    <3>. HIDE DEF x, y, z, zz, b
    <3>1. Holds(p, 3, s) /\ Holds(q, z, c) /\ Holds(e, zz, load)
      <4>1. Len(h) + 1 = 3
        BY <1>2
      <4>. QED  BY <1>6, <1>7, <1>8, <2>3, <4>1, Zenon DEF IsChain
    <3>2. Holds(e, 3, s) /\ Holds(e, z, c)
      BY <1>3, <1>4, <1>7, <1>8, <2>3, <3>1 DEF IsChain
    <3>3. Holds(b, 1, s) /\ Len(b) = Len(e) - 2
      BY <1>8, <3>2, InBody DEF b
    <3>4. Holds(b, x, c)
      BY <1>8, <2>3, <3>2, InBody, Zenon DEF b
    <3>5. Holds(b, y, load)
      BY <1>8, <2>3, <3>1, InBody, Zenon DEF b
    <3>. QED  BY <3>3, <3>4, <3>5, Zenon
  <2>. HIDE DEF b
  <2>5. Len(b) = 3 + Len(id) + Len(cmdID) + Len(load) /\ Len(id) < Radix /\ Len(cmdID) < Radix
    BY <1>1, <1>9, <1>10, <2>4, FramesAssumption
  <2>6. /\ b[1] = Len(id) /\ EndOf(b) = 2 + Len(id) + Len(cmdID)
        /\ SubSeq(b, 2, 1 + b[1]) = id /\ SubSeq(b, Second(b), EndOf(b)) = cmdID
    BY <1>0, <1>3, <2>4, <2>5, IdentifiersRead, Zenon DEF id, cmdID
  <2>7. EndOf(b) + 1 = x /\ EndOf(b) + 2 = y /\ Len(b) = y + Len(load) - 1
    BY <1>1, <2>5, <2>6
  <2>8. ~(Len(b) < 3 \/ Len(b) < 3 + b[1] \/ Len(b) < EndOf(b) + 1)
    BY <1>1, <2>5, <2>6
  <2>. HIDE DEF x, y
  <2>9. b[EndOf(b) + 1] = m.cmdType
    <3>1. Len(c) >= 1
      BY <1>4
    <3>2. b[x] = c[1]
      BY <2>4, <3>1, FirstByte, Zenon
    <3>. QED  BY <1>4, <2>7, <3>2, Zenon
  <2>10. SubSeq(b, EndOf(b) + 2, Len(b)) = load
    BY <2>4, <2>7, CutOut, Zenon
  <2>11. DecodeCmd(b) = [type |-> CMD, id |-> id, cmdID |-> cmdID, cmdType |-> m.cmdType, payload |-> load]
    BY <2>6, <2>8, <2>9, <2>10, Zenon DEF DecodeCmd
  <2>. QED  BY <1>0, <2>2, <2>11, Zenon
<1>. QED  BY <1>5, <1>8, <1>9, <1>10, Zenon DEF Encoded

LEMMA CmdAckOK ==
  ASSUME NEW m \in [type : {CMDACK}, id : Bytes \ {<<>>}, cmdID : Bytes, code : Byte, state : Byte]
  PROVE  Encoded(EncodeCmdAck(m), m)
<1>. DEFINE id == m.id
            cmdID == m.cmdID
            n == 6 + Len(id) + Len(cmdID)
            h == <<n % Radix, CMDACK>>
            s == Identifiers(m)
            c == <<m.code, m.state>>
            p == h \o s
            e == p \o c
            b == SubSeq(e, 3, Len(e))
<1>0. /\ m = [type |-> CMDACK, id |-> id, cmdID |-> cmdID, code |-> m.code, state |-> m.state]
      /\ id \in Seq(Nat) /\ id # <<>> /\ cmdID \in Seq(Nat) /\ m.code \in Nat /\ m.state \in Nat
  BY Plain, Zenon
<1>1. Len(id) \in Nat /\ Len(id) >= 1 /\ Len(cmdID) \in Nat /\ n \in Nat
  BY <1>0
<1>2. h \in Seq(Nat) /\ Len(h) = 2 /\ (n < Radix => h = <<n, CMDACK>>)
  BY <1>1, ModRadix DEF CMDACK
<1>3. /\ s \in Seq(Nat) /\ Len(s) = 2 + Len(id) + Len(cmdID)
      /\ Len(id) < Radix /\ Len(cmdID) < Radix => Identified(s, id, cmdID)
  BY <1>0, IdentifiersOK, Zenon
<1>4. c \in Seq(Nat) /\ Len(c) = 2 /\ c[1] = m.code /\ c[2] = m.state
  BY <1>0
<1>5. EncodeCmdAck(m) = e
  BY DEF EncodeCmdAck
<1>. HIDE DEF id, cmdID, h, s, c
<1>6. IsChain(p, h, s) /\ p \in Seq(Nat)
  BY <1>2, <1>3, Chain, Zenon DEF IsChain
<1>. HIDE DEF p
<1>7. IsChain(e, p, c) /\ e \in Seq(Nat)
  BY <1>4, <1>6, Chain, Zenon DEF IsChain
<1>. HIDE DEF e
<1>8. Len(p) = 4 + Len(id) + Len(cmdID) /\ Len(e) = n /\ Len(e) >= 3
  BY <1>1, <1>2, <1>3, <1>4, <1>6, <1>7 DEF IsChain
<1>9. ASSUME Len(e) < Radix PROVE e[1] = Len(e) /\ ParseMessage(e) = m
  <2>. DEFINE x == 3 + Len(id) + Len(cmdID)
              z == 5 + Len(id) + Len(cmdID)
  <2>1. Holds(e, 1, <<Len(e), CMDACK>>)
    BY <1>2, <1>6, <1>7, <1>8, <1>9, HoldsItself, Zenon DEF IsChain
  <2>2. e[1] = Len(e) /\ ParseMessage(e) = DecodeCmdAck(b)
    BY <1>7, <1>8, <2>1, ShortOpened, Picks, Zenon
  <2>3. x \in Nat /\ z \in Nat /\ z = 2 + x /\ x >= 1 /\ Len(p) + 1 = z
    BY <1>1, <1>8
  <2>4. Holds(b, 1, s) /\ Holds(b, x, c) /\ Len(b) = Len(e) - 2
    <3>. HIDE DEF x, z, b
    <3>1. Holds(p, 3, s) /\ Holds(e, z, c)
      <4>1. Len(h) + 1 = 3
        BY <1>2
      <4>. QED  BY <1>6, <1>7, <2>3, <4>1, Zenon DEF IsChain
    <3>2. Holds(e, 3, s)
      BY <1>3, <1>7, <3>1 DEF IsChain
    <3>3. Holds(b, 1, s) /\ Len(b) = Len(e) - 2
      BY <1>7, <3>2, InBody DEF b
    <3>4. Holds(b, x, c)
      BY <1>7, <2>3, <3>1, InBody, Zenon DEF b
    <3>. QED  BY <3>3, <3>4, Zenon
  <2>. HIDE DEF b
  <2>5. Len(b) = 4 + Len(id) + Len(cmdID) /\ Len(id) < Radix /\ Len(cmdID) < Radix
    BY <1>1, <1>8, <1>9, <2>4, FramesAssumption
  <2>6. /\ b[1] = Len(id) /\ EndOf(b) = 2 + Len(id) + Len(cmdID)
        /\ SubSeq(b, 2, 1 + b[1]) = id /\ SubSeq(b, Second(b), EndOf(b)) = cmdID
    BY <1>0, <1>3, <2>4, <2>5, IdentifiersRead, ZenonT(30) DEF id, cmdID
  <2>7. EndOf(b) + 1 = x /\ EndOf(b) + 2 = x + 2 - 1 /\ x = x + 1 - 1
    BY <1>1, <2>6
  <2>8. ~(Len(b) < 5 \/ Len(b) < 4 + b[1] \/ Len(b) < EndOf(b) + 2)
    BY <1>1, <2>5, <2>6
  <2>. HIDE DEF x
  <2>9. b[EndOf(b) + 1] = m.code /\ b[EndOf(b) + 2] = m.state
    <3>1. 1 \in 1 .. Len(c) /\ 2 \in 1 .. Len(c)
      BY <1>4
    <3>2. b[x + 1 - 1] = c[1] /\ b[x + 2 - 1] = c[2]
      BY <2>4, <3>1, Zenon DEF Holds
    <3>. QED  BY <1>4, <2>7, <3>2, Zenon
  <2>10. DecodeCmdAck(b) = [type |-> CMDACK, id |-> id, cmdID |-> cmdID, code |-> m.code, state |-> m.state]
    BY <2>6, <2>8, <2>9, Zenon DEF DecodeCmdAck
  <2>. QED  BY <1>0, <2>2, <2>10, Zenon
<1>. QED  BY <1>5, <1>7, <1>8, <1>9, Zenon DEF Encoded

\* Every message that fits a frame survives it.
LEMMA MessageOK ==
  ASSUME NEW m \in Packet
  PROVE  Encoded(Encode(m), m)
<1>. USE DEF CONNECT, PUBLISH, SUBSCRIBE, STATUS, FETCH, CMD, CMDACK
<1>1. CASE m \in [type : {CONNECT}, id : Bytes]
  <2>1. m.type = CONNECT
    BY <1>1
  <2>2. Encode(m) = EncodeConnect(m)
    BY <2>1 DEF Encode
  <2>. QED  BY <1>1, <2>2, ConnectOK, Zenon
<1>2. CASE m \in [type : {PUBLISH}, topic : Numbers16, msgID : Numbers16, values : Seq(Bytes)]
  <2>1. m.type = PUBLISH
    BY <1>2
  <2>2. Encode(m) = EncodePublish(m)
    BY <2>1 DEF Encode
  <2>. QED  BY <1>2, <2>2, PublishOK, Zenon
<1>3. CASE m \in [type : {SUBSCRIBE}, msgID : Numbers16, topicName : Bytes \ {<<>>}, qos : Byte]
  <2>1. m.type = SUBSCRIBE
    BY <1>3
  <2>2. Encode(m) = EncodeSubscribe(m)
    BY <2>1 DEF Encode
  <2>. QED  BY <1>3, <2>2, SubscribeOK, Zenon
<1>4. CASE m \in [type : {STATUS}, id : Bytes \ {<<>>}, state : Byte]
  <2>1. m.type = STATUS
    BY <1>4
  <2>2. Encode(m) = EncodeStatus(m)
    BY <2>1 DEF Encode
  <2>. QED  BY <1>4, <2>2, StatusOK, Zenon
<1>5. CASE m \in [type : {FETCH}, id : Bytes \ {<<>>}]
  <2>1. m.type = FETCH
    BY <1>5
  <2>2. Encode(m) = EncodeFetch(m)
    BY <2>1 DEF Encode
  <2>. QED  BY <1>5, <2>2, FetchOK, Zenon
<1>6. CASE m \in [type : {CMD}, id : Bytes, cmdID : Bytes, cmdType : Byte, payload : Bytes]
  <2>1. m.type = CMD
    BY <1>6
  <2>2. Encode(m) = EncodeCmd(m)
    BY <2>1 DEF Encode
  <2>. QED  BY <1>6, <2>2, CmdOK, Zenon
<1>7. CASE m \in [type : {CMDACK}, id : Bytes \ {<<>>}, cmdID : Bytes, code : Byte, state : Byte]
  <2>1. m.type = CMDACK
    BY <1>7
  <2>2. Encode(m) = EncodeCmdAck(m)
    BY <2>1 DEF Encode
  <2>. QED  BY <1>7, <2>2, CmdAckOK, Zenon
<1>. QED  BY <1>1, <1>2, <1>3, <1>4, <1>5, <1>6, <1>7, Zenon DEF Packet

-----------------------------------------------------------------------------
(* The stream *)

AllFit == \A i \in DOMAIN written : Fits(written[i])

\* cut[j] bytes are written with the first j of the messages.
Cuts(cut, msgs) ==
  /\ cut \in [0 .. Len(msgs) -> Nat]
  /\ \A j \in 1 .. Len(msgs) : cut[j] = cut[j - 1] + Len(Encode(msgs[j]))
  /\ \A j, k \in 0 .. Len(msgs) : j <= k => cut[j] <= cut[k]

\* The frames not read yet stand on the wire, one after the other.
InStep ==
  \E cut \in [0 .. Len(written) -> Nat] :
    /\ Cuts(cut, written)
    /\ cut[Len(written)] = cut[Len(readOut)] + Len(wire)
    /\ \A j \in Len(readOut) + 1 .. Len(written) :
         Holds(wire, cut[j - 1] - cut[Len(readOut)] + 1, Encode(written[j]))

ReadSoFar ==
  /\ readOut \in Seq(FrameMsg) /\ Len(readOut) <= Len(written)
  /\ \A i \in 1 .. Len(readOut) : readOut[i] = written[i]

\* The inductive invariant of the stream.
FrameInv ==
  /\ written \in Seq(FrameMsg)
  /\ AllFit => ~ended /\ wire \in Seq(Nat) /\ ReadSoFar /\ InStep

LEMMA FrameInitOK == FrameInit => FrameInv
<1>. SUFFICES ASSUME FrameInit PROVE FrameInv
  OBVIOUS
<1>1. wire = <<>> /\ written = <<>> /\ readOut = <<>> /\ ended = FALSE
  BY DEF FrameInit
<1>2. wire \in Seq(Nat) /\ written \in Seq(FrameMsg) /\ ReadSoFar
  BY <1>1 DEF ReadSoFar
<1>3. InStep
  <2>. DEFINE cut == [j \in 0 .. 0 |-> 0]
  <2>1. cut \in [0 .. Len(written) -> Nat] /\ Len(written) = 0 /\ Len(readOut) = 0 /\ Len(wire) = 0
    BY <1>1
  <2>2. Cuts(cut, written)
    BY <2>1 DEF Cuts
  <2>3. cut[Len(written)] = cut[Len(readOut)] + Len(wire)
    BY <2>1
  <2>4. \A j \in Len(readOut) + 1 .. Len(written) : FALSE
    BY <2>1
  <2>. HIDE DEF cut
  <2>. QED  BY <2>1, <2>2, <2>3, <2>4, Zenon DEF InStep
<1>. QED  BY <1>1, <1>2, <1>3 DEF FrameInv

\* The frame of a message that fits.
LEMMA FrameOK ==
  ASSUME NEW m \in FrameMsg
  PROVE  /\ Encode(m) \in Seq(Nat) /\ Len(Encode(m)) \in Nat /\ Len(Encode(m)) >= 3
         /\ Fits(m) => Encode(m)[1] = Len(Encode(m)) /\ ParseMessage(Encode(m)) = m
<1>1. Encoded(Encode(m), m)
  BY FramesAssumption, MessageOK, Zenon
<1>. QED  BY <1>1 DEF Encoded, Fits

\* A frame written goes behind the others.
LEMMA WriteOK ==
  ASSUME FrameInv, NEW m \in FrameMsg, WriteFrame(m)
  PROVE  FrameInv'
<1>. DEFINE e == Encode(m)
            N == Len(written)
            r == Len(readOut)
<1>1. /\ written \in Seq(FrameMsg) /\ written' = Append(written, m) /\ wire' = wire \o e
      /\ readOut' = readOut /\ ended' = ended
  BY DEF FrameInv, WriteFrame
<1>2. /\ written' \in Seq(FrameMsg) /\ Len(written') = N + 1 /\ N \in Nat
      /\ (\A i \in 1 .. N : written'[i] = written[i]) /\ written'[N + 1] = m
  BY <1>1
<1>3. ASSUME AllFit' PROVE AllFit
  BY <1>1, <1>2, <1>3 DEF AllFit
<1>4. ASSUME AllFit PROVE wire' \in Seq(Nat) /\ ReadSoFar' /\ InStep' /\ ~ended'
  <2>1. ~ended /\ wire \in Seq(Nat) /\ ReadSoFar /\ InStep
    BY <1>4 DEF FrameInv
  <2>2. e \in Seq(Nat) /\ Len(e) \in Nat
    BY FrameOK
  <2>. HIDE DEF e
  <2>3. IsChain(wire', wire, e) /\ wire' \in Seq(Nat)
    BY <1>1, <2>1, <2>2, Chain, Zenon DEF IsChain
  <2>4. readOut \in Seq(FrameMsg) /\ r \in Nat /\ r <= N
    BY <2>1 DEF ReadSoFar
  <2>5. ReadSoFar'
    <3>1. \A i \in 1 .. r : i \in 1 .. N
      BY <1>2, <2>4
    <3>2. \A i \in 1 .. r : readOut'[i] = written'[i]
      BY <1>1, <1>2, <2>1, <3>1 DEF ReadSoFar
    <3>. QED  BY <1>1, <1>2, <2>4, <3>2 DEF ReadSoFar
  <2>6. PICK cut \in [0 .. N -> Nat] :
          /\ Cuts(cut, written) /\ cut[N] = cut[r] + Len(wire)
          /\ \A j \in r + 1 .. N : Holds(wire, cut[j - 1] - cut[r] + 1, Encode(written[j]))
    BY <2>1, Zenon DEF InStep
  <2>. HIDE DEF e
  <2>7. PICK new \in [0 .. N + 1 -> Nat] :
          new[N + 1] = cut[N] + Len(e) /\ \A j \in 0 .. N : new[j] = cut[j]
    <3>. DEFINE f == [j \in 0 .. N + 1 |-> IF j = N + 1 THEN cut[N] + Len(e) ELSE cut[j]]
    <3>1. N \in 0 .. N /\ N + 1 \in 0 .. N + 1 /\ \A j \in 0 .. N : j \in 0 .. N + 1 /\ j # N + 1
      BY <1>2
    <3>2. \A j \in 0 .. N + 1 : j = N + 1 \/ j \in 0 .. N
      BY <1>2
    <3>3. cut[N] + Len(e) \in Nat
      <4>1. cut[N] \in Nat
        BY <3>1
      <4>. QED  BY <2>2, <4>1
    <3>4. f \in [0 .. N + 1 -> Nat]
      BY <3>2, <3>3
    <3>5. f[N + 1] = cut[N] + Len(e) /\ \A j \in 0 .. N : f[j] = cut[j]
      BY <3>1
    <3>. QED  BY <3>4, <3>5, Zenon
  <2>8. \A j \in 1 .. N + 1 : new[j] = new[j - 1] + Len(Encode(written'[j]))
    <3>1. ASSUME NEW j \in 1 .. N PROVE new[j] = new[j - 1] + Len(Encode(written'[j]))
      <4>1. j \in 0 .. N /\ j - 1 \in 0 .. N
        BY <1>2
      <4>2. cut[j] = cut[j - 1] + Len(Encode(written[j]))
        BY <2>6, Zenon DEF Cuts
      <4>. QED  BY <1>2, <2>7, <4>1, <4>2, Zenon
    <3>2. new[N + 1] = new[(N + 1) - 1] + Len(Encode(written'[N + 1]))
      BY <1>2, <2>7 DEF e
    <3>. QED  BY <1>2, <3>1, <3>2
  <2>9. \A j, k \in 0 .. N + 1 : j <= k => new[j] <= new[k]
    <3>1. \A j, k \in 0 .. N : j <= k => cut[j] <= cut[k]
      BY <2>6, Zenon DEF Cuts
    <3>2. \A j \in 0 .. N : cut[j] \in Nat /\ cut[j] <= cut[N]
      <4>1. \A j \in 0 .. N : j <= N /\ N \in 0 .. N
        BY <1>2
      <4>. QED  BY <3>1, <4>1
    <3>3. ASSUME NEW j \in 0 .. N PROVE new[j] <= new[N + 1]
      <4>1. N \in 0 .. N
        BY <1>2
      <4>2. cut[j] \in Nat /\ cut[N] \in Nat /\ cut[j] <= cut[N] /\ new[j] = cut[j]
        BY <2>7, <3>2, <4>1
      <4>. QED  BY <2>2, <2>7, <4>2
    <3>4. ASSUME NEW j \in 0 .. N + 1, NEW k \in 0 .. N + 1, j <= k PROVE new[j] <= new[k]
      <4>1. CASE k \in 0 .. N
        BY <1>2, <2>7, <3>1, <3>4, <4>1
      <4>2. CASE k = N + 1
        BY <1>2, <2>7, <3>3, <4>2
      <4>. QED  BY <1>2, <4>1, <4>2
    <3>. QED  BY <3>4
  <2>10. Cuts(new, written')
    BY <1>2, <2>7, <2>8, <2>9, Zenon DEF Cuts
  <2>11. new[N + 1] = new[r] + Len(wire')
    <3>1. Len(wire') = Len(wire) + Len(e) /\ Len(wire) \in Nat /\ cut[r] \in Nat /\ cut[N] \in Nat /\ new[r] = cut[r]
      BY <1>2, <2>1, <2>3, <2>4, <2>6, <2>7 DEF IsChain
    <3>. QED  BY <2>2, <2>6, <2>7, <3>1
  <2>12. ASSUME NEW j \in r + 1 .. N + 1
         PROVE  Holds(wire', new[j - 1] - new[r] + 1, Encode(written'[j]))
    <3>1. j - 1 \in 0 .. N /\ r \in 0 .. N
      BY <1>2, <2>4
    <3>2. new[j - 1] = cut[j - 1] /\ new[r] = cut[r]
      BY <2>7, <3>1, Zenon
    <3>3. CASE j \in r + 1 .. N
      <4>1. Holds(wire, cut[j - 1] - cut[r] + 1, Encode(written[j])) /\ written'[j] = written[j]
        <5>1. j \in 1 .. N
          BY <1>2, <2>4, <3>3
        <5>. QED  BY <1>2, <2>6, <3>3, <5>1, Zenon
      <4>2. cut[j - 1] - cut[r] + 1 \in Nat /\ Encode(written[j]) \in Seq(Nat)
        BY <4>1, Zenon DEF Holds
      <4>. QED  BY <2>3, <3>2, <4>1, <4>2, Zenon DEF IsChain
    <3>4. CASE j = N + 1
      <4>1. j - 1 = N /\ cut[N] - cut[r] + 1 = Len(wire) + 1
        <5>1. cut[r] \in Nat /\ cut[N] \in Nat /\ Len(wire) \in Nat
          BY <1>2, <2>1, <2>6, <3>1
        <5>. QED  BY <1>2, <2>6, <3>4, <5>1
      <4>. QED  BY <1>2, <2>3, <3>2, <3>4, <4>1, Zenon DEF IsChain, e
    <3>. QED  BY <1>2, <2>4, <3>3, <3>4
  <2>13. InStep'
    <3>1. Len(written') = N + 1 /\ Len(readOut') = r
      BY <1>1, <1>2
    <3>2. /\ new \in [0 .. Len(written') -> Nat] /\ Cuts(new, written')
          /\ new[Len(written')] = new[Len(readOut')] + Len(wire')
          /\ \A j \in Len(readOut') + 1 .. Len(written') :
               Holds(wire', new[j - 1] - new[Len(readOut')] + 1, Encode(written'[j]))
      BY <2>7, <2>10, <2>11, <2>12, <3>1, Zenon
    <3>. QED  BY <3>2, Zenon DEF InStep
  <2>. QED  BY <1>1, <2>1, <2>3, <2>5, <2>13
<1>. QED  BY <1>2, <1>3, <1>4 DEF FrameInv

\* What the read loop finds when it is in step: nothing to read, and then it has
\* read everything, or the frame of the next message.
LEMMA NextFrame ==
  ASSUME FrameInv, AllFit, wire # <<>>
  PROVE  LET r == Len(readOut)
             e == Encode(written[r + 1])
         IN /\ r + 1 \in 1 .. Len(written) /\ Holds(wire, 1, e) /\ Len(e) \in Nat /\ Len(e) >= 3
            /\ ParseMessage(e) = written[r + 1]
            /\ FrameLength = Len(e) /\ LeastLength = 2
<1>. DEFINE N == Len(written)
            r == Len(readOut)
            e == Encode(written[r + 1])
<1>1. written \in Seq(FrameMsg) /\ wire \in Seq(Nat) /\ ReadSoFar /\ InStep
  BY DEF FrameInv
<1>2. N \in Nat /\ r \in Nat /\ r <= N /\ Len(wire) \in Nat /\ Len(wire) >= 1
  BY <1>1 DEF ReadSoFar
<1>3. PICK cut \in [0 .. N -> Nat] :
        /\ Cuts(cut, written) /\ cut[N] = cut[r] + Len(wire)
        /\ \A j \in r + 1 .. N : Holds(wire, cut[j - 1] - cut[r] + 1, Encode(written[j]))
  BY <1>1, Zenon DEF InStep
<1>4. r \in 0 .. N /\ cut[r] \in Nat
  BY <1>2
<1>5. r + 1 \in 1 .. N /\ r + 1 \in r + 1 .. N
  <2>1. r # N
    BY <1>2, <1>3, <1>4
  <2>. QED  BY <1>2, <2>1
<1>6. Holds(wire, 1, e)
  <2>1. cut[(r + 1) - 1] - cut[r] + 1 = 1
    BY <1>2, <1>4
  <2>. QED  BY <1>3, <1>5, <2>1, Zenon
<1>7. written[r + 1] \in FrameMsg /\ Fits(written[r + 1])
  BY <1>1, <1>5 DEF AllFit
<1>8. Len(e) \in Nat /\ Len(e) >= 3 /\ e[1] = Len(e) /\ ParseMessage(e) = written[r + 1]
  BY <1>7, FrameOK, Zenon
<1>. HIDE DEF e
<1>9. wire[1] = Len(e)
  <2>1. Len(e) >= 1
    BY <1>8
  <2>. QED  BY <1>6, <1>8, <2>1, FirstByte, Zenon
<1>10. FrameLength = Len(e) /\ LeastLength = 2
  <2>1. Len(e) \in Nat /\ Len(e) >= 3
    BY <1>8, Zenon
  <2>2. Len(e) # 1
    BY <2>1
  <2>. QED  BY <1>9, <2>2, Zenon DEF FrameLength, LeastLength
<1>. QED  BY <1>5, <1>6, <1>8, <1>10, Zenon DEF e

\* A frame read is the next one, all of it, and leaves the others in place.
LEMMA ReadOK ==
  ASSUME FrameInv, ReadFrame
  PROVE  FrameInv'
<1>. DEFINE N == Len(written)
            r == Len(readOut)
            e == Encode(written[r + 1])
            n == Len(e)
<1>1. /\ written' = written /\ ended' = ended /\ written \in Seq(FrameMsg) /\ wire # <<>>
      /\ readOut' = Append(readOut, ParseMessage(SubSeq(wire, 1, FrameLength)))
      /\ wire' = SubSeq(wire, FrameLength + 1, Len(wire))
  BY DEF FrameInv, ReadFrame, PrefixIsThere
<1>2. ASSUME AllFit PROVE ~ended' /\ wire' \in Seq(Nat) /\ ReadSoFar' /\ InStep'
  <2>1. ~ended /\ wire \in Seq(Nat) /\ ReadSoFar /\ InStep
    BY <1>2 DEF FrameInv
  <2>2. /\ r + 1 \in 1 .. N /\ Holds(wire, 1, e) /\ n \in Nat /\ n >= 3
        /\ ParseMessage(e) = written[r + 1] /\ FrameLength = n
    BY <1>1, <1>2, NextFrame, Zenon
  <2>. HIDE DEF e
  <2>3. SubSeq(wire, 1, n) = e
    <3>1. n = 1 + Len(e) - 1
      BY <2>2
    <3>. QED  BY <2>2, <3>1, CutOut, Zenon
  <2>4. readOut' = Append(readOut, written[r + 1]) /\ wire' = SubSeq(wire, n + 1, Len(wire))
    BY <1>1, <2>2, <2>3, Zenon
  <2>5. readOut \in Seq(FrameMsg) /\ r \in Nat /\ N \in Nat /\ written[r + 1] \in FrameMsg
    BY <1>1, <2>1, <2>2 DEF ReadSoFar
  <2>6. /\ readOut' \in Seq(FrameMsg) /\ Len(readOut') = r + 1
        /\ readOut'[r + 1] = written[r + 1] /\ \A i \in 1 .. r : readOut'[i] = readOut[i]
    BY <2>4, <2>5
  <2>7. ReadSoFar'
    <3>1. \A i \in 1 .. r + 1 : i \in 1 .. r \/ i = r + 1
      BY <2>5
    <3>2. \A i \in 1 .. r : readOut[i] = written[i]
      BY <2>1 DEF ReadSoFar
    <3>3. \A i \in 1 .. r + 1 : readOut'[i] = written[i]
      BY <2>6, <3>1, <3>2, Zenon
    <3>4. r + 1 <= N
      BY <2>2, <2>5
    <3>. QED  BY <1>1, <2>6, <3>3, <3>4, Zenon DEF ReadSoFar
  <2>8. wire' \in Seq(Nat) /\ Len(wire') = Len(wire) - n /\ Len(wire) \in Nat
    <3>. DEFINE a == n + 1
                z == Len(wire)
    <3>1. a \in Nat /\ a >= 1 /\ z \in Nat /\ z <= Len(wire) /\ a <= z + 1 /\ z + 1 - a = Len(wire) - n
      BY <2>1, <2>2 DEF Holds
    <3>. HIDE DEF a, z, n
    <3>2. SubSeq(wire, a, z) \in Seq(Nat) /\ Len(SubSeq(wire, a, z)) = z + 1 - a
      BY <2>1, <3>1, Cut, Zenon
    <3>. QED  BY <2>4, <3>1, <3>2, Zenon DEF a, z
  <2>9. PICK cut \in [0 .. N -> Nat] :
          /\ Cuts(cut, written) /\ cut[N] = cut[r] + Len(wire)
          /\ \A j \in r + 1 .. N : Holds(wire, cut[j - 1] - cut[r] + 1, Encode(written[j]))
    BY <2>1, Zenon DEF InStep
  <2>10. cut[r + 1] = cut[r] + n /\ cut[r] \in Nat /\ cut[r + 1] \in Nat /\ cut[N] \in Nat
    <3>1. cut[r + 1] = cut[(r + 1) - 1] + n
      BY <2>2, <2>9, Zenon DEF Cuts, e
    <3>. QED  BY <2>2, <2>5, <3>1
  <2>. HIDE DEF n
  <2>11. cut[N] = cut[r + 1] + Len(wire')
    BY <2>2, <2>8, <2>9, <2>10
  <2>12. ASSUME NEW j \in (r + 1) + 1 .. N
         PROVE  Holds(wire', cut[j - 1] - cut[r + 1] + 1, Encode(written[j]))
    <3>. DEFINE i == cut[j - 1] - cut[r + 1] + 1
                k == cut[j - 1] - cut[r] + 1
    <3>1. j \in r + 1 .. N /\ j - 1 \in 0 .. N /\ r + 1 \in 0 .. N /\ r + 1 <= j - 1
      BY <2>5
    <3>2. cut[j - 1] \in Nat /\ cut[r + 1] <= cut[j - 1]
      BY <2>9, <3>1, Zenon DEF Cuts
    <3>3. i \in Nat /\ i >= 1 /\ k \in Nat /\ k = n + i
      <4>1. /\ n \in Nat /\ cut[r + 1] = cut[r] + n /\ cut[r] \in Nat
            /\ cut[r + 1] \in Nat /\ cut[j - 1] \in Nat /\ cut[r + 1] <= cut[j - 1]
        BY <2>2, <2>10, <3>2, Zenon
      <4>2. PICK x \in Nat, y \in Nat, z \in Nat : x = cut[r] /\ y = cut[r + 1] /\ z = cut[j - 1]
        BY <4>1, Zenon
      <4>3. y = x + n /\ y <= z
        BY <4>1, <4>2, Zenon
      <4>4. z - y + 1 \in Nat /\ z - y + 1 >= 1 /\ z - x + 1 \in Nat /\ z - x + 1 = n + (z - y + 1)
        BY <4>1, <4>3
      <4>. QED  BY <4>2, <4>4, Zenon
    <3>4. Holds(wire, k, Encode(written[j]))
      BY <2>9, <3>1, Zenon
    <3>. HIDE DEF i, k
    <3>5. Holds(SubSeq(wire, n + 1, Len(wire)), i, Encode(written[j]))
      BY <2>2, <3>3, <3>4, Later, Zenon
    <3>. QED  BY <2>4, <3>5, Zenon DEF i
  <2>13. InStep'
    <3>1. /\ cut \in [0 .. Len(written') -> Nat] /\ Cuts(cut, written')
          /\ cut[Len(written')] = cut[Len(readOut')] + Len(wire')
          /\ \A j \in Len(readOut') + 1 .. Len(written') :
               Holds(wire', cut[j - 1] - cut[Len(readOut')] + 1, Encode(written'[j]))
      BY <1>1, <2>6, <2>9, <2>11, <2>12, Zenon
    <3>. QED  BY <3>1, Zenon DEF InStep
  <2>. QED  BY <1>1, <2>1, <2>7, <2>8, <2>13
<1>3. AllFit' <=> AllFit
  BY <1>1, Zenon DEF AllFit
<1>. QED  BY <1>1, <1>2, <1>3 DEF FrameInv

\* The read loop gives up only where a message does not fit.
LEMMA RefuseOK ==
  ASSUME FrameInv, RefuseFrame
  PROVE  FrameInv'
<1>1. /\ written' = written /\ written \in Seq(FrameMsg) /\ wire # <<>> /\ FrameLength < LeastLength
  BY DEF FrameInv, RefuseFrame, PrefixIsThere
<1>2. ~AllFit
  <2>1. SUFFICES ASSUME AllFit PROVE FALSE
    OBVIOUS
  <2>2. PICK n \in Nat : n >= 3 /\ FrameLength = n /\ LeastLength = 2
    BY <1>1, <2>1, NextFrame, Zenon
  <2>. QED  BY <1>1, <2>2
<1>3. ~AllFit'
  BY <1>1, <1>2, Zenon DEF AllFit
<1>. QED  BY <1>1, <1>3 DEF FrameInv

LEMMA FrameStepOK == FrameInv /\ [FrameNext]_frameVars => FrameInv'
<1>. SUFFICES ASSUME FrameInv, [FrameNext]_frameVars PROVE FrameInv'
  OBVIOUS
<1>1. CASE \E m \in FrameMsg : WriteFrame(m)
  BY <1>1, WriteOK, Zenon
<1>2. CASE ReadFrame
  BY <1>2, ReadOK, Zenon
<1>3. CASE RefuseFrame
  BY <1>3, RefuseOK, Zenon
<1>4. CASE UNCHANGED frameVars
  BY <1>4 DEF frameVars, FrameInv, AllFit, ReadSoFar, InStep
<1>. QED  BY <1>1, <1>2, <1>3, <1>4, Zenon DEF FrameNext

\* What is in step is read as it was written.
LEMMA FrameInvOK == FrameInv => ReadAsWritten
<1>. SUFFICES ASSUME FrameInv, AllFit
              PROVE  /\ ~ended /\ \E n \in 0..Len(written) : readOut = SubSeq(written, 1, n)
                     /\ wire = <<>> => readOut = written
  BY DEF ReadAsWritten, AllFit
<1>1. ~ended /\ wire \in Seq(Nat) /\ ReadSoFar /\ InStep /\ written \in Seq(FrameMsg)
  BY DEF FrameInv
<1>. DEFINE N == Len(written)
            r == Len(readOut)
<1>2. /\ readOut \in Seq(FrameMsg) /\ r \in Nat /\ N \in Nat /\ r <= N
      /\ \A i \in 1 .. r : readOut[i] = written[i]
  BY <1>1 DEF ReadSoFar
<1>3. r \in 0..Len(written) /\ readOut = SubSeq(written, 1, r)
  BY <1>1, <1>2
<1>4. ASSUME wire = <<>> PROVE readOut = written
  <2>1. PICK cut \in [0 .. N -> Nat] : Cuts(cut, written) /\ cut[N] = cut[r] + Len(wire)
    BY <1>1 DEF InStep
  <2>2. r \in 0 .. N /\ N \in 0 .. N /\ cut[r] \in Nat /\ cut[N] \in Nat /\ Len(wire) = 0
    BY <1>2, <1>4, <2>1
  <2>3. r = N
    <3>1. SUFFICES ASSUME r # N PROVE FALSE
      OBVIOUS
    <3>2. r + 1 \in 1 .. N /\ r + 1 \in 0 .. N /\ r + 1 <= N
      BY <1>2, <3>1
    <3>3. cut[r + 1] = cut[(r + 1) - 1] + Len(Encode(written[r + 1])) /\ cut[r + 1] <= cut[N]
      BY <2>1, <2>2, <3>2, Zenon DEF Cuts
    <3>4. written[r + 1] \in FrameMsg
      BY <1>1, <3>2
    <3>5. Len(Encode(written[r + 1])) \in Nat /\ Len(Encode(written[r + 1])) >= 3
      BY <3>4, FrameOK, Zenon
    <3>. QED  BY <1>2, <2>1, <2>2, <3>3, <3>5
  <2>4. Len(readOut) = Len(written) /\ \A i \in 1 .. Len(readOut) : readOut[i] = written[i]
    BY <1>2, <2>3
  <2>. QED  BY <1>1, <1>2, <2>4, SameElements
<1>. QED  BY <1>1, <1>3, <1>4, Zenon

\* The read loop of a stream hands on the messages that were written, in their
\* order and all of them, as long as each of them fits 255 bytes, whatever they
\* are and however many follow each other (writeLength and the encoders,
\* readMQTTFrame, ParseMessage and the decoders).
THEOREM StreamInStep == FrameSpec => []ReadAsWritten
<1>1. FrameInit => FrameInv
  BY FrameInitOK
<1>2. FrameInv /\ [FrameNext]_frameVars => FrameInv'
  BY FrameStepOK
<1>3. FrameInv => ReadAsWritten
  BY FrameInvOK
<1>. QED  BY <1>1, <1>2, <1>3, PTL DEF FrameSpec
=============================================================================
