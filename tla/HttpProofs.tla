----------------------------- MODULE HttpProofs -----------------------------
(***************************************************************************)
(* Proofs about Http, for every buffer size, every answer with any number   *)
(* of headers in any order, and every way TCP may cut it up: which cells    *)
(* the parser looks at, how remain accounts for the bytes of the headers    *)
(* first and of the body afterwards, and that what http() reports is what   *)
(* the service sent.                                                        *)
(***************************************************************************)
EXTENDS Http, WellFoundedInduction, SequenceTheorems, TLAPS

-----------------------------------------------------------------------------
(* Sequences, and the lines an answer is made of.                            *)

\* A nonempty set of numbers has a least element: induction, as an argument by the
\* smallest counterexample.
LEMMA Least ==
    ASSUME NEW T \in SUBSET Nat, T # {}
    PROVE  \E n \in T : \A m \in T : n <= m
<1>1. PICK x \in T : \A y \in T : ~ (<<y, x>> \in OpToRel(<, Nat))
  BY NatLessThanWellFounded, WFMin
<1>2. ASSUME NEW y \in T PROVE x <= y
  <2>1. <<y, x>> \in Nat \X Nat
    OBVIOUS
  <2>2. y < x => <<y, x>> \in OpToRel(<, Nat)
    BY <2>1 DEF OpToRel
  <2>3. ~ (y < x)
    BY <1>1, <2>2, Zenon
  <2> QED
    BY <2>3
<1> QED
  BY <1>2

\* The header lines, case by case.
LEMMA HeaderLineIs ==
    ASSUME NEW b
    PROVE  /\ HeaderLine("length", b) =
                  <<"Content-Length", COLON, " ", Numeral[Len(b) + 1], CR, LF>>
           /\ HeaderLine("id", b) =
                  <<"Lambda-Runtime-Aws-Request-Id", COLON, " ", "uuid", CR, LF>>
           /\ HeaderLine("arn", b) =
                  <<"Lambda-Runtime-Invoked-Function-Arn", COLON, " ", "arn", COLON, "name", CR, LF>>
<1>1. "length" # "id" /\ "length" # "arn" /\ "id" # "arn"
  OBVIOUS
<1> QED
  BY <1>1, Zenon DEF HeaderLine

\* The status lines, case by case.
LEMMA StatusLineIs ==
    /\ StatusLine("ok") = <<"HTTP/1.1", " ", "200", CR, LF>>
    /\ StatusLine("gone1.0") = <<"HTTP/1.0", " ", "410", CR, LF>>
    /\ StatusLine("gone1.1") = <<"HTTP/1.1", " ", "410", CR, LF>>
    /\ StatusLine("bareLF") = <<"HTTP/1.1", " ", "200", LF>>
    /\ StatusLine("blank") = <<CR, LF>>
<1> DEFINE S == {"ok", "gone1.0", "gone1.1", "bareLF", "blank"}
<1>1. /\ "ok" # "gone1.0" /\ "ok" # "gone1.1" /\ "ok" # "bareLF" /\ "ok" # "blank"
      /\ "gone1.0" # "gone1.1" /\ "gone1.0" # "bareLF" /\ "gone1.0" # "blank"
      /\ "gone1.1" # "bareLF" /\ "gone1.1" # "blank" /\ "bareLF" # "blank"
  OBVIOUS
<1> QED
  BY <1>1, Zenon DEF StatusLine

\* STRING, with the literals of the model in sight of the provers.
Symbol ==
    STRING \cup {CR, LF, COLON, " ", "Content-Length", "Lambda-Runtime-Aws-Request-Id",
                 "Lambda-Runtime-Invoked-Function-Arn", "uuid", "arn", "name",
                 "HTTP/1.0", "HTTP/1.1", "200", "410"}

\* Every literal of the model is a symbol.
LEMMA SymbolsAre ==
    /\ CR \in Symbol /\ LF \in Symbol /\ COLON \in Symbol /\ " " \in Symbol
    /\ "Content-Length" \in Symbol /\ "Lambda-Runtime-Aws-Request-Id" \in Symbol
    /\ "Lambda-Runtime-Invoked-Function-Arn" \in Symbol
    /\ "uuid" \in Symbol /\ "arn" \in Symbol /\ "name" \in Symbol
    /\ "HTTP/1.0" \in Symbol /\ "HTTP/1.1" \in Symbol
    /\ "200" \in Symbol /\ "410" \in Symbol
  BY DEF Symbol

\* A body is a sequence of symbols whose length has a numeral, and the numeral is no
\* line break and no colon.
LEMMA BodyFacts ==
    ASSUME NEW b \in Bodies
    PROVE  /\ b \in Seq(Symbol) /\ Len(b) \in Nat
           /\ Len(b) + 1 \in DOMAIN Numeral /\ Numeral[Len(b) + 1] \in Symbol
           /\ Numeral[Len(b) + 1] \notin {CR, LF, COLON}
<1>1. b \in Seq(STRING) /\ Len(b) < Len(Numeral) /\ Numeral \in Seq(STRING)
  BY HttpAssumption
<1>2. /\ Len(b) + 1 \in DOMAIN Numeral /\ Numeral[Len(b) + 1] \in STRING
      /\ \A i \in 1 .. Len(b) : b[i] \in STRING
      /\ Len(b) \in Nat /\ b = [i \in 1 .. Len(b) |-> b[i]]
  BY <1>1
<1>3. \A x \in STRING : x \in Symbol
  BY DEF Symbol
<1>4. b \in Seq(Symbol)
  BY <1>2, <1>3, IsASeq
<1> QED
  BY <1>2, <1>3, <1>4, HttpAssumption

\* Tuples are sequences.
LEMMA Tuple2 ==
    ASSUME NEW S, NEW x1 \in S, NEW x2 \in S
    PROVE  <<x1, x2>> \in Seq(S)
  OBVIOUS

LEMMA Tuple4 ==
    ASSUME NEW S, NEW x1 \in S, NEW x2 \in S, NEW x3 \in S, NEW x4 \in S
    PROVE  <<x1, x2, x3, x4>> \in Seq(S)
  OBVIOUS

LEMMA Tuple5 ==
    ASSUME NEW S, NEW x1 \in S, NEW x2 \in S, NEW x3 \in S, NEW x4 \in S, NEW x5 \in S
    PROVE  <<x1, x2, x3, x4, x5>> \in Seq(S)
  OBVIOUS

LEMMA Tuple6 ==
    ASSUME NEW S, NEW x1 \in S, NEW x2 \in S, NEW x3 \in S, NEW x4 \in S, NEW x5 \in S, NEW x6 \in S
    PROVE  <<x1, x2, x3, x4, x5, x6>> \in Seq(S)
  OBVIOUS

LEMMA Tuple8 ==
    ASSUME NEW S, NEW x1 \in S, NEW x2 \in S, NEW x3 \in S, NEW x4 \in S, NEW x5 \in S, NEW x6 \in S, NEW x7 \in S, NEW x8 \in S
    PROVE  <<x1, x2, x3, x4, x5, x6, x7, x8>> \in Seq(S)
  OBVIOUS

\* Every line is a sequence of symbols.
LEMMA LinesAreSequences ==
    /\ \A v \in Symbol : <<"Content-Length", COLON, " ", v, CR, LF>> \in Seq(Symbol)
    /\ <<"Lambda-Runtime-Aws-Request-Id", COLON, " ", "uuid", CR, LF>> \in Seq(Symbol)
    /\ <<"Lambda-Runtime-Invoked-Function-Arn", COLON, " ", "arn", COLON, "name", CR, LF>>
           \in Seq(Symbol)
    /\ <<CR, LF>> \in Seq(Symbol)
    /\ <<"HTTP/1.1", " ", "200", LF>> \in Seq(Symbol)
    /\ <<"HTTP/1.1", " ", "200", CR, LF>> \in Seq(Symbol)
    /\ <<"HTTP/1.0", " ", "410", CR, LF>> \in Seq(Symbol)
    /\ <<"HTTP/1.1", " ", "410", CR, LF>> \in Seq(Symbol)
  BY SymbolsAre, Tuple2, Tuple4, Tuple5, Tuple6, Tuple8, Zenon

\* The length of every line.
LEMMA LineLengths ==
    /\ \A v : Len(<<"Content-Length", COLON, " ", v, CR, LF>>) = 6
    /\ Len(<<"Lambda-Runtime-Aws-Request-Id", COLON, " ", "uuid", CR, LF>>) = 6
    /\ Len(<<"Lambda-Runtime-Invoked-Function-Arn", COLON, " ", "arn", COLON, "name", CR, LF>>) = 8
    /\ Len(<<CR, LF>>) = 2
    /\ Len(<<"HTTP/1.1", " ", "200", LF>>) = 4
    /\ Len(<<"HTTP/1.1", " ", "200", CR, LF>>) = 5
    /\ Len(<<"HTTP/1.0", " ", "410", CR, LF>>) = 5
    /\ Len(<<"HTTP/1.1", " ", "410", CR, LF>>) = 5
  OBVIOUS

\* Header lines, for any header.
LEMMA HeaderLineFacts ==
    ASSUME NEW b \in Bodies, NEW h \in HeaderKinds
    PROVE  /\ HeaderLine(h, b) \in Seq(Symbol)
           /\ Len(HeaderLine(h, b)) = IF h = "arn" THEN 8 ELSE 6
<1>1. h = "length" \/ h = "id" \/ h = "arn"
  BY DEF HeaderKinds
<1>2. "length" # "arn" /\ "id" # "arn"
  OBVIOUS
<1>3. Numeral[Len(b) + 1] \in Symbol
  BY BodyFacts
<1> QED
  BY <1>1, <1>2, <1>3, SymbolsAre, HeaderLineIs, LinesAreSequences, LineLengths, Zenon

\* Status lines, for any status.
LEMMA StatusLineFacts ==
    ASSUME NEW st \in Statuses
    PROVE  /\ StatusLine(st) \in Seq(Symbol)
           /\ Len(StatusLine(st)) = IF st = "blank" THEN 2 ELSE IF st = "bareLF" THEN 4 ELSE 5
<1>1. st = "ok" \/ st = "gone1.0" \/ st = "gone1.1" \/ st = "bareLF" \/ st = "blank"
  BY HttpAssumption
<1>2. /\ "ok" # "bareLF" /\ "ok" # "blank"
      /\ "gone1.0" # "bareLF" /\ "gone1.0" # "blank"
      /\ "gone1.1" # "bareLF" /\ "gone1.1" # "blank" /\ "bareLF" # "blank"
  OBVIOUS
<1> QED
  BY <1>1, <1>2, SymbolsAre, StatusLineIs, LinesAreSequences, LineLengths, Zenon

\* The recursive function HeaderLines satisfies its equation.
LEMMA Unfold ==
    ASSUME NEW a, Len(a.headers) \in Nat
    PROVE  HeaderLines(a) =
              [n \in 0 .. Len(a.headers) |->
                  IF n = 0 THEN <<>> ELSE HeaderLines(a)[n - 1] \o HeaderLine(a.headers[n], a.body)]
<1> DEFINE N == Len(a.headers)
           L(n) == HeaderLine(a.headers[n], a.body)
           Def(f, k) == f = [n \in 0 .. k |-> IF n = 0 THEN <<>> ELSE f[n - 1] \o L(n)]
<1>1. \E f : Def(f, N)
  <2> DEFINE T == {k \in Nat : ~ \E f : Def(f, k)}
  <2>1. SUFFICES ASSUME T # {} PROVE FALSE
    OBVIOUS
  <2>2. PICK k \in T : \A m \in T : k <= m
    BY <2>1, Least
  <2>3. k # 0
    <3>1. Def([n \in 0 .. 0 |-> <<>>], 0)
      OBVIOUS
    <3> QED
      BY <3>1
  <2>4. k - 1 \in Nat /\ k - 1 \notin T
    <3>1. k \in Nat /\ T \subseteq Nat
      OBVIOUS
    <3> HIDE DEF T
    <3> QED
      BY <2>2, <2>3, <3>1
  <2>5. PICK g : Def(g, k - 1)
    BY <2>4
  <2> DEFINE f == [n \in 0 .. k |-> IF n = k THEN g[k - 1] \o L(k) ELSE g[n]]
  <2> HIDE DEF L
  <2>6. Def(f, k)
    <3>1. \A n \in 0 .. k - 1 : g[n] = IF n = 0 THEN <<>> ELSE g[n - 1] \o L(n)
      BY <2>5, Zenon
    <3>2. \A n \in 0 .. k : f[n] = IF n = 0 THEN <<>> ELSE f[n - 1] \o L(n)
      BY <2>3, <3>1
    <3> HIDE DEF f
    <3>3. f = [n \in 0 .. k |-> f[n]]
      BY DEF f
    <3> QED
      BY <3>2, <3>3
  <2> QED
    BY <2>6, <2>2
<1>2. HeaderLines(a) = CHOOSE f : Def(f, N)
  BY DEF HeaderLines
<1>3. Def(CHOOSE f : Def(f, N), N)
  BY <1>1, Zenon
<1> QED
  BY <1>2, <1>3, Zenon

\* Pieces appended one by one make sequences.
LEMMA RunningType ==
    ASSUME NEW S, NEW N \in Nat, NEW L \in [1 .. N -> Seq(S)], NEW H, H[0] = <<>>,
           \A n \in 1 .. N : H[n] = H[n - 1] \o L[n]
    PROVE  \A n \in 0 .. N : H[n] \in Seq(S)
<1> DEFINE T == {n \in 0 .. N : H[n] \notin Seq(S)}
<1> SUFFICES ASSUME T # {} PROVE FALSE
  OBVIOUS
<1>0. T \in SUBSET Nat
  OBVIOUS
<1>1. PICK n \in T : \A m \in T : n <= m
  <2> HIDE DEF T
  <2> QED
    BY <1>0, Least
<1>2. n # 0
  BY EmptySeq
<1>3. n \in 1 .. N /\ n - 1 \in 0 .. N /\ n - 1 \notin T
  BY <1>1, <1>2
<1>4. H[n - 1] \in Seq(S) /\ L[n] \in Seq(S)
  BY <1>3
<1>5. H[n] \in Seq(S)
  <2>1. H[n] = H[n - 1] \o L[n]
    BY <1>3
  <2> HIDE DEF T
  <2>2. H[n - 1] \o L[n] \in Seq(S)
    BY <1>4, ConcatProperties, Zenon
  <2> QED
    BY <2>1, <2>2, Zenon
<1> QED
  BY <1>5

\* Piece k of the pieces L lies in H[N], behind the pieces before it.
PieceAt(N, L, H, k) ==
    /\ Len(H[k]) = Len(H[k - 1]) + Len(L[k])
    /\ Len(H[k]) <= Len(H[N])
    /\ \A i \in 1 .. Len(L[k]) : H[N][Len(H[k - 1]) + i] = L[k][i]

\* Every piece stays where it was put while others are appended.
LEMMA RunningCells ==
    ASSUME NEW S, NEW N \in Nat, NEW L \in [1 .. N -> Seq(S)], NEW H, H[0] = <<>>,
           \A n \in 1 .. N : H[n] = H[n - 1] \o L[n],
           NEW k \in 1 .. N
    PROVE  PieceAt(N, L, H, k)
<1>0. \A n \in 0 .. N : H[n] \in Seq(S)
  BY RunningType, Zenon
<1>1. \A n \in 0 .. N : H[n] \in Seq(S) /\ Len(H[n]) \in Nat
  BY <1>0, LenProperties
<1>2. \A n \in 1 .. N : L[n] \in Seq(S) /\ Len(L[n]) \in Nat
  OBVIOUS
<1>3. ASSUME NEW n \in 1 .. N
      PROVE  /\ Len(H[n]) = Len(H[n - 1]) + Len(L[n])
             /\ \A i \in 1 .. Len(H[n - 1]) : H[n][i] = H[n - 1][i]
             /\ \A i \in 1 .. Len(L[n]) : H[n][Len(H[n - 1]) + i] = L[n][i]
  <2>0. n - 1 \in 0 .. N
    OBVIOUS
  <2>1. H[n - 1] \in Seq(S) /\ L[n] \in Seq(S) /\ H[n] = H[n - 1] \o L[n]
    BY <2>0, <1>1, <1>2, Zenon
  <2> DEFINE u == H[n - 1]
             v == L[n]
  <2>2. u \in Seq(S) /\ v \in Seq(S) /\ Len(u) \in Nat /\ Len(v) \in Nat
    BY <2>1
  <2> HIDE DEF u, v
  <2>3. /\ Len(u \o v) = Len(u) + Len(v)
        /\ \A i \in 1 .. Len(u) + Len(v) :
               (u \o v)[i] = IF i <= Len(u) THEN u[i] ELSE v[i - Len(u)]
    BY <2>2, ConcatProperties
  <2>4. \A i \in 1 .. Len(u) : (u \o v)[i] = u[i]
    BY <2>2, <2>3
  <2>5. \A i \in 1 .. Len(v) : (u \o v)[Len(u) + i] = v[i]
    BY <2>2, <2>3
  <2> QED
    BY <2>1, <2>3, <2>4, <2>5 DEF u, v
<1> DEFINE P(n) == /\ Len(H[k]) <= Len(H[n])
                   /\ \A i \in 1 .. Len(L[k]) : H[n][Len(H[k - 1]) + i] = L[k][i]
           T == {n \in k .. N : ~ P(n)}
<1>4. T = {}
  <2> SUFFICES ASSUME T # {} PROVE FALSE
    OBVIOUS
  <2>0. T \in SUBSET Nat
    OBVIOUS
  <2>1. PICK n \in T : \A m \in T : n <= m
    <3> HIDE DEF T
    <3> QED
      BY <2>0, Least
  <2>2. P(k)
    BY <1>1, <1>3
  <2>3. n \in k + 1 .. N /\ n - 1 \in k .. N /\ n - 1 \notin T
    <3>1. n \in k .. N /\ n # k
      BY <2>2
    <3> HIDE DEF T
    <3> QED
      BY <2>1, <3>1
  <2>4. P(n - 1)
    BY <2>3
  <2>5. P(n)
    <3>0. n \in 1 .. N /\ n - 1 \in 0 .. N /\ k - 1 \in 0 .. N /\ k \in 0 .. N
      BY <2>3
    <3>1. Len(H[n]) = Len(H[n - 1]) + Len(L[n]) /\ Len(L[n]) \in Nat /\ Len(H[n - 1]) \in Nat
      BY <3>0, <1>2, <1>1, <1>3, Zenon
    <3>2. Len(H[k]) \in Nat /\ Len(H[k - 1]) \in Nat /\ Len(L[k]) \in Nat
          /\ Len(H[k]) = Len(H[k - 1]) + Len(L[k])
      BY <3>0, <1>1, <1>2, <1>3, Zenon
    <3>4. Len(H[k]) <= Len(H[n - 1])
      BY <2>4
    <3> DEFINE hk == Len(H[k])
               hj == Len(H[k - 1])
               hn == Len(H[n])
               hm == Len(H[n - 1])
               lk == Len(L[k])
               ln == Len(L[n])
    <3>6. /\ hn = hm + ln /\ ln \in Nat /\ hm \in Nat
          /\ hk \in Nat /\ hj \in Nat /\ lk \in Nat /\ hk = hj + lk /\ hk <= hm
      BY <3>1, <3>2, <3>4, Zenon
    <3>5. Len(H[k]) <= Len(H[n])
      <4>1. hk <= hn
        <5> HIDE DEF hk, hj, hn, hm, lk, ln
        <5> QED
          BY <3>6
      <4> QED
        BY <4>1, Zenon
    <3>3. ASSUME NEW i \in 1 .. Len(L[k]) PROVE H[n][Len(H[k - 1]) + i] = L[k][i]
      <4>1. Len(H[k - 1]) + i \in 1 .. Len(H[n - 1])
        <5>1. i \in 1 .. lk
          OBVIOUS
        <5>2. hj + i \in 1 .. hm
          <6> HIDE DEF hk, hj, hn, hm, lk, ln
          <6> QED
            BY <3>6, <5>1
        <5> QED
          BY <5>2, Zenon
      <4>2. H[n][Len(H[k - 1]) + i] = H[n - 1][Len(H[k - 1]) + i]
        BY <4>1, <1>3, <3>0, Zenon
      <4> QED
        BY <4>2, <2>4
    <3> QED
      BY <3>3, <3>5
  <2> QED
    BY <2>5
<1>5. N \in k .. N
  OBVIOUS
<1>6. P(N)
  BY <1>4, <1>5
<1> HIDE DEF T
<1> QED
  BY <1>3, <1>6, Zenon DEF PieceAt

\* The cells of a concatenation.
LEMMA ConcatCells ==
    ASSUME NEW S, NEW u \in Seq(S), NEW v \in Seq(S)
    PROVE  /\ u \o v \in Seq(S) /\ Len(u \o v) = Len(u) + Len(v)
           /\ Len(u) \in Nat /\ Len(v) \in Nat
           /\ \A i \in 1 .. Len(u) : (u \o v)[i] = u[i]
           /\ \A i \in 1 .. Len(v) : (u \o v)[Len(u) + i] = v[i]
<1>1. Len(u) \in Nat /\ Len(v) \in Nat
  OBVIOUS
<1>2. /\ u \o v \in Seq(S) /\ Len(u \o v) = Len(u) + Len(v)
      /\ \A i \in 1 .. Len(u) + Len(v) :
             (u \o v)[i] = IF i <= Len(u) THEN u[i] ELSE v[i - Len(u)]
  BY ConcatProperties
<1> QED
  BY <1>1, <1>2

\* w is s, h, e and b, one behind the other.
Parts(w, s, h, e, b) ==
    /\ Len(w) = Len(s) + Len(h) + Len(e) + Len(b)
    /\ \A i \in 1 .. Len(s) : w[i] = s[i]
    /\ \A i \in 1 .. Len(h) : w[Len(s) + i] = h[i]
    /\ \A i \in 1 .. Len(e) : w[Len(s) + Len(h) + i] = e[i]
    /\ \A i \in 1 .. Len(b) : w[Len(s) + Len(h) + Len(e) + i] = b[i]

\* The cells of four sequences one behind the other.
LEMMA FourParts ==
    ASSUME NEW S, NEW s \in Seq(S), NEW h \in Seq(S), NEW e \in Seq(S), NEW b \in Seq(S)
    PROVE  /\ s \o h \o e \o b \in Seq(S)
           /\ Parts(s \o h \o e \o b, s, h, e, b)
<1> DEFINE p == s \o h
           q == p \o e
           w == q \o b
<1>1. /\ p \in Seq(S) /\ Len(p) = Len(s) + Len(h)
      /\ Len(s) \in Nat /\ Len(h) \in Nat
      /\ \A i \in 1 .. Len(s) : p[i] = s[i]
      /\ \A i \in 1 .. Len(h) : p[Len(s) + i] = h[i]
  BY ConcatCells
<1>10. p \in Seq(S)
  BY <1>1
<1> HIDE DEF p
<1>2. /\ q \in Seq(S) /\ Len(q) = Len(p) + Len(e)
      /\ Len(p) \in Nat /\ Len(e) \in Nat
      /\ \A i \in 1 .. Len(p) : q[i] = p[i]
      /\ \A i \in 1 .. Len(e) : q[Len(p) + i] = e[i]
  BY <1>10, ConcatCells
<1>11. q \in Seq(S)
  BY <1>2
<1> HIDE DEF q
<1>3. /\ w \in Seq(S) /\ Len(w) = Len(q) + Len(b)
      /\ Len(q) \in Nat /\ Len(b) \in Nat
      /\ \A i \in 1 .. Len(q) : w[i] = q[i]
      /\ \A i \in 1 .. Len(b) : w[Len(q) + i] = b[i]
  BY <1>11, ConcatCells
<1> HIDE DEF w
<1>4. ASSUME NEW i \in 1 .. Len(s) PROVE w[i] = s[i]
  <2>1. i \in 1 .. Len(p) /\ i \in 1 .. Len(q)
    BY <1>1, <1>2, <1>3
  <2> QED
    BY <2>1, <1>1, <1>2, <1>3
<1>5. ASSUME NEW i \in 1 .. Len(h) PROVE w[Len(s) + i] = h[i]
  <2>1. Len(s) + i \in 1 .. Len(p) /\ Len(s) + i \in 1 .. Len(q)
    BY <1>1, <1>2, <1>3
  <2> QED
    BY <2>1, <1>1, <1>2, <1>3
<1>6. ASSUME NEW i \in 1 .. Len(e) PROVE w[Len(s) + Len(h) + i] = e[i]
  <2>1. Len(p) + i \in 1 .. Len(q)
    BY <1>1, <1>2, <1>3
  <2>2. w[Len(p) + i] = e[i]
    BY <2>1, <1>2, <1>3
  <2> QED
    BY <2>2, <1>1
<1>7. ASSUME NEW i \in 1 .. Len(b) PROVE w[Len(s) + Len(h) + Len(e) + i] = b[i]
  <2>1. w[Len(q) + i] = b[i]
    BY <1>3
  <2> QED
    BY <2>1, <1>1, <1>2
<1>8. Len(w) = Len(s) + Len(h) + Len(e) + Len(b)
  BY <1>1, <1>2, <1>3
<1>9. w = s \o h \o e \o b
  BY DEF w, q, p
<1> QED
  BY <1>3, <1>4, <1>5, <1>6, <1>7, <1>8, <1>9, Zenon DEF Parts

-----------------------------------------------------------------------------
(* Where the lines of an answer are on the wire.                             *)

\* Line k behind the status line: a header, or the blank one behind the last.
LineAt(a, k) ==
    IF k < Len(a.headers) THEN HeaderLine(a.headers[k + 1], a.body) ELSE <<CR, LF>>

\* Its first cell.
Start(a, k) == Len(StatusLine(a.status)) + Len(HeaderLines(a)[k])

\* The parts of an answer.
LEMMA AnswerFacts ==
    ASSUME NEW a \in Answers
    PROVE  /\ a.status \in Statuses /\ a.headers \in HeaderLists /\ a.body \in Bodies
           /\ Len(a.headers) \in Nat /\ DOMAIN a.headers = 1 .. Len(a.headers)
           /\ \A k \in 1 .. Len(a.headers) : a.headers[k] \in HeaderKinds
           /\ Len(Wire(a)) + Slack <= RecvBufSize
<1>1. /\ a.status \in Statuses /\ a.headers \in HeaderLists /\ a.body \in Bodies
      /\ Len(Wire(a)) + Slack <= RecvBufSize
  BY DEF Answers
<1>2. a.headers \in Seq(HeaderKinds)
  BY <1>1, HttpAssumption
<1> DEFINE hs == a.headers
<1> HIDE DEF hs
<1>3. hs \in Seq(HeaderKinds)
  BY <1>2 DEF hs
<1>4. /\ Len(hs) \in Nat /\ DOMAIN hs = 1 .. Len(hs)
      /\ \A k \in 1 .. Len(hs) : hs[k] \in HeaderKinds
  BY <1>3, LenProperties, ElementOfSeq
<1> QED
  BY <1>1, <1>4 DEF hs

\* The header lines are appended one by one.
LEMMA HeaderLinesFacts ==
    ASSUME NEW a \in Answers
    PROVE  LET N == Len(a.headers)
               H == HeaderLines(a)
               L == [k \in 1 .. N |-> HeaderLine(a.headers[k], a.body)]
           IN  /\ L \in [1 .. N -> Seq(Symbol)]
               /\ H[0] = <<>>
               /\ \A n \in 1 .. N : H[n] = H[n - 1] \o L[n]
<1> DEFINE N == Len(a.headers)
           H == HeaderLines(a)
           L == [k \in 1 .. N |-> HeaderLine(a.headers[k], a.body)]
<1>1. N \in Nat
  BY AnswerFacts
<1>2. ASSUME NEW k \in 1 .. N PROVE HeaderLine(a.headers[k], a.body) \in Seq(Symbol)
  BY AnswerFacts, HeaderLineFacts, Zenon
<1>3. L \in [1 .. N -> Seq(Symbol)]
  BY <1>2, Zenon
<1>4. H = [n \in 0 .. N |-> IF n = 0 THEN <<>> ELSE H[n - 1] \o HeaderLine(a.headers[n], a.body)]
  BY <1>1, Unfold, Zenon
<1>5. 0 \in 0 .. N /\ \A n \in 1 .. N : n \in 0 .. N /\ n # 0
  BY <1>1
<1>6. H[0] = <<>>
  BY <1>4, <1>5, Zenon
<1>7. ASSUME NEW n \in 1 .. N PROVE H[n] = H[n - 1] \o L[n]
  BY <1>4, <1>5, Zenon
<1> QED
  BY <1>3, <1>6, <1>7, Zenon

\* Every line behind the status line has 2 to 8 symbols.
LEMMA LineAtFacts ==
    ASSUME NEW a \in Answers, NEW k \in 0 .. Len(a.headers)
    PROVE  /\ LineAt(a, k) \in Seq(Symbol)
           /\ Len(LineAt(a, k)) \in 2 .. 8
<1>1. CASE k < Len(a.headers)
  <2>1. k + 1 \in 1 .. Len(a.headers)
    BY <1>1, AnswerFacts
  <2>2. a.headers[k + 1] \in HeaderKinds /\ a.body \in Bodies
    BY <2>1, AnswerFacts
  <2>3. /\ HeaderLine(a.headers[k + 1], a.body) \in Seq(Symbol)
        /\ Len(HeaderLine(a.headers[k + 1], a.body)) \in {6, 8}
    BY <2>2, HeaderLineFacts
  <2>4. LineAt(a, k) = HeaderLine(a.headers[k + 1], a.body)
    BY <1>1, Zenon DEF LineAt
  <2>5. \A n \in {6, 8} : n \in 2 .. 8
    OBVIOUS
  <2> QED
    BY <2>3, <2>4, <2>5, Zenon
<1>2. CASE ~ (k < Len(a.headers))
  <2>1. LineAt(a, k) = <<CR, LF>>
    BY <1>2, Zenon DEF LineAt
  <2>2. 2 \in 2 .. 8
    OBVIOUS
  <2> QED
    BY <2>1, <2>2, LinesAreSequences, LineLengths, Zenon
<1> QED
  BY <1>1, <1>2

\* The answer on the wire: status line, header lines, blank line, body, each at its place.
LEMMA Layout ==
    ASSUME NEW a \in Answers
    PROVE  LET N == Len(a.headers)
               w == Wire(a)
           IN  /\ w \in Seq(Symbol)
               /\ Len(w) = Start(a, N) + 2 + Len(a.body)
               /\ Start(a, 0) = Len(StatusLine(a.status))
               /\ \A k \in 0 .. N : Start(a, k) \in Nat
               /\ \A k \in 0 .. N : Start(a, k) + Len(LineAt(a, k)) <= Start(a, N) + 2
               /\ \A k \in 0 .. N - 1 : Start(a, k + 1) = Start(a, k) + Len(LineAt(a, k))
               /\ \A i \in 1 .. Len(StatusLine(a.status)) : w[i] = StatusLine(a.status)[i]
               /\ \A k \in 0 .. N : \A i \in 1 .. Len(LineAt(a, k)) :
                      w[Start(a, k) + i] = LineAt(a, k)[i]
               /\ \A i \in 1 .. Len(a.body) : w[Start(a, N) + 2 + i] = a.body[i]
<1> DEFINE N == Len(a.headers)
           H == HeaderLines(a)
           L == [k \in 1 .. N |-> HeaderLine(a.headers[k], a.body)]
           S == StatusLine(a.status)
           E == <<CR, LF>>
           B == a.body
           w == Wire(a)
<1>1. /\ N \in Nat /\ S \in Seq(Symbol) /\ Len(S) \in {2, 4, 5} /\ B \in Seq(Symbol)
      /\ E \in Seq(Symbol) /\ Len(E) = 2
  BY AnswerFacts, StatusLineFacts, BodyFacts, LinesAreSequences, LineLengths
<1>2. /\ L \in [1 .. N -> Seq(Symbol)] /\ H[0] = <<>>
      /\ \A n \in 1 .. N : H[n] = H[n - 1] \o L[n]
  BY HeaderLinesFacts, Zenon
<1>3. \A k \in 1 .. N : L[k] = LineAt(a, k - 1)
  BY <1>1 DEF LineAt
<1>4. LineAt(a, N) = E
  BY <1>1 DEF LineAt
<1>5. w = S \o H[N] \o E \o B
  BY DEF Wire
<1>6. Start(a, 0) = Len(S) + Len(H[0]) /\ \A k \in 0 .. N : Start(a, k) = Len(S) + Len(H[k])
  BY DEF Start
<1> HIDE DEF N, H, L, S, E, B, w
<1>7. \A n \in 0 .. N : H[n] \in Seq(Symbol)
  BY <1>1, <1>2, RunningType, Zenon
<1>8. \A n \in 0 .. N : Len(H[n]) \in Nat
  BY <1>7, LenProperties
<1>9. ASSUME NEW k \in 1 .. N
      PROVE  /\ Len(H[k]) = Len(H[k - 1]) + Len(L[k])
             /\ Len(H[k]) <= Len(H[N])
             /\ \A i \in 1 .. Len(L[k]) : H[N][Len(H[k - 1]) + i] = L[k][i]
  <2>1. N \in Nat
    BY <1>1
  <2>2. PieceAt(N, L, H, k)
    BY <2>1, <1>2, RunningCells, Zenon
  <2> QED
    BY <2>2 DEF PieceAt
<1>10. H[N] \in Seq(Symbol) /\ N \in 0 .. N /\ 0 \in 0 .. N
  BY <1>1, <1>7
<1> DEFINE G == H[N]
<1>11. G \in Seq(Symbol) /\ w = S \o G \o E \o B
  BY <1>10, <1>5, Zenon
<1> HIDE DEF G
<1>12. /\ w \in Seq(Symbol) /\ Len(w) = Len(S) + Len(G) + Len(E) + Len(B)
       /\ \A i \in 1 .. Len(S) : w[i] = S[i]
       /\ \A i \in 1 .. Len(G) : w[Len(S) + i] = G[i]
       /\ \A i \in 1 .. Len(E) : w[Len(S) + Len(G) + i] = E[i]
       /\ \A i \in 1 .. Len(B) : w[Len(S) + Len(G) + Len(E) + i] = B[i]
  <2>1. S \in Seq(Symbol) /\ E \in Seq(Symbol) /\ B \in Seq(Symbol) /\ G \in Seq(Symbol)
    BY <1>1, <1>11
  <2>2. S \o G \o E \o B \in Seq(Symbol) /\ Parts(S \o G \o E \o B, S, G, E, B)
    BY <2>1, FourParts, Zenon
  <2>3. w \in Seq(Symbol) /\ Parts(w, S, G, E, B)
    BY <2>2, <1>11, Zenon
  <2> QED
    BY <2>3 DEF Parts
<1>13. Len(G) = Len(H[N]) /\ Start(a, N) = Len(S) + Len(G)
  BY <1>6, <1>10, Zenon DEF G
<1>14. Len(S) \in Nat /\ Len(G) \in Nat
  BY <1>1, <1>11
<1>15. Len(w) = Start(a, N) + 2 + Len(B)
  BY <1>12, <1>13, <1>1, Zenon
<1>16. Start(a, 0) = Len(S)
  <2>1. Len(H[0]) = 0
    BY <1>2, EmptySeq
  <2> QED
    BY <2>1, <1>6, <1>14
<1>17. \A k \in 0 .. N : Start(a, k) \in Nat
  BY <1>6, <1>8, <1>14
<1>18. ASSUME NEW k \in 0 .. N - 1
       PROVE  /\ k + 1 \in 1 .. N /\ LineAt(a, k) = L[k + 1]
              /\ Start(a, k + 1) = Start(a, k) + Len(LineAt(a, k))
              /\ Start(a, k + 1) <= Start(a, N)
  <2>1. k + 1 \in 1 .. N /\ k + 1 \in 0 .. N /\ k \in 0 .. N /\ (k + 1) - 1 = k
    BY <1>1
  <2>2. LineAt(a, k) = L[k + 1]
    BY <2>1, <1>3, Zenon
  <2>3. Len(H[k + 1]) = Len(H[k]) + Len(L[k + 1]) /\ Len(H[k + 1]) <= Len(H[N])
    BY <2>1, <1>9, Zenon
  <2>4. Start(a, k) = Len(S) + Len(H[k]) /\ Start(a, k + 1) = Len(S) + Len(H[k + 1])
    BY <2>1, <1>6, Zenon
  <2>5. Len(H[k]) \in Nat /\ Len(H[k + 1]) \in Nat /\ Len(L[k + 1]) \in Nat
    BY <2>1, <1>8, <1>2, LenProperties
  <2> DEFINE x == Len(H[k])
             y == Len(H[k + 1])
             l == Len(L[k + 1])
             g == Len(H[N])
             s == Len(S)
  <2>6. /\ y = x + l /\ y <= g /\ x \in Nat /\ y \in Nat /\ l \in Nat /\ g \in Nat /\ s \in Nat
        /\ Start(a, k) = s + x /\ Start(a, k + 1) = s + y /\ Start(a, N) = s + g
        /\ Len(LineAt(a, k)) = l
    BY <2>2, <2>3, <2>4, <2>5, <1>13, <1>14, Zenon
  <2>7. Start(a, k + 1) = Start(a, k) + Len(LineAt(a, k)) /\ Start(a, k + 1) <= Start(a, N)
    <3> HIDE DEF x, y, l, g, s
    <3> QED
      BY <2>6
  <2> QED
    BY <2>1, <2>2, <2>7
<1>19. \A k \in 0 .. N : k = N \/ k \in 0 .. N - 1
  BY <1>1
<1>20. ASSUME NEW k \in 0 .. N PROVE Start(a, k) + Len(LineAt(a, k)) <= Start(a, N) + 2
  <2>1. CASE k = N
    BY <2>1, <1>4, <1>1, <1>17
  <2>2. CASE k \in 0 .. N - 1
    <3>1. k + 1 \in 0 .. N
      BY <2>2, <1>1
    <3>2. Start(a, k + 1) \in Nat /\ Start(a, N) \in Nat
      BY <3>1, <1>10, <1>17, Zenon
    <3>3. Start(a, k + 1) = Start(a, k) + Len(LineAt(a, k)) /\ Start(a, k + 1) <= Start(a, N)
      BY <2>2, <1>18, Zenon
    <3>4. Start(a, k + 1) <= Start(a, N) + 2
      BY <3>2, <3>3
    <3> QED
      BY <3>3, <3>4, Zenon
  <2> QED
    BY <2>1, <2>2, <1>19, Zenon
<1>21. ASSUME NEW k \in 0 .. N, NEW i \in 1 .. Len(LineAt(a, k))
       PROVE  w[Start(a, k) + i] = LineAt(a, k)[i]
  <2>1. CASE k = N
    BY <2>1, <1>4, <1>12, <1>13, Zenon
  <2>2. CASE k \in 0 .. N - 1
    <3>1. k + 1 \in 1 .. N /\ LineAt(a, k) = L[k + 1] /\ (k + 1) - 1 = k
      BY <2>2, <1>18
    <3>2. H[N][Len(H[k]) + i] = L[k + 1][i]
      BY <3>1, <1>9, Zenon
    <3> DEFINE x == Len(H[k])
               s == Len(S)
               g == Len(G)
    <3>3. /\ Start(a, k) = s + x /\ x \in Nat /\ s \in Nat /\ g \in Nat
          /\ Start(a, N) = s + g
      BY <1>6, <1>8, <1>14, <1>13, Zenon
    <3>4. Start(a, k) + Len(LineAt(a, k)) <= Start(a, N) /\ Len(LineAt(a, k)) \in Nat
      <4>1. Start(a, k + 1) = Start(a, k) + Len(LineAt(a, k)) /\ Start(a, k + 1) <= Start(a, N)
        BY <2>2, <1>18, Zenon
      <4>2. Len(LineAt(a, k)) \in 2 .. 8
        BY LineAtFacts DEF N
      <4> QED
        BY <4>1, <4>2
    <3>5. x + i \in 1 .. g /\ Start(a, k) + i = s + (x + i)
      <4> HIDE DEF x, s, g
      <4> QED
        BY <3>3, <3>4
    <3>6. w[Len(S) + (Len(H[k]) + i)] = G[Len(H[k]) + i]
      BY <3>5, <1>12, Zenon
    <3> QED
      BY <3>1, <3>2, <3>5, <3>6, Zenon DEF G
  <2> QED
    BY <2>1, <2>2, <1>19, Zenon
<1>22. ASSUME NEW i \in 1 .. Len(B) PROVE w[Start(a, N) + 2 + i] = B[i]
  BY <1>12, <1>13, <1>1, Zenon
<1> QED
  BY <1>12, <1>15, <1>16, <1>17, <1>18, <1>20, <1>21, <1>22, Zenon DEF N, S, B, w

\* Positions on a line of six.
LEMMA OneToSix == \A q \in 1 .. 6 : q = 1 \/ q = 2 \/ q = 3 \/ q = 4 \/ q = 5 \/ q = 6
  OBVIOUS

\* Cells of the line of a header x with a value v that is one symbol.
SixShape(l, x, v) ==
    /\ l[1] = x /\ l[4] = v /\ l[5] = CR
    /\ \A q \in 1 .. 6 : (l[q] = LF <=> q = 6) /\ (l[q] = COLON <=> q = 2)

\* The line of a length or an id header.
LEMMA SixCells ==
    ASSUME NEW x, NEW v, x \notin {CR, LF, COLON}, v \notin {CR, LF, COLON},
           NEW l, l = <<x, COLON, " ", v, CR, LF>>
    PROVE  SixShape(l, x, v)
<1>1. l[1] = x /\ l[2] = COLON /\ l[3] = " " /\ l[4] = v /\ l[5] = CR /\ l[6] = LF
  OBVIOUS
<1>2. CR # LF /\ CR # COLON /\ LF # COLON /\ " " \notin {CR, LF, COLON}
  BY DEF CR, LF, COLON
<1>3. ASSUME NEW q \in 1 .. 6 PROVE (l[q] = LF <=> q = 6) /\ (l[q] = COLON <=> q = 2)
  <2>1. q = 1 \/ q = 2 \/ q = 3 \/ q = 4 \/ q = 5 \/ q = 6
    BY OneToSix
  <2> QED
    BY <1>1, <1>2, <2>1
<1> QED
  BY <1>1, <1>3 DEF SixShape

\* The line of an ARN header: two colons.
LEMMA EightCells ==
    LET l == <<"Lambda-Runtime-Invoked-Function-Arn", COLON, " ", "arn", COLON, "name", CR, LF>>
    IN  /\ l[6] = "name" /\ l[7] = CR
        /\ \A q \in 1 .. 8 : (l[q] = LF <=> q = 8) /\ (l[q] = COLON <=> q = 2 \/ q = 5)
<1> DEFINE l == <<"Lambda-Runtime-Invoked-Function-Arn", COLON, " ", "arn", COLON, "name", CR, LF>>
<1>1. /\ l[1] = "Lambda-Runtime-Invoked-Function-Arn" /\ l[2] = COLON /\ l[3] = " "
      /\ l[4] = "arn" /\ l[5] = COLON /\ l[6] = "name" /\ l[7] = CR /\ l[8] = LF
  OBVIOUS
<1> HIDE DEF l
<1>2. /\ CR # LF /\ CR # COLON /\ LF # COLON
      /\ " " \notin {LF, COLON} /\ "arn" \notin {LF, COLON} /\ "name" \notin {LF, COLON}
      /\ "Lambda-Runtime-Invoked-Function-Arn" \notin {LF, COLON}
  BY DEF CR, LF, COLON
<1>3. ASSUME NEW q \in 1 .. 8
      PROVE  (l[q] = LF <=> q = 8) /\ (l[q] = COLON <=> q = 2 \/ q = 5)
  <2>1. q = 1 \/ q = 2 \/ q = 3 \/ q = 4 \/ q = 5 \/ q = 6 \/ q = 7 \/ q = 8
    OBVIOUS
  <2> QED
    BY <1>1, <1>2, <2>1
<1> QED
  BY <1>1, <1>3 DEF l

\* Only the last symbol of a header line is a line feed, and where its colons are.
LEMMA HeaderShape ==
    ASSUME NEW b \in Bodies, NEW h \in HeaderKinds
    PROVE  LET l == HeaderLine(h, b)
               n == Len(l)
           IN  /\ n = IF h = "arn" THEN 8 ELSE 6
               /\ l[n - 1] = CR /\ l[n - 2] # LF
               /\ \A q \in 1 .. n : l[q] = LF <=> q = n
               /\ h # "arn" => /\ \A q \in 1 .. 6 : l[q] = COLON <=> q = 2
               /\ h = "arn" => /\ \A q \in 1 .. 8 : l[q] = COLON <=> q = 2 \/ q = 5
               /\ h = "length" => l[1] = "Content-Length" /\ l[4] = Numeral[Len(b) + 1]
               /\ h = "id" => l[1] = "Lambda-Runtime-Aws-Request-Id" /\ l[4] = "uuid"
<1> DEFINE l == HeaderLine(h, b)
           n == Len(l)
           v == Numeral[Len(b) + 1]
<1>0. v \notin {CR, LF, COLON}
  BY BodyFacts
<1>1. /\ "Content-Length" \notin {CR, LF, COLON} /\ "uuid" \notin {CR, LF, COLON}
      /\ "Lambda-Runtime-Aws-Request-Id" \notin {CR, LF, COLON} /\ "name" # LF
      /\ "length" # "arn" /\ "id" # "arn" /\ "length" # "id"
  BY DEF CR, LF, COLON
<1>2. n = IF h = "arn" THEN 8 ELSE 6
  BY HeaderLineFacts
<1>3. CASE h = "length"
  <2>1. l = <<"Content-Length", COLON, " ", v, CR, LF>>
    BY <1>3, HeaderLineIs, Zenon
  <2> HIDE DEF l, v
  <2>2. /\ l[1] = "Content-Length" /\ l[4] = v /\ l[5] = CR
        /\ \A q \in 1 .. 6 : (l[q] = LF <=> q = 6) /\ (l[q] = COLON <=> q = 2)
    <3>1. SixShape(l, "Content-Length", v)
      BY <2>1, <1>0, <1>1, SixCells, Zenon
    <3> QED
      BY <3>1 DEF SixShape
  <2>3. n = 6
    BY <1>2, <1>3
  <2> HIDE DEF n
  <2>4. l[n - 1] = CR /\ l[n - 2] # LF /\ \A q \in 1 .. n : l[q] = LF <=> q = n
    BY <2>2, <2>3, <1>0
  <2> QED
    BY <2>2, <2>3, <2>4, <1>1, <1>3 DEF l, n, v
<1>4. CASE h = "id"
  <2>1. l = <<"Lambda-Runtime-Aws-Request-Id", COLON, " ", "uuid", CR, LF>>
    BY <1>4, HeaderLineIs, Zenon
  <2> HIDE DEF l, v
  <2>2. /\ l[1] = "Lambda-Runtime-Aws-Request-Id" /\ l[4] = "uuid" /\ l[5] = CR
        /\ \A q \in 1 .. 6 : (l[q] = LF <=> q = 6) /\ (l[q] = COLON <=> q = 2)
    <3>1. SixShape(l, "Lambda-Runtime-Aws-Request-Id", "uuid")
      BY <2>1, <1>1, SixCells, Zenon
    <3> QED
      BY <3>1 DEF SixShape
  <2>3. n = 6
    BY <1>2, <1>4
  <2> HIDE DEF n
  <2>4. l[n - 1] = CR /\ l[n - 2] # LF /\ \A q \in 1 .. n : l[q] = LF <=> q = n
    BY <2>2, <2>3, <1>1
  <2> QED
    BY <2>2, <2>3, <2>4, <1>1, <1>4 DEF l, n
<1>5. CASE h = "arn"
  <2>1. l = <<"Lambda-Runtime-Invoked-Function-Arn", COLON, " ", "arn", COLON, "name", CR, LF>>
    BY <1>5, HeaderLineIs, Zenon
  <2> HIDE DEF l, v
  <2>2. /\ l[6] = "name" /\ l[7] = CR
        /\ \A q \in 1 .. 8 : (l[q] = LF <=> q = 8) /\ (l[q] = COLON <=> q = 2 \/ q = 5)
    BY <2>1, EightCells, Zenon
  <2>3. n = 8
    BY <1>2, <1>5
  <2> HIDE DEF n
  <2>4. l[n - 1] = CR /\ l[n - 2] # LF /\ \A q \in 1 .. n : l[q] = LF <=> q = n
    BY <2>2, <2>3, <1>1
  <2> QED
    BY <2>2, <2>3, <2>4, <1>1, <1>5 DEF l, n
<1> QED
  BY <1>3, <1>4, <1>5 DEF HeaderKinds

\* Only the last symbol of a status line is a line feed, and it has no colon.
LEMMA StatusShape ==
    ASSUME NEW st \in Statuses
    PROVE  LET l == StatusLine(st)
               n == Len(l)
           IN  /\ n \in {2, 4, 5}
               /\ \A q \in 1 .. n : (l[q] = LF <=> q = n) /\ l[q] # COLON
               /\ st \in {"bareLF", "blank"} \/ (n = 5 /\ l[4] = CR /\ l[3] # LF)
               /\ st = "bareLF" => n = 4 /\ l[3] # CR
               /\ st = "blank" => n = 2
               /\ st = "gone1.0" => l[1] = "HTTP/1.0" /\ l[2] = " " /\ l[3] = "410"
               /\ st \in {"ok", "gone1.1"} => l[1] # "HTTP/1.0"
<1> DEFINE l == StatusLine(st)
           n == Len(l)
<1>1. st = "ok" \/ st = "gone1.0" \/ st = "gone1.1" \/ st = "bareLF" \/ st = "blank"
  BY HttpAssumption
<1>2. n = IF st = "blank" THEN 2 ELSE IF st = "bareLF" THEN 4 ELSE 5
  BY StatusLineFacts
<1>3. CR # LF /\ CR # COLON /\ LF # COLON /\ " " \notin {CR, LF, COLON}
      /\ "200" \notin {CR, LF, COLON} /\ "410" \notin {CR, LF, COLON}
      /\ "HTTP/1.1" \notin {CR, LF, COLON} /\ "HTTP/1.0" \notin {CR, LF, COLON}
  BY DEF CR, LF, COLON
<1>4. CASE st \in {"ok", "gone1.0", "gone1.1"}
  <2>1. /\ l[1] = IF st = "gone1.0" THEN "HTTP/1.0" ELSE "HTTP/1.1"
        /\ l[2] = " " /\ l[3] \in {"200", "410"} /\ l[4] = CR /\ l[5] = LF
        /\ st = "gone1.0" => l[3] = "410"
    <3>1. CASE st = "ok"
      <4>1. l = <<"HTTP/1.1", " ", "200", CR, LF>>
        BY <3>1, StatusLineIs, Zenon
      <4> HIDE DEF l
      <4> QED
        BY <4>1, <3>1
    <3>2. CASE st = "gone1.0"
      <4>1. l = <<"HTTP/1.0", " ", "410", CR, LF>>
        BY <3>2, StatusLineIs, Zenon
      <4> HIDE DEF l
      <4> QED
        BY <4>1, <3>2
    <3>3. CASE st = "gone1.1"
      <4>1. l = <<"HTTP/1.1", " ", "410", CR, LF>>
        BY <3>3, StatusLineIs, Zenon
      <4> HIDE DEF l
      <4> QED
        BY <4>1, <3>3
    <3> QED
      BY <1>4, <3>1, <3>2, <3>3
  <2>2. n = 5
    BY <1>2, <1>4
  <2> HIDE DEF l, n
  <2>3. \A q \in 1 .. n : q = 1 \/ q = 2 \/ q = 3 \/ q = 4 \/ q = 5
    BY <2>2
  <2>4. ASSUME NEW q \in 1 .. n PROVE (l[q] = LF <=> q = n) /\ l[q] # COLON
    BY <2>1, <2>2, <2>3, <1>3
  <2>5. l[3] # LF /\ (st # "gone1.0" => l[1] # "HTTP/1.0")
    BY <2>1, <1>3
  <2> QED
    BY <2>1, <2>2, <2>4, <2>5, <1>4 DEF l, n
<1>5. CASE st = "bareLF"
  <2>1. l = <<"HTTP/1.1", " ", "200", LF>>
    BY <1>5, StatusLineIs, Zenon
  <2>2. n = 4
    BY <1>2, <1>5
  <2> HIDE DEF l, n
  <2>3. l[1] = "HTTP/1.1" /\ l[2] = " " /\ l[3] = "200" /\ l[4] = LF
    BY <2>1
  <2>4. \A q \in 1 .. n : q = 1 \/ q = 2 \/ q = 3 \/ q = 4
    BY <2>2
  <2>5. ASSUME NEW q \in 1 .. n PROVE (l[q] = LF <=> q = n) /\ l[q] # COLON
    BY <2>2, <2>3, <2>4, <1>3
  <2> QED
    BY <2>2, <2>3, <2>5, <1>3, <1>5 DEF l, n
<1>6. CASE st = "blank"
  <2>1. l = <<CR, LF>>
    BY <1>6, StatusLineIs, Zenon
  <2>2. n = 2
    BY <1>2, <1>6
  <2> HIDE DEF l, n
  <2>3. l[1] = CR /\ l[2] = LF
    BY <2>1
  <2>4. \A q \in 1 .. n : q = 1 \/ q = 2
    BY <2>2
  <2>5. ASSUME NEW q \in 1 .. n PROVE (l[q] = LF <=> q = n) /\ l[q] # COLON
    BY <2>2, <2>3, <2>4, <1>3
  <2> QED
    BY <2>2, <2>3, <2>5, <1>6 DEF l, n
<1> QED
  BY <1>1, <1>4, <1>5, <1>6

\* A subsequence of one cell,
LEMMA OneCell ==
    ASSUME NEW S, NEW w \in Seq(S), NEW k \in 1 .. Len(w)
    PROVE  SubSeq(w, k, k) = <<w[k]>>
<1>1. w[k] \in S /\ <<w[k]>> \in Seq(S) /\ Len(<<w[k]>>) = 1 /\ <<w[k]>>[1] = w[k]
  OBVIOUS
<1>2. \A i \in k .. k : w[i] \in S
  OBVIOUS
<1>3. k \in Int /\ k - k + 1 = 1 /\ k + 1 - 1 = k /\ k <= k
  OBVIOUS
<1> DEFINE u == SubSeq(w, k, k)
<1>4. /\ u \in Seq(S) /\ Len(u) = IF k <= k THEN k - k + 1 ELSE 0
      /\ \A i \in 1 .. k - k + 1 : u[i] = w[k + i - 1]
  BY <1>2, <1>3, SubSeqProperties
<1> HIDE DEF u
<1>5. Len(u) = 1 /\ u[1] = w[k]
  BY <1>3, <1>4
<1>6. u = <<w[k]>>
  BY <1>1, <1>4, <1>5, SeqEqual
<1> QED
  BY <1>6 DEF u

\* ... and one of the first three.
LEMMA ThreeCells ==
    ASSUME NEW S, NEW w \in Seq(S), Len(w) >= 3
    PROVE  SubSeq(w, 1, 3) = <<w[1], w[2], w[3]>>
<1> DEFINE t == <<w[1], w[2], w[3]>>
           u == SubSeq(w, 1, 3)
<1>1. w[1] \in S /\ w[2] \in S /\ w[3] \in S
  OBVIOUS
<1>2. t \in Seq(S) /\ Len(t) = 3 /\ t[1] = w[1] /\ t[2] = w[2] /\ t[3] = w[3]
  BY <1>1
<1>3. \A i \in 1 .. 3 : w[i] \in S /\ (i = 1 \/ i = 2 \/ i = 3)
  OBVIOUS
<1>4. 1 \in Int /\ 3 \in Int /\ 1 <= 3 /\ 3 - 1 + 1 = 3 /\ 1 + 1 - 1 = 1 /\ 1 + 2 - 1 = 2
  OBVIOUS
<1>5. /\ u \in Seq(S) /\ Len(u) = IF 1 <= 3 THEN 3 - 1 + 1 ELSE 0
      /\ \A i \in 1 .. 3 - 1 + 1 : u[i] = w[1 + i - 1]
  BY <1>3, <1>4, SubSeqProperties
<1> HIDE DEF t, u
<1>6. Len(u) = 3 /\ u[1] = w[1] /\ u[2] = w[2] /\ u[3] = w[3]
  BY <1>5
<1>7. \A i \in 1 .. Len(u) : u[i] = t[i]
  BY <1>2, <1>3, <1>6
<1>8. u = t
  BY <1>2, <1>5, <1>6, <1>7, SeqEqual
<1> QED
  BY <1>8 DEF u, t

\* Only the last symbol of a line is a line feed, and a CR precedes it.
LEMMA LineShape ==
    ASSUME NEW a \in Answers, NEW k \in 0 .. Len(a.headers)
    PROVE  LET l == LineAt(a, k)
               n == Len(l)
           IN  /\ l \in Seq(Symbol) /\ n \in 2 .. 8
               /\ \A q \in 1 .. n : l[q] = LF <=> q = n
               /\ l[n - 1] = CR
               /\ k < Len(a.headers) => n \in {6, 8} /\ l[n - 2] # LF
               /\ k = Len(a.headers) => n = 2
<1> DEFINE l == LineAt(a, k)
           n == Len(l)
           N == Len(a.headers)
<1>1. l \in Seq(Symbol) /\ n \in 2 .. 8 /\ N \in Nat
  BY LineAtFacts, AnswerFacts
<1>2. CASE k < N
  <2>1. k + 1 \in 1 .. N /\ k # N
    BY <1>1, <1>2
  <2>2. a.headers[k + 1] \in HeaderKinds /\ a.body \in Bodies
    BY <2>1, AnswerFacts
  <2>3. l = HeaderLine(a.headers[k + 1], a.body)
    BY <1>2, Zenon DEF LineAt
  <2> HIDE DEF l
  <2>4. /\ n = IF a.headers[k + 1] = "arn" THEN 8 ELSE 6
        /\ l[n - 1] = CR /\ l[n - 2] # LF
        /\ \A q \in 1 .. n : l[q] = LF <=> q = n
    BY <2>2, <2>3, HeaderShape, Zenon
  <2>5. n \in {6, 8}
    BY <2>4
  <2> QED
    BY <1>1, <1>2, <2>1, <2>4, <2>5, Zenon DEF l
<1>3. CASE k = N
  <2>1. l = <<CR, LF>>
    BY <1>1, <1>3 DEF LineAt
  <2> HIDE DEF l
  <2>2. n = 2 /\ l[1] = CR /\ l[2] = LF
    BY <2>1
  <2> HIDE DEF n
  <2>3. \A q \in 1 .. n : q = 1 \/ q = 2
    BY <2>2
  <2>4. CR # LF
    BY DEF CR, LF
  <2>5. \A q \in 1 .. n : l[q] = LF <=> q = n
    BY <2>2, <2>3, <2>4
  <2>6. l[n - 1] = CR /\ ~ (k < N)
    BY <2>2, <1>1, <1>3
  <2> QED
    BY <1>1, <1>3, <2>2, <2>5, <2>6, Zenon DEF l, n
<1>4. k < N \/ k = N
  BY <1>1
<1> QED
  BY <1>2, <1>3, <1>4

\* The cells of line k of an answer, counted from its first one.
LEMMA CellsOfLine ==
    ASSUME NEW a \in Answers, NEW k \in 0 .. Len(a.headers), NEW i \in 0 .. Len(LineAt(a, k)) - 1
    PROVE  LET l == LineAt(a, k)
               s == Start(a, k)
           IN  /\ s \in Nat /\ s + i < Len(Wire(a))
               /\ Wire(a)[(s + i) + 1] = l[i + 1]
               /\ i > 0 => Wire(a)[(s + i - 1) + 1] = l[i]
               /\ i > 1 => Wire(a)[(s + i - 2) + 1] = l[i - 1]
<1> DEFINE l == LineAt(a, k)
           s == Start(a, k)
           n == Len(l)
           w == Wire(a)
           e == Start(a, Len(a.headers))
<1>1. n \in 2 .. 8
  BY LineAtFacts
<1>2. /\ s \in Nat /\ s + n <= e + 2 /\ Len(w) = e + 2 + Len(a.body)
      /\ \A q \in 1 .. n : w[s + q] = l[q]
  BY Layout, Zenon
<1>3. Len(a.body) \in Nat /\ Len(a.headers) \in 0 .. Len(a.headers)
  BY AnswerFacts, BodyFacts
<1>4. e \in Nat
  BY <1>3, Layout, Zenon
<1>5. i \in 0 .. n - 1
  OBVIOUS
<1> DEFINE b == Len(a.body)
           m == Len(w)
<1>6. s + i < Len(w)
  <2>1. n \in 2 .. 8 /\ s \in Nat /\ s + n <= e + 2 /\ m = e + 2 + b /\ b \in Nat /\ e \in Nat
    BY <1>1, <1>2, <1>3, <1>4, Zenon
  <2>2. s + i < m
    <3> HIDE DEF s, n, e, b, m
    <3> QED
      BY <2>1, <1>5
  <2> QED
    BY <2>2, Zenon
<1> HIDE DEF l, s, n, w, e
<1>7. i + 1 \in 1 .. n /\ (s + i) + 1 = s + (i + 1)
  BY <1>1, <1>2, <1>5
<1>8. i > 0 => i \in 1 .. n /\ (s + i - 1) + 1 = s + i
  BY <1>1, <1>2, <1>5
<1>9. i > 1 => i - 1 \in 1 .. n /\ (s + i - 2) + 1 = s + (i - 1)
  BY <1>1, <1>2, <1>5
<1>10. w[(s + i) + 1] = l[i + 1]
  <2>1. w[s + (i + 1)] = l[i + 1]
    BY <1>2, <1>7, Zenon
  <2> QED
    BY <2>1, <1>7
<1>11. i > 0 => w[(s + i - 1) + 1] = l[i]
  BY <1>2, <1>8, Zenon
<1>12. i > 1 => w[(s + i - 2) + 1] = l[i - 1]
  BY <1>2, <1>9, Zenon
<1> QED
  BY <1>2, <1>6, <1>10, <1>11, <1>12, Zenon DEF l, s, n, w

\* The cells of the status line.
LEMMA CellsOfStatus ==
    ASSUME NEW a \in Answers, NEW i \in 0 .. Len(StatusLine(a.status)) - 1
    PROVE  LET l == StatusLine(a.status)
           IN  /\ i < Len(Wire(a))
               /\ Wire(a)[i + 1] = l[i + 1]
               /\ i > 0 => Wire(a)[(i - 1) + 1] = l[i]
               /\ i > 1 => Wire(a)[(i - 2) + 1] = l[i - 1]
<1> DEFINE l == StatusLine(a.status)
           n == Len(l)
           w == Wire(a)
           e == Start(a, Len(a.headers))
<1>1. n \in {2, 4, 5}
  BY AnswerFacts, StatusShape, Zenon
<1>2. /\ \A q \in 1 .. n : w[q] = l[q]
      /\ Len(w) = e + 2 + Len(a.body) /\ Start(a, 0) = n
      /\ Start(a, 0) + Len(LineAt(a, 0)) <= e + 2
  <2>1. 0 \in 0 .. Len(a.headers)
    BY AnswerFacts
  <2> QED
    BY <2>1, Layout, Zenon
<1>3. Len(a.body) \in Nat /\ Len(a.headers) \in 0 .. Len(a.headers) /\ 0 \in 0 .. Len(a.headers)
  BY AnswerFacts, BodyFacts
<1>4. e \in Nat /\ Len(LineAt(a, 0)) \in 2 .. 8
  BY <1>3, Layout, LineAtFacts, Zenon
<1>5. i \in 0 .. n - 1
  OBVIOUS
<1> DEFINE b == Len(a.body)
           m == Len(w)
           f == Start(a, 0)
           g == Len(LineAt(a, 0))
<1>6. i < Len(w)
  <2>1. /\ n \in {2, 4, 5} /\ f = n /\ f + g <= e + 2 /\ m = e + 2 + b /\ b \in Nat /\ e \in Nat
        /\ g \in 2 .. 8
    BY <1>1, <1>2, <1>3, <1>4, Zenon
  <2>2. i < m
    <3> HIDE DEF n, e, b, m, f, g
    <3> QED
      BY <2>1, <1>5
  <2> QED
    BY <2>2, Zenon
<1> HIDE DEF l, n, w, e
<1>7. i + 1 \in 1 .. n
  BY <1>1, <1>5
<1>8. i > 0 => i \in 1 .. n /\ (i - 1) + 1 = i
  BY <1>1, <1>5
<1>9. i > 1 => i - 1 \in 1 .. n /\ (i - 2) + 1 = i - 1
  BY <1>1, <1>5
<1> QED
  BY <1>2, <1>6, <1>7, <1>8, <1>9, Zenon DEF l, n, w

\* The blank line follows a line break.
LEMMA BreakBeforeBlank ==
    ASSUME NEW a \in Answers, a.status \in {"ok", "gone1.1"}
    PROVE  LET s == Start(a, Len(a.headers))
           IN  s >= 5 /\ Wire(a)[s] = LF
<1> DEFINE N == Len(a.headers)
           w == Wire(a)
<1>1. N \in Nat
  BY AnswerFacts
<1>2. /\ Len(StatusLine(a.status)) = 5 /\ StatusLine(a.status)[5] = LF
  <2>1. /\ Len(StatusLine(a.status)) = 5
        /\ \A q \in 1 .. Len(StatusLine(a.status)) :
               StatusLine(a.status)[q] = LF <=> q = Len(StatusLine(a.status))
    <3>1. a.status \in Statuses /\ ~ (a.status \in {"bareLF", "blank"})
      BY AnswerFacts
    <3> QED
      BY <3>1, StatusShape, Zenon
  <2>2. 5 \in 1 .. 5
    OBVIOUS
  <2> QED
    BY <2>1, <2>2, Zenon
<1>3. Start(a, 0) = 5 /\ w[5] = LF
  <2>1. 5 \in 1 .. 5
    OBVIOUS
  <2> QED
    BY <2>1, <1>2, Layout, Zenon
<1>4. CASE N = 0
  <2>1. 5 >= 5
    OBVIOUS
  <2> QED
    BY <1>3, <1>4, <2>1, Zenon
<1>5. CASE N # 0
  <2> DEFINE k == N - 1
             l == LineAt(a, k)
             n == Len(l)
             s == Start(a, k)
  <2>1. k \in 0 .. N /\ k \in 0 .. N - 1 /\ k + 1 = N
    BY <1>1, <1>5
  <2>2. Start(a, k + 1) = s + n /\ \A q \in 1 .. n : w[s + q] = l[q]
    BY <2>1, Layout, Zenon
  <2>3. n \in 2 .. 8 /\ \A q \in 1 .. n : l[q] = LF <=> q = n
    BY <2>1, LineShape, Zenon
  <2>4. n \in 1 .. n
    <3>1. n \in 2 .. 8
      BY <2>3, Zenon
    <3> HIDE DEF n
    <3> QED
      BY <3>1
  <2>5. w[Start(a, N)] = LF
    BY <2>1, <2>2, <2>3, <2>4, Zenon
  <2>6. Start(a, N) >= 5
    <3>1. s \in Nat /\ s >= 5
      <4>1. s = Len(StatusLine(a.status)) + Len(HeaderLines(a)[k])
        BY DEF Start
      <4>2. Len(HeaderLines(a)[k]) \in Nat
        <5> DEFINE H == HeaderLines(a)
                   L == [m \in 1 .. N |-> HeaderLine(a.headers[m], a.body)]
        <5>1. /\ L \in [1 .. N -> Seq(Symbol)] /\ H[0] = <<>>
              /\ \A m \in 1 .. N : H[m] = H[m - 1] \o L[m]
          BY HeaderLinesFacts, Zenon
        <5> HIDE DEF H, L, N, k
        <5>2. \A m \in 0 .. N : H[m] \in Seq(Symbol)
          BY <1>1, <5>1, RunningType, Zenon
        <5>3. H[k] \in Seq(Symbol)
          BY <2>1, <5>2, Zenon
        <5> QED
          BY <5>3, LenProperties DEF H
      <4> QED
        BY <4>1, <4>2, <1>2
    <3>2. Start(a, N) = s + n
      BY <2>1, <2>2, Zenon
    <3> HIDE DEF s, n, k
    <3> QED
      BY <3>1, <3>2, <2>3
  <2> QED
    BY <2>5, <2>6
<1> QED
  BY <1>4, <1>5

\* The suffix of a sequence.
LEMMA SuffixCells ==
    ASSUME NEW S, NEW w \in Seq(S), NEW b \in Seq(S), NEW p \in Nat,
           Len(w) = p + Len(b), \A i \in 1 .. Len(b) : w[p + i] = b[i]
    PROVE  SubSeq(w, p + 1, Len(w)) = b
<1> DEFINE m == p + 1
           n == Len(w)
           u == SubSeq(w, m, n)
<1>1. m \in Int /\ n \in Int /\ n - m + 1 = Len(b) /\ Len(b) \in Nat /\ n \in Nat
  OBVIOUS
<1>2. \A i \in m .. n : w[i] \in S
  <2>1. \A i \in 1 .. Len(w) : w[i] \in S
    BY ElementOfSeq
  <2>2. \A i \in m .. n : i \in 1 .. Len(w)
    BY <1>1
  <2> QED
    BY <2>1, <2>2, Zenon
<1> HIDE DEF m, n
<1>3. /\ u \in Seq(S) /\ Len(u) = IF m <= n THEN n - m + 1 ELSE 0
      /\ \A i \in 1 .. n - m + 1 : u[i] = w[m + i - 1]
  BY <1>1, <1>2, SubSeqProperties
<1> HIDE DEF u
<1>4. Len(u) = Len(b)
  BY <1>1, <1>3
<1>5. ASSUME NEW i \in 1 .. Len(u) PROVE u[i] = b[i]
  <2>1. m + i - 1 = p + i /\ i \in 1 .. n - m + 1 /\ i \in 1 .. Len(b)
    BY <1>1, <1>4 DEF m
  <2>2. u[i] = w[m + i - 1]
    BY <1>3, <2>1, Zenon
  <2>3. w[p + i] = b[i]
    BY <2>1
  <2> QED
    BY <2>1, <2>2, <2>3
<1>6. u = b
  BY <1>3, <1>4, <1>5, SeqEqual
<1> QED
  BY <1>6 DEF u, m, n

-----------------------------------------------------------------------------
(* The inductive invariant.                                                  *)

Counters ==
    /\ total_bytes_received \in Nat /\ parse_point \in Nat
    /\ remain \in Int /\ content_length \in Int /\ body_start \in Int

\* Headers: remain is the free part of the buffer, and the parser is behind recv().
InHeaders ==
    body_start = NULL =>
        /\ total_bytes_received + remain = RecvBufSize /\ remain >= 0
        /\ parse_point <= total_bytes_received
        /\ midway => parse_point < total_bytes_received

\* Body: remain is what is missing of content_length bytes, and nothing is parsed.
InBody ==
    body_start # NULL =>
        /\ remain = content_length - (total_bytes_received - body_start)
        /\ content_length >= 0
        /\ 0 < body_start /\ body_start <= total_bytes_received
        /\ parse_point = total_bytes_received /\ ~ midway

\* The call returns when nothing remains.
AtReturn == outcome = "returned" => remain = 0 /\ ~ midway

\* The service sends nothing but its answer; flags and outcomes are among the values.
Bounded ==
    /\ answer \in Answers /\ total_bytes_received <= Len(Wire(answer))
    /\ midway \in BOOLEAN /\ broken \in BOOLEAN
    /\ outcome \in {"running", "returned", "exit0", "fatal"}

NoId == [data |-> NULL, len |-> 0]

\* d is the last colon among the first i cells of the line l, which starts at cell s.
Delimited(l, i, s, d) ==
    \/ d = NULL /\ \A q \in 1 .. i : l[q] # COLON
    \/ \E m \in 1 .. i : /\ l[m] = COLON /\ \A q \in m + 1 .. i : l[q] # COLON
                         /\ d = s + m - 1

\* The parser, at cell p, is inside the line l.
InLine(l, s, p, d) == \E i \in 0 .. Len(l) - 1 : p = s + i /\ Delimited(l, i, s, d)

\* The length and the id that the first j header lines of an answer tell.
LengthFrom(a, j, length) ==
    length = IF \E m \in 1 .. j : a.headers[m] = "length" THEN Len(a.body) ELSE -1

IdFrom(a, j, id) ==
    \/ id = NoId /\ \A m \in 1 .. j : a.headers[m] # "id"
    \/ \E m \in 1 .. j : /\ a.headers[m] = "id"
                         /\ id = [data |-> Start(a, m - 1) + 3, len |-> 1]

\* The parser is on the status line,
OnStatusLine(a, s, p, d, length, id) ==
    s = 0 /\ InLine(StatusLine(a.status), s, p, d) /\ length = -1 /\ id = NoId

\* ... on line j behind it,
OnLine(a, j, s, p, d, length, id) ==
    /\ a.status \in {"ok", "gone1.1"}
    /\ s = Start(a, j) /\ InLine(LineAt(a, j), s, p, d)
    /\ LengthFrom(a, j, length) /\ IdFrom(a, j, id)

\* ... or past the blank line.
PastHeaders(a, s, b, d, length, id) ==
    /\ a.status \in {"ok", "gone1.1"}
    /\ s = Start(a, Len(a.headers)) /\ b = s + 2 /\ d = NULL
    /\ LengthFrom(a, Len(a.headers), length) /\ length >= 0 /\ IdFrom(a, Len(a.headers), id)

Position ==
    IF body_start = NULL
    THEN \/ OnStatusLine(answer, line_start, parse_point, delimiter, content_length, awsRequestId)
         \/ \E j \in 0 .. Len(answer.headers) :
               OnLine(answer, j, line_start, parse_point, delimiter, content_length, awsRequestId)
    ELSE PastHeaders(answer, line_start, body_start, delimiter, content_length, awsRequestId)

\* http() gives up for a reason.
AtExit ==
    /\ outcome = "exit0" => answer.status = "gone1.0"
    /\ outcome = "fatal" =>
          broken \/ answer.status \in {"bareLF", "blank"} \/ "length" \notin SentHeaders

IInv == Counters /\ InHeaders /\ InBody /\ AtReturn /\ Bounded /\ Position /\ AtExit

-----------------------------------------------------------------------------
(* The delimiter of a line, cell by cell.                                    *)

\* One more cell of a line, which may be a colon.
LEMMA NextCell ==
    ASSUME NEW l, NEW i \in Nat, NEW s \in Nat, NEW d, Delimited(l, i, s, d)
    PROVE  Delimited(l, i + 1, s, IF l[i + 1] = COLON THEN s + i ELSE d)
<1>1. CASE l[i + 1] = COLON
  <2>1. i + 1 \in 1 .. i + 1 /\ (i + 1) + 1 .. i + 1 = {} /\ s + (i + 1) - 1 = s + i
    OBVIOUS
  <2> QED
    BY <1>1, <2>1, Zenon DEF Delimited
<1>2. CASE l[i + 1] # COLON
  <2>1. CASE d = NULL /\ \A q \in 1 .. i : l[q] # COLON
    <3>1. \A q \in 1 .. i + 1 : q \in 1 .. i \/ q = i + 1
      OBVIOUS
    <3> QED
      BY <1>2, <2>1, <3>1, Zenon DEF Delimited
  <2>2. ASSUME NEW m \in 1 .. i, l[m] = COLON, \A q \in m + 1 .. i : l[q] # COLON, d = s + m - 1
        PROVE  Delimited(l, i + 1, s, d)
    <3>1. m \in 1 .. i + 1 /\ \A q \in m + 1 .. i + 1 : q \in m + 1 .. i \/ q = i + 1
      OBVIOUS
    <3> QED
      BY <1>2, <2>2, <3>1, Zenon DEF Delimited
  <2> QED
    BY <1>2, <2>1, <2>2, Zenon DEF Delimited
<1> QED
  BY <1>1, <1>2

\* A line starts without a delimiter.
LEMMA LineStarts ==
    ASSUME NEW l, Len(l) \in Nat, Len(l) > 0, NEW s \in Nat
    PROVE  InLine(l, s, s, NULL)
<1>1. 0 \in 0 .. Len(l) - 1 /\ s = s + 0 /\ 1 .. 0 = {}
  OBVIOUS
<1> QED
  BY <1>1, Zenon DEF InLine, Delimited

\* The parser moves on inside a line.
LEMMA CellParsed ==
    ASSUME NEW l, Len(l) \in Nat, NEW s \in Nat, NEW i \in 0 .. Len(l) - 1, NEW d,
           Delimited(l, i, s, d), i + 1 # Len(l)
    PROVE  InLine(l, s, s + i + 1, IF l[i + 1] = COLON THEN s + i ELSE d)
<1>1. i \in Nat /\ i + 1 \in 0 .. Len(l) - 1 /\ s + i + 1 = s + (i + 1)
  OBVIOUS
<1> DEFINE e == IF l[i + 1] = COLON THEN s + i ELSE d
<1>2. Delimited(l, i + 1, s, e)
  BY <1>1, NextCell, Zenon
<1> HIDE DEF e
<1>3. InLine(l, s, s + i + 1, e)
  BY <1>1, <1>2, Zenon DEF InLine
<1> QED
  BY <1>3 DEF e

\* The delimiter of a header line when its line break is reached.
LEMMA DelimiterIs ==
    ASSUME NEW b \in Bodies, NEW h \in HeaderKinds, NEW s \in Nat, NEW d,
           Delimited(HeaderLine(h, b), Len(HeaderLine(h, b)) - 1, s, d)
    PROVE  d = IF h = "arn" THEN s + 4 ELSE s + 1
<1> DEFINE l == HeaderLine(h, b)
           n == Len(l)
<1>1. /\ n = IF h = "arn" THEN 8 ELSE 6
      /\ h # "arn" => \A q \in 1 .. 6 : l[q] = COLON <=> q = 2
      /\ h = "arn" => \A q \in 1 .. 8 : l[q] = COLON <=> q = 2 \/ q = 5
  BY HeaderShape, Zenon
<1>2. \/ d = NULL /\ \A q \in 1 .. n - 1 : l[q] # COLON
      \/ \E m \in 1 .. n - 1 : /\ l[m] = COLON /\ \A q \in m + 1 .. n - 1 : l[q] # COLON
                               /\ d = s + m - 1
  BY Zenon DEF Delimited
<1> HIDE DEF l, n
<1>3. CASE h # "arn"
  BY <1>1, <1>2, <1>3
<1>4. CASE h = "arn"
  <2>1. n = 8 /\ \A q \in 1 .. 8 : l[q] = COLON <=> q = 2 \/ q = 5
    BY <1>1, <1>4, Zenon
  <2>2. l[5] = COLON
    BY <2>1
  <2>3. PICK m \in 1 .. 7 : l[m] = COLON /\ (\A q \in m + 1 .. 7 : l[q] # COLON) /\ d = s + m - 1
    BY <1>2, <2>1, <2>2
  <2>4. m = 2 \/ m = 5
    BY <2>1, <2>3
  <2>5. m = 5
    BY <2>2, <2>3, <2>4
  <2> QED
    BY <2>3, <2>5, <1>4
<1> QED
  BY <1>3, <1>4

-----------------------------------------------------------------------------
(* Line breaks: which line the parser is on decides what it does.            *)

\* The parser is on the status line, or on line j behind it.
StatusHere == OnStatusLine(answer, line_start, parse_point, delimiter, content_length, awsRequestId)
LineHere(j) == OnLine(answer, j, line_start, parse_point, delimiter, content_length, awsRequestId)

\* Cell i of the line l is the one to be parsed, with the ones before it as on the line.
Here(l, i) ==
    /\ i \in 0 .. Len(l) - 1 /\ parse_point < Len(Wire(answer))
    /\ Delimited(l, i, line_start, delimiter)
    /\ response(parse_point) = l[i + 1]
    /\ i > 0 => response(parse_point - 1) = l[i]
    /\ i > 1 => response(parse_point - 2) = l[i - 1]
    /\ response(parse_point) = LF <=> i + 1 = Len(l)

\* What the parser sees on the status line,
LEMMA OnStatus ==
    ASSUME answer \in Answers, StatusHere
    PROVE  /\ line_start = 0 /\ parse_point \in Nat /\ Here(StatusLine(answer.status), parse_point)
           /\ delimiter = NULL
<1> DEFINE l == StatusLine(answer.status)
           n == Len(l)
<1>1. /\ n \in {2, 4, 5}
      /\ \A q \in 1 .. n : (l[q] = LF <=> q = n) /\ l[q] # COLON
  BY AnswerFacts, StatusShape, Zenon
<1>2. PICK i \in 0 .. n - 1 : parse_point = line_start + i /\ Delimited(l, i, line_start, delimiter)
  BY Zenon DEF StatusHere, OnStatusLine, InLine
<1>3. line_start = 0
  BY DEF StatusHere, OnStatusLine
<1>4. parse_point = i /\ i \in Nat /\ n \in Nat /\ i + 1 \in 1 .. n
  <2>1. n \in {2, 4, 5}
    BY <1>1, Zenon
  <2> HIDE DEF n
  <2> QED
    BY <1>2, <1>3, <2>1
<1>5. /\ i < Len(Wire(answer)) /\ Wire(answer)[i + 1] = l[i + 1]
      /\ i > 0 => Wire(answer)[(i - 1) + 1] = l[i]
      /\ i > 1 => Wire(answer)[(i - 2) + 1] = l[i - 1]
  BY CellsOfStatus, Zenon
<1>6. Here(l, parse_point)
  BY <1>1, <1>2, <1>4, <1>5, Zenon DEF Here, response
<1>7. delimiter = NULL
  <2>1. \A q \in 1 .. i : q \in 1 .. n
    <3> HIDE DEF n
    <3> QED
      BY <1>4
  <2> QED
    BY <1>1, <1>2, <2>1, Zenon DEF Delimited
<1> QED
  BY <1>3, <1>4, <1>6, <1>7, Zenon

\* ... and on line j behind it.
LEMMA OnLineJ ==
    ASSUME answer \in Answers, NEW j \in 0 .. Len(answer.headers), LineHere(j)
    PROVE  /\ line_start = Start(answer, j) /\ line_start \in Nat
           /\ \E i \in Nat : parse_point = line_start + i /\ Here(LineAt(answer, j), i)
<1> DEFINE l == LineAt(answer, j)
           n == Len(l)
           s == Start(answer, j)
<1>1. n \in 2 .. 8 /\ \A q \in 1 .. n : l[q] = LF <=> q = n
  BY LineShape, Zenon
<1>2. PICK i \in 0 .. n - 1 : parse_point = line_start + i /\ Delimited(l, i, line_start, delimiter)
  BY Zenon DEF LineHere, OnLine, InLine
<1>3. line_start = s
  BY DEF LineHere, OnLine
<1>4. i \in Nat /\ i + 1 \in 1 .. n
  <2>1. n \in 2 .. 8
    BY <1>1, Zenon
  <2> HIDE DEF n
  <2> QED
    BY <1>2, <2>1
<1>5. /\ s \in Nat /\ s + i < Len(Wire(answer))
      /\ Wire(answer)[(s + i) + 1] = l[i + 1]
      /\ i > 0 => Wire(answer)[(s + i - 1) + 1] = l[i]
      /\ i > 1 => Wire(answer)[(s + i - 2) + 1] = l[i - 1]
  BY CellsOfLine, Zenon
<1>6. parse_point = s + i
  BY <1>2, <1>3, Zenon
<1>7. Here(l, i)
  <2>1. /\ parse_point < Len(Wire(answer)) /\ response(parse_point) = l[i + 1]
        /\ i > 0 => response(parse_point - 1) = l[i]
        /\ i > 1 => response(parse_point - 2) = l[i - 1]
    <3> DEFINE w == Wire(answer)
    <3>1. /\ s + i < Len(w) /\ w[(s + i) + 1] = l[i + 1]
          /\ i > 0 => w[(s + i - 1) + 1] = l[i]
          /\ i > 1 => w[(s + i - 2) + 1] = l[i - 1]
      BY <1>5, Zenon
    <3>2. /\ parse_point < Len(w) /\ w[parse_point + 1] = l[i + 1]
          /\ i > 0 => w[(parse_point - 1) + 1] = l[i]
          /\ i > 1 => w[(parse_point - 2) + 1] = l[i - 1]
      <4>1. s \in Nat /\ i \in Nat
        BY <1>4, <1>5, Zenon
      <4> HIDE DEF w, s, l
      <4> QED
        BY <4>1, <3>1, <1>6
    <3> QED
      BY <3>2, Zenon DEF response
  <2>2. response(parse_point) = LF <=> i + 1 = n
    BY <2>1, <1>1, <1>4, Zenon
  <2> QED
    BY <2>1, <2>2, <1>2, Zenon DEF Here
<1> QED
  BY <1>2, <1>3, <1>4, <1>5, <1>7, Zenon

\* At the end of the status line http() fails for a malformed one, exits for HTTP/1.0 410,
\* and goes on otherwise.
LEMMA BreakOnStatus ==
    ASSUME answer \in Answers, StatusHere, Parsing, response(parse_point) = LF
    PROVE  /\ bad_line_break <=> answer.status \in {"bareLF", "blank"}
           /\ ~ bad_line_break => /\ parse_point + 1 = Len(StatusLine(answer.status))
                                  /\ Len(StatusLine(answer.status)) = 5
                                  /\ ~ EndOfHeaders
                                  /\ Shutdown <=> answer.status = "gone1.0"
<1> DEFINE st == answer.status
           l == StatusLine(st)
           n == Len(l)
           p == parse_point
<1>1. line_start = 0 /\ p \in Nat /\ Here(l, p) /\ delimiter = NULL
  BY OnStatus
<1>2. st \in Statuses
  BY AnswerFacts
<1>3. /\ n \in {2, 4, 5}
      /\ st \in {"bareLF", "blank"} \/ (n = 5 /\ l[4] = CR /\ l[3] # LF)
      /\ st = "bareLF" => n = 4 /\ l[3] # CR
      /\ st = "blank" => n = 2
      /\ st = "gone1.0" => l[1] = "HTTP/1.0" /\ l[2] = " " /\ l[3] = "410"
      /\ st \in {"ok", "gone1.1"} => l[1] # "HTTP/1.0"
  BY <1>2, StatusShape, Zenon
<1>4. /\ p + 1 = n
      /\ p > 0 => response(p - 1) = l[p]
      /\ p > 1 => response(p - 2) = l[p - 1]
  BY <1>1, Zenon DEF Here
<1>5. CASE st = "bareLF"
  <2>1. p = 3 /\ response(2) # CR
    <3>1. n = 4 /\ l[3] # CR
      BY <1>3, <1>5, Zenon
    <3> HIDE DEF n
    <3>2. p = 3 /\ p > 0 /\ p - 1 = 2
      BY <1>1, <1>4, <3>1
    <3> QED
      BY <1>4, <3>1, <3>2
  <2>2. bad_line_break
    BY <2>1 DEF bad_line_break
  <2> QED
    BY <2>2, <1>5
<1>6. CASE st = "blank"
  <2>1. p = 1
    <3>1. n = 2
      BY <1>3, <1>6, Zenon
    <3> HIDE DEF n
    <3> QED
      BY <1>1, <1>4, <3>1
  <2>2. bad_line_break
    BY <2>1 DEF bad_line_break
  <2> QED
    BY <2>2, <1>6
<1>7. CASE st \notin {"bareLF", "blank"}
  <2>1. n = 5 /\ l[4] = CR /\ l[3] # LF
    BY <1>3, <1>7, Zenon
  <2>2. p = 4
    <3>1. n = 5
      BY <2>1, Zenon
    <3> HIDE DEF n
    <3> QED
      BY <1>1, <1>4, <3>1
  <2>3. response(p - 1) = CR /\ response(p - 2) # LF
    <3>1. p > 0 /\ p > 1 /\ p - 1 = 3
      BY <2>2
    <3>2. response(p - 1) = l[4] /\ response(p - 2) = l[3]
      BY <1>4, <2>2, <3>1, Zenon
    <3> QED
      BY <3>2, <2>1, Zenon
  <2>4. ~ EndOfHeaders
    BY <2>3 DEF EndOfHeaders
  <2>5. ~ bad_line_break
    BY <2>2, <2>3, <2>4 DEF bad_line_break
  <2>6. Cells(line_start, line_start + 3) = <<l[1], l[2], l[3]>>
    <3> DEFINE w == Wire(answer)
    <3>1. w \in Seq(Symbol)
      BY Layout, Zenon
    <3>2. p < Len(w)
      BY <1>1, Zenon DEF Here
    <3>3. Len(w) >= 3 /\ line_start + 1 = 1 /\ line_start + 3 = 3
      <4>1. Len(w) \in Nat
        BY <3>1, LenProperties
      <4> QED
        BY <4>1, <3>2, <2>2, <1>1
    <3>4. SubSeq(w, 1, 3) = <<w[1], w[2], w[3]>>
      BY <3>1, <3>3, ThreeCells, Zenon
    <3>5. \A q \in 1 .. n : w[q] = l[q]
      BY Layout, Zenon
    <3>6. 1 \in 1 .. n /\ 2 \in 1 .. n /\ 3 \in 1 .. n
      <4>1. n = 5
        BY <2>1, Zenon
      <4> HIDE DEF n
      <4> QED
        BY <4>1
    <3>7. w[1] = l[1] /\ w[2] = l[2] /\ w[3] = l[3]
      BY <3>5, <3>6, Zenon
    <3> QED
      BY <3>3, <3>4, <3>7, Zenon DEF Cells
  <2>7. Shutdown <=> <<l[1], l[2], l[3]>> = <<"HTTP/1.0", " ", "410">>
    BY <1>1, <2>6, Zenon DEF Shutdown
  <2>8. st = "gone1.0" \/ st \in {"ok", "gone1.1"}
    BY <1>2, <1>7, HttpAssumption
  <2>9. Shutdown <=> st = "gone1.0"
    <3>1. CASE st = "gone1.0"
      BY <3>1, <2>7, <1>3, Zenon
    <3>2. CASE st \in {"ok", "gone1.1"}
      <4>1. l[1] # "HTTP/1.0" /\ st # "gone1.0"
        BY <3>2, <1>3
      <4> DEFINE x == l[1]
                 y == l[2]
                 z == l[3]
      <4>2. <<x, y, z>> = <<"HTTP/1.0", " ", "410">> => x = "HTTP/1.0"
        <5> HIDE DEF x, y, z
        <5> QED
          OBVIOUS
      <4> QED
        BY <4>1, <4>2, <2>7, Zenon
    <3> QED
      BY <3>1, <3>2, <2>8
  <2> QED
    BY <1>4, <1>7, <2>1, <2>4, <2>5, <2>9
<1> QED
  BY <1>5, <1>6, <1>7

\* At the end of a header line it goes on, with the last colon as delimiter.
LEMMA BreakOnHeader ==
    ASSUME answer \in Answers, NEW j \in 0 .. Len(answer.headers), j < Len(answer.headers),
           LineHere(j), response(parse_point) = LF
    PROVE  LET h == answer.headers[j + 1]
               l == LineAt(answer, j)
           IN  /\ ~ bad_line_break /\ ~ EndOfHeaders /\ ~ Shutdown
               /\ h \in HeaderKinds /\ l = HeaderLine(h, answer.body) /\ Len(l) = IF h = "arn" THEN 8 ELSE 6
               /\ parse_point = line_start + Len(l) - 1
               /\ delimiter = IF h = "arn" THEN line_start + 4 ELSE line_start + 1
<1> DEFINE h == answer.headers[j + 1]
           l == LineAt(answer, j)
           n == Len(l)
           p == parse_point
           s == line_start
<1>1. s \in Nat
  BY OnLineJ, Zenon
<1>2. PICK i \in Nat : p = s + i /\ Here(l, i)
  BY OnLineJ, Zenon
<1>3. h \in HeaderKinds /\ answer.body \in Bodies /\ l = HeaderLine(h, answer.body)
  <2>1. j + 1 \in 1 .. Len(answer.headers)
    BY AnswerFacts
  <2> QED
    BY <2>1, AnswerFacts DEF LineAt
<1>4. n = IF h = "arn" THEN 8 ELSE 6
  BY <1>3, HeaderLineFacts, Zenon
<1>5. /\ n \in {6, 8} /\ l[n - 1] = CR /\ l[n - 2] # LF
  BY LineShape, Zenon
<1>6. i + 1 = n
  BY <1>2, Zenon DEF Here
<1>7. i = n - 1 /\ i > 0 /\ i > 1 /\ i - 1 = n - 2 /\ p >= 3 /\ p = s + n - 1
  <2>1. n \in {6, 8}
    BY <1>5, Zenon
  <2> HIDE DEF n, s
  <2> QED
    BY <1>1, <1>2, <1>6, <2>1
<1>8. response(p - 1) = CR /\ response(p - 2) # LF
  <2>1. response(p - 1) = l[i] /\ response(p - 2) = l[i - 1]
    BY <1>2, <1>7, Zenon DEF Here
  <2> QED
    BY <2>1, <1>5, <1>7, Zenon
<1>9. ~ EndOfHeaders
  BY <1>8, Zenon DEF EndOfHeaders
<1>10. ~ bad_line_break
  <2>1. p < 3 => FALSE
    BY <1>7
  <2> QED
    BY <2>1, <1>8, <1>9, Zenon DEF bad_line_break
<1>11. Delimited(HeaderLine(h, answer.body), Len(HeaderLine(h, answer.body)) - 1, s, delimiter)
  BY <1>2, <1>3, <1>7, Zenon DEF Here
<1>12. delimiter = IF h = "arn" THEN s + 4 ELSE s + 1
  BY <1>1, <1>3, <1>11, DelimiterIs, Zenon
<1>13. ~ Shutdown
  <2>1. delimiter # NULL
    <3> HIDE DEF s, h
    <3> QED
      BY <1>1, <1>12 DEF NULL
  <2> QED
    BY <2>1, Zenon DEF Shutdown
<1> QED
  BY <1>3, <1>4, <1>7, <1>9, <1>10, <1>12, <1>13, Zenon

\* The blank line ends the headers.
LEMMA BreakOnBlank ==
    ASSUME answer \in Answers, NEW j \in 0 .. Len(answer.headers), j = Len(answer.headers),
           LineHere(j), response(parse_point) = LF
    PROVE  /\ EndOfHeaders /\ parse_point = line_start + 1 /\ delimiter = NULL
           /\ bad_line_break => content_length < 0
<1> DEFINE l == LineAt(answer, j)
           p == parse_point
           s == line_start
<1>1. s \in Nat /\ s = Start(answer, j) /\ answer.status \in {"ok", "gone1.1"}
  BY OnLineJ, Zenon DEF LineHere, OnLine
<1>2. PICK i \in Nat : p = s + i /\ Here(l, i)
  BY OnLineJ, Zenon
<1>3. Len(l) = 2 /\ l[Len(l) - 1] = CR
  BY LineShape, Zenon
<1>4. i = 1 /\ l[1] = CR
  <2>1. i + 1 = Len(l)
    BY <1>2, Zenon DEF Here
  <2> HIDE DEF l
  <2> QED
    BY <2>1, <1>3
<1>5. s >= 5 /\ Wire(answer)[s] = LF
  BY <1>1, BreakBeforeBlank, Zenon
<1>6. p = s + 1 /\ p >= 2 /\ ~ (p < 3) /\ (p - 2) + 1 = s /\ 1 > 0
  BY <1>1, <1>2, <1>4, <1>5
<1>7. response(p - 1) = CR
  BY <1>2, <1>4, <1>6, Zenon DEF Here
<1>8. response(p - 2) = LF
  BY <1>5, <1>6 DEF response
<1>9. EndOfHeaders
  BY <1>6, <1>8, Zenon DEF EndOfHeaders
<1>10. bad_line_break => content_length < 0
  BY <1>6, <1>7, Zenon DEF bad_line_break
<1>11. delimiter = NULL
  <2>1. Delimited(l, 1, s, delimiter)
    BY <1>2, <1>4, Zenon DEF Here
  <2>2. \A m \in 1 .. 1 : m = 1
    OBVIOUS
  <2>3. CR # COLON
    BY DEF CR, COLON
  <2> QED
    BY <1>4, <2>1, <2>2, <2>3, Zenon DEF Delimited
<1> QED
  BY <1>6, <1>9, <1>10, <1>11

\* atoi() reads the length the service wrote.
LEMMA AtoiOfNumeral ==
    ASSUME NEW b \in Bodies
    PROVE  atoi(Numeral[Len(b) + 1]) = Len(b)
<1> DEFINE k == Len(b) + 1
           c == CHOOSE m \in DOMAIN Numeral : Numeral[m] = Numeral[k]
<1>1. Len(b) \in Nat /\ k \in DOMAIN Numeral
  BY BodyFacts
<1>2. \A m \in DOMAIN Numeral : Numeral[m] = Numeral[k] => m = k
  BY <1>1, HttpAssumption
<1>3. c = k
  BY <1>1, <1>2, Zenon
<1>4. atoi(Numeral[k]) = c - 1
  BY <1>1, Zenon DEF atoi
<1>5. (Len(b) + 1) - 1 = Len(b)
  BY <1>1
<1> QED
  BY <1>3, <1>4, <1>5, Zenon

\* The headers are told apart by their names.
LEMMA HeaderIsOnLine ==
    ASSUME answer \in Answers, NEW j \in 0 .. Len(answer.headers), j < Len(answer.headers),
           LineHere(j), response(parse_point) = LF
    PROVE  LET h == answer.headers[j + 1]
           IN  /\ HeaderIs("Content-Length") <=> h = "length"
               /\ HeaderIs("Lambda-Runtime-Aws-Request-Id") <=> h = "id"
<1> DEFINE h == answer.headers[j + 1]
           l == LineAt(answer, j)
           n == Len(l)
           s == line_start
           w == Wire(answer)
           d == delimiter
           x == l[1]
<1>1. /\ h \in HeaderKinds /\ l = HeaderLine(h, answer.body) /\ n = IF h = "arn" THEN 8 ELSE 6
      /\ d = IF h = "arn" THEN s + 4 ELSE s + 1
  BY BreakOnHeader, Zenon
<1>2. s = Start(answer, j) /\ s \in Nat /\ w \in Seq(Symbol) /\ answer.body \in Bodies
  BY OnLineJ, Layout, AnswerFacts, Zenon
<1>3. 0 \in 0 .. n - 1
  BY <1>1
<1>4. w[(s + 0) + 1] = l[0 + 1]
  BY <1>2, <1>3, CellsOfLine, Zenon
<1>5. w[s + 1] = x
  BY <1>2, <1>4
<1>6. s + n <= Len(w) /\ Len(w) \in Nat
  <2>1. n - 1 \in 0 .. n - 1
    BY <1>1
  <2>2. s + (n - 1) < Len(w)
    BY <1>2, <2>1, CellsOfLine, Zenon
  <2>3. n \in {6, 8}
    BY <1>1
  <2>4. Len(w) \in Nat
    BY <1>2, LenProperties
  <2> HIDE DEF n, s, w
  <2> QED
    BY <1>2, <2>2, <2>3, <2>4
<1>7. "length" # "arn" /\ "id" # "arn" /\ "length" # "id"
      /\ "Content-Length" # "Lambda-Runtime-Aws-Request-Id"
  OBVIOUS
<1>8. CASE h = "arn"
  <2>1. d = s + 4 /\ n = 8
    BY <1>1, <1>8
  <2> DEFINE u == SubSeq(w, s + 1, d)
  <2>2. Len(u) = 4
    <3>1. \A i \in s + 1 .. d : w[i] \in Symbol
      <4>1. \A i \in s + 1 .. d : i \in 1 .. Len(w)
        <5> HIDE DEF s, d, w, n
        <5> QED
          BY <1>2, <1>6, <2>1
      <4> QED
        BY <4>1, <1>2, ElementOfSeq, Zenon
    <3> HIDE DEF s, d, w
    <3>2. s + 1 \in Int /\ d \in Int /\ s + 1 <= d /\ d - (s + 1) + 1 = 4
      BY <1>2, <2>1
    <3> HIDE DEF u
    <3>3. SubSeq(w, s + 1, d) = u
      BY Zenon DEF u
    <3> DEFINE m == s + 1
    <3> HIDE DEF m
    <3>4. m \in Int /\ d \in Int /\ \A i \in m .. d : w[i] \in Symbol
      BY <3>1, <3>2, Zenon DEF m
    <3>5. Len(SubSeq(w, m, d)) = IF m <= d THEN d - m + 1 ELSE 0
      BY <3>4, SubSeqProperties, Zenon
    <3> QED
      BY <3>2, <3>3, <3>5, Zenon DEF m
  <2>3. \A y : ~ (Len(u) <= Len(<<y, COLON>>))
    <3> HIDE DEF u
    <3> QED
      BY <2>2
  <2>4. \A y : ~ HeaderIs(y)
    BY <2>3, Zenon DEF HeaderIs, Cells
  <2> QED
    BY <2>4, <1>7, <1>8, Zenon
<1>9. CASE h # "arn"
  <2>1. d = s + 1 /\ n = 6
    BY <1>1, <1>9
  <2>2. d # NULL /\ s + 1 \in 1 .. Len(w)
    <3> HIDE DEF s, d, w, n
    <3> QED
      BY <1>2, <1>6, <2>1 DEF NULL
  <2>3. SubSeq(w, s + 1, d) = <<x>>
    <3>1. SubSeq(w, s + 1, s + 1) = <<w[s + 1]>>
      BY <1>2, <2>2, OneCell, Zenon
    <3> QED
      BY <3>1, <2>1, <1>5, Zenon
  <2>4. ASSUME NEW y \in Symbol PROVE HeaderIs(y) <=> x = y
    <3>1. /\ Len(<<x>>) = 1 /\ Len(<<y, COLON>>) = 2 /\ 1 <= 2 /\ <<y, COLON>>[1] = y
          /\ 1 \in 1 .. 2
      OBVIOUS
    <3>2. <<y, COLON>> \in Seq(Symbol)
      BY SymbolsAre, Tuple2, Zenon
    <3>3. SubSeq(<<y, COLON>>, 1, 1) = <<y>>
      BY <3>1, <3>2, OneCell, Zenon
    <3>4. <<x>> = <<y>> <=> x = y
      <4> HIDE DEF x
      <4> QED
        OBVIOUS
    <3> QED
      BY <2>2, <2>3, <3>1, <3>3, <3>4, Zenon DEF HeaderIs, Cells
  <2>5. /\ h = "length" => x = "Content-Length"
        /\ h = "id" => x = "Lambda-Runtime-Aws-Request-Id"
    <3> DEFINE g == HeaderLine(h, answer.body)
    <3>1. /\ h = "length" => g[1] = "Content-Length"
          /\ h = "id" => g[1] = "Lambda-Runtime-Aws-Request-Id"
      BY <1>1, <1>2, HeaderShape
    <3>2. x = g[1]
      BY <1>1, Zenon
    <3> QED
      BY <3>1, <3>2
  <2>6. h = "length" \/ h = "id"
    BY <1>1, <1>9 DEF HeaderKinds
  <2> QED
    <3>1. /\ HeaderIs("Content-Length") <=> x = "Content-Length"
          /\ HeaderIs("Lambda-Runtime-Aws-Request-Id") <=> x = "Lambda-Runtime-Aws-Request-Id"
      BY <2>4, SymbolsAre
    <3> QED
      BY <3>1, <2>5, <2>6, <1>7, Zenon
<1> QED
  BY <1>8, <1>9

\* What a header line tells is added to what the ones before it have told.
LEMMA LengthTold ==
    ASSUME answer \in Answers, NEW j \in 0 .. Len(answer.headers), j < Len(answer.headers),
           LineHere(j), response(parse_point) = LF
    PROVE  LengthFrom(answer, j + 1,
               IF HeaderIs("Content-Length") THEN atoi(response(delimiter + 2)) ELSE content_length)
<1> DEFINE h == answer.headers[j + 1]
           l == LineAt(answer, j)
           s == line_start
           b == answer.body
<1>1. HeaderIs("Content-Length") <=> h = "length"
  BY HeaderIsOnLine, Zenon
<1>2. j \in Nat /\ (\A m \in 1 .. j + 1 : m \in 1 .. j \/ m = j + 1) /\ (\A m \in 1 .. j : m \in 1 .. j + 1)
      /\ j + 1 \in 1 .. j + 1
  OBVIOUS
<1>3. LengthFrom(answer, j, content_length)
  BY DEF LineHere, OnLine
<1>4. CASE h = "length"
  <2>0. "length" # "arn"
    OBVIOUS
  <2>1. /\ l = HeaderLine(h, b) /\ Len(l) = IF h = "arn" THEN 8 ELSE 6
        /\ delimiter = IF h = "arn" THEN s + 4 ELSE s + 1
    BY BreakOnHeader, Zenon
  <2>2. s = Start(answer, j) /\ s \in Nat /\ b \in Bodies /\ h \in HeaderKinds
    BY OnLineJ, BreakOnHeader, AnswerFacts, Zenon
  <2>3. Len(l) = 6 /\ delimiter = s + 1
    BY <2>0, <2>1, <1>4, Zenon
  <2>4. 3 \in 0 .. Len(l) - 1 /\ (delimiter + 2) + 1 = (s + 3) + 1 /\ 3 + 1 = 4
    <3> HIDE DEF l, s
    <3> QED
      BY <2>2, <2>3
  <2>5. Wire(answer)[(s + 3) + 1] = l[3 + 1]
    BY <2>2, <2>4, CellsOfLine, Zenon
  <2>6. l[4] = Numeral[Len(b) + 1]
    <3> DEFINE g == HeaderLine(h, b)
    <3>1. g[4] = Numeral[Len(b) + 1]
      BY <2>2, <1>4, HeaderShape
    <3> QED
      BY <3>1, <2>1, Zenon
  <2>7. response(delimiter + 2) = Numeral[Len(b) + 1]
    <3>1. Wire(answer)[(delimiter + 2) + 1] = l[4]
      BY <2>4, <2>5
    <3> QED
      BY <3>1, <2>6, Zenon DEF response
  <2>8. atoi(response(delimiter + 2)) = Len(b)
    BY <2>2, <2>7, AtoiOfNumeral, Zenon
  <2> QED
    BY <1>1, <1>2, <1>4, <2>8, Zenon DEF LengthFrom
<1>5. CASE h # "length"
  <2>1. (\E m \in 1 .. j + 1 : answer.headers[m] = "length") <=>
        (\E m \in 1 .. j : answer.headers[m] = "length")
    BY <1>2, <1>5, Zenon
  <2> QED
    BY <1>1, <1>3, <1>5, <2>1, Zenon DEF LengthFrom
<1> QED
  BY <1>4, <1>5

\* ... and the same for the id.
LEMMA IdTold ==
    ASSUME answer \in Answers, NEW j \in 0 .. Len(answer.headers), j < Len(answer.headers),
           LineHere(j), response(parse_point) = LF
    PROVE  IdFrom(answer, j + 1,
               IF HeaderIs("Lambda-Runtime-Aws-Request-Id")
               THEN [data |-> delimiter + 2, len |-> parse_point - (delimiter + 2) - 1]
               ELSE awsRequestId)
<1> DEFINE h == answer.headers[j + 1]
           l == LineAt(answer, j)
           s == line_start
<1>1. HeaderIs("Lambda-Runtime-Aws-Request-Id") <=> h = "id"
  BY HeaderIsOnLine, Zenon
<1>2. j \in Nat /\ (\A m \in 1 .. j + 1 : m \in 1 .. j \/ m = j + 1) /\ (\A m \in 1 .. j : m \in 1 .. j + 1)
      /\ j + 1 \in 1 .. j + 1 /\ (j + 1) - 1 = j
  OBVIOUS
<1>3. IdFrom(answer, j, awsRequestId)
  BY DEF LineHere, OnLine
<1>4. CASE h = "id"
  <2>0. "id" # "arn"
    OBVIOUS
  <2>1. /\ Len(l) = IF h = "arn" THEN 8 ELSE 6
        /\ parse_point = s + Len(l) - 1
        /\ delimiter = IF h = "arn" THEN s + 4 ELSE s + 1
    BY BreakOnHeader, Zenon
  <2>2. s = Start(answer, j) /\ s \in Nat
    BY OnLineJ, Zenon
  <2>3. Len(l) = 6 /\ delimiter = s + 1
    BY <2>0, <2>1, <1>4, Zenon
  <2>4. delimiter + 2 = s + 3 /\ parse_point - (delimiter + 2) - 1 = 1
    <3> HIDE DEF l, s
    <3> QED
      BY <2>1, <2>2, <2>3
  <2>5. [data |-> delimiter + 2, len |-> parse_point - (delimiter + 2) - 1] =
        [data |-> Start(answer, (j + 1) - 1) + 3, len |-> 1]
    BY <2>2, <2>4, <1>2, Zenon
  <2> HIDE DEF s, l
  <2> QED
    BY <1>1, <1>2, <1>4, <2>5, Zenon DEF IdFrom
<1>5. CASE h # "id"
  BY <1>1, <1>2, <1>3, <1>5, Zenon DEF IdFrom
<1> QED
  BY <1>4, <1>5

-----------------------------------------------------------------------------
(* Every step keeps the invariant.                                           *)

\* What is parsed is a received cell of the headers.
LEMMA ParsingIsBehind ==
    ASSUME IInv, Parsing
    PROVE  body_start = NULL /\ parse_point < total_bytes_received
  BY DEF IInv, Parsing, Counters, InHeaders, InBody

\* While headers are received, the parser is on one of the lines.
LEMMA Where ==
    ASSUME IInv, body_start = NULL
    PROVE  answer \in Answers /\ (StatusHere \/ \E j \in 0 .. Len(answer.headers) : LineHere(j))
  BY Zenon DEF IInv, Bounded, Position, StatusHere, LineHere

\* atoi() returns a number.
LEMMA atoiIsNumber == ASSUME NEW sym PROVE atoi(sym) \in Int
<1>1. \A k \in DOMAIN Numeral : k \in Int
  BY HttpAssumption
<1> DEFINE c == CHOOSE k \in DOMAIN Numeral : Numeral[k] = sym
<1>2. (\E k \in DOMAIN Numeral : Numeral[k] = sym) => c \in Int
  BY <1>1, Zenon
<1> HIDE DEF c
<1>3. c \in Int => c - 1 \in Int
  OBVIOUS
<1>4. 0 \in Int
  OBVIOUS
<1> QED
  BY <1>2, <1>3, <1>4, Zenon DEF atoi, c

\* It holds before the first recv().
LEMMA InitInvariant == Init => IInv
<1> SUFFICES ASSUME Init PROVE IInv
  OBVIOUS
<1>1. Counters /\ InHeaders /\ InBody /\ AtReturn
  BY HttpAssumption DEF Init, Counters, InHeaders, InBody, AtReturn, NULL
<1>2. answer \in Answers
  BY DEF Init
<1>3. Bounded
  <2>1. Wire(answer) \in Seq(Symbol)
    BY <1>2, Layout, Zenon
  <2>2. Len(Wire(answer)) \in Nat
    BY <2>1, LenProperties
  <2> QED
    <3>1. total_bytes_received <= Len(Wire(answer))
      BY <2>2 DEF Init
    <3> QED
      BY <1>2, <3>1, Zenon DEF Bounded, Init
<1>4. Position
  <2> DEFINE l == StatusLine(answer.status)
  <2>1. Len(l) \in {2, 4, 5}
    BY <1>2, AnswerFacts, StatusShape, Zenon
  <2> HIDE DEF l
  <2>2. Len(l) \in Nat /\ Len(l) > 0 /\ 0 \in Nat
    BY <2>1
  <2>3. InLine(l, 0, 0, NULL)
    BY <2>2, LineStarts, Zenon
  <2>4. /\ body_start = NULL /\ line_start = 0 /\ parse_point = 0 /\ delimiter = NULL
        /\ content_length = -1 /\ awsRequestId = NoId
    BY DEF Init, NoId
  <2>5. OnStatusLine(answer, line_start, parse_point, delimiter, content_length, awsRequestId)
    BY <2>3, <2>4, Zenon DEF OnStatusLine, l
  <2> QED
    BY <2>4, <2>5, Zenon DEF Position
<1>5. AtExit
  BY DEF Init, AtExit
<1> QED
  BY <1>1, <1>3, <1>4, <1>5 DEF IInv

\* recv() adds bytes of the answer.
LEMMA RecvStep ==
    ASSUME IInv, outcome = "running", NEW n \in 1 .. remain, recv(n)
    PROVE  IInv'
<1> USE DEF IInv
<1>1. Counters'
  BY DEF Counters, recv, parser
<1>2. InHeaders'
  BY HttpAssumption DEF Counters, InHeaders, recv, parser, Waiting
<1>3. InBody'
  BY DEF Counters, InBody, recv, parser
<1>4. AtReturn' /\ AtExit'
  BY DEF AtReturn, AtExit, SentHeaders, recv
<1>5. Bounded'
  BY DEF Bounded, recv
<1>6. Position'
  <2>1. UNCHANGED <<answer, line_start, delimiter, body_start, content_length, awsRequestId>>
    BY DEF recv, parser
  <2>2. body_start = NULL => parse_point' = parse_point
    BY DEF recv
  <2> QED
    BY <2>1, <2>2, Zenon DEF Position
<1> QED
  BY <1>1, <1>2, <1>3, <1>4, <1>5, <1>6

\* One cell of a line is parsed.
LEMMA ParseCellStep == ASSUME IInv, outcome = "running", parse_cell PROVE IInv'
<1> USE DEF IInv
<1>1. Parsing /\ response(parse_point) # LF
  BY DEF parse_cell
<1>2. body_start = NULL /\ parse_point < total_bytes_received
  BY <1>1, ParsingIsBehind
<1>3. Counters' /\ AtReturn' /\ Bounded' /\ AtExit'
  <2>1. Counters' /\ AtReturn'
    BY DEF Counters, AtReturn, parse_cell
  <2>2. /\ UNCHANGED <<answer, total_bytes_received, outcome, broken>>
        /\ midway' = FALSE
    BY DEF parse_cell
  <2>3. Bounded'
    BY <2>2, Zenon DEF Bounded
  <2>4. AtExit'
    BY <2>2 DEF AtExit, SentHeaders
  <2> QED
    BY <2>1, <2>3, <2>4
<1>4. InHeaders' /\ InBody'
  BY <1>2 DEF Counters, InHeaders, InBody, parse_cell
<1>5. Position'
  <2>1. /\ UNCHANGED <<answer, line_start, body_start, content_length, awsRequestId>>
        /\ delimiter' = IF response(parse_point) = COLON THEN parse_point ELSE delimiter
        /\ parse_point' = parse_point + 1
    BY DEF parse_cell
  <2>2. answer \in Answers
    BY <1>2, Where, Zenon
  <2>3. CASE StatusHere
    <3> DEFINE l == StatusLine(answer.status)
               i == parse_point
    <3>1. line_start = 0 /\ i \in Nat /\ Here(l, i)
      BY <2>2, <2>3, OnStatus, Zenon
    <3>2. /\ i \in 0 .. Len(l) - 1 /\ Delimited(l, i, 0, delimiter) /\ i + 1 # Len(l)
          /\ response(i) = l[i + 1]
      BY <1>1, <3>1, Zenon DEF Here
    <3>3. Len(l) \in Nat /\ 0 \in Nat
      <4>1. Len(l) \in {2, 4, 5}
        BY <2>2, AnswerFacts, StatusShape, Zenon
      <4> QED
        BY <4>1
    <3>4. InLine(l, 0, 0 + i + 1, IF l[i + 1] = COLON THEN 0 + i ELSE delimiter)
      BY <3>2, <3>3, CellParsed, Zenon
    <3>5. 0 + i + 1 = i + 1 /\ 0 + i = i
      BY <3>1
    <3>6. InLine(l, 0, parse_point', delimiter')
      BY <2>1, <3>2, <3>4, <3>5, Zenon
    <3> QED
      BY <2>1, <2>3, <1>2, <3>1, <3>6, Zenon DEF Position, StatusHere, OnStatusLine
  <2>4. ASSUME NEW j \in 0 .. Len(answer.headers), LineHere(j) PROVE Position'
    <3> DEFINE l == LineAt(answer, j)
               s == line_start
    <3>1. s \in Nat
      BY <2>2, <2>4, OnLineJ, Zenon
    <3>2. PICK i \in Nat : parse_point = s + i /\ Here(l, i)
      BY <2>2, <2>4, OnLineJ, Zenon
    <3>3. /\ i \in 0 .. Len(l) - 1 /\ Delimited(l, i, s, delimiter) /\ i + 1 # Len(l)
          /\ response(parse_point) = l[i + 1]
      BY <1>1, <3>2, Zenon DEF Here
    <3>4. Len(l) \in Nat
      <4>1. Len(l) \in 2 .. 8
        BY <2>2, LineAtFacts, Zenon
      <4> QED
        BY <4>1
    <3>5. InLine(l, s, s + i + 1, IF l[i + 1] = COLON THEN s + i ELSE delimiter)
      BY <3>1, <3>3, <3>4, CellParsed, Zenon
    <3>6. InLine(l, s, parse_point', delimiter')
      BY <2>1, <3>2, <3>3, <3>5, Zenon
    <3> QED
      BY <2>1, <2>4, <1>2, <3>6, Zenon DEF Position, LineHere, OnLine
  <2> QED
    BY <1>2, <2>3, <2>4, Where, Zenon
<1> QED
  BY <1>3, <1>4, <1>5

\* The bytes behind the blank line belong to the body: remain changes its meaning.
LEMMA EndOfHeadersStep == ASSUME IInv, outcome = "running", end_of_headers PROVE IInv'
<1> USE DEF IInv
<1>1. Parsing /\ response(parse_point) = LF /\ ~ bad_line_break /\ EndOfHeaders
  BY DEF end_of_headers, LineBreak
<1>2. body_start = NULL /\ parse_point < total_bytes_received
  BY <1>1, ParsingIsBehind
<1>3. content_length >= 0
  BY <1>1 DEF bad_line_break, Counters
<1>4. Counters' /\ AtReturn' /\ Bounded' /\ AtExit'
  <2>1. Counters' /\ AtReturn'
    BY DEF Counters, AtReturn, end_of_headers
  <2>2. /\ UNCHANGED <<answer, total_bytes_received, outcome, broken>>
        /\ midway' = FALSE
    BY DEF end_of_headers
  <2>3. Bounded'
    BY <2>2, Zenon DEF Bounded
  <2>4. AtExit'
    BY <2>2 DEF AtExit, SentHeaders
  <2> QED
    BY <2>1, <2>3, <2>4
<1>5. InHeaders' /\ InBody'
  BY <1>2, <1>3 DEF Counters, InHeaders, InBody, end_of_headers, NULL
<1>6. Position'
  <2>1. answer \in Answers /\ ~ StatusHere
    BY <1>1, <1>2, Where, BreakOnStatus, Zenon
  <2>2. PICK j \in 0 .. Len(answer.headers) : LineHere(j)
    BY <1>2, <2>1, Where, Zenon
  <2>3. j = Len(answer.headers)
    <3>1. ~ (j < Len(answer.headers))
      BY <1>1, <2>1, <2>2, BreakOnHeader, Zenon
    <3> QED
      BY <3>1, <2>1, AnswerFacts
  <2>4. parse_point = line_start + 1 /\ delimiter = NULL
    BY <1>1, <2>1, <2>2, <2>3, BreakOnBlank, Zenon
  <2>5. line_start \in Nat
    BY <2>1, <2>2, OnLineJ, Zenon
  <2>6. body_start' = line_start + 2 /\ body_start' # NULL
    BY <2>4, <2>5 DEF end_of_headers, NULL
  <2>7. UNCHANGED <<answer, line_start, delimiter, content_length, awsRequestId>>
    BY DEF end_of_headers
  <2>8. PastHeaders(answer, line_start, body_start', delimiter, content_length, awsRequestId)
    BY <2>2, <2>3, <2>4, <2>6, <1>3, Zenon DEF LineHere, OnLine, PastHeaders
  <2> QED
    BY <2>6, <2>7, <2>8, Zenon DEF Position
<1> QED
  BY <1>4, <1>5, <1>6

\* The status line or a header line ends.
LEMMA EndOfLineStep == ASSUME IInv, outcome = "running", end_of_line PROVE IInv'
<1> USE DEF IInv
<1>1. Parsing /\ response(parse_point) = LF /\ ~ bad_line_break /\ ~ EndOfHeaders /\ ~ Shutdown
  BY DEF end_of_line, LineBreak
<1>2. body_start = NULL /\ parse_point < total_bytes_received
  BY <1>1, ParsingIsBehind
<1>3. Counters' /\ AtReturn' /\ Bounded' /\ AtExit'
  <2>1. Counters' /\ AtReturn'
    BY atoiIsNumber DEF Counters, AtReturn, end_of_line
  <2>2. /\ UNCHANGED <<answer, total_bytes_received, outcome, broken>>
        /\ midway' = FALSE
    BY DEF end_of_line
  <2>3. Bounded'
    BY <2>2, Zenon DEF Bounded
  <2>4. AtExit'
    BY <2>2 DEF AtExit, SentHeaders
  <2> QED
    BY <2>1, <2>3, <2>4
<1>4. InHeaders' /\ InBody'
  BY <1>2 DEF Counters, InHeaders, InBody, end_of_line
<1>5. /\ content_length' = IF HeaderIs("Content-Length") THEN atoi(response(delimiter + 2))
                           ELSE content_length
      /\ awsRequestId' = IF HeaderIs("Lambda-Runtime-Aws-Request-Id")
                         THEN [data |-> delimiter + 2,
                               len  |-> parse_point - (delimiter + 2) - 1]
                         ELSE awsRequestId
      /\ line_start' = parse_point + 1 /\ delimiter' = NULL /\ parse_point' = parse_point + 1
      /\ UNCHANGED <<answer, body_start>>
  BY DEF end_of_line
<1>6. answer \in Answers
  BY <1>2, Where, Zenon
<1> DEFINE N == Len(answer.headers)
<1>7. N \in Nat
  BY <1>6, AnswerFacts
<1>8. ASSUME NEW k \in 0 .. N, answer.status \in {"ok", "gone1.1"}, parse_point + 1 = Start(answer, k),
             LengthFrom(answer, k, content_length'), IdFrom(answer, k, awsRequestId')
      PROVE  Position'
  <2> DEFINE l == LineAt(answer, k)
             s == Start(answer, k)
  <2>1. Len(l) \in Nat /\ Len(l) > 0
    <3>1. Len(l) \in 2 .. 8
      BY <1>6, <1>8, LineAtFacts, Zenon
    <3>2. \A x \in 2 .. 8 : x \in Nat /\ x > 0
      OBVIOUS
    <3> QED
      BY <3>1, <3>2, Zenon
  <2>2. s \in Nat
    BY <1>6, Layout, Zenon
  <2>3. InLine(l, s, s, NULL)
    BY <2>1, <2>2, LineStarts, Zenon
  <2>4. OnLine(answer, k, line_start', parse_point', delimiter', content_length', awsRequestId')
    BY <1>5, <1>8, <2>3, Zenon DEF OnLine
  <2> QED
    BY <1>2, <1>5, <2>4, Zenon DEF Position
<1>9. ASSUME StatusHere PROVE Position'
  <2>1. /\ answer.status \notin {"bareLF", "blank"} /\ parse_point + 1 = Len(StatusLine(answer.status))
        /\ answer.status # "gone1.0"
    BY <1>1, <1>6, <1>9, BreakOnStatus, Zenon
  <2>2. answer.status \in {"ok", "gone1.1"}
    BY <2>1, <1>6, AnswerFacts, HttpAssumption
  <2>3. parse_point + 1 = Start(answer, 0)
    BY <2>1, <1>6, Layout, Zenon
  <2>4. delimiter = NULL
    BY <1>6, <1>9, OnStatus, Zenon
  <2>5. content_length' = -1 /\ awsRequestId' = NoId
    BY <1>5, <1>9, <2>4, Zenon DEF HeaderIs, StatusHere, OnStatusLine
  <2>6. 0 \in 0 .. N /\ 1 .. 0 = {}
    BY <1>7
  <2>7. LengthFrom(answer, 0, content_length') /\ IdFrom(answer, 0, awsRequestId')
    BY <2>5, <2>6, Zenon DEF LengthFrom, IdFrom
  <2> QED
    BY <1>8, <2>2, <2>3, <2>6, <2>7, Zenon
<1>10. ASSUME NEW j \in 0 .. N, LineHere(j) PROVE Position'
  <2>1. j < N
    <3>1. j # N
      BY <1>1, <1>6, <1>10, BreakOnBlank, Zenon
    <3> QED
      BY <3>1, <1>7
  <2>2. parse_point = line_start + Len(LineAt(answer, j)) - 1
    BY <1>1, <1>6, <1>10, <2>1, BreakOnHeader, Zenon
  <2>3. line_start = Start(answer, j) /\ line_start \in Nat
    BY <1>6, <1>10, OnLineJ, Zenon
  <2>4. j + 1 \in 0 .. N /\ j \in 0 .. N - 1
    BY <2>1, <1>7
  <2>5. Start(answer, j + 1) = Start(answer, j) + Len(LineAt(answer, j))
    BY <2>4, <1>6, Layout, Zenon
  <2>6. parse_point + 1 = Start(answer, j + 1)
    <3>1. Len(LineAt(answer, j)) \in 2 .. 8
      BY <1>6, <1>10, LineAtFacts, Zenon
    <3> QED
      BY <3>1, <2>2, <2>3, <2>5
  <2>7. LengthFrom(answer, j + 1, content_length')
    BY <1>1, <1>5, <1>6, <1>10, <2>1, LengthTold, Zenon
  <2>8. IdFrom(answer, j + 1, awsRequestId')
    BY <1>1, <1>5, <1>6, <1>10, <2>1, IdTold, Zenon
  <2>9. answer.status \in {"ok", "gone1.1"}
    BY <1>10 DEF LineHere, OnLine
  <2> QED
    BY <1>8, <2>4, <2>6, <2>7, <2>8, <2>9, Zenon
<1>11. Position'
  BY <1>2, <1>9, <1>10, Where, Zenon
<1> QED
  BY <1>3, <1>4, <1>11

\* The loop never runs over the buffer: it waits for bytes of the answer only.
LEMMA RemainsOfAnswer ==
    ASSUME IInv
    PROVE  /\ Len(Wire(answer)) \in Nat /\ Len(Wire(answer)) <= RecvBufSize
           /\ body_start = NULL => parse_point < Len(Wire(answer))
           /\ body_start # NULL => remain = Len(Wire(answer)) - total_bytes_received
<1> DEFINE w == Wire(answer)
           m == Len(w)
           N == Len(answer.headers)
<1>1. answer \in Answers
  BY DEF IInv, Bounded
<1>2. m \in Nat
  <2>1. w \in Seq(Symbol)
    BY <1>1, Layout, Zenon
  <2> QED
    BY <2>1, LenProperties
<1>3. m <= RecvBufSize
  <2>1. m + Slack <= RecvBufSize
    BY <1>1, AnswerFacts, Zenon
  <2> HIDE DEF m
  <2> QED
    BY <1>2, <2>1, HttpAssumption
<1>4. ASSUME body_start = NULL PROVE parse_point < m
  <2>1. ASSUME StatusHere PROVE parse_point < m
    BY <1>1, <2>1, OnStatus, Zenon DEF Here
  <2>2. ASSUME NEW j \in 0 .. N, LineHere(j) PROVE parse_point < m
    BY <1>1, <2>2, OnLineJ, Zenon DEF Here
  <2> QED
    BY <1>4, <2>1, <2>2, Where, Zenon
<1>5. ASSUME body_start # NULL PROVE remain = m - total_bytes_received
  <2>1. PastHeaders(answer, line_start, body_start, delimiter, content_length, awsRequestId)
    BY <1>5, Zenon DEF IInv, Position
  <2>2. body_start = Start(answer, N) + 2 /\ content_length >= 0
        /\ LengthFrom(answer, N, content_length)
    BY <2>1, Zenon DEF PastHeaders
  <2>3. content_length = Len(answer.body)
    BY <2>2 DEF LengthFrom
  <2>4. m = Start(answer, N) + 2 + Len(answer.body)
    BY <1>1, Layout, Zenon
  <2>5. Start(answer, N) \in Nat /\ Len(answer.body) \in Nat
    <3>1. N \in 0 .. N
      BY <1>1, AnswerFacts
    <3> QED
      BY <1>1, <3>1, AnswerFacts, BodyFacts, Layout, Zenon
  <2>6. remain = content_length - (total_bytes_received - body_start) /\ total_bytes_received \in Nat
    BY <1>5 DEF IInv, InBody, Counters
  <2> DEFINE e == Start(answer, N)
             b == Len(answer.body)
  <2>7. /\ body_start = e + 2 /\ content_length = b /\ m = e + 2 + b /\ e \in Nat /\ b \in Nat
    BY <2>2, <2>3, <2>4, <2>5, Zenon
  <2> HIDE DEF m, e, b
  <2> QED
    BY <2>6, <2>7
<1> QED
  BY <1>2, <1>3, <1>4, <1>5, Zenon

\* http() dies only on a malformed answer, or one without a length.
LEMMA FatalStep == ASSUME IInv, outcome = "running", fatal PROVE AtExit'
<1>1. ~ overflow
  <2> DEFINE m == Len(Wire(answer))
  <2>1. /\ m \in Nat /\ m <= RecvBufSize
        /\ body_start = NULL => parse_point < m
        /\ body_start # NULL => remain = m - total_bytes_received
    BY RemainsOfAnswer, Zenon
  <2>2. total_bytes_received <= m
    BY DEF IInv, Bounded
  <2> HIDE DEF m
  <2> QED
    BY <2>1, <2>2, HttpAssumption DEF overflow, IInv, Counters, InBody
<1>2. bad_line_break
  BY <1>1 DEF fatal
<1>3. Parsing /\ response(parse_point) = LF
  BY <1>2 DEF bad_line_break
<1>4. body_start = NULL
  BY <1>3, ParsingIsBehind
<1>5. answer \in Answers
  BY <1>4, Where, Zenon
<1>6. answer.status \in {"bareLF", "blank"} \/ "length" \notin SentHeaders
  <2>1. CASE StatusHere
    BY <1>2, <1>3, <1>5, <2>1, BreakOnStatus, Zenon
  <2>2. ASSUME NEW j \in 0 .. Len(answer.headers), LineHere(j) PROVE "length" \notin SentHeaders
    <3>1. Len(answer.headers) \in Nat /\ DOMAIN answer.headers = 1 .. Len(answer.headers)
      BY <1>5, AnswerFacts
    <3>2. ~ (j < Len(answer.headers))
      BY <1>2, <1>3, <1>5, <2>2, BreakOnHeader, Zenon
    <3>3. j = Len(answer.headers)
      BY <3>1, <3>2
    <3>4. content_length < 0
      BY <1>2, <1>3, <1>5, <2>2, <3>3, BreakOnBlank, Zenon
    <3>5. LengthFrom(answer, j, content_length)
      BY <2>2 DEF LineHere, OnLine
    <3>6. Len(answer.body) \in Nat
      BY <1>5, AnswerFacts, BodyFacts
    <3>7. content_length # Len(answer.body)
      BY <3>4, <3>6
    <3>8. ~ \E m \in 1 .. j : answer.headers[m] = "length"
      BY <3>5, <3>7, Zenon DEF LengthFrom
    <3> QED
      BY <3>1, <3>3, <3>8, Zenon DEF SentHeaders
  <2> QED
    BY <1>4, <2>1, <2>2, Where, Zenon
<1> QED
  BY <1>6 DEF fatal, AtExit, SentHeaders

\* http() exits only for a 410.
LEMMA ShutdownStep == ASSUME IInv, outcome = "running", shutdown PROVE AtExit'
<1>1. Parsing /\ response(parse_point) = LF /\ ~ bad_line_break /\ ~ EndOfHeaders /\ Shutdown
  BY DEF shutdown, LineBreak
<1>2. body_start = NULL
  BY <1>1, ParsingIsBehind
<1>3. answer \in Answers
  BY <1>2, Where, Zenon
<1>4. ~ \E j \in 0 .. Len(answer.headers) : LineHere(j)
  <2>1. SUFFICES ASSUME NEW j \in 0 .. Len(answer.headers), LineHere(j) PROVE FALSE
    OBVIOUS
  <2>2. j < Len(answer.headers) \/ j = Len(answer.headers)
    BY <1>3, AnswerFacts
  <2> QED
    BY <1>1, <1>3, <2>1, <2>2, BreakOnHeader, BreakOnBlank, Zenon
<1>5. StatusHere
  BY <1>2, <1>4, Where, Zenon
<1>6. answer.status = "gone1.0"
  BY <1>1, <1>3, <1>5, BreakOnStatus, Zenon
<1> QED
  BY <1>6 DEF shutdown, AtExit

\* Every step keeps it.
LEMMA NextInvariant == IInv /\ [Next]_vars => IInv'
<1> SUFFICES ASSUME IInv, [Next]_vars PROVE IInv'
  OBVIOUS
<1>0. ASSUME UNCHANGED <<answer, total_bytes_received, remain, parse_point, parser, midway>>
      PROVE  Counters' /\ InHeaders' /\ InBody' /\ Position'
  <2>1. Counters' /\ InHeaders' /\ InBody'
    BY <1>0 DEF parser, IInv, Counters, InHeaders, InBody
  <2>2. UNCHANGED <<answer, parse_point, line_start, delimiter, body_start, content_length,
                    awsRequestId>>
    BY <1>0 DEF parser
  <2>3. Position'
    BY <2>2, Zenon DEF Position, IInv
  <2> QED
    BY <2>1, <2>3
<1>1. CASE Next
  <2>1. outcome = "running"
    BY <1>1 DEF Next
  <2>2. CASE recv_fails
    <3>1. Bounded' /\ AtReturn' /\ AtExit'
      BY <2>2 DEF recv_fails, IInv, Bounded, AtReturn, AtExit
    <3> QED
      BY <3>1, <2>2, <1>0 DEF recv_fails, IInv
  <2>3. CASE fatal
    <3>1. Bounded' /\ AtReturn'
      BY <2>3 DEF fatal, IInv, Bounded, AtReturn
    <3> QED
      BY <3>1, <2>1, <2>3, <1>0, FatalStep DEF fatal, IInv
  <2>4. CASE shutdown
    <3>1. Bounded' /\ AtReturn'
      BY <2>4 DEF shutdown, IInv, Bounded, AtReturn
    <3> QED
      BY <3>1, <2>1, <2>4, <1>0, ShutdownStep DEF shutdown, IInv
  <2>5. CASE return
    <3>1. Bounded' /\ AtReturn' /\ AtExit'
      BY <2>5 DEF return, IInv, Bounded, AtReturn, AtExit
    <3> QED
      BY <3>1, <2>5, <1>0 DEF return, IInv
  <2> QED
    BY <1>1, <2>1, <2>2, <2>3, <2>4, <2>5, RecvStep, ParseCellStep, EndOfHeadersStep, EndOfLineStep
    DEF Next
<1>2. CASE UNCHANGED vars
  <2>1. Bounded' /\ AtReturn' /\ AtExit'
    BY <1>2 DEF vars, IInv, Bounded, AtReturn, AtExit, SentHeaders
  <2> QED
    BY <2>1, <1>2, <1>0 DEF vars, IInv
<1> QED
  BY <1>1, <1>2

\* All of the above hold in every state of http().
THEOREM Invariance == Spec => []IInv
  BY InitInvariant, NextInvariant, PTL DEF Spec

-----------------------------------------------------------------------------
(* What follows from it.                                                     *)

\* The id that was told is on the wire.
LEMMA IdHere ==
    ASSUME NEW a \in Answers, NEW id, IdFrom(a, Len(a.headers), id)
    PROVE  \/ id = NoId /\ "id" \notin {a.headers[k] : k \in DOMAIN a.headers}
           \/ /\ "id" \in {a.headers[k] : k \in DOMAIN a.headers}
              /\ id.data \in Nat /\ id.len = 1 /\ id.data < Len(Wire(a))
              /\ Wire(a)[id.data + 1] = "uuid"
<1> DEFINE N == Len(a.headers)
<1>1. N \in Nat /\ DOMAIN a.headers = 1 .. N /\ a.body \in Bodies
  BY AnswerFacts
<1>2. CASE id = NoId /\ \A m \in 1 .. N : a.headers[m] # "id"
  BY <1>1, <1>2, Zenon
<1>3. ASSUME NEW m \in 1 .. N, a.headers[m] = "id", id = [data |-> Start(a, m - 1) + 3, len |-> 1]
      PROVE  /\ "id" \in {a.headers[k] : k \in DOMAIN a.headers}
             /\ id.data \in Nat /\ id.len = 1 /\ id.data < Len(Wire(a))
             /\ Wire(a)[id.data + 1] = "uuid"
  <2> DEFINE j == m - 1
             l == LineAt(a, j)
             s == Start(a, j)
  <2>1. j \in 0 .. N /\ j + 1 = m /\ j < N
    BY <1>1
  <2>2. l = HeaderLine("id", a.body)
    BY <2>1, <1>3 DEF LineAt
  <2>3. "id" \in HeaderKinds /\ "id" # "arn"
    BY DEF HeaderKinds
  <2>4. Len(l) = 6 /\ l[4] = "uuid"
    <3> DEFINE g == HeaderLine("id", a.body)
    <3>1. Len(g) = 6 /\ g[4] = "uuid"
      BY <1>1, <2>3, HeaderShape
    <3> QED
      BY <3>1, <2>2, Zenon
  <2>5. 3 \in 0 .. Len(l) - 1 /\ 3 + 1 = 4
    <3>1. Len(l) = 6
      BY <2>4, Zenon
    <3> HIDE DEF l
    <3> QED
      BY <3>1
  <2>6. s \in Nat /\ s + 3 < Len(Wire(a)) /\ Wire(a)[(s + 3) + 1] = l[3 + 1]
    BY <2>1, <2>5, CellsOfLine, Zenon
  <2>7. id.data = s + 3 /\ id.len = 1
    BY <1>3
  <2>8. id.data \in Nat
    <3> HIDE DEF s
    <3> QED
      BY <2>6, <2>7
  <2>9. "id" \in {a.headers[k] : k \in DOMAIN a.headers}
    BY <1>1, <1>3, Zenon
  <2> QED
    BY <2>4, <2>5, <2>6, <2>7, <2>8, <2>9, Zenon
<1> QED
  BY <1>2, <1>3, Zenon DEF IdFrom

\* It implies the types.
LEMMA InvariantType == IInv => TypeOK
<1> SUFFICES ASSUME IInv PROVE TypeOK
  OBVIOUS
<1> DEFINE m == Len(Wire(answer))
           N == Len(answer.headers)
           a == answer
<1>1. /\ m \in Nat /\ m <= RecvBufSize
      /\ body_start = NULL => parse_point < m
      /\ body_start # NULL => remain = m - total_bytes_received
  BY RemainsOfAnswer, Zenon
<1>2. /\ a \in Answers /\ total_bytes_received <= m
      /\ midway \in BOOLEAN /\ broken \in BOOLEAN
      /\ outcome \in {"running", "returned", "exit0", "fatal"}
  BY DEF IInv, Bounded
<1>3. RecvBufSize \in Nat
  BY HttpAssumption
<1>4. Counters /\ InHeaders /\ InBody
  BY DEF IInv
<1>5. N \in Nat /\ N \in 0 .. N
  BY <1>2, AnswerFacts
<1>6. /\ total_bytes_received \in 0 .. RecvBufSize /\ remain \in 0 .. RecvBufSize
      /\ parse_point \in 0 .. RecvBufSize /\ body_start \in {NULL} \cup 0 .. RecvBufSize
  <2>1. total_bytes_received <= m
    BY <1>2
  <2> HIDE DEF m
  <2> QED
    BY <1>1, <2>1, <1>3, <1>4 DEF Counters, InHeaders, InBody
<1> DEFINE Rest == /\ content_length \in -1 .. RecvBufSize
                   /\ line_start \in 0 .. RecvBufSize
                   /\ delimiter \in {NULL} \cup 0 .. RecvBufSize
                   /\ awsRequestId.data \in {NULL} \cup 0 .. RecvBufSize
                   /\ awsRequestId.len \in 0 .. RecvBufSize
<1>7. ASSUME NEW j \in 0 .. N, LengthFrom(a, j, content_length)
      PROVE  content_length \in -1 .. RecvBufSize
  <2>1. content_length = -1 \/ content_length = Len(a.body)
    BY <1>7 DEF LengthFrom
  <2>2. Len(a.body) \in Nat /\ Len(a.body) <= m
    <3> DEFINE b == Len(a.body)
               e == Start(a, N)
    <3>1. b \in Nat /\ e \in Nat /\ m = e + 2 + b
      BY <1>2, <1>5, AnswerFacts, BodyFacts, Layout, Zenon
    <3> HIDE DEF b, e, m
    <3>2. b \in Nat /\ b <= m
      BY <3>1
    <3> QED
      BY <3>2 DEF b
  <2> HIDE DEF m
  <2> QED
    BY <2>1, <2>2, <1>1, <1>3
<1>8. ASSUME NEW j \in 0 .. N, IdFrom(a, j, awsRequestId)
      PROVE  /\ awsRequestId.data \in {NULL} \cup 0 .. RecvBufSize
             /\ awsRequestId.len \in 0 .. RecvBufSize
  <2>1. CASE awsRequestId = NoId
    BY <2>1, <1>3 DEF NoId
  <2>2. ASSUME NEW k \in 1 .. j, a.headers[k] = "id",
               awsRequestId = [data |-> Start(a, k - 1) + 3, len |-> 1]
        PROVE  /\ awsRequestId.data \in {NULL} \cup 0 .. RecvBufSize
               /\ awsRequestId.len \in 0 .. RecvBufSize
    <3>1. k \in 1 .. N
      BY <1>5
    <3>2. IdFrom(a, N, awsRequestId)
      BY <2>2, <3>1, Zenon DEF IdFrom
    <3>3. "id" \in {a.headers[q] : q \in DOMAIN a.headers}
      BY <1>2, <2>2, <3>1, AnswerFacts, Zenon
    <3>4. awsRequestId.data \in Nat /\ awsRequestId.len = 1 /\ awsRequestId.data < m
      BY <1>2, <3>2, <3>3, IdHere, Zenon
    <3> DEFINE d == awsRequestId.data
               n == awsRequestId.len
    <3>5. d \in Nat /\ n = 1 /\ d < m
      BY <3>4, Zenon
    <3> HIDE DEF d, n, m
    <3>6. d \in {NULL} \cup 0 .. RecvBufSize /\ n \in 0 .. RecvBufSize
      BY <3>5, <1>1, <1>3
    <3> QED
      BY <3>6 DEF d, n
  <2> QED
    BY <1>8, <2>1, <2>2, Zenon DEF IdFrom
<1>9. ASSUME NEW l, Len(l) \in Nat, NEW s \in Nat, NEW i \in 0 .. Len(l) - 1,
             Delimited(l, i, s, delimiter), s + i < m
      PROVE  delimiter \in {NULL} \cup 0 .. RecvBufSize
  <2>1. CASE delimiter = NULL
    BY <2>1
  <2>2. ASSUME NEW q \in 1 .. i, delimiter = s + q - 1
        PROVE  delimiter \in 0 .. RecvBufSize
    <3>1. s + i < m
      BY <1>9
    <3>2. i \in Nat
      BY <1>9
    <3> HIDE DEF m
    <3> QED
      BY <2>2, <3>1, <3>2, <1>1, <1>3
  <2> QED
    BY <1>9, <2>1, <2>2, Zenon DEF Delimited
<1>10. CASE body_start # NULL
  <2>1. PastHeaders(a, line_start, body_start, delimiter, content_length, awsRequestId)
    BY <1>10, Zenon DEF IInv, Position
  <2>2. /\ line_start = Start(a, N) /\ body_start = line_start + 2 /\ delimiter = NULL
        /\ LengthFrom(a, N, content_length) /\ IdFrom(a, N, awsRequestId)
    BY <2>1, Zenon DEF PastHeaders
  <2>3. line_start \in Nat
    BY <1>2, <1>5, <2>2, Layout, Zenon
  <2>4. line_start \in 0 .. RecvBufSize
    BY <2>2, <2>3, <1>3, <1>6, <1>10
  <2> QED
    BY <1>2, <1>5, <1>6, <1>7, <1>8, <2>2, <2>4, Zenon DEF TypeOK
<1>11. CASE body_start = NULL
  <2>1. CASE StatusHere
    <3> DEFINE l == StatusLine(a.status)
    <3>1. line_start = 0 /\ parse_point \in Nat /\ delimiter = NULL
      BY <1>2, <2>1, OnStatus, Zenon
    <3>2. content_length = -1 /\ awsRequestId = NoId
      BY <2>1, Zenon DEF StatusHere, OnStatusLine
    <3>3. content_length \in -1 .. RecvBufSize /\ line_start \in 0 .. RecvBufSize
      BY <3>1, <3>2, <1>3
    <3>4. /\ awsRequestId.data \in {NULL} \cup 0 .. RecvBufSize
          /\ awsRequestId.len \in 0 .. RecvBufSize
      BY <3>2, <1>3 DEF NoId
    <3> QED
      BY <1>2, <1>6, <3>1, <3>3, <3>4, Zenon DEF TypeOK
  <2>2. ASSUME NEW j \in 0 .. N, LineHere(j) PROVE TypeOK
    <3> DEFINE l == LineAt(a, j)
    <3>1. line_start \in Nat
      BY <1>2, <2>2, OnLineJ, Zenon
    <3>2. PICK i \in Nat : parse_point = line_start + i /\ Here(l, i)
      BY <1>2, <2>2, OnLineJ, Zenon
    <3>3. i \in 0 .. Len(l) - 1 /\ Delimited(l, i, line_start, delimiter) /\ parse_point < m
      BY <3>2, Zenon DEF Here
    <3>4. Len(l) \in Nat
      <4>1. Len(l) \in 2 .. 8
        BY <1>2, <2>2, LineAtFacts, Zenon
      <4>2. \A x \in 2 .. 8 : x \in Nat
        OBVIOUS
      <4> QED
        BY <4>1, <4>2, Zenon
    <3>5. line_start + i < m
      BY <3>2, <3>3, Zenon
    <3>6. delimiter \in {NULL} \cup 0 .. RecvBufSize
      BY <1>9, <3>1, <3>3, <3>4, <3>5, Zenon
    <3>7. line_start \in 0 .. RecvBufSize
      <4> HIDE DEF m
      <4> QED
        BY <3>1, <3>5, <1>1, <1>3
    <3>8. LengthFrom(a, j, content_length) /\ IdFrom(a, j, awsRequestId)
      BY <2>2, Zenon DEF LineHere, OnLine
    <3> QED
      BY <1>2, <1>6, <1>7, <1>8, <3>6, <3>7, <3>8, Zenon DEF TypeOK
  <2> QED
    BY <1>11, <2>1, <2>2, Where, Zenon
<1> QED
  BY <1>10, <1>11

\* TypeOK in every state.
THEOREM TypeCorrect == Spec => []TypeOK
  BY Invariance, InvariantType, PTL

\* NeverStarves in every state: while the loop waits, bytes of the answer are still to
\* come, wherever TCP has cut it.
THEOREM WaitsForAnswerOnly == Spec => []NeverStarves
<1>1. ASSUME IInv PROVE NeverStarves
  <2> DEFINE m == Len(Wire(answer))
  <2>1. /\ m \in Nat /\ m <= RecvBufSize
        /\ body_start = NULL => parse_point < m
        /\ body_start # NULL => remain = m - total_bytes_received
    BY <1>1, RemainsOfAnswer, Zenon
  <2>2. total_bytes_received <= m
    BY <1>1 DEF IInv, Bounded
  <2>3. Waiting => total_bytes_received < m
    <3> HIDE DEF m
    <3> QED
      BY <1>1, <2>1, <2>2 DEF Waiting, IInv, Counters
  <2> QED
    BY <2>3, Zenon DEF NeverStarves
<1> QED
  BY <1>1, Invariance, PTL

\* SegmentationIndependent in every state, if the caller leaves at least one cell
\* behind the answer: a call that returns has the whole body and the id, one that
\* does not was told 410, was sent a malformed answer, or lost its connection.
THEOREM AnswerAsSent ==
    ASSUME Slack > 0
    PROVE  Spec => []SegmentationIndependent
<1>1. ASSUME IInv PROVE SegmentationIndependent
  <2> DEFINE w == Wire(answer)
             m == Len(w)
             N == Len(answer.headers)
             b == answer.body
  <2>1. answer \in Answers /\ total_bytes_received <= m
    BY <1>1 DEF IInv, Bounded
  <2>2. /\ m \in Nat
        /\ body_start # NULL => remain = m - total_bytes_received
    BY <1>1, RemainsOfAnswer, Zenon
  <2>3. AtExit
    BY <1>1 DEF IInv
  <2>4. ASSUME outcome = "returned"
        PROVE  /\ answer.status \in {"ok", "gone1.1"} /\ "length" \in SentHeaders
               /\ BodyReceived = answer.body
               /\ IdReceived = IF "id" \in SentHeaders THEN <<"uuid">> ELSE <<>>
    <3>1. remain = 0 /\ total_bytes_received \in Nat
      BY <1>1, <2>4 DEF IInv, AtReturn, Counters
    <3>2. body_start # NULL
      <4>1. m + Slack <= RecvBufSize
        BY <2>1, AnswerFacts, Zenon
      <4>2. body_start = NULL => total_bytes_received + remain = RecvBufSize
        BY <1>1 DEF IInv, InHeaders
      <4>3. total_bytes_received <= m /\ m \in Nat
        BY <2>1, <2>2
      <4> HIDE DEF m
      <4> QED
        BY <3>1, <4>1, <4>2, <4>3, HttpAssumption
    <3>3. total_bytes_received = m
      <4>1. 0 = m - total_bytes_received /\ m \in Nat
        BY <2>2, <3>1, <3>2, Zenon
      <4> HIDE DEF m
      <4> QED
        BY <3>1, <4>1
    <3>4. PastHeaders(answer, line_start, body_start, delimiter, content_length, awsRequestId)
      BY <1>1, <3>2, Zenon DEF IInv, Position
    <3>5. /\ answer.status \in {"ok", "gone1.1"} /\ body_start = Start(answer, N) + 2
          /\ LengthFrom(answer, N, content_length) /\ content_length >= 0
          /\ IdFrom(answer, N, awsRequestId)
      BY <3>4, Zenon DEF PastHeaders
    <3>6. N \in Nat /\ DOMAIN answer.headers = 1 .. N /\ N \in 0 .. N
      BY <2>1, AnswerFacts
    <3>7. "length" \in SentHeaders
      <4>1. content_length # -1
        BY <3>5
      <4>2. \E k \in 1 .. N : answer.headers[k] = "length"
        BY <4>1, <3>5, Zenon DEF LengthFrom
      <4> QED
        BY <4>2, <3>6, Zenon DEF SentHeaders
    <3>8. /\ w \in Seq(Symbol) /\ b \in Seq(Symbol) /\ Start(answer, N) \in Nat
          /\ m = Start(answer, N) + 2 + Len(b)
          /\ \A i \in 1 .. Len(b) : w[Start(answer, N) + 2 + i] = b[i]
      BY <2>1, <3>6, Layout, AnswerFacts, BodyFacts, Zenon
    <3>9. BodyReceived = b
      <4> DEFINE p == Start(answer, N) + 2
      <4>1. p \in Nat
        BY <3>8
      <4>2. Len(w) = p + Len(b) /\ \A i \in 1 .. Len(b) : w[p + i] = b[i]
        BY <3>8, Zenon
      <4>3. w \in Seq(Symbol) /\ b \in Seq(Symbol)
        BY <3>8
      <4> HIDE DEF p, w, b
      <4>4. SubSeq(w, p + 1, Len(w)) = b
        BY <4>1, <4>2, <4>3, SuffixCells, Zenon
      <4> QED
        BY <4>4, <3>2, <3>3, <3>5, Zenon DEF BodyReceived, Cells, p, w
    <3>10. IdReceived = IF "id" \in SentHeaders THEN <<"uuid">> ELSE <<>>
      <4> DEFINE d == awsRequestId.data
      <4>1. CASE awsRequestId = NoId /\ "id" \notin SentHeaders
        BY <4>1 DEF IdReceived, NoId
      <4>2. CASE /\ "id" \in SentHeaders
                 /\ d \in Nat /\ awsRequestId.len = 1 /\ d < m /\ w[d + 1] = "uuid"
        <5>1. d + 1 \in 1 .. m /\ d # NULL
          <6>1. d \in Nat /\ d < m /\ m \in Nat
            BY <4>2, <2>2
          <6> HIDE DEF d, m
          <6> QED
            BY <6>1 DEF NULL
        <5>2. SubSeq(w, d + 1, d + 1) = <<w[d + 1]>>
          BY <3>8, <5>1, OneCell, Zenon
        <5> QED
          BY <4>2, <5>1, <5>2, Zenon DEF IdReceived, Cells
      <4>3. \/ awsRequestId = NoId /\ "id" \notin SentHeaders
            \/ /\ "id" \in SentHeaders
               /\ d \in Nat /\ awsRequestId.len = 1 /\ d < m /\ w[d + 1] = "uuid"
        BY <2>1, <3>5, IdHere, Zenon DEF SentHeaders
      <4> QED
        BY <4>1, <4>2, <4>3
    <3> QED
      BY <3>5, <3>7, <3>9, <3>10
  <2> QED
    BY <2>3, <2>4, Zenon DEF SegmentationIndependent, AtExit
<1> QED
  BY <1>1, Invariance, PTL

\* The parser never looks at a cell that recv() has not filled.
THEOREM NoStaleBytes == Spec => []ParsesReceivedBytes
<1>1. IInv => ParsesReceivedBytes
  BY ParsingIsBehind DEF ParsesReceivedBytes
<1> QED
  BY <1>1, Invariance, PTL

\* While headers are received, recv() may fill the buffer and nothing behind it, and
\* the cell the parser looks at lies in the buffer.
HeadersConfined ==
    body_start = NULL =>
        /\ total_bytes_received + remain = RecvBufSize
        /\ Parsing => parse_point \in 0 .. RecvBufSize - 1

\* HeadersConfined in every state: the room given to recv() ends with the buffer, for
\* every answer, also one whose headers do not fit.
THEOREM HeadersStayInBuffer == Spec => []HeadersConfined
<1>1. IInv => HeadersConfined
  BY ParsingIsBehind, HttpAssumption DEF IInv, Counters, InHeaders, HeadersConfined
<1> QED
  BY <1>1, Invariance, PTL

\* http() returns with exactly content_length bytes behind the blank line, or with a
\* buffer the headers have filled.
BodyComplete ==
    outcome = "returned" =>
        \/ body_start = NULL /\ total_bytes_received = RecvBufSize
        \/ body_start # NULL /\ total_bytes_received - body_start = content_length

\* BodyComplete in every state: neither a byte of the body too few, nor one too many,
\* whichever bytes of it arrived together with the headers.
THEOREM ReturnsWholeBody == Spec => []BodyComplete
<1>1. IInv => BodyComplete
  BY HttpAssumption DEF IInv, Counters, InHeaders, InBody, AtReturn, BodyComplete
<1> QED
  BY <1>1, Invariance, PTL
=============================================================================
