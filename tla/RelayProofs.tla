----------------------------- MODULE RelayProofs ------------------------------
(****************************************************************************)
(* What one hop does to a request, for all chains, headers and paths: the   *)
(* lemmas the theorems about a deployment rest on.                          *)
(****************************************************************************)
EXTENDS Relay, WellFoundedInduction, TLAPS

\* Every set of naturals has a least element: the one form of induction used.
LEMMA Least ==
    ASSUME NEW T, T \subseteq Nat, T # {}
    PROVE  \E x \in T : \A y \in T : x <= y
<1>1. PICK R : R = OpToRel(<, Nat)
  OBVIOUS
<1>2. IsWellFoundedOn(R, Nat)
  BY <1>1, NatLessThanWellFounded
<1>3. PICK x \in T : \A y \in T : ~ (<<y, x>> \in R)
  BY <1>2, WFMin
<1>4. R = {ss \in Nat \X Nat : ss[1] < ss[2]}
  BY <1>1 DEF OpToRel
<1>5. ASSUME NEW y \in T PROVE x <= y
  <2>1. x \in Nat /\ y \in Nat /\ ~ (<<y, x>> \in R)
    BY <1>3, <1>5
  <2>2. <<y, x>> \in Nat \X Nat /\ <<y, x>>[1] = y /\ <<y, x>>[2] = x
    BY <2>1
  <2>3. ~(y < x)
    BY <1>4, <2>1, <2>2
  <2> QED BY <2>1, <2>3
<1> QED BY <1>3, <1>5

\* A set of naturals that is bounded has a greatest element.
LEMMA Greatest ==
    ASSUME NEW T, T \subseteq Nat, T # {}, NEW b \in Nat, \A y \in T : y <= b
    PROVE  \E x \in T : \A y \in T : y <= x
<1>1. PICK U : U = {n \in Nat : \A y \in T : y <= n}
  OBVIOUS
<1>2. PICK x \in U : \A y \in U : x <= y
  BY <1>1, Least
<1>3. x \in T
  <2> SUFFICES ASSUME x \notin T PROVE FALSE
    OBVIOUS
  <2>1. x \in Nat /\ \A y \in T : y \in Nat /\ y < x
    BY <1>1, <1>2
  <2>2. x # 0
    <3>1. PICK y : y \in T
      OBVIOUS
    <3> QED BY <2>1, <3>1
  <2>3. x - 1 \in U
    BY <1>1, <2>1, <2>2
  <2> QED BY <1>2, <2>1, <2>3
<1> QED BY <1>1, <1>2, <1>3

-----------------------------------------------------------------------------
(* The chain on the lines of X-Forwarded-For.                               *)

\* f concatenates the first n of the lines.
Flattens(f, lines, n) ==
    f = [i \in 1..n |-> IF i = 1 THEN lines[i] ELSE f[i - 1] \o lines[i]]

\* There is such a function for all lines, and what it holds are chains.
LEMMA FlattensExists ==
    ASSUME NEW A, NEW lines \in Seq(Seq(A))
    PROVE  \E f : Flattens(f, lines, Len(lines))
<1>1. PICK T : T = {n \in Nat : n <= Len(lines) /\ ~ \E f : Flattens(f, lines, n)}
  OBVIOUS
<1> SUFFICES ASSUME T # {} PROVE FALSE
  <2>1. Len(lines) \in Nat /\ Len(lines) <= Len(lines)
    OBVIOUS
  <2>2. T = {} => \E f : Flattens(f, lines, Len(lines))
    BY <1>1, <2>1
  <2> QED BY <2>2
<1>2. PICK n \in T : \A m \in T : n <= m
  BY <1>1, Least
<1>3. n \in Nat /\ n <= Len(lines) /\ ~ \E f : Flattens(f, lines, n)
  BY <1>1, <1>2
<1>4. CASE n = 0
  <2>1. Flattens([i \in 1..n |-> lines], lines, n)
    BY <1>4 DEF Flattens
  <2> QED BY <1>3, <2>1
<1>5. CASE n # 0
  <2>1. n - 1 \in Nat /\ n - 1 <= Len(lines) /\ n - 1 \notin T
    BY <1>2, <1>3, <1>5
  <2>2. PICK g : Flattens(g, lines, n - 1)
    BY <1>1, <2>1
  <2>3. PICK f : f = [i \in 1..n |-> IF i = 1 THEN lines[i]
                                     ELSE g[i - 1] \o lines[i]]
    OBVIOUS
  <2>4. ASSUME NEW i \in 1..n, i # n PROVE f[i] = g[i]
    <3>1. i \in 1..(n - 1) /\ i \in Int
      BY <1>3, <2>4
    <3>2. g[i] = IF i = 1 THEN lines[i] ELSE g[i - 1] \o lines[i]
      BY <2>2, <3>1 DEF Flattens
    <3> QED BY <2>3, <3>2
  <2>5. ASSUME NEW i \in 1..n, i # 1 PROVE g[i - 1] = f[i - 1]
    <3>1. i - 1 \in 1..n /\ i - 1 # n
      BY <1>3, <2>5
    <3> QED BY <2>4, <3>1
  <2>6. Flattens(f, lines, n)
    BY <2>3, <2>5 DEF Flattens
  <2> QED BY <1>3, <2>6
<1> QED BY <1>4, <1>5

\* What such a function holds are chains.
LEMMA FlattensTyped ==
    ASSUME NEW A, NEW lines \in Seq(Seq(A)), NEW f, Flattens(f, lines, Len(lines))
    PROVE  \A i \in 1..Len(lines) : f[i] \in Seq(A)
<1>1. PICK T : T = {n \in 1..Len(lines) : f[n] \notin Seq(A)}
  OBVIOUS
<1> SUFFICES ASSUME T # {} PROVE FALSE
  BY <1>1
<1>2. PICK n \in T : \A m \in T : n <= m
  <2>1. T \subseteq Nat
    BY <1>1
  <2> QED BY <2>1, Least
<1>3. n \in 1..Len(lines) /\ f[n] \notin Seq(A) /\ lines[n] \in Seq(A)
  BY <1>1, <1>2
<1>4. CASE n = 1
  BY <1>3, <1>4 DEF Flattens
<1>5. CASE n # 1
  <2>1. n - 1 \in 1..Len(lines) /\ n - 1 \notin T
    BY <1>2, <1>3, <1>5
  <2>2. f[n - 1] \in Seq(A)
    BY <1>1, <2>1
  <2>3. f[n] = f[n - 1] \o lines[n]
    BY <1>3, <1>5 DEF Flattens
  <2> QED BY <1>3, <2>2, <2>3
<1> QED BY <1>4, <1>5

\* All lines together are one chain (proxies.go:64-71, forward.go:101-106).
LEMMA ChainTyped ==
    ASSUME NEW A, NEW lines \in Seq(Seq(A))
    PROVE  FlattenSeq(lines) \in Seq(A)
<1>1. CASE Len(lines) = 0
  BY <1>1 DEF FlattenSeq
<1>2. CASE Len(lines) # 0
  <2>1. PICK f : f = CHOOSE g : Flattens(g, lines, Len(lines))
    OBVIOUS
  <2>2. Flattens(f, lines, Len(lines))
    BY <2>1, FlattensExists
  <2>3. FlattenSeq(lines) = f[Len(lines)]
    BY <1>2, <2>1 DEF FlattenSeq, Flattens
  <2>4. Len(lines) \in 1..Len(lines)
    BY <1>2
  <2> QED BY <2>2, <2>3, <2>4, FlattensTyped
<1> QED BY <1>1, <1>2

\* The chain of a single line is that line.
LEMMA OneLine ==
    ASSUME NEW c
    PROVE  FlattenSeq(<<c>>) = c
<1>1. Flattens([i \in 1..Len(<<c>>) |-> c], <<c>>, Len(<<c>>))
  BY DEF Flattens
<1>2. PICK f : f = CHOOSE g : Flattens(g, <<c>>, Len(<<c>>))
  OBVIOUS
<1>3. Flattens(f, <<c>>, Len(<<c>>))
  BY <1>1, <1>2
<1>4. f[1] = c
  BY <1>3 DEF Flattens
<1>5. FlattenSeq(<<c>>) = f[Len(<<c>>)]
  BY <1>2 DEF FlattenSeq, Flattens
<1> QED BY <1>4, <1>5

\* No lines hold no chain.
LEMMA NoLine == FlattenSeq(<< >>) = << >>
  BY DEF FlattenSeq

\* Where the elements of two sequences go when they are joined.
LEMMA Joined ==
    ASSUME NEW A, NEW s \in Seq(A), NEW t \in Seq(A)
    PROVE  /\ s \o t \in Seq(A) /\ Len(s \o t) = Len(s) + Len(t)
           /\ \A i \in 1..Len(s) : (s \o t)[i] = s[i]
           /\ \A i \in 1..Len(t) : (s \o t)[Len(s) + i] = t[i]
           /\ \A i \in (Len(s) + 1)..(Len(s) + Len(t)) : (s \o t)[i] = t[i - Len(s)]
<1>1. s \o t \in Seq(A) /\ Len(s \o t) = Len(s) + Len(t)
  OBVIOUS
<1>2. \A i \in 1..Len(s) : (s \o t)[i] = s[i]
  OBVIOUS
<1>3. \A i \in (Len(s) + 1)..(Len(s) + Len(t)) : (s \o t)[i] = t[i - Len(s)]
  OBVIOUS
<1>4. ASSUME NEW i \in 1..Len(t) PROVE (s \o t)[Len(s) + i] = t[i]
  <2>1. PICK k : k = Len(s) + i
    OBVIOUS
  <2>2. k \in (Len(s) + 1)..(Len(s) + Len(t)) /\ k - Len(s) = i
    BY <2>1
  <2> QED BY <1>3, <2>1, <2>2
<1> QED BY <1>1, <1>2, <1>3, <1>4

\* Appending to the second of two joined sequences.
LEMMA JoinedAppend ==
    ASSUME NEW s \in Seq(Address), NEW t \in Seq(Address), NEW x \in Address
    PROVE  Append(s \o t, x) = s \o Append(t, x)
<1>1. PICK c : c = s \o t
  OBVIOUS
<1>2. /\ c \in Seq(Address) /\ Len(c) = Len(s) + Len(t)
      /\ \A i \in 1..Len(s) : c[i] = s[i]
      /\ \A i \in (Len(s) + 1)..(Len(s) + Len(t)) : c[i] = t[i - Len(s)]
  BY <1>1, Joined
<1>3. PICK u : u = Append(t, x)
  OBVIOUS
<1>4. /\ u \in Seq(Address) /\ Len(u) = Len(t) + 1 /\ u[Len(t) + 1] = x
      /\ \A i \in 1..Len(t) : u[i] = t[i]
  BY <1>3
<1>5. PICK L : L = Append(c, x)
  OBVIOUS
<1>6. /\ L \in Seq(Address) /\ Len(L) = Len(c) + 1 /\ L[Len(c) + 1] = x
      /\ \A i \in 1..Len(c) : L[i] = c[i]
  <2>1. c \in Seq(Address)
    BY <1>2
  <2> QED BY <1>5, <2>1
<1>7. PICK R : R = s \o u
  OBVIOUS
<1>8. /\ R \in Seq(Address) /\ Len(R) = Len(s) + Len(u)
      /\ \A i \in 1..Len(s) : R[i] = s[i]
      /\ \A i \in (Len(s) + 1)..(Len(s) + Len(u)) : R[i] = u[i - Len(s)]
  BY <1>4, <1>7, Joined
<1>9. ASSUME NEW i \in 1..Len(L) PROVE L[i] = R[i]
  <2>0. Len(s) \in Nat /\ Len(t) \in Nat /\ i \in Nat
    OBVIOUS
  <2>1. CASE i <= Len(s)
    BY <1>2, <1>6, <1>8, <2>0, <2>1
  <2>2. CASE i > Len(s) /\ i <= Len(c)
    <3>1. /\ i - Len(s) \in 1..Len(t) /\ i \in 1..Len(c)
          /\ i \in (Len(s) + 1)..(Len(s) + Len(t))
          /\ i \in (Len(s) + 1)..(Len(s) + Len(u))
      BY <1>2, <1>4, <2>0, <2>2
    <3>2. L[i] = t[i - Len(s)]
      BY <1>2, <1>6, <3>1
    <3>3. R[i] = t[i - Len(s)]
      BY <1>4, <1>8, <3>1
    <3> QED BY <3>2, <3>3
  <2>3. CASE i = Len(c) + 1
    <3>1. i - Len(s) = Len(t) + 1 /\ i \in (Len(s) + 1)..(Len(s) + Len(u))
      BY <1>2, <1>4, <2>0, <2>3
    <3> QED BY <1>4, <1>6, <1>8, <2>3, <3>1
  <2> QED BY <1>2, <1>6, <2>0, <2>1, <2>2, <2>3
<1>10. Len(L) = Len(R)
  BY <1>2, <1>4, <1>6, <1>8
<1>11. L = R
  BY <1>6, <1>8, <1>9, <1>10
<1> QED BY <1>1, <1>3, <1>5, <1>7, <1>11

\* The peer joins the chain at its end (forward.go:101-106).
LEMMA ChainExtends ==
    ASSUME NEW S \in Seq(Address), NEW n \in Nat \ {0}, NEW peers \in [1..n -> Address]
    PROVE  Append(S \o [k \in 1..(n - 1) |-> peers[k]], peers[n])
               = S \o [k \in 1..n |-> peers[k]]
<1>1. PICK P : P = [k \in 1..(n - 1) |-> peers[k]]
  OBVIOUS
<1>2. PICK Q : Q = [k \in 1..n |-> peers[k]]
  OBVIOUS
<1>3. P \in Seq(Address) /\ Len(P) = n - 1 /\ Q \in Seq(Address) /\ Len(Q) = n
  BY <1>1, <1>2
<1>4. PICK x : x = peers[n] /\ x \in Address
  OBVIOUS
<1>5. Q = Append(P, x)
  <2>1. PICK R : R = Append(P, x)
    OBVIOUS
  <2>2. R \in Seq(Address) /\ Len(R) = n /\ R[n] = x /\ \A i \in 1..(n - 1) : R[i] = P[i]
    BY <1>3, <1>4, <2>1
  <2>3. \A i \in 1..n : R[i] = Q[i]
    BY <1>1, <1>2, <1>4, <2>2
  <2>4. R = Q
    BY <1>3, <2>2, <2>3
  <2> QED BY <2>1, <2>4
<1>6. Append(S \o P, x) = S \o Append(P, x)
  <2>1. P \in Seq(Address) /\ x \in Address
    BY <1>3, <1>4
  <2> QED BY <2>1, JoinedAppend
<1> QED BY <1>1, <1>2, <1>4, <1>5, <1>6

\* The lines hold some chain, followed by the first n - 1 of the peers.
EndsWithPeers(lines, peers, n) ==
    \E S \in Seq(Address), P \in Seq(Address) :
        /\ FlattenSeq(lines) = S \o P /\ Len(P) = n - 1
        /\ \A j \in 1..(n - 1) : P[j] = peers[j]

\* k is the last of the n peers that is not trusted.
LastForeign(extra, peers, n, k) ==
    /\ k \in 1..n /\ ~Trusted(extra, peers[k])
    /\ \A m \in 1..n : ~Trusted(extra, peers[m]) => m <= k

\* On a chain that ends with socket addresses, Resolve finds the last of them
\* that is not trusted, whatever comes before (proxies.go:57-82).
LEMMA ResolveForeign ==
    ASSUME NEW extra, NEW lines, NEW peers, NEW n \in Nat \ {0}, NEW k,
           EndsWithPeers(lines, peers, n), LastForeign(extra, peers, n, k)
    PROVE  Resolve(extra, peers[n], lines).ip = peers[k]
<1>1. PICK S \in Seq(Address), P \in Seq(Address) :
         /\ FlattenSeq(lines) = S \o P /\ Len(P) = n - 1
         /\ \A j \in 1..(n - 1) : P[j] = peers[j]
  BY DEF EndsWithPeers
<1>2. /\ k \in 1..n /\ ~Trusted(extra, peers[k])
      /\ \A m \in 1..n : ~Trusted(extra, peers[m]) => m <= k
  BY DEF LastForeign
<1>3. P \in Seq(Address) /\ Len(P) = n - 1
  BY <1>1
<1>4. PICK C : C = FlattenSeq(lines)
  OBVIOUS
<1>5. /\ C \in Seq(Address) /\ Len(C) = Len(S) + (n - 1)
      /\ \A i \in (Len(S) + 1)..Len(C) : C[i] = peers[i - Len(S)]
  <2>1. C = S \o P
    BY <1>1, <1>4
  <2>2. /\ S \o P \in Seq(Address) /\ Len(S \o P) = Len(S) + (n - 1)
        /\ \A i \in (Len(S) + 1)..(Len(S) + (n - 1)) : (S \o P)[i] = P[i - Len(S)]
    <3>1. /\ S \o P \in Seq(Address) /\ Len(S \o P) = Len(S) + Len(P)
          /\ \A i \in (Len(S) + 1)..(Len(S) + Len(P)) : (S \o P)[i] = P[i - Len(S)]
      <4>1. S \in Seq(Address) /\ P \in Seq(Address)
        BY <1>3
      <4> QED BY ONLY <4>1, Joined
    <3> QED BY <1>3, <3>1
  <2>3. \A i \in (Len(S) + 1)..Len(C) : i - Len(S) \in 1..(n - 1)
    BY <2>1, <2>2
  <2> QED BY <1>1, <2>1, <2>2, <2>3
<1>6. PICK I : I = {i \in 1..Len(C) : ~Trusted(extra, C[i])}
  OBVIOUS
<1>7. SelectLastInSeq(C, LAMBDA a : ~Trusted(extra, a)) = IF I # {} THEN Max(I) ELSE 0
  BY <1>6 DEF SelectLastInSeq
<1>8. CASE k = n
  <2>1. ~Trusted(extra, peers[n])
    BY <1>2, <1>8
  <2>2. Resolve(extra, peers[n], lines) = [ip |-> peers[n], ips |-> << >>]
    BY <2>1 DEF Resolve
  <2>3. Resolve(extra, peers[n], lines).ip = peers[n]
    BY <2>2
  <2>4. peers[k] = peers[n]
    BY <1>8
  <2> QED BY <2>3, <2>4
<1>9. CASE k # n
  <2>1. k \in 1..(n - 1) /\ ~Trusted(extra, peers[k]) /\ Trusted(extra, peers[n])
    BY <1>2, <1>9
  <2>2. PICK x : x = Len(S) + k
    OBVIOUS
  <2>3. x \in 1..Len(C) /\ x > Len(S) /\ x - Len(S) = k
    BY <1>5, <2>1, <2>2
  <2>4. C[x] = peers[k]
    <3>1. x \in (Len(S) + 1)..Len(C)
      BY <2>3
    <3> QED BY <1>5, <2>3, <3>1
  <2>5. x \in I
    BY <1>6, <2>1, <2>3, <2>4
  <2>6. ASSUME NEW i \in I PROVE i <= x
    <3> SUFFICES ASSUME i > x PROVE FALSE
      BY <1>6, <2>3
    <3>1. i \in 1..Len(C) /\ ~Trusted(extra, C[i])
      BY <1>6
    <3>2. PICK j : j = i - Len(S)
      OBVIOUS
    <3>3. j \in 1..(n - 1) /\ j > k
      BY <1>5, <2>1, <2>2, <3>1, <3>2
    <3>4. C[i] = peers[j]
      <4>1. i \in (Len(S) + 1)..Len(C)
        BY <2>3, <3>1
      <4> QED BY <1>5, <3>2, <4>1
    <3>5. j \in 1..n /\ ~Trusted(extra, peers[j])
      BY <3>1, <3>3, <3>4
    <3> QED BY <1>2, <2>1, <3>3, <3>5
  <2>7. \A y \in I : y \in Int
    BY <1>6
  <2>8. Max(I) = x
    <3>1. x \in I /\ \A y \in I : x >= y
      BY <2>3, <2>5, <2>6, <2>7
    <3>2. \A z \in I : (\A y \in I : z >= y) => z = x
      BY <2>3, <2>5, <2>6, <2>7
    <3> QED BY <3>1, <3>2 DEF Max
  <2>9. C # << >> /\ x # 0
    BY <1>5, <2>3
  <2>10. Resolve(extra, peers[n], lines) = [ip |-> C[x], ips |-> C]
    BY <1>4, <1>7, <2>1, <2>5, <2>8, <2>9 DEF Resolve
  <2> QED BY <2>4, <2>10
<1> QED BY <1>8, <1>9

-----------------------------------------------------------------------------
(* Headers.                                                                 *)

\* A header without a Connection line loses its hop-by-hop headers only.
LEMMA RelayedUnnamed ==
    ASSUME NEW h, "Connection" \in DOMAIN h, h["Connection"] = << >>
    PROVE  relayHeader(h) = [n \in DOMAIN h |-> IF n \in hopByHopHeaders
                                                THEN << >> ELSE h[n]]
<1>1. ConnectionNames(h) = {}
  BY NoLine DEF ConnectionNames, ToSet
<1> QED BY <1>1 DEF relayHeader

\* What is relayed once has no Connection line, so it is relayed unchanged from
\* there on (forward.go:141-156).
LEMMA RelayedTwice ==
    ASSUME NEW h, "Connection" \in DOMAIN h
    PROVE  /\ DOMAIN relayHeader(h) = DOMAIN h
           /\ relayHeader(h)["Connection"] = << >>
           /\ relayHeader(relayHeader(h)) = relayHeader(h)
<1>1. PICK r : r = relayHeader(h)
  OBVIOUS
<1>2. r = [n \in DOMAIN h |->
             IF n \in hopByHopHeaders \union ConnectionNames(h) THEN << >> ELSE h[n]]
  BY <1>1 DEF relayHeader
<1>3. DOMAIN r = DOMAIN h /\ r["Connection"] = << >>
  BY <1>2 DEF hopByHopHeaders
<1>4. relayHeader(r) = [n \in DOMAIN h |-> IF n \in hopByHopHeaders THEN << >> ELSE r[n]]
  BY <1>3, RelayedUnnamed
<1>5. \A n \in DOMAIN h : (IF n \in hopByHopHeaders THEN << >> ELSE r[n]) = r[n]
  BY <1>2
<1>6. r = [n \in DOMAIN h |-> r[n]]
  BY <1>2
<1>7. relayHeader(r) = r
  BY <1>4, <1>5, <1>6
<1> QED BY <1>1, <1>3, <1>7

\* A value that is there is not replaced (forward.go:107-112).
LEMMA SetOnce ==
    ASSUME NEW lines, NEW v, NEW w, v # ""
    PROVE  IfAbsent(IfAbsent(lines, v), w) = IfAbsent(lines, v)
<1>1. CASE lines = << >> \/ lines[1] = ""
  <2>1. IfAbsent(lines, v) = <<v>>
    BY <1>1 DEF IfAbsent
  <2>2. <<v>> # << >> /\ <<v>>[1] # ""
    OBVIOUS
  <2> QED BY <2>1, <2>2 DEF IfAbsent
<1>2. CASE ~(lines = << >> \/ lines[1] = "")
  BY <1>2 DEF IfAbsent
<1> QED BY <1>1, <1>2

\* The header Do sends, name by name.
LEMMA SentHeaderIs ==
    ASSUME NEW q, {"Connection"} \union Forwarded \subseteq DOMAIN q.header
    PROVE  /\ DOMAIN SentHeader(q) = DOMAIN q.header
           /\ SentHeader(q)["X-Forwarded-For"] =
                 <<Append(FlattenSeq(q.header["X-Forwarded-For"]), q.peer)>>
           /\ SentHeader(q)["X-Forwarded-Proto"] =
                 IfAbsent(relayHeader(q.header)["X-Forwarded-Proto"], q.scheme)
           /\ SentHeader(q)["X-Forwarded-Host"] =
                 IfAbsent(relayHeader(q.header)["X-Forwarded-Host"], q.host)
           /\ \A n \in DOMAIN q.header \ Forwarded :
                 SentHeader(q)[n] = relayHeader(q.header)[n]
<1>1. PICK r : r = relayHeader(q.header)
  OBVIOUS
<1>2. DOMAIN r = DOMAIN q.header
  BY <1>1, RelayedTwice
<1>3. PICK chain : chain = <<Append(FlattenSeq(q.header["X-Forwarded-For"]), q.peer)>>
  OBVIOUS
<1>4. SentHeader(q) = [r EXCEPT !["X-Forwarded-For"] = chain,
                                !["X-Forwarded-Proto"] = IfAbsent(@, q.scheme),
                                !["X-Forwarded-Host"] = IfAbsent(@, q.host)]
  BY <1>1, <1>3 DEF SentHeader
<1> QED BY <1>1, <1>2, <1>3, <1>4 DEF Forwarded

-----------------------------------------------------------------------------
(* Paths.                                                                   *)

\* Decoding keeps the length and turns escaped slashes into slashes.
LEMMA UnescapeIs ==
    ASSUME NEW p \in Seq(Token)
    PROVE  /\ Unescape(p) \in Seq(Token) /\ Len(Unescape(p)) = Len(p)
           /\ \A i \in 1..Len(p) : Unescape(p)[i] = IF p[i] = "%2F" THEN "/" ELSE p[i]
<1>1. DOMAIN p = 1..Len(p)
  OBVIOUS
<1>2. PICK u : u = [i \in 1..Len(p) |-> IF p[i] = "%2F" THEN "/" ELSE p[i]]
  OBVIOUS
<1>3. Unescape(p) = u
  BY <1>1, <1>2 DEF Unescape
<1>4. \A i \in 1..Len(p) : u[i] = IF p[i] = "%2F" THEN "/" ELSE p[i]
  BY <1>2
<1>5. \A i \in 1..Len(p) : u[i] \in Token
  <2>1. \A i \in 1..Len(p) : p[i] \in Token
    OBVIOUS
  <2>2. PICK slash : slash = "/" /\ slash \in Token
    BY DEF Token
  <2> QED BY <1>4, <2>1, <2>2
<1>6. u \in [1..Len(p) -> Token] /\ Len(p) \in Nat
  BY <1>2, <1>5
<1>7. u \in Seq(Token) /\ Len(u) = Len(p)
  BY <1>6
<1> QED BY <1>3, <1>4, <1>7

\* A path that is parsed is printed as it came.
LEMMA ParsedPrints ==
    ASSUME NEW p \in Seq(Token)
    PROVE  EscapedPath(ParsePath(p)) = p
<1>1. PICK u : u = Unescape(p)
  OBVIOUS
<1>2. PICK r : r = IF u = p THEN << >> ELSE p
  OBVIOUS
<1>3. ParsePath(p) = [path |-> u, raw |-> r]
  BY <1>1, <1>2 DEF ParsePath
<1>4. EscapedPath([path |-> u, raw |-> r]) = IF r # << >> /\ Unescape(r) = u THEN r ELSE u
  BY DEF EscapedPath
<1>5. CASE u = p
  BY <1>2, <1>3, <1>4, <1>5
<1>6. CASE u # p
  <2>1. p # << >>
    <3> SUFFICES ASSUME p = << >> PROVE FALSE
      OBVIOUS
    <3>1. u \in Seq(Token) /\ Len(u) = Len(p)
      BY <1>1, UnescapeIs
    <3>2. u = << >>
      BY <3>1
    <3> QED BY <1>6, <3>2
  <2> QED BY <1>1, <1>2, <1>3, <1>4, <1>6, <2>1
<1> QED BY <1>5, <1>6

\* Two sequences of the same length with the same elements are the same.
LEMMA SamePath ==
    ASSUME NEW s \in Seq(Token), NEW t \in Seq(Token), Len(s) = Len(t),
           \A i \in 1..Len(s) : s[i] = t[i]
    PROVE  s = t
  OBVIOUS

\* Decoding is piecewise.
LEMMA UnescapeJoined ==
    ASSUME NEW s \in Seq(Token), NEW t \in Seq(Token)
    PROVE  Unescape(s \o t) = Unescape(s) \o Unescape(t)
<1>1. PICK c : c = s \o t
  OBVIOUS
<1>2. /\ c \in Seq(Token) /\ Len(c) = Len(s) + Len(t)
      /\ \A i \in 1..Len(s) : c[i] = s[i]
      /\ \A i \in (Len(s) + 1)..(Len(s) + Len(t)) : c[i] = t[i - Len(s)]
  BY <1>1, Joined
<1>3. PICK a : a = Unescape(s)
  OBVIOUS
<1>4. PICK b : b = Unescape(t)
  OBVIOUS
<1>5. PICK u : u = Unescape(c)
  OBVIOUS
<1>6. /\ a \in Seq(Token) /\ Len(a) = Len(s)
      /\ \A i \in 1..Len(s) : a[i] = IF s[i] = "%2F" THEN "/" ELSE s[i]
  BY <1>3, UnescapeIs
<1>7. /\ b \in Seq(Token) /\ Len(b) = Len(t)
      /\ \A i \in 1..Len(t) : b[i] = IF t[i] = "%2F" THEN "/" ELSE t[i]
  BY <1>4, UnescapeIs
<1>8. /\ u \in Seq(Token) /\ Len(u) = Len(c)
      /\ \A i \in 1..Len(c) : u[i] = IF c[i] = "%2F" THEN "/" ELSE c[i]
  BY <1>2, <1>5, UnescapeIs
<1>9. PICK d : d = a \o b
  OBVIOUS
<1>10. /\ d \in Seq(Token) /\ Len(d) = Len(a) + Len(b)
       /\ \A i \in 1..Len(a) : d[i] = a[i]
       /\ \A i \in (Len(a) + 1)..(Len(a) + Len(b)) : d[i] = b[i - Len(a)]
  <2>1. a \in Seq(Token) /\ b \in Seq(Token)
    BY <1>6, <1>7
  <2> QED BY <1>9, <2>1, Joined
<1>11. ASSUME NEW i \in 1..Len(u) PROVE u[i] = d[i]
  <2>1. Len(s) \in Nat /\ Len(t) \in Nat /\ i \in 1..Len(c)
    BY <1>8
  <2>2. CASE i <= Len(s)
    <3>1. i \in 1..Len(s)
      BY <2>1, <2>2
    <3> QED BY <1>2, <1>6, <1>8, <1>10, <2>1, <3>1
  <2>3. CASE i > Len(s)
    <3>1. i \in (Len(s) + 1)..(Len(s) + Len(t)) /\ i - Len(s) \in 1..Len(t)
      BY <1>2, <2>1, <2>3
    <3>2. d[i] = b[i - Len(s)]
      BY <1>6, <1>7, <1>10, <3>1
    <3> QED BY <1>2, <1>7, <1>8, <2>1, <3>1, <3>2
  <2> QED BY <2>1, <2>2, <2>3
<1>12. Len(u) = Len(d)
  BY <1>2, <1>6, <1>7, <1>8, <1>10
<1>13. u = d
  BY <1>8, <1>10, <1>11, <1>12, SamePath
<1> QED BY <1>1, <1>3, <1>4, <1>5, <1>9, <1>13

\* Decoding and cutting the first token off commute.
LEMMA UnescapeTail ==
    ASSUME NEW p \in Seq(Token), p # << >>
    PROVE  Unescape(Tail(p)) = Tail(Unescape(p))
<1>1. PICK t : t = Tail(p)
  OBVIOUS
<1>2. t \in Seq(Token) /\ Len(t) = Len(p) - 1 /\ \A i \in 1..Len(t) : t[i] = p[i + 1]
  BY <1>1
<1>3. PICK u : u = Unescape(p)
  OBVIOUS
<1>4. /\ u \in Seq(Token) /\ Len(u) = Len(p)
      /\ \A i \in 1..Len(p) : u[i] = IF p[i] = "%2F" THEN "/" ELSE p[i]
  BY <1>3, UnescapeIs
<1>5. PICK a : a = Unescape(t)
  OBVIOUS
<1>6. /\ a \in Seq(Token) /\ Len(a) = Len(t)
      /\ \A i \in 1..Len(t) : a[i] = IF t[i] = "%2F" THEN "/" ELSE t[i]
  BY <1>2, <1>5, UnescapeIs
<1>7. PICK b : b = Tail(u)
  OBVIOUS
<1>8. u \in Seq(Token) /\ u # << >>
  BY <1>4
<1>9. b \in Seq(Token) /\ Len(b) = Len(u) - 1 /\ \A i \in 1..Len(b) : b[i] = u[i + 1]
  BY <1>7, <1>8
<1>10. ASSUME NEW i \in 1..Len(a) PROVE a[i] = b[i]
  <2>1. i \in 1..Len(t) /\ i \in 1..Len(b) /\ i + 1 \in 1..Len(p)
    BY <1>2, <1>4, <1>6, <1>9
  <2> QED BY <1>2, <1>4, <1>6, <1>9, <2>1
<1>11. Len(a) = Len(b)
  BY <1>2, <1>4, <1>6, <1>9
<1>12. a = b
  BY <1>6, <1>9, <1>10, <1>11, SamePath
<1> QED BY <1>1, <1>3, <1>5, <1>7, <1>12

\* A path without its last token.
LEMMA FrontIs ==
    ASSUME NEW p \in Seq(Token), p # << >>
    PROVE  /\ Front(p) \in Seq(Token) /\ Len(Front(p)) = Len(p) - 1
           /\ \A i \in 1..(Len(p) - 1) : Front(p)[i] = p[i]
<1>1. PICK n : n = Len(p) - 1
  OBVIOUS
<1>2. n \in Nat /\ n <= Len(p)
  BY <1>1
<1>3. PICK f : f = SubSeq(p, 1, n)
  OBVIOUS
<1>4. f \in Seq(Token)
  BY <1>2, <1>3
<1>5. Len(f) = n
  BY <1>2, <1>3
<1>6. \A i \in 1..n : f[i] = p[i]
  BY <1>2, <1>3
<1>7. Front(p) = f
  BY <1>1, <1>3 DEF Front
<1> QED BY <1>1, <1>4, <1>5, <1>6, <1>7

\* Decoding and cutting the last token off commute.
LEMMA UnescapeFront ==
    ASSUME NEW p \in Seq(Token), p # << >>
    PROVE  Unescape(Front(p)) = Front(Unescape(p))
<1>1. PICK t : t = Front(p)
  OBVIOUS
<1>2. t \in Seq(Token) /\ Len(t) = Len(p) - 1 /\ \A i \in 1..Len(t) : t[i] = p[i]
  BY <1>1, FrontIs
<1>3. PICK u : u = Unescape(p)
  OBVIOUS
<1>4. /\ u \in Seq(Token) /\ Len(u) = Len(p)
      /\ \A i \in 1..Len(p) : u[i] = IF p[i] = "%2F" THEN "/" ELSE p[i]
  BY <1>3, UnescapeIs
<1>5. PICK a : a = Unescape(t)
  OBVIOUS
<1>6. /\ a \in Seq(Token) /\ Len(a) = Len(t)
      /\ \A i \in 1..Len(t) : a[i] = IF t[i] = "%2F" THEN "/" ELSE t[i]
  BY <1>2, <1>5, UnescapeIs
<1>7. PICK b : b = Front(u)
  OBVIOUS
<1>8. u \in Seq(Token) /\ u # << >>
  BY <1>4
<1>9. b \in Seq(Token) /\ Len(b) = Len(u) - 1 /\ \A i \in 1..Len(b) : b[i] = u[i]
  BY <1>7, <1>8, FrontIs
<1>10. ASSUME NEW i \in 1..Len(a) PROVE a[i] = b[i]
  <2>1. i \in 1..Len(t) /\ i \in 1..Len(b) /\ i \in 1..Len(p)
    BY <1>2, <1>4, <1>6, <1>9
  <2> QED BY <1>2, <1>4, <1>6, <1>9, <2>1
<1>11. Len(a) = Len(b)
  BY <1>2, <1>4, <1>6, <1>9
<1>12. a = b
  BY <1>6, <1>9, <1>10, <1>11, SamePath
<1> QED BY <1>1, <1>3, <1>5, <1>7, <1>12

\* An absolute path, and a base path that adds one.
Absolute(p) == p \in Seq(Token) /\ p # << >> /\ Head(p) = "/"
Adds(b) == Absolute(b) /\ b # <<"/">>

\* The root path and the empty one are paths.
LEMMA SlashIsPath == <<"/">> \in Seq(Token) /\ Len(<<"/">>) = 1 /\ << >> \in Seq(Token)
<1>1. PICK z : z = "/" /\ z \in Token
  BY DEF Token
<1>2. <<z>> \in Seq(Token) /\ Len(<<z>>) = 1
  BY <1>1
<1>3. << >> \in Seq(Token)
  OBVIOUS
<1> QED BY <1>1, <1>2, <1>3

\* What is left of a base path without its trailing slash.
LEMMA TrimmedBase ==
    ASSUME NEW b, Adds(b)
    PROVE  /\ TrimSuffix(b) \in Seq(Token) /\ Len(TrimSuffix(b)) > 0
           /\ TrimSuffix(b)[1] = "/"
<1>1. b \in Seq(Token) /\ b # << >> /\ b[1] = "/" /\ Len(b) \in Nat /\ Len(b) > 0
  BY DEF Adds, Absolute
<1>2. CASE Last(b) = "/"
  <2>1. Len(b) # 1
    <3> SUFFICES ASSUME Len(b) = 1 PROVE b = <<"/">>
      BY DEF Adds
    <3> QED BY <1>1
  <2>2. /\ Front(b) \in Seq(Token) /\ Len(Front(b)) = Len(b) - 1
        /\ \A i \in 1..(Len(b) - 1) : Front(b)[i] = b[i]
    BY <1>1, FrontIs
  <2>3. TrimSuffix(b) = Front(b)
    BY <1>1, <1>2 DEF TrimSuffix
  <2> QED BY <1>1, <2>1, <2>2, <2>3
<1>3. CASE Last(b) # "/"
  BY <1>1, <1>3 DEF TrimSuffix
<1> QED BY <1>2, <1>3

\* joinPath below a base path that adds one: the trimmed base, one slash, and
\* the path without its own (forward.go:158-167).
LEMMA JoinPathIs ==
    ASSUME NEW b, Adds(b), NEW p, Absolute(p)
    PROVE  joinPath(b, p) = (TrimSuffix(b) \o <<"/">>) \o Tail(p)
<1>1. b \notin {<< >>, <<"/">>} /\ p # << >>
  BY DEF Adds, Absolute
<1>2. TrimPrefix(p) = Tail(p)
  BY DEF TrimPrefix, Absolute
<1> QED BY <1>1, <1>2 DEF joinPath

\* The joined path: where its elements come from.
LEMMA JoinPathElements ==
    ASSUME NEW b, Adds(b), NEW p, Absolute(p), NEW x, x = TrimSuffix(b),
           NEW j, j = joinPath(b, p)
    PROVE  /\ j \in Seq(Token) /\ Len(j) = Len(x) + Len(p)
           /\ \A i \in 1..Len(x) : j[i] = x[i]
           /\ \A i \in 2..Len(p) : j[Len(x) + i] = p[i]
<1>1. x \in Seq(Token) /\ Len(x) > 0 /\ Len(x) \in Nat
  BY TrimmedBase
<1>2. PICK s : s = <<"/">> /\ s \in Seq(Token) /\ Len(s) = 1
  BY SlashIsPath
<1>3. PICK t : t = Tail(p)
  OBVIOUS
<1>4. p \in Seq(Token) /\ p # << >> /\ Len(p) \in Nat
  BY DEF Absolute
<1>5. t \in Seq(Token) /\ Len(t) = Len(p) - 1 /\ \A i \in 1..Len(t) : t[i] = p[i + 1]
  BY <1>3, <1>4
<1>6. PICK c : c = x \o s
  OBVIOUS
<1>7. c \in Seq(Token) /\ Len(c) = Len(x) + 1 /\ \A i \in 1..Len(x) : c[i] = x[i]
  BY <1>1, <1>2, <1>6, Joined
<1>8. j = c \o t
  BY <1>2, <1>3, <1>6, JoinPathIs
<1>9. /\ c \o t \in Seq(Token) /\ Len(c \o t) = Len(c) + Len(t)
      /\ \A i \in 1..Len(c) : (c \o t)[i] = c[i]
      /\ \A i \in 1..Len(t) : (c \o t)[Len(c) + i] = t[i]
  <2>1. c \in Seq(Token) /\ t \in Seq(Token)
    BY <1>5, <1>7
  <2> QED BY <2>1, Joined
<1>10. j \in Seq(Token) /\ Len(j) = Len(x) + Len(p)
  BY <1>1, <1>4, <1>5, <1>7, <1>8, <1>9
<1>11. \A i \in 1..Len(x) : j[i] = x[i]
  <2>1. \A i \in 1..Len(x) : i \in 1..Len(c)
    BY <1>1, <1>7
  <2> QED BY <1>7, <1>8, <1>9, <2>1
<1>12. ASSUME NEW i \in 2..Len(p) PROVE j[Len(x) + i] = p[i]
  <2>1. PICK k : k = i - 1
    OBVIOUS
  <2>2. k \in 1..Len(t) /\ k + 1 = i /\ Len(c) + k = Len(x) + i
    BY <1>1, <1>4, <1>5, <1>7, <2>1
  <2> QED BY <1>5, <1>8, <1>9, <2>2
<1> QED BY <1>10, <1>11, <1>12

\* Decoding and joining commute, unless the base ends in an escaped slash
\* (forward.go:158-178).
LEMMA UnescapeJoinPath ==
    ASSUME NEW b, Adds(b), NEW p, Absolute(p), Last(b) # "%2F"
    PROVE  Unescape(joinPath(b, p)) = joinPath(Unescape(b), Unescape(p))
<1>1. b \in Seq(Token) /\ b # << >> /\ Len(b) \in Nat /\ Len(b) > 0 /\ b[1] = "/"
  BY DEF Adds, Absolute
<1>2. p \in Seq(Token) /\ p # << >> /\ Len(p) > 0 /\ p[1] = "/"
  BY DEF Absolute
<1>3. PICK c : c = Unescape(b)
  OBVIOUS
<1>4. PICK q : q = Unescape(p)
  OBVIOUS
<1>5. /\ c \in Seq(Token) /\ Len(c) = Len(b)
      /\ \A i \in 1..Len(b) : c[i] = IF b[i] = "%2F" THEN "/" ELSE b[i]
  BY <1>1, <1>3, UnescapeIs
<1>6. q \in Seq(Token) /\ Len(q) = Len(p) /\ q[1] = "/"
  BY <1>2, <1>4, UnescapeIs
<1>7. Absolute(q)
  BY <1>2, <1>6 DEF Absolute
<1>8. Last(c) = Last(b) /\ c[1] = "/"
  <2>1. Len(b) \in 1..Len(b) /\ 1 \in 1..Len(b)
    BY <1>1
  <2> QED BY <1>1, <1>5, <2>1 DEF Last
<1>9. Adds(c)
  <2>1. c \in Seq(Token) /\ c # << >> /\ Head(c) = "/"
    BY <1>1, <1>5, <1>8
  <2>2. c # <<"/">>
    <3> SUFFICES ASSUME c = <<"/">> PROVE b = <<"/">>
      BY DEF Adds
    <3>1. Len(b) = 1
      BY <1>5
    <3> QED BY <1>1, <3>1
  <2> QED BY <2>1, <2>2 DEF Adds, Absolute
<1>10. Unescape(TrimSuffix(b)) = TrimSuffix(c)
  <2>1. CASE Last(b) = "/"
    BY <1>1, <1>3, <1>5, <1>8, <2>1, UnescapeFront DEF TrimSuffix
  <2>2. CASE Last(b) # "/"
    BY <1>1, <1>3, <1>8, <2>2 DEF TrimSuffix
  <2> QED BY <2>1, <2>2
<1>11. PICK x : x = TrimSuffix(b) /\ x \in Seq(Token)
  BY TrimmedBase
<1>12. PICK s : s = <<"/">> /\ s \in Seq(Token) /\ Len(s) = 1
  BY SlashIsPath
<1>13. Unescape(s) = s
  <2>1. PICK u : u = Unescape(s)
    OBVIOUS
  <2>2. u \in Seq(Token) /\ Len(u) = Len(s) /\ u[1] = "/"
    <3>1. 1 \in 1..Len(s) /\ s[1] = "/" /\ s \in Seq(Token)
      BY <1>12
    <3> QED BY <2>1, <3>1, UnescapeIs
  <2>3. u = s
    BY <1>12, <2>2
  <2> QED BY <2>1, <2>3
<1>14. PICK t : t = Tail(p) /\ t \in Seq(Token)
  <2>1. Tail(p) \in Seq(Token)
    BY <1>2
  <2> QED BY <2>1
<1>15. x \o s \in Seq(Token)
  BY <1>11, <1>12
<1>16. Unescape((x \o s) \o t) = (Unescape(x) \o Unescape(s)) \o Unescape(t)
  <2>1. Unescape(x \o s) = Unescape(x) \o Unescape(s)
    BY <1>11, <1>12, UnescapeJoined
  <2>2. Unescape((x \o s) \o t) = Unescape(x \o s) \o Unescape(t)
    BY <1>14, <1>15, UnescapeJoined
  <2> QED BY <2>1, <2>2
<1>17. joinPath(b, p) = (x \o s) \o t
  BY <1>11, <1>12, <1>14, JoinPathIs
<1>18. joinPath(c, q) = (TrimSuffix(c) \o s) \o Tail(q)
  BY <1>7, <1>9, <1>12, JoinPathIs
<1>19. Unescape(t) = Tail(q)
  BY <1>2, <1>4, <1>14, UnescapeTail
<1> QED BY <1>3, <1>4, <1>10, <1>11, <1>13, <1>16, <1>17, <1>18, <1>19

\* The next server parses the joined path, escapes included (forward.go:86-95,
\* 158-178), unless the base ends in an escaped slash.
LEMMA SentURLIs ==
    ASSUME NEW b, b = << >> \/ Absolute(b), b # << >> => Last(b) # "%2F",
           NEW p, Absolute(p)
    PROVE  SentURL(ParsePath(b), ParsePath(p)) = ParsePath(joinPath(b, p))
<1>1. b \in Seq(Token) /\ p \in Seq(Token) /\ p # << >>
  BY SlashIsPath DEF Absolute
<1>2. PICK c : c = Unescape(b)
  OBVIOUS
<1>3. PICK q : q = Unescape(p)
  OBVIOUS
<1>4. /\ c \in Seq(Token) /\ Len(c) = Len(b)
      /\ \A i \in 1..Len(b) : c[i] = IF b[i] = "%2F" THEN "/" ELSE b[i]
  BY <1>1, <1>2, UnescapeIs
<1>5. PICK u : u = ParsePath(b)
  OBVIOUS
<1>6. PICK v : v = ParsePath(p)
  OBVIOUS
<1>7. u.path = c /\ u.raw = IF c = b THEN << >> ELSE b
  BY <1>2, <1>5 DEF ParsePath
<1>8. v.path = q /\ v.raw = IF q = p THEN << >> ELSE p
  BY <1>3, <1>6 DEF ParsePath
<1>9. EscapedPath(u) = b /\ EscapedPath(v) = p
  BY <1>1, <1>5, <1>6, ParsedPrints
<1>10. PICK j : j = joinPath(b, p)
  OBVIOUS
<1>11. Unescape(j) = joinPath(c, q)
  <2>1. CASE b = << >>
    <3>1. c = << >>
      BY <1>4, <2>1
    <3> QED BY <1>3, <1>10, <2>1, <3>1 DEF joinPath
  <2>2. CASE b = <<"/">>
    <3>1. Len(c) = 1 /\ c[1] = "/"
      BY <1>4, <2>2
    <3>2. c = <<"/">>
      BY <1>4, <3>1
    <3> QED BY <1>3, <1>10, <2>2, <3>2 DEF joinPath
  <2>3. CASE b \notin {<< >>, <<"/">>}
    <3>1. Adds(b)
      BY <2>3 DEF Adds
    <3> QED BY <1>2, <1>3, <1>10, <2>3, <3>1, UnescapeJoinPath
  <2> QED BY <2>1, <2>2, <2>3
<1>12. PICK w : w = joinURLPath(u, v)
  OBVIOUS
<1>13. w.path = joinPath(c, q)
  BY <1>7, <1>8, <1>12 DEF joinURLPath
<1>14. w.raw = IF u.raw = << >> /\ v.raw = << >> THEN << >> ELSE j
  BY <1>9, <1>10, <1>12 DEF joinURLPath
<1>15. EscapedPath(w) = IF w.raw # << >> /\ Unescape(w.raw) = w.path
                        THEN w.raw ELSE w.path
  BY DEF EscapedPath
<1>16. EscapedPath(w) = j
  <2>1. CASE u.raw = << >> /\ v.raw = << >>
    <3>1. c = b /\ q = p
      BY <1>1, <1>4, <1>7, <1>8, <2>1
    <3> QED BY <1>10, <1>13, <1>14, <1>15, <2>1, <3>1
  <2>2. CASE ~(u.raw = << >> /\ v.raw = << >>)
    <3>1. w.raw = j
      BY <1>14, <2>2
    <3>2. CASE j = << >>
      <4>1. j \in Seq(Token) /\ Len(j) = 0
        BY <3>2, SlashIsPath
      <4>2. Unescape(j) \in Seq(Token) /\ Len(Unescape(j)) = 0
        BY <4>1, UnescapeIs
      <4>3. Unescape(j) = << >>
        BY <4>2
      <4> QED BY <1>11, <1>13, <1>15, <3>1, <3>2, <4>3
    <3>3. CASE j # << >>
      BY <1>11, <1>13, <1>15, <3>1, <3>3
    <3> QED BY <3>2, <3>3
  <2> QED BY <2>1, <2>2
<1> QED BY <1>5, <1>6, <1>10, <1>12, <1>16 DEF SentURL

\* s is what p ends with, and p is longer.
Ends(s, p) == /\ Len(s) < Len(p)
              /\ \A i \in 1..Len(s) : p[(Len(p) - Len(s)) + i] = s[i]

\* A path begins with the trimmed base it was joined to, and ends with whatever
\* the path before ended with.
LEMMA JoinPathKeeps ==
    ASSUME NEW b, b = << >> \/ Absolute(b), NEW p, Absolute(p),
           NEW s \in Seq(Token), Ends(s, p)
    PROVE  /\ Absolute(joinPath(b, p)) /\ Ends(s, joinPath(b, p))
           /\ IsPrefix(TrimSuffix(b), joinPath(b, p))
<1>1. PICK j : j = joinPath(b, p)
  OBVIOUS
<1>2. PICK x : x = TrimSuffix(b)
  OBVIOUS
<1>3. p \in Seq(Token) /\ Len(p) \in Nat /\ Len(s) \in Nat
  BY DEF Absolute
<1>4. CASE b \in {<< >>, <<"/">>}
  <2>1. j = p
    BY <1>1, <1>4 DEF joinPath
  <2>2. x = << >>
    <3>1. CASE b = << >>
      BY <1>2, <3>1 DEF TrimSuffix
    <3>2. CASE b = <<"/">>
      BY <1>2, <3>2 DEF TrimSuffix, Last, Front
    <3> QED BY <1>4, <3>1, <3>2
  <2>3. IsPrefix(x, j)
    BY <1>3, <2>1, <2>2 DEF IsPrefix
  <2> QED BY <1>1, <1>2, <2>1, <2>3
<1>5. CASE b \notin {<< >>, <<"/">>}
  <2>1. Adds(b)
    BY <1>5 DEF Adds
  <2>2. x \in Seq(Token) /\ Len(x) > 0 /\ x[1] = "/" /\ Len(x) \in Nat
    BY <1>2, <2>1, TrimmedBase
  <2>3. /\ j \in Seq(Token) /\ Len(j) = Len(x) + Len(p)
        /\ \A i \in 1..Len(x) : j[i] = x[i]
        /\ \A i \in 2..Len(p) : j[Len(x) + i] = p[i]
    BY <1>1, <1>2, <2>1, JoinPathElements
  <2>4. Absolute(j)
    <3>1. 1 \in 1..Len(x)
      BY <2>2
    <3>2. j \in Seq(Token) /\ Len(j) > 0 /\ j[1] = "/"
      BY <1>3, <2>2, <2>3, <3>1
    <3> QED BY <3>2 DEF Absolute
  <2>5. Ends(s, j)
    <3>1. Len(s) < Len(p) /\ \A i \in 1..Len(s) : p[(Len(p) - Len(s)) + i] = s[i]
      BY DEF Ends
    <3>2. Len(s) < Len(j)
      BY <1>3, <2>2, <2>3, <3>1
    <3>3. ASSUME NEW i \in 1..Len(s) PROVE j[(Len(j) - Len(s)) + i] = s[i]
      <4>1. PICK k : k = (Len(p) - Len(s)) + i
        OBVIOUS
      <4>2. k \in 2..Len(p) /\ Len(x) + k = (Len(j) - Len(s)) + i
        BY <1>3, <2>2, <2>3, <3>1, <4>1
      <4> QED BY <2>3, <3>1, <4>1, <4>2
    <3> QED BY <3>2, <3>3 DEF Ends
  <2>6. IsPrefix(x, j)
    <3>1. Len(x) <= Len(j)
      BY <1>3, <2>2, <2>3
    <3>2. PICK l : l = SubSeq(x, 1, Len(x))
      OBVIOUS
    <3>3. l \in Seq(Token) /\ Len(l) = Len(x) /\ \A i \in 1..Len(x) : l[i] = x[i]
      BY <2>2, <3>2
    <3>4. PICK r : r = SubSeq(j, 1, Len(x))
      OBVIOUS
    <3>5. j \in Seq(Token) /\ Len(x) \in Nat
      BY <2>2, <2>3
    <3>6. r \in Seq(Token) /\ Len(r) = Len(x) /\ \A i \in 1..Len(x) : r[i] = j[i]
      BY <3>1, <3>4, <3>5
    <3>7. l = r
      BY <2>3, <3>3, <3>6, SamePath
    <3> QED BY <3>1, <3>2, <3>4, <3>7 DEF IsPrefix
  <2> QED BY <1>1, <1>2, <2>4, <2>5, <2>6
<1> QED BY <1>4, <1>5

\* joinPath puts the trimmed base before the path, whatever the base is
\* (forward.go:158-167).
LEMMA JoinPathAppends ==
    ASSUME NEW b, b = << >> \/ Absolute(b), NEW p, Absolute(p)
    PROVE  joinPath(b, p) = TrimSuffix(b) \o p /\ Absolute(joinPath(b, p))
<1>1. PICK j : j = joinPath(b, p)
  OBVIOUS
<1>2. PICK x : x = TrimSuffix(b)
  OBVIOUS
<1>3. p \in Seq(Token) /\ Len(p) \in Nat /\ Len(p) > 0 /\ p[1] = "/"
  BY DEF Absolute
<1>4. CASE b \in {<< >>, <<"/">>}
  <2>1. j = p
    BY <1>1, <1>4 DEF joinPath
  <2>2. x = << >>
    <3>1. CASE b = << >>
      BY <1>2, <3>1 DEF TrimSuffix
    <3>2. CASE b = <<"/">>
      BY <1>2, <3>2 DEF TrimSuffix, Last, Front
    <3> QED BY <1>4, <3>1, <3>2
  <2>3. x \o p = p
    BY <1>3, <2>2
  <2> QED BY <1>1, <1>2, <2>1, <2>3
<1>5. CASE b \notin {<< >>, <<"/">>}
  <2>1. Adds(b)
    BY <1>5 DEF Adds
  <2>2. x \in Seq(Token) /\ Len(x) > 0 /\ x[1] = "/" /\ Len(x) \in Nat
    BY <1>2, <2>1, TrimmedBase
  <2>3. PICK z : z = <<"/">> /\ z \in Seq(Token) /\ Len(z) = 1
    BY SlashIsPath
  <2>4. PICK t : t = Tail(p)
    OBVIOUS
  <2>5. t \in Seq(Token) /\ Len(t) = Len(p) - 1 /\ \A i \in 1..Len(t) : t[i] = p[i + 1]
    BY <1>3, <2>4
  <2>6. PICK c : c = x \o z
    OBVIOUS
  <2>7. /\ c \in Seq(Token) /\ Len(c) = Len(x) + 1 /\ c[Len(x) + 1] = "/"
        /\ \A i \in 1..Len(x) : c[i] = x[i]
    <3>1. 1 \in 1..Len(z) /\ z[1] = "/"
      BY <2>3
    <3> QED BY <2>2, <2>3, <2>6, <3>1, Joined
  <2>8. j = c \o t
    BY <1>1, <1>2, <2>1, <2>3, <2>4, <2>6, JoinPathIs
  <2>9. /\ c \o t \in Seq(Token) /\ Len(c \o t) = Len(c) + Len(t)
        /\ \A i \in 1..Len(c) : (c \o t)[i] = c[i]
        /\ \A i \in (Len(c) + 1)..(Len(c) + Len(t)) : (c \o t)[i] = t[i - Len(c)]
    <3>1. c \in Seq(Token) /\ t \in Seq(Token)
      BY <2>5, <2>7
    <3> QED BY <3>1, Joined
  <2>10. PICK w : w = x \o p
    OBVIOUS
  <2>11. /\ w \in Seq(Token) /\ Len(w) = Len(x) + Len(p)
         /\ \A i \in 1..Len(x) : w[i] = x[i]
         /\ \A i \in (Len(x) + 1)..(Len(x) + Len(p)) : w[i] = p[i - Len(x)]
    <3>1. x \in Seq(Token) /\ p \in Seq(Token)
      BY <1>3, <2>2
    <3> QED BY <2>10, <3>1, Joined
  <2>12. j \in Seq(Token) /\ Len(j) = Len(w)
    BY <1>3, <2>2, <2>5, <2>7, <2>8, <2>9, <2>11
  <2>13. ASSUME NEW i \in 1..Len(j) PROVE j[i] = w[i]
    <3>0. i \in Nat /\ i >= 1 /\ i <= Len(x) + Len(p)
      BY <2>11, <2>12
    <3>1. CASE i <= Len(x)
      <4>1. i \in 1..Len(x) /\ i \in 1..Len(c)
        BY <2>2, <2>7, <3>0, <3>1
      <4> QED BY <2>7, <2>8, <2>9, <2>11, <4>1
    <3>2. CASE i = Len(x) + 1
      <4>1. i \in 1..Len(c) /\ i \in (Len(x) + 1)..(Len(x) + Len(p)) /\ i - Len(x) = 1
        BY <1>3, <2>2, <2>7, <3>0, <3>2
      <4>2. j[i] = "/"
        BY <2>7, <2>8, <2>9, <3>2, <4>1
      <4>3. w[i] = p[1]
        BY <2>11, <4>1
      <4> QED BY <1>3, <4>2, <4>3
    <3>3. CASE i > Len(x) + 1
      <4>1. PICK k : k = i - Len(c)
        OBVIOUS
      <4>2. /\ i \in (Len(c) + 1)..(Len(c) + Len(t)) /\ k \in 1..Len(t)
            /\ i \in (Len(x) + 1)..(Len(x) + Len(p)) /\ i - Len(x) = k + 1
        BY <1>3, <2>2, <2>5, <2>7, <3>0, <3>3, <4>1
      <4>3. j[i] = t[k]
        BY <2>8, <2>9, <4>1, <4>2
      <4>4. w[i] = p[k + 1]
        BY <2>11, <4>2
      <4> QED BY <2>5, <4>2, <4>3, <4>4
    <3> QED BY <2>2, <3>0, <3>1, <3>2, <3>3
  <2>14. j = w
    BY <2>11, <2>12, <2>13, SamePath
  <2>15. Absolute(j)
    <3>1. 1 \in 1..Len(x)
      BY <2>2
    <3>2. w \in Seq(Token) /\ Len(w) > 0 /\ w[1] = "/"
      BY <1>3, <2>2, <2>11, <3>1
    <3> QED BY <2>14, <3>2 DEF Absolute
  <2> QED BY <1>1, <1>2, <2>10, <2>14, <2>15
<1> QED BY <1>4, <1>5

\* An absolute path without escapes, which is what Path always holds.
Decoded(p) == Absolute(p) /\ Unescape(p) = p

\* Decoding a path leaves nothing to decode.
LEMMA UnescapeDecodes ==
    ASSUME NEW p \in Seq(Token)
    PROVE  /\ Unescape(Unescape(p)) = Unescape(p)
           /\ Absolute(p) => Decoded(Unescape(p))
<1>1. PICK u : u = Unescape(p)
  OBVIOUS
<1>2. /\ u \in Seq(Token) /\ Len(u) = Len(p)
      /\ \A i \in 1..Len(p) : u[i] = IF p[i] = "%2F" THEN "/" ELSE p[i]
  BY <1>1, UnescapeIs
<1>3. PICK w : w = Unescape(u)
  OBVIOUS
<1>4. /\ w \in Seq(Token) /\ Len(w) = Len(u)
      /\ \A i \in 1..Len(u) : w[i] = IF u[i] = "%2F" THEN "/" ELSE u[i]
  BY <1>2, <1>3, UnescapeIs
<1>5. \A i \in 1..Len(u) : w[i] = u[i]
  <2>1. \A i \in 1..Len(u) : u[i] # "%2F"
    BY <1>2
  <2> QED BY <1>4, <2>1
<1>6. w = u
  BY <1>2, <1>4, <1>5, SamePath
<1>7. ASSUME Absolute(p) PROVE Absolute(u)
  <2>1. Len(p) > 0 /\ p[1] = "/"
    BY <1>7 DEF Absolute
  <2>2. Len(u) > 0 /\ u[1] = "/"
    BY <1>2, <2>1
  <2> QED BY <1>2, <2>2 DEF Absolute
<1> QED BY <1>1, <1>3, <1>6, <1>7 DEF Decoded

\* The decoded path that the next server parses: the decoded base path before
\* the decoded path of the request, however the two are escaped, and whether or
\* not the joined RawPath fits (forward.go:86-95, 158-178).
LEMMA SentPath ==
    ASSUME NEW b, b = << >> \/ Absolute(b), NEW v, Decoded(v.path)
    PROVE  /\ SentURL(ParsePath(b), v).path = TrimSuffix(ParsePath(b).path) \o v.path
           /\ Decoded(SentURL(ParsePath(b), v).path)
<1>1. PICK c : c = Unescape(b)
  OBVIOUS
<1>2. b \in Seq(Token)
  BY SlashIsPath DEF Absolute
<1>3. c \in Seq(Token) /\ Len(c) = Len(b) /\ Unescape(c) = c
  BY <1>1, <1>2, UnescapeIs, UnescapeDecodes
<1>4. c = << >> \/ Absolute(c)
  <2>1. CASE b = << >>
    BY <1>3, <2>1
  <2>2. CASE Absolute(b)
    BY <1>1, <1>2, <2>2, UnescapeDecodes DEF Decoded
  <2> QED BY <2>1, <2>2
<1>5. PICK q : q = v.path
  OBVIOUS
<1>6. Absolute(q) /\ Unescape(q) = q /\ q \in Seq(Token)
  BY <1>5 DEF Decoded, Absolute
<1>7. PICK j : j = joinPath(c, q)
  OBVIOUS
<1>8. j = TrimSuffix(c) \o q /\ Absolute(j)
  BY <1>4, <1>6, <1>7, JoinPathAppends
<1>9. Unescape(j) = j
  <2>1. PICK x : x = TrimSuffix(c)
    OBVIOUS
  <2>2. x \in Seq(Token) /\ Unescape(x) = x
    <3>1. CASE c # << >> /\ Last(c) = "/"
      <4>1. x = Front(c)
        BY <2>1, <3>1 DEF TrimSuffix
      <4>2. x \in Seq(Token)
        BY <1>3, <3>1, <4>1, FrontIs
      <4>3. Unescape(x) = Front(Unescape(c))
        BY <1>3, <3>1, <4>1, UnescapeFront
      <4> QED BY <1>3, <4>1, <4>2, <4>3
    <3>2. CASE ~(c # << >> /\ Last(c) = "/")
      <4>1. x = c
        BY <2>1, <3>2 DEF TrimSuffix
      <4> QED BY <1>3, <4>1
    <3> QED BY <3>1, <3>2
  <2>3. Unescape(x \o q) = Unescape(x) \o Unescape(q)
    BY <1>6, <2>2, UnescapeJoined
  <2> QED BY <1>6, <1>8, <2>1, <2>2, <2>3
<1>10. PICK u : u = ParsePath(b)
  OBVIOUS
<1>11. u.path = c
  BY <1>1, <1>10 DEF ParsePath
<1>12. PICK w : w = joinURLPath(u, v)
  OBVIOUS
<1>13. w.path = j
  BY <1>5, <1>7, <1>11, <1>12 DEF joinURLPath
<1>14. EscapedPath(w) = IF w.raw # << >> /\ Unescape(w.raw) = w.path
                        THEN w.raw ELSE w.path
  BY DEF EscapedPath
<1>15. Unescape(EscapedPath(w)) = j
  <2>1. CASE w.raw # << >> /\ Unescape(w.raw) = w.path
    BY <1>13, <1>14, <2>1
  <2>2. CASE ~(w.raw # << >> /\ Unescape(w.raw) = w.path)
    BY <1>9, <1>13, <1>14, <2>2
  <2> QED BY <2>1, <2>2
<1>16. SentURL(u, v).path = j
  <2>1. PICK e : e = EscapedPath(w)
    OBVIOUS
  <2>2. SentURL(u, v) = ParsePath(e)
    BY <1>12, <2>1 DEF SentURL
  <2>3. ParsePath(e).path = Unescape(e)
    BY DEF ParsePath
  <2> QED BY <1>15, <2>1, <2>2, <2>3
<1>17. Decoded(j)
  BY <1>8, <1>9 DEF Decoded
<1> QED BY <1>5, <1>8, <1>10, <1>11, <1>16, <1>17

\* Ends says, element by element, what IsSuffix says of the reversed paths.
LEMMA EndsIsSuffix ==
    ASSUME NEW p \in Seq(Token), NEW s \in Seq(Token), Ends(s, p)
    PROVE  IsSuffix(s, p)
<1>1. PICK a : a = Reverse(s)
  OBVIOUS
<1>2. PICK c : c = Reverse(p)
  OBVIOUS
<1>3. Len(s) \in Nat /\ Len(p) \in Nat /\ Len(s) < Len(p)
  BY DEF Ends
<1>4. a = [i \in 1..Len(s) |-> s[(Len(s) - i) + 1]]
  BY <1>1 DEF Reverse
<1>5. c = [i \in 1..Len(p) |-> p[(Len(p) - i) + 1]]
  BY <1>2 DEF Reverse
<1>6. a \in Seq(Token) /\ Len(a) = Len(s)
  BY <1>3, <1>4
<1>7. c \in Seq(Token) /\ Len(c) = Len(p)
  BY <1>3, <1>5
<1>8. ASSUME NEW i \in 1..Len(s) PROVE a[i] = c[i]
  <2>1. PICK k : k = (Len(s) - i) + 1
    OBVIOUS
  <2>2. k \in 1..Len(s) /\ i \in 1..Len(p) /\ (Len(p) - Len(s)) + k = (Len(p) - i) + 1
    BY <1>3, <2>1
  <2>3. p[(Len(p) - i) + 1] = s[k]
    BY <2>2 DEF Ends
  <2> QED BY <1>4, <1>5, <2>1, <2>2, <2>3
<1>9. PICK l : l = SubSeq(a, 1, Len(s))
  OBVIOUS
<1>10. PICK r : r = SubSeq(c, 1, Len(s))
  OBVIOUS
<1>11. l \in Seq(Token) /\ Len(l) = Len(s) /\ \A i \in 1..Len(s) : l[i] = a[i]
  BY <1>3, <1>6, <1>9
<1>12. r \in Seq(Token) /\ Len(r) = Len(s) /\ \A i \in 1..Len(s) : r[i] = c[i]
  BY <1>3, <1>7, <1>10
<1>13. l = r
  BY <1>8, <1>11, <1>12, SamePath
<1> QED BY <1>1, <1>2, <1>3, <1>6, <1>7, <1>9, <1>10, <1>13 DEF IsSuffix, IsPrefix
===============================================================================
