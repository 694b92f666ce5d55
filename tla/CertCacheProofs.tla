--------------------------- MODULE CertCacheProofs ---------------------------
(****************************************************************************)
(* Theorems about the certificate cache, for every number of goroutines,    *)
(* SNIs, capacity, lifetimes and margins that satisfy the assumptions.      *)
(****************************************************************************)
EXTENDS CertCache, TLAPS

\* No SNI occurs twice in a list.
NoDup(q) == \A i, j \in 1..Len(q) : q[i] = q[j] => i = j

(* container/list: what the list operations do to length and contents.      *)

\* MoveToFront permutes a list (cache.go:100, 125).
LEMMA MoveToFrontPermutes ==
    ASSUME NEW q \in Seq(SNIs), NoDup(q), NEW s \in Elems(q)
    PROVE  /\ MoveToFront(q, s) \in Seq(SNIs)
           /\ Len(MoveToFront(q, s)) = Len(q)
           /\ Elems(MoveToFront(q, s)) = Elems(q)
           /\ NoDup(MoveToFront(q, s))
<1> DEFINE k == Position(q, s)
           r == MoveToFront(q, s)
<1>1. k \in 1..Len(q) /\ q[k] = s
  BY DEF Elems, Position
<1>2. r = [i \in 1..Len(q) |-> IF i = 1 THEN s
                               ELSE IF i <= k THEN q[i - 1] ELSE q[i]]
  BY DEF MoveToFront
<1> HIDE DEF k, r
<1>3. r \in Seq(SNIs) /\ Len(r) = Len(q)
  BY <1>1, <1>2
<1>4. \A i \in 1..Len(q) : r[i] \in Elems(q)
  BY <1>1, <1>2 DEF Elems
<1>5. \A i \in 1..Len(q) : q[i] \in Elems(r)
  <2> SUFFICES ASSUME NEW i \in 1..Len(q) PROVE \E j \in 1..Len(r) : r[j] = q[i]
    BY DEF Elems
  <2>1. CASE i < k
    <3>1. i + 1 \in 1..Len(q) /\ r[i + 1] = q[i]
      BY <1>1, <1>2, <2>1
    <3> QED BY <3>1, <1>3
  <2>2. CASE i = k
    BY <1>1, <1>2, <1>3, <2>2
  <2>3. CASE i > k
    BY <1>1, <1>2, <1>3, <2>3
  <2> QED BY <1>1, <2>1, <2>2, <2>3
<1>6. Elems(r) = Elems(q)
  BY <1>3, <1>4, <1>5 DEF Elems
<1>7. NoDup(r)
  BY <1>1, <1>2, <1>3 DEF NoDup
<1> QED BY <1>3, <1>6, <1>7 DEF r

\* PushFront adds one element to a list that does not hold it (cache.go:128).
LEMMA PushFrontAdds ==
    ASSUME NEW q \in Seq(SNIs), NEW s \in SNIs, NoDup(q), s \notin Elems(q)
    PROVE  /\ PushFront(q, s) \in Seq(SNIs)
           /\ Len(PushFront(q, s)) = Len(q) + 1
           /\ PushFront(q, s)[1] = s
           /\ NoDup(PushFront(q, s))
           /\ Elems(PushFront(q, s)) = Elems(q) \union {s}
<1> DEFINE r == PushFront(q, s)
<1>1. r = [i \in 1..(Len(q) + 1) |-> IF i = 1 THEN s ELSE q[i - 1]]
  BY DEF PushFront
<1> HIDE DEF r
<1>2. r \in Seq(SNIs) /\ Len(r) = Len(q) + 1 /\ r[1] = s
  BY <1>1
<1>3. NoDup(r)
  BY <1>1, <1>2 DEF NoDup, Elems
<1>4. \A i \in 1..Len(r) : r[i] \in Elems(q) \union {s}
  <2> SUFFICES ASSUME NEW i \in 1..Len(r), i # 1 PROVE r[i] \in Elems(q)
    BY <1>2
  <2>1. i - 1 \in 1..Len(q) /\ r[i] = q[i - 1]
    BY <1>1, <1>2
  <2> QED BY <2>1 DEF Elems
<1>5. \A i \in 1..Len(q) : i + 1 \in 1..Len(r) /\ r[i + 1] = q[i]
  BY <1>1, <1>2
<1>6. Elems(r) = Elems(q) \union {s}
  BY <1>2, <1>4, <1>5 DEF Elems
<1> QED BY <1>2, <1>3, <1>6 DEF r

\* The eviction loop keeps a prefix of at most Capacity (cache.go:129-133).
LEMMA TrimBounds ==
    ASSUME NEW q \in Seq(SNIs), NoDup(q), Len(q) > 0
    PROVE  /\ Trim(q) \in Seq(SNIs)
           /\ Len(Trim(q)) <= Capacity
           /\ NoDup(Trim(q))
           /\ Elems(Trim(q)) \subseteq Elems(q)
           /\ q[1] \in Elems(Trim(q))
<1> DEFINE n == IF Len(q) > Capacity THEN Capacity ELSE Len(q)
           r == Trim(q)
<1>1. n \in 1..Len(q) /\ n <= Capacity
  BY ConstantsAssumption
<1>2. r = SubSeq(q, 1, n)
  BY DEF Trim
<1> HIDE DEF n, r
<1>3. r \in Seq(SNIs) /\ Len(r) = n /\ \A i \in 1..n : r[i] = q[i]
  BY <1>1, <1>2
<1>4. NoDup(r)
  BY <1>1, <1>3 DEF NoDup
<1>5. Elems(r) \subseteq Elems(q) /\ q[1] \in Elems(r)
  BY <1>1, <1>3 DEF Elems
<1> QED BY <1>1, <1>3, <1>4, <1>5 DEF r

\* Whatever is moved, pushed or cut, the lists remain lists of SNIs; moving
\* keeps the length, and what was cut is no longer than Capacity.
LEMMA ListsTyped ==
    ASSUME NEW q \in Seq(SNIs), NEW s \in SNIs
    PROVE  /\ MoveToFront(q, s) \in Seq(SNIs)
           /\ PushFront(q, s) \in Seq(SNIs)
           /\ Touch(q, s) \in Seq(SNIs)
           /\ Trim(q) \in Seq(SNIs)
           /\ Len(MoveToFront(q, s)) = Len(q)
           /\ Len(Trim(q)) <= Capacity
<1> DEFINE k == Position(q, s)
<1>1. MoveToFront(q, s) = [i \in 1..Len(q) |->
                              IF i = 1 THEN s
                              ELSE IF i <= k THEN q[i - 1] ELSE q[i]]
  BY DEF MoveToFront
<1> HIDE DEF k
<1>2. MoveToFront(q, s) \in Seq(SNIs) /\ Len(MoveToFront(q, s)) = Len(q)
  BY <1>1
<1>3. PushFront(q, s) \in Seq(SNIs)
  BY DEF PushFront
<1>4. Trim(q) \in Seq(SNIs) /\ Len(Trim(q)) <= Capacity
  BY ConstantsAssumption DEF Trim
<1> QED BY <1>2, <1>3, <1>4 DEF Touch

-----------------------------------------------------------------------------
(* Type correctness.                                                        *)

\* The SNI of a caller that has not called is one of the SNIs.
LEMMA UnaskedTyped == Unasked \in SNIs
  BY ConstantsAssumption DEF Unasked

\* Initially nothing is cached and nobody calls.
LEMMA InitTyped == Init => TypeOK
  BY UnaskedTyped, ConstantsAssumption DEF Init, TypeOK, Points

\* What Get's return does to the variables it assigns.
LEMMA ReturnTyped ==
    ASSUME TypeOK, NEW p \in Procs, NEW c \in Certs \union {NoCert}, Return(p, c)
    PROVE  /\ pc' \in [Procs -> Points]
           /\ val' \in [Procs -> Certs \union {NoCert}]
           /\ served' \in [SNIs -> Nat]
  BY NoCertAssumption DEF TypeOK, Return, Points, Certs

\* Every step keeps the types.
LEMMA NextTyped == TypeOK /\ [Next]_vars => TypeOK'
<1> SUFFICES ASSUME TypeOK, [Next]_vars PROVE TypeOK'
  OBVIOUS
<1>1. ASSUME NEW p \in Procs, Lookup(p) PROVE TypeOK'
  <2>1. req[p] \in SNIs /\ entries[req[p]] \in Certs \union {NoCert}
    BY DEF TypeOK
  <2>2. CASE Hit(req[p]) /\ Return(p, entries[req[p]])
    BY <1>1, <2>1, <2>2, ReturnTyped, ListsTyped DEF TypeOK, Lookup, Hit
  <2>3. CASE ~Fresh(req[p]) /\ pc' = [pc EXCEPT ![p] = "do"]
             /\ UNCHANGED <<cacheVars, val, served, used>>
    BY <1>1, <2>3 DEF TypeOK, Lookup, Points, cacheVars
  <2> QED BY <1>1, <2>2, <2>3 DEF Lookup
<1>2. ASSUME NEW p \in Procs, Do(p) PROVE TypeOK'
  <2>1. pc' \in [Procs -> Points] /\ flight' \in [SNIs -> Procs \union {NoProc}]
    <3>1. CASE flight' = [flight EXCEPT ![req[p]] = p] /\ pc' = [pc EXCEPT ![p] = "recheck"]
      BY <3>1 DEF TypeOK, Points
    <3>2. CASE UNCHANGED flight /\ pc' = [pc EXCEPT ![p] = "wait"]
      BY <3>2 DEF TypeOK, Points
    <3> QED BY <1>2, <3>1, <3>2 DEF Do
  <2> QED BY <1>2, <2>1 DEF TypeOK, Do, cacheVars, ghostVars
<1>3. ASSUME NEW p \in Procs, Recheck(p) PROVE TypeOK'
  <2>1. req[p] \in SNIs /\ entries[req[p]] \in Certs \union {NoCert}
    BY DEF TypeOK
  <2>2. CASE Hit(req[p]) /\ val' = [val EXCEPT ![p] = entries[req[p]]]
             /\ pc' = [pc EXCEPT ![p] = "complete"]
    BY <1>3, <2>1, <2>2, ListsTyped DEF TypeOK, Recheck, Hit, Points
  <2>3. CASE pc' = [pc EXCEPT ![p] = "issue"] /\ UNCHANGED <<cacheVars, val, used>>
    BY <1>3, <2>3 DEF TypeOK, Recheck, Points, cacheVars
  <2> QED BY <1>3, <2>2, <2>3 DEF Recheck
<1>4. ASSUME NEW p \in Procs, Store(p) PROVE TypeOK'
  <2>1. req[p] \in SNIs
    BY DEF TypeOK
  <2>2. order' \in Seq(SNIs) /\ Len(order') <= Capacity /\ used' \in Seq(SNIs)
    <3>1. order \in Seq(SNIs) /\ Len(order) <= Capacity /\ used \in Seq(SNIs)
      BY DEF TypeOK
    <3>2. /\ used' = Touch(used, req[p])
          /\ order' \in {MoveToFront(order, req[p]), Trim(PushFront(order, req[p]))}
      BY <1>4 DEF Store
    <3> QED BY <2>1, <3>1, <3>2, ListsTyped
  <2> QED BY <1>4, <2>1, <2>2 DEF TypeOK, Store, Points
<1>5. ASSUME NEW p \in Procs, Complete(p) PROVE TypeOK'
  BY <1>5 DEF TypeOK, Complete, Points, cacheVars, ghostVars
<1>6. ASSUME NEW p \in Procs, Woken(p) PROVE TypeOK'
  <2>1. /\ req[p] \in SNIs
        /\ entries[req[p]] \in Certs \union {NoCert}
        /\ val[p] \in Certs \union {NoCert}
    BY DEF TypeOK
  <2>2. \E c \in Certs \union {NoCert} : Return(p, c)
    BY <1>6, <2>1 DEF Woken
  <2>3. used' \in Seq(SNIs)
    BY <1>6, <2>1, ListsTyped DEF TypeOK, Woken
  <2> QED BY <1>6, <2>2, <2>3, ReturnTyped DEF TypeOK, Woken, cacheVars
<1>7. ASSUME NEW p \in Procs, IssuerStep(p) PROVE TypeOK'
  <2>1. CASE Issue(p)
    <3> PICK life \in Lifetimes :
             val' = [val EXCEPT ![p] =
                       [sni |-> req[p], serial |-> issued + 1,
                        notBefore |-> now - Skew, notAfter |-> now + life]]
      BY <2>1 DEF Issue
    <3> QED BY <2>1, ConstantsAssumption
            DEF TypeOK, Issue, Certs, Points, cacheVars, ghostVars
  <2>2. CASE IssueFails(p)
    BY <2>2 DEF TypeOK, IssueFails, Points, cacheVars, ghostVars
  <2> QED BY <1>7, <2>1, <2>2 DEF IssuerStep
<1>8. ASSUME NEW p \in Procs, HandshakeOver(p) PROVE TypeOK'
  BY <1>8, UnaskedTyped DEF TypeOK, HandshakeOver, Points, cacheVars
<1>9. ASSUME NEW p \in Procs, NEW s \in SNIs, Call(p, s) PROVE TypeOK'
  BY <1>9 DEF TypeOK, Call, Points, cacheVars
<1>10. CASE Tick
  BY <1>10 DEF TypeOK, Tick, cacheVars, ghostVars
<1>11. CASE UNCHANGED vars
  BY <1>11 DEF TypeOK, vars
<1> QED BY <1>1, <1>2, <1>3, <1>4, <1>5, <1>6, <1>7, <1>8, <1>9, <1>10, <1>11
        DEF Next, LocalStep

\* Every variable of the cache has its type in every reachable state.
THEOREM TypeCorrect == Spec => []TypeOK
  BY InitTyped, NextTyped, PTL DEF Spec

-----------------------------------------------------------------------------
(* The inductive invariant, one lemma per part.                             *)

LeadingPoints == {"recheck", "issue", "store", "complete"}

\* A step of one caller that neither starts nor ends a flight.
LEMMA FlightsLedKept ==
    ASSUME TypeOK, FlightsLed, NEW p \in Procs, NEW x,
           pc' = [pc EXCEPT ![p] = x], UNCHANGED <<flight, req>>,
           x \in LeadingPoints <=> Leading(p)
    PROVE  FlightsLed'
  BY DEF TypeOK, FlightsLed, Leading, LeadingPoints

\* singleflight's map and the callers' program points agree.
LEMMA FlightsLedStep == TypeOK /\ FlightsLed /\ [Next]_vars => FlightsLed'
<1> SUFFICES ASSUME TypeOK, FlightsLed, [Next]_vars PROVE FlightsLed'
  OBVIOUS
<1> USE ConstantsAssumption
<1>1. ASSUME NEW p \in Procs, Lookup(p) PROVE FlightsLed'
  <2>1. ~Leading(p) /\ UNCHANGED <<flight, req>>
    BY <1>1 DEF Lookup, Leading
  <2>2. \/ pc' = [pc EXCEPT ![p] = "done"]
        \/ pc' = [pc EXCEPT ![p] = "do"]
    BY <1>1 DEF Lookup, Return
  <2> QED BY <2>1, <2>2, FlightsLedKept DEF LeadingPoints
<1>2. ASSUME NEW p \in Procs, Do(p) PROVE FlightsLed'
  <2>1. CASE /\ flight[req[p]] = NoProc
             /\ flight' = [flight EXCEPT ![req[p]] = p]
             /\ pc' = [pc EXCEPT ![p] = "recheck"]
    BY <1>2, <2>1 DEF TypeOK, FlightsLed, Leading, Do
  <2>2. CASE UNCHANGED flight /\ pc' = [pc EXCEPT ![p] = "wait"]
    BY <1>2, <2>2 DEF TypeOK, FlightsLed, Leading, Do
  <2> QED BY <1>2, <2>1, <2>2 DEF Do
<1>3. ASSUME NEW p \in Procs, Recheck(p) PROVE FlightsLed'
  <2>1. Leading(p) /\ UNCHANGED <<flight, req>>
    BY <1>3 DEF Recheck, Leading
  <2>2. \/ pc' = [pc EXCEPT ![p] = "complete"]
        \/ pc' = [pc EXCEPT ![p] = "issue"]
    BY <1>3 DEF Recheck
  <2> QED BY <2>1, <2>2, FlightsLedKept DEF LeadingPoints
<1>4. ASSUME NEW p \in Procs, Store(p) PROVE FlightsLed'
  BY <1>4 DEF TypeOK, FlightsLed, Leading, Store
<1>5. ASSUME NEW p \in Procs, Complete(p) PROVE FlightsLed'
  BY <1>5 DEF TypeOK, FlightsLed, Leading, Complete
<1>6. ASSUME NEW p \in Procs, Woken(p) PROVE FlightsLed'
  <2>1. ~Leading(p) /\ UNCHANGED <<flight, req>>
    BY <1>6 DEF Woken, Leading
  <2>2. pc' = [pc EXCEPT ![p] = "done"]
    BY <1>6 DEF Woken, Return
  <2> QED BY <2>1, <2>2, FlightsLedKept DEF LeadingPoints
<1>7. ASSUME NEW p \in Procs, IssuerStep(p) PROVE FlightsLed'
  <2>1. Leading(p) /\ UNCHANGED <<flight, req>>
    BY <1>7 DEF IssuerStep, Issue, IssueFails, Leading
  <2>2. \/ pc' = [pc EXCEPT ![p] = "store"]
        \/ pc' = [pc EXCEPT ![p] = "complete"]
    BY <1>7 DEF IssuerStep, Issue, IssueFails
  <2> QED BY <2>1, <2>2, FlightsLedKept DEF LeadingPoints
<1>8. ASSUME NEW p \in Procs, HandshakeOver(p) PROVE FlightsLed'
  BY <1>8 DEF TypeOK, FlightsLed, Leading, HandshakeOver
<1>9. ASSUME NEW p \in Procs, NEW s \in SNIs, Call(p, s) PROVE FlightsLed'
  BY <1>9 DEF TypeOK, FlightsLed, Leading, Call
<1>10. CASE Tick
  BY <1>10 DEF FlightsLed, Leading, Tick
<1>11. CASE UNCHANGED vars
  BY <1>11 DEF FlightsLed, Leading, vars
<1> QED BY <1>1, <1>2, <1>3, <1>4, <1>5, <1>6, <1>7, <1>8, <1>9, <1>10, <1>11
        DEF Next, LocalStep

\* A running call entered Get at most MaxCall ago.
LEMMA CallsBoundedStep == TypeOK /\ CallsBounded /\ [Next]_vars => CallsBounded'
<1> SUFFICES ASSUME TypeOK, CallsBounded, [Next]_vars PROVE CallsBounded'
  OBVIOUS
<1> USE ConstantsAssumption
<1>1. ASSUME NEW p \in Procs, Lookup(p) PROVE CallsBounded'
  BY <1>1 DEF TypeOK, CallsBounded, Running, Lookup, Return
<1>2. ASSUME NEW p \in Procs, Do(p) PROVE CallsBounded'
  BY <1>2 DEF TypeOK, CallsBounded, Running, Do
<1>3. ASSUME NEW p \in Procs, Recheck(p) PROVE CallsBounded'
  BY <1>3 DEF TypeOK, CallsBounded, Running, Recheck
<1>4. ASSUME NEW p \in Procs, Store(p) PROVE CallsBounded'
  BY <1>4 DEF TypeOK, CallsBounded, Running, Store
<1>5. ASSUME NEW p \in Procs, Complete(p) PROVE CallsBounded'
  BY <1>5 DEF TypeOK, CallsBounded, Running, Complete
<1>6. ASSUME NEW p \in Procs, Woken(p) PROVE CallsBounded'
  <2>1. pc' = [pc EXCEPT ![p] = "done"] /\ UNCHANGED <<began, now>>
    BY <1>6 DEF Woken, Return
  <2> QED BY <2>1 DEF TypeOK, CallsBounded, Running
<1>7. ASSUME NEW p \in Procs, IssuerStep(p) PROVE CallsBounded'
  <2>1. pc[p] = "issue" /\ UNCHANGED <<began, now>>
    BY <1>7 DEF IssuerStep, Issue, IssueFails
  <2>2. pc' = [pc EXCEPT ![p] = "store"] \/ pc' = [pc EXCEPT ![p] = "complete"]
    BY <1>7 DEF IssuerStep, Issue, IssueFails
  <2>3. \A q \in Procs : Running(q)' => Running(q)
    BY <2>1, <2>2 DEF TypeOK, Running
  <2> QED BY <2>1, <2>3 DEF TypeOK, CallsBounded
<1>8. ASSUME NEW p \in Procs, HandshakeOver(p) PROVE CallsBounded'
  BY <1>8 DEF TypeOK, CallsBounded, Running, HandshakeOver
<1>9. ASSUME NEW p \in Procs, NEW s \in SNIs, Call(p, s) PROVE CallsBounded'
  BY <1>9 DEF TypeOK, CallsBounded, Running, Call
<1>10. CASE Tick
  BY <1>10 DEF TypeOK, CallsBounded, Running, Tick
<1>11. CASE UNCHANGED vars
  BY <1>11 DEF CallsBounded, Running, vars
<1> QED BY <1>1, <1>2, <1>3, <1>4, <1>5, <1>6, <1>7, <1>8, <1>9, <1>10, <1>11
        DEF Next, LocalStep

(* The refresh policies against the clock.                                  *)

\* A certificate that needs no refresh outlasts two calls (cache.go:43-45,
\* tlsmgr.go:162-167): this is what the margins are for.
LEMMA FreshOutlasts ==
    ASSUME TypeOK, NEW c \in Certs, LongEnough(c), ~needsRefresh(c)
    PROVE  c.notAfter >= now + 2 * MaxCall
<1> USE ConstantsAssumption, TimingAssumption
<1>1. c.notAfter \in Int /\ c.notBefore \in Int /\ now \in Int /\ MaxCall \in Int
  BY DEF Certs, TypeOK
<1>2. CASE VaultMode
  <2> DEFINE L == c.notAfter - c.notBefore
  <2>1. L >= 6 * MaxCall /\ now - c.notBefore <= (L * 2) \div 3
    BY <1>1, <1>2 DEF LongEnough, needsRefresh, VaultNeedsRefresh
  <2>2. L \in Int /\ now - c.notBefore = now - c.notAfter + L
    BY <1>1
  <2> HIDE DEF L
  <2>3. 3 * ((L * 2) \div 3) <= L * 2
    BY <2>2
  <2> QED BY <1>1, <2>1, <2>2, <2>3
<1>3. CASE ~VaultMode
  BY <1>1, <1>3 DEF needsRefresh, AutoNeedsRefresh
<1> QED BY <1>2, <1>3

\* The clock never makes a stale certificate fresh again.
LEMMA StaysStale ==
    ASSUME TypeOK, NEW c \in Certs, needsRefresh(c), now' = now + 1
    PROVE  needsRefresh(c)'
<1>1. c.notAfter \in Int /\ c.notBefore \in Int /\ now \in Int
      /\ RefreshMargin \in Int /\ VaultMode \in BOOLEAN
  BY ConstantsAssumption DEF Certs, TypeOK
<1>2. CASE VaultMode
  <2> DEFINE X == ((c.notAfter - c.notBefore) * 2) \div 3
  <2>1. X \in Int
    BY <1>1
  <2>2. now - c.notBefore > X
    BY <1>2 DEF needsRefresh, VaultNeedsRefresh
  <2> HIDE DEF X
  <2>3. now' - c.notBefore > X
    BY <1>1, <2>1, <2>2
  <2> QED BY <1>2, <2>3 DEF needsRefresh, VaultNeedsRefresh, X
<1>3. CASE ~VaultMode
  BY <1>1, <1>3 DEF needsRefresh, AutoNeedsRefresh
<1> QED BY <1>2, <1>3

\* A step that leaves the cache and the clock alone and starts no issuance.
LEMMA IssuingKept ==
    ASSUME IssuingOnlyWhenNeeded, UNCHANGED <<entries, now>>,
           \A q \in Procs : pc'[q] \in {"issue", "store"} =>
                              pc[q] \in {"issue", "store"} /\ req'[q] = req[q]
    PROVE  IssuingOnlyWhenNeeded'
  BY DEF IssuingOnlyWhenNeeded, Fresh, needsRefresh, VaultNeedsRefresh,
         AutoNeedsRefresh

\* A certificate is issued only for an SNI that has no good one, because the
\* flight looks again before it issues and is the only one for its SNI.
LEMMA IssuingStep ==
    TypeOK /\ FlightsLed /\ IssuingOnlyWhenNeeded /\ [Next]_vars
        => IssuingOnlyWhenNeeded'
<1> SUFFICES ASSUME TypeOK, FlightsLed, IssuingOnlyWhenNeeded, [Next]_vars
             PROVE  IssuingOnlyWhenNeeded'
  OBVIOUS
<1>1. ASSUME NEW p \in Procs, Lookup(p) PROVE IssuingOnlyWhenNeeded'
  <2>1. UNCHANGED <<entries, now, req>>
    BY <1>1 DEF Lookup, Hit, cacheVars
  <2>2. pc' = [pc EXCEPT ![p] = "done"] \/ pc' = [pc EXCEPT ![p] = "do"]
    BY <1>1 DEF Lookup, Return
  <2> QED BY <2>1, <2>2, IssuingKept DEF TypeOK
<1>2. ASSUME NEW p \in Procs, Do(p) PROVE IssuingOnlyWhenNeeded'
  <2>1. UNCHANGED <<entries, now, req>>
    BY <1>2 DEF Do, cacheVars
  <2>2. pc' = [pc EXCEPT ![p] = "recheck"] \/ pc' = [pc EXCEPT ![p] = "wait"]
    BY <1>2 DEF Do
  <2> QED BY <2>1, <2>2, IssuingKept DEF TypeOK
<1>3. ASSUME NEW p \in Procs, Recheck(p) PROVE IssuingOnlyWhenNeeded'
  <2>1. UNCHANGED <<entries, now, req>>
    BY <1>3 DEF Recheck, Hit, cacheVars
  <2>2. CASE pc' = [pc EXCEPT ![p] = "complete"]
    BY <2>1, <2>2, IssuingKept DEF TypeOK
  <2>3. CASE ~Fresh(req[p]) /\ pc' = [pc EXCEPT ![p] = "issue"]
    <3>1. \A s \in SNIs : Fresh(s)' <=> Fresh(s)
      BY <2>1 DEF Fresh, needsRefresh, VaultNeedsRefresh, AutoNeedsRefresh
    <3> QED BY <2>1, <2>3, <3>1 DEF IssuingOnlyWhenNeeded, TypeOK
  <2> QED BY <1>3, <2>2, <2>3 DEF Recheck
<1>4. ASSUME NEW p \in Procs, Store(p) PROVE IssuingOnlyWhenNeeded'
  <2> SUFFICES ASSUME NEW q \in Procs, pc'[q] \in {"issue", "store"}
               PROVE  ~Fresh(req[q])'
    BY DEF IssuingOnlyWhenNeeded
  <2>1. q # p /\ pc[q] \in {"issue", "store"} /\ req'[q] = req[q]
    BY <1>4 DEF Store, TypeOK
  <2>2. req[q] # req[p]
    BY <1>4, <2>1 DEF FlightsLed, Leading, Store
  <2>3. entries'[req[q]] = entries[req[q]] \/ entries'[req[q]] = NoCert
    BY <1>4, <2>2 DEF Store, TypeOK
  <2>4. ~Fresh(req[q]) /\ now' = now
    BY <1>4, <2>1 DEF IssuingOnlyWhenNeeded, Store
  <2> QED BY <2>1, <2>3, <2>4
          DEF Fresh, needsRefresh, VaultNeedsRefresh, AutoNeedsRefresh
<1>5. ASSUME NEW p \in Procs, Complete(p) PROVE IssuingOnlyWhenNeeded'
  <2>1. UNCHANGED <<entries, now, req>>
    BY <1>5 DEF Complete, cacheVars
  <2>2. \A q \in Procs : pc'[q] = pc[q] \/ pc'[q] = "woken"
    BY <1>5 DEF Complete
  <2> QED BY <2>1, <2>2, IssuingKept
<1>6. ASSUME NEW p \in Procs, Woken(p) PROVE IssuingOnlyWhenNeeded'
  <2>1. UNCHANGED <<entries, now, req>>
    BY <1>6 DEF Woken, cacheVars
  <2>2. pc' = [pc EXCEPT ![p] = "done"]
    BY <1>6 DEF Woken, Return
  <2> QED BY <2>1, <2>2, IssuingKept DEF TypeOK
<1>7. ASSUME NEW p \in Procs, IssuerStep(p) PROVE IssuingOnlyWhenNeeded'
  <2>1. UNCHANGED <<entries, now, req>> /\ pc[p] = "issue"
    BY <1>7 DEF IssuerStep, Issue, IssueFails, cacheVars
  <2>2. pc' = [pc EXCEPT ![p] = "store"] \/ pc' = [pc EXCEPT ![p] = "complete"]
    BY <1>7 DEF IssuerStep, Issue, IssueFails
  <2> QED BY <2>1, <2>2, IssuingKept DEF TypeOK
<1>8. ASSUME NEW p \in Procs, HandshakeOver(p) PROVE IssuingOnlyWhenNeeded'
  BY <1>8, IssuingKept DEF TypeOK, HandshakeOver, cacheVars
<1>9. ASSUME NEW p \in Procs, NEW s \in SNIs, Call(p, s)
      PROVE IssuingOnlyWhenNeeded'
  BY <1>9, IssuingKept DEF TypeOK, Call, cacheVars
<1>10. CASE Tick
  <2> SUFFICES ASSUME NEW q \in Procs, pc'[q] \in {"issue", "store"}
               PROVE  ~Fresh(req[q])'
    BY DEF IssuingOnlyWhenNeeded
  <2>1. UNCHANGED <<entries, req, pc>> /\ now' = now + 1
    BY <1>10 DEF Tick, cacheVars
  <2>2. ~Fresh(req[q])
    BY <2>1 DEF IssuingOnlyWhenNeeded
  <2>3. entries[req[q]] = NoCert \/ entries[req[q]] \in Certs
    BY DEF TypeOK
  <2>4. CASE entries[req[q]] = NoCert
    BY <2>1, <2>4 DEF Fresh
  <2>5. CASE entries[req[q]] \in Certs /\ entries[req[q]] # NoCert
    <3> DEFINE c == entries[req[q]]
    <3>1. c \in Certs /\ needsRefresh(c)
      BY <2>2, <2>5 DEF Fresh
    <3>2. needsRefresh(entries[req[q]])'
      BY <2>1, <3>1, StaysStale DEF needsRefresh, VaultNeedsRefresh, AutoNeedsRefresh
    <3> QED BY <3>2 DEF Fresh
  <2> QED BY <2>3, <2>4, <2>5
<1>11. CASE UNCHANGED vars
  BY <1>11, IssuingKept DEF vars
<1> QED BY <1>1, <1>2, <1>3, <1>4, <1>5, <1>6, <1>7, <1>8, <1>9, <1>10, <1>11
        DEF Next, LocalStep

-----------------------------------------------------------------------------
(* Coherence of the map and the list.                                       *)

\* CacheCoherent, with the list's uniqueness under its name.
LEMMA CoherentParts ==
    CacheCoherent <=>
        /\ NoDup(order)
        /\ \A s \in SNIs : s \in Elems(order) <=> entries[s] # NoCert
        /\ \A s \in SNIs : entries[s] # NoCert => entries[s].sni = s
  BY DEF CacheCoherent, NoDup

\* lookup's hit keeps the cache coherent (cache.go:100).
LEMMA HitCoherent ==
    ASSUME TypeOK, CacheCoherent, NEW s \in SNIs, Hit(s)
    PROVE  CacheCoherent'
<1>1. /\ s \in Elems(order) /\ order \in Seq(SNIs) /\ NoDup(order)
      /\ order' = MoveToFront(order, s) /\ entries' = entries
  BY CoherentParts DEF Hit, Fresh, TypeOK
<1>2. /\ Len(order') = Len(order) /\ Elems(order') = Elems(order)
      /\ NoDup(order')
  BY <1>1, MoveToFrontPermutes
<1>3. NoDup(order)' /\ \A t \in SNIs : t \in Elems(order)' <=> t \in Elems(order)
  BY <1>2 DEF NoDup, Elems
<1> QED BY <1>1, <1>2, <1>3, CoherentParts DEF CacheCoherent, NoDup

\* store keeps the cache coherent, eviction included (cache.go:120-134).
LEMMA StoreCoherent ==
    ASSUME TypeOK, CacheCoherent, HeldCertsGood, NEW p \in Procs, Store(p)
    PROVE  CacheCoherent'
<1> DEFINE s    == req[p]
           list == IF entries[s] # NoCert
                   THEN MoveToFront(order, s) ELSE Trim(PushFront(order, s))
<1>1. /\ s \in SNIs /\ order \in Seq(SNIs) /\ NoDup(order)
      /\ s \in Elems(order) <=> entries[s] # NoCert
  BY CoherentParts DEF TypeOK
<1>2. val[p] # NoCert /\ val[p].sni = s
  BY DEF HeldCertsGood, Store
<1>3. /\ order' = list
      /\ entries' = [t \in SNIs |->
                        IF t = s THEN val[p]
                        ELSE IF t \in Elems(list) THEN entries[t] ELSE NoCert]
  BY DEF Store
<1>4. /\ NoDup(list) /\ s \in Elems(list)
      /\ Elems(list) \subseteq Elems(order) \union {s}
  <2>1. CASE entries[s] # NoCert
    <3>1. list = MoveToFront(order, s) /\ s \in Elems(order)
      BY <1>1, <2>1
    <3> QED BY <1>1, <3>1, MoveToFrontPermutes
  <2>2. CASE entries[s] = NoCert
    <3> DEFINE q == PushFront(order, s)
    <3>1. list = Trim(q) /\ s \notin Elems(order)
      BY <1>1, <2>2
    <3>2. /\ q \in Seq(SNIs) /\ Len(q) = Len(order) + 1 /\ q[1] = s /\ NoDup(q)
          /\ Elems(q) = Elems(order) \union {s}
      BY <1>1, <3>1, PushFrontAdds
    <3>3. Len(q) > 0
      BY <1>1, <3>2
    <3> HIDE DEF q
    <3>4. /\ NoDup(Trim(q))
          /\ Elems(Trim(q)) \subseteq Elems(q) /\ q[1] \in Elems(Trim(q))
      BY <3>2, <3>3, TrimBounds
    <3> QED BY <3>1, <3>2, <3>4
  <2> QED BY <2>1, <2>2
<1> HIDE DEF s, list
<1>5. \A t \in SNIs : t \in Elems(list) <=> entries'[t] # NoCert
  BY <1>1, <1>2, <1>3, <1>4, CoherentParts
<1>6. \A t \in SNIs : entries'[t] # NoCert => entries'[t].sni = t
  BY <1>2, <1>3, CoherentParts
<1> QED BY <1>3, <1>4, <1>5, <1>6 DEF CacheCoherent, NoDup, Elems

\* Map and list stay in step through hits, stores and evictions.
LEMMA CacheCoherentStep ==
    TypeOK /\ CacheCoherent /\ HeldCertsGood /\ [Next]_vars => CacheCoherent'
<1> SUFFICES ASSUME TypeOK, CacheCoherent, HeldCertsGood, [Next]_vars
             PROVE  CacheCoherent'
  OBVIOUS
<1>1. CASE UNCHANGED cacheVars
  BY <1>1 DEF CacheCoherent, cacheVars, Elems
<1>2. ASSUME NEW p \in Procs, Lookup(p) PROVE CacheCoherent'
  BY <1>1, <1>2, HitCoherent DEF Lookup, TypeOK, cacheVars
<1>3. ASSUME NEW p \in Procs, Recheck(p) PROVE CacheCoherent'
  BY <1>1, <1>3, HitCoherent DEF Recheck, TypeOK, cacheVars
<1>4. ASSUME NEW p \in Procs, Store(p) PROVE CacheCoherent'
  BY <1>4, StoreCoherent
<1>5. ASSUME NEW p \in Procs,
             Do(p) \/ Complete(p) \/ Woken(p) \/ IssuerStep(p) \/ HandshakeOver(p)
      PROVE  CacheCoherent'
  BY <1>1, <1>5 DEF Do, Complete, Woken, IssuerStep, Issue, IssueFails,
                    HandshakeOver, cacheVars
<1>6. ASSUME NEW p \in Procs, NEW s \in SNIs, Call(p, s) PROVE CacheCoherent'
  BY <1>1, <1>6 DEF Call, cacheVars
<1>7. CASE Tick
  BY <1>1, <1>7 DEF Tick, cacheVars
<1>8. CASE UNCHANGED vars
  BY <1>1, <1>8 DEF vars, cacheVars
<1> QED BY <1>2, <1>3, <1>4, <1>5, <1>6, <1>7, <1>8 DEF Next, LocalStep

-----------------------------------------------------------------------------
(* What callers hold is theirs and lasts.                                   *)

\* HeldCertsGood for one caller.
HoldsGood(p) ==
    /\ pc[p] = "store" => val[p] # NoCert
    /\ val[p] # NoCert =>
          /\ pc[p] \in {"store", "complete"} =>
                /\ val[p].sni = req[p]
                /\ LongEnough(val[p])
                /\ val[p].notAfter >= began[p] + 2 * MaxCall
          /\ pc[p] = "woken" =>
                /\ val[p].sni = req[p]
                /\ val[p].notAfter >= began[p] + MaxCall

EntriesLong == \A s \in SNIs : entries[s] # NoCert => LongEnough(entries[s])

\* HeldCertsGood is about the cache, and about each caller by itself.
LEMMA HeldParts ==
    HeldCertsGood <=> EntriesLong /\ \A p \in Procs : HoldsGood(p)
  BY DEF HeldCertsGood, HoldsGood, EntriesLong

\* A caller whose own variables a step leaves alone, or who leaves with it.
LEMMA HoldsKept ==
    ASSUME NEW q \in Procs, HoldsGood(q),
           \/ pc'[q] \notin {"store", "complete", "woken"}
           \/ /\ pc'[q] = pc[q] /\ val'[q] = val[q]
              /\ req'[q] = req[q] /\ began'[q] = began[q]
    PROVE  HoldsGood(q)'
  BY DEF HoldsGood, LongEnough

\* What callers hold stays theirs and lasts, whatever the others do.
LEMMA HeldStep ==
    /\ TypeOK /\ CacheCoherent /\ CallsBounded /\ HeldCertsGood /\ [Next]_vars
    => HeldCertsGood'
<1> SUFFICES ASSUME TypeOK, CacheCoherent, CallsBounded, HeldCertsGood, [Next]_vars
             PROVE  HeldCertsGood'
  OBVIOUS
<1>0. EntriesLong /\ \A q \in Procs : HoldsGood(q)
  BY HeldParts
<1>a. ASSUME UNCHANGED entries, \A q \in Procs : HoldsGood(q)'
      PROVE  HeldCertsGood'
  BY <1>0, <1>a, HeldParts DEF EntriesLong, LongEnough, HeldCertsGood, HoldsGood
<1>1. ASSUME NEW p \in Procs, Lookup(p) PROVE HeldCertsGood'
  <2>1. UNCHANGED <<entries, req, began>>
    BY <1>1 DEF Lookup, Hit, cacheVars
  <2>2. CASE Return(p, entries[req[p]])
    BY <1>0, <1>a, <2>1, <2>2, HoldsKept DEF Return, TypeOK
  <2>3. CASE pc' = [pc EXCEPT ![p] = "do"] /\ UNCHANGED val
    BY <1>0, <1>a, <2>1, <2>3, HoldsKept DEF TypeOK
  <2> QED BY <1>1, <2>2, <2>3 DEF Lookup
<1>2. ASSUME NEW p \in Procs, Do(p) PROVE HeldCertsGood'
  <2>1. UNCHANGED <<entries, req, began, val>>
    BY <1>2 DEF Do, cacheVars
  <2>2. pc' = [pc EXCEPT ![p] = "recheck"] \/ pc' = [pc EXCEPT ![p] = "wait"]
    BY <1>2 DEF Do
  <2> QED BY <1>0, <1>a, <2>1, <2>2, HoldsKept DEF TypeOK
<1>3. ASSUME NEW p \in Procs, Recheck(p) PROVE HeldCertsGood'
  <2>1. UNCHANGED <<entries, req, began>> /\ req[p] \in SNIs
    BY <1>3 DEF Recheck, Hit, cacheVars, TypeOK
  <2>2. CASE /\ Fresh(req[p]) /\ val' = [val EXCEPT ![p] = entries[req[p]]]
             /\ pc' = [pc EXCEPT ![p] = "complete"]
    <3> DEFINE c == entries[req[p]]
    <3>1. /\ c \in Certs /\ c # NoCert /\ c.sni = req[p] /\ LongEnough(c)
          /\ ~needsRefresh(c)
      BY <1>0, <2>1, <2>2 DEF Fresh, TypeOK, CacheCoherent, EntriesLong
    <3>2. c.notAfter >= now + 2 * MaxCall
      BY <3>1, FreshOutlasts
    <3>3. c.notAfter >= began[p] + 2 * MaxCall
      <4>1. began[p] <= now
        BY <1>3 DEF CallsBounded, Running, Recheck
      <4>2. /\ began[p] \in Int /\ now \in Int
            /\ MaxCall \in Int /\ c.notAfter \in Int
        BY <3>1, ConstantsAssumption DEF TypeOK, Certs
      <4> QED BY <3>2, <4>1, <4>2
    <3>4. val'[p] = c /\ pc'[p] = "complete"
      BY <2>2 DEF TypeOK
    <3> HIDE DEF c
    <3>5. HoldsGood(p)'
      BY <2>1, <3>1, <3>3, <3>4 DEF HoldsGood, LongEnough
    <3>6. \A q \in Procs \ {p} : HoldsGood(q)'
      BY <1>0, <2>1, <2>2, HoldsKept DEF TypeOK
    <3> QED BY <1>a, <2>1, <3>5, <3>6
  <2>3. CASE pc' = [pc EXCEPT ![p] = "issue"] /\ UNCHANGED val
    BY <1>0, <1>a, <2>1, <2>3, HoldsKept DEF TypeOK
  <2> QED BY <1>3, <2>2, <2>3 DEF Recheck, Hit
<1>4. ASSUME NEW p \in Procs, Store(p) PROVE HeldCertsGood'
  <2>1. /\ UNCHANGED <<req, began, val>> /\ pc[p] = "store" /\ pc'[p] = "complete"
        /\ \A q \in Procs \ {p} : pc'[q] = pc[q]
    BY <1>4 DEF Store, TypeOK
  <2>2. \A q \in Procs \ {p} : HoldsGood(q)'
    BY <1>0, <2>1, HoldsKept
  <2>3. HoldsGood(p)'
    BY <1>0, <2>1 DEF HoldsGood, LongEnough
  <2>4. \A t \in SNIs : entries'[t] \in {val[p], entries[t], NoCert}
    BY <1>4 DEF Store
  <2>5. LongEnough(val[p])
    BY <1>0, <2>1 DEF HoldsGood
  <2>6. EntriesLong'
    BY <1>0, <2>4, <2>5 DEF EntriesLong, LongEnough
  <2> QED BY <2>2, <2>3, <2>6, HeldParts DEF HeldCertsGood, HoldsGood, EntriesLong
<1>5. ASSUME NEW p \in Procs, Complete(p) PROVE HeldCertsGood'
  <2>1. UNCHANGED <<entries, req, began, now>> /\ pc[p] = "complete"
    BY <1>5 DEF Complete, cacheVars
  <2> SUFFICES ASSUME NEW q \in Procs PROVE HoldsGood(q)'
    BY <1>a, <2>1
  <2>2. CASE (pc[q] = "wait" /\ req[q] = req[p]) \/ q = p
    <3>1. val'[q] = val[p] /\ pc'[q] = "woken" /\ req[q] = req[p]
      BY <1>5, <2>2 DEF Complete
    <3>2. CASE val[p] = NoCert
      BY <3>1, <3>2 DEF HoldsGood
    <3>3. CASE val[p] # NoCert
      <4>1. val[p].sni = req[p] /\ val[p].notAfter >= began[p] + 2 * MaxCall
        BY <1>0, <2>1, <3>3 DEF HoldsGood
      <4>2. began[q] <= now /\ now <= began[p] + MaxCall
        BY <2>1, <2>2 DEF CallsBounded, Running
      <4>3. /\ began[p] \in Int /\ began[q] \in Int /\ now \in Int
            /\ MaxCall \in Int /\ val[p].notAfter \in Int
        BY <3>3, ConstantsAssumption DEF TypeOK, Certs
      <4>4. val[p].notAfter >= began[q] + MaxCall
        BY <4>1, <4>2, <4>3
      <4> QED BY <2>1, <3>1, <4>1, <4>4 DEF HoldsGood
    <3> QED BY <3>2, <3>3
  <2>3. CASE ~((pc[q] = "wait" /\ req[q] = req[p]) \/ q = p)
    BY <1>0, <1>5, <2>1, <2>3, HoldsKept DEF Complete
  <2> QED BY <2>2, <2>3
<1>6. ASSUME NEW p \in Procs, Woken(p) PROVE HeldCertsGood'
  <2>1. UNCHANGED <<entries, req, began>>
    BY <1>6 DEF Woken, cacheVars
  <2>2. \A q \in Procs \ {p} : pc'[q] = pc[q] /\ val'[q] = val[q]
    BY <1>6 DEF Woken, Return, TypeOK
  <2>3. pc'[p] = "done"
    BY <1>6 DEF Woken, Return, TypeOK
  <2> QED BY <1>0, <1>a, <2>1, <2>2, <2>3, HoldsKept
<1>7. ASSUME NEW p \in Procs, Issue(p) PROVE HeldCertsGood'
  <2>4. began[p] <= now /\ began[p] \in Int /\ now \in Int
    <3>1. began[p] <= now
      BY <1>7 DEF Issue, CallsBounded, Running
    <3> QED BY <3>1 DEF TypeOK
  <2> PICK life \in Lifetimes :
           val' = [val EXCEPT ![p] =
                     [sni |-> req[p], serial |-> issued + 1,
                      notBefore |-> now - Skew, notAfter |-> now + life]]
    BY <1>7 DEF Issue
  <2>1. /\ UNCHANGED <<entries, req, began>> /\ pc[p] = "issue" /\ pc'[p] = "store"
        /\ \A q \in Procs \ {p} : pc'[q] = pc[q] /\ val'[q] = val[q]
    BY <1>7 DEF Issue, cacheVars, TypeOK
  <2>2. \A q \in Procs \ {p} : HoldsGood(q)'
    BY <1>0, <2>1, HoldsKept
  <2> DEFINE c == [sni |-> req[p], serial |-> issued + 1,
                   notBefore |-> now - Skew, notAfter |-> now + life]
  <2>3. c = val'[p] /\ c \in Certs /\ c # NoCert
    BY NoCertAssumption, ConstantsAssumption DEF TypeOK, Certs
  <2>5. c.sni = req[p] /\ LongEnough(c) /\ c.notAfter >= began[p] + 2 * MaxCall
    <3>1. /\ life \in Int /\ MaxCall \in Int /\ Skew \in Int /\ life >= 2 * MaxCall
          /\ VaultMode => life + Skew >= 6 * MaxCall
      BY ConstantsAssumption, TimingAssumption
    <3>2. c.sni = req[p] /\ c.notBefore = now - Skew /\ c.notAfter = now + life
      OBVIOUS
    <3> HIDE DEF c
    <3> QED BY <2>4, <3>1, <3>2 DEF LongEnough
  <2> HIDE DEF c
  <2>6. HoldsGood(p)'
    BY <2>1, <2>3, <2>5 DEF HoldsGood, LongEnough
  <2> QED BY <1>a, <2>1, <2>2, <2>6
<1>8. ASSUME NEW p \in Procs, IssueFails(p) PROVE HeldCertsGood'
  <2>1. /\ UNCHANGED <<entries, req, began>> /\ pc'[p] = "complete"
        /\ val'[p] = NoCert
        /\ \A q \in Procs \ {p} : pc'[q] = pc[q] /\ val'[q] = val[q]
    BY <1>8 DEF IssueFails, cacheVars, TypeOK
  <2>2. HoldsGood(p)'
    BY <2>1 DEF HoldsGood
  <2> QED BY <1>0, <1>a, <2>1, <2>2, HoldsKept
<1>9. ASSUME NEW p \in Procs, HandshakeOver(p) PROVE HeldCertsGood'
  BY <1>0, <1>a, <1>9, HoldsKept DEF HandshakeOver, cacheVars, TypeOK
<1>10. ASSUME NEW p \in Procs, NEW s \in SNIs, Call(p, s) PROVE HeldCertsGood'
  BY <1>0, <1>a, <1>10, HoldsKept DEF Call, cacheVars, TypeOK
<1>11. CASE Tick \/ UNCHANGED vars
  BY <1>0, <1>a, <1>11, HoldsKept DEF Tick, vars, cacheVars
<1> QED BY <1>1, <1>2, <1>3, <1>4, <1>5, <1>6, <1>7, <1>8, <1>9, <1>10, <1>11
        DEF Next, LocalStep, IssuerStep

-----------------------------------------------------------------------------
(* Serial numbers: no caller is answered with an older certificate than one *)
(* an earlier caller got.                                                   *)

\* What Get's return changes, point by point.
LEMMA ReturnEffect ==
    ASSUME TypeOK, NEW p \in Procs, NEW c \in Certs \union {NoCert}, Return(p, c)
    PROVE  /\ pc'[p] = "done" /\ val'[p] = c
           /\ \A q \in Procs \ {p} : pc'[q] = pc[q] /\ val'[q] = val[q]
           /\ \A s \in SNIs :
                 served'[s] = IF s = req[p] /\ c # NoCert /\ c.serial > served[s]
                              THEN c.serial ELSE served[s]
  BY DEF TypeOK, Return

\* A Woken step returns what the flight brought, the stale entry, or nothing.
LEMMA WokenReturns ==
    ASSUME TypeOK, NEW p \in Procs, Woken(p)
    PROVE  \E c \in Certs \union {NoCert} :
              /\ Return(p, c)
              /\ \/ c = val[p] /\ c # NoCert
                 \/ c = entries[req[p]] /\ c # NoCert /\ now <= c.notAfter
                 \/ c = NoCert
<1>1. val[p] \in Certs \union {NoCert} /\ entries[req[p]] \in Certs \union {NoCert}
  BY DEF TypeOK
<1> QED BY <1>1 DEF Woken, StaleUsable

\* A step that issues nothing, and only raises served within what was issued.
LEMMA SerialsKept ==
    ASSUME TypeOK, SerialsBounded, issued' = issued,
           \A s \in SNIs : /\ served'[s] \in Nat
                           /\ served[s] <= served'[s] /\ served'[s] <= issued,
           \A s \in SNIs : entries'[s] # NoCert => entries'[s].serial <= issued,
           \A q \in Procs : val'[q] # NoCert => val'[q].serial <= issued,
           \A q \in Procs : Running(q)' => \/ floor'[q] = served'[req'[q]]
                                           \/ /\ Running(q) /\ req'[q] = req[q]
                                              /\ floor'[q] = floor[q],
           req' \in [Procs -> SNIs]
    PROVE  SerialsBounded'
<1>1. \A q \in Procs : Running(q)' => floor'[q] <= served'[req'[q]]
  <2> SUFFICES ASSUME NEW q \in Procs, Running(q)'
               PROVE  floor'[q] <= served'[req'[q]]
    OBVIOUS
  <2>1. CASE floor'[q] = served'[req'[q]]
    BY <2>1
  <2>2. CASE Running(q) /\ req'[q] = req[q] /\ floor'[q] = floor[q]
    <3>1. floor[q] <= served[req[q]] /\ served[req[q]] <= served'[req[q]]
      BY <2>2 DEF SerialsBounded, TypeOK
    <3>2. /\ floor[q] \in Nat /\ served[req[q]] \in Nat
          /\ served'[req[q]] \in Nat
      BY DEF TypeOK
    <3> QED BY <2>2, <3>1, <3>2
  <2> QED BY <2>1, <2>2
<1> QED BY <1>1 DEF SerialsBounded

\* Nobody has been served, or holds, a serial that was not issued yet.
LEMMA SerialsStep == TypeOK /\ SerialsBounded /\ [Next]_vars => SerialsBounded'
<1> SUFFICES ASSUME TypeOK, SerialsBounded, [Next]_vars PROVE SerialsBounded'
  OBVIOUS
<1>0. TypeOK'
  BY NextTyped
<1>s. /\ \A s \in SNIs : served[s] \in Nat /\ served[s] <= issued
      /\ \A s \in SNIs : entries[s] # NoCert => entries[s].serial <= issued
      /\ \A q \in Procs : val[q] # NoCert => val[q].serial <= issued
      /\ issued \in Nat /\ req' \in [Procs -> SNIs]
  BY <1>0 DEF SerialsBounded, TypeOK
\* A caller p returns c.
<1>r. ASSUME NEW p \in Procs, NEW c \in Certs \union {NoCert}, Return(p, c),
             c # NoCert => c.serial <= issued,
             UNCHANGED <<issued, entries, req, floor>>
      PROVE  SerialsBounded'
  <2>1. /\ pc'[p] = "done" /\ val'[p] = c
        /\ \A q \in Procs \ {p} : pc'[q] = pc[q] /\ val'[q] = val[q]
        /\ \A s \in SNIs :
              served'[s] = IF s = req[p] /\ c # NoCert /\ c.serial > served[s]
                           THEN c.serial ELSE served[s]
    BY <1>r, ReturnEffect
  <2>2. c # NoCert => c.serial \in Nat
    BY DEF Certs
  <2>3. \A s \in SNIs : /\ served'[s] \in Nat
                        /\ served[s] <= served'[s] /\ served'[s] <= issued
    BY <1>s, <1>r, <2>1, <2>2
  <2>4. \A q \in Procs : val'[q] # NoCert => val'[q].serial <= issued
    BY <1>s, <1>r, <2>1
  <2>5. \A q \in Procs : Running(q)' => Running(q)
    BY <2>1 DEF Running
  <2> QED BY <1>s, <1>r, <2>3, <2>4, <2>5, SerialsKept
<1>1. ASSUME NEW p \in Procs, Lookup(p) PROVE SerialsBounded'
  <2>1. UNCHANGED <<issued, entries, req, floor>> /\ pc[p] = "lookup"
    BY <1>1 DEF Lookup, Hit, cacheVars
  <2>2. CASE Return(p, entries[req[p]])
    BY <1>s, <1>r, <2>1, <2>2 DEF TypeOK
  <2>3. CASE pc' = [pc EXCEPT ![p] = "do"] /\ UNCHANGED <<val, served>>
    <3>1. \A q \in Procs : Running(q)' => Running(q)
      BY <2>1, <2>3 DEF Running, TypeOK
    <3> QED BY <1>s, <2>1, <2>3, <3>1, SerialsKept
  <2> QED BY <1>1, <2>2, <2>3 DEF Lookup
<1>2. ASSUME NEW p \in Procs, Do(p) PROVE SerialsBounded'
  <2>1. UNCHANGED <<issued, entries, req, floor, val, served>> /\ pc[p] = "do"
    BY <1>2 DEF Do, cacheVars, ghostVars
  <2>2. pc' = [pc EXCEPT ![p] = "recheck"] \/ pc' = [pc EXCEPT ![p] = "wait"]
    BY <1>2 DEF Do
  <2>3. \A q \in Procs : Running(q)' => Running(q)
    BY <2>1, <2>2 DEF Running, TypeOK
  <2> QED BY <1>s, <2>1, <2>3, SerialsKept
<1>3. ASSUME NEW p \in Procs, Recheck(p) PROVE SerialsBounded'
  <2>1. UNCHANGED <<issued, entries, req, floor, served>> /\ pc[p] = "recheck"
    BY <1>3 DEF Recheck, Hit, cacheVars
  <2>2. pc' = [pc EXCEPT ![p] = "complete"] \/ pc' = [pc EXCEPT ![p] = "issue"]
    BY <1>3 DEF Recheck
  <2>3. val' = [val EXCEPT ![p] = entries[req[p]]] \/ UNCHANGED val
    BY <1>3 DEF Recheck
  <2>4. \A q \in Procs : Running(q)' => Running(q)
    BY <2>1, <2>2 DEF Running, TypeOK
  <2>5. \A q \in Procs : val'[q] # NoCert => val'[q].serial <= issued
    BY <1>s, <2>3 DEF TypeOK
  <2> QED BY <1>s, <2>1, <2>4, <2>5, SerialsKept
<1>4. ASSUME NEW p \in Procs, Store(p) PROVE SerialsBounded'
  <2>1. UNCHANGED <<issued, req, floor, served, val>> /\ pc[p] = "store"
        /\ pc' = [pc EXCEPT ![p] = "complete"]
    BY <1>4 DEF Store
  <2>2. \A t \in SNIs : entries'[t] \in {val[p], entries[t], NoCert}
    BY <1>4 DEF Store
  <2>3. \A t \in SNIs : entries'[t] # NoCert => entries'[t].serial <= issued
    BY <1>s, <2>2
  <2>4. \A q \in Procs : Running(q)' => Running(q)
    BY <2>1 DEF Running, TypeOK
  <2> QED BY <1>s, <2>1, <2>3, <2>4, SerialsKept
<1>5. ASSUME NEW p \in Procs, Complete(p) PROVE SerialsBounded'
  <2>1. UNCHANGED <<issued, entries, req, floor, served>> /\ pc[p] = "complete"
    BY <1>5 DEF Complete, cacheVars, ghostVars
  <2>2. \A q \in Procs : val'[q] \in {val[p], val[q]}
    BY <1>5 DEF Complete
  <2>3. \A q \in Procs : Running(q)' => Running(q)
    BY <1>5, <2>1 DEF Complete, Running
  <2>4. \A q \in Procs : val'[q] # NoCert => val'[q].serial <= issued
    BY <1>s, <2>2
  <2> QED BY <1>s, <2>1, <2>3, <2>4, SerialsKept
<1>6. ASSUME NEW p \in Procs, Woken(p) PROVE SerialsBounded'
  <2>1. UNCHANGED <<issued, entries, req, floor>>
    BY <1>6 DEF Woken, cacheVars
  <2> QED BY <1>s, <1>r, <1>6, <2>1, WokenReturns DEF TypeOK
<1>7. ASSUME NEW p \in Procs, Issue(p) PROVE SerialsBounded'
  <2>1. /\ UNCHANGED <<entries, req, floor, served>> /\ pc[p] = "issue"
        /\ issued' = issued + 1 /\ pc' = [pc EXCEPT ![p] = "store"]
    BY <1>7 DEF Issue, cacheVars, ghostVars
  <2>2. \A q \in Procs \ {p} : val'[q] = val[q]
    BY <1>7 DEF Issue, TypeOK
  <2>3. val'[p].serial = issued + 1
    BY <1>7 DEF Issue, TypeOK
  <2>4. \A q \in Procs : Running(q)' => Running(q)
    BY <2>1 DEF Running, TypeOK
  <2>5. \A q \in Procs : val[q] # NoCert => val[q].serial \in Nat
    BY DEF TypeOK, Certs
  <2>6. \A s \in SNIs : entries[s] # NoCert => entries[s].serial \in Nat
    BY DEF TypeOK, Certs
  <2>7. \A q \in Procs : val'[q] # NoCert => val'[q].serial <= issued'
    BY <1>s, <2>1, <2>2, <2>3, <2>5
  <2>8. \A s \in SNIs : /\ served'[s] <= issued'
                        /\ entries'[s] # NoCert => entries'[s].serial <= issued'
    BY <1>s, <2>1, <2>6
  <2>9. \A q \in Procs : Running(q)' => floor'[q] <= served'[req'[q]]
    BY <2>1, <2>4 DEF SerialsBounded
  <2> QED BY <2>7, <2>8, <2>9 DEF SerialsBounded
<1>8. ASSUME NEW p \in Procs, IssueFails(p) PROVE SerialsBounded'
  <2>1. /\ UNCHANGED <<issued, entries, req, floor, served>> /\ pc[p] = "issue"
        /\ pc' = [pc EXCEPT ![p] = "complete"] /\ val' = [val EXCEPT ![p] = NoCert]
    BY <1>8 DEF IssueFails, cacheVars, ghostVars
  <2>2. \A q \in Procs : Running(q)' => Running(q)
    BY <2>1 DEF Running, TypeOK
  <2>3. \A q \in Procs : val'[q] # NoCert => val'[q].serial <= issued
    BY <1>s, <2>1 DEF TypeOK
  <2> QED BY <1>s, <2>1, <2>2, <2>3, SerialsKept
<1>9. ASSUME NEW p \in Procs, HandshakeOver(p) PROVE SerialsBounded'
  <2>1. /\ UNCHANGED <<issued, entries, served>>
        /\ pc'[p] = "idle" /\ val'[p] = NoCert
        /\ \A q \in Procs \ {p} : /\ pc'[q] = pc[q] /\ val'[q] = val[q]
                                  /\ req'[q] = req[q] /\ floor'[q] = floor[q]
    BY <1>9 DEF HandshakeOver, cacheVars, TypeOK
  <2> QED BY <1>s, <2>1, SerialsKept DEF Running
<1>10. ASSUME NEW p \in Procs, NEW s \in SNIs, Call(p, s) PROVE SerialsBounded'
  <2>1. /\ UNCHANGED <<issued, entries, served, val>>
        /\ req'[p] = s /\ floor'[p] = served[s]
        /\ \A q \in Procs \ {p} : /\ pc'[q] = pc[q] /\ req'[q] = req[q]
                                  /\ floor'[q] = floor[q]
    BY <1>10 DEF Call, cacheVars, TypeOK
  <2> QED BY <1>s, <2>1, SerialsKept DEF Running
<1>11. CASE Tick \/ UNCHANGED vars
  BY <1>s, <1>11, SerialsKept DEF Tick, vars, cacheVars, ghostVars, Running
<1> QED BY <1>1, <1>2, <1>3, <1>4, <1>5, <1>6, <1>7, <1>8, <1>9, <1>10, <1>11
        DEF Next, LocalStep, IssuerStep

\* A step that serves nothing, caches nothing, and hands nobody a certificate.
LEMMA NewestSame ==
    ASSUME NewestKept, UNCHANGED <<entries, served>>,
           \A q \in Procs :
              pc'[q] \in {"store", "complete", "woken"} /\ val'[q] # NoCert =>
                 /\ pc'[q] = pc[q] /\ val'[q] = val[q]
                 /\ req'[q] = req[q] /\ floor'[q] = floor[q]
    PROVE  NewestKept'
<1>1. \A q \in Procs, s \in SNIs : Delivering(q, s)' =>
          Delivering(q, s) /\ val'[q] = val[q]
  BY DEF Delivering
<1>2. \A q \in Procs : Carrying(q)' =>
          /\ Carrying(q) /\ val'[q] = val[q] /\ req'[q] = req[q] /\ pc'[q] = pc[q]
  BY DEF Carrying
<1>3. \A s \in SNIs : entries'[s] # NoCert => Newest(entries[s], s)'
  BY <1>1 DEF NewestKept, Newest
<1>4. \A q \in Procs : Carrying(q)' => Newest(val[q], req[q])'
  <2> SUFFICES ASSUME NEW q \in Procs, Carrying(q)' PROVE Newest(val[q], req[q])'
    OBVIOUS
  <2>1. Newest(val[q], req[q]) /\ val'[q] = val[q] /\ req'[q] = req[q]
    BY <1>2 DEF NewestKept
  <2>2. \A r \in Procs : Delivering(r, req[q])' =>
           Delivering(r, req[q]) /\ val'[r] = val[r]
    BY <2>1 DEF Delivering
  <2> QED BY <2>1, <2>2 DEF Newest
<1>5. \A q \in Procs : Delivering(q, req[q])' => floor'[q] <= val'[q].serial
  BY DEF Delivering, NewestKept
<1> QED BY <1>2, <1>3, <1>4, <1>5 DEF NewestKept

\* p returns c, which is no newer than what is cached or carried for its SNI.
LEMMA NewestReturn ==
    ASSUME TypeOK, NewestKept, UNCHANGED <<entries, req, floor>>,
           NEW p \in Procs, NEW c \in Certs \union {NoCert}, Return(p, c),
           c # NoCert =>
              /\ entries[req[p]] # NoCert => c.serial <= entries[req[p]].serial
              /\ \A q \in Procs : Carrying(q) /\ req[q] = req[p]
                                    => c.serial <= val[q].serial
    PROVE  NewestKept'
<1>1. /\ pc'[p] = "done"
      /\ \A q \in Procs \ {p} : pc'[q] = pc[q] /\ val'[q] = val[q]
      /\ \A s \in SNIs :
            served'[s] = IF s = req[p] /\ c # NoCert /\ c.serial > served[s]
                         THEN c.serial ELSE served[s]
  BY ReturnEffect
<1>2. \A q \in Procs, s \in SNIs : Delivering(q, s)' =>
          Delivering(q, s) /\ val'[q] = val[q]
  BY <1>1 DEF Delivering
<1>3. \A q \in Procs : Carrying(q)' =>
          q # p /\ Carrying(q) /\ val'[q] = val[q] /\ pc'[q] = pc[q]
  BY <1>1 DEF Carrying
<1>4. \A s \in SNIs : entries'[s] # NoCert => Newest(entries[s], s)'
  BY <1>1, <1>2 DEF NewestKept, Newest
<1>5. \A q \in Procs : Carrying(q)' => Newest(val[q], req[q])'
  <2> SUFFICES ASSUME NEW q \in Procs, Carrying(q)' PROVE Newest(val[q], req[q])'
    OBVIOUS
  <2>1. /\ Newest(val[q], req[q]) /\ val'[q] = val[q] /\ req'[q] = req[q]
        /\ Carrying(q) /\ req[q] \in SNIs
    BY <1>3 DEF NewestKept, TypeOK
  <2>2. served'[req[q]] <= val[q].serial
    BY <1>1, <2>1 DEF Newest
  <2> QED BY <1>2, <2>1, <2>2 DEF Newest
<1>6. \A q \in Procs : Delivering(q, req[q])' => floor'[q] <= val'[q].serial
  BY <1>1 DEF Delivering, NewestKept
<1> QED BY <1>3, <1>4, <1>5, <1>6 DEF NewestKept

\* No step makes the newest certificate of an SNI unreachable while an older
\* one can still be served.
LEMMA NewestStep ==
    TypeOK /\ FlightsLed /\ SerialsBounded /\ NewestKept /\ [Next]_vars
        => NewestKept'
<1> SUFFICES ASSUME TypeOK, FlightsLed, SerialsBounded, NewestKept, [Next]_vars
             PROVE  NewestKept'
  OBVIOUS
<1>1. ASSUME NEW p \in Procs, Lookup(p) PROVE NewestKept'
  <2>1. UNCHANGED <<entries, req, floor>> /\ req[p] \in SNIs
    BY <1>1 DEF Lookup, Hit, cacheVars, TypeOK
  <2>2. CASE Return(p, entries[req[p]])
    <3> DEFINE c == entries[req[p]]
    <3>1. c \in Certs \union {NoCert} /\ (c # NoCert => c.serial <= c.serial)
      BY <2>1 DEF TypeOK, Certs
    <3>2. c # NoCert => \A q \in Procs :
             Carrying(q) /\ req[q] = req[p] => c.serial <= val[q].serial
      BY DEF NewestKept
    <3> QED BY <2>1, <2>2, <3>1, <3>2, NewestReturn
  <2>3. CASE pc' = [pc EXCEPT ![p] = "do"] /\ UNCHANGED <<val, served>>
    BY <2>1, <2>3, NewestSame DEF TypeOK
  <2> QED BY <1>1, <2>2, <2>3 DEF Lookup
<1>2. ASSUME NEW p \in Procs, Do(p) PROVE NewestKept'
  <2>1. UNCHANGED <<entries, req, floor, val, served>>
    BY <1>2 DEF Do, cacheVars, ghostVars
  <2>2. pc' = [pc EXCEPT ![p] = "recheck"] \/ pc' = [pc EXCEPT ![p] = "wait"]
    BY <1>2 DEF Do
  <2> QED BY <2>1, <2>2, NewestSame DEF TypeOK
<1>3. ASSUME NEW p \in Procs, Recheck(p) PROVE NewestKept'
  <2>1. UNCHANGED <<entries, req, floor, served>> /\ req[p] \in SNIs
    BY <1>3 DEF Recheck, Hit, cacheVars, TypeOK
  <2>2. CASE /\ Fresh(req[p]) /\ val' = [val EXCEPT ![p] = entries[req[p]]]
             /\ pc' = [pc EXCEPT ![p] = "complete"]
    <3>1. /\ pc'[p] = "complete" /\ val'[p] = entries[req[p]]
          /\ entries[req[p]] # NoCert
          /\ \A q \in Procs \ {p} : pc'[q] = pc[q] /\ val'[q] = val[q]
      BY <2>2 DEF TypeOK, Fresh
    <3>2. \A q \in Procs, s \in SNIs : Delivering(q, s)' =>
             Delivering(q, s) /\ val'[q] = val[q]
      BY <2>1, <3>1 DEF Delivering
    <3>3. \A c, s : s \in SNIs /\ Newest(c, s) => served'[s] <= c.serial
             /\ \A q \in Procs : Delivering(q, s)' => val'[q].serial <= c.serial
      BY <2>1, <3>2 DEF Newest
    <3>4. \A s \in SNIs : entries'[s] # NoCert => Newest(entries[s], s)'
      BY <2>1, <3>3 DEF NewestKept, Newest
    <3>5. \A q \in Procs : Carrying(q)' => Newest(val[q], req[q])'
      <4> SUFFICES ASSUME NEW q \in Procs, Carrying(q)'
                   PROVE  Newest(val[q], req[q])'
        OBVIOUS
      <4>1. Newest(val'[q], req[q]) /\ req[q] \in SNIs /\ req' = req
        BY <2>1, <3>1 DEF NewestKept, Carrying, TypeOK
      <4> QED BY <3>3, <4>1 DEF Newest, Delivering
    <3>6. entries[req[p]].serial \in Int
      BY <2>1, <3>1 DEF TypeOK, Certs
    <3>7. \A q \in Procs : Carrying(q)' /\ entries'[req'[q]] # NoCert =>
             /\ entries'[req'[q]].serial <= val'[q].serial
             /\ pc'[q] = "complete" => entries'[req'[q]].serial = val'[q].serial
      BY <2>1, <3>1, <3>6 DEF NewestKept, Carrying
    <3>8. \A q \in Procs : Delivering(q, req[q])' => floor'[q] <= val'[q].serial
      BY <2>1, <3>1 DEF Delivering, NewestKept
    <3> QED BY <3>4, <3>5, <3>7, <3>8 DEF NewestKept
  <2>3. CASE pc' = [pc EXCEPT ![p] = "issue"] /\ UNCHANGED val
    BY <2>1, <2>3, NewestSame DEF TypeOK
  <2> QED BY <1>3, <2>2, <2>3 DEF Recheck, Hit
<1>4. ASSUME NEW p \in Procs, Store(p) PROVE NewestKept'
  <2>1. /\ UNCHANGED <<req, floor, served, val>> /\ req[p] \in SNIs
        /\ pc[p] = "store" /\ pc'[p] = "complete"
        /\ \A q \in Procs \ {p} : pc'[q] = pc[q]
    BY <1>4 DEF Store, TypeOK
  <2>2. entries'[req[p]] = val[p]
    BY <1>4, <2>1 DEF Store
  <2>3. \A t \in SNIs \ {req[p]} : entries'[t] \in {entries[t], NoCert}
    BY <1>4 DEF Store
  <2>4. \A q \in Procs \ {p} : Carrying(q) => req[q] # req[p]
    BY <2>1 DEF Carrying, FlightsLed, Leading
  <2>5. /\ \A q \in Procs : Carrying(q)' <=> Carrying(q)
        /\ \A q \in Procs, s \in SNIs : Delivering(q, s)' <=> (pc[q] = "woken" /\ req[q] = s
                                                                /\ val[q] # NoCert)
    BY <2>1 DEF Carrying, Delivering
  <2>6. \A c, s : Newest(c, s) => served'[s] <= c.serial
           /\ \A q \in Procs : pc'[q] = "woken" /\ req'[q] = s /\ val'[q] # NoCert
                 => val'[q].serial <= c.serial
    BY <2>1 DEF Newest, Delivering
  <2>7. \A s \in SNIs : entries'[s] # NoCert => Newest(entries'[s], s)
    BY <2>1, <2>2, <2>3 DEF NewestKept, Carrying
  <2>8. \A s \in SNIs : entries'[s] # NoCert => Newest(entries[s], s)'
    BY <2>6, <2>7 DEF Newest, Delivering
  <2>9. \A q \in Procs : Carrying(q)' => Newest(val[q], req[q])'
    BY <2>1, <2>5, <2>6 DEF NewestKept, Newest, Delivering
  <2>10. val[p] # NoCert => val[p].serial \in Int
    BY DEF TypeOK, Certs
  <2>11. \A q \in Procs : Carrying(q)' /\ entries'[req'[q]] # NoCert =>
            /\ entries'[req'[q]].serial <= val'[q].serial
            /\ pc'[q] = "complete" => entries'[req'[q]].serial = val'[q].serial
    <3> SUFFICES ASSUME NEW q \in Procs, Carrying(q)', entries'[req[q]] # NoCert
                 PROVE  /\ entries'[req[q]].serial <= val[q].serial
                        /\ pc'[q] = "complete" =>
                              entries'[req[q]].serial = val[q].serial
      BY <2>1
    <3>1. CASE q = p
      BY <2>2, <2>5, <2>10, <3>1 DEF Carrying
    <3>2. CASE q # p
      BY <2>1, <2>3, <2>4, <2>5, <3>2 DEF NewestKept, TypeOK
    <3> QED BY <3>1, <3>2
  <2>12. \A q \in Procs : Delivering(q, req[q])' => floor'[q] <= val'[q].serial
    BY <2>1 DEF Delivering, NewestKept
  <2> QED BY <2>8, <2>9, <2>11, <2>12 DEF NewestKept
<1>5. ASSUME NEW p \in Procs, Complete(p) PROVE NewestKept'
  <2> DEFINE Joined(q) == (pc[q] = "wait" /\ req[q] = req[p]) \/ q = p
  <2>1. /\ UNCHANGED <<entries, req, floor, served>> /\ pc[p] = "complete"
        /\ req[p] \in SNIs
    BY <1>5 DEF Complete, cacheVars, ghostVars, TypeOK
  <2>2. \A q \in Procs :
           IF Joined(q) THEN pc'[q] = "woken" /\ val'[q] = val[p]
                        ELSE pc'[q] = pc[q] /\ val'[q] = val[q]
    BY <1>5 DEF Complete
  <2>3. \A q \in Procs : Joined(q) => req[q] = req[p]
    OBVIOUS
  <2>4. val[p] # NoCert => Carrying(p)
    BY <2>1 DEF Carrying
  <2>5. \A q \in Procs : Carrying(q)' =>
           /\ Carrying(q) /\ pc'[q] = pc[q] /\ val'[q] = val[q]
           /\ req[q] # req[p]
    <3> SUFFICES ASSUME NEW q \in Procs, Carrying(q)'
                 PROVE  /\ Carrying(q) /\ pc'[q] = pc[q] /\ val'[q] = val[q]
                        /\ req[q] # req[p]
      OBVIOUS
    <3>1. ~Joined(q)
      BY <2>2 DEF Carrying
    <3>2. Carrying(q) /\ pc'[q] = pc[q] /\ val'[q] = val[q] /\ q # p
      BY <2>2, <3>1 DEF Carrying
    <3> QED BY <2>1, <3>2 DEF Carrying, FlightsLed, Leading
  <2> HIDE DEF Joined
  \* Who delivers after the step delivered before it, or was in the flight.
  <2>6. \A q \in Procs, s \in SNIs : Delivering(q, s)' =>
           \/ Delivering(q, s) /\ val'[q] = val[q]
           \/ Joined(q) /\ s = req[p] /\ val'[q] = val[p] /\ val[p] # NoCert
    BY <2>1, <2>2, <2>3 DEF Delivering
  <2>7. \A s \in SNIs : entries'[s] # NoCert => Newest(entries[s], s)'
    <3> SUFFICES ASSUME NEW s \in SNIs, entries[s] # NoCert
                 PROVE  Newest(entries[s], s)'
      BY <2>1
    <3>1. Newest(entries[s], s) /\ entries[s].serial \in Int
      BY DEF NewestKept, TypeOK, Certs
    <3>2. s = req[p] /\ val[p] # NoCert => entries[s].serial = val[p].serial
      BY <2>1, <2>4 DEF NewestKept
    <3>3. \A q \in Procs : Delivering(q, s)' => val'[q].serial <= entries[s].serial
      BY <2>6, <3>1, <3>2 DEF Newest
    <3> QED BY <2>1, <3>1, <3>3 DEF Newest
  <2>8. \A q \in Procs : Carrying(q)' => Newest(val[q], req[q])'
    <3> SUFFICES ASSUME NEW q \in Procs, Carrying(q)' PROVE Newest(val[q], req[q])'
      OBVIOUS
    <3>1. /\ Newest(val[q], req[q]) /\ val'[q] = val[q] /\ req'[q] = req[q]
          /\ req[q] # req[p] /\ req[q] \in SNIs
      BY <2>1, <2>5 DEF NewestKept, TypeOK
    <3>2. \A r \in Procs : Delivering(r, req[q])' =>
             Delivering(r, req[q]) /\ val'[r] = val[r]
      <4> SUFFICES ASSUME NEW r \in Procs, Delivering(r, req[q])'
                   PROVE  Delivering(r, req[q]) /\ val'[r] = val[r]
        OBVIOUS
      <4>1. req'[r] = req[q] /\ req[r] = req[q] /\ pc'[r] = "woken" /\ val'[r] # NoCert
        BY <2>1, <3>1 DEF Delivering
      <4>2. ~Joined(r)
        BY <2>3, <3>1, <4>1 DEF Joined
      <4> QED BY <2>2, <4>1, <4>2 DEF Delivering
    <3> QED BY <2>1, <3>1, <3>2 DEF Newest
  <2>9. \A q \in Procs : Delivering(q, req[q])' => floor'[q] <= val'[q].serial
    <3> SUFFICES ASSUME NEW q \in Procs, Delivering(q, req[q])'
                 PROVE  floor[q] <= val'[q].serial
      BY <2>1
    <3>1. pc'[q] = "woken" /\ val'[q] # NoCert /\ req' = req
      BY <2>1 DEF Delivering
    <3>2. CASE Joined(q)
      <4>1. val'[q] = val[p] /\ val[p] # NoCert /\ req[q] = req[p]
        BY <2>2, <3>1, <3>2 DEF Joined
      <4>2. Running(q)
        BY <2>1, <3>2 DEF Joined, Running
      <4>3. floor[q] <= served[req[p]]
        BY <4>1, <4>2 DEF SerialsBounded
      <4>4. served[req[p]] <= val[p].serial
        BY <2>4, <4>1 DEF NewestKept, Newest
      <4>5. floor[q] \in Int /\ served[req[p]] \in Int /\ val[p].serial \in Int
        BY <4>1, <2>1 DEF TypeOK, Certs
      <4> QED BY <4>1, <4>3, <4>4, <4>5
    <3>3. CASE ~Joined(q)
      BY <2>2, <3>1, <3>3 DEF NewestKept, Delivering
    <3> QED BY <3>2, <3>3
  <2> QED BY <2>1, <2>5, <2>7, <2>8, <2>9 DEF NewestKept
<1>6. ASSUME NEW p \in Procs, Woken(p) PROVE NewestKept'
  <2>1. UNCHANGED <<entries, req, floor>> /\ pc[p] = "woken" /\ req[p] \in SNIs
    BY <1>6 DEF Woken, cacheVars, TypeOK
  <2>2. PICK c \in Certs \union {NoCert} :
           /\ Return(p, c)
           /\ \/ c = val[p] /\ c # NoCert
              \/ c = entries[req[p]] /\ c # NoCert /\ now <= c.notAfter
              \/ c = NoCert
    BY <1>6, WokenReturns
  <2>3. c # NoCert =>
           /\ entries[req[p]] # NoCert => c.serial <= entries[req[p]].serial
           /\ \A q \in Procs : Carrying(q) /\ req[q] = req[p]
                                 => c.serial <= val[q].serial
    <3>1. CASE c = val[p] /\ c # NoCert
      BY <2>1, <3>1 DEF NewestKept, Newest, Delivering
    <3>2. CASE c = entries[req[p]] /\ c # NoCert
      BY <2>1, <3>2 DEF NewestKept, TypeOK, Certs
    <3> QED BY <2>2, <3>1, <3>2
  <2> QED BY <2>1, <2>2, <2>3, NewestReturn
<1>7. ASSUME NEW p \in Procs, Issue(p) PROVE NewestKept'
  <2>1. /\ UNCHANGED <<entries, req, floor, served>> /\ req[p] \in SNIs
        /\ issued \in Int /\ pc'[p] = "store"
        /\ \A q \in Procs \ {p} : pc'[q] = pc[q] /\ val'[q] = val[q]
    BY <1>7 DEF Issue, cacheVars, ghostVars, TypeOK
  <2>2. val'[p].serial = issued + 1
    BY <1>7 DEF Issue, TypeOK
  <2>3. \A q \in Procs, s \in SNIs : Delivering(q, s)' =>
           Delivering(q, s) /\ val'[q] = val[q]
    BY <2>1 DEF Delivering
  <2>4. \A s \in SNIs : entries'[s] # NoCert => Newest(entries[s], s)'
    BY <2>1, <2>3 DEF NewestKept, Newest
  <2>5. Newest(val[p], req[p])'
    <3>1. served[req[p]] <= issued /\ served[req[p]] \in Int
      BY <2>1 DEF SerialsBounded, TypeOK
    <3>2. \A q \in Procs : Delivering(q, req[p])' => val'[q].serial <= issued
      BY <2>1, <2>3 DEF SerialsBounded, Delivering
    <3>3. \A q \in Procs : Delivering(q, req[p])' => val'[q].serial \in Int
      BY <2>1, <2>3 DEF Delivering, TypeOK, Certs
    <3>4. \A q \in Procs : Delivering(q, req[p])' => val'[q].serial <= issued + 1
      BY <2>1, <3>2, <3>3
    <3>5. served'[req'[p]] <= val'[p].serial
      BY <2>1, <2>2, <3>1
    <3> QED BY <2>1, <2>2, <3>4, <3>5 DEF Newest, Delivering
  <2>6. \A q \in Procs \ {p} : Carrying(q)' => Newest(val[q], req[q])'
    <3> SUFFICES ASSUME NEW q \in Procs \ {p}, Carrying(q)'
                 PROVE  Newest(val[q], req[q])'
      OBVIOUS
    <3>1. /\ Newest(val[q], req[q]) /\ val'[q] = val[q] /\ req'[q] = req[q]
          /\ req[q] \in SNIs
      BY <2>1 DEF NewestKept, Carrying, TypeOK
    <3>2. \A r \in Procs : Delivering(r, req[q])' =>
             Delivering(r, req[q]) /\ val'[r] = val[r]
      BY <2>1 DEF Delivering
    <3> QED BY <2>1, <3>1, <3>2 DEF Newest
  <2>7. entries[req[p]] # NoCert =>
           entries[req[p]].serial <= issued /\ entries[req[p]].serial \in Int
    BY <2>1 DEF SerialsBounded, TypeOK, Certs
  <2>8. \A q \in Procs : Carrying(q)' /\ entries'[req'[q]] # NoCert =>
           /\ entries'[req'[q]].serial <= val'[q].serial
           /\ pc'[q] = "complete" => entries'[req'[q]].serial = val'[q].serial
    <3> SUFFICES ASSUME NEW q \in Procs, Carrying(q)', entries[req[q]] # NoCert
                 PROVE  /\ entries[req[q]].serial <= val'[q].serial
                        /\ pc'[q] = "complete" =>
                              entries[req[q]].serial = val'[q].serial
      BY <2>1
    <3>1. CASE q = p
      BY <2>1, <2>2, <2>7, <3>1
    <3>2. CASE q # p
      BY <2>1, <3>2 DEF NewestKept, Carrying
    <3> QED BY <3>1, <3>2
  <2>9. \A q \in Procs : Delivering(q, req[q])' => floor'[q] <= val'[q].serial
    BY <2>1 DEF Delivering, NewestKept
  <2> QED BY <2>4, <2>5, <2>6, <2>8, <2>9 DEF NewestKept
<1>8. ASSUME NEW p \in Procs, IssueFails(p) PROVE NewestKept'
  BY <1>8, NewestSame DEF IssueFails, cacheVars, ghostVars, TypeOK
<1>9. ASSUME NEW p \in Procs, HandshakeOver(p) PROVE NewestKept'
  BY <1>9, NewestSame DEF HandshakeOver, cacheVars, TypeOK
<1>10. ASSUME NEW p \in Procs, NEW s \in SNIs, Call(p, s) PROVE NewestKept'
  BY <1>10, NewestSame DEF Call, cacheVars, TypeOK
<1>11. CASE Tick \/ UNCHANGED vars
  BY <1>11, NewestSame DEF Tick, vars, cacheVars, ghostVars
<1> QED BY <1>1, <1>2, <1>3, <1>4, <1>5, <1>6, <1>7, <1>8, <1>9, <1>10, <1>11
        DEF Next, LocalStep, IssuerStep

-----------------------------------------------------------------------------
(* The theorems.                                                            *)

\* The inductive invariant holds initially.
LEMMA InitIndInv == Init => IndInv
<1> SUFFICES ASSUME Init PROVE IndInv
  OBVIOUS
<1>1. TypeOK
  BY InitTyped
<1>2. CacheCoherent
  BY ConstantsAssumption DEF Init, CacheCoherent, Elems
<1>3. FlightsLed /\ IssuingOnlyWhenNeeded /\ CallsBounded
  BY ConstantsAssumption
  DEF Init, FlightsLed, Leading, IssuingOnlyWhenNeeded, CallsBounded, Running
<1>4. HeldCertsGood
  BY DEF Init, HeldCertsGood
<1>5. SerialsBounded
  BY DEF Init, SerialsBounded, Running
<1>6. NewestKept
  BY DEF Init, NewestKept, Carrying, Delivering
<1> QED BY <1>1, <1>2, <1>3, <1>4, <1>5, <1>6 DEF IndInv

\* The inductive invariant is kept by every step.
LEMMA NextIndInv == IndInv /\ [Next]_vars => IndInv'
  BY NextTyped, CacheCoherentStep, FlightsLedStep, IssuingStep, CallsBoundedStep,
     HeldStep, SerialsStep, NewestStep DEF IndInv

\* The strengthening is an invariant.
THEOREM Inductive == Spec => []IndInv
  BY InitIndInv, NextIndInv, PTL DEF Spec

\* For any capacity and any number of handshakes and SNIs, the LRU map and
\* list agree, stay within capacity, and hold each SNI under its own name
\* (cache.go:120-134).
THEOREM AlwaysCoherent == Spec => []CacheCoherent
<1>1. IndInv => CacheCoherent
  BY DEF IndInv
<1> QED BY <1>1, Inductive, PTL

\* One flight per SNI, and no certificate is issued over a good one
\* (cache.go:57-75).
THEOREM SingleFlight == Spec => []OneMintPerSNI
<1>1. IndInv => OneMintPerSNI
  BY DEF IndInv, FlightsLed, IssuingOnlyWhenNeeded, OneMintPerSNI
<1> QED BY <1>1, Inductive, PTL

-----------------------------------------------------------------------------
(* Recency: the list against the history of uses.                           *)

\* u lists distinct SNIs and q is what it starts with.
Leads(q, u) == /\ NoDup(u) /\ Len(q) <= Len(u)
               /\ \A i \in 1..Len(q) : q[i] = u[i]

\* A use of an SNI that q holds moves the same element in both lists
\* (cache.go:100, 125).
LEMMA UseCached ==
    ASSUME NEW q \in Seq(SNIs), NEW u \in Seq(SNIs), Leads(q, u), NEW s \in Elems(q)
    PROVE  Leads(MoveToFront(q, s), Touch(u, s))
<1>1. PICK k : k = Position(q, s)
  OBVIOUS
<1>2. PICK m : m = Position(u, s)
  OBVIOUS
<1>3. k \in 1..Len(q) /\ q[k] = s
  BY <1>1 DEF Elems, Position
<1>4. k \in 1..Len(u) /\ u[k] = s /\ s \in Elems(u)
  BY <1>3 DEF Leads, Elems
<1>5. m \in 1..Len(u) /\ u[m] = s
  BY <1>2, <1>4 DEF Position
<1>6. m = k
  BY <1>4, <1>5 DEF Leads, NoDup
<1>7. MoveToFront(q, s) = [i \in 1..Len(q) |-> IF i = 1 THEN s
                              ELSE IF i <= k THEN q[i - 1] ELSE q[i]]
  BY <1>1 DEF MoveToFront
<1>8. Touch(u, s) = [i \in 1..Len(u) |-> IF i = 1 THEN s
                        ELSE IF i <= k THEN u[i - 1] ELSE u[i]]
  BY <1>2, <1>4, <1>6 DEF MoveToFront, Touch
<1>9. NoDup(Touch(u, s))
  BY <1>4, MoveToFrontPermutes DEF Leads, Touch
<1>10. PICK a : a = MoveToFront(q, s)
  OBVIOUS
<1>11. PICK b : b = Touch(u, s)
  OBVIOUS
<1>12. Len(a) = Len(q) /\ Len(b) = Len(u)
  BY <1>7, <1>8, <1>10, <1>11
<1>13. \A i \in 1..Len(q) : a[i] = b[i]
  BY <1>3, <1>4, <1>7, <1>8, <1>10, <1>11 DEF Leads
<1> QED BY <1>9, <1>10, <1>11, <1>12, <1>13 DEF Leads

\* A use of an SNI that q does not hold puts it before q in both lists
\* (cache.go:128).
LEMMA UseNew ==
    ASSUME NEW q \in Seq(SNIs), NEW u \in Seq(SNIs), Leads(q, u), NEW s \in SNIs,
           s \notin Elems(q)
    PROVE  Leads(PushFront(q, s), Touch(u, s))
<1>1. PICK a : a = PushFront(q, s)
  OBVIOUS
<1>2. PICK b : b = Touch(u, s)
  OBVIOUS
<1>3. a = [i \in 1..(Len(q) + 1) |-> IF i = 1 THEN s ELSE q[i - 1]]
  BY <1>1 DEF PushFront
<1>4. Len(a) = Len(q) + 1
  BY <1>3
<1>5. CASE s \in Elems(u)
  <2>1. PICK m : m = Position(u, s)
    OBVIOUS
  <2>2. m \in 1..Len(u) /\ u[m] = s
    BY <1>5, <2>1 DEF Elems, Position
  <2>3. m > Len(q)
    BY <2>2 DEF Leads, Elems
  <2>4. b = [i \in 1..Len(u) |-> IF i = 1 THEN s
                ELSE IF i <= m THEN u[i - 1] ELSE u[i]]
    BY <1>2, <1>5, <2>1 DEF MoveToFront, Touch
  <2>5. NoDup(b)
    BY <1>2, <1>5, MoveToFrontPermutes DEF Leads, Touch
  <2>6. Len(b) = Len(u) /\ Len(a) <= Len(b)
    BY <1>4, <2>2, <2>3, <2>4
  <2>7. \A i \in 1..(Len(q) + 1) : a[i] = b[i]
    BY <1>3, <2>2, <2>3, <2>4 DEF Leads
  <2> QED BY <1>1, <1>2, <1>4, <2>5, <2>6, <2>7 DEF Leads
<1>6. CASE s \notin Elems(u)
  <2>1. b = [i \in 1..(Len(u) + 1) |-> IF i = 1 THEN s ELSE u[i - 1]]
    BY <1>2, <1>6 DEF PushFront, Touch
  <2>2. NoDup(b)
    BY <1>2, <1>6, PushFrontAdds DEF Leads, Touch
  <2>3. Len(b) = Len(u) + 1 /\ Len(a) <= Len(b)
    BY <1>4, <2>1 DEF Leads
  <2>4. \A i \in 1..(Len(q) + 1) : a[i] = b[i]
    BY <1>3, <2>1 DEF Leads
  <2> QED BY <1>1, <1>2, <1>4, <2>2, <2>3, <2>4 DEF Leads
<1> QED BY <1>5, <1>6

\* Eviction at the back leaves a shorter start of the same list
\* (cache.go:129-133).
LEMMA EvictLeads ==
    ASSUME NEW q \in Seq(SNIs), NEW u \in Seq(SNIs), Leads(q, u)
    PROVE  Leads(Trim(q), u)
<1>1. PICK n : n = IF Len(q) > Capacity THEN Capacity ELSE Len(q)
  OBVIOUS
<1>2. n \in Nat /\ n <= Len(q)
  BY <1>1, ConstantsAssumption
<1>3. PICK r : r = Trim(q)
  OBVIOUS
<1>4. r = SubSeq(q, 1, n)
  BY <1>1, <1>3 DEF Trim
<1>5. Len(r) = n /\ \A i \in 1..n : r[i] = q[i]
  BY <1>2, <1>4
<1> QED BY <1>2, <1>3, <1>5 DEF Leads

\* In auto mode every step that serves or stores a certificate moves its SNI to
\* the front of the list (cache.go:89-102, 120-134).
LEMMA LeadsStep ==
    ASSUME ~VaultMode, TypeOK, CacheCoherent, Leads(order, used), [Next]_vars
    PROVE  Leads(order, used)'
<1> USE DEF cacheVars, ghostVars
<1>1. ASSUME NEW s \in SNIs, Hit(s) PROVE Leads(order', used')
  <2>1. s \in Elems(order)
    BY <1>1 DEF Hit, Fresh, CacheCoherent
  <2> QED BY <1>1, <2>1, UseCached DEF Hit, TypeOK
<1>2. ASSUME NEW p \in Procs, Lookup(p) PROVE Leads(order', used')
  <2>1. req[p] \in SNIs
    BY DEF TypeOK
  <2>2. Hit(req[p]) \/ UNCHANGED <<order, used>>
    BY <1>2 DEF Lookup
  <2> QED BY <1>1, <2>1, <2>2
<1>3. ASSUME NEW p \in Procs, Recheck(p) PROVE Leads(order', used')
  <2>1. req[p] \in SNIs
    BY DEF TypeOK
  <2>2. Hit(req[p]) \/ UNCHANGED <<order, used>>
    BY <1>3 DEF Recheck
  <2> QED BY <1>1, <2>1, <2>2
<1>4. ASSUME NEW p \in Procs, Store(p) PROVE Leads(order', used')
  <2>1. /\ req[p] \in SNIs /\ order \in Seq(SNIs) /\ used \in Seq(SNIs)
        /\ req[p] \in Elems(order) <=> entries[req[p]] # NoCert
        /\ NoDup(order)
    BY DEF TypeOK, CacheCoherent, NoDup
  <2>2. used' = Touch(used, req[p])
    BY <1>4 DEF Store
  <2>3. CASE entries[req[p]] # NoCert
    <3>1. order' = MoveToFront(order, req[p])
      BY <1>4, <2>3 DEF Store
    <3> QED BY <2>1, <2>2, <2>3, <3>1, UseCached
  <2>4. CASE entries[req[p]] = NoCert
    <3>1. order' = Trim(PushFront(order, req[p]))
      BY <1>4, <2>4 DEF Store
    <3>2. Leads(PushFront(order, req[p]), used')
      BY <2>1, <2>2, <2>4, UseNew
    <3>3. PushFront(order, req[p]) \in Seq(SNIs) /\ used' \in Seq(SNIs)
      BY <2>1, <2>2, ListsTyped
    <3> QED BY <3>1, <3>2, <3>3, EvictLeads
  <2> QED BY <2>3, <2>4
<1>5. ASSUME NEW p \in Procs, Woken(p) PROVE UNCHANGED <<order, used>>
  BY <1>5 DEF Woken, staleOK
<1>6. ASSUME NEW p \in Procs, Do(p) \/ Complete(p) \/ IssuerStep(p) \/ HandshakeOver(p)
      PROVE UNCHANGED <<order, used>>
  BY <1>6 DEF Do, Complete, IssuerStep, Issue, IssueFails, HandshakeOver
<1>7. ASSUME NEW p \in Procs, NEW s \in SNIs, Call(p, s)
      PROVE UNCHANGED <<order, used>>
  BY <1>7 DEF Call
<1>8. CASE Tick \/ UNCHANGED vars
  BY <1>8 DEF Tick, vars
<1> QED BY <1>2, <1>3, <1>4, <1>5, <1>6, <1>7, <1>8 DEF Next, LocalStep

\* "front = most recently used" (cache.go:19), for the cache Build assembles
\* for auto: the list is the history of uses cut after its length, so what
\* store evicts is what was used longest ago.  A Vault cache also hands out
\* certificates through lookupStale, which moves nothing (cache.go:104-118).
THEOREM RecencyKept == ASSUME ~VaultMode PROVE Spec => []FrontIsMostRecentlyUsed
<1>1. Init => Leads(order, used)
  BY DEF Init, Leads, NoDup
<1>2. IndInv /\ Leads(order, used) /\ [Next]_vars => Leads(order, used)'
  BY LeadsStep DEF IndInv
<1>3. TypeOK /\ Leads(order, used) => FrontIsMostRecentlyUsed
  <2> SUFFICES ASSUME TypeOK, Leads(order, used)
               PROVE  order = SubSeq(used, 1, Len(order))
    BY DEF FrontIsMostRecentlyUsed
  <2> QED BY DEF TypeOK, Leads
<1>4. IndInv => TypeOK
  BY DEF IndInv
<1> QED BY <1>1, <1>2, <1>3, <1>4, Inductive, PTL DEF Spec

-----------------------------------------------------------------------------
(* The cache implements CertService.                                        *)

\* A return of a certificate that keeps the promise is an Answer step.
LEMMA ReturnAnswers ==
    ASSUME TypeOK, NEW p \in Procs, NEW c \in Certs, Running(p), Return(p, c),
           UNCHANGED <<now, req, floor>>,
           c.sni = req[p], now <= c.notAfter, floor[p] <= c.serial
    PROVE  Service!Answer(p)
<1>1. /\ pc'[p] = "done" /\ val'[p] = c
      /\ \A q \in Procs \ {p} : pc'[q] = pc[q] /\ val'[q] = val[q]
  BY ReturnEffect
<1>2. c # NoCert
  BY NoCertAssumption
<1>3. c.serial \in Int /\ floor[p] \in Int
  BY DEF TypeOK, Certs
<1>4. served' = IF c.serial > served[req[p]]
                THEN [served EXCEPT ![req[p]] = c.serial] ELSE served
  BY <1>2 DEF Return
<1> QED BY <1>1, <1>2, <1>3, <1>4 DEF Service!Answer, Running

\* The return of an error is a Fail step.
LEMMA ReturnFails ==
    ASSUME TypeOK, NEW p \in Procs, Running(p), Return(p, NoCert),
           UNCHANGED <<now, req, floor>>
    PROVE  Service!Fail(p)
<1>1. /\ pc'[p] = "done" /\ val'[p] = NoCert
      /\ \A q \in Procs \ {p} : pc'[q] = pc[q] /\ val'[q] = val[q]
  BY ReturnEffect
<1>2. served' = served
  BY DEF Return
<1> QED BY <1>1, <1>2 DEF Service!Fail, Running

\* A step between the call of Get and its return is invisible to the service.
LEMMA InnerStutters ==
    ASSUME UNCHANGED <<now, req, served, floor>>,
           \A q \in Procs : \/ pc'[q] = pc[q] /\ val'[q] = val[q]
                            \/ Running(q) /\ Running(q)'
    PROVE  UNCHANGED Service!svars
  BY DEF Service!svars, Running

\* Every step of a caller is one of the service, or none.
LEMMA StepRefines == IndInv /\ IndInv' /\ [Next]_vars => [Service!Next]_(Service!svars)
<1> SUFFICES ASSUME IndInv, IndInv', [Next]_vars
             PROVE  Service!Next \/ UNCHANGED Service!svars
  BY DEF Service!svars
<1> USE DEF IndInv
<1>1. ASSUME NEW p \in Procs, Lookup(p)
      PROVE Service!Answer(p) \/ UNCHANGED Service!svars
  <2>1. UNCHANGED <<now, req, floor>> /\ Running(p) /\ req[p] \in SNIs
    BY <1>1 DEF Lookup, Running, TypeOK
  <2>2. CASE Fresh(req[p]) /\ Return(p, entries[req[p]])
    <3> DEFINE c == entries[req[p]]
    <3>1. /\ c \in Certs /\ c # NoCert /\ c.sni = req[p] /\ LongEnough(c)
          /\ ~needsRefresh(c)
      BY <2>1, <2>2 DEF Fresh, TypeOK, CacheCoherent, HeldCertsGood
    <3>2. c.notAfter >= now + 2 * MaxCall
      BY <3>1, FreshOutlasts
    <3>3. c.notAfter \in Int /\ now \in Int /\ MaxCall \in Nat
      BY <3>1, ConstantsAssumption DEF Certs, TypeOK
    <3>4. floor[p] <= served[req[p]]
      BY <2>1 DEF SerialsBounded
    <3>5. served[req[p]] <= c.serial
      BY <2>1, <3>1 DEF NewestKept, Newest
    <3>6. floor[p] \in Int /\ served[req[p]] \in Int /\ c.serial \in Int
      BY <2>1, <3>1 DEF TypeOK, Certs
    <3> HIDE DEF c
    <3>7. now <= c.notAfter /\ floor[p] <= c.serial
      BY <3>2, <3>3, <3>4, <3>5, <3>6
    <3> QED BY <2>1, <2>2, <3>1, <3>7, ReturnAnswers DEF c
  <2>3. CASE pc' = [pc EXCEPT ![p] = "do"] /\ UNCHANGED <<val, served>>
    BY <2>1, <2>3, InnerStutters DEF TypeOK, Running
  <2> QED BY <1>1, <2>2, <2>3 DEF Lookup, Hit
<1>2. ASSUME NEW p \in Procs, Do(p) PROVE UNCHANGED Service!svars
  <2>1. UNCHANGED <<now, req, served, floor, val>> /\ Running(p)
    BY <1>2 DEF Do, ghostVars, Running
  <2>2. pc' = [pc EXCEPT ![p] = "recheck"] \/ pc' = [pc EXCEPT ![p] = "wait"]
    BY <1>2 DEF Do
  <2> QED BY <2>1, <2>2, InnerStutters DEF TypeOK, Running
<1>3. ASSUME NEW p \in Procs, Recheck(p) PROVE UNCHANGED Service!svars
  <2>1. UNCHANGED <<now, req, served, floor>> /\ Running(p)
    BY <1>3 DEF Recheck, Running
  <2>2. pc' = [pc EXCEPT ![p] = "complete"] \/ pc' = [pc EXCEPT ![p] = "issue"]
    BY <1>3 DEF Recheck
  <2>3. \A q \in Procs \ {p} : val'[q] = val[q]
    BY <1>3 DEF Recheck, TypeOK
  <2> QED BY <2>1, <2>2, <2>3, InnerStutters DEF TypeOK, Running
<1>4. ASSUME NEW p \in Procs, Store(p) PROVE UNCHANGED Service!svars
  BY <1>4, InnerStutters DEF Store, TypeOK, Running
<1>5. ASSUME NEW p \in Procs, Complete(p) PROVE UNCHANGED Service!svars
  BY <1>5, InnerStutters DEF Complete, ghostVars, Running
<1>6. ASSUME NEW p \in Procs, Woken(p) PROVE Service!Answer(p) \/ Service!Fail(p)
  <2>1. /\ UNCHANGED <<now, req, floor>> /\ Running(p) /\ req[p] \in SNIs
        /\ pc[p] = "woken"
    BY <1>6 DEF Woken, Running, TypeOK
  <2>2. PICK c \in Certs \union {NoCert} :
           /\ Return(p, c)
           /\ \/ c = val[p] /\ c # NoCert
              \/ c = entries[req[p]] /\ c # NoCert /\ now <= c.notAfter
              \/ c = NoCert
    BY <1>6, WokenReturns
  <2>3. CASE c = val[p] /\ c # NoCert
    <3>1. c \in Certs /\ c.sni = req[p] /\ c.notAfter >= began[p] + MaxCall
      BY <2>1, <2>3 DEF HeldCertsGood
    <3>2. now <= began[p] + MaxCall
      BY <2>1 DEF CallsBounded
    <3>3. c.notAfter \in Int /\ now \in Int /\ began[p] + MaxCall \in Int
      <4>1. now \in Nat /\ began[p] \in Nat /\ MaxCall \in Nat
        BY ConstantsAssumption DEF TypeOK
      <4>2. c.notAfter \in Int
        BY <3>1 DEF Certs
      <4> QED BY <4>1, <4>2
    <3>4. now <= c.notAfter
      BY <3>1, <3>2, <3>3
    <3>5. floor[p] <= c.serial
      BY <2>1, <2>3 DEF NewestKept, Delivering
    <3> QED BY <2>1, <2>2, <3>1, <3>4, <3>5, ReturnAnswers
  <2>4. CASE c = entries[req[p]] /\ c # NoCert /\ now <= c.notAfter
    <3>1. c \in Certs /\ c.sni = req[p]
      BY <2>1, <2>4 DEF CacheCoherent
    <3>2. floor[p] <= served[req[p]]
      BY <2>1 DEF SerialsBounded
    <3>3. served[req[p]] <= c.serial
      BY <2>1, <2>4 DEF NewestKept, Newest
    <3>4. floor[p] \in Int /\ served[req[p]] \in Int /\ c.serial \in Int
      BY <2>1, <3>1 DEF TypeOK, Certs
    <3>5. floor[p] <= c.serial
      BY <3>2, <3>3, <3>4
    <3> QED BY <2>1, <2>2, <2>4, <3>1, <3>5, ReturnAnswers
  <2>5. CASE c = NoCert
    BY <2>1, <2>2, <2>5, ReturnFails
  <2> QED BY <2>2, <2>3, <2>4, <2>5
<1>7. ASSUME NEW p \in Procs, IssuerStep(p) PROVE UNCHANGED Service!svars
  <2>1. UNCHANGED <<now, req, served, floor>> /\ Running(p)
    BY <1>7 DEF IssuerStep, Issue, IssueFails, ghostVars, Running
  <2>2. pc' = [pc EXCEPT ![p] = "store"] \/ pc' = [pc EXCEPT ![p] = "complete"]
    BY <1>7 DEF IssuerStep, Issue, IssueFails
  <2>3. \A q \in Procs \ {p} : val'[q] = val[q]
    BY <1>7 DEF IssuerStep, Issue, IssueFails, TypeOK
  <2> QED BY <2>1, <2>2, <2>3, InnerStutters DEF TypeOK, Running
<1>8. ASSUME NEW p \in Procs, HandshakeOver(p) PROVE Service!Forget(p)
  <2>1. /\ pc[p] = "done" /\ UNCHANGED <<now, served>>
        /\ pc'[p] = "idle" /\ val'[p] = NoCert
        /\ \A q \in Procs \ {p} : pc'[q] = pc[q] /\ val'[q] = val[q]
        /\ req' = [req EXCEPT ![p] = Unasked] /\ floor' = [floor EXCEPT ![p] = 0]
    BY <1>8 DEF HandshakeOver, TypeOK
  <2> QED BY <2>1 DEF Service!Forget, Running
<1>9. ASSUME NEW p \in Procs, NEW s \in SNIs, Call(p, s) PROVE Service!Ask(p, s)
  <2>1. /\ pc[p] = "idle" /\ UNCHANGED <<now, served, val>> /\ pc'[p] = "lookup"
        /\ \A q \in Procs \ {p} : pc'[q] = pc[q]
        /\ req' = [req EXCEPT ![p] = s] /\ floor' = [floor EXCEPT ![p] = served[s]]
    BY <1>9 DEF Call, TypeOK
  <2> QED BY <2>1 DEF Service!Ask, Running
<1>10. CASE Tick
  BY <1>10 DEF Tick, ghostVars, Service!Next, Service!Advance, Running
<1>11. CASE UNCHANGED vars
  BY <1>11 DEF vars, Service!svars, Running
<1> QED BY <1>1, <1>2, <1>3, <1>4, <1>5, <1>6, <1>7, <1>8, <1>9, <1>10, <1>11
        DEF Next, LocalStep, Service!Next

\* Initial states map to initial states.
LEMMA InitRefines == Init => Service!Init
  BY DEF Init, Service!Init, Running

\* Whatever the interleaving of handshakes, flights, evictions, refreshes and
\* failures of the issuer, every Get that returns a certificate returns one
\* for the SNI asked for, unexpired, and not older than any certificate
\* returned for that SNI before it was called (cache.go:52-86).
THEOREM CacheImplementsService == Spec => ImplementsService
<1>1. Init /\ [][Next]_vars /\ []IndInv => Service!Spec
  BY InitRefines, StepRefines, PTL DEF Service!Spec
<1> QED BY <1>1, Inductive, PTL DEF Spec, ImplementsService
=============================================================================
