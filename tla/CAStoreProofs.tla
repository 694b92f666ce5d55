---------------------------- MODULE CAStoreProofs ----------------------------
(****************************************************************************)
(* Theorems about the CA files, for any number of servers sharing them:     *)
(* what holds whatever happens to the files, and what holds as long as the  *)
(* servers start one after the other.                                       *)
(****************************************************************************)
EXTENDS CAStore, TLAPS

\* Initially no server has a CA in memory.
LEMMA InitInv == Init => TypeOK /\ OneCA
  BY StoreAssumption DEF Init, TypeOK, OneCA, Points, Writing, Lines, CAs

\* What the return of loadOrCreateCA does to types.
LEMMA ReadyInv ==
    ASSUME TypeOK, OneCA, NEW s \in Servers, NEW x \in [cert : CAs, key : CAs],
           x.cert = x.key, NEW line \in Lines, Ready(s, x, line),
           cert' \in CAs \union {Missing, Torn}, key' \in CAs \union {Missing, Torn}
    PROVE  TypeOK' /\ OneCA'
<1>1. TypeOK'
  BY DEF TypeOK, Ready, Points
<1>2. OneCA'
  BY StoreAssumption DEF TypeOK, OneCA, Ready, Points
<1> QED BY <1>1, <1>2

\* What a failed Load does.
LEMMA LoadFailsInv ==
    ASSUME TypeOK, OneCA, NEW s \in Servers, NEW b \in BOOLEAN, NEW f \in BOOLEAN,
           LoadFails(s, b, f)
    PROVE  TypeOK' /\ OneCA'
<1>1. said' \in [Servers -> Lines]
  BY DEF TypeOK, LoadFails, Lines
<1>2. TypeOK'
  BY <1>1 DEF TypeOK, LoadFails, disk, Points
<1>3. OneCA'
  BY DEF TypeOK, OneCA, LoadFails, Writing, Points
<1> QED BY <1>2, <1>3

\* No step of any server mixes two pairs.
LEMMA NextInv == TypeOK /\ OneCA /\ [Next]_vars => TypeOK' /\ OneCA'
<1> SUFFICES ASSUME TypeOK, OneCA, [Next]_vars PROVE TypeOK' /\ OneCA'
  OBVIOUS
<1>1. ASSUME NEW s \in Servers, Start(s) PROVE TypeOK' /\ OneCA'
  <2>1. found' \in [Servers -> Nat]
    BY <1>1 DEF Start, TypeOK, Complete, CAs
  <2> QED BY <1>1, <2>1 DEF Start, TypeOK, OneCA, Points, Writing, disk
<1>2. ASSUME NEW s \in Servers, ReadCert(s) PROVE TypeOK' /\ OneCA'
  <2>1. ASSUME NEW b \in BOOLEAN, NEW f \in BOOLEAN, LoadFails(s, b, f)
        PROVE  TypeOK' /\ OneCA'
    BY <2>1, LoadFailsInv
  <2>2. CASE /\ certRead' = [certRead EXCEPT ![s] = cert]
             /\ pc' = [pc EXCEPT ![s] = "readKey"]
             /\ UNCHANGED <<disk, ca, said, generated, found, trusted, quiet>>
    BY <2>2 DEF TypeOK, OneCA, Points, Writing, disk
  <2> QED BY <1>2, <2>1, <2>2 DEF ReadCert
<1>3. ASSUME NEW s \in Servers, ReadKey(s) PROVE TypeOK' /\ OneCA'
  <2>1. ASSUME NEW b \in BOOLEAN, NEW f \in BOOLEAN, LoadFails(s, b, f)
        PROVE  TypeOK' /\ OneCA'
    BY <2>1, LoadFailsInv
  <2>2. CASE /\ Usable(certRead[s], key)
             /\ Ready(s, [cert |-> certRead[s], key |-> key], "loaded")
             /\ UNCHANGED disk
    <3> DEFINE x == [cert |-> certRead[s], key |-> key]
    <3>1. x \in [cert : CAs, key : CAs] /\ x.cert = x.key
      BY <2>2 DEF Usable
    <3>2. cert' \in CAs \union {Missing, Torn} /\ key' \in CAs \union {Missing, Torn}
      BY <2>2 DEF TypeOK, disk
    <3> QED BY <2>2, <3>1, <3>2, ReadyInv DEF Lines
  <2> QED BY <1>3, <2>1, <2>2 DEF ReadKey
<1>4. ASSUME NEW s \in Servers, New(s) PROVE TypeOK' /\ OneCA'
  <2>1. generated + 1 \in CAs
    BY DEF TypeOK, CAs
  <2>2. ca' \in [Servers -> [cert : CAs, key : CAs] \union {NoCA}]
    BY <1>4, <2>1 DEF TypeOK, New
  <2>3. TypeOK'
    BY <1>4, <2>2 DEF TypeOK, New, Points, Writing, disk
  <2>4. ca'[s].cert = ca'[s].key /\ ca'[s] # NoCA
    BY <1>4, <2>1, StoreAssumption DEF TypeOK, New
  <2>5. \A t \in Servers \ {s} : ca'[t] = ca[t] /\ pc'[t] = pc[t]
    BY <1>4 DEF TypeOK, New
  <2> QED BY <2>3, <2>4, <2>5 DEF OneCA
<1>5. ASSUME NEW s \in Servers, NewFails(s) \/ Stop(s) PROVE TypeOK' /\ OneCA'
  <2>1. CASE NewFails(s)
    BY <2>1 DEF NewFails, TypeOK, OneCA, Points, Writing, Lines, disk
  <2>2. CASE Stop(s)
    BY <2>2 DEF Stop, TypeOK, OneCA, Points, Writing, Lines, disk
  <2> QED BY <1>5, <2>1, <2>2
<1>6. ASSUME NEW s \in Servers, Persist(s) PROVE TypeOK' /\ OneCA'
  <2>a. pc[s] \in Writing => ca[s] \in [cert : CAs, key : CAs] /\ ca[s].cert = ca[s].key
    BY DEF OneCA, TypeOK
  <2>1. ASSUME NEW at \in Writing, NEW to \in Writing,
               NEW c \in CAs \union {Missing, Torn},
               NEW k \in CAs \union {Missing, Torn}, Persisting(s, at, to, c, k)
        PROVE  TypeOK' /\ OneCA'
    BY <2>1 DEF Persisting, TypeOK, OneCA, Points
  <2>2. CASE Mkdir(s) \/ TruncCert(s) \/ TruncKey(s)
    BY <2>1, <2>2 DEF Mkdir, TruncCert, TruncKey, TypeOK, Writing
  <2>3. CASE WriteCert(s)
    <3>1. ca[s].cert \in CAs
      BY <2>a, <2>3 DEF WriteCert, Persisting, Writing
    <3> QED BY <2>1, <2>3, <3>1 DEF WriteCert, TypeOK, Writing
  <2>4. CASE WriteKey(s)
    <3>1. ca[s] \in [cert : CAs, key : CAs] /\ ca[s].cert = ca[s].key
      BY <2>a, <2>4 DEF WriteKey, Writing
    <3>2. /\ cert' \in CAs \union {Missing, Torn} /\ key' \in CAs \union {Missing, Torn}
          /\ Ready(s, ca[s], "generated")
      BY <2>4, <3>1 DEF WriteKey, TypeOK
    <3> QED BY <3>1, <3>2, ReadyInv DEF Lines
  <2> QED BY <1>6, <2>2, <2>3, <2>4 DEF Persist
<1>7. ASSUME NEW s \in Servers, PersistFails(s) PROVE TypeOK' /\ OneCA'
  <2>1. ca[s] \in [cert : CAs, key : CAs] /\ ca[s].cert = ca[s].key
    BY <1>7 DEF PersistFails, OneCA, TypeOK
  <2>2. /\ cert' \in CAs \union {Missing, Torn} /\ key' \in CAs \union {Missing, Torn}
        /\ Ready(s, ca[s], "in-memory")
    BY <1>7 DEF PersistFails, TypeOK, disk
  <2> QED BY <2>1, <2>2, ReadyInv DEF Lines
<1>8. CASE FileLost
  BY <1>8 DEF FileLost, TypeOK, OneCA
<1>9. CASE UNCHANGED vars
  BY <1>9 DEF vars, TypeOK, OneCA
<1> QED BY <1>1, <1>2, <1>3, <1>4, <1>5, <1>6, <1>7, <1>8, <1>9 DEF Next

\* The CA in memory is always one CA, whatever is on disk.
THEOREM StoreInductive == Spec => [](TypeOK /\ OneCA)
  BY InitInv, NextInv, PTL DEF Spec

\* However many servers share the files, and whatever crashes, failed calls
\* and lost files did to them, a server that is up publishes the certificate
\* of the key it signs with (autoca.go:99-102).
THEOREM AlwaysPairMatches == Spec => []PairMatches
<1>1. TypeOK /\ OneCA => PairMatches
  BY DEF OneCA, PairMatches
<1> QED BY <1>1, StoreInductive, PTL

-----------------------------------------------------------------------------
(* Servers that start one after the other.                                  *)

\* Initially no server has begun to start.
LEMMA InitOrderly == Init => Orderly
  BY DEF Init, Orderly, Busy, Writing

\* A server settles only on a complete pair.
LEMMA SettledComplete ==
    ASSUME TypeOK, OneCA, Orderly, quiet, NEW t \in Servers, Settled(t)
    PROVE  Complete
<1>1. CASE found[t] # 0 /\ pc[t] # "down"
  BY <1>1 DEF Orderly
<1>2. CASE said[t] \in {"loaded", "generated"}
  <2>1. pc[t] = "ready" /\ cert = ca[t].cert /\ key = ca[t].key
    BY <1>2 DEF Orderly
  <2>2. ca[t] # NoCA /\ ca[t].cert = ca[t].key
    BY <2>1 DEF OneCA
  <2>3. ca[t].cert \in CAs
    BY <2>2 DEF TypeOK
  <2> QED BY <2>1, <2>2, <2>3 DEF Complete
<1> QED BY <1>1, <1>2 DEF Settled

\* Every step of a server, and every other step that leaves quiet TRUE.
LEMMA NextOrderly ==
    TypeOK /\ OneCA /\ Orderly /\ [Next]_vars => Orderly'
<1> SUFFICES ASSUME TypeOK, OneCA, Orderly, [Next]_vars, quiet' PROVE Orderly'
  BY DEF Orderly
<1>1. ASSUME NEW s \in Servers, Start(s) PROVE Orderly'
  <2>1. /\ quiet /\ \A t \in Servers : ~Busy(t)
        /\ pc[s] = "down" /\ pc'[s] = "readCert" /\ UNCHANGED <<cert, key, ca, said>>
        /\ found'[s] = IF Complete THEN cert ELSE 0
        /\ \A t \in Servers \ {s} : pc'[t] = pc[t] /\ found'[t] = found[t]
    BY <1>1 DEF Start, disk, TypeOK
  <2>2. \A t \in Servers : pc'[t] \in {"readCert", "down", "ready"}
    BY <2>1 DEF TypeOK, Points, Busy
  <2>3. \A t \in Servers \ {s} : ~Busy(t)'
    BY <2>1 DEF Busy
  <2> QED BY <2>1, <2>2, <2>3 DEF Orderly, Complete, Writing
\* A failed Load: the pair is not complete, so no server has settled on it.
<1>f. ASSUME NEW s \in Servers, pc[s] \in {"readCert", "readKey"}, NEW b \in BOOLEAN,
             LoadFails(s, b, FALSE), ~Complete
      PROVE  Orderly'
  <2>1. /\ quiet /\ pc'[s] = "new" /\ UNCHANGED <<cert, key, ca, found, certRead>>
        /\ said'[s] \in {said[s], "unusable"}
        /\ \A t \in Servers \ {s} : pc'[t] = pc[t] /\ said'[t] = said[t]
    BY <1>f DEF LoadFails, disk, TypeOK
  <2>2. \A t \in Servers : ~Settled(t)
    BY <1>f, <2>1, SettledComplete
  <2>3. \A t \in Servers : ~Settled(t)'
    BY <2>1, <2>2, <1>f DEF Settled
  <2>4. \A t \in Servers : Busy(t)' => Busy(t)
    BY <1>f, <2>1 DEF Busy
  <2> QED BY <2>1, <2>3, <2>4 DEF Orderly, Settled, Writing
<1>2. ASSUME NEW s \in Servers, ReadCert(s) PROVE Orderly'
  <2>1. CASE cert = Missing /\ LoadFails(s, TRUE, FALSE)
    BY <1>2, <1>f, <2>1, StoreAssumption DEF ReadCert, Complete
  <2>2. CASE LoadFails(s, FALSE, TRUE)
    BY <2>2 DEF LoadFails
  <2>3. CASE /\ certRead' = [certRead EXCEPT ![s] = cert]
             /\ pc' = [pc EXCEPT ![s] = "readKey"]
             /\ UNCHANGED <<disk, ca, said, generated, found, trusted, quiet>>
    <3>1. /\ pc[s] = "readCert" /\ pc'[s] = "readKey" /\ certRead'[s] = cert
          /\ UNCHANGED <<cert, key, ca, said, found, quiet>>
          /\ \A t \in Servers \ {s} : pc'[t] = pc[t] /\ certRead'[t] = certRead[t]
      BY <1>2, <2>3 DEF ReadCert, disk, TypeOK
    <3>2. \A t \in Servers : Busy(t)' <=> Busy(t)
      BY <3>1 DEF Busy
    <3>3. \A t \in Servers : Settled(t)' <=> Settled(t)
      BY <3>1 DEF Settled
    <3> QED BY <3>1, <3>2, <3>3 DEF Orderly, Complete, Writing
  <2> QED BY <1>2, <2>1, <2>2, <2>3 DEF ReadCert
<1>3. ASSUME NEW s \in Servers, ReadKey(s) PROVE Orderly'
  <2>q. quiet
    BY <1>3 DEF ReadKey, LoadFails, Ready
  <2>0. pc[s] = "readKey" /\ certRead[s] = cert
    BY <1>3, <2>q DEF ReadKey, Orderly
  <2>1. CASE key = Missing /\ LoadFails(s, TRUE, FALSE)
    BY <1>f, <2>0, <2>1, StoreAssumption DEF Complete
  <2>2. CASE LoadFails(s, FALSE, TRUE)
    BY <2>2 DEF LoadFails
  <2>3. CASE ~Usable(certRead[s], key) /\ LoadFails(s, FALSE, FALSE)
    BY <1>f, <2>0, <2>3 DEF Complete, Usable
  <2>4. CASE /\ Usable(certRead[s], key)
             /\ Ready(s, [cert |-> certRead[s], key |-> key], "loaded")
             /\ UNCHANGED disk
    <3>1. /\ pc'[s] = "ready" /\ said'[s] = "loaded"
          /\ ca'[s].cert = cert /\ ca'[s].key = key
          /\ UNCHANGED <<cert, key, found, certRead>>
          /\ \A t \in Servers \ {s} :
                pc'[t] = pc[t] /\ said'[t] = said[t] /\ ca'[t] = ca[t]
      BY <2>0, <2>4 DEF Ready, disk, TypeOK
    <3>2. Busy(s) /\ ~Busy(s)'
      BY <2>0, <3>1 DEF Busy, Writing
    <3>3. \A t \in Servers : ~Busy(t)'
      BY <2>q, <3>1, <3>2 DEF Orderly, Busy
    <3> QED BY <2>q, <2>0, <3>1, <3>3 DEF Orderly, Complete, Busy
  <2> QED BY <1>3, <2>1, <2>2, <2>3, <2>4 DEF ReadKey
<1>4. ASSUME NEW s \in Servers, New(s) PROVE Orderly'
  <2>1. /\ pc[s] = "new" /\ pc'[s] = "mkdir"
        /\ UNCHANGED <<cert, key, said, found, quiet, certRead>>
        /\ \A t \in Servers \ {s} : pc'[t] = pc[t] /\ ca'[t] = ca[t]
    BY <1>4 DEF New, disk, TypeOK
  <2>2. \A t \in Servers : Busy(t)' <=> Busy(t)
    BY <2>1 DEF Busy, Writing
  <2>3. \A t \in Servers : Settled(t)' <=> Settled(t)
    BY <2>1 DEF Settled
  <2>4. \A t \in Servers : ~Settled(t)
    BY <2>1 DEF Orderly
  <2> QED BY <2>1, <2>2, <2>3, <2>4 DEF Orderly, Settled, Writing
<1>5. ASSUME NEW s \in Servers, NewFails(s) \/ Stop(s) PROVE Orderly'
  <2>1. /\ pc'[s] = "down" /\ said'[s] = "nothing" /\ UNCHANGED <<cert, key, found, quiet>>
        /\ \A t \in Servers \ {s} :
              pc'[t] = pc[t] /\ said'[t] = said[t] /\ ca'[t] = ca[t]
              /\ certRead'[t] = certRead[t]
    BY <1>5 DEF NewFails, Stop, TypeOK, disk
  <2>2. \A t \in Servers : (Busy(t)' => Busy(t)) /\ (Settled(t)' => Settled(t))
    BY <2>1 DEF Busy, Writing, Settled
  <2> QED BY <2>1, <2>2 DEF Orderly, Complete, Writing
<1>6. ASSUME NEW s \in Servers, Persist(s) \/ PersistFails(s) PROVE Orderly'
  <2>0. /\ pc[s] \in Writing /\ quiet' = quiet /\ UNCHANGED <<found, certRead>>
        /\ \A t \in Servers \ {s} :
              pc'[t] = pc[t] /\ said'[t] = said[t] /\ ca'[t] = ca[t]
    BY <1>6 DEF Persist, Mkdir, TruncCert, WriteCert, TruncKey, WriteKey, Persisting,
                PersistFails, Ready, Writing, TypeOK
  <2>1. /\ \A t \in Servers : ~Settled(t)
        /\ \A t \in Servers \ {s} : ~Busy(t)
    BY <2>0 DEF Orderly, Busy
  <2>2. /\ \A t \in Servers \ {s} : ~Busy(t)' /\ ~Settled(t)'
        /\ found'[s] = 0
    BY <2>0, <2>1 DEF Busy, Settled, Writing
  <2>3. CASE PersistFails(s)
    <3>1. pc'[s] = "ready" /\ said'[s] = "in-memory"
      BY <2>3 DEF PersistFails, Ready, TypeOK
    <3> QED BY <2>2, <3>1 DEF Orderly, Settled, Busy, Writing
  <2>4. CASE WriteKey(s)
    <3>1. /\ pc[s] = "writeKey" /\ pc'[s] = "ready" /\ cert' = ca'[s].cert
          /\ key' = ca'[s].key
      BY <2>4, <2>0 DEF WriteKey, Ready, TypeOK, Orderly
    <3> QED BY <2>2, <3>1 DEF Orderly, Settled, Busy, Writing
  <2>5. CASE Mkdir(s) \/ TruncCert(s) \/ WriteCert(s) \/ TruncKey(s)
    <3>1. /\ pc'[s] \in {"truncCert", "writeCert", "truncKey", "writeKey"}
          /\ pc'[s] \in {"truncKey", "writeKey"} => cert' = ca'[s].cert
          /\ said'[s] = said[s]
      BY <2>5, <2>0 DEF Mkdir, TruncCert, WriteCert, TruncKey, Persisting, TypeOK, Orderly
    <3>2. ~Settled(s)'
      BY <2>1, <2>2, <3>1 DEF Settled
    <3>3. \A t \in Servers : ~Settled(t)'
      BY <2>2, <3>2
    <3> QED BY <2>2, <3>1, <3>3 DEF Orderly, Settled, Busy, Writing
  <2> QED BY <1>6, <2>3, <2>4, <2>5 DEF Persist
<1>7. CASE FileLost
  BY <1>7 DEF FileLost
<1>8. CASE UNCHANGED vars
  BY <1>8 DEF vars, Orderly, Settled, Busy, Complete
<1> QED BY <1>1, <1>2, <1>3, <1>4, <1>5, <1>6, <1>7, <1>8 DEF Next

\* The invariant of servers that start one after the other.
THEOREM OrderlyInductive == Spec => []Orderly
  BY InitOrderly, NextOrderly, StoreInductive, PTL DEF Spec

\* Whatever crashed or failed to write before, a start that overlaps no other
\* and finds a complete CA on disk ends up with it (tlsmgr.go:122-127).
THEOREM AlwaysReused == Spec => []ExistingCAReused
<1>1. Orderly => ExistingCAReused
  BY DEF Orderly, ExistingCAReused
<1> QED BY <1>1, OrderlyInductive, PTL

\* What the log says is on disk is there, and stays there while other servers
\* start after it (tlsmgr.go:125,144).
THEOREM AlwaysDurable == Spec => []AnnouncedIsDurable
<1>1. Orderly => AnnouncedIsDurable
  BY DEF Orderly, AnnouncedIsDurable
<1> QED BY <1>1, OrderlyInductive, PTL
=============================================================================
