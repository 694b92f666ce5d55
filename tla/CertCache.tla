------------------------------ MODULE CertCache ------------------------------
(****************************************************************************)
(* internal/tlsmgr/cache.go: the LRU cache of leaf certificates keyed by    *)
(* SNI, shared by all handshake goroutines, with single-flight issuance.    *)
(*                                                                          *)
(* A caller of Get runs through these program points:                       *)
(*   lookup   Get entered, the first lookup not done yet                    *)
(*   do       the first lookup missed, sf.Do not entered yet                *)
(*   recheck  leader of a flight, before the lookup inside the flight       *)
(*   issue    leader, c.issue(sni) running (Mint, or a Vault round trip)    *)
(*   store    leader, holds the issued certificate, c.store not done yet    *)
(*   complete leader, the flight's function has returned                    *)
(*   wait     joined somebody else's flight                                 *)
(*   woken    sf.Do returned a value or an error                            *)
(*   done     Get returned                                                  *)
(* Every critical section of c.mu (lookup, lookupStale, store) and of the   *)
(* singleflight group's mutex is one atomic step.  Time is a counter.       *)
(****************************************************************************)
EXTENDS Integers, Sequences, FiniteSets

CONSTANTS
    Procs,          \* handshake goroutines
    SNIs,           \* server names, the empty one included
    Capacity,       \* TLS_CERT_CACHE_SIZE
    VaultMode,      \* TRUE: the cache Build assembles for vault, FALSE: auto
    Lifetimes,      \* possible now-to-NotAfter spans of an issued certificate
    Skew,           \* how far NotBefore is backdated
    RefreshMargin,  \* auto: refresh when less than this is left (5 minutes)
    MaxCall,        \* no Get lasts longer than this (Vault timeout, local work)
    MaxTime,        \* bound on the clock
    MaxIssues,      \* bound on the number of certificates issued
    NoCert, NoProc  \* nil certificate, nobody leads a flight

ASSUME ConstantsAssumption ==
    /\ Capacity \in Nat \ {0}
    /\ VaultMode \in BOOLEAN
    /\ Lifetimes \subseteq Nat \ {0}
    /\ Skew \in Nat /\ RefreshMargin \in Nat /\ MaxCall \in Nat
    /\ MaxTime \in Nat /\ MaxIssues \in Nat
    /\ NoProc \notin Procs
    /\ SNIs # {}

Certs == [sni : SNIs, serial : Nat \ {0}, notBefore : Int, notAfter : Int]

ASSUME NoCertAssumption == NoCert \notin Certs

\* The margins against the duration of a call: a certificate that needs no
\* refresh when it is picked is still valid after two calls' worth of time.
ASSUME TimingAssumption ==
    /\ \A life \in Lifetimes : life >= 2 * MaxCall
    /\ ~VaultMode => RefreshMargin >= 2 * MaxCall
    /\ VaultMode => \A life \in Lifetimes : life + Skew >= 6 * MaxCall

VARIABLES
    now,      \* the wall clock
    entries,  \* c.entries: SNI -> cached certificate, or NoCert
    order,    \* c.order: the SNIs of the list's elements, front first
    flight,   \* c.sf: SNI -> leader of the flight in progress, or NoProc
    pc,       \* program point of each caller
    req,      \* the SNI each caller asked for
    val,      \* the certificate each caller holds; NoCert is nil (an error)
    began,    \* when each caller entered Get
    issued,   \* number of certificates issued, bounded by MaxIssues
    \* History, read by no guard:
    served,   \* SNI -> serial of the newest certificate any Get returned
    floor,    \* value of served[sni] when each caller entered Get
    used      \* SNIs in the order lookup, lookupStale or store last had their
              \* certificate in hand, most recent first (what a flight passes
              \* on to its waiters counts once, where it was looked up or stored)

cacheVars == <<entries, order>>
ghostVars == <<served, floor, used>>
vars == <<now, entries, order, flight, pc, req, val, began, issued,
          served, floor, used>>

-----------------------------------------------------------------------------
(* container/list, and the list's use as a recency order.                   *)

Elems(q) == {q[i] : i \in 1..Len(q)}

Position(q, s) == CHOOSE i \in 1..Len(q) : q[i] = s

MoveToFront(q, s) ==
    LET p == Position(q, s)
    IN  [i \in 1..Len(q) |-> IF i = 1 THEN s
                             ELSE IF i <= p THEN q[i - 1] ELSE q[i]]

PushFront(q, s) ==
    [i \in 1..(Len(q) + 1) |-> IF i = 1 THEN s ELSE q[i - 1]]

\* A use: to the front, whether or not it was there before.
Touch(q, s) == IF s \in Elems(q) THEN MoveToFront(q, s) ELSE PushFront(q, s)

\* Mutant: the size is compared before the new element is counted.
MutTrimLate(q) ==
    SubSeq(q, 1, IF Len(q) > Capacity + 1 THEN Capacity + 1 ELSE Len(q))

\* The eviction loop of store: elements leave at the back.
Trim(q) == SubSeq(q, 1, IF Len(q) > Capacity THEN Capacity ELSE Len(q))

-----------------------------------------------------------------------------
(* The two refresh policies, and the lookups.                               *)

\* Mutant: the five-minute margin dropped.
MutAutoNeedsRefreshNoMargin(c) == c.notAfter - now < 0

\* newCertCache's default policy: time.Until(NotAfter) < 5 minutes.
AutoNeedsRefresh(c) == c.notAfter - now < RefreshMargin

\* vaultRefreshPolicy: more than 2/3 of the certificate's lifetime elapsed.
VaultNeedsRefresh(c) ==
    now - c.notBefore > ((c.notAfter - c.notBefore) * 2) \div 3

needsRefresh(c) ==
    IF VaultMode THEN VaultNeedsRefresh(c) ELSE AutoNeedsRefresh(c)

staleOK == VaultMode

Fresh(s) == entries[s] # NoCert /\ ~needsRefresh(entries[s])

\* Mutant: a hit that does not refresh recency.
MutHitNoMove(s) == Fresh(s) /\ used' = Touch(used, s) /\ UNCHANGED cacheVars

\* lookup's effect on a hit.
Hit(s) == /\ Fresh(s)
          /\ order' = MoveToFront(order, s)
          /\ used' = Touch(used, s)
          /\ UNCHANGED entries

\* Mutant: an expired certificate is served stale.
MutStaleUsableExpired(s) == entries[s] # NoCert

\* lookupStale: still within its real validity, whatever the policy says.
StaleUsable(s) == entries[s] # NoCert /\ now <= entries[s].notAfter

-----------------------------------------------------------------------------
\* What a goroutine that is not in a handshake holds.
Unasked == CHOOSE s \in SNIs : TRUE

Init ==
    /\ now = 0
    /\ entries = [s \in SNIs |-> NoCert]
    /\ order = << >>
    /\ flight = [s \in SNIs |-> NoProc]
    /\ pc = [p \in Procs |-> "idle"]
    /\ req = [p \in Procs |-> Unasked]
    /\ val = [p \in Procs |-> NoCert]
    /\ began = [p \in Procs |-> 0]
    /\ issued = 0
    /\ served = [s \in SNIs |-> 0]
    /\ floor = [p \in Procs |-> 0]
    /\ used = << >>

\* Get returns c (NoCert: the error) to p.
Return(p, c) ==
    /\ pc' = [pc EXCEPT ![p] = "done"]
    /\ val' = [val EXCEPT ![p] = c]
    /\ served' = IF c # NoCert /\ c.serial > served[req[p]]
                 THEN [served EXCEPT ![req[p]] = c.serial] ELSE served

\* The handshake callback calls cache.Get(hello.ServerName).
Call(p, s) ==
    /\ pc[p] = "idle"
    /\ pc' = [pc EXCEPT ![p] = "lookup"]
    /\ req' = [req EXCEPT ![p] = s]
    /\ began' = [began EXCEPT ![p] = now]
    /\ floor' = [floor EXCEPT ![p] = served[s]]
    /\ UNCHANGED <<now, cacheVars, flight, val, issued, served, used>>

\* The first lookup: a hit returns at once.
Lookup(p) ==
    /\ pc[p] = "lookup"
    /\ \/ Hit(req[p]) /\ Return(p, entries[req[p]])
       \/ /\ ~Fresh(req[p])
          /\ pc' = [pc EXCEPT ![p] = "do"]
          /\ UNCHANGED <<cacheVars, val, served, used>>
    /\ UNCHANGED <<now, flight, req, began, issued, floor>>

\* Mutant: one key for all SNIs, as with a constant passed to sf.Do.
MutDoOneKey(p) ==
    /\ pc[p] = "do"
    /\ \/ /\ \A s \in SNIs : flight[s] = NoProc
          /\ flight' = [flight EXCEPT ![req[p]] = p]
          /\ pc' = [pc EXCEPT ![p] = "recheck"]
       \/ /\ \E s \in SNIs : flight[s] # NoProc
          /\ pc' = [pc EXCEPT ![p] = "wait"]
          /\ UNCHANGED flight
    /\ UNCHANGED <<now, cacheVars, req, val, began, issued, ghostVars>>

\* sf.Do: lead a new flight for the SNI, or join the one in progress.
Do(p) ==
    /\ pc[p] = "do"
    /\ \/ /\ flight[req[p]] = NoProc
          /\ flight' = [flight EXCEPT ![req[p]] = p]
          /\ pc' = [pc EXCEPT ![p] = "recheck"]
       \/ /\ flight[req[p]] # NoProc
          /\ pc' = [pc EXCEPT ![p] = "wait"]
          /\ UNCHANGED flight
    /\ UNCHANGED <<now, cacheVars, req, val, began, issued, ghostVars>>

\* Mutant: no second lookup inside the flight.
MutRecheckSkipped(p) ==
    /\ pc[p] = "recheck"
    /\ pc' = [pc EXCEPT ![p] = "issue"]
    /\ UNCHANGED <<now, cacheVars, flight, req, val, began, issued, ghostVars>>

\* The lookup inside the flight: another flight may have stored since.
Recheck(p) ==
    /\ pc[p] = "recheck"
    /\ \/ /\ Hit(req[p])
          /\ val' = [val EXCEPT ![p] = entries[req[p]]]
          /\ pc' = [pc EXCEPT ![p] = "complete"]
       \/ /\ ~Fresh(req[p])
          /\ pc' = [pc EXCEPT ![p] = "issue"]
          /\ UNCHANGED <<cacheVars, val, used>>
    /\ UNCHANGED <<now, flight, req, began, issued, served, floor>>

\* The CA (autoca's Mint, or Vault) stamps a certificate.  Real serials are
\* random; here they number the certificates in the order of issue, which is
\* what the properties need to tell a newer one from an older one.
Issue(p) ==
    /\ pc[p] = "issue"
    /\ issued < MaxIssues
    /\ issued' = issued + 1
    /\ \E life \in Lifetimes :
          val' = [val EXCEPT ![p] =
                     [sni |-> req[p], serial |-> issued + 1,
                      notBefore |-> now - Skew, notAfter |-> now + life]]
    /\ pc' = [pc EXCEPT ![p] = "store"]
    /\ UNCHANGED <<now, cacheVars, flight, req, began, ghostVars>>

\* c.issue fails, or the leaf does not parse.
IssueFails(p) ==
    /\ pc[p] = "issue"
    /\ val' = [val EXCEPT ![p] = NoCert]
    /\ pc' = [pc EXCEPT ![p] = "complete"]
    /\ UNCHANGED <<now, cacheVars, flight, req, began, issued, ghostVars>>

\* Mutant: the map entry of an evicted element is not deleted.
MutStoreKeepsEvicted(p) ==
    LET s    == req[p]
        list == IF entries[s] # NoCert
                THEN MoveToFront(order, s) ELSE Trim(PushFront(order, s))
    IN  /\ pc[p] = "store"
        /\ order' = list
        /\ entries' = [entries EXCEPT ![s] = val[p]]
        /\ used' = Touch(used, s)
        /\ pc' = [pc EXCEPT ![p] = "complete"]
        /\ UNCHANGED <<now, flight, req, val, began, issued, served, floor>>

\* store: replace the entry in place, or push it and evict at the back.
Store(p) ==
    LET s    == req[p]
        list == IF entries[s] # NoCert
                THEN MoveToFront(order, s) ELSE Trim(PushFront(order, s))
    IN  /\ pc[p] = "store"
        /\ order' = list
        /\ entries' = [t \in SNIs |->
                          IF t = s THEN val[p]
                          ELSE IF t \in Elems(list) THEN entries[t] ELSE NoCert]
        /\ used' = Touch(used, s)
        /\ pc' = [pc EXCEPT ![p] = "complete"]
        /\ UNCHANGED <<now, flight, req, val, began, issued, served, floor>>

\* singleflight: the call is forgotten and everyone in it gets its result.
Complete(p) ==
    LET s      == req[p]
        joined == {q \in Procs : pc[q] = "wait" /\ req[q] = s} \union {p}
    IN  /\ pc[p] = "complete"
        /\ flight' = [flight EXCEPT ![s] = NoProc]
        /\ val' = [q \in Procs |-> IF q \in joined THEN val[p] ELSE val[q]]
        /\ pc' = [q \in Procs |-> IF q \in joined THEN "woken" ELSE pc[q]]
        /\ UNCHANGED <<now, cacheVars, req, began, issued, ghostVars>>

\* sf.Do returned: the value, else the stale certificate, else the error.
Woken(p) ==
    /\ pc[p] = "woken"
    /\ \/ val[p] # NoCert /\ Return(p, val[p]) /\ UNCHANGED used
       \/ /\ val[p] = NoCert /\ staleOK /\ StaleUsable(req[p])
          /\ Return(p, entries[req[p]])
          /\ used' = Touch(used, req[p])
       \/ /\ val[p] = NoCert /\ ~(staleOK /\ StaleUsable(req[p]))
          /\ Return(p, NoCert) /\ UNCHANGED used
    /\ UNCHANGED <<now, cacheVars, flight, req, began, issued, floor>>

\* The goroutine's handshake is over; it may serve another one.
HandshakeOver(p) ==
    /\ pc[p] = "done"
    /\ pc' = [pc EXCEPT ![p] = "idle"]
    /\ val' = [val EXCEPT ![p] = NoCert]
    /\ req' = [req EXCEPT ![p] = Unasked]
    /\ began' = [began EXCEPT ![p] = 0]
    /\ floor' = [floor EXCEPT ![p] = 0]
    /\ UNCHANGED <<now, cacheVars, flight, issued, served, used>>

\* Time passes; no call is outlasted.
Tick ==
    /\ now < MaxTime
    /\ \A p \in Procs : pc[p] \notin {"idle", "done"} => now - began[p] < MaxCall
    /\ now' = now + 1
    /\ UNCHANGED <<cacheVars, flight, pc, req, val, began, issued, ghostVars>>

LocalStep(p) == \/ Lookup(p) \/ Do(p) \/ Recheck(p)
                \/ Store(p) \/ Complete(p) \/ Woken(p)

IssuerStep(p) == Issue(p) \/ IssueFails(p)

Next == \/ \E p \in Procs : LocalStep(p) \/ IssuerStep(p) \/ HandshakeOver(p)
        \/ \E p \in Procs, s \in SNIs : Call(p, s)
        \/ Tick

Spec == Init /\ [][Next]_vars

\* Goroutines inside Get keep running; nothing is assumed of the issuer.
LocalFairSpec == Spec /\ \A p \in Procs : WF_vars(LocalStep(p))

-----------------------------------------------------------------------------
(* Properties.                                                              *)

Points == {"idle", "lookup", "do", "recheck", "issue", "store", "complete",
           "wait", "woken", "done"}

Leading(p) == pc[p] \in {"recheck", "issue", "store", "complete"}

Running(p) == pc[p] \notin {"idle", "done"}

\* Every variable of the cache and of its callers has its type; the list never
\* outgrows TLS_CERT_CACHE_SIZE (cache.go:129-133).
TypeOK ==
    /\ now \in Nat
    /\ entries \in [SNIs -> Certs \union {NoCert}]
    /\ order \in Seq(SNIs) /\ Len(order) <= Capacity
    /\ flight \in [SNIs -> Procs \union {NoProc}]
    /\ pc \in [Procs -> Points]
    /\ req \in [Procs -> SNIs]
    /\ val \in [Procs -> Certs \union {NoCert}]
    /\ began \in [Procs -> Nat]
    /\ issued \in Nat
    /\ served \in [SNIs -> Nat]
    /\ floor \in [Procs -> Nat]
    /\ used \in Seq(SNIs)

\* The map and the list of the LRU (cache.go:120-134) always agree: the list
\* holds every cached SNI exactly once and no other, so that an eviction takes
\* the same entry from both, and the certificate cached under an SNI was issued
\* for that SNI.
CacheCoherent ==
    /\ \A i, j \in 1..Len(order) : order[i] = order[j] => i = j
    /\ \A s \in SNIs : s \in Elems(order) <=> entries[s] # NoCert
    /\ \A s \in SNIs : entries[s] # NoCert => entries[s].sni = s

\* Concurrent handshakes for one SNI trigger one mint (cache.go:57-75): no two
\* callers issue for the same SNI at once, and nobody issues for an SNI whose
\* cached certificate is good, however long ago its own lookup missed.
OneMintPerSNI ==
    /\ \A p, q \in Procs : Leading(p) /\ Leading(q) /\ req[p] = req[q] => p = q
    /\ \A p \in Procs : pc[p] \in {"issue", "store"} => ~Fresh(req[p])

\* "front = most recently used" (cache.go:19): the list is the sequence of the
\* SNIs last handed out or stored, cut after its length; so eviction at the
\* back removes the least recently used certificate.
FrontIsMostRecentlyUsed == order = SubSeq(used, 1, Len(order))

\* The issuer never sits on s for ever: Mint ends, Vault answers or times out.
IssuerAnswers(s) == \A q \in Procs : []<>~(pc[q] = "issue" /\ req[q] = s)

\* Every Get for an SNI the issuer answers for returns, leader or waiter, even
\* if the issuer hangs for ever on other SNIs (cache.go:57: one flight per key,
\* issuance outside c.mu).
HangIsIsolated ==
    \A s \in SNIs : IssuerAnswers(s) =>
        \A p \in Procs : pc[p] = "lookup" /\ req[p] = s ~> pc[p] = "done"

(* The inductive invariant behind the safety properties.                    *)

\* A flight is led by exactly the caller the group remembers for its SNI.
FlightsLed ==
    /\ \A s \in SNIs, p \in Procs : flight[s] = p => Leading(p) /\ req[p] = s
    /\ \A p \in Procs : Leading(p) => flight[req[p]] = p

\* Only a missing or refresh-needing certificate is being replaced.
IssuingOnlyWhenNeeded ==
    \A p \in Procs : pc[p] \in {"issue", "store"} => ~Fresh(req[p])

\* No call is outlasted.
CallsBounded ==
    \A p \in Procs :
        Running(p) => began[p] <= now /\ now <= began[p] + MaxCall

\* A Vault certificate's lifetime leaves a third of it after the refresh point.
LongEnough(c) == VaultMode => c.notAfter - c.notBefore >= 6 * MaxCall

\* What leaders and woken callers hold is theirs and lasts.
HeldCertsGood ==
    /\ \A s \in SNIs : entries[s] # NoCert => LongEnough(entries[s])
    /\ \A p \in Procs : pc[p] = "store" => val[p] # NoCert
    /\ \A p \in Procs : val[p] # NoCert =>
          /\ pc[p] \in {"store", "complete"} =>
                /\ val[p].sni = req[p]
                /\ LongEnough(val[p])
                /\ val[p].notAfter >= began[p] + 2 * MaxCall
          /\ pc[p] = "woken" =>
                /\ val[p].sni = req[p]
                /\ val[p].notAfter >= began[p] + MaxCall

\* No serial is ahead of the issuer, and no caller's floor ahead of what its
\* SNI was served with.
SerialsBounded ==
    /\ \A s \in SNIs : served[s] <= issued
    /\ \A s \in SNIs : entries[s] # NoCert => entries[s].serial <= issued
    /\ \A p \in Procs : val[p] # NoCert => val[p].serial <= issued
    /\ \A p \in Procs : Running(p) => floor[p] <= served[req[p]]

\* p is about to return a certificate for s.
Delivering(p, s) == pc[p] = "woken" /\ req[p] = s /\ val[p] # NoCert

\* c is at least as new as all that was or is about to be served for s.
Newest(c, s) ==
    /\ served[s] <= c.serial
    /\ \A q \in Procs : Delivering(q, s) => val[q].serial <= c.serial

\* p leads a flight that has its certificate.
Carrying(p) == pc[p] \in {"store", "complete"} /\ val[p] # NoCert

\* The cached certificate and the one a flight carries are the newest, and a
\* flight that is through store carries what is cached (unless evicted).
NewestKept ==
    /\ \A s \in SNIs : entries[s] # NoCert => Newest(entries[s], s)
    /\ \A p \in Procs : Carrying(p) => Newest(val[p], req[p])
    /\ \A p \in Procs : Carrying(p) /\ entries[req[p]] # NoCert =>
          /\ entries[req[p]].serial <= val[p].serial
          /\ pc[p] = "complete" => entries[req[p]].serial = val[p].serial
    /\ \A p \in Procs : Delivering(p, req[p]) => floor[p] <= val[p].serial

IndInv ==
    /\ TypeOK /\ CacheCoherent /\ FlightsLed /\ IssuingOnlyWhenNeeded
    /\ CallsBounded /\ HeldCertsGood /\ SerialsBounded /\ NewestKept

\* What the cache promises to the TLS stack (module CertService).
Service == INSTANCE CertService WITH
    clock <- now,
    call  <- [p \in Procs |-> IF Running(p) THEN "pending" ELSE pc[p]],
    ask   <- req,
    answer <- [p \in Procs |-> IF pc[p] = "done" THEN val[p] ELSE NoCert]

\* The cache implements that promise: whatever the interleaving of lookups,
\* flights, evictions and refreshes, a Get that returns a certificate returns
\* one for its SNI, unexpired, and not older than what an earlier Get returned.
ImplementsService == Service!Spec
=============================================================================
