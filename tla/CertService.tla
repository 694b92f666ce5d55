----------------------------- MODULE CertService -----------------------------
(****************************************************************************)
(* What the TLS stack may rely on when it calls tls.Config.GetCertificate   *)
(* (internal/tlsmgr/tlsmgr.go:150-160), whatever the cache, the flights and *)
(* the issuer do in between: a handshake asks for an SNI and gets either an *)
(* error or a certificate that is made for that SNI, has not expired, and   *)
(* is not older than one any handshake for that SNI got before it asked.    *)
(****************************************************************************)
EXTENDS Integers

CONSTANTS Procs, SNIs, NoCert, Unasked

VARIABLES
    clock,   \* the wall clock
    call,    \* each handshake: "idle", "pending" or "done"
    ask,     \* the SNI it asked for
    answer,  \* the certificate it got, NoCert for an error
    served,  \* SNI -> serial of the newest certificate handed out
    floor    \* served[ask] at the time of asking

svars == <<clock, call, ask, answer, served, floor>>

Init ==
    /\ clock = 0
    /\ call = [p \in Procs |-> "idle"]
    /\ ask = [p \in Procs |-> Unasked]
    /\ answer = [p \in Procs |-> NoCert]
    /\ served = [s \in SNIs |-> 0]
    /\ floor = [p \in Procs |-> 0]

Ask(p, s) ==
    /\ call[p] = "idle"
    /\ call' = [call EXCEPT ![p] = "pending"]
    /\ ask' = [ask EXCEPT ![p] = s]
    /\ floor' = [floor EXCEPT ![p] = served[s]]
    /\ UNCHANGED <<clock, answer, served>>

Answer(p) ==
    /\ call[p] = "pending"
    /\ call' = [call EXCEPT ![p] = "done"]
    /\ LET c == answer'[p]
       IN  /\ c # NoCert
           /\ c.sni = ask[p]
           /\ clock <= c.notAfter
           /\ c.serial >= floor[p]
           /\ answer' = [answer EXCEPT ![p] = c]
           /\ served' = IF c.serial > served[ask[p]]
                        THEN [served EXCEPT ![ask[p]] = c.serial] ELSE served
    /\ UNCHANGED <<clock, ask, floor>>

Fail(p) ==
    /\ call[p] = "pending"
    /\ call' = [call EXCEPT ![p] = "done"]
    /\ UNCHANGED <<clock, ask, answer, served, floor>>

Forget(p) ==
    /\ call[p] = "done"
    /\ call' = [call EXCEPT ![p] = "idle"]
    /\ ask' = [ask EXCEPT ![p] = Unasked]
    /\ answer' = [answer EXCEPT ![p] = NoCert]
    /\ floor' = [floor EXCEPT ![p] = 0]
    /\ UNCHANGED <<clock, served>>

Advance ==
    /\ clock' = clock + 1
    /\ UNCHANGED <<call, ask, answer, served, floor>>

Next == \/ \E p \in Procs : Answer(p) \/ Fail(p) \/ Forget(p)
        \/ \E p \in Procs, s \in SNIs : Ask(p, s)
        \/ Advance

Spec == Init /\ [][Next]_svars
=============================================================================
