--------------------------- MODULE LifecycleProofs ---------------------------
(****************************************************************************)
(* The lifecycle's safety for any number of connections.  IndInv (see       *)
(* Lifecycle) is inductive; CleanExitIsDrained and NoRequestCutEarly follow *)
(* from it.  The main goroutine's steps and the connections' steps are      *)
(* treated in lemmas of their own.                                          *)
(****************************************************************************)
EXTENDS Lifecycle, TLAPS

\* The initial state has no listener, no connection and no exit code.
LEMMA InitIndInv == Init => IndInv
  <1> SUFFICES ASSUME Init PROVE IndInv OBVIOUS
  <1>1. TypeOK
    <2>1. ctxDone \in BOOLEAN /\ forced \in BOOLEAN BY Zenon DEF Init
    <2>2. inShutdown \in [Names -> BOOLEAN] BY Zenon DEF Init
    <2> QED BY <2>1, <2>2 DEF Init, TypeOK, Names
  <1>2. errCh <= Failed("http") + Failed("https") BY DEF Init, Failed, Names
  <1>3. \A c \in Conns : conn[c].st = "none" BY DEF Init
  <1>4. \A s \in Names : ln[s] = "off" /\ inShutdown[s] = FALSE BY DEF Init
  <1>5. \A s \in Names : ~Past(s) BY DEF Init, Past
  <1> QED BY <1>1, <1>2, <1>3, <1>4, <1>5
          DEF Init, IndInv, Alive, NoRequestCutEarly, CleanExitIsDrained, Tracked

\* The steps of run, Start and Run up to the shutdown loop keep the invariant.
LEMMA StartupStep ==
  ASSUME IndInv,
         NewServer \/ EarlyExit \/ (\E s \in Names : Bind(s) \/ BindFails(s))
         \/ Notify \/ Signal \/ SelectErr \/ SelectDone \/ Expire
  PROVE  IndInv'
  <1> USE DEF IndInv, TypeOK, Alive, NoRequestCutEarly, CleanExitIsDrained, Past, Failed, Tracked
  <1>1. CASE NewServer BY <1>1 DEF NewServer
  <1>2. CASE EarlyExit BY <1>2 DEF EarlyExit
  <1>3. ASSUME NEW s \in Names, Bind(s) PROVE IndInv'
    BY <1>3 DEF Bind, Unbound, Names
  <1>4. ASSUME NEW s \in Names, BindFails(s) PROVE IndInv' BY <1>4 DEF BindFails
  <1>5. CASE Notify BY <1>5 DEF Notify
  <1>6. CASE Signal BY <1>6 DEF Signal, Running
  <1>7. CASE SelectErr
    <2>1. \E s \in Names : ln[s] = "failed" BY <1>7 DEF SelectErr, Names
    <2> QED BY <1>7, <2>1 DEF SelectErr
  <1>8. CASE SelectDone BY <1>8 DEF SelectDone
  <1>9. CASE Expire BY <1>9 DEF Expire
  <1> QED BY <1>1, <1>2, <1>3, <1>4, <1>5, <1>6, <1>7, <1>8, <1>9

\* The shutdown loop keeps it: closing the listener before the polling starts is
\* what makes a server that drained stay drained.
LEMMA ShutdownStep ==
  ASSUME IndInv, Shutdown \/ Poll \/ PollAgain \/ GiveUp \/ Exit
  PROVE  IndInv'
  <1> USE DEF IndInv, TypeOK, Alive, NoRequestCutEarly, CleanExitIsDrained, Past, Failed, Tracked
  <1>s. Servers[1] = "http" /\ Servers[2] = "https" BY DEF Servers
  <1>1. CASE Shutdown BY <1>1, <1>s DEF Shutdown, Closed, Names
  <1>2. CASE Poll
    <2>1. cur \in 1..2 /\ Servers[cur] \in Names BY <1>2, <1>s DEF Poll, Names
    <2>2. PICK aged \in SUBSET {c \in Of(Servers[cur]) : conn[c].st = "new"} :
             LET closing == aged \union {c \in Of(Servers[cur]) : conn[c].st = "idle"}
                 left == {c \in Of(Servers[cur]) : conn[c].st \in {"new", "active"}} \ aged
             IN  /\ conn' = [c \in Conns |-> IF c \in closing
                                             THEN [conn[c] EXCEPT !.st = "closed"]
                                             ELSE conn[c]]
                 /\ IF left = {}
                    THEN cur' = cur + 1 /\ main' = "shutdown"
                    ELSE main' = "wait" /\ UNCHANGED cur
      BY <1>2 DEF Poll
    <2>3. \A c \in Conns : /\ conn'[c].srv = conn[c].srv
                           /\ conn'[c].st = conn[c].st \/ conn'[c].st = "closed"
                           /\ conn'[c] \in [srv : Names, st : {"none", "new", "active",
                                                   "idle", "hijacked", "closed"}]
      BY <2>2
    <2>4. conn' \in [Conns -> [srv : Names, st : {"none", "new", "active", "idle",
                                                  "hijacked", "closed"}]]
      BY <2>2, <2>3
    <2>5. CASE cur' = cur + 1 /\ main' = "shutdown"
      <3>1. \A c \in Conns : conn[c].srv = Servers[cur] => conn'[c].st \notin {"new", "active", "idle"}
        BY <2>2, <2>5, <1>2 DEF Of, Poll
      <3> QED BY <1>2, <1>s, <2>1, <2>3, <2>4, <2>5, <3>1 DEF Poll, Names
    <2>6. CASE main' = "wait" /\ UNCHANGED cur
      BY <1>2, <1>s, <2>1, <2>3, <2>4, <2>6 DEF Poll, Names
    <2> QED BY <2>2, <2>5, <2>6
  <1>3. CASE PollAgain BY <1>3 DEF PollAgain
  <1>4. CASE GiveUp BY <1>4, <1>s DEF GiveUp, Names
  <1>5. CASE Exit BY <1>5 DEF Exit
  <1> QED BY <1>1, <1>2, <1>3, <1>4, <1>5

\* Serving goroutines and connections keep it.
LEMMA ServingStep ==
  ASSUME IndInv,
         (\E s \in Names : Serve(s) \/ ServeFails(s)) \/ \E c \in Conns : ConnStep(c)
  PROVE  IndInv'
  <1> USE DEF IndInv, TypeOK, Alive, NoRequestCutEarly, CleanExitIsDrained, Past, Failed, Tracked
  <1>1. ASSUME NEW s \in Names, Serve(s) PROVE IndInv'
    BY <1>1 DEF Serve, Running, Names
  <1>2. ASSUME NEW s \in Names, ServeFails(s) PROVE IndInv'
    BY <1>2 DEF ServeFails, Names
  <1>3. ASSUME NEW c \in Conns, NEW s \in Names, Accept(c, s) PROVE IndInv'
    BY <1>3 DEF Accept
  <1>4. ASSUME NEW c \in Conns, Request(c) PROVE IndInv' BY <1>4 DEF Request, SetConn
  <1>5. ASSUME NEW c \in Conns, Respond(c) PROVE IndInv' BY <1>5 DEF Respond, SetConn
  <1>6. ASSUME NEW c \in Conns, Hijack(c) PROVE IndInv' BY <1>6 DEF Hijack, SetConn
  <1>7. ASSUME NEW c \in Conns, ClientCloses(c) PROVE IndInv'
    BY <1>7 DEF ClientCloses, SetConn
  <1> QED BY <1>1, <1>2, <1>3, <1>4, <1>5, <1>6, <1>7 DEF ConnStep

\* IndInv holds in every reachable state.
THEOREM LifecycleInductive == Spec => []IndInv
  <1>1. ASSUME IndInv, [Next]_vars PROVE IndInv'
    <2>1. CASE UNCHANGED vars
      BY <1>1, <2>1 DEF vars, IndInv, TypeOK, Alive, NoRequestCutEarly, CleanExitIsDrained, Past, Failed, Tracked
    <2>2. CASE Next
      BY <1>1, <2>2, StartupStep, ShutdownStep, ServingStep DEF Next, MainStep
    <2> QED BY <1>1, <2>1, <2>2
  <1> QED BY <1>1, InitIndInv, PTL DEF Spec

\* Every variable keeps its type; in particular Run's error channel of capacity
\* two is never full when a serving goroutine reports, so none is left blocked.
THEOREM LifecycleTypes == Spec => []TypeOK
  <1>1. IndInv => TypeOK BY DEF IndInv
  <1> QED BY <1>1, LifecycleInductive, PTL

\* Exit code 0 means that both servers have drained.
THEOREM AlwaysDrained == Spec => []CleanExitIsDrained
  <1>1. IndInv => CleanExitIsDrained BY DEF IndInv
  <1> QED BY <1>1, LifecycleInductive, PTL

\* No request in progress is cut before SHUTDOWN_TIMEOUT has passed.
THEOREM NeverCutEarly == Spec => []NoRequestCutEarly
  <1>1. IndInv => NoRequestCutEarly BY DEF IndInv
  <1> QED BY <1>1, LifecycleInductive, PTL
=============================================================================
