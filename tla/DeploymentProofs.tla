--------------------------- MODULE DeploymentProofs ---------------------------
(****************************************************************************)
(* Theorems about a chain of any number of servers, given any options, and  *)
(* a request with any path, headers and chain of addresses.                 *)
(****************************************************************************)
EXTENDS Deployment, RelayProofs

-----------------------------------------------------------------------------
(* The inductive invariant.                                                 *)

Shape ==
    /\ given \in Deployments
    /\ DOMAIN stage = Hops /\ DOMAIN conf = Hops
    /\ DOMAIN seen = 1..Upstream /\ DOMAIN answer = 1..Upstream
    /\ leg \in [1..Upstream -> {"none", "received", "relayed", "answered"}]

\* A server is what its options make of it.
Started ==
    \A i \in Hops :
        /\ stage[i] = "serving" => \E c \in BOOLEAN : conf[i] = Settings(given[i], c)
        /\ stage[i] # "serving" => conf[i] = NoSettings
        /\ stage[i] \notin {"off", "failed"} => stage[i] = Outcome(given[i])
        /\ stage[i] = "failed" => Outcome(given[i]) = "serving"

\* What a client may have sent.
Asked(r) ==
    \E q \in Requests, c \in Clients, s \in {"http", "https"} :
        r = [peer |-> c, scheme |-> s, host |-> "echo",
             url |-> ParsePath(q.path), header |-> q.header]

\* The way of the request: it has been at every hop before the ones that saw
\* it, and each of them got what the one before it sends, now as then.
Way ==
    /\ Seen(1) => seen[1] = sent /\ Asked(sent)
    /\ \A i \in 1..Upstream : Seen(i) => \A k \in 1..i : Seen(k)
    /\ \A i \in Hops : Seen(i) => stage[i] = "serving"
    /\ \A i \in Hops : Seen(i + 1) =>
          leg[i] # "received" /\ ~Local(i) /\ seen[i + 1] = Relayed(i)

\* The hops are 1..N, and the upstream comes after them.
LEMMA HopsNat ==
    /\ N \in Nat /\ N > 0 /\ Upstream = N + 1 /\ Hops \subseteq 1..Upstream
    /\ \A i \in Hops : i \in Nat /\ i + 1 \in 1..Upstream /\ i + 1 # i
    /\ 1 \in Hops /\ Upstream \in 1..Upstream /\ Upstream \notin Hops
    /\ \A i \in 1..Upstream : i \in Hops \/ i = Upstream
    /\ \A i \in 1..Upstream : i = 1 \/ i - 1 \in Hops
  BY DeploymentAssumption DEF Hops, Upstream

\* Initially all servers are off and nothing is seen.
LEMMA InitShape == Init => Shape /\ Started /\ Way
<1> SUFFICES ASSUME Init PROVE Shape /\ Started /\ Way
  OBVIOUS
<1>1. Shape
  BY DEF Init, Shape
<1>2. Started
  BY DEF Init, Started
<1>3. \A i \in 1..Upstream : ~Seen(i)
  BY DEF Init, Seen
<1>4. Way
  BY <1>3, HopsNat DEF Way
<1> QED BY <1>1, <1>2, <1>4

\* An answer concerns the hop that gives it and nothing else.
LEMMA RespondShape ==
    ASSUME Shape, NEW i \in 1..Upstream, NEW a, Respond(i, a)
    PROVE  /\ Shape' /\ UNCHANGED <<given, stage, conf, sent, seen>>
           /\ leg'[i] = "answered" /\ answer'[i] = a
           /\ \A k \in 1..Upstream : k # i => leg'[k] = leg[k] /\ answer'[k] = answer[k]
  BY DEF Shape, Respond, servers

\* Every step keeps the shape of the state.
LEMMA NextShape == Shape /\ [Next]_vars => Shape'
<1> SUFFICES ASSUME Shape, [Next]_vars PROVE Shape'
  OBVIOUS
<1>1. ASSUME NEW i \in Hops, Start(i) PROVE Shape'
  BY <1>1 DEF Start, Shape
<1>2. ASSUME NEW i \in Hops, StartFails(i) PROVE Shape'
  BY <1>2 DEF StartFails, Shape
<1>3. ASSUME NEW i \in Hops, Forward(i) PROVE Shape'
  BY <1>3, HopsNat DEF Forward, Shape, servers
<1>4. ASSUME NEW i \in 1..Upstream, NEW a, Respond(i, a) PROVE Shape'
  BY <1>4, RespondShape
<1>5. CASE Arrive
  BY <1>5 DEF Arrive, Shape, servers
<1>6. CASE UNCHANGED vars
  BY <1>6 DEF vars, Shape
<1>7. ASSUME NEW i \in Hops, HandlerStep(i)
      PROVE  Forward(i) \/ \E a : Respond(i, a)
  BY <1>7 DEF HandlerStep, ServeLocal, Unreachable, GiveUp, RelayBack
<1>8. UpstreamAnswers => \E a : Respond(Upstream, a)
  BY DEF UpstreamAnswers
<1> QED BY <1>1, <1>2, <1>3, <1>4, <1>5, <1>6, <1>7, <1>8, HopsNat DEF Next

\* The steps of a request's way.
LEMMA Steps ==
    ASSUME [Next]_vars
    PROVE  \/ \E i \in Hops : Start(i) \/ StartFails(i)
           \/ Arrive
           \/ \E i \in Hops : Forward(i)
           \/ \E i \in 1..Upstream : \E a : leg[i] # "none" /\ leg[i] # "answered" /\ Respond(i, a)
           \/ UNCHANGED vars
<1>1. ASSUME NEW i \in Hops, HandlerStep(i)
      PROVE  Forward(i) \/ \E a : leg[i] # "none" /\ leg[i] # "answered" /\ Respond(i, a)
  BY <1>1 DEF HandlerStep, ServeLocal, Unreachable, GiveUp, RelayBack
<1>2. UpstreamAnswers => \E a : leg[Upstream] # "none" /\ leg[Upstream] # "answered"
                                   /\ Respond(Upstream, a)
  BY DEF UpstreamAnswers
<1> QED BY <1>1, <1>2, HopsNat DEF Next

\* A start settles what a server is, and nothing else changes it
\* (main.go:35-84).
LEMMA StartedStep == Shape /\ Started /\ [Next]_vars => Started'
<1> SUFFICES ASSUME Shape, Started, [Next]_vars PROVE Started'
  OBVIOUS
<1>1. ASSUME NEW i \in Hops, Start(i) PROVE Started'
  <2>1. /\ stage[i] = "off" /\ given' = given
        /\ stage'[i] = Outcome(given[i])
        /\ \A k \in Hops : k # i => stage'[k] = stage[k]
    BY <1>1 DEF Start, Shape
  <2>2. Outcome(given[i]) \in {"refused", "version", "serving"}
    BY DEF Outcome
  <2>3. \A k \in Hops : k # i => conf'[k] = conf[k]
    BY <1>1 DEF Start, Shape
  <2>4. CASE Outcome(given[i]) = "serving"
    <3>1. \E c \in BOOLEAN : conf'[i] = Settings(given[i], c)
      BY <1>1, <2>4 DEF Start, Shape
    <3> QED BY <2>1, <2>3, <2>4, <3>1 DEF Started
  <2>5. CASE Outcome(given[i]) # "serving"
    <3>1. conf'[i] = NoSettings
      BY <1>1, <2>1, <2>5 DEF Start, Started
    <3> QED BY <2>1, <2>2, <2>3, <2>5, <3>1 DEF Started
  <2> QED BY <2>4, <2>5
<1>2. ASSUME NEW i \in Hops, StartFails(i) PROVE Started'
  <2>1. /\ stage[i] = "off" /\ UNCHANGED <<given, conf>> /\ stage'[i] = "failed"
        /\ \A k \in Hops : k # i => stage'[k] = stage[k]
        /\ Outcome(given[i]) = "serving"
    BY <1>2 DEF StartFails, Shape
  <2> QED BY <2>1 DEF Started
<1>3. CASE UNCHANGED <<given, stage, conf>>
  BY <1>3 DEF Started
<1> QED BY <1>1, <1>2, <1>3, Steps DEF Arrive, Forward, Respond, servers, vars

\* A hop gets the request once.
LEMMA LegNotBack ==
    ASSUME Shape, [Next]_vars, NEW j \in 1..Upstream, Seen(j), leg[j] # "received",
           \A i \in Hops : Seen(i + 1) => leg[i] # "received"
    PROVE  leg'[j] # "received"
<1>1. CASE Arrive
  <2>1. leg[1] = "none" /\ \A i \in 1..Upstream : i # 1 => leg'[i] = leg[i]
    BY <1>1 DEF Arrive, Shape
  <2> QED BY <2>1 DEF Seen
<1>2. ASSUME NEW i \in Hops, Forward(i) PROVE leg'[j] # "received"
  <2>1. /\ leg[i] = "received" /\ leg'[i] = "relayed"
        /\ \A k \in 1..Upstream : k # i /\ k # i + 1 => leg'[k] = leg[k]
    BY <1>2, HopsNat DEF Forward, Shape
  <2> QED BY <2>1
<1>3. ASSUME NEW i \in 1..Upstream, NEW a, Respond(i, a) PROVE leg'[j] # "received"
  BY <1>3, RespondShape
<1>4. \/ UNCHANGED leg
      \/ Arrive
      \/ \E i \in Hops : Forward(i)
      \/ \E i \in 1..Upstream : \E a : Respond(i, a)
  BY Steps DEF Start, StartFails, vars
<1> QED BY <1>1, <1>2, <1>3, <1>4

\* Serving is for good, and only a serving server is reached.
LEMMA ServingFixed ==
    ASSUME Shape, Started, [Next]_vars
    PROVE  /\ given' = given
           /\ \A i \in Hops : stage[i] = "serving" =>
                 stage'[i] = "serving" /\ conf'[i] = conf[i]
           /\ \A i \in Hops : \A s : s \in conf[i].listens => stage[i] = "serving"
<1>1. \A i \in Hops : \A s : s \in conf[i].listens => stage[i] = "serving"
  BY DEF Started, NoSettings
<1>2. ASSUME NEW i \in Hops, Start(i)
      PROVE  given' = given /\ \A k \in Hops : stage[k] = "serving" =>
                stage'[k] = "serving" /\ conf'[k] = conf[k]
  <2>1. /\ stage[i] = "off" /\ given' = given
        /\ \A k \in Hops : k # i => stage'[k] = stage[k]
    BY <1>2 DEF Start, Shape
  <2>2. \A k \in Hops : k # i => conf'[k] = conf[k]
    BY <1>2 DEF Start, Shape
  <2> QED BY <2>1, <2>2
<1>3. ASSUME NEW i \in Hops, StartFails(i)
      PROVE  given' = given /\ \A k \in Hops : stage[k] = "serving" =>
                stage'[k] = "serving" /\ conf'[k] = conf[k]
  BY <1>3 DEF StartFails, Shape
<1>4. \/ \E i \in Hops : Start(i) \/ StartFails(i)
      \/ UNCHANGED <<given, stage, conf>>
  BY Steps DEF Arrive, Forward, Respond, servers, vars
<1> QED BY <1>1, <1>2, <1>3, <1>4

\* What a hop has seen stays as it is.
LEMMA SeenFixed ==
    ASSUME Shape, Started, Way, [Next]_vars
    PROVE  /\ \A i \in 1..Upstream : Seen(i) => Seen(i)' /\ seen'[i] = seen[i]
           /\ \A i \in Hops : Seen(i) => conf'[i] = conf[i] /\ stage'[i] = "serving"
           /\ Seen(1) => sent' = sent
<1>1. \A i \in Hops : Seen(i) => conf'[i] = conf[i] /\ stage'[i] = "serving"
  BY ServingFixed DEF Way
<1>2. CASE UNCHANGED <<sent, seen, leg>>
  BY <1>1, <1>2 DEF Seen
<1>3. CASE Arrive
  <2>1. /\ leg[1] = "none" /\ leg'[1] = "received"
        /\ \A i \in 1..Upstream : i # 1 => leg'[i] = leg[i] /\ seen'[i] = seen[i]
    BY <1>3, HopsNat DEF Arrive, Shape
  <2> QED BY <1>1, <2>1 DEF Seen
<1>4. ASSUME NEW i \in Hops, Forward(i)
      PROVE  /\ sent' = sent
             /\ \A k \in 1..Upstream : Seen(k) => Seen(k)' /\ seen'[k] = seen[k]
  <2>1. /\ leg[i] = "received" /\ sent' = sent
        /\ leg'[i] = "relayed" /\ leg'[i + 1] = "received"
        /\ \A k \in 1..Upstream : k # i /\ k # i + 1 => leg'[k] = leg[k]
        /\ \A k \in 1..Upstream : k # i + 1 => seen'[k] = seen[k]
    BY <1>4, HopsNat DEF Forward, Shape
  <2>2. ~Seen(i + 1)
    BY <2>1 DEF Way
  <2> QED BY <2>1, <2>2 DEF Seen
<1>5. ASSUME NEW i \in 1..Upstream, NEW a, Respond(i, a)
      PROVE  /\ sent' = sent
             /\ \A k \in 1..Upstream : Seen(k) => Seen(k)' /\ seen'[k] = seen[k]
  <2>1. /\ UNCHANGED <<sent, seen>> /\ leg'[i] = "answered"
        /\ \A k \in 1..Upstream : k # i => leg'[k] = leg[k]
    BY <1>5, RespondShape
  <2> QED BY <2>1 DEF Seen
<1>6. \/ UNCHANGED <<sent, seen, leg>>
      \/ Arrive
      \/ \E i \in Hops : Forward(i)
      \/ \E i \in 1..Upstream : \E a : Respond(i, a)
  BY Steps DEF Start, StartFails, vars
<1> QED BY <1>1, <1>2, <1>3, <1>4, <1>5, <1>6

\* A hop sees the request when the client sends it, or when the hop before it
\* forwards it.
LEMMA NewlySeen ==
    ASSUME Shape, Started, Way, [Next]_vars, NEW j \in 1..Upstream, Seen(j)', ~Seen(j)
    PROVE  \/ /\ j = 1 /\ seen'[1] = sent' /\ Asked(sent')
              /\ \E s : Reachable(1, s)
           \/ \E i \in Hops :
                 /\ j = i + 1 /\ Seen(i) /\ ~Local(i) /\ sent' = sent
                 /\ seen'[j] = Relayed(i) /\ leg'[i] = "relayed"
                 /\ \E s : Reachable(j, s)
<1>1. leg[j] = "none" /\ leg'[j] # "none"
  BY DEF Seen
<1>2. CASE Arrive
  <2>1. /\ \A i \in 1..Upstream : i # 1 => leg'[i] = leg[i]
        /\ seen'[1] = sent'
    BY <1>2, HopsNat DEF Arrive, Shape
  <2>2. Asked(sent') /\ \E s : Reachable(1, s)
    BY <1>2 DEF Arrive, Asked
  <2> QED BY <1>1, <2>1, <2>2
<1>3. ASSUME NEW i \in Hops, Forward(i)
      PROVE  /\ j = i + 1 /\ Seen(i) /\ ~Local(i) /\ sent' = sent
             /\ seen'[j] = Relayed(i) /\ leg'[i] = "relayed"
             /\ \E s : Reachable(j, s)
  <2>1. /\ leg[i] = "received" /\ sent' = sent /\ ~Local(i)
        /\ leg'[i] = "relayed"
        /\ Reachable(i + 1, conf[i].target.scheme)
        /\ \A k \in 1..Upstream : k # i /\ k # i + 1 => leg'[k] = leg[k]
    BY <1>3, HopsNat DEF Forward, Shape
  <2>2. seen'[i + 1] = Relayed(i)
    BY <1>3, HopsNat DEF Forward, Shape
  <2>3. j = i + 1
    BY <1>1, <2>1
  <2> QED BY <2>1, <2>2, <2>3 DEF Seen
<1>4. ASSUME NEW i \in 1..Upstream, NEW a, leg[i] # "none", Respond(i, a) PROVE FALSE
  BY <1>1, <1>4, RespondShape
<1>5. \/ UNCHANGED leg
      \/ Arrive
      \/ \E i \in Hops : Forward(i)
      \/ \E i \in 1..Upstream : \E a : leg[i] # "none" /\ Respond(i, a)
  BY Steps DEF Start, StartFails, vars
<1> QED BY <1>1, <1>2, <1>3, <1>4, <1>5

\* The way grows at its end, and what lies behind stays as it was.
LEMMA WayStep == Shape /\ Started /\ Way /\ [Next]_vars => Way'
<1> SUFFICES ASSUME Shape, Started, Way, [Next]_vars PROVE Way'
  OBVIOUS
<1>1. Shape' /\ Upstream' = Upstream
  BY NextShape DEF Upstream
<1>2. Seen(1)' => seen'[1] = sent' /\ Asked(sent')
  <2>1. CASE Seen(1)
    BY <2>1, SeenFixed, HopsNat DEF Way
  <2>2. CASE ~Seen(1) /\ Seen(1)'
    <3>1. \A i \in Hops : 1 # i + 1
      BY HopsNat
    <3> QED BY <2>2, <3>1, NewlySeen, HopsNat
  <2> QED BY <2>1, <2>2
<1>3. ASSUME NEW i \in 1..Upstream, Seen(i)' PROVE \A k \in 1..i : Seen(k)'
  <2>1. CASE Seen(i)
    <3>1. \A k \in 1..i : Seen(k) /\ k \in 1..Upstream
      BY <2>1, HopsNat DEF Way
    <3> QED BY <3>1, SeenFixed
  <2>2. CASE ~Seen(i)
    <3>1. CASE i = 1
      BY <1>3, <3>1
    <3>2. CASE \E h \in Hops : i = h + 1 /\ Seen(h)
      <4>1. PICK h \in Hops : i = h + 1 /\ Seen(h)
        BY <3>2
      <4>2. \A k \in 1..h : Seen(k) /\ k \in 1..Upstream
        BY <4>1, HopsNat DEF Way
      <4>3. \A k \in 1..i : k \in 1..h \/ k = i
        BY <4>1, HopsNat
      <4> QED BY <1>3, <4>2, <4>3, SeenFixed
    <3> QED BY <1>3, <2>2, <3>1, <3>2, NewlySeen
  <2> QED BY <2>1, <2>2
<1>4. ASSUME NEW i \in Hops, Seen(i)' PROVE stage'[i] = "serving"
  <2>1. CASE Seen(i)
    BY <2>1, SeenFixed
  <2>2. CASE ~Seen(i)
    <3>1. \E s : Reachable(i, s)
      BY <1>4, <2>2, NewlySeen, HopsNat
    <3>2. stage[i] = "serving"
      BY <3>1, HopsNat, ServingFixed DEF Reachable
    <3> QED BY <3>2, ServingFixed
  <2> QED BY <2>1, <2>2
<1>5. ASSUME NEW i \in Hops, Seen(i + 1)'
      PROVE  leg'[i] # "received" /\ ~Local(i)' /\ seen'[i + 1] = Relayed(i)'
  <2>1. /\ i \in 1..Upstream /\ i + 1 \in 1..Upstream /\ i + 1 # 1
        /\ i \in 1..(i + 1) /\ Seen(i)'
    BY <1>3, <1>5, HopsNat
  <2>2. CASE Seen(i)
    <3>1. conf'[i] = conf[i] /\ seen'[i] = seen[i]
      BY <2>1, <2>2, SeenFixed
    <3>2. Local(i)' <=> Local(i)
      BY <3>1 DEF Local, Reserved
    <3>3. Relayed(i)' = Relayed(i)
      BY <3>1 DEF Relayed
    <3>4. CASE Seen(i + 1)
      <4>1. leg[i] # "received" /\ ~Local(i) /\ seen[i + 1] = Relayed(i)
        BY <3>4 DEF Way
      <4>2. seen'[i + 1] = seen[i + 1]
        BY <2>1, <3>4, SeenFixed
      <4>3. leg'[i] # "received"
        BY <2>1, <2>2, <4>1, LegNotBack DEF Way
      <4> QED BY <3>2, <3>3, <4>1, <4>2, <4>3
    <3>5. CASE ~Seen(i + 1)
      <4>1. PICK h \in Hops : /\ i + 1 = h + 1 /\ ~Local(h)
                              /\ seen'[i + 1] = Relayed(h) /\ leg'[h] = "relayed"
        BY <1>5, <2>1, <3>5, NewlySeen
      <4>2. h = i
        BY <4>1, HopsNat
      <4> QED BY <3>2, <3>3, <4>1, <4>2
    <3> QED BY <3>4, <3>5
  <2>3. CASE ~Seen(i)
    <3>1. ~Seen(i + 1)
      BY <2>1, <2>3 DEF Way
    <3>2. PICK h \in Hops : i + 1 = h + 1 /\ Seen(h)
      BY <1>5, <2>1, <3>1, NewlySeen
    <3>3. h = i
      BY <3>2, HopsNat
    <3> QED BY <2>3, <3>2, <3>3
  <2> QED BY <2>2, <2>3
<1> QED BY <1>1, <1>2, <1>3, <1>4, <1>5 DEF Way

-----------------------------------------------------------------------------
(* Configuration.                                                           *)

\* What Validate leaves of the options (config.go:238-338).
LEMMA ServingSettings ==
    ASSUME NEW g, NEW chain, Outcome(g) = "serving", NEW s, s = Settings(g, chain)
    PROVE  /\ s.listens # {}
           /\ \A o \in Limits : s.limits[o] \in Nat \ {0}
           /\ s.target = NoTarget \/ \E t \in DOMAIN URLTexts :
                                        parseHTTPURL(t) /\ s.target = URLTexts[t]
           /\ \A p \in {s.endpoint, s.metrics} : p = << >> \/ Head(p) = "/"
<1>1. PICK c : c = Effective(g)
  OBVIOUS
<1>2. Decodes(c) /\ Valid(c)
  BY <1>1 DEF Outcome
<1>3. s.listens # {}
  <2>1. s.listens = {x \in {"http", "https"} :
                       c[IF x = "http" THEN "http-enabled" ELSE "https-enabled"] = "true"}
    BY <1>1 DEF Settings
  <2>2. c["http-enabled"] = "true" \/ c["https-enabled"] = "true"
    BY <1>2 DEF Valid
  <2>3. CASE c["http-enabled"] = "true"
    <3>1. "http" \in s.listens
      BY <2>1, <2>3
    <3> QED BY <3>1
  <2>4. CASE c["https-enabled"] = "true"
    <3>1. "https" \in s.listens
      BY <2>1, <2>4
    <3> QED BY <3>1
  <2> QED BY <2>2, <2>3, <2>4
<1>4. ASSUME NEW o \in Limits PROVE s.limits[o] \in Nat \ {0}
  <2>1. s.limits = [x \in Limits |-> NumberTexts[c[x]]]
    BY <1>1 DEF Settings
  <2>2. c[o] \in DOMAIN NumberTexts
    BY <1>2 DEF Decodes
  <2>3. NumberTexts[c[o]] \in Int
    BY <2>2, NumbersAssumption
  <2>4. InRange(c)
    BY <1>2 DEF Valid
  <2>5. NumberTexts[c[o]] > 0
    BY <2>4 DEF InRange
  <2> QED BY <2>1, <2>3, <2>5
<1>5. s.target = NoTarget \/ \E t \in DOMAIN URLTexts :
                                parseHTTPURL(t) /\ s.target = URLTexts[t]
  <2>1. s.target = IF c["forward-url"] = "" THEN NoTarget ELSE URLTexts[c["forward-url"]]
    BY <1>1 DEF Settings
  <2>2. c["forward-url"] = "" \/ parseHTTPURL(c["forward-url"])
    BY <1>2 DEF Valid
  <2>3. parseHTTPURL(c["forward-url"]) => c["forward-url"] \in DOMAIN URLTexts
    BY DEF parseHTTPURL
  <2> QED BY <2>1, <2>2, <2>3
<1>6. s.endpoint = << >> \/ Head(s.endpoint) = "/"
  <2>1. s.endpoint = << >> \/ (/\ c["tls-ca-endpoint"] # ""
                               /\ s.endpoint = PathTexts[c["tls-ca-endpoint"]])
    BY <1>1 DEF Settings
  <2>2. c["tls-ca-endpoint"] = "" \/ Head(PathTexts[c["tls-ca-endpoint"]]) = "/"
    BY <1>2 DEF Valid, IsPath
  <2> QED BY <2>1, <2>2
<1>7. s.metrics = << >> \/ Head(s.metrics) = "/"
  <2>1. s.metrics = << >> \/ s.metrics = PathTexts[c["prometheus-metrics-path"]]
    BY <1>1 DEF Settings
  <2>2. Head(PathTexts[c["prometheus-metrics-path"]]) = "/"
    BY <1>2 DEF Valid, IsPath
  <2> QED BY <2>1, <2>2
<1> QED BY <1>3, <1>4, <1>5, <1>6, <1>7

\* A server that Validate let pass can be used (config.go:238-338).
LEMMA StartedUsable == Started => UsableWhenServing
<1> SUFFICES ASSUME Started, NEW i \in Hops, stage[i] = "serving"
             PROVE  /\ conf[i].listens # {}
                    /\ \A o \in Limits : conf[i].limits[o] \in Nat \ {0}
                    /\ conf[i].target # NoTarget =>
                          conf[i].target.scheme \in {"http", "https"} /\ conf[i].target.host # ""
                    /\ \A p \in {conf[i].endpoint, conf[i].metrics} : p = << >> \/ Head(p) = "/"
  BY DEF UsableWhenServing
<1>1. Outcome(given[i]) = "serving" /\ \E c \in BOOLEAN : conf[i] = Settings(given[i], c)
  BY DEF Started
<1>2. PICK s : s = conf[i]
  OBVIOUS
<1>3. /\ s.listens # {}
      /\ \A o \in Limits : s.limits[o] \in Nat \ {0}
      /\ s.target = NoTarget \/ \E t \in DOMAIN URLTexts :
                                   parseHTTPURL(t) /\ s.target = URLTexts[t]
      /\ \A p \in {s.endpoint, s.metrics} : p = << >> \/ Head(p) = "/"
  BY <1>1, <1>2, ServingSettings
<1>4. s.target # NoTarget => s.target.scheme \in {"http", "https"} /\ s.target.host # ""
  BY <1>3 DEF parseHTTPURL
<1> QED BY <1>2, <1>3, <1>4

\* What a higher source sets may as well be left out of a lower one
\* (config.go:203-225).
LEMMA ShadowedUnread ==
    ASSUME NEW g, DOMAIN g = {"flags", "env", "file", "readable", "version"},
           NEW bare, bare = Bare(g)
    PROVE  /\ Outcome(bare) = Outcome(g)
           /\ \A c \in BOOLEAN : Settings(bare, c) = Settings(g, c)
<1>1. PICK env : env = [o \in DOMAIN g.env \ DOMAIN g.flags |-> g.env[o]]
  OBVIOUS
<1>2. PICK low : low = DOMAIN g.file \ (DOMAIN g.flags
                          \union {o \in DOMAIN g.env : g.env[o] # ""})
  OBVIOUS
<1>3. PICK file : file = [o \in low |-> g.file[o]]
  OBVIOUS
<1>4. /\ bare.flags = g.flags /\ bare.readable = g.readable /\ bare.version = g.version
      /\ bare.env = env /\ bare.file = file
  BY <1>1, <1>2, <1>3 DEF Bare
<1>5. ASSUME NEW o \in Options PROVE Effective(bare)[o] = Effective(g)[o]
  <2>1. Effective(bare)[o] =
          IF o \in DOMAIN g.flags THEN g.flags[o]
          ELSE IF o \in DOMAIN env /\ env[o] # "" THEN env[o]
          ELSE IF o \in DOMAIN file THEN file[o]
          ELSE Default[o]
    BY <1>4 DEF Effective
  <2>2. Effective(g)[o] =
          IF o \in DOMAIN g.flags THEN g.flags[o]
          ELSE IF o \in DOMAIN g.env /\ g.env[o] # "" THEN g.env[o]
          ELSE IF o \in DOMAIN g.file THEN g.file[o]
          ELSE Default[o]
    BY DEF Effective
  <2>3. CASE o \in DOMAIN g.flags
    BY <2>1, <2>2, <2>3
  <2>4. CASE o \notin DOMAIN g.flags /\ o \in DOMAIN g.env /\ g.env[o] # ""
    BY <1>1, <2>1, <2>2, <2>4
  <2>5. CASE o \notin DOMAIN g.flags /\ ~(o \in DOMAIN g.env /\ g.env[o] # "")
    <3>1. ~(o \in DOMAIN env /\ env[o] # "")
      BY <1>1, <2>5
    <3>2. o \in DOMAIN file <=> o \in DOMAIN g.file
      BY <1>2, <1>3, <2>5
    <3>3. o \in DOMAIN file => file[o] = g.file[o]
      BY <1>3
    <3> QED BY <2>1, <2>2, <2>5, <3>1, <3>2, <3>3
  <2> QED BY <2>3, <2>4, <2>5
<1>6. Effective(bare) = Effective(g)
  <2>1. DOMAIN Effective(bare) = Options /\ DOMAIN Effective(g) = Options
    BY DEF Effective
  <2>2. /\ Effective(bare) = [o \in Options |-> Effective(bare)[o]]
        /\ Effective(g) = [o \in Options |-> Effective(g)[o]]
    BY DEF Effective
  <2> QED BY <1>5, <2>2
<1>7. Outcome(bare) = Outcome(g)
  BY <1>4, <1>6 DEF Outcome
<1>8. ASSUME NEW c \in BOOLEAN PROVE Settings(bare, c) = Settings(g, c)
  BY <1>6 DEF Settings
<1> QED BY <1>7, <1>8

\* Without what a higher source sets too, a server would be the same.
LEMMA StartedShadowed == Shape /\ Started => ShadowedIgnored
<1> SUFFICES ASSUME Shape, Started, NEW i \in Hops, stage[i] # "off"
             PROVE  /\ Outcome(Bare(given[i])) = IF stage[i] = "failed" THEN "serving"
                                                 ELSE stage[i]
                    /\ stage[i] = "serving" =>
                          conf[i] \in {Settings(Bare(given[i]), c) : c \in BOOLEAN}
  BY DEF ShadowedIgnored
<1>0. PICK g : g = given[i]
  OBVIOUS
<1>1. DOMAIN g = {"flags", "env", "file", "readable", "version"}
  BY <1>0, DeploymentAssumption DEF Shape
<1>2. /\ Outcome(Bare(g)) = Outcome(g)
      /\ \A c \in BOOLEAN : Settings(Bare(g), c) = Settings(g, c)
  BY <1>1, ShadowedUnread
<1>3. Outcome(g) = IF stage[i] = "failed" THEN "serving" ELSE stage[i]
  BY <1>0 DEF Started
<1>4. stage[i] = "serving" => \E c \in BOOLEAN : conf[i] = Settings(g, c)
  BY <1>0 DEF Started
<1> QED BY <1>0, <1>2, <1>3, <1>4

-----------------------------------------------------------------------------
(* What the hops make of the request.                                       *)

\* What is known of a request that a client sends.
LEMMA AskedIs ==
    ASSUME NEW r, Asked(r)
    PROVE  /\ r.peer \in Address /\ r.scheme # "" /\ r.host # ""
           /\ {"Connection"} \union Forwarded \subseteq DOMAIN r.header
           /\ FlattenSeq(r.header["X-Forwarded-For"]) \in Seq(Address)
           /\ \A h \in Answers : DOMAIN h = DOMAIN r.header
           /\ \E p : Absolute(p) /\ r.url = ParsePath(p)
<1>1. PICK q \in Requests, c \in Clients, s \in {"http", "https"} :
         r = [peer |-> c, scheme |-> s, host |-> "echo",
              url |-> ParsePath(q.path), header |-> q.header]
  BY DEF Asked
<1>2. r.peer = c /\ r.scheme = s /\ r.host = "echo" /\ r.url = ParsePath(q.path)
      /\ r.header = q.header
  BY <1>1
<1>3. r.peer \in Address
  BY <1>2, DeploymentAssumption
<1>4. r.scheme # "" /\ r.host # ""
  BY <1>2
<1>5. /\ {"Connection"} \union Forwarded \subseteq DOMAIN q.header
      /\ q.header["X-Forwarded-For"] \in Seq(Seq(Address))
      /\ \A h \in Answers : DOMAIN h = DOMAIN q.header
  BY HeadersAssumption
<1>6. Absolute(q.path)
  BY HeadersAssumption DEF Absolute
<1>7. FlattenSeq(q.header["X-Forwarded-For"]) \in Seq(Address)
  BY <1>5, ChainTyped
<1> QED BY <1>2, <1>3, <1>4, <1>5, <1>6, <1>7

\* h is what a hop after the first may see of request r, but for the chain.
Carries(h, r) ==
    /\ DOMAIN h = DOMAIN r.header
    /\ h["X-Forwarded-Proto"] =
          IfAbsent(relayHeader(r.header)["X-Forwarded-Proto"], r.scheme)
    /\ h["X-Forwarded-Host"] =
          IfAbsent(relayHeader(r.header)["X-Forwarded-Host"], r.host)
    /\ \A n \in DOMAIN r.header \ Forwarded : h[n] = relayHeader(r.header)[n]

\* What the first hop sends (forward.go:97-112, 141-156).
LEMMA FirstCarries ==
    ASSUME NEW r, Asked(r)
    PROVE  Carries(SentHeader(r), r)
<1>1. {"Connection"} \union Forwarded \subseteq DOMAIN r.header
  BY AskedIs
<1> QED BY <1>1, SentHeaderIs DEF Carries

\* What every later hop sends.
LEMMA NextCarries ==
    ASSUME NEW r, Asked(r), NEW q, Carries(q.header, r)
    PROVE  Carries(SentHeader(q), r)
<1>1. {"Connection"} \union Forwarded \subseteq DOMAIN r.header /\ r.scheme # "" /\ r.host # ""
  BY AskedIs
<1>2. PICK h : h = q.header
  OBVIOUS
<1>3. DOMAIN h = DOMAIN r.header /\ \A n \in DOMAIN r.header \ Forwarded : h[n] = relayHeader(r.header)[n]
  BY <1>2 DEF Carries
<1>4. /\ "Connection" \in DOMAIN r.header \ Forwarded /\ "Connection" \in hopByHopHeaders
      /\ Forwarded \subseteq DOMAIN h /\ "Connection" \in DOMAIN h
      /\ \A n \in Forwarded : n \notin hopByHopHeaders
  BY <1>1, <1>3 DEF Forwarded, hopByHopHeaders
<1>5. PICK o : o = relayHeader(r.header)
  OBVIOUS
<1>6. /\ o["Connection"] = << >>
      /\ \A n \in DOMAIN r.header : n \in hopByHopHeaders => o[n] = << >>
  BY <1>4, <1>5 DEF relayHeader
<1>7. h["Connection"] = << >>
  BY <1>3, <1>4, <1>5, <1>6
<1>8. relayHeader(h) = [n \in DOMAIN h |-> IF n \in hopByHopHeaders THEN << >> ELSE h[n]]
  BY <1>4, <1>7, RelayedUnnamed
<1>9. \A n \in DOMAIN r.header \ Forwarded : relayHeader(h)[n] = o[n]
  BY <1>3, <1>5, <1>6, <1>8
<1>10. \A n \in Forwarded : relayHeader(h)[n] = h[n]
  BY <1>4, <1>8
<1>11. /\ DOMAIN SentHeader(q) = DOMAIN h
       /\ SentHeader(q)["X-Forwarded-Proto"] =
             IfAbsent(relayHeader(h)["X-Forwarded-Proto"], q.scheme)
       /\ SentHeader(q)["X-Forwarded-Host"] =
             IfAbsent(relayHeader(h)["X-Forwarded-Host"], q.host)
       /\ \A n \in DOMAIN h \ Forwarded : SentHeader(q)[n] = relayHeader(h)[n]
  BY <1>1, <1>2, <1>3, SentHeaderIs
<1>12. SentHeader(q)["X-Forwarded-Proto"] = h["X-Forwarded-Proto"]
  <2>1. relayHeader(h)["X-Forwarded-Proto"] = h["X-Forwarded-Proto"]
    BY <1>10 DEF Forwarded
  <2>2. h["X-Forwarded-Proto"] = IfAbsent(o["X-Forwarded-Proto"], r.scheme)
    BY <1>2, <1>5 DEF Carries
  <2>3. IfAbsent(h["X-Forwarded-Proto"], q.scheme) = h["X-Forwarded-Proto"]
    <3>1. IfAbsent(IfAbsent(o["X-Forwarded-Proto"], r.scheme), q.scheme)
             = IfAbsent(o["X-Forwarded-Proto"], r.scheme)
      BY <1>1, SetOnce, Zenon
    <3> QED BY <2>2, <3>1
  <2> QED BY <1>11, <2>1, <2>3
<1>13. SentHeader(q)["X-Forwarded-Host"] = h["X-Forwarded-Host"]
  <2>1. relayHeader(h)["X-Forwarded-Host"] = h["X-Forwarded-Host"]
    BY <1>10 DEF Forwarded
  <2>2. h["X-Forwarded-Host"] = IfAbsent(o["X-Forwarded-Host"], r.host)
    BY <1>2, <1>5 DEF Carries
  <2>3. IfAbsent(h["X-Forwarded-Host"], q.host) = h["X-Forwarded-Host"]
    <3>1. IfAbsent(IfAbsent(o["X-Forwarded-Host"], r.host), q.host)
             = IfAbsent(o["X-Forwarded-Host"], r.host)
      BY <1>1, SetOnce, Zenon
    <3> QED BY <2>2, <3>1
  <2> QED BY <1>11, <2>1, <2>3
<1>14. \A n \in DOMAIN r.header \ Forwarded : SentHeader(q)[n] = o[n]
  BY <1>3, <1>9, <1>11
<1>15. DOMAIN SentHeader(q) = DOMAIN r.header
  BY <1>3, <1>11
<1>16. /\ h["X-Forwarded-Proto"] = IfAbsent(o["X-Forwarded-Proto"], r.scheme)
       /\ h["X-Forwarded-Host"] = IfAbsent(o["X-Forwarded-Host"], r.host)
  BY <1>2, <1>5 DEF Carries
<1> QED BY <1>5, <1>12, <1>13, <1>14, <1>15, <1>16 DEF Carries

Peers == \A i \in 1..Upstream : Seen(i) => seen[i].peer \in Address

Headers == \A i \in 1..Upstream : Seen(i) /\ i # 1 => Carries(seen[i].header, sent)

Hosts == \A i \in 1..Upstream :
            Seen(i) /\ (\A k \in 1..(i - 1) : conf[k].preserveHost) => seen[i].host = sent.host

\* A request is seen for the first time, or was seen before: the frame in which
\* the parts of the invariant are shown to be kept.
LEMMA SeenCases ==
    ASSUME Shape, Started, Way, [Next]_vars, NEW j \in 1..Upstream, Seen(j)'
    PROVE  \/ /\ Seen(j) /\ seen'[j] = seen[j] /\ sent' = sent /\ Asked(sent)
              /\ \A k \in 1..(j - 1) : /\ k \in Hops /\ Seen(k) /\ conf'[k] = conf[k]
                                       /\ seen'[k] = seen[k]
           \/ j = 1 /\ seen'[1] = sent' /\ Asked(sent')
           \/ \E i \in Hops :
                 /\ j = i + 1 /\ Seen(i) /\ ~Local(i) /\ sent' = sent /\ Asked(sent)
                 /\ seen'[j] = Relayed(i) /\ stage[i] = "serving"
                 /\ i = 1 => seen[1] = sent
                 /\ \A k \in 1..i : /\ k \in Hops /\ Seen(k) /\ conf'[k] = conf[k]
                                    /\ seen'[k] = seen[k]
<1>1. ASSUME NEW i \in 1..Upstream, Seen(i)
      PROVE  /\ sent' = sent /\ Asked(sent) /\ Seen(1)
             /\ i = 1 => seen[1] = sent
             /\ \A k \in 1..i : k \in Hops => /\ Seen(k) /\ conf'[k] = conf[k]
                                              /\ seen'[k] = seen[k]
  <2>1. \A k \in 1..i : Seen(k) /\ k \in 1..Upstream
    BY <1>1, HopsNat DEF Way
  <2>2. 1 \in 1..i
    BY HopsNat
  <2> QED BY <2>1, <2>2, SeenFixed, HopsNat DEF Way
<1>2. CASE Seen(j)
  <2>1. seen'[j] = seen[j]
    BY <1>2, SeenFixed
  <2>2. \A k \in 1..(j - 1) : k \in 1..j /\ k \in Hops
    BY HopsNat DEF Hops
  <2> QED BY <1>1, <1>2, <2>1, <2>2
<1>3. CASE ~Seen(j)
  <2>1. ASSUME NEW i \in Hops, Seen(i)
        PROVE  /\ sent' = sent /\ Asked(sent) /\ stage[i] = "serving"
               /\ i = 1 => seen[1] = sent
               /\ \A k \in 1..i : /\ k \in Hops /\ Seen(k) /\ conf'[k] = conf[k]
                                  /\ seen'[k] = seen[k]
    <3>1. i \in 1..Upstream /\ \A k \in 1..i : k \in Hops
      BY HopsNat DEF Hops
    <3> QED BY <1>1, <2>1, <3>1 DEF Way
  <2> QED BY <1>3, <2>1, NewlySeen
<1> QED BY <1>2, <1>3

\* Peers are the client and the hops.
LEMMA PeersStep == Shape /\ Started /\ Way /\ Peers /\ [Next]_vars => Peers'
<1> SUFFICES ASSUME Shape, Started, Way, Peers, [Next]_vars,
                    NEW j \in 1..Upstream, Seen(j)'
             PROVE  seen'[j].peer \in Address
  BY DEF Peers
<1>1. CASE Seen(j) /\ seen'[j] = seen[j]
  BY <1>1 DEF Peers
<1>2. CASE j = 1 /\ seen'[1] = sent' /\ Asked(sent')
  BY <1>2, AskedIs
<1>3. ASSUME NEW i \in Hops, seen'[j] = Relayed(i) PROVE seen'[j].peer \in Address
  BY <1>3, DeploymentAssumption DEF Relayed
<1> QED BY <1>1, <1>2, <1>3, SeenCases

\* One more hop, one more time what the first one made of the headers.
LEMMA HeadersStep == Shape /\ Started /\ Way /\ Headers /\ [Next]_vars => Headers'
<1> SUFFICES ASSUME Shape, Started, Way, Headers, [Next]_vars,
                    NEW j \in 1..Upstream, Seen(j)', j # 1
             PROVE  Carries(seen'[j].header, sent')
  BY DEF Headers
<1>1. CASE Seen(j) /\ seen'[j] = seen[j] /\ sent' = sent
  BY <1>1 DEF Headers
<1>2. ASSUME NEW i \in Hops, Seen(i), Asked(sent), sent' = sent, seen'[j] = Relayed(i),
             i = 1 => seen[1] = sent
      PROVE  Carries(seen'[j].header, sent')
  <2>1. seen'[j].header = SentHeader(seen[i])
    BY <1>2 DEF Relayed
  <2>2. CASE i = 1
    BY <1>2, <2>1, <2>2, FirstCarries
  <2>3. CASE i # 1
    <3>1. Carries(seen[i].header, sent)
      BY <1>2, <2>3, HopsNat DEF Headers
    <3> QED BY <1>2, <2>1, <3>1, NextCarries
  <2> QED BY <2>2, <2>3
<1> QED BY <1>1, <1>2, SeenCases

\* A hop that preserves the Host passes the one it got (forward.go:98-100).
LEMMA HostsStep == Shape /\ Started /\ Way /\ Hosts /\ [Next]_vars => Hosts'
<1> SUFFICES ASSUME Shape, Started, Way, Hosts, [Next]_vars,
                    NEW j \in 1..Upstream, Seen(j)',
                    \A k \in 1..(j - 1) : conf'[k].preserveHost
             PROVE  seen'[j].host = sent'.host
  BY DEF Hosts
<1>1. CASE /\ Seen(j) /\ seen'[j] = seen[j] /\ sent' = sent
           /\ \A k \in 1..(j - 1) : conf'[k] = conf[k]
  BY <1>1 DEF Hosts
<1>2. CASE j = 1 /\ seen'[1] = sent'
  BY <1>2
<1>3. ASSUME NEW i \in Hops, j = i + 1, Seen(i), sent' = sent, seen'[j] = Relayed(i),
             \A k \in 1..i : conf'[k] = conf[k]
      PROVE  seen'[j].host = sent'.host
  <2>1. /\ i \in 1..(j - 1) /\ i \in 1..i /\ i \in 1..Upstream
        /\ \A k \in 1..(i - 1) : k \in 1..(j - 1) /\ k \in 1..i
    BY <1>3, HopsNat
  <2>2. conf[i].preserveHost /\ \A k \in 1..(i - 1) : conf[k].preserveHost
    BY <1>3, <2>1
  <2>3. seen[i].host = sent.host
    BY <1>3, <2>1, <2>2 DEF Hosts
  <2>4. seen'[j].host = seen[i].host
    BY <1>3, <2>2 DEF Relayed
  <2> QED BY <1>3, <2>3, <2>4
<1> QED BY <1>1, <1>2, <1>3, SeenCases

\* Every hop gets the headers that Do looks at.
LEMMA SeenNames ==
    ASSUME Way, Headers, NEW i \in 1..Upstream, Seen(i)
    PROVE  {"Connection"} \union Forwarded \subseteq DOMAIN seen[i].header
<1>1. Seen(1)
  BY HopsNat DEF Way
<1>2. Asked(sent) /\ seen[1] = sent
  BY <1>1 DEF Way
<1>3. {"Connection"} \union Forwarded \subseteq DOMAIN sent.header
  BY <1>2, AskedIs
<1>4. i # 1 => DOMAIN seen[i].header = DOMAIN sent.header
  BY DEF Headers, Carries
<1> QED BY <1>2, <1>3, <1>4

\* Every hop adds its peer to the chain (forward.go:101-106).
LEMMA ChainStep ==
    Shape /\ Started /\ Way /\ Peers /\ Headers /\ ChainPreserved /\ [Next]_vars
        => ChainPreserved'
<1> SUFFICES ASSUME Shape, Started, Way, Peers, Headers, ChainPreserved, [Next]_vars,
                    NEW j \in 1..Upstream, Seen(j)'
             PROVE  FlattenSeq(seen'[j].header["X-Forwarded-For"]) =
                       FlattenSeq(sent'.header["X-Forwarded-For"])
                           \o [k \in 1..(j - 1) |-> seen'[k].peer]
  BY DEF ChainPreserved
<1>1. CASE /\ Seen(j) /\ seen'[j] = seen[j] /\ sent' = sent
           /\ \A k \in 1..(j - 1) : seen'[k] = seen[k]
  <2>1. [k \in 1..(j - 1) |-> seen'[k].peer] = [k \in 1..(j - 1) |-> seen[k].peer]
    BY <1>1
  <2>2. FlattenSeq(seen[j].header["X-Forwarded-For"]) =
           FlattenSeq(sent.header["X-Forwarded-For"]) \o [k \in 1..(j - 1) |-> seen[k].peer]
    BY <1>1 DEF ChainPreserved
  <2> QED BY <1>1, <2>1, <2>2
<1>2. CASE j = 1 /\ seen'[1] = sent' /\ Asked(sent')
  <2>1. PICK S : S = FlattenSeq(sent'.header["X-Forwarded-For"])
    OBVIOUS
  <2>2. S \in Seq(Address)
    BY <1>2, <2>1, AskedIs
  <2>3. PICK e : e = [k \in 1..(j - 1) |-> seen'[k].peer]
    OBVIOUS
  <2>4. e = << >>
    BY <1>2, <2>3
  <2>5. S \o << >> = S
    BY <2>2
  <2> QED BY <1>2, <2>1, <2>3, <2>4, <2>5
<1>3. ASSUME NEW i \in Hops, j = i + 1, Seen(i), sent' = sent, Asked(sent),
             seen'[j] = Relayed(i),
             \A k \in 1..i : k \in Hops /\ Seen(k) /\ seen'[k] = seen[k]
      PROVE  FlattenSeq(seen'[j].header["X-Forwarded-For"]) =
                FlattenSeq(sent'.header["X-Forwarded-For"])
                    \o [k \in 1..(j - 1) |-> seen'[k].peer]
  <2>1. PICK S : S = FlattenSeq(sent.header["X-Forwarded-For"])
    OBVIOUS
  <2>2. S \in Seq(Address)
    BY <1>3, <2>1, AskedIs
  <2>3. i \in 1..Upstream /\ i \in Nat \ {0} /\ j - 1 = i
    BY <1>3, HopsNat
  <2>4. PICK peers : peers = [k \in 1..i |-> seen[k].peer]
    OBVIOUS
  <2>5. peers \in [1..i -> Address]
    <3>1. \A k \in 1..i : seen[k].peer \in Address
      BY <1>3, HopsNat DEF Peers
    <3> QED BY <2>4, <3>1
  <2>6. [k \in 1..(i - 1) |-> seen[k].peer] = [k \in 1..(i - 1) |-> peers[k]]
    <3>1. \A k \in 1..(i - 1) : k \in 1..i
      BY <2>3
    <3> QED BY <2>4, <3>1
  <2>7. [k \in 1..(j - 1) |-> seen'[k].peer] = [k \in 1..i |-> peers[k]]
    BY <1>3, <2>3, <2>4
  <2>8. FlattenSeq(seen[i].header["X-Forwarded-For"]) = S \o [k \in 1..(i - 1) |-> peers[k]]
    BY <1>3, <2>1, <2>3, <2>6 DEF ChainPreserved
  <2>9. seen'[j].header["X-Forwarded-For"] =
           <<Append(FlattenSeq(seen[i].header["X-Forwarded-For"]), seen[i].peer)>>
    <3>1. seen'[j].header = SentHeader(seen[i])
      BY <1>3 DEF Relayed
    <3>2. {"Connection"} \union Forwarded \subseteq DOMAIN seen[i].header
      BY <1>3, <2>3, SeenNames
    <3> QED BY <3>1, <3>2, SentHeaderIs
  <2>10. seen[i].peer = peers[i]
    BY <2>3, <2>4
  <2>11. FlattenSeq(seen'[j].header["X-Forwarded-For"]) =
            Append(S \o [k \in 1..(i - 1) |-> peers[k]], peers[i])
    BY <2>8, <2>9, <2>10, OneLine
  <2>12. Append(S \o [k \in 1..(i - 1) |-> peers[k]], peers[i])
            = S \o [k \in 1..i |-> peers[k]]
    BY <2>2, <2>3, <2>5, ChainExtends
  <2> QED BY <1>3, <2>1, <2>7, <2>11, <2>12
<1> QED BY <1>1, <1>2, <1>3, SeenCases

\* No hop before i has a base path that ends in an escaped slash.
Clean(i) == \A k \in 1..(i - 1) : ~IsSuffix(<<"%2F">>, conf[k].target.url.raw)

\* The URL of a request below p, as a hop sees it.
Below(url, p) ==
    /\ url = ParsePath(EscapedPath(url)) /\ Absolute(EscapedPath(url))
    /\ Ends(Tail(p), EscapedPath(url))

Paths == \A i \in 1..Upstream : Seen(i) /\ Clean(i) =>
            /\ Below(seen[i].url, EscapedPath(sent.url))
            /\ i # 1 => IsPrefix(TrimSuffix(EscapedPath(conf[i - 1].target.url)),
                                 EscapedPath(seen[i].url))

\* The target of a hop that relays is one of the URLs that Validate lets pass.
LEMMA TargetIs ==
    ASSUME Started, NEW i \in Hops, stage[i] = "serving", ~Local(i)
    PROVE  \E b : /\ b = << >> \/ Absolute(b)
                  /\ conf[i].target.url = ParsePath(b)
<1>1. Outcome(given[i]) = "serving" /\ \E c \in BOOLEAN : conf[i] = Settings(given[i], c)
  BY DEF Started
<1>2. conf[i].target # NoTarget
  BY DEF Local
<1>3. PICK t \in DOMAIN URLTexts : parseHTTPURL(t) /\ conf[i].target = URLTexts[t]
  BY <1>1, <1>2, ServingSettings
<1>4. PICK p : p = EscapedPath(URLTexts[t].url)
  OBVIOUS
<1>5. p \in Seq(Token) /\ (p = << >> \/ Head(p) = "/") /\ URLTexts[t].url = ParsePath(p)
  BY <1>3, <1>4, TargetsAssumption
<1> QED BY <1>3, <1>5 DEF Absolute

\* A base path that ends in an escaped slash keeps it in RawPath.
LEMMA EscapedSlashRaw ==
    ASSUME NEW b, Absolute(b), ~IsSuffix(<<"%2F">>, ParsePath(b).raw)
    PROVE  Last(b) # "%2F"
<1> SUFFICES ASSUME Last(b) = "%2F" PROVE FALSE
  OBVIOUS
<1>1. b \in Seq(Token) /\ Len(b) \in Nat /\ Len(b) > 0 /\ b[1] = "/"
  BY DEF Absolute
<1>2. Len(b) \in 1..Len(b) /\ b[Len(b)] = "%2F" /\ Len(b) # 1
  BY <1>1 DEF Last
<1>3. Unescape(b) # b
  BY <1>1, <1>2, UnescapeIs
<1>4. ParsePath(b).raw = b
  BY <1>3 DEF ParsePath
<1>5. PICK s : s = <<"%2F">> /\ s \in Seq(Token) /\ Len(s) = 1 /\ s[1] = "%2F"
  <2>1. PICK z : z = "%2F" /\ z \in Token
    BY DEF Token
  <2>2. <<z>> \in Seq(Token) /\ Len(<<z>>) = 1 /\ <<z>>[1] = z
    BY <2>1
  <2> QED BY <2>1, <2>2
<1>6. Ends(s, b)
  <2>1. Len(s) < Len(b)
    BY <1>1, <1>2, <1>5
  <2>2. ASSUME NEW i \in 1..Len(s) PROVE b[(Len(b) - Len(s)) + i] = s[i]
    <3>1. i = 1 /\ (Len(b) - Len(s)) + i = Len(b)
      BY <1>1, <1>5
    <3> QED BY <1>2, <1>5, <3>1
  <2> QED BY <2>1, <2>2 DEF Ends
<1>7. IsSuffix(s, b)
  BY <1>1, <1>5, <1>6, EndsIsSuffix
<1> QED BY <1>4, <1>5, <1>7

\* One hop (forward.go:86-95, 158-178).
LEMMA BelowNext ==
    ASSUME NEW b, b = << >> \/ Absolute(b), ~IsSuffix(<<"%2F">>, ParsePath(b).raw),
           NEW p, Absolute(p), NEW url, Below(url, p)
    PROVE  /\ Below(SentURL(ParsePath(b), url), p)
           /\ IsPrefix(TrimSuffix(EscapedPath(ParsePath(b))),
                       EscapedPath(SentURL(ParsePath(b), url)))
<1>1. PICK q : q = EscapedPath(url)
  OBVIOUS
<1>2. url = ParsePath(q) /\ Absolute(q) /\ Ends(Tail(p), q)
  BY <1>1 DEF Below
<1>3. b # << >> => Last(b) # "%2F"
  BY EscapedSlashRaw
<1>4. PICK j : j = joinPath(b, q)
  OBVIOUS
<1>5. SentURL(ParsePath(b), url) = ParsePath(j)
  BY <1>2, <1>3, <1>4, SentURLIs
<1>6. Tail(p) \in Seq(Token)
  BY DEF Absolute
<1>7. Absolute(j) /\ Ends(Tail(p), j) /\ IsPrefix(TrimSuffix(b), j)
  BY <1>2, <1>4, <1>6, JoinPathKeeps
<1>8. j \in Seq(Token) /\ b \in Seq(Token)
  BY <1>7, SlashIsPath DEF Absolute
<1>9. EscapedPath(ParsePath(j)) = j /\ EscapedPath(ParsePath(b)) = b
  BY <1>8, ParsedPrints
<1> QED BY <1>5, <1>7, <1>9 DEF Below

\* What a client asks for is below itself.
LEMMA AskedBelow ==
    ASSUME NEW r, Asked(r)
    PROVE  Absolute(EscapedPath(r.url)) /\ Below(r.url, EscapedPath(r.url))
<1>1. PICK p : Absolute(p) /\ r.url = ParsePath(p)
  BY AskedIs
<1>2. p \in Seq(Token) /\ p # << >> /\ Len(p) \in Nat /\ Len(p) > 0
  BY <1>1 DEF Absolute
<1>3. EscapedPath(r.url) = p
  BY <1>1, <1>2, ParsedPrints
<1>4. PICK t : t = Tail(p)
  OBVIOUS
<1>5. t \in Seq(Token) /\ Len(t) = Len(p) - 1 /\ \A i \in 1..Len(t) : t[i] = p[i + 1]
  BY <1>2, <1>4
<1>6. Ends(t, p)
  <2>1. Len(t) < Len(p)
    BY <1>2, <1>5
  <2>2. ASSUME NEW i \in 1..Len(t) PROVE p[(Len(p) - Len(t)) + i] = t[i]
    <3>1. (Len(p) - Len(t)) + i = i + 1
      BY <1>2, <1>5
    <3> QED BY <1>5, <3>1
  <2> QED BY <2>1, <2>2 DEF Ends
<1> QED BY <1>1, <1>3, <1>4, <1>6 DEF Below

\* Every hop puts its base before the path it got.
LEMMA PathsStep == Shape /\ Started /\ Way /\ Paths /\ [Next]_vars => Paths'
<1> SUFFICES ASSUME Shape, Started, Way, Paths, [Next]_vars,
                    NEW j \in 1..Upstream, Seen(j)', Clean(j)'
             PROVE  /\ Below(seen'[j].url, EscapedPath(sent'.url))
                    /\ j # 1 => IsPrefix(TrimSuffix(EscapedPath(conf'[j - 1].target.url)),
                                         EscapedPath(seen'[j].url))
  BY DEF Paths
<1>1. CASE /\ Seen(j) /\ seen'[j] = seen[j] /\ sent' = sent
           /\ \A k \in 1..(j - 1) : conf'[k] = conf[k]
  <2>1. Clean(j)
    BY <1>1 DEF Clean
  <2>2. j # 1 => conf'[j - 1] = conf[j - 1]
    <3>1. j # 1 => j - 1 \in 1..(j - 1)
      BY HopsNat
    <3> QED BY <1>1, <3>1
  <2> QED BY <1>1, <2>1, <2>2 DEF Paths
<1>2. CASE j = 1 /\ seen'[1] = sent' /\ Asked(sent')
  BY <1>2, AskedBelow
<1>3. ASSUME NEW i \in Hops, j = i + 1, Seen(i), ~Local(i), sent' = sent, Asked(sent),
             seen'[j] = Relayed(i), stage[i] = "serving",
             \A k \in 1..i : conf'[k] = conf[k]
      PROVE  /\ Below(seen'[j].url, EscapedPath(sent'.url))
             /\ j # 1 => IsPrefix(TrimSuffix(EscapedPath(conf'[j - 1].target.url)),
                                  EscapedPath(seen'[j].url))
  <2>1. /\ i \in 1..Upstream /\ j - 1 = i /\ i \in 1..i
        /\ \A k \in 1..(i - 1) : k \in 1..i
    BY <1>3, HopsNat
  <2>2. Clean(i) /\ ~IsSuffix(<<"%2F">>, conf[i].target.url.raw)
    BY <1>3, <2>1 DEF Clean
  <2>3. PICK b : /\ b = << >> \/ Absolute(b)
                 /\ conf[i].target.url = ParsePath(b)
    BY <1>3, TargetIs
  <2>4. Below(seen[i].url, EscapedPath(sent.url))
    BY <1>3, <2>1, <2>2 DEF Paths
  <2>5. Absolute(EscapedPath(sent.url))
    BY <1>3, AskedBelow
  <2>6. PICK v : v = seen'[j].url
    OBVIOUS
  <2>7. v = SentURL(ParsePath(b), seen[i].url)
    BY <1>3, <2>3, <2>6 DEF Relayed
  <2>8. Below(v, EscapedPath(sent.url)) /\ IsPrefix(TrimSuffix(EscapedPath(ParsePath(b))), EscapedPath(v))
    BY <2>2, <2>3, <2>4, <2>5, <2>7, BelowNext
  <2> QED BY <1>3, <2>1, <2>3, <2>6, <2>8
<1> QED BY <1>1, <1>2, <1>3, SeenCases

-----------------------------------------------------------------------------
(* Answers.                                                                 *)

\* Where the answer of hop i comes from: from a hop that has answered, with the
\* client's address as that hop resolved it unless the path was reserved there;
\* one of the operator's upstream has been through relayHeader.
Account(i) ==
    /\ DOMAIN answer[i] = {"code", "by", "header", "echo"}
    /\ answer[i].by \in i..Upstream /\ leg[answer[i].by] = "answered"
    /\ DOMAIN answer[i].header = DOMAIN sent.header
    /\ answer[i].echo # NoEcho =>
          LET at == answer[i].by
          IN  /\ at \in Hops /\ ~Reserved(at)
              /\ answer[i].echo = Resolve(conf[at].extra, seen[at].peer,
                                          seen[at].header["X-Forwarded-For"])
    /\ answer[i].by = Upstream /\ i \in Hops =>
          answer[i].header = relayHeader(answer[Upstream].header)

Answered == \A i \in 1..Upstream : leg[i] = "answered" => Account(i)

\* An answer is given once.
LEMMA AnsweredFixed ==
    ASSUME Shape, Started, Way, [Next]_vars, NEW j \in 1..Upstream, leg[j] = "answered"
    PROVE  leg'[j] = "answered" /\ answer'[j] = answer[j]
<1>1. CASE Arrive
  <2>1. /\ leg[1] = "none" /\ answer' = answer
        /\ \A i \in 1..Upstream : i # 1 => leg'[i] = leg[i]
    BY <1>1 DEF Arrive, Shape
  <2> QED BY <2>1
<1>2. ASSUME NEW i \in Hops, Forward(i) PROVE leg'[j] = "answered" /\ answer'[j] = answer[j]
  <2>1. /\ leg[i] = "received" /\ answer' = answer
        /\ \A k \in 1..Upstream : k # i /\ k # i + 1 => leg'[k] = leg[k]
    BY <1>2, HopsNat DEF Forward, Shape
  <2>2. ~Seen(i + 1)
    BY <2>1 DEF Way
  <2> QED BY <2>1, <2>2 DEF Seen
<1>3. ASSUME NEW i \in 1..Upstream, NEW a, leg[i] # "answered", Respond(i, a)
      PROVE  leg'[j] = "answered" /\ answer'[j] = answer[j]
  BY <1>3, RespondShape
<1>4. \/ UNCHANGED <<leg, answer>>
      \/ Arrive
      \/ \E i \in Hops : Forward(i)
      \/ \E i \in 1..Upstream : \E a : leg[i] # "answered" /\ Respond(i, a)
  BY Steps DEF Start, StartFails, vars
<1> QED BY <1>1, <1>2, <1>3, <1>4

\* A hop echoes or serves, fails with 502, relays back, or is the upstream.
LEMMA NewlyAnswered ==
    ASSUME Shape, [Next]_vars, NEW j \in 1..Upstream, leg'[j] = "answered",
           leg[j] # "answered"
    PROVE  /\ Seen(j) /\ UNCHANGED <<conf, sent, seen>>
           /\ \/ /\ j \in Hops
                 /\ \/ answer'[j] = [code |-> 200, by |-> j, header |-> NoLines,
                                     echo |-> IF Reserved(j) THEN NoEcho
                                              ELSE Resolve(conf[j].extra, seen[j].peer,
                                                           seen[j].header["X-Forwarded-For"])]
                    \/ answer'[j] = BadGateway(j)
                    \/ /\ leg[j + 1] = "answered"
                       /\ answer'[j] = [answer[j + 1] EXCEPT !.header = relayHeader(@)]
              \/ /\ j = Upstream
                 /\ \E h \in Answers :
                       answer'[j] = [code |-> 404, by |-> Upstream, header |-> h,
                                     echo |-> NoEcho]
<1>1. ASSUME NEW i \in 1..Upstream, NEW a, leg[i] # "none", Respond(i, a)
      PROVE  j = i /\ Seen(j) /\ UNCHANGED <<conf, sent, seen>> /\ answer'[j] = a
  BY <1>1, RespondShape DEF Seen
<1>2. CASE Arrive
  <2>1. leg'[1] = "received" /\ \A i \in 1..Upstream : i # 1 => leg'[i] = leg[i]
    BY <1>2, HopsNat DEF Arrive, Shape
  <2> QED BY <2>1
<1>3. ASSUME NEW i \in Hops, Forward(i) PROVE FALSE
  <2>1. /\ leg'[i] = "relayed" /\ leg'[i + 1] = "received"
        /\ \A k \in 1..Upstream : k # i /\ k # i + 1 => leg'[k] = leg[k]
    BY <1>3, HopsNat DEF Forward, Shape
  <2> QED BY <2>1
<1>4. ASSUME NEW i \in Hops, ServeLocal(i)
      PROVE  /\ leg[i] # "none"
             /\ Respond(i, [code |-> 200, by |-> i, header |-> NoLines,
                            echo |-> IF Reserved(i) THEN NoEcho
                                     ELSE Resolve(conf[i].extra, seen[i].peer,
                                                  seen[i].header["X-Forwarded-For"])])
  BY <1>4 DEF ServeLocal
<1>5. ASSUME NEW i \in Hops, Unreachable(i) \/ GiveUp(i)
      PROVE  leg[i] # "none" /\ Respond(i, BadGateway(i))
  BY <1>5 DEF Unreachable, GiveUp
<1>6. ASSUME NEW i \in Hops, RelayBack(i)
      PROVE  /\ leg[i] # "none" /\ leg[i + 1] = "answered"
             /\ Respond(i, [answer[i + 1] EXCEPT !.header = relayHeader(@)])
  BY <1>6 DEF RelayBack
<1>7. CASE UpstreamAnswers
  <2>1. PICK h \in Answers :
           /\ leg[Upstream] # "none"
           /\ Respond(Upstream, [code |-> 404, by |-> Upstream, header |-> h,
                                 echo |-> NoEcho])
    BY <1>7 DEF UpstreamAnswers
  <2>2. PICK a : a = [code |-> 404, by |-> Upstream, header |-> h, echo |-> NoEcho]
    OBVIOUS
  <2>3. leg[Upstream] # "none" /\ Respond(Upstream, a)
    BY <2>1, <2>2
  <2>4. j = Upstream /\ Seen(j) /\ UNCHANGED <<conf, sent, seen>> /\ answer'[j] = a
    BY <1>1, <2>3, HopsNat
  <2> QED BY <2>2, <2>4
<1>8. \/ UNCHANGED leg
      \/ Arrive \/ UpstreamAnswers
      \/ \E i \in Hops : \/ Forward(i) \/ ServeLocal(i) \/ Unreachable(i) \/ GiveUp(i)
                         \/ RelayBack(i)
  BY DEF Next, HandlerStep, Start, StartFails, vars
<1>9. ASSUME NEW i \in Hops, ServeLocal(i)
      PROVE  /\ j = i /\ Seen(j) /\ UNCHANGED <<conf, sent, seen>>
             /\ answer'[j] = [code |-> 200, by |-> j, header |-> NoLines,
                              echo |-> IF Reserved(j) THEN NoEcho
                                       ELSE Resolve(conf[j].extra, seen[j].peer,
                                                    seen[j].header["X-Forwarded-For"])]
  <2>1. PICK a : a = [code |-> 200, by |-> i, header |-> NoLines,
                      echo |-> IF Reserved(i) THEN NoEcho
                               ELSE Resolve(conf[i].extra, seen[i].peer,
                                            seen[i].header["X-Forwarded-For"])]
    OBVIOUS
  <2>2. leg[i] # "none" /\ Respond(i, a) /\ i \in 1..Upstream
    BY <1>4, <1>9, <2>1, HopsNat
  <2>3. j = i /\ Seen(j) /\ UNCHANGED <<conf, sent, seen>> /\ answer'[j] = a
    BY <1>1, <2>2
  <2> QED BY <2>1, <2>3
<1>10. ASSUME NEW i \in Hops, Unreachable(i) \/ GiveUp(i)
       PROVE  /\ j = i /\ Seen(j) /\ UNCHANGED <<conf, sent, seen>>
              /\ answer'[j] = BadGateway(j)
  <2>1. leg[i] # "none" /\ Respond(i, BadGateway(i)) /\ i \in 1..Upstream
    BY <1>5, <1>10, HopsNat
  <2>2. j = i /\ Seen(j) /\ UNCHANGED <<conf, sent, seen>> /\ answer'[j] = BadGateway(i)
    BY <1>1, <2>1
  <2> QED BY <2>2
<1>11. ASSUME NEW i \in Hops, RelayBack(i)
       PROVE  /\ j = i /\ Seen(j) /\ UNCHANGED <<conf, sent, seen>>
              /\ leg[j + 1] = "answered"
              /\ answer'[j] = [answer[j + 1] EXCEPT !.header = relayHeader(@)]
  <2>1. PICK a : a = [answer[i + 1] EXCEPT !.header = relayHeader(@)]
    OBVIOUS
  <2>2. leg[i] # "none" /\ Respond(i, a) /\ i \in 1..Upstream /\ leg[i + 1] = "answered"
    BY <1>6, <1>11, <2>1, HopsNat
  <2>3. j = i /\ Seen(j) /\ UNCHANGED <<conf, sent, seen>> /\ answer'[j] = a
    BY <1>1, <2>2
  <2> QED BY <2>1, <2>2, <2>3
<1>12. leg' # leg
  OBVIOUS
<1> QED BY <1>2, <1>3, <1>7, <1>8, <1>9, <1>10, <1>11, <1>12

\* Accounts stay true: what they speak of is settled.
LEMMA AccountKept ==
    ASSUME Shape, Started, Way, [Next]_vars, NEW j \in 1..Upstream,
           leg[j] = "answered", Account(j)
    PROVE  Account(j)'
<1>1. PICK at : at = answer[j].by
  OBVIOUS
<1>2. at \in 1..Upstream /\ leg[at] = "answered"
  <2>1. at \in j..Upstream /\ leg[at] = "answered"
    BY <1>1 DEF Account
  <2> QED BY <2>1, HopsNat
<1>3. answer'[j] = answer[j] /\ leg'[at] = "answered" /\ answer'[at] = answer[at]
  BY <1>2, AnsweredFixed
<1>4. sent' = sent
  <2>1. Seen(j) /\ 1 \in 1..j
    BY HopsNat DEF Seen
  <2> QED BY <2>1, SeenFixed DEF Way
<1>5. seen'[at] = seen[at] /\ (at \in Hops => conf'[at] = conf[at])
  BY <1>2, SeenFixed DEF Seen
<1>6. at = Upstream => answer'[Upstream] = answer[Upstream]
  BY <1>3
<1>7. Upstream' = Upstream /\ Hops' = Hops /\ NoEcho' = NoEcho
  OBVIOUS
<1>8. /\ DOMAIN answer[j] = {"code", "by", "header", "echo"}
      /\ at \in j..Upstream /\ DOMAIN answer[j].header = DOMAIN sent.header
      /\ answer[j].echo # NoEcho => at \in Hops /\ ~Reserved(at) /\ answer[j].echo =
            Resolve(conf[at].extra, seen[at].peer, seen[at].header["X-Forwarded-For"])
      /\ at = Upstream /\ j \in Hops =>
            answer[j].header = relayHeader(answer[Upstream].header)
  BY <1>1 DEF Account
<1>9. answer'[j].echo # NoEcho => at \in Hops /\ ~Reserved(at)' /\ answer'[j].echo =
         Resolve(conf'[at].extra, seen'[at].peer, seen'[at].header["X-Forwarded-For"])
  <2>1. at \in Hops => (Reserved(at)' <=> Reserved(at))
    BY <1>5 DEF Reserved
  <2> QED BY <1>3, <1>5, <1>8, <2>1
<1>10. at = Upstream /\ j \in Hops =>
          answer'[j].header = relayHeader(answer'[Upstream].header)
  BY <1>3, <1>6, <1>8
<1>11. DOMAIN answer'[j].header = DOMAIN sent'.header
  BY <1>3, <1>4, <1>8
<1> QED BY <1>1, <1>3, <1>8, <1>9, <1>10, <1>11 DEF Account

\* The account of every answer holds when it is given, and stays true.
LEMMA AnsweredStep == Shape /\ Started /\ Way /\ Answered /\ [Next]_vars => Answered'
<1> SUFFICES ASSUME Shape, Started, Way, Answered, [Next]_vars,
                    NEW j \in 1..Upstream, leg'[j] = "answered"
             PROVE  Account(j)'
  BY DEF Answered
<1>1. CASE leg[j] = "answered"
  BY <1>1, AccountKept DEF Answered
<1>2. CASE leg[j] # "answered"
  <2>1. Seen(j) /\ conf' = conf /\ sent' = sent /\ seen' = seen
    BY <1>2, NewlyAnswered
  <2>2. Asked(sent)
    <3>1. 1 \in 1..j
      BY HopsNat
    <3> QED BY <2>1, <3>1 DEF Way
  <2>3. j \in j..Upstream
    BY HopsNat
  <2>4. DOMAIN NoLines = DOMAIN sent.header
    BY DEF NoLines
  <2>5. CASE j \in Hops /\ answer'[j] = BadGateway(j)
    <3>1. /\ DOMAIN answer'[j] = {"code", "by", "header", "echo"}
          /\ answer'[j].by = j /\ answer'[j].header = NoLines /\ answer'[j].echo = NoEcho
      BY <2>5 DEF BadGateway
    <3> QED BY <2>1, <2>3, <2>4, <2>5, <3>1, HopsNat DEF Account
  <2>6. ASSUME NEW e, j \in Hops,
               answer'[j] = [code |-> 200, by |-> j, header |-> NoLines, echo |-> e],
               e # NoEcho => ~Reserved(j) /\ e = Resolve(conf[j].extra, seen[j].peer,
                                                         seen[j].header["X-Forwarded-For"])
        PROVE  Account(j)'
    <3>1. /\ DOMAIN answer'[j] = {"code", "by", "header", "echo"}
          /\ answer'[j].by = j /\ answer'[j].header = NoLines /\ answer'[j].echo = e
      BY <2>6
    <3>2. Reserved(j)' <=> Reserved(j)
      BY <2>1 DEF Reserved
    <3> QED BY <2>1, <2>3, <2>4, <2>6, <3>1, <3>2, HopsNat DEF Account
  <2>7. ASSUME j = Upstream, NEW h \in Answers,
               answer'[j] = [code |-> 404, by |-> Upstream, header |-> h, echo |-> NoEcho]
        PROVE  Account(j)'
    <3>1. /\ DOMAIN answer'[j] = {"code", "by", "header", "echo"}
          /\ answer'[j].by = j /\ answer'[j].header = h /\ answer'[j].echo = NoEcho
      BY <2>7
    <3>2. DOMAIN h = DOMAIN sent.header
      BY <2>2, AskedIs
    <3> QED BY <2>1, <2>3, <2>7, <3>1, <3>2, HopsNat DEF Account
  <2>8. ASSUME j \in Hops, leg[j + 1] = "answered",
               answer'[j] = [answer[j + 1] EXCEPT !.header = relayHeader(@)]
        PROVE  Account(j)'
    <3>1. j + 1 \in 1..Upstream /\ Account(j + 1)
      BY <2>8, HopsNat DEF Answered
    <3>2. PICK b : b = answer[j + 1]
      OBVIOUS
    <3>3. PICK at : at = b.by
      OBVIOUS
    <3>4. /\ DOMAIN b = {"code", "by", "header", "echo"}
          /\ at \in (j + 1)..Upstream /\ leg[at] = "answered"
          /\ DOMAIN b.header = DOMAIN sent.header
          /\ b.echo # NoEcho => at \in Hops /\ ~Reserved(at) /\ b.echo =
                Resolve(conf[at].extra, seen[at].peer, seen[at].header["X-Forwarded-For"])
          /\ at = Upstream /\ j + 1 \in Hops =>
                b.header = relayHeader(answer[Upstream].header)
      BY <3>1, <3>2, <3>3 DEF Account
    <3>5. PICK a : a = answer'[j]
      OBVIOUS
    <3>6. /\ DOMAIN a = {"code", "by", "header", "echo"}
          /\ a.by = at /\ a.header = relayHeader(b.header) /\ a.echo = b.echo
      BY <2>8, <3>2, <3>3, <3>4, <3>5
    <3>7. at \in j..Upstream /\ at \in 1..Upstream
      BY <3>4, HopsNat
    <3>8. leg'[at] = "answered" /\ answer'[at] = answer[at]
      BY <3>4, <3>7, AnsweredFixed
    <3>9. DOMAIN a.header = DOMAIN sent.header
      BY <3>4, <3>6 DEF relayHeader
    <3>10. ASSUME at = Upstream
           PROVE  a.header = relayHeader(answer'[Upstream].header)
      <4>1. answer'[Upstream] = answer[Upstream] /\ Account(Upstream)
        BY <3>4, <3>8, <3>10, HopsNat DEF Answered
      <4>2. PICK h : h = answer[Upstream].header
        OBVIOUS
      <4>3. "Connection" \in DOMAIN h
        <5>1. DOMAIN h = DOMAIN sent.header
          BY <4>1, <4>2 DEF Account
        <5> QED BY <2>2, <5>1, AskedIs
      <4>4. CASE j + 1 = Upstream
        BY <3>2, <3>6, <4>1, <4>4
      <4>5. CASE j + 1 \in Hops
        <5>1. b.header = relayHeader(h)
          BY <3>4, <3>10, <4>2, <4>5
        <5>2. relayHeader(relayHeader(h)) = relayHeader(h)
          BY <4>3, RelayedTwice
        <5> QED BY <3>6, <4>1, <4>2, <5>1, <5>2
      <4> QED BY <3>1, <4>4, <4>5, HopsNat
    <3>11. a.echo # NoEcho => at \in Hops /\ ~Reserved(at)' /\ a.echo =
              Resolve(conf'[at].extra, seen'[at].peer, seen'[at].header["X-Forwarded-For"])
      <4>1. Reserved(at)' <=> Reserved(at)
        BY <2>1 DEF Reserved
      <4> QED BY <2>1, <3>4, <3>6, <4>1
    <3> QED BY <2>1, <3>5, <3>6, <3>7, <3>8, <3>9, <3>10, <3>11 DEF Account
  <2>9. PICK e : e = IF Reserved(j) THEN NoEcho
                     ELSE Resolve(conf[j].extra, seen[j].peer,
                                  seen[j].header["X-Forwarded-For"])
    OBVIOUS
  <2>10. \/ j \in Hops /\ answer'[j] = BadGateway(j)
         \/ /\ j \in Hops
            /\ answer'[j] = [code |-> 200, by |-> j, header |-> NoLines, echo |-> e]
         \/ /\ j \in Hops /\ leg[j + 1] = "answered"
            /\ answer'[j] = [answer[j + 1] EXCEPT !.header = relayHeader(@)]
         \/ /\ j = Upstream
            /\ \E h \in Answers :
                  answer'[j] = [code |-> 404, by |-> Upstream, header |-> h, echo |-> NoEcho]
    BY <1>2, <2>9, NewlyAnswered
  <2>11. e # NoEcho => ~Reserved(j) /\ e = Resolve(conf[j].extra, seen[j].peer,
                                                   seen[j].header["X-Forwarded-For"])
    BY <2>9
  <2>12. CASE /\ j \in Hops
              /\ answer'[j] = [code |-> 200, by |-> j, header |-> NoLines, echo |-> e]
    BY <2>6, <2>11, <2>12
  <2>13. CASE /\ j = Upstream
              /\ \E h \in Answers :
                    answer'[j] = [code |-> 404, by |-> Upstream, header |-> h, echo |-> NoEcho]
    BY <2>7, <2>13
  <2> QED BY <2>5, <2>8, <2>10, <2>12, <2>13
<1> QED BY <1>1, <1>2

-----------------------------------------------------------------------------
(* What the invariant says of the request and of its answers.               *)

\* The headers Do sets itself are not hop-by-hop: only Connection can drop them.
LEMMA KeptIs ==
    ASSUME Asked(sent), NEW n \in Forwarded
    PROVE  relayHeader(sent.header)[n] = Kept(n)
<1>1. n \in DOMAIN sent.header
  BY AskedIs
<1>2. n \notin hopByHopHeaders
  BY DEF Forwarded, hopByHopHeaders
<1> QED BY <1>1, <1>2 DEF relayHeader, Kept

\* Whoever has seen the request has seen one that a client may send.
LEMMA SeenAsked ==
    ASSUME Way, NEW i \in 1..Upstream, Seen(i)
    PROVE  Asked(sent) /\ Seen(1) /\ seen[1] = sent /\ \A k \in 1..i : Seen(k)
<1>1. 1 \in 1..i
  BY HopsNat
<1> QED BY <1>1 DEF Way

\* Every path on the way is decoded, and it is the path of the hop before behind
\* that hop's base (forward.go:158-178).
LEMMA WayDecoded ==
    ASSUME Started, Way
    PROVE  /\ Seen(1) => Decoded(seen[1].url.path)
           /\ \A i \in Hops : Seen(i + 1) /\ Decoded(seen[i].url.path) =>
                 /\ seen[i + 1].url.path
                       = TrimSuffix(conf[i].target.url.path) \o seen[i].url.path
                 /\ Decoded(seen[i + 1].url.path)
<1>1. ASSUME Seen(1) PROVE Decoded(seen[1].url.path)
  <2>1. seen[1] = sent /\ Asked(sent)
    BY <1>1 DEF Way
  <2>2. PICK p : Absolute(p) /\ sent.url = ParsePath(p)
    BY <2>1, AskedIs
  <2>3. sent.url.path = Unescape(p)
    BY <2>2 DEF ParsePath
  <2>4. p \in Seq(Token)
    BY <2>2 DEF Absolute
  <2> QED BY <2>1, <2>2, <2>3, <2>4, UnescapeDecodes
<1>2. ASSUME NEW i \in Hops, Seen(i + 1), Decoded(seen[i].url.path)
      PROVE  /\ seen[i + 1].url.path
                   = TrimSuffix(conf[i].target.url.path) \o seen[i].url.path
             /\ Decoded(seen[i + 1].url.path)
  <2>1. ~Local(i) /\ seen[i + 1] = Relayed(i)
    BY <1>2 DEF Way
  <2>2. stage[i] = "serving"
    <3>1. i + 1 \in 1..Upstream /\ i \in 1..(i + 1)
      BY HopsNat
    <3> QED BY <1>2, <3>1 DEF Way
  <2>3. PICK b : /\ b = << >> \/ Absolute(b)
                 /\ conf[i].target.url = ParsePath(b)
    BY <2>1, <2>2, TargetIs
  <2>4. PICK v : v = seen[i].url
    OBVIOUS
  <2>5. seen[i + 1].url = SentURL(ParsePath(b), v)
    BY <2>1, <2>3, <2>4 DEF Relayed
  <2>6. /\ SentURL(ParsePath(b), v).path = TrimSuffix(ParsePath(b).path) \o v.path
        /\ Decoded(SentURL(ParsePath(b), v).path)
    BY <1>2, <2>3, <2>4, SentPath
  <2> QED BY <2>3, <2>4, <2>5, <2>6
<1> QED BY <1>1, <1>2

\* So it is at all hops that have seen the request.
LEMMA SeenDecoded ==
    ASSUME Started, Way, NEW i \in 1..Upstream, Seen(i)
    PROVE  Decoded(seen[i].url.path)
<1>1. \A k \in 1..i : Seen(k) /\ k \in 1..Upstream /\ k \in Nat
  BY HopsNat DEF Way
<1>2. PICK T : T = {k \in 1..i : ~Decoded(seen[k].url.path)}
  OBVIOUS
<1> SUFFICES ASSUME T # {} PROVE FALSE
  <2>1. i \in 1..i
    BY HopsNat
  <2> QED BY <1>2, <2>1
<1>3. PICK k \in T : \A m \in T : k <= m
  <2>1. T \subseteq Nat
    BY <1>1, <1>2
  <2> QED BY <2>1, Least
<1>4. k \in 1..i /\ ~Decoded(seen[k].url.path) /\ Seen(k) /\ k \in 1..Upstream
  BY <1>1, <1>2, <1>3
<1>5. k # 1
  BY <1>4, WayDecoded
<1>6. k - 1 \in Hops /\ k - 1 \in 1..i /\ (k - 1) + 1 = k /\ ~(k <= k - 1)
  BY <1>4, <1>5, HopsNat
<1>7. Decoded(seen[k - 1].url.path)
  BY <1>2, <1>3, <1>6
<1>8. PICK h \in Hops : h = k - 1 /\ h + 1 = k
  BY <1>6
<1>9. Seen(h + 1) /\ Decoded(seen[h].url.path)
  BY <1>4, <1>7, <1>8
<1> QED BY <1>4, <1>8, <1>9, WayDecoded

\* f holds, hop by hop, the paths that the request means on its way to hop i.
Leads(f, i) ==
    f = [k \in 1..i |-> IF k = 1 THEN sent.url.path
                        ELSE TrimSuffix(conf[k - 1].target.url.path) \o f[k - 1]]

\* The path a hop sees is the one that the client's request means there.
LEMMA SeenPath ==
    ASSUME Started, Way, NEW i \in 1..Upstream, Seen(i)
    PROVE  PathAt(i) = seen[i].url.path
<1>1. /\ i \in 1..i /\ \A k \in 1..i : Seen(k) /\ k \in 1..Upstream /\ k \in Nat
      /\ seen[1] = sent
  BY SeenAsked, HopsNat
<1>2. ASSUME NEW k \in 1..i, k # 1
      PROVE  /\ k - 1 \in 1..i /\ ~(k <= k - 1)
             /\ seen[k].url.path
                   = TrimSuffix(conf[k - 1].target.url.path) \o seen[k - 1].url.path
  <2>1. k - 1 \in Hops /\ k - 1 \in 1..i /\ k - 1 \in 1..Upstream /\ (k - 1) + 1 = k
        /\ ~(k <= k - 1)
    BY <1>1, <1>2, HopsNat
  <2>2. PICK h \in Hops : h = k - 1 /\ h + 1 = k
    BY <2>1
  <2>3. Seen(h + 1) /\ Decoded(seen[h].url.path)
    BY <1>1, <2>1, <2>2, SeenDecoded
  <2> QED BY <2>1, <2>2, <2>3, WayDecoded
<1>3. PICK g : g = [k \in 1..i |-> seen[k].url.path]
  OBVIOUS
<1>4. Leads(g, i)
  <2>1. ASSUME NEW k \in 1..i
        PROVE  g[k] = IF k = 1 THEN sent.url.path
                      ELSE TrimSuffix(conf[k - 1].target.url.path) \o g[k - 1]
    <3>1. CASE k = 1
      BY <1>1, <1>3, <3>1
    <3>2. CASE k # 1
      BY <1>2, <1>3, <3>2
    <3> QED BY <3>1, <3>2
  <2> QED BY <1>3, <2>1 DEF Leads
<1>5. PICK f : f = CHOOSE e : Leads(e, i)
  OBVIOUS
<1>6. Leads(f, i)
  BY <1>4, <1>5
<1>7. PathAt(i) = f[i]
  BY <1>5 DEF PathAt, Leads
<1>8. PICK T : T = {k \in 1..i : f[k] # g[k]}
  OBVIOUS
<1>9. T = {}
  <2> SUFFICES ASSUME T # {} PROVE FALSE
    OBVIOUS
  <2>1. PICK k \in T : \A m \in T : k <= m
    <3>1. T \subseteq Nat
      BY <1>1, <1>8
    <3> QED BY <3>1, Least
  <2>2. k \in 1..i /\ f[k] # g[k]
    BY <1>8, <2>1
  <2>3. CASE k = 1
    BY <1>4, <1>6, <2>2, <2>3 DEF Leads
  <2>4. CASE k # 1
    <3>1. k - 1 \in 1..i /\ ~(k <= k - 1)
      BY <1>2, <2>2, <2>4
    <3>2. f[k - 1] = g[k - 1]
      BY <1>8, <2>1, <3>1
    <3>3. /\ f[k] = TrimSuffix(conf[k - 1].target.url.path) \o f[k - 1]
          /\ g[k] = TrimSuffix(conf[k - 1].target.url.path) \o g[k - 1]
      BY <1>4, <1>6, <2>2, <2>4 DEF Leads
    <3> QED BY <2>2, <3>2, <3>3
  <2> QED BY <2>3, <2>4
<1> QED BY <1>1, <1>3, <1>7, <1>8, <1>9

\* A hop that sent the request on did not find its path reserved, and neither
\* did one that echoed it (handler.go:103-117); the path they looked at is the
\* one that the client's request means there.
LEMMA WayReserved == Started /\ Way /\ Answered => ReservedStaysLocal
<1> SUFFICES ASSUME Started, Way, Answered, NEW i \in Hops
             PROVE  /\ Seen(i + 1) => PathAt(i) \notin {conf[i].endpoint, conf[i].metrics}
                    /\ leg[i] = "answered" /\ answer[i].echo # NoEcho =>
                          PathAt(answer[i].by) \notin {conf[answer[i].by].endpoint,
                                                       conf[answer[i].by].metrics}
  BY DEF ReservedStaysLocal
<1>1. ASSUME Seen(i + 1) PROVE PathAt(i) \notin {conf[i].endpoint, conf[i].metrics}
  <2>1. i \in 1..Upstream /\ i + 1 \in 1..Upstream /\ i \in 1..(i + 1)
    BY HopsNat
  <2>2. Seen(i) /\ ~Local(i)
    BY <1>1, <2>1 DEF Way
  <2>3. PathAt(i) = seen[i].url.path
    BY <2>1, <2>2, SeenPath
  <2> QED BY <2>2, <2>3 DEF Local, Reserved
<1>2. ASSUME leg[i] = "answered", answer[i].echo # NoEcho
      PROVE  PathAt(answer[i].by) \notin {conf[answer[i].by].endpoint,
                                          conf[answer[i].by].metrics}
  <2>1. PICK at : at = answer[i].by
    OBVIOUS
  <2>2. i \in 1..Upstream /\ Account(i)
    BY <1>2, HopsNat DEF Answered
  <2>3. at \in Hops /\ ~Reserved(at) /\ leg[at] = "answered"
    BY <1>2, <2>1, <2>2 DEF Account
  <2>4. at \in 1..Upstream /\ Seen(at)
    BY <2>3, HopsNat DEF Seen
  <2>5. PathAt(at) = seen[at].url.path
    BY <2>4, SeenPath
  <2> QED BY <2>1, <2>3, <2>5 DEF Reserved
<1> QED BY <1>1, <1>2

\* Carries, with the names of Connection spelt out, is OriginKept.
LEMMA HeadersOrigin == Way /\ Headers /\ Hosts => OriginKept
<1> SUFFICES ASSUME Way, Headers, Hosts, NEW i \in 2..Upstream, Seen(i)
             PROVE  /\ seen[i].header["X-Forwarded-Proto"] =
                          IfAbsent(Kept("X-Forwarded-Proto"), sent.scheme)
                    /\ seen[i].header["X-Forwarded-Host"] =
                          IfAbsent(Kept("X-Forwarded-Host"), sent.host)
                    /\ (\A k \in 1..(i - 1) : conf[k].preserveHost) => seen[i].host = sent.host
  BY DEF OriginKept
<1>1. i \in 1..Upstream /\ i # 1
  BY HopsNat
<1>2. Asked(sent) /\ Carries(seen[i].header, sent)
  BY <1>1, SeenAsked DEF Headers
<1>3. /\ relayHeader(sent.header)["X-Forwarded-Proto"] = Kept("X-Forwarded-Proto")
      /\ relayHeader(sent.header)["X-Forwarded-Host"] = Kept("X-Forwarded-Host")
  BY <1>2, KeptIs DEF Forwarded
<1>4. /\ seen[i].header["X-Forwarded-Proto"] =
            IfAbsent(relayHeader(sent.header)["X-Forwarded-Proto"], sent.scheme)
      /\ seen[i].header["X-Forwarded-Host"] =
            IfAbsent(relayHeader(sent.header)["X-Forwarded-Host"], sent.host)
  BY <1>2 DEF Carries
<1>5. (\A k \in 1..(i - 1) : conf[k].preserveHost) => seen[i].host = sent.host
  BY <1>1 DEF Hosts
<1> QED BY <1>3, <1>4, <1>5

\* What passed relayHeader once passes it unchanged ever after.
LEMMA HeadersStay == Way /\ Headers /\ Answered => HopByHopStays
<1> SUFFICES ASSUME Way, Headers, Answered PROVE HopByHopStays
  OBVIOUS
<1>1. ASSUME NEW h, NEW n \in DOMAIN h
      PROVE  relayHeader(h)[n] = IF n \in hopByHopHeaders \union ConnectionNames(h)
                                 THEN << >> ELSE h[n]
  BY DEF relayHeader
<1>2. ASSUME NEW i \in 2..Upstream, Seen(i), NEW n \in DOMAIN sent.header \ Forwarded
      PROVE  seen[i].header[n] =
                IF n \in hopByHopHeaders \union ConnectionNames(sent.header)
                THEN << >> ELSE sent.header[n]
  <2>1. i \in 1..Upstream /\ i # 1
    BY HopsNat
  <2>2. seen[i].header[n] = relayHeader(sent.header)[n]
    BY <1>2, <2>1 DEF Headers, Carries
  <2> QED BY <1>1, <1>2, <2>2
<1>3. ASSUME NEW i \in Hops, leg[i] = "answered", answer[i].by = Upstream,
             NEW n \in DOMAIN sent.header
      PROVE  answer[i].header[n] =
                IF n \in hopByHopHeaders \union ConnectionNames(answer[Upstream].header)
                THEN << >> ELSE answer[Upstream].header[n]
  <2>1. i \in 1..Upstream /\ Account(i)
    BY <1>3, HopsNat DEF Answered
  <2>2. Account(Upstream)
    <3>1. leg[Upstream] = "answered"
      BY <1>3, <2>1 DEF Account
    <3> QED BY <3>1, HopsNat DEF Answered
  <2>3. answer[i].header = relayHeader(answer[Upstream].header)
    BY <1>3, <2>1 DEF Account
  <2>4. n \in DOMAIN answer[Upstream].header
    BY <2>2 DEF Account
  <2> QED BY <1>1, <2>3, <2>4
<1> QED BY <1>2, <1>3 DEF HopByHopStays

\* A request below the path that the client asked for ends with it.
LEMMA PathsEncoding == Way /\ Paths => EncodingKept
<1> SUFFICES ASSUME Way, Paths, NEW i \in 2..Upstream, Seen(i),
                    \A k \in 1..(i - 1) : ~IsSuffix(<<"%2F">>, conf[k].target.url.raw)
             PROVE  /\ IsSuffix(Tail(EscapedPath(sent.url)), EscapedPath(seen[i].url))
                    /\ IsPrefix(TrimSuffix(EscapedPath(conf[i - 1].target.url)),
                                EscapedPath(seen[i].url))
  BY DEF EncodingKept
<1>1. i \in 1..Upstream /\ i # 1 /\ Clean(i)
  BY HopsNat DEF Clean
<1>2. /\ Below(seen[i].url, EscapedPath(sent.url))
      /\ IsPrefix(TrimSuffix(EscapedPath(conf[i - 1].target.url)), EscapedPath(seen[i].url))
  BY <1>1 DEF Paths
<1>3. PICK p : p = EscapedPath(sent.url)
  OBVIOUS
<1>4. PICK q : q = EscapedPath(seen[i].url)
  OBVIOUS
<1>5. Absolute(p) /\ Absolute(q) /\ Ends(Tail(p), q)
  BY <1>1, <1>2, <1>3, <1>4, SeenAsked, AskedBelow DEF Below
<1>6. q \in Seq(Token) /\ Tail(p) \in Seq(Token)
  BY <1>5 DEF Absolute
<1>7. IsSuffix(Tail(p), q)
  BY <1>5, <1>6, EndsIsSuffix
<1> QED BY <1>2, <1>3, <1>4, <1>7

\* The echoing hop resolves a chain that ends with the socket addresses of the
\* way: whatever the client put before them is not reached while one of them is
\* foreign.
LEMMA ChainNotSpoofed == Way /\ Peers /\ ChainPreserved /\ Answered => NotSpoofed
<1> SUFFICES ASSUME Way, Peers, ChainPreserved, Answered, NEW i \in Hops,
                    leg[i] = "answered", answer[i].echo # NoEcho
             PROVE  LET at == answer[i].by
                        foreign == {k \in 1..at : ~Trusted(conf[at].extra, seen[k].peer)}
                    IN  foreign # {} =>
                           answer[i].echo.ip
                              = seen[CHOOSE k \in foreign : \A m \in foreign : m <= k].peer
  BY DEF NotSpoofed
<1>1. PICK at : at = answer[i].by
  OBVIOUS
<1>2. PICK foreign : foreign = {k \in 1..at : ~Trusted(conf[at].extra, seen[k].peer)}
  OBVIOUS
<1> SUFFICES ASSUME foreign # {}
             PROVE  answer[i].echo.ip
                       = seen[CHOOSE k \in foreign : \A m \in foreign : m <= k].peer
  BY <1>1, <1>2
<1>3. i \in 1..Upstream /\ Account(i)
  BY HopsNat DEF Answered
<1>4. /\ at \in i..Upstream /\ leg[at] = "answered" /\ at \in Hops
      /\ answer[i].echo = Resolve(conf[at].extra, seen[at].peer,
                                  seen[at].header["X-Forwarded-For"])
  BY <1>3, <1>1 DEF Account
<1>5. at \in Nat \ {0} /\ at \in 1..Upstream /\ at \in 1..at
      /\ \A k \in 1..at : k \in 1..Upstream
  BY <1>4, HopsNat
<1>6. Seen(at) /\ \A k \in 1..at : Seen(k)
  BY <1>4, <1>5 DEF Seen, Way
<1>7. PICK peers : peers = [k \in 1..at |-> seen[k].peer]
  OBVIOUS
<1>8. peers \in [1..at -> Address]
  BY <1>5, <1>6, <1>7 DEF Peers
<1>9. PICK S : S = FlattenSeq(sent.header["X-Forwarded-For"])
  OBVIOUS
<1>10. S \in Seq(Address)
  BY <1>5, <1>6, <1>9, SeenAsked, AskedIs
<1>11. PICK lines : lines = seen[at].header["X-Forwarded-For"]
  OBVIOUS
<1>12. [k \in 1..(at - 1) |-> seen[k].peer] = [k \in 1..(at - 1) |-> peers[k]]
  <2>1. \A k \in 1..(at - 1) : k \in 1..at
    BY <1>5
  <2> QED BY <1>7, <2>1
<1>13. FlattenSeq(lines) = S \o [k \in 1..(at - 1) |-> peers[k]]
  BY <1>5, <1>6, <1>9, <1>11, <1>12 DEF ChainPreserved
<1>14. foreign = {k \in 1..at : ~Trusted(conf[at].extra, peers[k])}
  BY <1>7, <1>2
<1>15. PICK n : n = CHOOSE k \in foreign : \A m \in foreign : m <= k
  OBVIOUS
<1>16. n \in foreign /\ \A m \in foreign : m <= n
  <2>1. foreign \subseteq Nat /\ at \in Nat /\ \A y \in foreign : y <= at
    BY <1>5, <1>2
  <2>2. \E x \in foreign : \A y \in foreign : y <= x
    BY <2>1, Greatest
  <2> QED BY <1>15, <2>2
<1>17. Resolve(conf[at].extra, peers[at], lines).ip = peers[n]
  <2>1. PICK extra : extra = conf[at].extra
    OBVIOUS
  <2>2. PICK P : P = [k \in 1..(at - 1) |-> peers[k]]
    OBVIOUS
  <2>3. P \in Seq(Address) /\ Len(P) = at - 1 /\ \A k \in 1..(at - 1) : P[k] = peers[k]
    BY <1>5, <1>8, <2>2
  <2>4. FlattenSeq(lines) = S \o P
    BY <1>13, <2>2
  <2>5. EndsWithPeers(lines, peers, at)
    BY <1>10, <2>3, <2>4 DEF EndsWithPeers
  <2>6. LastForeign(extra, peers, at, n)
    BY <1>14, <1>16, <2>1 DEF LastForeign
  <2>7. Resolve(extra, peers[at], lines).ip = peers[n]
    BY <1>5, <2>5, <2>6, ResolveForeign
  <2> QED BY <2>1, <2>7
<1>18. peers[at] = seen[at].peer /\ peers[n] = seen[n].peer
  BY <1>5, <1>7, <1>16, <1>2
<1> QED BY <1>4, <1>11, <1>15, <1>17, <1>18

-----------------------------------------------------------------------------
(* The theorems.                                                            *)

IndInv ==
    /\ Shape /\ Started /\ Way
    /\ Peers /\ Headers /\ Hosts /\ ChainPreserved /\ Paths
    /\ Answered

\* Initially nothing is seen or answered.
LEMMA InitInv == Init => IndInv
<1> SUFFICES ASSUME Init PROVE IndInv
  OBVIOUS
<1>1. Shape /\ Started /\ Way
  BY InitShape
<1>2. \A i \in 1..Upstream : ~Seen(i) /\ leg[i] # "answered"
  BY DEF Init, Seen
<1> QED BY <1>1, <1>2
        DEF IndInv, Peers, Headers, Hosts, ChainPreserved, Paths, Answered

\* What servers are given and how they start, what each hop makes of the
\* request and what it answers, at every moment, for any number of servers.
THEOREM Invariant == Spec => []IndInv
<1>1. Init => IndInv
  BY InitInv
<1>2. IndInv /\ [Next]_vars => IndInv'
  <2> SUFFICES ASSUME IndInv, [Next]_vars PROVE IndInv'
    OBVIOUS
  <2>1. Shape' /\ Started' /\ Way'
    BY NextShape, StartedStep, WayStep DEF IndInv
  <2>2. Peers' /\ Headers' /\ Hosts' /\ ChainPreserved' /\ Paths'
    BY PeersStep, HeadersStep, HostsStep, ChainStep, PathsStep DEF IndInv
  <2>3. Answered'
    BY AnsweredStep DEF IndInv
  <2> QED BY <2>1, <2>2, <2>3 DEF IndInv
<1> QED BY <1>1, <1>2, PTL DEF Spec

\* Whatever flags, environment and file hold, a server that serves can be used
\* (config.go:238-338): see UsableWhenServing.
THEOREM Usable == Spec => []UsableWhenServing
<1>1. IndInv => UsableWhenServing
  BY StartedUsable DEF IndInv
<1> QED BY <1>1, Invariant, PTL

\* No server reads an option that a higher source sets (config.go:203-225), for
\* any options: see ShadowedIgnored.
THEOREM Precedence == Spec => []ShadowedIgnored
<1>1. IndInv => ShadowedIgnored
  BY StartedShadowed DEF IndInv
<1> QED BY <1>1, Invariant, PTL

\* Where the client's path and the base paths of the way add up to a reserved
\* path of a hop, that hop neither relays nor echoes (handler.go:103-117),
\* however the parts were escaped, joined and parsed again on a way of any
\* length: see ReservedStaysLocal.
THEOREM ReservedLocal == Spec => []ReservedStaysLocal
<1>1. IndInv => ReservedStaysLocal
  BY WayReserved DEF IndInv
<1> QED BY <1>1, Invariant, PTL

\* Every hop gets the client's chain of any length on any number of lines, and
\* the addresses of the way so far (forward.go:101-106): see ChainPreserved.
THEOREM ChainKept == Spec => []ChainPreserved
<1>1. IndInv => ChainPreserved
  BY DEF IndInv
<1> QED BY <1>1, Invariant, PTL

\* No chain that a client makes up is echoed as its address while a hop or the
\* client itself is not trusted (proxies.go:57-82): see NotSpoofed.
THEOREM SpoofingFails == Spec => []NotSpoofed
<1>1. IndInv => NotSpoofed
  BY ChainNotSpoofed DEF IndInv
<1> QED BY <1>1, Invariant, PTL

\* The first hop's word on scheme and host stands (forward.go:97-112), through
\* any number of hops: see OriginKept.
THEOREM OriginStands == Spec => []OriginKept
<1>1. IndInv => OriginKept
  BY HeadersOrigin DEF IndInv
<1> QED BY <1>1, Invariant, PTL

\* Hop-by-hop headers stay on their hop in both directions, and all others pass
\* (forward.go:141-156): see HopByHopStays.
THEOREM HopByHop == Spec => []HopByHopStays
<1>1. IndInv => HopByHopStays
  BY HeadersStay DEF IndInv
<1> QED BY <1>1, Invariant, PTL

\* Base paths are put before the path the client asked for, and its escapes
\* arrive as they were sent (forward.go:158-178): see EncodingKept.
THEOREM EscapesKept == Spec => []EncodingKept
<1>1. IndInv => EncodingKept
  BY PathsEncoding DEF IndInv
<1> QED BY <1>1, Invariant, PTL
===============================================================================
