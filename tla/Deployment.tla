------------------------------ MODULE Deployment ------------------------------
(****************************************************************************)
(* A chain of servers, each started from its own flags, environment and     *)
(* file (Config), and one request that travels through them: a server that  *)
(* has a FORWARD_URL relays to the next (Relay), one that has none echoes,  *)
(* and after the last server comes the operator's own upstream.             *)
(*                                                                          *)
(* Servers come up in any order while the request is under way; a hop whose *)
(* upstream does not listen, fails or is late answers 502, and the late     *)
(* upstream goes on without it.  Bodies, logs, metrics and WebSockets are   *)
(* the subject of Exchange.                                                 *)
(****************************************************************************)
EXTENDS Config, Relay

CONSTANTS
    N,            \* the number of servers
    Deployments,  \* what the servers may be given, see Config
    Addresses,    \* the address each server, as a client, is seen under
    Clients,      \* addresses of clients
    Requests,     \* what a client may send: [path, header]
    Answers       \* headers of the upstream's answers

Hops == 1..N
Upstream == N + 1

ASSUME DeploymentAssumption ==
    /\ N \in Nat \ {0}
    /\ \A d \in Deployments : DOMAIN d = Hops
    /\ \A d \in Deployments, i \in Hops :
          DOMAIN d[i] = {"flags", "env", "file", "readable", "version"}
    /\ DOMAIN Addresses = Hops /\ \A i \in Hops : Addresses[i] \in Address
    /\ Clients \subseteq Address

\* A request line holds an absolute path ("http://host" without one, and "*",
\* are left out), and all headers are over the same names.
ASSUME HeadersAssumption ==
    \A q \in Requests :
        /\ q.path \in Seq(Token) /\ q.path # << >> /\ Head(q.path) = "/"
        /\ {"Connection"} \union Forwarded \subseteq DOMAIN q.header
        /\ q.header["X-Forwarded-For"] \in Seq(Seq(Address))
        /\ \A h \in Answers : DOMAIN h = DOMAIN q.header

\* A URL with a host has an absolute path or none.
ASSUME TargetsAssumption ==
    \A t \in DOMAIN URLTexts : parseHTTPURL(t) =>
        LET p == EscapedPath(URLTexts[t].url)
        IN  /\ p \in Seq(Token) /\ (p = << >> \/ Head(p) = "/")
            /\ URLTexts[t].url = ParsePath(p)

VARIABLES
    given,   \* what each server is given
    stage,   \* "off", or how its start ended: "failed", or see Outcome
    conf,    \* the settings of each server that serves
    sent,    \* the client's request as it sent it
    seen,    \* the request as each hop got it
    leg,     \* where it is with each hop: "none", "received", "relayed", "answered"
    answer   \* each hop's answer: status, the hop it comes from, header, client

servers == <<given, stage, conf>>
vars == <<given, stage, conf, sent, seen, leg, answer>>

NoSettings == [listens |-> {}]
NoRequest == [peer |-> << >>]
NoAnswer == [code |-> 0]

\* The echo of an answer that has none.
NoEcho == [ip |-> << >>, ips |-> << >>]

-----------------------------------------------------------------------------
Init ==
    /\ given \in Deployments
    /\ stage = [i \in Hops |-> "off"]
    /\ conf = [i \in Hops |-> NoSettings]
    /\ sent = NoRequest
    /\ seen = [i \in 1..Upstream |-> NoRequest]
    /\ leg = [i \in 1..Upstream |-> "none"]
    /\ answer = [i \in 1..Upstream |-> NoAnswer]

\* run: the configuration is loaded; the server exits, or serves, whether or
\* not Vault has answered CAChain.
Start(i) ==
    /\ stage[i] = "off"
    /\ stage' = [stage EXCEPT ![i] = Outcome(given[i])]
    /\ IF Outcome(given[i]) = "serving"
       THEN \E chain \in BOOLEAN : conf' = [conf EXCEPT ![i] = Settings(given[i], chain)]
       ELSE UNCHANGED conf
    /\ UNCHANGED <<given, sent, seen, leg, answer>>

\* run: no TLS material, or a port that cannot be bound; exit code 1.
StartFails(i) ==
    /\ stage[i] = "off" /\ Outcome(given[i]) = "serving"
    /\ stage' = [stage EXCEPT ![i] = "failed"]
    /\ UNCHANGED <<given, conf, sent, seen, leg, answer>>

\* Hop i is there for requests of a scheme.
Reachable(i, scheme) == i # Upstream => scheme \in conf[i].listens

\* The client's request reaches the first server.
Arrive ==
    /\ leg[1] = "none"
    /\ \E q \in Requests, c \in Clients, s \in {"http", "https"} :
          /\ Reachable(1, s)
          /\ sent' = [peer |-> c, scheme |-> s, host |-> "echo",
                      url |-> ParsePath(q.path), header |-> q.header]
    /\ seen' = [seen EXCEPT ![1] = sent']
    /\ leg' = [leg EXCEPT ![1] = "received"]
    /\ UNCHANGED <<servers, answer>>

Respond(i, a) ==
    /\ leg' = [leg EXCEPT ![i] = "answered"]
    /\ answer' = [answer EXCEPT ![i] = a]
    /\ UNCHANGED <<servers, sent, seen>>

NoLines == [n \in DOMAIN sent.header |-> << >>]

\* Mutant: the path is compared as it came, escapes and all.
MutReservedEscaped(i) ==
    EscapedPath(seen[i].url) \in {conf[i].endpoint, conf[i].metrics}

\* Metrics and the CA certificate have the decoded path to themselves.
Reserved(i) ==
    seen[i].url.path \in {conf[i].endpoint, conf[i].metrics}

Local(i) == Reserved(i) \/ conf[i].target = NoTarget

\* Reserved paths and the echo, with the client's address as Capture resolves it.
ServeLocal(i) ==
    /\ leg[i] = "received" /\ Local(i)
    /\ Respond(i, [code |-> 200, by |-> i, header |-> NoLines,
                   echo |-> IF Reserved(i) THEN NoEcho
                            ELSE Resolve(conf[i].extra, seen[i].peer,
                                         seen[i].header["X-Forwarded-For"])])

\* Do: the request a hop with a target sends, as the next hop sees it.
Relayed(i) ==
    [peer |-> Addresses[i], scheme |-> conf[i].target.scheme,
     host |-> IF conf[i].preserveHost THEN seen[i].host ELSE conf[i].target.host,
     url |-> SentURL(conf[i].target.url, seen[i].url),
     header |-> SentHeader(seen[i])]

Forward(i) ==
    /\ leg[i] = "received" /\ ~Local(i) /\ Reachable(i + 1, conf[i].target.scheme)
    /\ seen' = [seen EXCEPT ![i + 1] = Relayed(i)]
    /\ leg' = [leg EXCEPT ![i] = "relayed", ![i + 1] = "received"]
    /\ UNCHANGED <<servers, sent, answer>>

BadGateway(i) == [code |-> 502, by |-> i, header |-> NoLines, echo |-> NoEcho]

\* Nothing listens there.
Unreachable(i) ==
    /\ leg[i] = "received" /\ ~Local(i) /\ ~Reachable(i + 1, conf[i].target.scheme)
    /\ Respond(i, BadGateway(i))

\* Mutant: no timeout; the relay fails only while its upstream is not there.
MutGiveUpNever(i) ==
    leg[i] = "relayed" /\ ~Reachable(i + 1, conf[i].target.scheme) /\ Respond(i, BadGateway(i))

\* The exchange fails, or FORWARD_TIMEOUT passes, wherever the upstream is.
GiveUp(i) == leg[i] = "relayed" /\ Respond(i, BadGateway(i))

\* The operator's upstream answers.
UpstreamAnswers ==
    /\ leg[Upstream] = "received"
    /\ \E h \in Answers :
          Respond(Upstream, [code |-> 404, by |-> Upstream, header |-> h, echo |-> NoEcho])

\* The next hop's answer is relayed.
RelayBack(i) ==
    /\ leg[i] = "relayed" /\ leg[i + 1] = "answered"
    /\ Respond(i, [answer[i + 1] EXCEPT !.header = relayHeader(@)])

HandlerStep(i) ==
    ServeLocal(i) \/ Forward(i) \/ Unreachable(i) \/ GiveUp(i) \/ RelayBack(i)

Next ==
    \/ \E i \in Hops : Start(i) \/ StartFails(i) \/ HandlerStep(i)
    \/ Arrive \/ UpstreamAnswers

Spec == Init /\ [][Next]_vars

\* Handlers run, and a relay's timer fires: an upstream needs not answer.
FairSpec == Spec /\ \A i \in Hops : WF_vars(HandlerStep(i))

-----------------------------------------------------------------------------
(* Properties.                                                              *)

Seen(i) == leg[i] # "none"

\* What every other module rests on (config.go:238-338): whatever flags,
\* environment and file hold, a server that serves has a listener, positive
\* limits, a target it can relay to if one was asked for, and reserved paths
\* that requests can match.
UsableWhenServing ==
    \A i \in Hops : stage[i] = "serving" =>
        /\ conf[i].listens # {}
        /\ \A o \in Limits : conf[i].limits[o] \in Nat \ {0}
        /\ conf[i].target # NoTarget =>
              conf[i].target.scheme \in {"http", "https"} /\ conf[i].target.host # ""
        /\ \A p \in {conf[i].endpoint, conf[i].metrics} : p = << >> \/ Head(p) = "/"

\* The options without those that a higher source sets too.
Bare(g) ==
    LET inEnv == {o \in DOMAIN g.env : g.env[o] # ""}
    IN  [g EXCEPT
            !.env = [o \in DOMAIN @ \ DOMAIN g.flags |-> @[o]],
            !.file = [o \in DOMAIN @ \ (DOMAIN g.flags \union inEnv) |-> @[o]]]

\* An option that a higher source sets is not looked at in a lower one: flags
\* beat the environment, which beats the file (config.go:195-212), for what the
\* server does, for whether it starts, and for an invalid lower value too.
ShadowedIgnored ==
    \A i \in Hops : stage[i] # "off" =>
        /\ Outcome(Bare(given[i])) = IF stage[i] = "failed" THEN "serving" ELSE stage[i]
        /\ stage[i] = "serving" => conf[i] \in {Settings(Bare(given[i]), c) : c \in BOOLEAN}

\* "empty string disables" (docs/configuration.md:46, docs/tls.md:97): a server
\* whose environment sets TLS_CA_ENDPOINT to the empty string reserves no path
\* for its CA.
EmptyDisables ==
    \A i \in Hops :
        /\ stage[i] = "serving"
        /\ "tls-ca-endpoint" \in DOMAIN given[i].env \ DOMAIN given[i].flags
        /\ given[i].env["tls-ca-endpoint"] = ""
        => conf[i].endpoint = << >>

\* The decoded path that the client's request means at hop i: what the client
\* asked for, behind the base path of every hop before.
PathAt(i) ==
    LET at[k \in 1..i] == IF k = 1 THEN sent.url.path
                          ELSE TrimSuffix(conf[k - 1].target.url.path) \o at[k - 1]
    IN  at[i]

\* Reserved paths are "served locally" in forwarding mode too (handler.go:103-
\* 117): where the client's path and the base paths of the way add up to the CA
\* endpoint or the metrics path of a hop, that hop neither relays the request
\* nor echoes it, however the client or a base path escaped it and however
\* often it was joined, printed and parsed again on the way there.
ReservedStaysLocal ==
    \A i \in Hops :
        LET Meant(k) == PathAt(k) \in {conf[k].endpoint, conf[k].metrics}
        IN  /\ Seen(i + 1) => ~Meant(i)
            /\ leg[i] = "answered" /\ answer[i].echo # NoEcho => ~Meant(answer[i].by)

\* The address the echo shows is not the client's to choose (proxies.go:57-82,
\* forward.go:101-106): it is the socket address, of the client or of a hop,
\* that is the nearest to the echoing server among those it does not trust,
\* whatever chain the client made up, in whatever form and on however many
\* lines, and it comes back to the client through the hops.
NotSpoofed ==
    \A i \in Hops : leg[i] = "answered" /\ answer[i].echo # NoEcho =>
        LET at == answer[i].by
            foreign == {k \in 1..at : ~Trusted(conf[at].extra, seen[k].peer)}
        IN  foreign # {} =>
               answer[i].echo.ip = seen[CHOOSE k \in foreign : \A m \in foreign : m <= k].peer

\* "the direct peer's IP is appended to the (fully preserved) X-Forwarded-For
\* chain" (docs/specification.md:204-205; forward.go:101-106): every hop gets
\* all the client sent, followed by the addresses of the way so far, in order.
ChainPreserved ==
    \A i \in 1..Upstream : Seen(i) =>
        FlattenSeq(seen[i].header["X-Forwarded-For"]) =
            FlattenSeq(sent.header["X-Forwarded-For"]) \o [k \in 1..(i - 1) |-> seen[k].peer]

\* What the client sent of a header that it did not keep to its own connection.
Kept(name) == IF name \in ConnectionNames(sent.header) THEN << >> ELSE sent.header[name]

\* "X-Forwarded-Proto is set to the original scheme and X-Forwarded-Host to the
\* original Host (both only if not already present)" (docs/specification.md:205-
\* 207; forward.go:97-112): no later hop replaces what the first one said, and
\* the Host itself survives hops that preserve it.
OriginKept ==
    \A i \in 2..Upstream : Seen(i) =>
        /\ seen[i].header["X-Forwarded-Proto"] =
              IfAbsent(Kept("X-Forwarded-Proto"), sent.scheme)
        /\ seen[i].header["X-Forwarded-Host"] = IfAbsent(Kept("X-Forwarded-Host"), sent.host)
        /\ (\A k \in 1..(i - 1) : conf[k].preserveHost) => seen[i].host = sent.host

\* Hop-by-hop headers, "including those named by the Connection header"
\* (forward.go:141-156), stay on their hop in both directions, and every other
\* header passes unchanged.
HopByHopStays ==
    LET Passed(h, n) == IF n \in hopByHopHeaders \union ConnectionNames(h)
                        THEN << >> ELSE h[n]
    IN  /\ \A i \in 2..Upstream : Seen(i) =>
              \A n \in DOMAIN sent.header \ Forwarded :
                  seen[i].header[n] = Passed(sent.header, n)
        /\ \A i \in Hops : leg[i] = "answered" /\ answer[i].by = Upstream =>
              \A n \in DOMAIN sent.header :
                  answer[i].header[n] = Passed(answer[Upstream].header, n)

\* "preserving the request's percent-encoding (RawPath) so escaped segments like
\* %2F are relayed byte-for-byte" (forward.go:169-171): each hop is asked for
\* its base path followed by what the client asked for, escapes included.  (Not
\* so below a base path that ends in an escaped slash, whose RawPath does not
\* fit the joined path.)
EncodingKept ==
    \A i \in 2..Upstream :
        Seen(i) /\ (\A k \in 1..(i - 1) : ~IsSuffix(<<"%2F">>, conf[k].target.url.raw)) =>
            /\ IsSuffix(Tail(EscapedPath(sent.url)), EscapedPath(seen[i].url))
            /\ IsPrefix(TrimSuffix(EscapedPath(conf[i - 1].target.url)),
                        EscapedPath(seen[i].url))

\* "Loopback, link-local, and RFC1918 ranges are always trusted"
\* (docs/specification.md:128; proxies.go:9-19): an echoing server whose peer is
\* in one of them looks at the chain it was sent.
NearbyTrusted ==
    \A i \in Hops :
        /\ leg[i] = "answered" /\ answer[i].by = i /\ answer[i].echo # NoEcho
        /\ seen[i].peer.host \in Nearby
        => answer[i].echo.ips = FlattenSeq(seen[i].header["X-Forwarded-For"])

\* Every request that reaches the first server is answered, whatever the hops
\* behind it do (forward.go:73, FORWARD_TIMEOUT).
RequestAnswered == leg[1] = "received" ~> leg[1] = "answered"
=============================================================================
