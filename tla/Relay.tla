-------------------------------- MODULE Relay ---------------------------------
(****************************************************************************)
(* What a hop makes of a request: the trusted proxies (internal/echo:       *)
(* proxies.go), the relayed headers and the joined path (internal/forward). *)
(*                                                                          *)
(* An address is a host in some form: "plain", "mapped" (an IPv4 address    *)
(* written as IPv6), "zoned" (fe80::1%eth0), or "junk", which is none.  A   *)
(* header maps names to their lines; a line of X-Forwarded-For is a list of *)
(* addresses, a line of Connection a list of names.  A path is a list of    *)
(* tokens: "/", "%2F" (an escaped "/") and the segments.                    *)
(****************************************************************************)
EXTENDS Naturals, Sequences, SequencesExt

CONSTANT Nearby   \* the hosts in loopback, link-local and RFC 1918 ranges

-----------------------------------------------------------------------------
(* proxies.go.                                                              *)

Address == [host : STRING, form : {"plain", "mapped", "zoned", "junk"}]

defaultTrusted == [hosts |-> Nearby, mapped |-> FALSE]

Unmap(a) == IF a.form = "mapped" THEN [a EXCEPT !.form = "plain"] ELSE a

\* netip.Prefix.Contains (external): no address with a zone is in a prefix, and
\* a prefix written as IPv4-mapped IPv6 holds no IPv4 address.
InPrefix(prefix, a) ==
    a.form = "plain" /\ ~prefix.mapped /\ a.host \in prefix.hosts

Trusted(extra, a) ==
    a.form # "junk" /\ \E p \in {defaultTrusted} \union extra : InPrefix(p, Unmap(a))

\* Mutant: the chain is walked from the left.
MutResolveLeftmost(extra, peer, lines) ==
    LET chain == FlattenSeq(lines)
        i == SelectInSeq(chain, LAMBDA a : ~Trusted(extra, a))
    IN  IF chain = << >> \/ ~Trusted(extra, peer) THEN [ip |-> peer, ips |-> << >>]
        ELSE [ip |-> chain[IF i = 0 THEN 1 ELSE i], ips |-> chain]

\* Resolve: the last address in the chain that is not trusted, else the first.
Resolve(extra, peer, lines) ==
    LET chain == FlattenSeq(lines)
        i == SelectLastInSeq(chain, LAMBDA a : ~Trusted(extra, a))
    IN  IF chain = << >> \/ ~Trusted(extra, peer) THEN [ip |-> peer, ips |-> << >>]
        ELSE [ip |-> chain[IF i = 0 THEN 1 ELSE i], ips |-> chain]

-----------------------------------------------------------------------------
(* forward.go: headers.                                                     *)

hopByHopHeaders ==
    {"Connection", "Keep-Alive", "Proxy-Authenticate", "Proxy-Authorization",
     "Proxy-Connection", "Te", "Trailer", "Transfer-Encoding", "Upgrade"}

\* The names the lines of Connection list.
ConnectionNames(h) == ToSet(FlattenSeq(h["Connection"]))

\* Mutant: only the first line of Connection is looked at.
MutRelayHeaderFirstLine(h) ==
    LET named == IF h["Connection"] = << >> THEN {} ELSE ToSet(h["Connection"][1])
    IN  [n \in DOMAIN h |-> IF n \in hopByHopHeaders \union named THEN << >> ELSE h[n]]

relayHeader(h) ==
    [n \in DOMAIN h |->
        IF n \in hopByHopHeaders \union ConnectionNames(h) THEN << >> ELSE h[n]]

\* Get looks at the first line, and an empty one counts as none.
IfAbsent(lines, value) ==
    IF lines = << >> \/ lines[1] = "" THEN <<value>> ELSE lines

\* The headers Do sets itself.
Forwarded == {"X-Forwarded-For", "X-Forwarded-Proto", "X-Forwarded-Host"}

\* Mutant: the peer is appended to the first line, the others are dropped.
MutSentHeaderOneLine(q) ==
    LET out == relayHeader(q.header)
        first == IF q.header["X-Forwarded-For"] = << >> THEN << >>
                 ELSE q.header["X-Forwarded-For"][1]
    IN  [out EXCEPT !["X-Forwarded-For"] = <<Append(first, q.peer)>>,
                    !["X-Forwarded-Proto"] = IfAbsent(@, q.scheme),
                    !["X-Forwarded-Host"] = IfAbsent(@, q.host)]

\* Mutant: every hop says its own scheme and host.
MutSentHeaderOwnOrigin(q) ==
    LET chain == Append(FlattenSeq(q.header["X-Forwarded-For"]), q.peer)
    IN  [relayHeader(q.header) EXCEPT
            !["X-Forwarded-For"] = <<chain>>,
            !["X-Forwarded-Proto"] = <<q.scheme>>,
            !["X-Forwarded-Host"] = <<q.host>>]

\* The header Do sends for request q: the peer joins the chain the request came
\* with, every line of it; scheme and host are only set when nobody set them.
\* The handler always knows a peer, so Do's case without one does not arise; what
\* http.Transport adds to a request on its own account is left out.
SentHeader(q) ==
    LET chain == Append(FlattenSeq(q.header["X-Forwarded-For"]), q.peer)
    IN  [relayHeader(q.header) EXCEPT
            !["X-Forwarded-For"] = <<chain>>,
            !["X-Forwarded-Proto"] = IfAbsent(@, q.scheme),
            !["X-Forwarded-Host"] = IfAbsent(@, q.host)]

-----------------------------------------------------------------------------
(* forward.go: paths, and the net/url functions they rest on (external).    *)

Token == {"/", "%2F"} \union STRING

Unescape(p) == [i \in DOMAIN p |-> IF p[i] = "%2F" THEN "/" ELSE p[i]]

\* A parsed URL path: RawPath is only kept when it is not the default encoding.
ParsePath(p) == [path |-> Unescape(p), raw |-> IF Unescape(p) = p THEN << >> ELSE p]

\* RawPath counts as long as it is an encoding of Path.
EscapedPath(u) == IF u.raw # << >> /\ Unescape(u.raw) = u.path THEN u.raw ELSE u.path

TrimSuffix(p) == IF p # << >> /\ Last(p) = "/" THEN Front(p) ELSE p

TrimPrefix(p) == IF p # << >> /\ Head(p) = "/" THEN Tail(p) ELSE p

joinPath(base, path) ==
    IF base \in {<< >>, <<"/">>} THEN path
    ELSE IF path = << >> THEN base
    ELSE TrimSuffix(base) \o <<"/">> \o TrimPrefix(path)

\* Mutant: the escaped form is taken from the request only.
MutJoinURLPathNoRaw(base, req) ==
    [path |-> joinPath(base.path, req.path), raw |-> req.raw]

joinURLPath(base, req) ==
    [path |-> joinPath(base.path, req.path),
     raw  |-> IF base.raw = << >> /\ req.raw = << >> THEN << >>
              ELSE joinPath(EscapedPath(base), EscapedPath(req))]

\* What the next server parses: the joined URL is printed and parsed again.
SentURL(base, req) == ParsePath(EscapedPath(joinURLPath(base, req)))
=============================================================================
