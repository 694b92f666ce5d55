---------------------------- MODULE MCDeployment -----------------------------
\* Chains of three servers: two may relay before the third echoes or relays on.
EXTENDS Deployment

MCNumberTexts ==
    "-1" :> -1 @@ "0" :> 0 @@ "1" :> 1 @@ "8080" :> 8080 @@ "8443" :> 8443
    @@ "65535" :> 65535 @@ "65536" :> 65536 @@ "1048576" :> 1048576 @@ "128" :> 128
    @@ "8760h" :> 31536000 @@ "24h" :> 86400 @@ "10s" :> 10 @@ "30s" :> 30 @@ "0s" :> 0

MCPathTexts ==
    "/ca" :> <<"/", "ca">> @@ "ca" :> <<"ca">> @@ "/metrics" :> <<"/", "metrics">>
    @@ "/a/b" :> <<"/", "a", "/", "b">> @@ "/p/q/ca" :> <<"/", "p", "/", "q", "/", "ca">>

MCURLTexts ==
    "http://next" :> [scheme |-> "http", host |-> "next", url |-> ParsePath(<< >>)]
    @@ "https://next/p/" :> [scheme |-> "https", host |-> "next", url |-> ParsePath(<<"/", "p", "/">>)]
    @@ "http://next/p%2Fq" :>
           [scheme |-> "http", host |-> "next", url |-> ParsePath(<<"/", "p", "%2F", "q">>)]
    @@ "ftp://next" :> [scheme |-> "ftp", host |-> "next", url |-> ParsePath(<< >>)]
    @@ "http:///p" :> [scheme |-> "http", host |-> "", url |-> ParsePath(<<"/", "p">>)]

MCProxyTexts ==
    "" :> {} @@ "public" :> {[hosts |-> {"public"}, mapped |-> FALSE]}
    @@ "::ffff:public" :> {[hosts |-> {"public"}, mapped |-> TRUE]}

MCRegexTexts == {"", "^/health"}

Plain(host) == [host |-> host, form |-> "plain"]

MCNearby == {"private", "linklocal"}

\* The first hop is in a private range, the second is not.
MCAddresses == <<Plain("private"), Plain("public"), Plain("private")>>

Foreigners == {Plain("client")}
Neighbours == {[host |-> "linklocal", form |-> "zoned"]}

-----------------------------------------------------------------------------
Nothing == [flags |-> << >>, env |-> << >>, file |-> << >>, readable |-> TRUE,
            version |-> FALSE]

Flags(f) == [Nothing EXCEPT !.flags = f]

Echoing == {Nothing, Flags("additional-trusted-proxies" :> "public"),
            Flags("additional-trusted-proxies" :> "::ffff:public")}

Relaying ==
    {Flags("forward-url" :> "http://next"),
     [Nothing EXCEPT !.env = "forward-url" :> "https://next/p/" @@ "tls-mode" :> "vault"
                             @@ "vault-addr" :> "http://next" @@ "vault-token" :> "t"
                             @@ "vault-pki-role" :> "r",
                     !.file = "forward-preserve-host" :> "true"
                              @@ "tls-ca-endpoint" :> "/a/b"],
     [Nothing EXCEPT !.file = "forward-url" :> "http://next/p%2Fq"
                              @@ "prometheus-enabled" :> "true",
                     !.flags = "tls-ca-endpoint" :> ""]}

Chains ==
    {<<a, b, c>> : a \in Relaying, b \in Relaying \union {Nothing},
                   c \in Echoing \union {Flags("forward-url" :> "http://next"
                                               @@ "tls-ca-endpoint" :> "/p/q/ca")}}

\* One option or none from each source, the values good and bad.
Pick == {<< >>} \union {o[1] :> o[2] : o \in {
    <<"http-enabled", "false">>, <<"https-enabled", "junk">>, <<"https-port", "65536">>,
    <<"https-port", "0">>, <<"max-body-size", "0">>, <<"max-body-size", "1">>,
    <<"tls-mode", "static">>, <<"tls-mode", "vault">>, <<"tls-ca-endpoint", "ca">>,
    <<"tls-ca-endpoint", "">>, <<"forward-url", "ftp://next">>,
    <<"forward-url", "http:///p">>, <<"log-level", "loud">>,
    <<"additional-trusted-proxies", "nonsense">>, <<"log-ignore-path", "(">>}}

Version == [Nothing EXCEPT !.version = TRUE]

\* Sources that disagree, files that do not load, and a vault in full.
Mixed ==
    {[Nothing EXCEPT !.flags = f, !.env = e] : f \in Pick, e \in Pick}
    \union {[Nothing EXCEPT !.env = e, !.file = f] : e \in Pick, f \in Pick}
    \union {[Version EXCEPT !.flags = f, !.readable = b] : f \in Pick, b \in BOOLEAN}
    \union {Flags("tls-mode" :> "vault" @@ "vault-addr" :> "https://next/p/"
                  @@ "vault-token" :> "t" @@ "vault-pki-role" :> "r"),
            Flags("tls-mode" :> "static" @@ "https-cert-file" :> "c" @@ "https-key-file" :> "k"
                  @@ "http-enabled" :> "false" @@ "https-enabled" :> "true"),
            Flags("http-enabled" :> "false" @@ "https-enabled" :> "false")}

MCDeployments == Chains \union {<<g, Version, Version>> : g \in Mixed}

EmptyEnv == {<<[Nothing EXCEPT !.env = "tls-ca-endpoint" :> ""], Version, Version>>}

EchoOnly == {<<Nothing, Version, Version>>}

-----------------------------------------------------------------------------
NoHeader == [n \in {"Connection", "Te", "X-Custom"} \union Forwarded |-> << >>]

\* A chain on two lines, headers kept to the connection on two lines.
Busy == [NoHeader EXCEPT
    !["Connection"] = << <<"Te">>, <<"X-Custom", "X-Forwarded-Host", "X-Forwarded-For">> >>,
    !["Te"] = <<"trailers">>, !["X-Custom"] = <<"mine">>,
    !["X-Forwarded-Proto"] = <<"ws">>, !["X-Forwarded-Host"] = <<"mine">>,
    !["X-Forwarded-For"] = << <<Plain("other")>>,
        <<[host |-> "", form |-> "junk"], [host |-> "private", form |-> "mapped"]>> >>]

\* All of the chain is trusted, and nothing is kept to the connection.
Trusting == [NoHeader EXCEPT
    !["X-Custom"] = <<"mine">>, !["X-Forwarded-Proto"] = <<"">>,
    !["X-Forwarded-For"] = << <<Plain("private")>> >>]

MCRequests ==
    {[path |-> <<"/">>, header |-> NoHeader], [path |-> <<"/", "ca">>, header |-> Busy]}
    \union {[path |-> <<"/", "a", "%2F", "b">>, header |-> h] : h \in {Busy, Trusting}}

MCAnswers ==
    {[NoHeader EXCEPT !["X-Custom"] = <<"theirs">>],
     [NoHeader EXCEPT !["Connection"] = << <<"close">>, <<"X-Custom">> >>,
                      !["X-Custom"] = <<"theirs">>]}
=============================================================================
