-------------------------------- MODULE Config --------------------------------
(****************************************************************************)
(* From the options a user gives to the configuration a server works with:  *)
(* config.Load and Validate (internal/config) and run's early returns.      *)
(*                                                                          *)
(* Options and their raw values are texts, as flags, environment and file   *)
(* give them.  What the standard library makes of a text (numbers and       *)
(* durations, paths, URLs, lists of prefixes and of expressions) is given by*)
(* constant functions on the texts in use; a text outside the domain of a   *)
(* function does not parse.                                                 *)
(****************************************************************************)
EXTENDS Integers, Sequences, TLC

CONSTANTS
    NumberTexts,  \* numbers and durations: their values
    PathTexts,    \* paths: their tokens, "/" and the segments
    URLTexts,     \* URLs: [scheme, host, url], the url parsed as in Relay
    ProxyTexts,   \* lists of IPs and CIDRs, all of which parse: the prefixes
    RegexTexts    \* the lists of expressions that all compile

ASSUME NumbersAssumption == \A t \in DOMAIN NumberTexts : NumberTexts[t] \in Int

On == {"http-enabled", "https-enabled", "http2-enabled", "http2-h2c-enabled",
       "tls-ca-print", "echo-back-to-client", "ws-enabled",
       "prometheus-with-method", "prometheus-with-status"}

Off == {"mtls-enable", "vault-skip-verify", "echo-include-env-vars",
        "forward-preserve-host", "forward-skip-verify", "verbose",
        "cors-allow-credentials", "disable-request-logs", "prometheus-enabled",
        "prometheus-with-path"}

Unset == {"bind-address", "https-cert-file", "https-key-file", "vault-addr",
          "vault-token", "vault-namespace", "vault-pki-role", "vault-cacert",
          "jwt-header", "override-response-body-file-path", "cookie-secret",
          "forward-url", "additional-trusted-proxies", "cors-allow-origin",
          "cors-allow-methods", "cors-allow-headers", "log-ignore-path"}

Ports == {"http-port", "https-port"}

\* What Validate wants to be positive.
Limits == {"max-header-size", "max-body-size", "tls-cert-cache-size",
           "tls-cert-ttl", "vault-pki-ttl", "shutdown-timeout", "forward-timeout"}

\* newFlagSet.
Default ==
    [o \in On |-> "true"] @@ [o \in Off |-> "false"] @@ [o \in Unset |-> ""]
    @@ "http-port" :> "8080" @@ "https-port" :> "8443"
    @@ "max-header-size" :> "1048576" @@ "max-body-size" :> "1048576"
    @@ "tls-cert-cache-size" :> "128" @@ "tls-cert-ttl" :> "8760h"
    @@ "vault-pki-ttl" :> "24h" @@ "shutdown-timeout" :> "10s" @@ "forward-timeout" :> "30s"
    @@ "tls-mode" :> "auto" @@ "tls-ca-endpoint" :> "/ca" @@ "vault-pki-mount" :> "pki"
    @@ "tls-ca-cert-file" :> "certs/ca.crt" @@ "tls-ca-key-file" :> "certs/ca.key"
    @@ "log-level" :> "info" @@ "log-format" :> "json"
    @@ "prometheus-metrics-path" :> "/metrics" @@ "prometheus-metric-type" :> "summary"

Options == DOMAIN Default

(* A server is given: its flags, environment and file, which may be         *)
(* unreadable, and whether it is only asked for its version.                *)

\* Mutant: the environment is looked up before the flags.
MutEffectiveEnvFirst(given) ==
    [o \in Options |->
        IF o \in DOMAIN given.env /\ given.env[o] # "" THEN given.env[o]
        ELSE IF o \in DOMAIN given.flags THEN given.flags[o]
        ELSE IF o \in DOMAIN given.file THEN given.file[o]
        ELSE Default[o]]

\* viper: flag, then environment, then file, then default; a variable that is
\* set to the empty string counts as not set.
Effective(given) ==
    [o \in Options |->
        IF o \in DOMAIN given.flags THEN given.flags[o]
        ELSE IF o \in DOMAIN given.env /\ given.env[o] # "" THEN given.env[o]
        ELSE IF o \in DOMAIN given.file THEN given.file[o]
        ELSE Default[o]]

\* Flag parsing and Unmarshal: every value is of its option's type.
Decodes(c) ==
    /\ \A o \in On \union Off : c[o] \in {"true", "false"}
    /\ \A o \in Ports \union Limits : c[o] \in DOMAIN NumberTexts

IsPath(text) == text \in DOMAIN PathTexts /\ Head(PathTexts[text]) = "/"

parseHTTPURL(text) ==
    /\ text \in DOMAIN URLTexts
    /\ URLTexts[text].scheme \in {"http", "https"} /\ URLTexts[text].host # ""

ModeComplete(c) ==
    \/ c["tls-mode"] = "static" /\ "" \notin {c["https-cert-file"], c["https-key-file"]}
    \/ c["tls-mode"] = "auto"
    \/ /\ c["tls-mode"] = "vault" /\ parseHTTPURL(c["vault-addr"])
       /\ "" \notin {c["vault-token"], c["vault-pki-role"]}

MaxPort == 65535

\* Mutant: a limit of zero is let through.
MutInRangeZero(c) ==
    /\ \A o \in Ports : NumberTexts[c[o]] \in 0..MaxPort
    /\ \A o \in Limits : NumberTexts[c[o]] >= 0

InRange(c) ==
    /\ \A o \in Ports : NumberTexts[c[o]] \in 0..MaxPort
    /\ \A o \in Limits : NumberTexts[c[o]] > 0

\* Validate.
Valid(c) ==
    /\ "true" \in {c["http-enabled"], c["https-enabled"]}
    /\ InRange(c) /\ ModeComplete(c)
    /\ c["tls-ca-endpoint"] = "" \/ IsPath(c["tls-ca-endpoint"])
    /\ IsPath(c["prometheus-metrics-path"])
    /\ c["log-level"] \in {"debug", "info", "warn", "error"}
    /\ c["log-format"] \in {"json", "console"}
    /\ c["prometheus-metric-type"] \in {"summary", "histogram"}
    /\ c["log-ignore-path"] \in RegexTexts
    /\ c["forward-url"] = "" \/ parseHTTPURL(c["forward-url"])
    /\ c["additional-trusted-proxies"] \in DOMAIN ProxyTexts

\* run up to server.New: "refused" is exit code 2, "version" exit code 0, and
\* what is "serving" may still fail in New or Start.
Outcome(given) ==
    LET c == Effective(given)
    IN  IF ~given.readable \/ ~Decodes(c) THEN "refused"
        ELSE IF given.version THEN "version"
        ELSE IF Valid(c) THEN "serving" ELSE "refused"

NoTarget == [scheme |-> "", host |-> "", url |-> << >>]

\* What the handler, the listeners and the forwarder are built from: the fields
\* of a valid configuration, the derived ones included, with the paths the
\* server reserves (server.New: a CA to publish needs the TLS listener and the
\* auto mode, or Vault's answer to CAChain).
Settings(given, chain) ==
    LET c == Effective(given)
        hasCA == /\ c["https-enabled"] = "true"
                 /\ c["tls-mode"] = "auto" \/ (c["tls-mode"] = "vault" /\ chain)
    IN  [listens |-> {s \in {"http", "https"} :
                        c[IF s = "http" THEN "http-enabled" ELSE "https-enabled"] = "true"},
         limits |-> [o \in Limits |-> NumberTexts[c[o]]],
         endpoint |-> IF hasCA /\ c["tls-ca-endpoint"] # ""
                      THEN PathTexts[c["tls-ca-endpoint"]] ELSE << >>,
         metrics |-> IF c["prometheus-enabled"] = "true"
                     THEN PathTexts[c["prometheus-metrics-path"]] ELSE << >>,
         target |-> IF c["forward-url"] = "" THEN NoTarget ELSE URLTexts[c["forward-url"]],
         preserveHost |-> c["forward-preserve-host"] = "true",
         extra |-> ProxyTexts[c["additional-trusted-proxies"]]]
=============================================================================
