------------------------------- MODULE CAStore -------------------------------
(****************************************************************************)
(* The auto-mode CA on disk: loadOrCreateCA (internal/tlsmgr/tlsmgr.go),    *)
(* autoca.Load, autoca.New and CA.Persist (internal/tlsmgr/autoca).         *)
(*                                                                          *)
(* The pair lives in two files that are read and written one after the      *)
(* other.  os.WriteFile truncates, then writes; every system call may fail, *)
(* the process may die between any two of them and be started again, and    *)
(* several servers may be given the same paths.  A file is Missing, Torn    *)
(* (it does not parse) or holds the certificate or key of CA number n.      *)
(****************************************************************************)
EXTENDS Naturals, FiniteSets

CONSTANTS
    Servers,       \* processes configured with the same CA file paths
    ReadFaults,    \* TRUE: os.ReadFile may fail for other reasons than absence
    FilesGetLost,  \* TRUE: files are removed behind the servers' back
    MaxCAs,        \* bound on the number of CAs generated
    Missing, Torn, \* file contents that are no certificate or key
    NoCA           \* nil *CA

CAs == Nat \ {0}

ASSUME StoreAssumption ==
    /\ ReadFaults \in BOOLEAN /\ FilesGetLost \in BOOLEAN /\ MaxCAs \in Nat
    /\ Missing \notin CAs /\ Torn \notin CAs /\ Missing # Torn
    /\ NoCA \notin [cert : CAs, key : CAs]

VARIABLES
    cert, key,   \* contents of TLS_CA_CERT_FILE and TLS_CA_KEY_FILE
    pc,          \* program point of each server's start
    certRead,    \* certPEM: what each server read from the certificate file
    ca,          \* the CA each server works with, NoCA before it has one
    said,        \* the last line each start logged about its CA
    generated,   \* number of CAs generated so far
    \* History, read by no guard:
    found,       \* the CA whose complete pair was on disk at a start, or 0
    trusted,     \* CAs some server has served with
    quiet        \* no two starts overlapped, and no read failed and no file was
                 \* lost: all that happened to the files was starts and crashes

disk == <<cert, key>>
vars == <<cert, key, pc, certRead, ca, said, generated, found, trusted, quiet>>

Complete == cert = key /\ cert \in CAs

\* The program points inside Persist.
Writing == {"mkdir", "truncCert", "writeCert", "truncKey", "writeKey"}

\* A start is under way: loadOrCreateCA was called and has not returned.
Busy(s) == pc[s] \in {"readCert", "readKey", "new"} \union Writing

-----------------------------------------------------------------------------
Init ==
    /\ cert = Missing /\ key = Missing
    /\ pc = [s \in Servers |-> "down"]
    /\ certRead = [s \in Servers |-> Missing]
    /\ ca = [s \in Servers |-> NoCA]
    /\ said = [s \in Servers |-> "nothing"]
    /\ generated = 0
    /\ found = [s \in Servers |-> 0]
    /\ trusted = {}
    /\ quiet = TRUE

\* loadOrCreateCA is called.
Start(s) ==
    /\ pc[s] = "down"
    /\ pc' = [pc EXCEPT ![s] = "readCert"]
    /\ found' = [found EXCEPT ![s] = IF Complete THEN cert ELSE 0]
    /\ quiet' = (quiet /\ \A t \in Servers : ~Busy(t))
    /\ UNCHANGED <<disk, certRead, ca, said, generated, trusted>>

\* Load returned an error: a new CA is to be generated, with a warning unless
\* the error is fs.ErrNotExist.  A fault is a read that failed on a file that
\* is there.
LoadFails(s, notExist, fault) ==
    /\ pc' = [pc EXCEPT ![s] = "new"]
    /\ said' = [said EXCEPT ![s] = IF notExist THEN @ ELSE "unusable"]
    /\ quiet' = (quiet /\ ~fault)
    /\ UNCHANGED <<disk, certRead, ca, generated, found, trusted>>

\* loadOrCreateCA returns x; the server is going to serve with it.
Ready(s, x, line) ==
    /\ pc' = [pc EXCEPT ![s] = "ready"]
    /\ ca' = [ca EXCEPT ![s] = x]
    /\ said' = [said EXCEPT ![s] = line]
    /\ trusted' = trusted \union {x.cert}
    /\ UNCHANGED <<certRead, generated, found, quiet>>

\* os.ReadFile(certFile).
ReadCert(s) ==
    /\ pc[s] = "readCert"
    /\ \/ cert = Missing /\ LoadFails(s, TRUE, FALSE)
       \/ ReadFaults /\ cert # Missing /\ LoadFails(s, FALSE, TRUE)
       \/ /\ cert # Missing
          /\ certRead' = [certRead EXCEPT ![s] = cert]
          /\ pc' = [pc EXCEPT ![s] = "readKey"]
          /\ UNCHANGED <<disk, ca, said, generated, found, trusted, quiet>>

\* Mutant: the key is not compared with the certificate.
MutUsableUnmatched(c, k) == c \in CAs /\ k \in CAs

\* Mutant: contents that do not parse are let through.
MutUsableUnparsed(c, k) == c = k

\* Mutant: the public keys are compared by address.
MutUsableByAddress(c, k) == c \in CAs /\ k \in CAs /\ c # c

\* What Load makes of the two files' contents: a CA only if both parse and
\* the key belongs to the certificate.
Usable(c, k) == c \in CAs /\ k \in CAs /\ c = k

\* os.ReadFile(keyFile), then the checks.
ReadKey(s) ==
    /\ pc[s] = "readKey"
    /\ \/ key = Missing /\ LoadFails(s, TRUE, FALSE)
       \/ ReadFaults /\ key # Missing /\ LoadFails(s, FALSE, TRUE)
       \/ key # Missing /\ ~Usable(certRead[s], key) /\ LoadFails(s, FALSE, FALSE)
       \/ /\ key # Missing /\ Usable(certRead[s], key)
          /\ Ready(s, [cert |-> certRead[s], key |-> key], "loaded")
          /\ UNCHANGED disk

\* autoca.New.
New(s) ==
    /\ pc[s] = "new"
    /\ generated < MaxCAs
    /\ generated' = generated + 1
    /\ ca' = [ca EXCEPT ![s] = [cert |-> generated + 1, key |-> generated + 1]]
    /\ pc' = [pc EXCEPT ![s] = "mkdir"]
    /\ UNCHANGED <<disk, certRead, said, found, trusted, quiet>>

\* autoca.New fails: startup error, the process exits.
NewFails(s) ==
    /\ pc[s] = "new"
    /\ pc' = [pc EXCEPT ![s] = "down"]
    /\ said' = [said EXCEPT ![s] = "nothing"]
    /\ certRead' = [certRead EXCEPT ![s] = Missing]
    /\ UNCHANGED <<disk, ca, generated, found, trusted, quiet>>

\* One system call of Persist: from program point `at` to `to`, with the files'
\* new contents c and k.
Persisting(s, at, to, c, k) ==
    /\ pc[s] = at
    /\ pc' = [pc EXCEPT ![s] = to]
    /\ cert' = c /\ key' = k
    /\ UNCHANGED <<certRead, ca, said, generated, found, trusted, quiet>>

Mkdir(s)     == Persisting(s, "mkdir", "truncCert", cert, key)
TruncCert(s) == Persisting(s, "truncCert", "writeCert", Torn, key)
WriteCert(s) == Persisting(s, "writeCert", "truncKey", ca[s].cert, key)
TruncKey(s)  == Persisting(s, "truncKey", "writeKey", cert, Torn)

\* The last write: Persist returns nil.
WriteKey(s) ==
    /\ pc[s] = "writeKey"
    /\ key' = ca[s].key
    /\ Ready(s, ca[s], "generated")
    /\ UNCHANGED cert

\* Mutant: an error of the first WriteFile is dropped.
MutPersistFailsCertIgnored(s) ==
    /\ pc[s] \in Writing
    /\ IF pc[s] \in {"truncCert", "writeCert"}
       THEN pc' = [pc EXCEPT ![s] = "truncKey"]
            /\ UNCHANGED <<certRead, ca, said, generated, found, trusted, quiet>>
       ELSE Ready(s, ca[s], "in-memory")
    /\ UNCHANGED disk

\* A system call of Persist fails: warn, continue in memory.
PersistFails(s) ==
    /\ pc[s] \in Writing
    /\ Ready(s, ca[s], "in-memory")
    /\ UNCHANGED disk

\* The process dies, at any point, or is stopped.
Stop(s) ==
    /\ pc[s] # "down"
    /\ pc' = [pc EXCEPT ![s] = "down"]
    /\ ca' = [ca EXCEPT ![s] = NoCA]
    /\ said' = [said EXCEPT ![s] = "nothing"]
    /\ certRead' = [certRead EXCEPT ![s] = Missing]
    /\ UNCHANGED <<disk, generated, found, trusted, quiet>>

\* A file disappears.
FileLost ==
    /\ FilesGetLost
    /\ \/ cert' = Missing /\ UNCHANGED key
       \/ key' = Missing /\ UNCHANGED cert
    /\ quiet' = FALSE
    /\ UNCHANGED <<pc, certRead, ca, said, generated, found, trusted>>

Persist(s) ==
    \/ Mkdir(s) \/ TruncCert(s) \/ WriteCert(s) \/ TruncKey(s) \/ WriteKey(s)

Next ==
    \/ \E s \in Servers :
          \/ Start(s) \/ ReadCert(s) \/ ReadKey(s) \/ New(s) \/ NewFails(s)
          \/ Persist(s) \/ PersistFails(s) \/ Stop(s)
    \/ FileLost

Spec == Init /\ [][Next]_vars

-----------------------------------------------------------------------------
Lines == {"nothing", "unusable", "loaded", "generated", "in-memory"}

Points == {"down", "readCert", "readKey", "new", "ready"} \union Writing

\* Every variable has its type: no server works with a CA that does not parse.
TypeOK ==
    /\ cert \in CAs \union {Missing, Torn}
    /\ key \in CAs \union {Missing, Torn}
    /\ pc \in [Servers -> Points]
    /\ certRead \in [Servers -> CAs \union {Missing, Torn}]
    /\ ca \in [Servers -> [cert : CAs, key : CAs] \union {NoCA}]
    /\ said \in [Servers -> Lines]
    /\ generated \in Nat
    /\ found \in [Servers -> Nat]
    /\ trusted \subseteq CAs /\ quiet \in BOOLEAN

\* A server that is up signs with the key of the CA certificate it publishes
\* (autoca.go:99-102), however crashes, failed writes and other servers mixed
\* the two files: its leaves verify against the CA its clients imported.
PairMatches ==
    \A s \in Servers : pc[s] = "ready" => ca[s] # NoCA /\ ca[s].cert = ca[s].key

\* "On subsequent starts the existing CA is reused, so trust it once"
\* (docs/tls.md:50; tlsmgr.go:122-127): as long as starts do not overlap and
\* nothing else touches the files, a start that finds a complete pair ends up
\* with it and leaves it on disk, whatever crashed or failed to write before.
ExistingCAReused ==
    quiet => \A s \in Servers : found[s] # 0 /\ pc[s] # "down" =>
        /\ Complete /\ cert = found[s]
        /\ pc[s] = "ready" => ca[s].cert = found[s]

\* A server that says its CA is on disk ("loaded existing CA", "generated new
\* CA", tlsmgr.go:125,144) is right, and stays right while other servers start
\* after it: the next start finds exactly that CA.
AnnouncedIsDurable ==
    quiet => \A s \in Servers : said[s] \in {"loaded", "generated"} =>
        cert = ca[s].cert /\ key = ca[s].key

\* "regenerating silently would invalidate every client that trusted the old
\* CA, so say why" (tlsmgr.go:129-130): no CA that was served, and whose
\* certificate is still in its file, is overwritten without the warning.
NeverSilentlyReplaced ==
    \A s \in Servers :
        pc[s] = "truncCert" /\ cert \in trusted => said[s] = "unusable"

(* The inductive invariants behind them.                                    *)

\* A CA in memory is one CA; whoever persists or serves has one.
OneCA ==
    \A s \in Servers :
        /\ ca[s] # NoCA => ca[s].cert = ca[s].key
        /\ pc[s] \in Writing \union {"ready"} => ca[s] # NoCA

\* The server says that its CA is on disk, or relies on the one it found there.
Settled(s) == said[s] \in {"loaded", "generated"} \/ (found[s] # 0 /\ pc[s] # "down")

\* Where the servers stand with the files while starts do not overlap: at most
\* one is starting, what it knows of the files is true, and it replaces the
\* pair only if no server has settled on it.
Orderly ==
    quiet => \A s \in Servers :
        /\ \A t \in Servers : Busy(s) /\ Busy(t) => s = t
        /\ pc[s] = "readKey" => certRead[s] = cert
        /\ pc[s] \in {"new"} \union Writing => \A t \in Servers : ~Settled(t)
        /\ pc[s] \in {"truncKey", "writeKey"} => cert = ca[s].cert
        /\ said[s] \in {"loaded", "generated"} =>
              pc[s] = "ready" /\ cert = ca[s].cert /\ key = ca[s].key
        /\ found[s] # 0 /\ pc[s] # "down" =>
              /\ Complete /\ cert = found[s]
              /\ pc[s] = "ready" => ca[s].cert = found[s]
=============================================================================
