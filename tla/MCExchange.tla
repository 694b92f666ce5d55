----------------------------- MODULE MCExchange ------------------------------
\* Small instances of Exchange: MAX_BODY_SIZE is 2, so that lengths 2, 3 and 4
\* are a body that fits, one that is one byte too long and one the handler does
\* not read to its end.
EXTENDS Exchange

Plain == [path |-> "other", upgrade |-> FALSE, preflight |-> FALSE,
          bodyOnly |-> FALSE, ignored |-> FALSE, len |-> 0, shape |-> 0, delay |-> 0]

Reserved == {[Plain EXCEPT !.path = "metrics"], [Plain EXCEPT !.path = "ca"]}

Upgrade == [Plain EXCEPT !.upgrade = TRUE]

EchoInputs ==
    Reserved \union {Upgrade, [Plain EXCEPT !.preflight = TRUE]}
    \union {[Plain EXCEPT !.bodyOnly = TRUE, !.len = n] : n \in 2..4}
    \union {[Plain EXCEPT !.shape = 499, !.ignored = TRUE],
            [Plain EXCEPT !.shape = 600, !.delay = 5, !.len = 4],
            [Plain EXCEPT !.shape = 103, !.delay = 5, !.len = 3],
            [Plain EXCEPT !.path = "notUTF8"]}

ForwardInputs == {Upgrade, [Plain EXCEPT !.len = 4]}

\* A path whose escapes decode to no UTF-8, such as /%ff.
PathInputs == {Plain, [Plain EXCEPT !.path = "notUTF8"]}

NoUpstream == {}

\* An answer that fits, one that is cut in the dump and larger than the buffers.
Answers == {[code |-> 304, len |-> 0], [code |-> 404, len |-> 3]}

\* Also one with a status net/http does not let a handler write.
AllAnswers == Answers \union {[code |-> 99, len |-> 2]}
=============================================================================
