------------------------------ MODULE Exchange -------------------------------
(****************************************************************************)
(* One HTTP exchange from its arrival to its last byte, many at a time:     *)
(* Handler.serve and what it calls (internal/server: handler.go,            *)
(* recorder.go, ws.go), Forwarder.Do, the verbose Printer and the metrics.  *)
(*                                                                          *)
(* Bodies are their lengths, headers are left out, statuses are numbers.    *)
(* The handler goroutines share the printer (its sequence number, mutex and *)
(* output) and the metrics; the client may leave at any time; the upstream  *)
(* answers, fails or times out; the client may stop reading and sending     *)
(* without leaving.  net/http's response writer is external: WireHeader,    *)
(* WireBody and Return model what the handler relies on (HTTP/1.1).  An     *)
(* upgraded connection goes on as a WebSocket session after its record.     *)
(****************************************************************************)
EXTENDS Integers, Sequences, FiniteSets, Bags, TLC, WebSocket

CONSTANTS
    Requests,     \* the exchanges
    Inputs,       \* what a request may look like, see InputsAssumption
    MetricsOn, CAOn, WSOn, CORSOn, Verbose, Forwarding,
    LogsOn,       \* FALSE: DISABLE_REQUEST_LOGS
    LabelsOn,     \* the labels of the metrics: PROMETHEUS_WITH_...
    BodySource,   \* "none", "file" or "echo": what configuration answers with
    MaxBody,      \* MAX_BODY_SIZE
    FileLen,      \* length of the override file, -1 when it cannot be read
    JSONLen,      \* length of a rendered echo
    Upstream,     \* answers the upstream may give: [code, len]
    WriteBuffer,  \* net/http keeps this much of a response until the end
    Departures    \* what a client may do: be "gone", close its sending side
                  \* only ("half"), or neither send nor read ("stalled")

\* Statuses sent ahead of a final one.
Interim == (100..199) \ {101}

\* http.Transport reads on after an interim status: no answer has one.
ASSUME ExchangeAssumption ==
    /\ {MetricsOn, CAOn, WSOn, CORSOn, Verbose, Forwarding, LogsOn} \subseteq BOOLEAN
    /\ Departures \subseteq {"gone", "half", "stalled"}
    /\ LabelsOn \subseteq {"method", "status", "path"}
    /\ BodySource \in {"none", "file", "echo"}
    /\ MaxBody \in Nat \ {0} /\ JSONLen \in Nat /\ WriteBuffer \in Nat
    /\ FileLen \in Nat \union {-1}
    /\ Upstream \subseteq [code : (1..999) \ Interim, len : Nat]

\* shape and delay are 0 when the client does not ask for them; ignored says
\* that the path matches LOG_IGNORE_PATH; the decoded path may be no UTF-8.
ASSUME InputsAssumption ==
    Inputs \subseteq [path : {"metrics", "ca", "other", "notUTF8"}, upgrade : BOOLEAN,
                      preflight : BOOLEAN, bodyOnly : BOOLEAN, ignored : BOOLEAN,
                      len : Nat, shape : Int, delay : Int]

VARIABLES
    pc,       \* program point of each exchange's goroutine
    in,       \* the request
    link,     \* its client: "open" or one of Departures
    body,     \* length of the request body the handler read
    rec,      \* the recorder: wrote, status, captured body length
    wire,     \* what net/http was given: final status (0 none), body length
    up,       \* the upstream leg: body length sent, the response whose header
              \* came back, and the answer once that is read to its end
    echoed,   \* the echo object's body: its length and its truncated flag
    dump,     \* Exchange.buf: the sections, each a leg's shown body and marker
    id,       \* Exchange.id
    seq,      \* Printer.seq
    mu,       \* Printer.mu: the holder, 0 when free
    out,      \* stdout: the halves of the blocks, in order
    metrics,  \* http_echo_requests_total: a bag of label values
    log,      \* the request log lines of each exchange: their statuses
    ws        \* the WebSocket sessions, see WebSocket

dumpVars == <<dump, id, seq, mu, out>>
doneVars == <<metrics, log>>
vars == <<pc, in, link, body, rec, wire, up, echoed, ws, dumpVars, doneVars>>

-----------------------------------------------------------------------------
MinOf(a, b) == IF a < b THEN a ELSE b

StatusClientClosedRequest == 499

\* The answer of an upstream that has not answered.
NoAnswer == [code |-> 0, len |-> 0]

\* Every status a recorder may hold.
Statuses == {101, 200, 204, 400, 499, 502}
            \union {u.code : u \in Upstream} \union {i.shape : i \in Inputs}

\* Mutant: the capture stops at MAX_BODY_SIZE itself.
MutDumpCapExact == IF Verbose THEN MaxBody ELSE 0

\* One byte beyond MAX_BODY_SIZE, so that the printer can tell a longer body.
dumpCap == IF Verbose THEN MaxBody + 1 ELSE 0

\* bodyLimit: forwarding relays whole bodies.
BodyLimited(n) == IF Forwarding THEN n ELSE MinOf(n, MaxBody + 1)

\* capBody.
capBody(n) == [len |-> MinOf(n, MaxBody), truncated |-> n > MaxBody]

\* One leg of the dump.
section(leg, n) == [leg |-> leg, shown |-> MinOf(n, MaxBody), marked |-> n > MaxBody]

(* net/http's ResponseWriter (external).                                    *)

\* The first final status wins; 1xx other than 101 is sent ahead of it.
WireHeader(w, code) ==
    IF w.final # 0 \/ code \in Interim THEN w
    ELSE [w EXCEPT !.final = code]

BodyAllowed(code) == code \notin (100..199) \union {204, 304}

\* A write implies a 200 when no final status was written.
WireBody(w, n) ==
    LET h == WireHeader(w, 200)
    IN  IF BodyAllowed(h.final) THEN [h EXCEPT !.body = @ + n] ELSE h

(* The recorder, together with the writer it wraps.                         *)

Writer(r) == [rec |-> rec[r], wire |-> wire[r]]

SetWriter(r, w) ==
    /\ rec' = [rec EXCEPT ![r] = w.rec]
    /\ wire' = [wire EXCEPT ![r] = w.wire]

\* A recorder that has its status.
WithStatus(rc, code) == [wrote |-> TRUE, status |-> code, captured |-> rc.captured]

\* rec.WriteHeader: the first call counts and is passed on.
WriteHeader(w, code) ==
    IF w.rec.wrote THEN w
    ELSE [rec |-> WithStatus(w.rec, code), wire |-> WireHeader(w.wire, code)]

\* Mutant: the capture is not bounded.
MutWriteUncapped(w, n) ==
    LET h == WriteHeader(w, 200)
    IN  [rec |-> [h.rec EXCEPT !.captured = @ + n], wire |-> WireBody(h.wire, n)]

\* rec.Write: what is left of dumpCap is captured, everything is passed on.
Write(w, n) ==
    LET h == WriteHeader(w, 200)
    IN  [rec |-> [h.rec EXCEPT !.captured = @ + MinOf(n, dumpCap - @)],
         wire |-> WireBody(h.wire, n)]

\* Mutant: the abort goes through WriteHeader.
MutAbortWrites(w, code) == WriteHeader(w, code)

\* rec.abort: the status is recorded, the wire is left alone.
abort(w, code) ==
    IF w.rec.wrote THEN w
    ELSE [rec |-> WithStatus(w.rec, code), wire |-> w.wire]

\* More than net/http and the socket keep waits for the client to read.
CanSend(r, n) == link[r] # "stalled" \/ n <= WriteBuffer

\* A status and a body of n bytes.
Respond(r, code, n) ==
    /\ CanSend(r, n)
    /\ SetWriter(r, Write(WriteHeader(Writer(r), code), n))

Status(r) == IF rec[r].wrote THEN rec[r].status ELSE 200

Goto(r, point) == pc' = [pc EXCEPT ![r] = point]

-----------------------------------------------------------------------------
Init ==
    /\ pc = [r \in Requests |-> "idle"]
    /\ in \in [Requests -> Inputs]
    /\ link = [r \in Requests |-> "open"]
    /\ body = [r \in Requests |-> 0]
    /\ rec = [r \in Requests |-> [wrote |-> FALSE, status |-> 0, captured |-> 0]]
    /\ wire = [r \in Requests |-> [final |-> 0, body |-> 0]]
    /\ up = [r \in Requests |-> [sent |-> 0, resp |-> NoAnswer, answer |-> NoAnswer]]
    /\ echoed = [r \in Requests |-> capBody(0)]
    /\ dump = [r \in Requests |-> << >>]
    /\ id = [r \in Requests |-> 0]
    /\ seq = 0 /\ mu = 0 /\ out = << >>
    /\ metrics = EmptyBag
    /\ log = [r \in Requests |-> << >>]
    /\ ws = [r \in Requests |-> NewSession]

\* The request's header is in; net/http starts the handler.
Arrive(r) ==
    /\ pc[r] = "idle"
    /\ Goto(r, "route")
    /\ UNCHANGED <<in, link, body, rec, wire, up, echoed, ws, dumpVars, doneVars>>

IsReserved(r) ==
    \/ MetricsOn /\ in[r].path = "metrics"
    \/ CAOn /\ in[r].path = "ca"

\* Metrics and CA endpoints: answered locally, not dumped.
ServeReserved(r) ==
    /\ pc[r] = "route" /\ IsReserved(r)
    /\ Respond(r, 200, 1)
    /\ Goto(r, "finish")
    /\ UNCHANGED <<in, link, body, up, echoed, ws, dumpVars, doneVars>>

\* verbose.Start and the request leg of the dump.
StartDump(r, legs) ==
    IF Verbose
    THEN /\ seq' = seq + 1
         /\ id' = [id EXCEPT ![r] = seq + 1]
         /\ dump' = [dump EXCEPT ![r] = legs]
         /\ UNCHANGED <<mu, out>>
    ELSE UNCHANGED dumpVars

IsUpgrade(r) == WSOn /\ in[r].upgrade

\* handleWebSocket up to Accept: the dump is printed first.
UpgradeWS(r) ==
    /\ pc[r] = "route" /\ ~IsReserved(r) /\ IsUpgrade(r)
    /\ StartDump(r, <<section(">", 0)>>)
    /\ Goto(r, IF Verbose THEN "flush" ELSE "accept")
    /\ UNCHANGED <<in, link, body, rec, wire, up, echoed, ws, doneVars>>

\* Mutant: Accept is given the writer, not the recorder around it.
MutAcceptRaw(r) ==
    /\ pc[r] = "accept"
    /\ wire' = [wire EXCEPT ![r] = WireHeader(@, 101)]
    /\ Goto(r, "finishWS")
    /\ UNCHANGED <<in, link, body, rec, up, echoed, ws, dumpVars, doneVars>>

\* websocket.Accept: 101 through the recorder and hijack, or an error response.
Accept(r) ==
    /\ pc[r] = "accept"
    /\ \/ SetWriter(r, WriteHeader(Writer(r), 101)) /\ Goto(r, "finishWS")
       \/ Respond(r, 400, 1) /\ Goto(r, "finish")
    /\ UNCHANGED <<in, link, body, up, echoed, ws, dumpVars, doneVars>>

\* The body is read, the echo object captured, the dump begun.
ReadBody(r) ==
    LET n == BodyLimited(in[r].len)
    IN  /\ pc[r] = "route" /\ ~IsReserved(r) /\ ~IsUpgrade(r)
        /\ n = 0 \/ link[r] # "stalled"
        /\ body' = [body EXCEPT ![r] = n]
        /\ echoed' = [echoed EXCEPT ![r] = capBody(n)]
        /\ StartDump(r, <<section(">", n)>>)
        /\ Goto(r, "handle")
        /\ UNCHANGED <<in, link, rec, wire, up, ws, doneVars>>

\* Mutant: the failed read is answered but not counted.
MutReadBodyFailsUncounted(r) ==
    /\ pc[r] = "route" /\ ~IsReserved(r) /\ ~IsUpgrade(r)
    /\ in[r].len > 0 /\ link[r] # "stalled"
    /\ Respond(r, 400, 1)
    /\ Goto(r, "return")
    /\ UNCHANGED <<in, link, body, up, echoed, ws, dumpVars, doneVars>>

\* The body cannot be read: 400, no dump.
ReadBodyFails(r) ==
    /\ pc[r] = "route" /\ ~IsReserved(r) /\ ~IsUpgrade(r)
    /\ in[r].len > 0 /\ link[r] # "stalled"
    /\ Respond(r, 400, 1)
    /\ Goto(r, "finish")
    /\ UNCHANGED <<in, link, body, up, echoed, ws, dumpVars, doneVars>>

\* Forwarder.Do: the request with its whole body goes to the upstream.
Forward(r) ==
    /\ pc[r] = "handle" /\ Forwarding
    /\ up' = [up EXCEPT ![r].sent = body[r]]
    /\ Goto(r, "upstream")
    /\ UNCHANGED <<in, link, body, rec, wire, echoed, ws, dumpVars, doneVars>>

\* The legs handleForward adds to the dump.
DumpLegs(r, legs) ==
    /\ dump' = [dump EXCEPT ![r] = IF Verbose THEN @ \o legs ELSE @]
    /\ UNCHANGED <<id, seq, mu, out>>

\* client.Do returns: the header of the upstream's response is in.
UpstreamHeader(r) ==
    /\ pc[r] = "upstream" /\ up[r].resp = NoAnswer
    /\ \E u \in Upstream : up' = [up EXCEPT ![r].resp = u]
    /\ UNCHANGED <<pc, in, link, body, rec, wire, echoed, ws, dumpVars, doneVars>>

\* io.ReadAll came to the response's end.
UpstreamAnswers(r) ==
    /\ pc[r] = "upstream" /\ up[r].resp # NoAnswer
    /\ up' = [up EXCEPT ![r].answer = up[r].resp]
    /\ DumpLegs(r, <<section(">>", body[r]), section("<<", up[r].resp.len)>>)
    /\ Goto(r, "relay")
    /\ UNCHANGED <<in, link, body, rec, wire, echoed, ws, doneVars>>

\* Mutant: what was read before the error counts as the answer.
MutUpstreamFailsPartial(r) ==
    LET part == IF up[r].resp.len > 0 THEN [up[r].resp EXCEPT !.len = @ - 1] ELSE NoAnswer
    IN  /\ pc[r] = "upstream"
        /\ up' = [up EXCEPT ![r].answer = part]
        /\ DumpLegs(r, <<section(">>", body[r])>>)
        /\ Goto(r, "relay")
        /\ UNCHANGED <<in, link, body, rec, wire, echoed, ws, doneVars>>

\* The upstream failed, timed out, or the client left and took the request with
\* it, before the response's header or in the middle of its body: the response
\* is dropped, whatever was read of it.
UpstreamFails(r) ==
    /\ pc[r] = "upstream"
    /\ up' = [up EXCEPT ![r].resp = NoAnswer]
    /\ DumpLegs(r, <<section(">>", body[r])>>)
    /\ Goto(r, "relay")
    /\ UNCHANGED <<in, link, body, rec, wire, echoed, ws, doneVars>>

\* handleForward's second half: the answer, or 502, goes to the client.
Relay(r) ==
    /\ pc[r] = "relay"
    /\ \/ up[r].answer = NoAnswer /\ Respond(r, 502, 1)
       \/ up[r].answer.code >= 100 /\ Respond(r, up[r].answer.code, up[r].answer.len)
    /\ Goto(r, "respond")
    /\ UNCHANGED <<in, link, body, up, echoed, ws, dumpVars, doneVars>>

\* A code below 100: net/http's WriteHeader panics and its recover ends the
\* connection; nothing of serve after handleForward runs.
RelayPanics(r) ==
    /\ pc[r] = "relay" /\ up[r].answer.code \in 1..99
    /\ Goto(r, "panicked")
    /\ UNCHANGED <<in, link, body, rec, wire, up, echoed, ws, dumpVars, doneVars>>

\* The shaped status: 100 to 599, anything else is ignored.
ShapedStatus(r) == IF in[r].shape \in 100..599 THEN in[r].shape ELSE 200

\* handleEcho's choice of a body.
RespBody(r) ==
    IF BodySource = "none" THEN 0
    ELSE IF BodySource = "file" /\ FileLen >= 0 THEN FileLen
    ELSE IF BodySource = "echo" /\ in[r].bodyOnly THEN echoed[r].len
    ELSE JSONLen

\* A CORS preflight is answered at once.
Preflight(r) ==
    /\ pc[r] = "handle" /\ ~Forwarding /\ CORSOn /\ in[r].preflight
    /\ SetWriter(r, WriteHeader(Writer(r), 204))
    /\ Goto(r, "respond")
    /\ UNCHANGED <<in, link, body, up, echoed, ws, dumpVars, doneVars>>

\* handleEcho with a delay: the goroutine waits for its timer.
Delay(r) ==
    /\ pc[r] = "handle" /\ ~Forwarding /\ ~(CORSOn /\ in[r].preflight)
    /\ in[r].delay > 0
    /\ Goto(r, "delay")
    /\ UNCHANGED <<in, link, body, rec, wire, up, echoed, ws, dumpVars, doneVars>>

\* The echo, at once or when the timer fires.
Echo(r) ==
    /\ \/ pc[r] = "handle" /\ ~Forwarding /\ ~(CORSOn /\ in[r].preflight)
          /\ in[r].delay <= 0
       \/ pc[r] = "delay"
    /\ Respond(r, ShapedStatus(r), RespBody(r))
    /\ Goto(r, "respond")
    /\ UNCHANGED <<in, link, body, up, echoed, ws, dumpVars, doneVars>>

\* net/http watches the connection once the body was read to its end: it then
\* cancels r.Context() when the client leaves or closes its sending side.
NoticesLeaving(r) == link[r] \in {"gone", "half"} /\ in[r].len = body[r]

\* r.Context() is cancelled while the timer runs.
DelayAborted(r) ==
    /\ pc[r] = "delay" /\ NoticesLeaving(r)
    /\ SetWriter(r, abort(Writer(r), StatusClientClosedRequest))
    /\ Goto(r, "respond")
    /\ UNCHANGED <<in, link, body, up, echoed, ws, dumpVars, doneVars>>

\* Back in serve: the response leg of the dump.
Response(r) ==
    /\ pc[r] = "respond"
    /\ DumpLegs(r, <<section("<", rec[r].captured)>>)
    /\ Goto(r, IF Verbose THEN "flush" ELSE "finish")
    /\ UNCHANGED <<in, link, body, rec, wire, up, echoed, ws, doneVars>>

\* Mutant: Flush does not take the mutex.
MutFlushLockNone(r) ==
    /\ pc[r] = "flush"
    /\ Goto(r, "write")
    /\ UNCHANGED <<in, link, body, rec, wire, up, echoed, ws, dumpVars, doneVars>>

\* Flush takes the printer's mutex.
FlushLock(r) ==
    /\ pc[r] = "flush" /\ mu = 0
    /\ mu' = id[r]
    /\ Goto(r, "write")
    /\ UNCHANGED <<in, link, body, rec, wire, up, echoed, ws, dump, id, seq, out, doneVars>>

\* The block may reach stdout in more than one piece; here in two.
FlushWrite(r) ==
    /\ pc[r] = "write"
    /\ out' = Append(out, id[r])
    /\ Goto(r, "unlock")
    /\ UNCHANGED <<in, link, body, rec, wire, up, echoed, ws, dump, id, seq, mu, doneVars>>

\* Mutant: Flush returns without unlocking.
MutFlushUnlockNever(r) ==
    /\ pc[r] = "unlock"
    /\ out' = Append(out, id[r])
    /\ Goto(r, IF IsUpgrade(r) THEN "accept" ELSE "finish")
    /\ UNCHANGED <<in, link, body, rec, wire, up, echoed, ws, dump, id, seq, mu, doneVars>>

FlushUnlock(r) ==
    /\ pc[r] = "unlock"
    /\ out' = Append(out, id[r])
    /\ mu' = 0
    /\ Goto(r, IF IsUpgrade(r) THEN "accept" ELSE "finish")
    /\ UNCHANGED <<in, link, body, rec, wire, up, echoed, ws, dump, id, seq, doneVars>>

\* The method is told apart only where the handler does.
Labels(r) ==
    [l \in LabelsOn |-> CASE l = "method" -> IF in[r].preflight THEN "OPTIONS" ELSE "GET"
                          [] l = "status" -> ToString(Status(r))
                          [] l = "path"   -> in[r].path]

\* metrics.Observe.
Observe(r) == metrics' = metrics (+) SetToBag({Labels(r)})

\* A label value that is no UTF-8 makes the Prometheus vectors panic.
ObservePanics(r) == MetricsOn /\ "path" \in LabelsOn /\ in[r].path = "notUTF8"

\* finish: the observation and the log line (its level, debug on the reserved
\* paths, is left out).
Finish(r) ==
    /\ pc[r] \in {"finish", "finishWS"} /\ ~ObservePanics(r)
    /\ IF MetricsOn THEN Observe(r) ELSE UNCHANGED metrics
    /\ log' = IF LogsOn /\ ~in[r].ignored
              THEN [log EXCEPT ![r] = Append(@, Status(r))] ELSE log
    /\ Goto(r, IF pc[r] = "finishWS" THEN "echoing" ELSE "return")
    /\ UNCHANGED <<in, link, body, rec, wire, up, echoed, ws, dumpVars>>

\* The panic ends the connection before the log line.
FinishPanics(r) ==
    /\ pc[r] \in {"finish", "finishWS"} /\ ObservePanics(r)
    /\ Goto(r, "panicked")
    /\ UNCHANGED <<in, link, body, rec, wire, up, echoed, ws, dumpVars, doneVars>>

(* The message loop; the connection is hijacked.                            *)

\* The session goes on in state w, the handler at the given point.
Session(r, w, point) ==
    /\ pc[r] = "echoing"
    /\ ws' = [ws EXCEPT ![r] = w]
    /\ Goto(r, point)
    /\ UNCHANGED <<in, link, body, rec, wire, up, echoed, dumpVars, doneVars>>

ReadWS(r) ==
    /\ CanRead(ws[r]) /\ Head(ws[r].toServer) # CloseFrame
    /\ Session(r, ReadFrame(ws[r]), "echoing")

MirrorWS(r) == CanMirror(ws[r]) /\ Session(r, Mirror(ws[r]), "echoing")

\* Mutant: the library's message limit stays, and the last message exceeds it.
MutCloseWSLimited(r) ==
    /\ CanRead(ws[r]) /\ Head(ws[r].toServer) \in {MaxMessages, CloseFrame}
    /\ Session(r, MirrorClose(ws[r]), "done")

\* The client closed: the handler mirrors it and returns.
CloseWS(r) ==
    /\ CanRead(ws[r]) /\ Head(ws[r].toServer) = CloseFrame
    /\ Session(r, MirrorClose(ws[r]), "done")

\* Reading or writing fails: the client is gone, or sends no more and said so.
FailWS(r) ==
    /\ \/ link[r] = "gone"
       \/ link[r] = "half" /\ ws[r].toServer \o ws[r].held = << >>
    /\ Session(r, ws[r], "done")

\* The client of a session sends, closes or reads.  What was mirrored before the
\* end can be read after it.
ClientWS(r) ==
    /\ \/ link[r] = "open" /\ pc[r] = "echoing" /\ CanSubmit(ws[r])
          /\ \/ ws[r].sent < MaxMessages /\ ws' = [ws EXCEPT ![r] = Submit(@)]
             \/ ws' = [ws EXCEPT ![r] = SubmitClose(@)]
       \/ link[r] \in {"open", "half"} /\ ws[r].toClient # << >>
          /\ ws' = [ws EXCEPT ![r] = Receive(@)]
    /\ UNCHANGED <<pc, in, link, body, rec, wire, up, echoed, dumpVars, doneVars>>

\* The handler returned; net/http completes the response.
Return(r) ==
    /\ pc[r] = "return" /\ CanSend(r, wire[r].body)
    /\ wire' = [wire EXCEPT ![r] = WireHeader(@, 200)]
    /\ Goto(r, "done")
    /\ UNCHANGED <<in, link, body, rec, up, echoed, ws, dumpVars, doneVars>>

\* The client goes away, stops sending, or stops reading and sending.
ClientLeaves(r) ==
    /\ pc[r] \notin {"idle", "done", "panicked"}
    /\ \E how \in Departures :
          /\ link[r] = "open" \/ (link[r] = "stalled" /\ how = "gone")
          /\ link' = [link EXCEPT ![r] = how]
    /\ UNCHANGED <<pc, in, body, rec, wire, up, echoed, ws, dumpVars, doneVars>>

HandlerStep(r) ==
    \/ ServeReserved(r) \/ UpgradeWS(r) \/ Accept(r) \/ ReadBody(r)
    \/ ReadBodyFails(r) \/ Forward(r) \/ Relay(r) \/ RelayPanics(r) \/ Preflight(r) \/ Delay(r) \/ Echo(r)
    \/ DelayAborted(r) \/ Response(r) \/ FlushLock(r) \/ FlushWrite(r)
    \/ FlushUnlock(r) \/ Finish(r) \/ FinishPanics(r) \/ Return(r)
    \/ ReadWS(r) \/ MirrorWS(r) \/ CloseWS(r) \/ FailWS(r)

UpstreamStep(r) == UpstreamHeader(r) \/ UpstreamAnswers(r) \/ UpstreamFails(r)

Next == \E r \in Requests :
           \/ Arrive(r) \/ HandlerStep(r) \/ UpstreamStep(r)
           \/ ClientLeaves(r) \/ ClientWS(r)

Spec == Init /\ [][Next]_vars

\* Handlers run, timers fire, and FORWARD_TIMEOUT ends a silent upstream; the
\* mutex is strongly fair, as sync.Mutex is (starvation mode).  Nothing makes a
\* stalled client go on: the servers have no read or write timeout.
FairSpec ==
    /\ Spec
    /\ \A r \in Requests : /\ WF_vars(HandlerStep(r)) /\ SF_vars(FlushLock(r))
                           /\ WF_vars(UpstreamStep(r))

-----------------------------------------------------------------------------
(* Properties.                                                              *)

\* The body of the handler is over, whatever way it ended.
Over(r) == pc[r] \in {"return", "echoing", "done", "panicked"}

\* Every variable has its type: the capture stays below dumpCap, no leg of a
\* dump and no echo shows more than MAX_BODY_SIZE.
TypeOK ==
    /\ pc \in [Requests -> {"idle", "route", "accept", "handle", "upstream", "relay",
                            "delay", "respond", "flush", "write", "unlock", "finish",
                            "finishWS", "echoing", "return", "done", "panicked"}]
    /\ in \in [Requests -> Inputs]
    /\ link \in [Requests -> {"open"} \union Departures]
    /\ body \in [Requests -> Nat]
    /\ rec \in [Requests -> [wrote : BOOLEAN, status : {0} \union Statuses,
                             captured : 0..dumpCap]]
    /\ wire \in [Requests -> [final : {0} \union Statuses, body : Nat]]
    /\ up \in [Requests -> [sent : Nat, resp : {NoAnswer} \union Upstream,
                            answer : {NoAnswer} \union Upstream]]
    /\ echoed \in [Requests -> [len : 0..MaxBody, truncated : BOOLEAN]]
    /\ dump \in [Requests -> Seq([leg : {">", ">>", "<<", "<"}, shown : 0..MaxBody,
                                  marked : BOOLEAN])]
    /\ id \in [Requests -> 0..seq] /\ seq \in Nat /\ mu \in 0..seq
    /\ out \in Seq(1..seq)
    /\ IsABag(metrics)
    /\ log \in [Requests -> Seq(Statuses)]
    /\ ws \in [Requests -> SessionType]
    /\ \A r \in Requests : Len(ws[r].toServer) <= PipeSize
                          /\ Len(ws[r].toClient) <= PipeSize /\ Len(ws[r].held) <= 1

\* serve has called finish: the exchange is over and its goroutine did not panic.
Finished(r) == Over(r) /\ pc[r] # "panicked"

\* How often the label values l were counted.
Copies(l) == IF BagIn(l, metrics) THEN metrics[l] ELSE 0

\* Log and metrics agree with each other and with the traffic (handler.go:338-
\* 367, metrics.go:89-106): whatever way serve came to its end, the exchange was
\* counted once, under its labels, and has one log line unless logs are off for
\* it, under the same status, and nothing else was counted.
CountedOnce ==
    /\ \A r \in Requests :
          log[r] = IF Finished(r) /\ LogsOn /\ ~in[r].ignored THEN <<Status(r)>> ELSE << >>
    /\ MetricsOn => \A l \in DOMAIN metrics \union {Labels(r) : r \in Requests} :
          Copies(l) = Cardinality({r \in Requests : Finished(r) /\ Labels(r) = l})

\* "finish records the metrics observation and the request log for every handled
\* request" (handler.go:338-339): no exchange is over without its record.
EveryRequestRecorded ==
    \A r \in Requests : Over(r) /\ LogsOn /\ ~in[r].ignored => log[r] # << >>

\* What a client, the log and the metrics see of an exchange is what
\* ExchangeService promises: one final status, one record, and the two agree
\* unless the client left first or asked for an interim status (recorder.go:9-17,
\* 30-60; handler.go:225-230).
Promise == INSTANCE ExchangeService WITH
    left <- {r \in Requests : link[r] \in {"gone", "half"}},
    reply <- [r \in Requests |-> wire[r].final],
    record <- [r \in Requests |-> IF Finished(r) THEN Status(r) ELSE 0]

ImplementsExchange == Promise!Spec

\* "each client message is mirrored unchanged" after the echo of the upgrade
\* request (ws.go:13-15, 41-74): between the two ends no message is lost,
\* doubled or overtaken, whatever the loop is waiting for; and the loop only
\* gives up a client that is there when nothing it sent is left unmirrored.
MirroredInOrder ==
    \A r \in Requests :
        /\ Messages(ws[r]) \in {Sent(ws[r]), Append(Sent(ws[r]), CloseFrame)}
        /\ pc[r] = "done" /\ link[r] = "open" /\ ws[r] # NewSession =>
              ws[r].toServer \o ws[r].held = << >>

\* 499 "appears in logs and metrics only, never on the wire"
\* (recorder.go:11-13), unless the client itself, by shaping, or the upstream
\* asked for it.
ClosedRequestOffWire ==
    \A r \in Requests : wire[r].final = 499 =>
        499 \in {in[r].shape, up[r].answer.code}

\* Concurrent exchanges do not interleave on stdout (verbose.go:106-111): the
\* two halves of every block are neighbours, and no id is printed twice.
BlocksAreAtomic ==
    \A i \in 1..Len(out) :
        /\ i % 2 = 1 /\ i < Len(out) => out[i] = out[i + 1]
        /\ \A j \in 1..(i - 1) : out[j] = out[i] => i % 2 = 0 /\ j = i - 1

\* Truncation is told exactly (handler.go:41-44, 132, 378-384; verbose.go:132-
\* 144): the echo object, the request leg and the response leg are marked if
\* and only if the body was longer than MAX_BODY_SIZE, and show what fits.
TruncationMarked ==
    \A r \in Requests :
        pc[r] \in {"respond", "flush", "write", "unlock"} /\ ~IsUpgrade(r) =>
            /\ echoed[r] = capBody(in[r].len)
            /\ Verbose => \A k \in 1..Len(dump[r]) :
                  LET s == dump[r][k]
                  IN  /\ s.leg \in {">", ">>"} => s = section(s.leg, in[r].len)
                      /\ s.leg = "<<" => s = section("<<", up[r].answer.len)
                      /\ s.leg = "<" /\ BodyAllowed(rec[r].status) =>
                            s = section("<", wire[r].body)

\* "Forwarding relays bodies byte-for-byte" (handler.go:378-384, spec 7.1, 7.2;
\* forward.go:119-139): the upstream gets the whole body; the client gets the
\* status and the whole body of the upstream's response, or a 502, and never a
\* part of one; a status that makes the handler panic reaches nobody, and a
\* panic after the answer takes nothing back.  An upgrade, served locally, never
\* reaches the upstream.
RelayUnchanged ==
    \A r \in Requests : Forwarding =>
        LET u == up[r].resp
        IN  /\ pc[r] = "upstream" => up[r].sent = in[r].len
            /\ up[r].answer # NoAnswer /\ pc[r] # "relay" =>
                  IF u.code < 100
                  THEN pc[r] = "panicked" /\ wire[r] = [final |-> 0, body |-> 0]
                  ELSE wire[r] = [final |-> u.code,
                                  body |-> IF BodyAllowed(u.code) THEN u.len ELSE 0]
            /\ Over(r) /\ up[r].answer = NoAnswer => Status(r) \in {101, 200, 400, 502}
            /\ IsUpgrade(r) => up[r].sent = 0

\* An exchange whose client keeps sending and reading, or leaves, ends: its
\* goroutine passes the delay, the upstream and the printer's mutex, whatever
\* the other exchanges do and even if their clients stall for ever (handler.go:
\* 149-152: the printer is only locked once the response is written).  A
\* session whose client is gone ends too.
EveryExchangeEnds ==
    \A r \in Requests :
        /\ [](link[r] # "stalled") => (pc[r] = "route" ~> Over(r))
        /\ pc[r] = "echoing" /\ link[r] = "gone" ~> pc[r] = "done"

\* Every message of a client that stays and keeps reading comes back to it
\* (ws.go:53-73), whatever the other clients do; one that sends without reading
\* may block the loop, and itself, for ever.
EveryMessageEchoed ==
    \A r \in Requests :
        [](link[r] = "open") /\ []<>(ws[r].toClient = << >>) =>
            \A m \in 1..MaxMessages : ws[r].sent >= m ~> Len(ws[r].got) > m
=============================================================================
