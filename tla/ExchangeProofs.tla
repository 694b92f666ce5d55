--------------------------- MODULE ExchangeProofs ----------------------------
(****************************************************************************)
(* The safety of exchanges for any number of them, any inputs, limits and   *)
(* upstream answers.  IndInv is inductive: TypeOK, Local for every exchange *)
(* (what its goroutine has done by its program point), Printer (the mutex,  *)
(* the ids and the blocks on stdout) and Counted (the bag of observations). *)
(* A step of one exchange leaves the others' parts alone (LocalFrame).      *)
(****************************************************************************)
EXTENDS Exchange, TLAPS, FiniteSetTheorems, SequenceTheorems

NewRec == [wrote |-> FALSE, status |-> 0, captured |-> 0]
NewWire == [final |-> 0, body |-> 0]
NewUp == [sent |-> 0, resp |-> NoAnswer, answer |-> NoAnswer]

Printing == {"flush", "write", "unlock"}

\* Nothing has been answered yet.
Unanswered(r) ==
    \/ pc[r] \in {"idle", "route", "accept", "handle", "upstream", "relay", "delay"}
    \/ pc[r] \in Printing /\ IsUpgrade(r)

\* The goroutine is past its answer, and has not panicked.
Answered(r) ==
    \/ pc[r] \in {"respond", "finish", "finishWS", "return", "echoing", "done"}
    \/ pc[r] \in Printing /\ ~IsUpgrade(r)

\* The body was read and the dump is not printed yet.
InBody(r) ==
    \/ pc[r] \in {"handle", "upstream", "relay", "delay", "respond"}
    \/ pc[r] \in Printing /\ ~IsUpgrade(r)

Routed(r) ==
    /\ pc[r] \in {"handle", "upstream", "relay", "delay", "respond"} => ~IsUpgrade(r)
    /\ pc[r] = "accept" => IsUpgrade(r)
    /\ pc[r] \in {"upstream", "relay"} => Forwarding
    /\ pc[r] = "delay" => ~Forwarding
    /\ pc[r] \in Printing => Verbose
    /\ pc[r] \in {"finishWS", "echoing"} => rec[r].status = 101

Unwritten(r) == Unanswered(r) => rec[r] = NewRec /\ wire[r] = NewWire

BodyRead(r) ==
    InBody(r) => body[r] = BodyLimited(in[r].len) /\ echoed[r] = capBody(in[r].len)

UpLeg(r) ==
    /\ pc[r] \in {"idle", "route", "accept", "handle", "delay"} \/ IsUpgrade(r) =>
          up[r] = NewUp
    /\ pc[r] = "upstream" => up[r].sent = in[r].len /\ up[r].answer = NoAnswer
    /\ up[r].answer # NoAnswer => Forwarding /\ up[r].answer = up[r].resp

\* What the recorder holds is what the client got; what differs is an interim
\* status, or the 499 of a client that left.
Agrees(r) ==
    \/ rec[r].status # 0 /\ wire[r].final = rec[r].status
    \/ rec[r].status \in Interim /\ wire[r].final = 200
    \/ /\ rec[r].status = 499 /\ link[r] \in {"gone", "half"}
       /\ wire[r].final = IF pc[r] = "done" THEN 200 ELSE 0

\* The client got what the upstream answered.
Relays(r) ==
    wire[r] = [final |-> up[r].answer.code,
               body |-> IF BodyAllowed(up[r].answer.code) THEN up[r].answer.len ELSE 0]

Written(r) ==
    /\ Answered(r) =>
          /\ rec[r].wrote
          /\ Agrees(r)
          /\ BodyAllowed(rec[r].status) => rec[r].captured = MinOf(wire[r].body, dumpCap)
          /\ up[r].answer # NoAnswer => up[r].answer.code >= 100 /\ Relays(r)
    /\ pc[r] = "panicked" /\ up[r].answer # NoAnswer =>
          IF up[r].answer.code < 100 THEN wire[r] = NewWire ELSE Relays(r)
    /\ (Answered(r) \/ pc[r] = "panicked") /\ Forwarding /\ up[r].answer = NoAnswer =>
          rec[r].wrote /\ rec[r].status \in {101, 200, 400, 502}
    /\ wire[r].final = 499 => 499 \in {in[r].shape, up[r].answer.code}

\* A leg of the dump shows the body it is about.
LegOK(r, s) ==
    /\ s.leg \in {">", ">>"} => s = section(s.leg, in[r].len)
    /\ s.leg = "<<" => s = section("<<", up[r].answer.len)
    /\ s.leg = "<" => /\ pc[r] \in Printing
                      /\ BodyAllowed(rec[r].status) => s = section("<", wire[r].body)

Dumped(r) ==
    Verbose =>
        /\ pc[r] \in {"handle", "upstream", "delay"} => dump[r] = <<section(">", in[r].len)>>
        /\ pc[r] \in {"relay", "respond"} \/ (pc[r] \in Printing /\ ~IsUpgrade(r)) =>
              \A k \in 1..Len(dump[r]) : LegOK(r, dump[r][k])

Logged(r) ==
    log[r] = IF Finished(r) /\ LogsOn /\ ~in[r].ignored THEN <<Status(r)>> ELSE << >>

\* The session's messages are in order, the close frame after all of them.
InOrder(w) ==
    /\ w \in SessionType
    /\ Messages(w) \in {Sent(w), Append(Sent(w), CloseFrame)}
    /\ ~w.closed => Messages(w) = Sent(w)
    /\ Len(w.held) <= 1

SessionOK(r) ==
    /\ InOrder(ws[r])
    /\ pc[r] \notin {"echoing", "done"} => ws[r] = NewSession
    /\ pc[r] = "done" /\ link[r] = "open" /\ ws[r] # NewSession =>
          ws[r].toServer = << >> /\ ws[r].held = << >>

Local(r) ==
    /\ Routed(r) /\ Unwritten(r) /\ BodyRead(r) /\ UpLeg(r) /\ Written(r)
    /\ Dumped(r) /\ Logged(r) /\ SessionOK(r)

\* The block of an exchange is not on stdout yet.
Unprinted(r) ==
    pc[r] \in {"handle", "upstream", "relay", "delay", "respond", "flush", "write"}

\* What the printer knows of an exchange: its number is given out before its
\* block is printed, the mutex is taken for the time of the two halves.
Numbered(r) ==
    /\ pc[r] \in {"idle", "route"} => id[r] = 0
    /\ pc[r] \in Printing \/ (Verbose /\ Unprinted(r)) => id[r] # 0
    /\ pc[r] \in {"write", "unlock"} => mu = id[r]
    /\ Unprinted(r) => \A i \in 1..Len(out) : out[i] # id[r]
    /\ pc[r] = "unlock" => Len(out) % 2 = 1 /\ out[Len(out)] = id[r]

Printer ==
    /\ \A r, q \in Requests : id[r] = id[q] /\ id[r] # 0 => r = q
    /\ \A r \in Requests : Numbered(r)
    /\ Len(out) % 2 = 1 => \E r \in Requests : pc[r] = "unlock"
    /\ BlocksAreAtomic

\* Every observation is that of a finished exchange, whatever the labels.
Observed(l) == {r \in Requests : Finished(r) /\ Labels(r) = l}

Counted ==
    /\ IsFiniteSet({r \in Requests : Finished(r)})
    /\ MetricsOn => \A l : Copies(l) = Cardinality(Observed(l))

IndInv == TypeOK /\ (\A r \in Requests : Local(r)) /\ Printer /\ Counted

-----------------------------------------------------------------------------
(* The session: no step of it loses, doubles or overtakes a message.        *)

\* What the client sent is a sequence of frames other than the close frame.
LEMMA SentFrames ==
    ASSUME NEW w, w.sent \in 0..MaxMessages
    PROVE  /\ Sent(w) \in Frames /\ Len(Sent(w)) = w.sent + 1
           /\ \A i \in 1..(w.sent + 1) : Sent(w)[i] = i - 1 /\ Sent(w)[i] # CloseFrame
           /\ CloseFrame \in Frame
<1>1. CloseFrame \in Nat /\ w.sent + 1 \in Nat /\ w.sent < CloseFrame
  BY SessionAssumption DEF CloseFrame, Frame
<1>2. Sent(w) = [i \in 1..(w.sent + 1) |-> i - 1]
  BY DEF Sent
<1>3. \A i \in 1..(w.sent + 1) : i - 1 \in Frame /\ i - 1 # CloseFrame
  BY <1>1 DEF Frame
<1>4. CloseFrame \in Frame
  BY <1>1 DEF Frame
<1> QED BY <1>1, <1>2, <1>3, <1>4 DEF Frames

\* A nonempty sequence of frames is its head followed by its tail.
LEMMA HeadAndTail ==
    ASSUME NEW s \in Frames, s # << >>
    PROVE  /\ Head(s) \in Frame /\ Head(s) = s[1]
           /\ Tail(s) \in Frames /\ Len(Tail(s)) = Len(s) - 1
           /\ <<Head(s)>> \o Tail(s) = s
<1>1. Head(s) \in Frame /\ Head(s) = s[1]
  BY DEF Frames
<1>2. Tail(s) \in Frames /\ Len(Tail(s)) = Len(s) - 1
  BY DEF Frames
<1>3. <<Head(s)>> \o Tail(s) = s
  BY DEF Frames
<1> QED BY <1>1, <1>2, <1>3

(* Concatenation of frames.                                                 *)

\* Frames after frames are frames.
LEMMA ConcatFrames == \A a, b \in Frames : a \o b \in Frames
  BY DEF Frames

\* No frames, and no more frames.
LEMMA NoFrames == << >> \in Frames /\ \A a \in Frames : a \o << >> = a
  BY DEF Frames

\* One frame alone.
LEMMA OneFrame == \A h \in Frame : <<h>> \in Frames
  BY DEF Frames

\* One frame more.
LEMMA AppendFrame == \A a \in Frames, h \in Frame : Append(a, h) \in Frames
  BY DEF Frames

\* How frames are grouped does not matter.
LEMMA Associates == \A a, b, c \in Frames : a \o (b \o c) = (a \o b) \o c
  BY DEF Frames

\* A frame at the end of the first part is one before the second.
LEMMA AppendThenConcat ==
    \A a, b \in Frames, h \in Frame : Append(a, h) \o b = a \o (<<h>> \o b)
  BY DEF Frames

\* A frame at the end of the second part is at the end of the whole.
LEMMA ConcatThenAppend ==
    \A a, b \in Frames, h \in Frame : a \o Append(b, h) = Append(a \o b, h)
  BY DEF Frames

\* Moving a message keeps the order: from the connection to the loop.
LEMMA MoveToHeld ==
    ASSUME NEW g \in Frames, NEW c \in Frames, NEW s \in Frames, s # << >>
    PROVE  ((g \o c) \o << >>) \o s = ((g \o c) \o <<Head(s)>>) \o Tail(s)
<1> DEFINE x == g \o c
<1>1. x \in Frames
  BY ConcatFrames
<1>2. Head(s) \in Frame /\ Tail(s) \in Frames /\ <<Head(s)>> \o Tail(s) = s
  BY HeadAndTail
<1>3. <<Head(s)>> \in Frames
  BY <1>2, OneFrame
<1> HIDE DEF x
<1>4. (x \o <<Head(s)>>) \o Tail(s) = x \o (<<Head(s)>> \o Tail(s))
  BY <1>1, <1>2, <1>3, Associates
<1>5. x \o << >> = x
  BY <1>1, NoFrames
<1> QED BY <1>2, <1>4, <1>5 DEF x

\* From the loop to the client.
LEMMA MoveToClient ==
    ASSUME NEW g \in Frames, NEW c \in Frames, NEW h \in Frames
    PROVE  (g \o (c \o h)) \o << >> = (g \o c) \o h
<1>1. (g \o c) \o h = g \o (c \o h)
  BY Associates
<1>2. (g \o c) \in Frames
  BY ConcatFrames
<1>3. (g \o c) \o h \in Frames
  BY <1>2, ConcatFrames
<1> QED BY <1>1, <1>3, NoFrames

\* From the connection into the client's hands.
LEMMA MoveToGot ==
    ASSUME NEW g \in Frames, NEW c \in Frames, c # << >>
    PROVE  Append(g, Head(c)) \o Tail(c) = g \o c
<1>1. Head(c) \in Frame /\ Tail(c) \in Frames /\ <<Head(c)>> \o Tail(c) = c
  BY HeadAndTail
<1> QED BY <1>1, AppendThenConcat

\* Reading a frame keeps the session's messages.
LEMMA ReadFrameInOrder ==
    ASSUME NEW w, InOrder(w), CanRead(w)
    PROVE  InOrder(ReadFrame(w))
<1> DEFINE X == w.got \o w.toClient
           h == Head(w.toServer)
           t == Tail(w.toServer)
           v == ReadFrame(w)
<1>1. /\ w.got \in Frames /\ w.toClient \in Frames /\ w.held \in Frames
      /\ w.toServer \in Frames /\ w.toServer # << >> /\ w.held = << >>
  BY DEF InOrder, CanRead, SessionType
<1>2. h \in Frame /\ t \in Frames /\ <<h>> \o t = w.toServer
  BY <1>1, HeadAndTail
<1>3. X \in Frames /\ <<h>> \in Frames
  BY <1>1, <1>2, ConcatFrames, OneFrame
<1>4. ((w.got \o w.toClient) \o << >>) \o w.toServer = ((w.got \o w.toClient) \o <<h>>) \o t
  BY <1>1, MoveToHeld
<1>5. /\ v.got = w.got /\ v.toClient = w.toClient /\ v.held = <<h>> /\ v.toServer = t
      /\ v.sent = w.sent /\ v.closed = w.closed /\ Len(v.held) = 1
      /\ v \in SessionType
  BY <1>2, <1>3 DEF InOrder, ReadFrame, SessionType
<1>6. Messages(v) = Messages(w) /\ Sent(v) = Sent(w)
  BY <1>1, <1>4, <1>5 DEF Messages, Sent
<1> QED BY <1>5, <1>6 DEF InOrder, SessionType

\* So does writing it back.
LEMMA MirrorInOrder ==
    ASSUME NEW w, InOrder(w)
    PROVE  InOrder(Mirror(w))
<1> DEFINE v == Mirror(w)
           Y == w.toClient \o w.held
<1>1. /\ w.got \in Frames /\ w.toClient \in Frames /\ w.held \in Frames
      /\ w.toServer \in Frames
  BY DEF InOrder, SessionType
<1>2. Y \in Frames /\ << >> \in Frames
  BY <1>1, ConcatFrames, NoFrames
<1>4. (w.got \o Y) \o << >> = (w.got \o w.toClient) \o w.held
  BY <1>1, MoveToClient
<1>5. /\ v.got = w.got /\ v.toClient = Y /\ v.held = << >>
      /\ v.toServer = w.toServer /\ v.sent = w.sent /\ v.closed = w.closed
      /\ v \in SessionType
  BY <1>2 DEF InOrder, Mirror, SessionType
<1>6. Messages(v) = Messages(w) /\ Sent(v) = Sent(w)
  BY <1>2, <1>4, <1>5 DEF Messages, Sent
<1>7. Len(v.held) = 0
  BY <1>5
<1> QED BY <1>5, <1>6, <1>7 DEF InOrder, SessionType

\* The client's reading keeps them too.
LEMMA ReceiveInOrder ==
    ASSUME NEW w, InOrder(w), w.toClient # << >>
    PROVE  InOrder(Receive(w))
<1> DEFINE v == Receive(w)
           h == Head(w.toClient)
           t == Tail(w.toClient)
<1>1. w.got \in Frames /\ w.toClient \in Frames
  BY DEF InOrder, SessionType
<1>2. h \in Frame /\ t \in Frames /\ <<h>> \o t = w.toClient
  BY <1>1, HeadAndTail
<1>3. Append(w.got, h) \in Frames /\ Append(w.got, h) \o t = w.got \o w.toClient
  BY <1>1, <1>2, AppendFrame, MoveToGot
<1>4. /\ v.got = Append(w.got, h) /\ v.toClient = t /\ v.held = w.held
      /\ v.toServer = w.toServer /\ v.sent = w.sent /\ v.closed = w.closed
      /\ v \in SessionType
  BY <1>2, <1>3 DEF InOrder, Receive, SessionType
<1>5. Messages(v) = Messages(w) /\ Sent(v) = Sent(w)
  BY <1>3, <1>4 DEF Messages, Sent
<1> QED BY <1>4, <1>5 DEF InOrder, SessionType

\* A message the client sends comes after all the others.
LEMMA SubmitInOrder ==
    ASSUME NEW w, InOrder(w), CanSubmit(w), w.sent < MaxMessages
    PROVE  InOrder(Submit(w))
<1> DEFINE v == Submit(w)
           X == w.got \o w.toClient \o w.held
           n == w.sent + 1
<1>1. /\ w.got \in Frames /\ w.toClient \in Frames /\ w.held \in Frames
      /\ w.toServer \in Frames /\ w.sent \in 0..MaxMessages /\ Messages(w) = Sent(w)
  BY DEF InOrder, CanSubmit, SessionType
<1>2. n \in Frame /\ n \in 0..MaxMessages
  BY <1>1, SessionAssumption DEF CloseFrame, Frame
<1>3. w.got \o w.toClient \in Frames
  BY <1>1, ConcatFrames
<1>4. X \in Frames
  BY <1>1, <1>3, ConcatFrames
<1>5. Append(w.toServer, n) \in Frames /\ X \o Append(w.toServer, n) = Append(X \o w.toServer, n)
  BY <1>1, <1>2, <1>4, AppendFrame, ConcatThenAppend
<1>6. /\ v.got = w.got /\ v.toClient = w.toClient /\ v.held = w.held
      /\ v.toServer = Append(w.toServer, n) /\ v.sent = n /\ v.closed = w.closed
      /\ v \in SessionType
  BY <1>2, <1>5 DEF InOrder, Submit, SessionType
<1>7. Messages(v) = Append(Sent(w), n)
  BY <1>1, <1>5, <1>6 DEF Messages
<1>8. Append(Sent(w), n) = Sent(v)
  <2>1. /\ Sent(w) \in Frames /\ Len(Sent(w)) = n
        /\ \A i \in 1..n : Sent(w)[i] = i - 1
    BY <1>1, SentFrames
  <2>2. /\ Sent(v) \in Frames /\ Len(Sent(v)) = n + 1
        /\ \A i \in 1..(n + 1) : Sent(v)[i] = i - 1
    BY <1>2, <1>6, SentFrames
  <2>3. n \in Nat
    BY <1>1
  <2> DEFINE s == Sent(w)
             u == Sent(v)
  <2> HIDE DEF s, u, n
  <2>4. Append(s, n) = u
    BY <1>2, <2>1, <2>2, <2>3 DEF Frames, s, u
  <2> QED BY <2>4 DEF s, u
<1> QED BY <1>6, <1>7, <1>8 DEF InOrder, SessionType

\* So does the close frame.
LEMMA SubmitCloseInOrder ==
    ASSUME NEW w, InOrder(w), CanSubmit(w)
    PROVE  InOrder(SubmitClose(w))
<1> DEFINE v == SubmitClose(w)
           X == w.got \o w.toClient \o w.held
<1>1. /\ w.got \in Frames /\ w.toClient \in Frames /\ w.held \in Frames
      /\ w.toServer \in Frames /\ w.sent \in 0..MaxMessages /\ Messages(w) = Sent(w)
  BY DEF InOrder, CanSubmit, SessionType
<1>2. CloseFrame \in Frame
  BY SessionAssumption DEF CloseFrame, Frame
<1>3. w.got \o w.toClient \in Frames
  BY <1>1, ConcatFrames
<1>4. X \in Frames
  BY <1>1, <1>3, ConcatFrames
<1>5. /\ Append(w.toServer, CloseFrame) \in Frames
      /\ X \o Append(w.toServer, CloseFrame) = Append(X \o w.toServer, CloseFrame)
  BY <1>1, <1>2, <1>4, AppendFrame, ConcatThenAppend
<1>6. /\ v.got = w.got /\ v.toClient = w.toClient /\ v.held = w.held
      /\ v.toServer = Append(w.toServer, CloseFrame) /\ v.sent = w.sent /\ v.closed = TRUE
      /\ v \in SessionType
  BY <1>5 DEF InOrder, SubmitClose, SessionType
<1>7. Messages(v) = Append(Sent(w), CloseFrame) /\ Sent(v) = Sent(w)
  BY <1>1, <1>5, <1>6 DEF Messages, Sent
<1> QED BY <1>6, <1>7 DEF InOrder, SessionType

\* A close frame among messages of which none is one is the last frame.
LEMMA CloseIsLast ==
    ASSUME NEW x \in Frames, NEW s \in Frames, NEW f \in Frames,
           s # << >>, s[1] = CloseFrame,
           \A i \in 1..Len(f) : f[i] # CloseFrame,
           x \o s \in {f, Append(f, CloseFrame)}
    PROVE  x = f /\ Tail(s) = << >> /\ x \o s # f
<1>0. CloseFrame \in Frame
  BY SessionAssumption DEF CloseFrame, Frame
<1>1. Tail(s) \in Frames /\ Len(Tail(s)) = Len(s) - 1
  BY HeadAndTail
<1>2. Len(x) \in Nat /\ Len(s) \in Nat \ {0} /\ Len(f) \in Nat
  BY EmptySeq DEF Frames
<1>3. /\ x \o s \in Frames /\ Len(x \o s) = Len(x) + Len(s)
      /\ \A i \in 1..Len(x) : (x \o s)[i] = x[i]
      /\ (x \o s)[Len(x) + 1] = CloseFrame
  BY <1>2 DEF Frames
<1>4. /\ Append(f, CloseFrame) \in Frames /\ Len(Append(f, CloseFrame)) = Len(f) + 1
      /\ \A i \in 1..Len(f) : Append(f, CloseFrame)[i] = f[i]
  BY <1>0 DEF Frames
<1>5. x \o s # f
  <2> SUFFICES ASSUME x \o s = f PROVE FALSE
    OBVIOUS
  <2>1. Len(x) + 1 \in 1..Len(f) /\ f[Len(x) + 1] = CloseFrame
    BY <1>2, <1>3
  <2> QED BY <2>1
<1>6. x \o s = Append(f, CloseFrame)
  BY <1>5
<1> DEFINE y == Append(f, CloseFrame)
<1> HIDE DEF y
<1>7. Len(x) = Len(f) /\ Len(s) = 1
  <2>1. Len(x) + Len(s) = Len(f) + 1
    BY <1>3, <1>4, <1>6
  <2>2. Len(x) >= Len(f)
    <3> SUFFICES ASSUME Len(x) < Len(f) PROVE FALSE
      BY <1>2
    <3>1. Len(x) + 1 \in 1..Len(f)
      BY <1>2
    <3>2. f[Len(x) + 1] = CloseFrame
      BY <1>3, <1>4, <1>6, <3>1
    <3> QED BY <3>1, <3>2
  <2>3. ASSUME NEW a \in Nat, NEW b \in Nat \ {0}, NEW c \in Nat, a + b = c + 1, a >= c
        PROVE  a = c /\ b = 1
    BY <2>3
  <2> QED BY <1>2, <2>1, <2>2, <2>3
<1>8. \A i \in 1..Len(x) : x[i] = f[i]
  BY <1>3, <1>4, <1>6, <1>7
<1>9. x = f
  BY <1>7, <1>8, SeqEqual DEF Frames
<1>10. Tail(s) = << >>
  BY <1>1, <1>7, EmptySeq DEF Frames
<1> QED BY <1>5, <1>9, <1>10

\* When the loop reads the close frame, nothing the client sent is left, and
\* the close comes back after everything else or not at all.
LEMMA MirrorCloseInOrder ==
    ASSUME NEW w, InOrder(w), CanRead(w), Head(w.toServer) = CloseFrame
    PROVE  /\ InOrder(MirrorClose(w)) /\ MirrorClose(w).toServer = << >>
           /\ MirrorClose(w).held = << >>
<1> DEFINE v == MirrorClose(w)
           X == w.got \o w.toClient
           M == Messages(w)
<1>1. /\ w.got \in Frames /\ w.toClient \in Frames /\ w.held = << >>
      /\ w.toServer \in Frames /\ w.toServer # << >> /\ w.sent \in 0..MaxMessages
  BY DEF InOrder, CanRead, SessionType
<1>2. CloseFrame \in Frame
  BY SessionAssumption DEF CloseFrame, Frame
<1>3. X \in Frames /\ << >> \in Frames
  BY <1>1, ConcatFrames, NoFrames
<1>4. M = X \o w.toServer
  <2>1. X \o << >> = X
    BY <1>3, NoFrames
  <2> QED BY <1>1, <2>1 DEF Messages
<1>5. /\ Sent(w) \in Frames /\ Len(Sent(w)) = w.sent + 1
      /\ \A i \in 1..(w.sent + 1) : Sent(w)[i] # CloseFrame
  BY <1>1, SentFrames
<1>6. M \in {Sent(w), Append(Sent(w), CloseFrame)}
  BY DEF InOrder, SessionType
<1>7. /\ w.toServer[1] = CloseFrame /\ Tail(w.toServer) \in Frames
      /\ Len(Tail(w.toServer)) = Len(w.toServer) - 1
  BY <1>1, HeadAndTail
<1>8. X = Sent(w) /\ Tail(w.toServer) = << >> /\ M # Sent(w)
  <2>1. \A i \in 1..Len(Sent(w)) : Sent(w)[i] # CloseFrame
    BY <1>5
  <2>2. X \o w.toServer \in {Sent(w), Append(Sent(w), CloseFrame)}
    BY <1>4, <1>6
  <2> HIDE DEF X
  <2>3. X = Sent(w) /\ Tail(w.toServer) = << >> /\ X \o w.toServer # Sent(w)
    BY <1>1, <1>3, <1>5, <1>7, <2>1, <2>2, CloseIsLast
  <2> QED BY <1>4, <2>3
<1>9. Append(w.toClient, CloseFrame) \in Frames
      /\ w.got \o Append(w.toClient, CloseFrame) = Append(X, CloseFrame)
  BY <1>1, <1>2, AppendFrame, ConcatThenAppend
<1>10. /\ v.got = w.got /\ v.held = << >> /\ v.toServer = << >> /\ v.sent = w.sent
       /\ v.closed = w.closed
       /\ v.toClient \in {w.toClient, Append(w.toClient, CloseFrame)}
       /\ v \in SessionType
  BY <1>1, <1>3, <1>8, <1>9 DEF InOrder, MirrorClose, SessionType
<1>11. w.closed = TRUE
  BY <1>8 DEF InOrder
<1>12. Messages(v) = w.got \o v.toClient
  <2>1. w.got \o v.toClient \in Frames
    BY <1>1, <1>9, <1>10, ConcatFrames
  <2>2. ((w.got \o v.toClient) \o << >>) \o << >> = w.got \o v.toClient
    BY <2>1, NoFrames
  <2> QED BY <1>10, <2>2 DEF Messages
<1>13. Messages(v) \in {Sent(v), Append(Sent(v), CloseFrame)}
  BY <1>8, <1>9, <1>10, <1>12 DEF Sent
<1>14. Len(v.held) = 0
  BY <1>10
<1> QED BY <1>10, <1>11, <1>13, <1>14 DEF InOrder, SessionType

-----------------------------------------------------------------------------
(* The recorder, the lengths and the labels.                                *)

RecOf(code, n) == [wrote |-> TRUE, status |-> code, captured |-> MinOf(n, dumpCap)]

WireOf(code, n) ==
    IF code \in Interim THEN [final |-> 200, body |-> n]
    ELSE [final |-> code, body |-> IF BodyAllowed(code) THEN n ELSE 0]

\* Capturing leaves the status alone.
LEMMA CaptureOnly ==
    \A a, b, c, e : [[wrote |-> a, status |-> b, captured |-> c] EXCEPT !.captured = e] =
                      [wrote |-> a, status |-> b, captured |-> e]
  OBVIOUS

\* The first status a recorder is given (recorder.go:30-37).
LEMMA HeaderOfFresh ==
    ASSUME NEW code \in Int \ {0}
    PROVE  WriteHeader([rec |-> NewRec, wire |-> NewWire], code) =
             [rec |-> [wrote |-> TRUE, status |-> code, captured |-> 0],
              wire |-> IF code \in Interim THEN NewWire ELSE [final |-> code, body |-> 0]]
<1>1. WithStatus(NewRec, code) = [wrote |-> TRUE, status |-> code, captured |-> 0]
  BY DEF WithStatus, NewRec
<1>2. WireHeader(NewWire, code) =
         IF code \in Interim THEN NewWire ELSE [final |-> code, body |-> 0]
  BY DEF WireHeader, NewWire
<1>3. NewRec.wrote = FALSE
  BY DEF NewRec
<1> QED BY <1>1, <1>2, <1>3 DEF WriteHeader

\* What a response leaves in a recorder and on a wire that were untouched
\* (recorder.go:30-53).
LEMMA RespondFresh ==
    ASSUME NEW r \in Requests, rec[r] = NewRec, wire[r] = NewWire,
           NEW code \in Int \ {0}, NEW n \in Nat, Respond(r, code, n)
    PROVE  /\ rec' = [rec EXCEPT ![r] = RecOf(code, n)]
           /\ wire' = [wire EXCEPT ![r] = WireOf(code, n)]
<1> DEFINE w == WriteHeader(Writer(r), code)
           v == Write(w, n)
<1>0. dumpCap \in Nat
  BY ExchangeAssumption DEF dumpCap
<1>1. Writer(r) = [rec |-> NewRec, wire |-> NewWire]
  BY DEF Writer
<1>2. w = [rec |-> [wrote |-> TRUE, status |-> code, captured |-> 0],
           wire |-> IF code \in Interim THEN NewWire ELSE [final |-> code, body |-> 0]]
  BY <1>1, HeaderOfFresh
<1>3. v = [rec |-> [w.rec EXCEPT !.captured = @ + MinOf(n, dumpCap - @)],
           wire |-> WireBody(w.wire, n)]
  BY <1>2 DEF Write, WriteHeader
<1>4. v.rec = RecOf(code, n)
  <2> DEFINE x == [wrote |-> TRUE, status |-> code, captured |-> 0]
             m == 0 + MinOf(n, dumpCap - 0)
  <2>1. w.rec = x /\ x.captured = 0
    BY <1>2
  <2>2. v.rec = [x EXCEPT !.captured = x.captured + MinOf(n, dumpCap - x.captured)]
    BY <1>3, <2>1
  <2>3. 0 + MinOf(n, dumpCap - 0) = MinOf(n, dumpCap)
    BY <1>0 DEF MinOf
  <2>4. v.rec = [x EXCEPT !.captured = m]
    BY <2>1, <2>2
  <2>5. [x EXCEPT !.captured = m] = [wrote |-> TRUE, status |-> code, captured |-> m]
    BY CaptureOnly, Zenon
  <2> QED BY <2>3, <2>4, <2>5 DEF RecOf
<1>5. v.wire = WireOf(code, n)
  <2>1. CASE code \in Interim
    <3>1. w.wire = NewWire
      BY <1>2, <2>1
    <3>2. WireHeader(NewWire, 200) = [final |-> 200, body |-> 0]
      BY DEF WireHeader, NewWire, Interim
    <3>3. BodyAllowed(200)
      BY DEF BodyAllowed
    <3>4. WireBody(NewWire, n) = [final |-> 200, body |-> n]
      BY <3>2, <3>3 DEF WireBody
    <3> QED BY <1>3, <2>1, <3>1, <3>4 DEF WireOf
  <2>2. CASE code \notin Interim
    <3> DEFINE x == [final |-> code, body |-> 0]
    <3>1. w.wire = x
      BY <1>2, <2>2
    <3>2. WireHeader(x, 200) = x
      BY DEF WireHeader
    <3>3. WireBody(x, n) = [final |-> code, body |-> IF BodyAllowed(code) THEN n ELSE 0]
      BY <3>2 DEF WireBody
    <3> QED BY <1>3, <2>2, <3>1, <3>3 DEF WireOf
  <2> QED BY <2>1, <2>2
<1>6. rec' = [rec EXCEPT ![r] = v.rec] /\ wire' = [wire EXCEPT ![r] = v.wire]
  BY DEF Respond, SetWriter
<1> QED BY <1>4, <1>5, <1>6

\* A status without a body: 101 and 204 (ws.go:35-48, handler.go:284-305).
LEMMA HeaderFresh ==
    ASSUME NEW r \in Requests, rec[r] = NewRec, wire[r] = NewWire,
           NEW code \in {101, 204}, SetWriter(r, WriteHeader(Writer(r), code))
    PROVE  /\ rec' = [rec EXCEPT ![r] = [wrote |-> TRUE, status |-> code, captured |-> 0]]
           /\ wire' = [wire EXCEPT ![r] = [final |-> code, body |-> 0]]
<1>1. code \in Int \ {0} /\ code \notin Interim
  BY DEF Interim
<1>2. Writer(r) = [rec |-> NewRec, wire |-> NewWire]
  BY DEF Writer
<1>3. WriteHeader(Writer(r), code) =
        [rec |-> [wrote |-> TRUE, status |-> code, captured |-> 0],
         wire |-> [final |-> code, body |-> 0]]
  BY <1>1, <1>2, HeaderOfFresh
<1> QED BY <1>3 DEF SetWriter

\* An aborted exchange is recorded and its wire untouched (recorder.go:55-60).
LEMMA AbortFresh ==
    ASSUME NEW r \in Requests, wire \in [Requests -> [final : {0} \union Statuses, body : Nat]],
           rec[r] = NewRec, wire[r] = NewWire,
           SetWriter(r, abort(Writer(r), StatusClientClosedRequest))
    PROVE  /\ rec' = [rec EXCEPT ![r] = [wrote |-> TRUE, status |-> 499, captured |-> 0]]
           /\ wire' = wire
<1>1. Writer(r) = [rec |-> NewRec, wire |-> NewWire]
  BY DEF Writer
<1>2. abort(Writer(r), 499) = [rec |-> WithStatus(NewRec, 499), wire |-> NewWire]
  <2>1. Writer(r).rec = NewRec /\ Writer(r).wire = NewWire
    BY <1>1
  <2>2. ~NewRec.wrote
    BY DEF NewRec
  <2> QED BY <2>1, <2>2 DEF abort
<1> DEFINE w == abort(Writer(r), 499)
<1>3. rec' = [rec EXCEPT ![r] = w.rec] /\ wire' = [wire EXCEPT ![r] = w.wire]
  BY DEF SetWriter, StatusClientClosedRequest
<1>4. w.rec = WithStatus(NewRec, 499) /\ w.wire = wire[r]
  BY <1>2
<1>5. WithStatus(NewRec, 499) = [wrote |-> TRUE, status |-> 499, captured |-> 0]
  BY DEF WithStatus, NewRec
<1> HIDE DEF w
<1> QED BY <1>3, <1>4, <1>5

\* Reading at most one byte beyond MAX_BODY_SIZE loses nothing that the echo
\* object, the legs of the dump and their markers show (handler.go:41-44,
\* 132, 378-384; verbose.go:132-144).
LEMMA LimitShowsAll ==
    ASSUME NEW n \in Nat
    PROVE  /\ BodyLimited(n) \in Nat
           /\ Forwarding => BodyLimited(n) = n
           /\ capBody(BodyLimited(n)) = capBody(n)
           /\ \A leg : section(leg, BodyLimited(n)) = section(leg, n)
           /\ Verbose => \A leg : section(leg, MinOf(n, dumpCap)) = section(leg, n)
           /\ capBody(n) \in [len : 0..MaxBody, truncated : BOOLEAN]
           /\ MinOf(n, dumpCap) \in 0..dumpCap
<1> USE ExchangeAssumption
<1>1. BodyLimited(n) \in Nat /\ (Forwarding => BodyLimited(n) = n)
  BY DEF BodyLimited, MinOf
<1>2. MinOf(BodyLimited(n), MaxBody) = MinOf(n, MaxBody) /\ (BodyLimited(n) > MaxBody <=> n > MaxBody)
  BY DEF BodyLimited, MinOf
<1>3. Verbose => /\ MinOf(MinOf(n, dumpCap), MaxBody) = MinOf(n, MaxBody)
                 /\ MinOf(n, dumpCap) > MaxBody <=> n > MaxBody
  BY DEF dumpCap, MinOf
<1>4. MinOf(n, MaxBody) \in 0..MaxBody /\ MinOf(n, dumpCap) \in 0..dumpCap
  BY DEF MinOf, dumpCap
<1>5. (BodyLimited(n) > MaxBody) = (n > MaxBody) /\ (n > MaxBody) \in BOOLEAN
      /\ (Verbose => (MinOf(n, dumpCap) > MaxBody) = (n > MaxBody))
  BY <1>2, <1>3
<1> QED BY <1>1, <1>2, <1>3, <1>4, <1>5, Zenon DEF capBody, section

-----------------------------------------------------------------------------
(* A step of one exchange and the others.                                   *)

\* What exchange q has to itself does not change.
Same(q) ==
    /\ pc'[q] = pc[q] /\ in'[q] = in[q] /\ link'[q] = link[q] /\ body'[q] = body[q]
    /\ rec'[q] = rec[q] /\ wire'[q] = wire[q] /\ up'[q] = up[q] /\ echoed'[q] = echoed[q]
    /\ dump'[q] = dump[q] /\ id'[q] = id[q] /\ log'[q] = log[q] /\ ws'[q] = ws[q]

\* A step of exchange r.
Step(r) ==
    Arrive(r) \/ HandlerStep(r) \/ UpstreamStep(r) \/ ClientLeaves(r) \/ ClientWS(r)

\* Local is about what an exchange has to itself.
LEMMA LocalFrame ==
    ASSUME NEW q \in Requests, Local(q), Same(q)
    PROVE  Local(q)'
<1> USE DEF Same
<1>0. IsUpgrade(q)' = IsUpgrade(q) /\ Status(q)' = Status(q) /\ Finished(q)' = Finished(q)
  BY DEF IsUpgrade, Status, Finished, Over
<1>1. Unanswered(q)' = Unanswered(q) /\ Answered(q)' = Answered(q) /\ InBody(q)' = InBody(q)
  BY <1>0 DEF Unanswered, Answered, InBody
<1>2. Routed(q)'
  BY <1>0 DEF Local, Routed
<1>3. Unwritten(q)' /\ BodyRead(q)' /\ UpLeg(q)'
  BY <1>0, <1>1 DEF Local, Unwritten, BodyRead, UpLeg
<1>4. Agrees(q)' = Agrees(q)
  BY DEF Agrees
<1>5. Written(q)'
  BY <1>1, <1>4 DEF Local, Written, Relays
<1>6. Dumped(q)'
  BY <1>0 DEF Local, Dumped, LegOK
<1>7. Logged(q)'
  BY <1>0 DEF Local, Logged
<1>8. SessionOK(q)'
  BY DEF Local, SessionOK
<1> QED BY <1>2, <1>3, <1>5, <1>6, <1>7, <1>8 DEF Local

\* No step of an exchange touches what another has to itself.
LEMMA OthersSame ==
    ASSUME TypeOK, NEW r \in Requests, NEW q \in Requests \ {r}, Step(r)
    PROVE  Same(q)
<1> USE DEF Same, Goto, TypeOK
<1>1. CASE Arrive(r)
  BY <1>1 DEF Arrive, dumpVars, doneVars
<1>2. CASE HandlerStep(r)
  <2> USE DEF dumpVars, doneVars, Respond, SetWriter
  <2>1. CASE ServeReserved(r) BY <2>1 DEF ServeReserved
  <2>2. CASE UpgradeWS(r) BY <2>2 DEF UpgradeWS, StartDump
  <2>3. CASE Accept(r)
    <3>1. \/ SetWriter(r, WriteHeader(Writer(r), 101)) /\ Goto(r, "finishWS")
          \/ Respond(r, 400, 1) /\ Goto(r, "finish")
      BY <2>3 DEF Accept
    <3>2. \E w : SetWriter(r, w)
      BY <3>1
    <3>3. \E p : Goto(r, p)
      BY <3>1
    <3> QED BY <2>3, <3>2, <3>3 DEF Accept
  <2>4. CASE ReadBody(r) BY <2>4 DEF ReadBody, StartDump
  <2>5. CASE ReadBodyFails(r) BY <2>5 DEF ReadBodyFails
  <2>6. CASE Forward(r) BY <2>6 DEF Forward
  <2>7. CASE Relay(r)
    <3>1. CASE Respond(r, 502, 1) BY <2>7, <3>1 DEF Relay
    <3>2. CASE Respond(r, up[r].answer.code, up[r].answer.len) BY <2>7, <3>2 DEF Relay
    <3> QED BY <2>7, <3>1, <3>2 DEF Relay
  <2>8. CASE RelayPanics(r) BY <2>8 DEF RelayPanics
  <2>9. CASE Preflight(r) BY <2>9 DEF Preflight
  <2>10. CASE Delay(r) BY <2>10 DEF Delay
  <2>11. CASE Echo(r) BY <2>11 DEF Echo
  <2>12. CASE DelayAborted(r) BY <2>12 DEF DelayAborted
  <2>13. CASE Response(r) BY <2>13 DEF Response, DumpLegs
  <2>14. CASE FlushLock(r) BY <2>14 DEF FlushLock
  <2>15. CASE FlushWrite(r) BY <2>15 DEF FlushWrite
  <2>16. CASE FlushUnlock(r) BY <2>16 DEF FlushUnlock
  <2>17. CASE Finish(r) BY <2>17 DEF Finish
  <2>18. CASE FinishPanics(r) BY <2>18 DEF FinishPanics
  <2>19. CASE Return(r) BY <2>19 DEF Return
  <2>20. CASE ReadWS(r) \/ MirrorWS(r) \/ CloseWS(r) \/ FailWS(r)
    BY <2>20 DEF ReadWS, MirrorWS, CloseWS, FailWS, Session
  <2> QED BY <1>2, <2>1, <2>2, <2>3, <2>4, <2>5, <2>6, <2>7, <2>8, <2>9, <2>10, <2>11,
             <2>12, <2>13, <2>14, <2>15, <2>16, <2>17, <2>18, <2>19, <2>20 DEF HandlerStep
<1>3. CASE UpstreamStep(r)
  BY <1>3 DEF UpstreamStep, UpstreamHeader, UpstreamAnswers, UpstreamFails, DumpLegs, dumpVars,
              doneVars
<1>4. CASE ClientLeaves(r)
  BY <1>4 DEF ClientLeaves, dumpVars, doneVars
<1>5. CASE ClientWS(r)
  BY <1>5 DEF ClientWS, dumpVars, doneVars
<1> QED BY <1>1, <1>2, <1>3, <1>4, <1>5 DEF Step

-----------------------------------------------------------------------------
(* The steps of an exchange keep TypeOK and its own part of the invariant.  *)

\* The upstream leg within its type.
LEMMA UpTyped ==
    ASSUME NEW A, NEW f, f \in [Requests -> [sent : Nat, resp : A, answer : A]],
           NEW r \in Requests, NEW x \in A, NEW n \in Nat
    PROVE  /\ [f EXCEPT ![r].resp = x] \in [Requests -> [sent : Nat, resp : A, answer : A]]
           /\ [f EXCEPT ![r].answer = x] \in [Requests -> [sent : Nat, resp : A, answer : A]]
           /\ [f EXCEPT ![r].sent = n] \in [Requests -> [sent : Nat, resp : A, answer : A]]
<1>1. f[r] \in [sent : Nat, resp : A, answer : A]
  OBVIOUS
<1>2. /\ [f[r] EXCEPT !.resp = x] \in [sent : Nat, resp : A, answer : A]
      /\ [f[r] EXCEPT !.answer = x] \in [sent : Nat, resp : A, answer : A]
      /\ [f[r] EXCEPT !.sent = n] \in [sent : Nat, resp : A, answer : A]
  BY <1>1
<1> QED BY <1>2

\* Steps that neither answer nor dump: arrival, the request to the upstream, the
\* delay and the two panics.
LEMMA StepOfPc ==
    ASSUME TypeOK, NEW r \in Requests, Local(r),
           Arrive(r) \/ Forward(r) \/ Delay(r) \/ RelayPanics(r) \/ FinishPanics(r)
    PROVE  TypeOK' /\ Local(r)'
<1> USE DEF Goto, dumpVars, doneVars, Arrive, Forward, Delay, RelayPanics, FinishPanics
<1>0. /\ in[r].len \in Nat /\ pc'[r] \in {"route", "upstream", "delay", "panicked"}
      /\ IsUpgrade(r)' = IsUpgrade(r) /\ Status(r)' = Status(r)
  BY InputsAssumption DEF TypeOK, IsUpgrade, Status
<1>1. TypeOK'
  <2>1. pc' \in [Requests -> {"idle", "route", "accept", "handle", "upstream", "relay",
                             "delay", "respond", "flush", "write", "unlock", "finish",
                             "finishWS", "echoing", "return", "done", "panicked"}]
    BY DEF TypeOK
  <2>2. up' \in [Requests -> [sent : Nat, resp : {NoAnswer} \union Upstream,
                             answer : {NoAnswer} \union Upstream]]
    <3>1. CASE Forward(r)
      <4>1. /\ up \in [Requests -> [sent : Nat, resp : {NoAnswer} \union Upstream,
                                  answer : {NoAnswer} \union Upstream]]
            /\ body[r] \in Nat /\ NoAnswer \in {NoAnswer} \union Upstream
        BY DEF TypeOK
      <4>2. up' = [up EXCEPT ![r].sent = body[r]]
        BY <3>1
      <4> QED BY <4>1, <4>2, UpTyped
    <3>2. CASE ~Forward(r)
      BY <3>2 DEF TypeOK
    <3> QED BY <3>1, <3>2
  <2>3. UNCHANGED <<in, link, body, rec, wire, echoed, dump, id, seq, mu, out, metrics, log, ws>>
    OBVIOUS
  <2> QED BY <2>1, <2>2, <2>3 DEF TypeOK
<1>2. Routed(r)'
  BY <1>0 DEF TypeOK, Local, Routed, Printing
<1>3. Unwritten(r)'
  BY <1>0 DEF TypeOK, Local, Unwritten, Unanswered, Printing
<1>4. BodyRead(r)'
  BY <1>0 DEF TypeOK, Local, BodyRead, InBody, Printing
<1>5. UpLeg(r)'
  BY <1>0, LimitShowsAll DEF TypeOK, Local, UpLeg, BodyRead, InBody, Routed, NewUp
<1>6. Written(r)'
  <2>1. CASE RelayPanics(r)
    <3>1. up[r].answer # NoAnswer /\ up[r].answer.code < 100
      BY <2>1 DEF NoAnswer
    <3>2. wire[r] = NewWire
      BY <2>1 DEF Local, Unwritten, Unanswered
    <3> QED BY <2>1, <3>1, <3>2 DEF TypeOK, Local, Written, Answered, Printing, NewWire
  <2>2. CASE FinishPanics(r)
    <3>1. Answered(r) /\ ~Answered(r)' /\ UNCHANGED <<rec, wire, up, in>>
      BY <2>2 DEF TypeOK, Answered, Printing
    <3>2. Relays(r)' <=> Relays(r)
      BY <3>1 DEF Relays
    <3>3. up[r].answer # NoAnswer => ~(up[r].answer.code < 100)
      <4>1. up[r].answer \in {NoAnswer} \union Upstream
        BY DEF TypeOK
      <4>2. ASSUME up[r].answer # NoAnswer PROVE up[r].answer.code \in Int
        <5>1. up[r].answer.code \in (1..999) \ Interim
          BY <4>1, <4>2, ExchangeAssumption
        <5>2. \A x \in (1..999) \ Interim : x \in Int
          OBVIOUS
        <5> QED BY <5>1, <5>2
      <4> QED BY <3>1, <4>2 DEF Local, Written
    <3> QED BY <3>1, <3>2, <3>3 DEF Local, Written
  <2>3. CASE Arrive(r) \/ Forward(r) \/ Delay(r)
    <3>1. wire[r] = NewWire
      BY <2>3 DEF Local, Unwritten, Unanswered
    <3> QED BY <2>3, <3>1 DEF TypeOK, Written, Answered, Printing, NewWire
  <2> QED BY <2>1, <2>2, <2>3
<1>7. Dumped(r)'
  BY <1>0 DEF TypeOK, Local, Dumped, Printing
<1>8. Logged(r)'
  BY <1>0 DEF TypeOK, Local, Logged, Finished, Over
<1>9. SessionOK(r)'
  BY <1>0 DEF TypeOK, Local, SessionOK
<1> QED BY <1>1, <1>2, <1>3, <1>4, <1>5, <1>6, <1>7, <1>8, <1>9 DEF Local

\* The types hold after a step that changes the place, the recorder and the wire
\* within their types.
LEMMA WriterTyped ==
    ASSUME TypeOK,
           pc' \in [Requests -> {"idle", "route", "accept", "handle", "upstream", "relay",
                                "delay", "respond", "flush", "write", "unlock", "finish",
                                "finishWS", "echoing", "return", "done", "panicked"}],
           rec' \in [Requests -> [wrote : BOOLEAN, status : {0} \union Statuses,
                                 captured : 0..dumpCap]],
           wire' \in [Requests -> [final : {0} \union Statuses, body : Nat]],
           UNCHANGED <<in, link, body, up, echoed, ws, dumpVars, doneVars>>
    PROVE  TypeOK'
BY DEF TypeOK, dumpVars, doneVars

\* A response keeps the invariant if it is what the upstream answered, or none
\* did.
LEMMA StepOfRespond ==
    ASSUME TypeOK, NEW r \in Requests, Local(r), Unanswered(r),
           NEW code \in Statuses, code \in Int \ {0}, NEW n \in Nat, Respond(r, code, n),
           NEW p \in {"finish", "respond"}, Goto(r, p),
           UNCHANGED <<in, link, body, up, echoed, ws, dumpVars, doneVars>>,
           pc[r] \notin Printing,
           p = "respond" => pc[r] \in {"handle", "delay", "relay"},
           up[r].answer # NoAnswer =>
              /\ code = up[r].answer.code /\ n = up[r].answer.len /\ code \notin Interim
              /\ code >= 100,
           Forwarding /\ up[r].answer = NoAnswer => code \in {101, 200, 400, 502},
           code = 499 => 499 \in {in[r].shape, up[r].answer.code}
    PROVE  TypeOK' /\ Local(r)'
<1> USE DEF Goto, dumpVars, doneVars
<1>1. rec[r] = NewRec /\ wire[r] = NewWire
  BY DEF Local, Unwritten
<1>2. /\ rec' = [rec EXCEPT ![r] = RecOf(code, n)]
      /\ wire' = [wire EXCEPT ![r] = WireOf(code, n)]
  BY <1>1, RespondFresh
<1>3. /\ rec'[r] = RecOf(code, n) /\ wire'[r] = WireOf(code, n)
      /\ pc'[r] = p /\ up'[r] = up[r] /\ in'[r] = in[r]
  BY <1>2 DEF TypeOK
<1>4. /\ rec'[r].wrote /\ rec'[r].status = code /\ rec'[r].captured = MinOf(n, dumpCap)
      /\ code \in Interim => wire'[r] = [final |-> 200, body |-> n]
      /\ code \notin Interim =>
            wire'[r] = [final |-> code, body |-> IF BodyAllowed(code) THEN n ELSE 0]
  BY <1>3 DEF RecOf, WireOf
<1>5. IsUpgrade(r)' = IsUpgrade(r)
  BY DEF IsUpgrade
<1>6. TypeOK'
  <2>1. RecOf(code, n) \in [wrote : BOOLEAN, status : {0} \union Statuses, captured : 0..dumpCap]
    BY LimitShowsAll DEF RecOf
  <2>2. WireOf(code, n) \in [final : {0} \union Statuses, body : Nat]
    BY DEF WireOf, Statuses
  <2>3. rec' \in [Requests -> [wrote : BOOLEAN, status : {0} \union Statuses,
                               captured : 0..dumpCap]]
    BY <1>2, <2>1 DEF TypeOK
  <2>4. wire' \in [Requests -> [final : {0} \union Statuses, body : Nat]]
    BY <1>2, <2>2 DEF TypeOK
  <2>5. pc' \in [Requests -> {"idle", "route", "accept", "handle", "upstream", "relay",
                             "delay", "respond", "flush", "write", "unlock", "finish",
                             "finishWS", "echoing", "return", "done", "panicked"}]
    BY DEF TypeOK
  <2> HIDE DEF Goto, dumpVars, doneVars
  <2> QED BY <2>3, <2>4, <2>5, WriterTyped
<1>7. Routed(r)' /\ Unwritten(r)'
  BY <1>3, <1>5 DEF Local, Routed, Unwritten, Unanswered, Printing
<1>8. BodyRead(r)'
  BY <1>3, <1>5 DEF Local, BodyRead, InBody, Printing
<1>9. UpLeg(r)'
  BY <1>3, <1>5 DEF Local, UpLeg
<1>10. Written(r)'
  <2>1. Agrees(r)'
    BY <1>4 DEF Agrees
  <2>2. BodyAllowed(code) => code \notin Interim
    BY DEF BodyAllowed, Interim
  <2>3. BodyAllowed(code) => rec'[r].captured = MinOf(wire'[r].body, dumpCap)
    BY <1>4, <2>2
  <2>4. wire'[r].final = 499 => code = 499
    BY <1>4
  <2>5. p # "panicked"
    OBVIOUS
  <2>6. up[r].answer # NoAnswer => Relays(r)'
    BY <1>3, <1>4 DEF Relays
  <2> QED BY <1>3, <1>4, <2>1, <2>3, <2>4, <2>5, <2>6 DEF Written
<1>11. Dumped(r)'
  <2>1. CASE p = "finish"
    BY <1>3, <2>1 DEF Dumped, Printing
  <2>2. CASE p = "respond" /\ pc[r] = "relay"
    BY <1>3, <1>5, <2>2 DEF Local, Dumped, LegOK, Printing
  <2>3. CASE p = "respond" /\ pc[r] \in {"handle", "delay"}
    <3>1. Verbose => dump'[r] = <<section(">", in[r].len)>>
      BY <2>3 DEF Local, Dumped
    <3>2. section(">", in[r].len).leg = ">"
      BY DEF section
    <3>3. LegOK(r, section(">", in[r].len))'
      BY <1>3, <3>2 DEF LegOK
    <3> QED BY <1>3, <2>3, <3>1, <3>3 DEF Dumped
  <2> QED BY <2>1, <2>2, <2>3
<1>12. Logged(r)'
  BY <1>3 DEF Local, Logged, Finished, Over, Unanswered, Printing
<1>13. SessionOK(r)'
  BY <1>3 DEF Local, SessionOK, Unanswered, Printing
<1> QED BY <1>6, <1>7, <1>8, <1>9, <1>10, <1>11, <1>12, <1>13 DEF Local

\* Every status with a body: the reserved endpoints, the 400s, the relay and the
\* echo are all the first answer of their exchange.
LEMMA RespondingSteps ==
    ASSUME TypeOK, NEW r \in Requests, Local(r),
           \/ ServeReserved(r) \/ ReadBodyFails(r) \/ Relay(r) \/ Echo(r)
           \/ pc[r] = "accept" /\ Respond(r, 400, 1) /\ Goto(r, "finish")
              /\ UNCHANGED <<in, link, body, up, echoed, ws, dumpVars, doneVars>>
    PROVE  TypeOK' /\ Local(r)'
<1>0. {200, 400, 502} \subseteq Statuses
  BY DEF Statuses
<1>u. NewUp.answer = NoAnswer
  BY DEF NewUp
<1>1. CASE ServeReserved(r) \/ ReadBodyFails(r)
  <2>1. PICK code \in {200, 400} : Respond(r, code, 1)
    BY <1>1 DEF ServeReserved, ReadBodyFails
  <2>2. pc[r] = "route" /\ Goto(r, "finish")
        /\ UNCHANGED <<in, link, body, up, echoed, ws, dumpVars, doneVars>>
    BY <1>1 DEF ServeReserved, ReadBodyFails
  <2>3. Unanswered(r) /\ up[r].answer = NoAnswer /\ pc[r] \notin Printing
    BY <1>u, <2>2 DEF Local, UpLeg, Unanswered, Printing
  <2>4. code \in Statuses /\ code \in Int \ {0} /\ code # 499 /\ code \in {101, 200, 400, 502}
    BY <1>0
  <2> QED BY <2>1, <2>2, <2>3, <2>4, StepOfRespond
<1>2. CASE pc[r] = "accept" /\ Respond(r, 400, 1) /\ Goto(r, "finish")
           /\ UNCHANGED <<in, link, body, up, echoed, ws, dumpVars, doneVars>>
  <2>1. Unanswered(r) /\ up[r].answer = NoAnswer /\ pc[r] \notin Printing
    BY <1>2, <1>u DEF Local, UpLeg, Unanswered, Printing
  <2> QED BY <1>0, <1>2, <2>1, StepOfRespond
<1>3. CASE Relay(r)
  <2>1. /\ pc[r] = "relay" /\ Goto(r, "respond")
        /\ UNCHANGED <<in, link, body, up, echoed, ws, dumpVars, doneVars>>
    BY <1>3 DEF Relay
  <2>2. Unanswered(r) /\ pc[r] \notin Printing
    BY <2>1 DEF Unanswered, Printing
  <2>3. CASE up[r].answer = NoAnswer /\ Respond(r, 502, 1)
    BY <1>0, <2>1, <2>2, <2>3, StepOfRespond
  <2>4. CASE /\ up[r].answer.code >= 100
             /\ Respond(r, up[r].answer.code, up[r].answer.len)
    <3>1. up[r].answer # NoAnswer
      BY <2>4 DEF NoAnswer
    <3>2. up[r].answer \in Upstream
      BY <3>1 DEF TypeOK
    <3>3. up[r].answer.code \in (1..999) \ Interim /\ up[r].answer.len \in Nat
      BY <3>2, ExchangeAssumption
    <3>4. up[r].answer.code \in Statuses
      BY <3>2 DEF Statuses
    <3>5. up[r].answer.code \in Int \ {0}
      <4>1. up[r].answer.code \in 1..999
        BY <3>3, Zenon
      <4>2. \A x \in 1..999 : x \in Int \ {0}
        OBVIOUS
      <4> QED BY <4>1, <4>2, Zenon
    <3> QED BY <2>1, <2>2, <2>4, <3>1, <3>3, <3>4, <3>5, StepOfRespond
  <2> QED BY <1>3, <2>3, <2>4 DEF Relay
<1>4. CASE Echo(r)
  <2>1. /\ pc[r] \in {"handle", "delay"} /\ Goto(r, "respond") /\ ~Forwarding
        /\ Respond(r, ShapedStatus(r), RespBody(r))
        /\ UNCHANGED <<in, link, body, up, echoed, ws, dumpVars, doneVars>>
    BY <1>4 DEF Echo, Local, Routed
  <2>2. Unanswered(r) /\ pc[r] \notin Printing /\ up[r].answer = NoAnswer
    BY <1>u, <2>1 DEF Unanswered, Printing, Local, UpLeg
  <2>3. in[r] \in Inputs /\ in[r].shape \in Int
    BY InputsAssumption DEF TypeOK
  <2>4. /\ ShapedStatus(r) \in Statuses /\ ShapedStatus(r) \in Int \ {0}
        /\ ShapedStatus(r) = 499 => in[r].shape = 499
    BY <1>0, <2>3 DEF ShapedStatus, Statuses
  <2>5. RespBody(r) \in Nat
    BY ExchangeAssumption DEF RespBody, TypeOK
  <2> QED BY <2>1, <2>2, <2>4, <2>5, StepOfRespond
<1> QED BY <1>1, <1>2, <1>3, <1>4

\* 101 and 204 go out without a body.
LEMMA HeaderSteps ==
    ASSUME TypeOK, NEW r \in Requests, Local(r), NEW code \in {101, 204},
           NEW p \in {"finishWS", "respond"}, Goto(r, p),
           SetWriter(r, WriteHeader(Writer(r), code)),
           UNCHANGED <<in, link, body, up, echoed, ws, dumpVars, doneVars>>,
           p = "finishWS" => pc[r] = "accept" /\ code = 101,
           p = "respond" => pc[r] = "handle" /\ ~Forwarding
    PROVE  TypeOK' /\ Local(r)'
<1> USE DEF Goto, dumpVars, doneVars
<1>1. rec[r] = NewRec /\ wire[r] = NewWire
  BY DEF Local, Unwritten, Unanswered
<1> DEFINE x == [wrote |-> TRUE, status |-> code, captured |-> 0]
           y == [final |-> code, body |-> 0]
<1>2. rec' = [rec EXCEPT ![r] = x] /\ wire' = [wire EXCEPT ![r] = y]
  BY <1>1, HeaderFresh
<1>3. /\ x.wrote /\ x.status = code /\ x.captured = 0 /\ y.final = code /\ y.body = 0
      /\ ~BodyAllowed(code) /\ code # 0 /\ code # 499 /\ (code = 101 \/ ~Forwarding)
  BY DEF BodyAllowed
<1>4. /\ x \in [wrote : BOOLEAN, status : {0} \union Statuses, captured : 0..dumpCap]
      /\ y \in [final : {0} \union Statuses, body : Nat]
  BY ExchangeAssumption DEF Statuses, dumpCap
<1> HIDE DEF x, y
<1>5. /\ rec'[r] = x /\ wire'[r] = y /\ pc'[r] = p /\ up'[r] = up[r] /\ in'[r] = in[r]
  BY <1>2 DEF TypeOK
<1>6. IsUpgrade(r)' = IsUpgrade(r)
  BY DEF IsUpgrade
<1>7. TypeOK'
  BY <1>2, <1>4 DEF TypeOK
<1>8. Routed(r)' /\ Unwritten(r)'
  BY <1>3, <1>5, <1>6 DEF Local, Routed, Unwritten, Unanswered, Printing
<1>9. BodyRead(r)' /\ UpLeg(r)'
  BY <1>5, <1>6 DEF Local, BodyRead, InBody, Printing, UpLeg
<1>10. Written(r)'
  <2>1. Agrees(r)'
    BY <1>3, <1>5 DEF Agrees
  <2>2. up[r].answer = NoAnswer
    BY DEF Local, UpLeg, NewUp
  <2> QED BY <1>3, <1>5, <2>1, <2>2 DEF Written
<1>11. Dumped(r)'
  <2>1. CASE p = "finishWS"
    BY <1>5, <2>1 DEF Dumped, Printing
  <2>2. CASE p = "respond"
    <3>1. Verbose => dump'[r] = <<section(">", in[r].len)>>
      BY <2>2 DEF Local, Dumped
    <3>2. section(">", in[r].len).leg = ">"
      BY DEF section
    <3>3. LegOK(r, section(">", in[r].len))'
      BY <1>5, <3>2 DEF LegOK
    <3> QED BY <1>5, <2>2, <3>1, <3>3 DEF Dumped
  <2> QED BY <2>1, <2>2
<1>12. Logged(r)' /\ SessionOK(r)'
  BY <1>5 DEF Local, Logged, Finished, Over, SessionOK
<1> QED BY <1>7, <1>8, <1>9, <1>10, <1>11, <1>12 DEF Local

\* The client left while the timer ran: 499 is recorded, the wire untouched.
LEMMA AbortStep ==
    ASSUME TypeOK, NEW r \in Requests, Local(r), DelayAborted(r)
    PROVE  TypeOK' /\ Local(r)'
<1> USE DEF Goto, dumpVars, doneVars, DelayAborted, NoticesLeaving
<1>1. rec[r] = NewRec /\ wire[r] = NewWire
  BY DEF Local, Unwritten, Unanswered
<1> DEFINE x == [wrote |-> TRUE, status |-> 499, captured |-> 0]
<1>2. rec' = [rec EXCEPT ![r] = x] /\ wire' = wire
  BY <1>1, AbortFresh DEF TypeOK
<1>3. /\ x.wrote /\ x.status = 499 /\ x.captured = 0
      /\ wire[r].final = 0 /\ wire[r].body = 0 /\ MinOf(0, dumpCap) = 0
  BY <1>1, ExchangeAssumption DEF NewWire, MinOf, dumpCap
<1>4. x \in [wrote : BOOLEAN, status : {0} \union Statuses, captured : 0..dumpCap]
  BY ExchangeAssumption DEF Statuses, dumpCap
<1> HIDE DEF x
<1>5. /\ rec'[r] = x /\ pc'[r] = "respond" /\ up'[r] = up[r] /\ in'[r] = in[r]
      /\ link'[r] \in {"gone", "half"} /\ wire'[r] = wire[r]
  BY <1>2 DEF TypeOK
<1>6. IsUpgrade(r)' = IsUpgrade(r)
  BY DEF IsUpgrade
<1>7. TypeOK'
  BY <1>2, <1>4 DEF TypeOK
<1>8. Routed(r)' /\ Unwritten(r)'
  BY <1>5, <1>6 DEF Local, Routed, Unwritten, Unanswered, Printing
<1>9. BodyRead(r)' /\ UpLeg(r)'
  BY <1>5, <1>6 DEF Local, BodyRead, InBody, Printing, UpLeg
<1>10. Written(r)'
  <2>1. Agrees(r)'
    BY <1>3, <1>5 DEF Agrees
  <2>2. up[r].answer = NoAnswer /\ ~Forwarding
    BY DEF Local, UpLeg, NewUp, Routed
  <2> QED BY <1>3, <1>5, <2>1, <2>2 DEF Written
<1>11. Dumped(r)'
  <2>1. Verbose => dump'[r] = <<section(">", in[r].len)>>
    BY DEF Local, Dumped
  <2>2. section(">", in[r].len).leg = ">"
    BY DEF section
  <2>3. LegOK(r, section(">", in[r].len))'
    BY <1>5, <2>2 DEF LegOK
  <2> QED BY <1>5, <2>1, <2>3 DEF Dumped
<1>12. Logged(r)' /\ SessionOK(r)'
  BY <1>5 DEF Local, Logged, Finished, Over, SessionOK
<1> QED BY <1>7, <1>8, <1>9, <1>10, <1>11, <1>12 DEF Local

Leg == [leg : {">", ">>", "<<", "<"}, shown : 0..MaxBody, marked : BOOLEAN]

\* A leg has its type.
LEMMA SectionType ==
    \A leg \in {">", ">>", "<<", "<"}, n \in Nat : section(leg, n) \in Leg
<1> SUFFICES ASSUME NEW leg \in {">", ">>", "<<", "<"}, NEW n \in Nat
             PROVE  section(leg, n) \in Leg
  OBVIOUS
<1>1. MinOf(n, MaxBody) \in 0..MaxBody
  BY ExchangeAssumption DEF MinOf
<1>2. (n > MaxBody) \in BOOLEAN
  OBVIOUS
<1> QED BY <1>1, <1>2, Zenon DEF section, Leg

\* verbose.Start gives an exchange its number and its first leg.
LEMMA StartDumpType ==
    ASSUME TypeOK, NEW r \in Requests, NEW n \in Nat, StartDump(r, <<section(">", n)>>)
    PROVE  /\ dump' \in [Requests -> Seq(Leg)] /\ seq' \in Nat /\ id' \in [Requests -> 0..seq']
           /\ mu' \in 0..seq' /\ out' \in Seq(1..seq')
           /\ Verbose => dump'[r] = <<section(">", n)>>
<1>1. section(">", n) \in Leg
  BY SectionType
<1> DEFINE e == section(">", n)
<1> HIDE DEF e
<1>2. <<e>> \in Seq(Leg)
  BY <1>1 DEF e
<1>3. CASE Verbose
  <2>1. /\ seq' = seq + 1 /\ id' = [id EXCEPT ![r] = seq + 1]
        /\ dump' = [dump EXCEPT ![r] = <<e>>] /\ mu' = mu /\ out' = out
    BY <1>3 DEF StartDump, e
  <2>2. dump' \in [Requests -> Seq(Leg)] /\ dump'[r] = <<e>>
    BY <1>2, <2>1 DEF TypeOK, Leg
  <2>3. seq' \in Nat /\ mu' \in 0..seq' /\ 0..seq \subseteq 0..seq' /\ seq + 1 \in 0..seq'
    BY <2>1 DEF TypeOK
  <2>5. id' \in [Requests -> 0..seq']
    BY <2>1, <2>3 DEF TypeOK
  <2>4. out' \in Seq(1..seq')
    BY <2>1, SeqMonotonic DEF TypeOK
  <2> QED BY <2>2, <2>3, <2>4, <2>5 DEF e
<1>4. CASE ~Verbose
  BY <1>4 DEF StartDump, dumpVars, TypeOK, Leg
<1> QED BY <1>3, <1>4

\* Legs are added at the end of a dump.
LEMMA DumpLegsAdds ==
    ASSUME TypeOK, NEW r \in Requests, NEW legs \in Seq(Leg), DumpLegs(r, legs)
    PROVE  /\ dump' \in [Requests -> Seq(Leg)]
           /\ Verbose => dump'[r] = dump[r] \o legs
           /\ UNCHANGED <<id, seq, mu, out>>
<1>1. dump \in [Requests -> Seq(Leg)]
  BY DEF TypeOK, Leg
<1> DEFINE s == dump[r]
           t == IF Verbose THEN s \o legs ELSE s
<1>2. s \in Seq(Leg)
  BY <1>1
<1>3. dump' = [dump EXCEPT ![r] = t]
  BY DEF DumpLegs
<1> HIDE DEF s
<1>4. t \in Seq(Leg)
  BY <1>2
<1>5. Verbose => t = s \o legs
  OBVIOUS
<1> HIDE DEF t
<1>6. dump' \in [Requests -> Seq(Leg)] /\ dump'[r] = t
  BY <1>1, <1>3, <1>4
<1> QED BY <1>5, <1>6 DEF DumpLegs, s

\* What is in a joined dump was in one of its parts.
LEMMA JoinedLegs ==
    ASSUME NEW s \in Seq(Leg), NEW t \in Seq(Leg), NEW k \in 1..Len(s \o t)
    PROVE  \/ \E i \in 1..Len(s) : (s \o t)[k] = s[i]
           \/ \E i \in 1..Len(t) : (s \o t)[k] = t[i]
<1>1. CASE k <= Len(s)
  BY <1>1
<1>2. CASE k > Len(s)
  <2>1. k - Len(s) \in 1..Len(t) /\ (s \o t)[k] = t[k - Len(s)]
    BY <1>2
  <2> QED BY <2>1
<1> QED BY <1>1, <1>2

\* The request was routed: its number and the first leg of its dump.
LEMMA StartSteps ==
    ASSUME TypeOK, NEW r \in Requests, Local(r), UpgradeWS(r) \/ ReadBody(r)
    PROVE  TypeOK' /\ Local(r)'
<1> USE DEF Goto, dumpVars, doneVars
<1>0. in[r] \in Inputs /\ in[r].len \in Nat /\ pc[r] = "route" /\ ~IsReserved(r)
  BY InputsAssumption DEF TypeOK, UpgradeWS, ReadBody
<1>1. IsUpgrade(r)' = IsUpgrade(r) /\ UNCHANGED <<in, link, rec, wire, up, ws, metrics, log>>
  BY DEF IsUpgrade, UpgradeWS, ReadBody
<1>2. CASE UpgradeWS(r)
  <2>1. /\ pc' = [pc EXCEPT ![r] = IF Verbose THEN "flush" ELSE "accept"]
        /\ IsUpgrade(r) /\ StartDump(r, <<section(">", 0)>>) /\ UNCHANGED <<body, echoed>>
    BY <1>2 DEF UpgradeWS
  <2>2. /\ dump' \in [Requests -> Seq(Leg)] /\ seq' \in Nat /\ id' \in [Requests -> 0..seq']
        /\ mu' \in 0..seq' /\ out' \in Seq(1..seq')
    BY <2>1, StartDumpType
  <2>3. TypeOK'
    BY <1>1, <2>1, <2>2 DEF TypeOK, Leg
  <2>4. pc'[r] = IF Verbose THEN "flush" ELSE "accept"
    BY <2>1 DEF TypeOK
  <2>5. Routed(r)' /\ Unwritten(r)' /\ BodyRead(r)' /\ UpLeg(r)'
    BY <1>0, <1>1, <2>1, <2>4
       DEF Local, Routed, Unwritten, Unanswered, BodyRead, InBody, UpLeg, Printing
  <2>6. Written(r)'
    BY <1>0, <1>1, <2>1, <2>4 DEF Local, Written, Answered, Printing
  <2>7. Dumped(r)' /\ Logged(r)' /\ SessionOK(r)'
    BY <1>0, <1>1, <2>1, <2>4 DEF Local, Dumped, Printing, Logged, Finished, Over, SessionOK
  <2> QED BY <2>3, <2>5, <2>6, <2>7 DEF Local
<1>3. CASE ReadBody(r)
  <2> DEFINE n == BodyLimited(in[r].len)
  <2>1. /\ n \in Nat /\ capBody(n) = capBody(in[r].len)
        /\ section(">", n) = section(">", in[r].len)
        /\ capBody(n) \in [len : 0..MaxBody, truncated : BOOLEAN]
    BY <1>0, LimitShowsAll
  <2>2. /\ pc' = [pc EXCEPT ![r] = "handle"] /\ ~IsUpgrade(r)
        /\ body' = [body EXCEPT ![r] = n] /\ echoed' = [echoed EXCEPT ![r] = capBody(n)]
        /\ StartDump(r, <<section(">", n)>>)
    BY <1>3 DEF ReadBody
  <2>3. /\ dump' \in [Requests -> Seq(Leg)] /\ seq' \in Nat /\ id' \in [Requests -> 0..seq']
        /\ mu' \in 0..seq' /\ out' \in Seq(1..seq')
        /\ Verbose => dump'[r] = <<section(">", n)>>
    BY <2>1, <2>2, StartDumpType
  <2> HIDE DEF n
  <2>4. TypeOK'
    BY <1>1, <2>1, <2>2, <2>3 DEF TypeOK, Leg
  <2>5. pc'[r] = "handle" /\ body'[r] = n /\ echoed'[r] = capBody(n)
    BY <2>2 DEF TypeOK
  <2>6. Routed(r)' /\ Unwritten(r)' /\ UpLeg(r)'
    BY <1>0, <1>1, <2>2, <2>5
       DEF Local, Routed, Unwritten, Unanswered, UpLeg, Printing
  <2>7. BodyRead(r)'
    BY <1>1, <2>1, <2>5 DEF BodyRead, n
  <2>8. Written(r)'
    BY <1>0, <1>1, <2>2, <2>5 DEF Local, Written, Answered, Printing
  <2>9. Dumped(r)'
    BY <1>1, <2>1, <2>3, <2>5 DEF Dumped, Printing
  <2>10. Logged(r)' /\ SessionOK(r)'
    BY <1>0, <1>1, <2>5 DEF Local, Logged, Finished, Over, SessionOK
  <2> QED BY <2>4, <2>6, <2>7, <2>8, <2>9, <2>10 DEF Local
<1> QED BY <1>2, <1>3

\* The header of the upstream's response concerns the upstream leg only.
LEMMA HeaderStep ==
    ASSUME TypeOK, NEW r \in Requests, Local(r), UpstreamHeader(r)
    PROVE  TypeOK' /\ Local(r)'
<1>1. /\ UNCHANGED <<pc, in, link, body, rec, wire, echoed, ws, dump, id, seq, mu, out, metrics, log>>
      /\ pc[r] = "upstream" /\ IsUpgrade(r)' = IsUpgrade(r) /\ Status(r)' = Status(r)
  BY DEF UpstreamHeader, dumpVars, doneVars, IsUpgrade, Status
<1>2. PICK u \in Upstream : up' = [up EXCEPT ![r].resp = u]
  BY DEF UpstreamHeader
<1>3. up \in [Requests -> [sent : Nat, resp : {NoAnswer} \union Upstream,
                          answer : {NoAnswer} \union Upstream]]
  BY DEF TypeOK
<1>4. up' \in [Requests -> [sent : Nat, resp : {NoAnswer} \union Upstream,
                           answer : {NoAnswer} \union Upstream]]
  BY <1>2, <1>3, UpTyped
<1>5. TypeOK'
  BY <1>1, <1>4 DEF TypeOK
<1>6. up'[r].sent = up[r].sent /\ up'[r].answer = up[r].answer
  BY <1>2, <1>3
<1>7. Routed(r)' /\ Unwritten(r)' /\ BodyRead(r)'
  BY <1>1 DEF Local, Routed, Unwritten, Unanswered, BodyRead, InBody, Printing
<1>8. UpLeg(r)'
  BY <1>1, <1>6 DEF Local, UpLeg, Routed
<1>9. Written(r)'
  <2>1. wire'[r].final = 0
    BY <1>1 DEF Local, Unwritten, Unanswered, NewWire
  <2>2. ~Answered(r)' /\ pc'[r] # "panicked" /\ wire'[r].final # 499
    BY <1>1, <2>1 DEF Answered, Printing
  <2> QED BY <2>2 DEF Written
<1>10. Dumped(r)'
  BY <1>1 DEF Local, Dumped, Printing
<1>11. Logged(r)' /\ SessionOK(r)'
  BY <1>1 DEF Local, Logged, Finished, Over, SessionOK
<1> QED BY <1>5, <1>7, <1>8, <1>9, <1>10, <1>11 DEF Local

\* The upstream answered or failed: the legs of the relay.
LEMMA UpstreamSteps ==
    ASSUME TypeOK, NEW r \in Requests, Local(r), UpstreamAnswers(r) \/ UpstreamFails(r)
    PROVE  TypeOK' /\ Local(r)'
<1> USE DEF Goto, dumpVars, doneVars
<1>n. PICK n : n = in[r].len
  OBVIOUS
<1>0. /\ n \in Nat /\ pc[r] = "upstream" /\ body[r] = BodyLimited(n)
      /\ up[r].sent = n /\ up[r].answer = NoAnswer
  BY <1>n, InputsAssumption
     DEF TypeOK, UpstreamAnswers, UpstreamFails, Local, BodyRead, InBody, UpLeg
<1>1. section(">>", body[r]) = section(">>", n) /\ section(">>", n) \in Leg
  BY <1>0, LimitShowsAll, SectionType
<1>2. /\ UNCHANGED <<in, link, body, rec, wire, echoed, ws, metrics, log>>
      /\ pc' = [pc EXCEPT ![r] = "relay"] /\ IsUpgrade(r)' = IsUpgrade(r)
  BY DEF UpstreamAnswers, UpstreamFails, IsUpgrade
<1>3. pc'[r] = "relay"
  BY <1>2 DEF TypeOK
<1>d. Verbose => dump[r] = <<section(">", n)>>
  BY <1>0, <1>n DEF Local, Dumped
<1>s. /\ section(">", n).leg = ">" /\ section(">>", n).leg = ">>"
      /\ \A m : section("<<", m).leg = "<<"
  BY DEF section
<1>r. /\ up[r] \in [sent : Nat, resp : {NoAnswer} \union Upstream,
                    answer : {NoAnswer} \union Upstream]
      /\ up \in [Requests -> [sent : Nat, resp : {NoAnswer} \union Upstream,
                             answer : {NoAnswer} \union Upstream]]
  BY DEF TypeOK
<1>4. /\ TypeOK' /\ up'[r].sent = n /\ (up'[r].answer # NoAnswer => up'[r].answer = up'[r].resp)
      /\ Verbose => \A k \in 1..Len(dump'[r]) : LegOK(r, dump[r][k])'
  <2>1. CASE UpstreamFails(r)
    <3>1. DumpLegs(r, <<section(">>", n)>>) /\ up' = [up EXCEPT ![r].resp = NoAnswer]
      BY <1>1, <2>1 DEF UpstreamFails
    <3>2. <<section(">>", n)>> \in Seq(Leg)
      BY <1>1
    <3>3. /\ dump' \in [Requests -> Seq(Leg)] /\ UNCHANGED <<id, seq, mu, out>>
          /\ Verbose => dump'[r] = <<section(">", n)>> \o <<section(">>", n)>>
      BY <1>d, <3>1, <3>2, DumpLegsAdds
    <3>u. up' \in [Requests -> [sent : Nat, resp : {NoAnswer} \union Upstream,
                               answer : {NoAnswer} \union Upstream]]
      BY <1>r, <3>1, UpTyped
    <3>4. TypeOK'
      BY <1>2, <3>1, <3>3, <3>u DEF TypeOK, Leg
    <3>a. PICK a : a = section(">", n)
      OBVIOUS
    <3>b. PICK b : b = section(">>", n)
      OBVIOUS
    <3>5. LegOK(r, a)' /\ LegOK(r, b)'
      BY <1>n, <1>s, <1>2, <3>a, <3>b DEF LegOK
    <3>6. a \in Leg /\ b \in Leg
      BY <1>0, <3>a, <3>b, SectionType
    <3>7. \A k \in 1..Len(<<a>> \o <<b>>) : (<<a>> \o <<b>>)[k] \in {a, b}
      <4>1. <<a>> \in Seq(Leg) /\ <<b>> \in Seq(Leg) /\ Len(<<a>>) = 1 /\ Len(<<b>>) = 1
        BY <3>6
      <4> QED BY <4>1, JoinedLegs
    <3>8. Verbose => \A k \in 1..Len(dump'[r]) : dump'[r][k] \in {a, b}
      BY <3>3, <3>7, <3>a, <3>b
    <3>9. up'[r].sent = n /\ up'[r].answer = NoAnswer
      BY <1>0, <1>r, <3>1
    <3> QED BY <3>4, <3>5, <3>8, <3>9
  <2>2. CASE UpstreamAnswers(r)
    <3>1. PICK u \in Upstream : /\ up' = [up EXCEPT ![r].answer = u] /\ up[r].resp = u
                                /\ DumpLegs(r, <<section(">>", n), section("<<", u.len)>>)
      BY <1>1, <1>r, <2>2 DEF UpstreamAnswers
    <3>2. u.len \in Nat
      BY ExchangeAssumption
    <3>a. PICK a : a = section(">", n)
      OBVIOUS
    <3>b. PICK b : b = section(">>", n)
      OBVIOUS
    <3>c. PICK c : c = section("<<", u.len)
      OBVIOUS
    <3>3. a \in Leg /\ b \in Leg /\ c \in Leg
      BY <1>0, <3>2, <3>a, <3>b, <3>c, SectionType
    <3>4. <<b, c>> \in Seq(Leg)
      BY <3>3
    <3>5. /\ dump' \in [Requests -> Seq(Leg)] /\ UNCHANGED <<id, seq, mu, out>>
          /\ Verbose => dump'[r] = <<a>> \o <<b, c>>
      BY <1>d, <3>1, <3>4, <3>a, <3>b, <3>c, DumpLegsAdds
    <3>6. up' \in [Requests -> [sent : Nat, resp : {NoAnswer} \union Upstream,
                               answer : {NoAnswer} \union Upstream]]
      BY <1>r, <3>1, UpTyped
    <3>7. up'[r].answer = u /\ up'[r].resp = u /\ up'[r].sent = n
      BY <1>0, <1>r, <3>1
    <3>8. TypeOK'
      BY <1>2, <3>5, <3>6 DEF TypeOK, Leg
    <3>9. LegOK(r, a)' /\ LegOK(r, b)' /\ LegOK(r, c)'
      BY <1>n, <1>s, <1>2, <3>7, <3>a, <3>b, <3>c DEF LegOK
    <3>10. \A k \in 1..Len(<<a>> \o <<b, c>>) : (<<a>> \o <<b, c>>)[k] \in {a, b, c}
      <4>1. <<a>> \in Seq(Leg) /\ Len(<<a>>) = 1 /\ Len(<<b, c>>) = 2
        BY <3>3
      <4>2. \A i \in 1..2 : <<b, c>>[i] \in {b, c}
        OBVIOUS
      <4> QED BY <3>4, <4>1, <4>2, JoinedLegs
    <3> QED BY <3>5, <3>7, <3>8, <3>9, <3>10
  <2> QED BY <2>1, <2>2
<1>5. Routed(r)' /\ Unwritten(r)' /\ BodyRead(r)'
  BY <1>0, <1>2, <1>3 DEF Local, Routed, Unwritten, Unanswered, BodyRead, InBody, Printing
<1>6. UpLeg(r)'
  BY <1>0, <1>2, <1>3, <1>4 DEF Local, UpLeg, Routed
<1>7. Written(r)'
  <2>1. wire'[r].final = 0
    BY <1>0, <1>2 DEF Local, Unwritten, Unanswered, NewWire
  <2>2. ~Answered(r)' /\ pc'[r] # "panicked" /\ wire'[r].final # 499
    BY <1>3, <2>1 DEF Answered, Printing
  <2> QED BY <2>2 DEF Written
<1>8. Dumped(r)'
  BY <1>3, <1>4 DEF Dumped
<1>9. Logged(r)' /\ SessionOK(r)'
  BY <1>0, <1>2, <1>3 DEF Local, Logged, Finished, Over, SessionOK
<1> QED BY <1>4, <1>5, <1>6, <1>7, <1>8, <1>9 DEF Local

\* The response leg shows what the client was sent, although the recorder keeps
\* one byte beyond MAX_BODY_SIZE at most (handler.go:132, verbose.go:132-144).
LEMMA ResponseStep ==
    ASSUME TypeOK, NEW r \in Requests, Local(r), Response(r)
    PROVE  TypeOK' /\ Local(r)'
<1> USE DEF Goto, dumpVars, doneVars
<1>1. /\ pc[r] = "respond" /\ DumpLegs(r, <<section("<", rec[r].captured)>>)
      /\ pc' = [pc EXCEPT ![r] = IF Verbose THEN "flush" ELSE "finish"]
      /\ UNCHANGED <<in, link, body, rec, wire, up, echoed, ws, metrics, log>>
      /\ IsUpgrade(r)' = IsUpgrade(r)
  BY DEF Response, IsUpgrade
<1>2. /\ pc'[r] = IF Verbose THEN "flush" ELSE "finish"
      /\ Answered(r) /\ ~IsUpgrade(r)
  BY <1>1 DEF TypeOK, Answered, Local, Routed
<1>3. rec[r].captured \in 0..dumpCap /\ wire[r].body \in Nat
  BY DEF TypeOK
<1>a. PICK a : a = section("<", rec[r].captured)
  OBVIOUS
<1>4. a \in Leg /\ a.leg = "<"
  <2>1. rec[r].captured \in Nat
    BY <1>3, ExchangeAssumption DEF dumpCap
  <2>2. a \in Leg
    BY <1>a, <2>1, SectionType
  <2>3. a.leg = "<"
    BY <1>a DEF section
  <2> QED BY <2>2, <2>3
<1>5. Verbose /\ BodyAllowed(rec[r].status) => a = section("<", wire[r].body)
  BY <1>2, <1>3, <1>a, LimitShowsAll DEF Local, Written
<1>6. <<a>> \in Seq(Leg)
  BY <1>4
<1>7. /\ dump' \in [Requests -> Seq(Leg)] /\ UNCHANGED <<id, seq, mu, out>>
      /\ Verbose => dump'[r] = dump[r] \o <<a>>
  BY <1>1, <1>6, <1>a, DumpLegsAdds
<1>8. TypeOK'
  BY <1>1, <1>7 DEF TypeOK, Leg
<1>9. Routed(r)' /\ Unwritten(r)' /\ BodyRead(r)' /\ UpLeg(r)'
  BY <1>1, <1>2
     DEF Local, Routed, Unwritten, Unanswered, BodyRead, InBody, UpLeg, Printing
<1>10. Written(r)'
  <2>1. Agrees(r)' = Agrees(r)
    BY <1>1, <1>2 DEF Agrees
  <2>2. pc'[r] # "panicked"
    BY <1>2
  <2> QED BY <1>1, <1>2, <2>1, <2>2 DEF Local, Written, Relays
<1>11. Dumped(r)'
  <2> SUFFICES ASSUME Verbose, NEW k \in 1..Len(dump'[r]) PROVE LegOK(r, dump[r][k])'
    BY <1>2 DEF Dumped, Printing
  <2>0. dump[r] \in Seq(Leg)
    BY DEF TypeOK, Leg
  <2>s. PICK s : s = dump[r]
    OBVIOUS
  <2>1. \A i \in 1..Len(s) : LegOK(r, s[i])
    BY <1>1, <2>s DEF Local, Dumped
  <2>2. dump'[r] = s \o <<a>> /\ s \in Seq(Leg) /\ k \in 1..Len(s \o <<a>>)
    BY <1>7, <2>0, <2>s
  <2>3. \/ \E i \in 1..Len(s) : (s \o <<a>>)[k] = s[i]
        \/ \E i \in 1..Len(<<a>>) : (s \o <<a>>)[k] = <<a>>[i]
    BY <1>6, <2>2, JoinedLegs
  <2>4. LegOK(r, a)'
    BY <1>1, <1>2, <1>4, <1>5 DEF LegOK, Printing
  <2>5. ASSUME NEW i \in 1..Len(s) PROVE LegOK(r, s[i])'
    <3>1. LegOK(r, s[i])
      BY <2>1
    <3> QED BY <1>1, <3>1 DEF LegOK, Printing
  <2>6. \A i \in 1..Len(<<a>>) : <<a>>[i] = a
    OBVIOUS
  <2>e. PICK e : e = (s \o <<a>>)[k]
    OBVIOUS
  <2>7. LegOK(r, e)'
    BY <2>e, <2>3, <2>4, <2>5, <2>6
  <2> QED BY <2>2, <2>7, <2>e
<1>12. Logged(r)' /\ SessionOK(r)'
  BY <1>1, <1>2 DEF Local, Logged, Finished, Over, SessionOK
<1> QED BY <1>8, <1>9, <1>10, <1>11, <1>12 DEF Local

\* Printing a block moves the exchange on and nothing else of its own.
LEMMA FlushSteps ==
    ASSUME TypeOK, NEW r \in Requests, Local(r), Printer,
           FlushLock(r) \/ FlushWrite(r) \/ FlushUnlock(r)
    PROVE  TypeOK' /\ Local(r)'
<1> USE DEF Goto, doneVars, FlushLock, FlushWrite, FlushUnlock
<1>1. /\ UNCHANGED <<in, link, body, rec, wire, up, echoed, ws, dump, id, seq, metrics, log>>
      /\ IsUpgrade(r)' = IsUpgrade(r) /\ pc[r] \in Printing
      /\ pc'[r] \in {"write", "unlock", IF IsUpgrade(r) THEN "accept" ELSE "finish"}
  BY DEF IsUpgrade, Printing, TypeOK
<1>2. TypeOK'
  <2>1. id[r] \in 1..seq
    BY <1>1 DEF Printer, Numbered, TypeOK
  <2>2. out' \in Seq(1..seq)
    <3>0. PICK x : x = id[r]
      OBVIOUS
    <3>s. PICK S : S = 1..seq
      OBVIOUS
    <3>1. out \in Seq(S) /\ (out' = out \/ out' = Append(out, x)) /\ x \in S
      BY <2>1, <3>0, <3>s DEF TypeOK
    <3> HIDE DEF FlushLock, FlushWrite, FlushUnlock
    <3>2. out' \in Seq(S)
      BY <3>1
    <3> QED BY <3>2, <3>s
  <2>3. mu' \in 0..seq
    BY DEF TypeOK
  <2>4. pc' \in [Requests -> {"idle", "route", "accept", "handle", "upstream", "relay",
                             "delay", "respond", "flush", "write", "unlock", "finish",
                             "finishWS", "echoing", "return", "done", "panicked"}]
    BY DEF TypeOK
  <2> QED BY <1>1, <2>2, <2>3, <2>4 DEF TypeOK
<1> HIDE DEF FlushLock, FlushWrite, FlushUnlock
<1>3. Routed(r)' /\ Unwritten(r)' /\ BodyRead(r)' /\ UpLeg(r)'
  BY <1>1 DEF Local, Routed, Unwritten, Unanswered, BodyRead, InBody, UpLeg, Printing
<1>4. Written(r)'
  <2>1. Agrees(r)' = Agrees(r)
    BY <1>1 DEF Agrees, Printing
  <2>2. pc'[r] # "panicked" /\ (Answered(r)' => Answered(r))
    BY <1>1 DEF Answered, Printing
  <2> QED BY <1>1, <2>1, <2>2 DEF Local, Written, Relays
<1>5. Dumped(r)'
  BY <1>1 DEF Local, Dumped, LegOK, Printing
<1>6. Logged(r)' /\ SessionOK(r)'
  BY <1>1 DEF Local, Logged, Finished, Over, SessionOK, Printing
<1> QED BY <1>2, <1>3, <1>4, <1>5, <1>6 DEF Local

\* A bag with one more x.
OneMore(B, x) == B (+) SetToBag({x})

\* Counting one more exchange leaves a bag.
LEMMA ObserveBag ==
    ASSUME NEW B, IsABag(B), NEW x
    PROVE  /\ IsABag(OneMore(B, x))
           /\ DOMAIN OneMore(B, x) = DOMAIN B \union {x}
           /\ OneMore(B, x)[x] = (IF x \in DOMAIN B THEN B[x] ELSE 0) + 1
           /\ \A y \in DOMAIN B \ {x} : OneMore(B, x)[y] = B[y]
<1> DEFINE C == OneMore(B, x)
           P == {n \in Nat : n > 0}
<1>1. B \in [DOMAIN B -> P]
  BY DEF IsABag
<1>2. C = [e \in DOMAIN B \union {x} |-> (IF e \in DOMAIN B THEN B[e] ELSE 0)
                                          + (IF e \in {x} THEN 1 ELSE 0)]
  BY DEF OneMore, SetToBag, (+)
<1> HIDE DEF C
<1>3. DOMAIN C = DOMAIN B \union {x}
  BY <1>2
<1>4. \A e \in DOMAIN B : B[e] \in Nat /\ B[e] > 0
  BY <1>1
<1>5. /\ C[x] = (IF x \in DOMAIN B THEN B[x] ELSE 0) + 1
      /\ \A y \in DOMAIN B \ {x} : C[y] = B[y]
  BY <1>2, <1>4
<1>6. \A e \in DOMAIN C : C[e] \in P
  BY <1>3, <1>4, <1>5
<1>7. C \in [DOMAIN C -> P]
  BY <1>2, <1>3, <1>6
<1> QED BY <1>3, <1>5, <1>7 DEF C, IsABag

\* finish writes the one log line of an exchange, under the recorded status.
LEMMA FinishStep ==
    ASSUME TypeOK, NEW r \in Requests, Local(r), Finish(r)
    PROVE  TypeOK' /\ Local(r)'
<1> USE DEF Goto, dumpVars
<1>1. /\ pc[r] \in {"finish", "finishWS"}
      /\ pc' = [pc EXCEPT ![r] = IF pc[r] = "finishWS" THEN "echoing" ELSE "return"]
      /\ log' = IF LogsOn /\ ~in[r].ignored
                THEN [log EXCEPT ![r] = Append(@, Status(r))] ELSE log
      /\ UNCHANGED <<in, link, body, rec, wire, up, echoed, ws, dump, id, seq, mu, out>>
      /\ IsUpgrade(r)' = IsUpgrade(r) /\ Status(r)' = Status(r)
      /\ IF MetricsOn THEN Observe(r) ELSE metrics' = metrics
  BY DEF Finish, IsUpgrade, Status
<1>2. pc'[r] = IF pc[r] = "finishWS" THEN "echoing" ELSE "return"
  BY <1>1 DEF TypeOK
<1>3. Answered(r) /\ rec[r].wrote /\ Agrees(r) /\ rec[r].status \in {0} \union Statuses
  BY <1>1 DEF Answered, Local, Written, TypeOK
<1>4. Status(r) \in Statuses
  <2>1. rec[r].status # 0
    BY <1>3 DEF Agrees, Interim
  <2> QED BY <1>3, <2>1 DEF Status
<1>5. log[r] = << >>
  BY <1>1 DEF Local, Logged, Finished, Over
<1>6. log' \in [Requests -> Seq(Statuses)] /\ Logged(r)'
  <2> PICK x : x = Status(r)
    OBVIOUS
  <2>1. <<x>> \in Seq(Statuses) /\ Append(<< >>, x) = <<x>>
    BY <1>4
  <2>2. log' = IF LogsOn /\ ~in[r].ignored THEN [log EXCEPT ![r] = <<x>>] ELSE log
    BY <1>1, <1>5, <2>1
  <2>3. log' \in [Requests -> Seq(Statuses)]
    BY <2>1, <2>2 DEF TypeOK
  <2>4. log'[r] = IF LogsOn /\ ~in[r].ignored THEN <<x>> ELSE << >>
    BY <1>5, <2>2 DEF TypeOK
  <2>5. Finished(r)'
    BY <1>2 DEF Finished, Over
  <2> QED BY <1>1, <2>3, <2>4, <2>5 DEF Logged
<1>7. IsABag(metrics')
  <2>1. IsABag(metrics)
    BY DEF TypeOK
  <2>2. MetricsOn => metrics' = OneMore(metrics, Labels(r))
    BY <1>1 DEF Observe, OneMore
  <2>3. MetricsOn => IsABag(OneMore(metrics, Labels(r)))
    BY <2>1, ObserveBag
  <2> QED BY <1>1, <2>1, <2>2, <2>3
<1>8. pc' \in [Requests -> {"idle", "route", "accept", "handle", "upstream", "relay",
                           "delay", "respond", "flush", "write", "unlock", "finish",
                           "finishWS", "echoing", "return", "done", "panicked"}]
  BY <1>1 DEF TypeOK
<1>9. TypeOK'
  BY <1>1, <1>6, <1>7, <1>8 DEF TypeOK
<1>10. Routed(r)' /\ Unwritten(r)' /\ BodyRead(r)' /\ UpLeg(r)'
  BY <1>1, <1>2
     DEF Local, Routed, Unwritten, Unanswered, BodyRead, InBody, UpLeg, Printing
<1>11. Written(r)'
  <2>1. Agrees(r)' = Agrees(r)
    BY <1>1, <1>2 DEF Agrees
  <2>2. pc'[r] # "panicked"
    BY <1>2
  <2> QED BY <1>1, <1>3, <2>1, <2>2 DEF Local, Written, Relays
<1>12. Dumped(r)' /\ SessionOK(r)'
  BY <1>1, <1>2 DEF Local, Dumped, SessionOK, Printing
<1> QED BY <1>6, <1>9, <1>10, <1>11, <1>12 DEF Local

\* net/http completes the response: a 200 where nothing final was written, which
\* is only after an abort.
LEMMA ReturnStep ==
    ASSUME TypeOK, NEW r \in Requests, Local(r), Return(r)
    PROVE  TypeOK' /\ Local(r)'
<1> USE DEF Goto, dumpVars, doneVars
<1> PICK y : y = WireHeader(wire[r], 200)
  OBVIOUS
<1>1. /\ pc[r] = "return" /\ pc' = [pc EXCEPT ![r] = "done"]
      /\ wire' = [wire EXCEPT ![r] = y]
      /\ UNCHANGED <<in, link, body, rec, up, echoed, ws, dump, id, seq, mu, out, metrics, log>>
      /\ IsUpgrade(r)' = IsUpgrade(r) /\ Status(r)' = Status(r)
  BY DEF Return, IsUpgrade, Status
<1>2. wire[r] \in [final : {0} \union Statuses, body : Nat]
  BY DEF TypeOK
<1>3. /\ y.final = IF wire[r].final = 0 THEN 200 ELSE wire[r].final
      /\ y.body = wire[r].body
      /\ y \in [final : {0} \union Statuses, body : Nat]
  BY <1>2 DEF WireHeader, Interim, Statuses
<1>4. pc'[r] = "done" /\ wire'[r] = y
  BY <1>1 DEF TypeOK
<1>5. TypeOK'
  BY <1>1, <1>3 DEF TypeOK
<1>6. Answered(r) /\ rec[r].wrote /\ Agrees(r)
  BY <1>1 DEF Answered, Local, Written
<1>7. up[r].answer # NoAnswer => wire[r].final # 0
  <2> SUFFICES ASSUME up[r].answer # NoAnswer PROVE wire[r].final # 0
    OBVIOUS
  <2>1. wire[r].final = up[r].answer.code /\ up[r].answer \in Upstream
    BY <1>6 DEF Local, Written, Relays, TypeOK
  <2>2. up[r].answer.code \in (1..999) \ Interim
    BY <2>1, ExchangeAssumption
  <2>3. \A x \in (1..999) \ Interim : x # 0
    OBVIOUS
  <2>4. up[r].answer.code # 0
    BY <2>2, <2>3, Zenon
  <2> QED BY <2>1, <2>4
<1>8. Agrees(r)'
  BY <1>1, <1>3, <1>4, <1>6 DEF Agrees, Interim
<1>9. Written(r)'
  <2>1. up[r].answer # NoAnswer => Relays(r)'
    <3> SUFFICES ASSUME up[r].answer # NoAnswer PROVE Relays(r)'
      OBVIOUS
    <3>1. y = wire[r]
      BY <1>2, <1>7 DEF WireHeader
    <3> QED BY <1>1, <1>4, <1>6, <3>1 DEF Local, Written, Relays
  <2> QED BY <1>1, <1>3, <1>4, <1>6, <1>7, <1>8, <2>1 DEF Local, Written
<1>10. Routed(r)' /\ Unwritten(r)' /\ BodyRead(r)' /\ UpLeg(r)'
  BY <1>1, <1>4
     DEF Local, Routed, Unwritten, Unanswered, BodyRead, InBody, UpLeg, Printing
<1>11. Dumped(r)' /\ Logged(r)' /\ SessionOK(r)'
  BY <1>1, <1>4 DEF Local, Dumped, Logged, Finished, Over, SessionOK, Printing
<1> QED BY <1>5, <1>9, <1>10, <1>11 DEF Local

\* Of an upgraded exchange, a session changes only the session.
LEMMA SessionLocal ==
    ASSUME TypeOK, NEW r \in Requests, Local(r), pc[r] \in {"echoing", "done"},
           NEW w, ws' = [ws EXCEPT ![r] = w], InOrder(w),
           Len(w.toServer) <= PipeSize, Len(w.toClient) <= PipeSize,
           NEW p \in {"echoing", "done"}, pc' = [pc EXCEPT ![r] = p],
           pc[r] = "done" => p = "done",
           p = "done" /\ link[r] = "open" /\ w # NewSession =>
              w.toServer = << >> /\ w.held = << >>,
           UNCHANGED <<in, link, body, rec, wire, up, echoed, dumpVars, doneVars>>
    PROVE  TypeOK' /\ Local(r)'
<1> USE DEF dumpVars, doneVars
<1>1. pc'[r] = p /\ ws'[r] = w /\ IsUpgrade(r)' = IsUpgrade(r) /\ Status(r)' = Status(r)
  BY DEF TypeOK, IsUpgrade, Status
<1>2. w \in SessionType /\ Len(w.held) <= 1
  BY DEF InOrder
<1>3. TypeOK'
  <2>1. ws' \in [Requests -> SessionType]
    BY <1>2 DEF TypeOK
  <2>2. \A q \in Requests : ws'[q] = IF q = r THEN w ELSE ws[q]
    BY DEF TypeOK
  <2>3. \A q \in Requests : /\ Len(ws'[q].toServer) <= PipeSize
                            /\ Len(ws'[q].toClient) <= PipeSize /\ Len(ws'[q].held) <= 1
    BY <1>2, <2>2 DEF TypeOK
  <2>4. pc' \in [Requests -> {"idle", "route", "accept", "handle", "upstream", "relay",
                             "delay", "respond", "flush", "write", "unlock", "finish",
                             "finishWS", "echoing", "return", "done", "panicked"}]
    BY DEF TypeOK
  <2> QED BY <2>1, <2>3, <2>4 DEF TypeOK
<1>4. Answered(r) /\ rec[r].wrote /\ Agrees(r) /\ (pc[r] = "echoing" => rec[r].status = 101)
  BY DEF Answered, Local, Written, Routed
<1>5. Agrees(r)'
  BY <1>1, <1>4 DEF Agrees
<1>6. Written(r)'
  BY <1>1, <1>4, <1>5 DEF Local, Written, Relays
<1>7. Routed(r)' /\ Unwritten(r)' /\ BodyRead(r)' /\ UpLeg(r)'
  BY <1>1, <1>4
     DEF Local, Routed, Unwritten, Unanswered, BodyRead, InBody, UpLeg, Printing
<1>8. Dumped(r)' /\ Logged(r)'
  BY <1>1 DEF Local, Dumped, Logged, Finished, Over, Printing
<1>9. SessionOK(r)'
  BY <1>1 DEF SessionOK
<1> QED BY <1>3, <1>6, <1>7, <1>8, <1>9 DEF Local

\* The loop of a session.
LEMMA SessionSteps ==
    ASSUME TypeOK, NEW r \in Requests, Local(r),
           ReadWS(r) \/ MirrorWS(r) \/ CloseWS(r) \/ FailWS(r)
    PROVE  TypeOK' /\ Local(r)'
<1> PICK w : w = ws[r]
  OBVIOUS
<1>0. /\ InOrder(w) /\ Len(w.toServer) <= PipeSize /\ Len(w.toClient) <= PipeSize
      /\ w.toServer \in Frames /\ w.toClient \in Frames /\ w.held \in Frames /\ Len(w.held) <= 1
  BY DEF Local, SessionOK, TypeOK, InOrder, SessionType
<1>p. PipeSize \in Nat
  BY SessionAssumption
<1>l. \A s \in Frames : Len(s) \in Nat
  BY DEF Frames
<1>s. ASSUME NEW v, NEW p, Session(r, v, p)
      PROVE  /\ pc[r] = "echoing" /\ ws' = [ws EXCEPT ![r] = v] /\ pc' = [pc EXCEPT ![r] = p]
             /\ UNCHANGED <<in, link, body, rec, wire, up, echoed, dumpVars, doneVars>>
  BY <1>s DEF Session, Goto
<1>1. CASE ReadWS(r)
  <2> PICK v : v = ReadFrame(w)
    OBVIOUS
  <2>1. CanRead(w) /\ Session(r, v, "echoing")
    BY <1>1 DEF ReadWS
  <2>2. InOrder(v)
    BY <1>0, <2>1, ReadFrameInOrder
  <2>3. v.toServer = Tail(w.toServer) /\ v.toClient = w.toClient /\ w.toServer # << >>
    BY <1>0, <2>1 DEF ReadFrame, CanRead, InOrder, SessionType
  <2>4. Len(v.toServer) <= PipeSize /\ Len(v.toClient) <= PipeSize
    BY <1>0, <1>p, <1>l, <2>3, HeadAndTail
  <2> QED BY <1>s, <2>1, <2>2, <2>4, SessionLocal
<1>2. CASE MirrorWS(r)
  <2> PICK v : v = Mirror(w)
    OBVIOUS
  <2>1. CanMirror(w) /\ Session(r, v, "echoing")
    BY <1>2 DEF MirrorWS
  <2>2. InOrder(v)
    BY <1>0, MirrorInOrder
  <2>3. v.toServer = w.toServer /\ v.toClient = w.toClient \o w.held
    BY <1>0 DEF Mirror, InOrder, SessionType
  <2>4. Len(v.toClient) <= PipeSize
    <3>1. Len(w.toClient \o w.held) = Len(w.toClient) + Len(w.held)
      BY <1>0 DEF Frames
    <3>2. Len(w.toClient) < PipeSize
      BY <2>1 DEF CanMirror
    <3>3. \A a, b \in Nat : a < PipeSize /\ b <= 1 => a + b <= PipeSize
      BY <1>p
    <3>4. Len(w.toClient) \in Nat /\ Len(w.held) \in Nat
      BY <1>0, <1>l
    <3>5. Len(w.toClient) + Len(w.held) <= PipeSize
      BY <1>0, <3>2, <3>3, <3>4
    <3> QED BY <2>3, <3>1, <3>5
  <2> QED BY <1>0, <1>s, <2>1, <2>2, <2>3, <2>4, SessionLocal
<1>3. CASE CloseWS(r)
  <2> PICK v : v = MirrorClose(w)
    OBVIOUS
  <2>1. CanRead(w) /\ Head(w.toServer) = CloseFrame /\ Session(r, v, "done")
    BY <1>3 DEF CloseWS
  <2>2. InOrder(v) /\ v.toServer = << >> /\ v.held = << >>
    BY <1>0, <2>1, MirrorCloseInOrder
  <2>3. v.toClient = IF Len(w.toClient) < PipeSize THEN Append(w.toClient, CloseFrame)
                     ELSE w.toClient
    BY <1>0 DEF MirrorClose, InOrder, SessionType
  <2>4. Len(v.toClient) <= PipeSize /\ Len(v.toServer) <= PipeSize
    <3>1. CloseFrame \in Frame
      BY SessionAssumption DEF CloseFrame, Frame
    <3>2. Len(Append(w.toClient, CloseFrame)) = Len(w.toClient) + 1
      BY <1>0, <3>1 DEF Frames
    <3>3. Len(v.toServer) = 0
      BY <2>2
    <3> QED BY <1>0, <1>p, <1>l, <2>3, <3>2, <3>3
  <2> QED BY <1>s, <2>1, <2>2, <2>4, SessionLocal
<1>4. CASE FailWS(r)
  <2>1. link[r] # "open" /\ Session(r, w, "done")
    BY <1>4 DEF FailWS
  <2> QED BY <1>0, <1>s, <2>1, SessionLocal
<1> QED BY <1>1, <1>2, <1>3, <1>4

\* The client of a session.
LEMMA ClientSteps ==
    ASSUME TypeOK, NEW r \in Requests, Local(r), ClientWS(r)
    PROVE  TypeOK' /\ Local(r)'
<1> PICK w : w = ws[r]
  OBVIOUS
<1>0. /\ InOrder(w) /\ Len(w.toServer) <= PipeSize /\ Len(w.toClient) <= PipeSize
      /\ w.toServer \in Frames /\ w.toClient \in Frames /\ w.sent \in 0..MaxMessages
  BY DEF Local, SessionOK, TypeOK, InOrder, SessionType
<1>p. PipeSize \in Nat
  BY SessionAssumption
<1>l. \A s \in Frames : Len(s) \in Nat
  BY DEF Frames
<1>u. /\ UNCHANGED <<in, link, body, rec, wire, up, echoed, dumpVars, doneVars>>
      /\ pc' = [pc EXCEPT ![r] = pc[r]]
  BY DEF ClientWS, TypeOK
<1>a. ASSUME NEW f \in Frame PROVE Len(Append(w.toServer, f)) = Len(w.toServer) + 1
  BY <1>0 DEF Frames
<1>1. CASE pc[r] = "echoing" /\ CanSubmit(w) /\ w.sent < MaxMessages
           /\ ws' = [ws EXCEPT ![r] = Submit(w)]
  <2> PICK v : v = Submit(w)
    OBVIOUS
  <2>1. InOrder(v)
    BY <1>0, <1>1, SubmitInOrder
  <2>2. v.toServer = Append(w.toServer, w.sent + 1) /\ v.toClient = w.toClient
    BY <1>0 DEF Submit, InOrder, SessionType
  <2>3. w.sent + 1 \in Frame
    BY <1>0, <1>1, SessionAssumption DEF Frame, CloseFrame
  <2>4. Len(v.toServer) <= PipeSize
    BY <1>0, <1>1, <1>p, <1>l, <1>a, <2>2, <2>3 DEF CanSubmit
  <2> QED BY <1>0, <1>1, <1>u, <2>1, <2>2, <2>4, SessionLocal
<1>2. CASE pc[r] = "echoing" /\ CanSubmit(w) /\ ws' = [ws EXCEPT ![r] = SubmitClose(w)]
  <2> PICK v : v = SubmitClose(w)
    OBVIOUS
  <2>1. InOrder(v)
    BY <1>0, <1>2, SubmitCloseInOrder
  <2>2. v.toServer = Append(w.toServer, CloseFrame) /\ v.toClient = w.toClient
    BY <1>0 DEF SubmitClose, InOrder, SessionType
  <2>3. CloseFrame \in Frame
    BY SessionAssumption DEF Frame, CloseFrame
  <2>4. Len(v.toServer) <= PipeSize
    BY <1>0, <1>2, <1>p, <1>l, <1>a, <2>2, <2>3 DEF CanSubmit
  <2> QED BY <1>0, <1>2, <1>u, <2>1, <2>2, <2>4, SessionLocal
<1>3. CASE w.toClient # << >> /\ ws' = [ws EXCEPT ![r] = Receive(w)]
  <2> PICK v : v = Receive(w)
    OBVIOUS
  <2>1. InOrder(v)
    BY <1>0, <1>3, ReceiveInOrder
  <2>2. v.toServer = w.toServer /\ v.held = w.held /\ v.toClient = Tail(w.toClient)
    BY <1>0 DEF Receive, InOrder, SessionType
  <2>3. Len(v.toClient) <= PipeSize
    BY <1>0, <1>3, <1>p, <1>l, <2>2, HeadAndTail
  <2>4. w # NewSession
    BY <1>3 DEF NewSession
  <2>5. /\ pc[r] \in {"echoing", "done"}
        /\ pc[r] = "done" /\ link[r] = "open" => w.toServer = << >> /\ w.held = << >>
    BY <2>4 DEF Local, SessionOK
  <2> QED BY <1>0, <1>3, <1>u, <2>1, <2>2, <2>3, <2>5, SessionLocal
<1> QED BY <1>1, <1>2, <1>3 DEF ClientWS

\* A client that leaves: the record of one that left before is not disturbed.
LEMMA LeaveStep ==
    ASSUME TypeOK, NEW r \in Requests, Local(r), ClientLeaves(r)
    PROVE  TypeOK' /\ Local(r)'
<1> USE DEF dumpVars, doneVars
<1>1. PICK how \in Departures : /\ link[r] = "open" \/ (link[r] = "stalled" /\ how = "gone")
                                /\ link' = [link EXCEPT ![r] = how]
  BY DEF ClientLeaves
<1>2. /\ UNCHANGED <<pc, in, body, rec, wire, up, echoed, ws, dump, id, seq, mu, out, metrics, log>>
      /\ IsUpgrade(r)' = IsUpgrade(r) /\ Status(r)' = Status(r) /\ pc[r] # "done"
  BY DEF ClientLeaves, IsUpgrade, Status
<1>3. link'[r] = how /\ link[r] \notin {"gone", "half"}
  BY <1>1 DEF TypeOK
<1>4. TypeOK'
  BY <1>1, <1>2 DEF TypeOK
<1>5. Routed(r)' /\ Unwritten(r)' /\ BodyRead(r)' /\ UpLeg(r)'
  BY <1>2 DEF Local, Routed, Unwritten, Unanswered, BodyRead, InBody, UpLeg
<1>6. Agrees(r) => Agrees(r)'
  BY <1>2, <1>3 DEF Agrees
<1>7. Written(r)'
  BY <1>2, <1>6 DEF Local, Written, Relays, Answered
<1>8. Dumped(r)' /\ Logged(r)' /\ SessionOK(r)'
  BY <1>2 DEF Local, Dumped, LegOK, Logged, Finished, Over, SessionOK
<1> QED BY <1>4, <1>5, <1>7, <1>8 DEF Local

\* Every step of an exchange keeps the types and the parts of all exchanges.
LEMMA StepLocal ==
    ASSUME TypeOK, \A q \in Requests : Local(q), Printer, NEW r \in Requests, Step(r)
    PROVE  TypeOK' /\ \A q \in Requests : Local(q)'
<1>1. TypeOK' /\ Local(r)'
  <2>0. Local(r)
    OBVIOUS
  <2>1. CASE Arrive(r) \/ Forward(r) \/ Delay(r) \/ RelayPanics(r) \/ FinishPanics(r)
    BY <2>0, <2>1, StepOfPc
  <2>2. CASE ServeReserved(r) \/ ReadBodyFails(r) \/ Relay(r) \/ Echo(r)
    BY <2>0, <2>2, RespondingSteps
  <2>3. CASE Accept(r)
    <3>1. CASE SetWriter(r, WriteHeader(Writer(r), 101)) /\ Goto(r, "finishWS")
      BY <2>0, <2>3, <3>1, HeaderSteps DEF Accept
    <3>2. CASE Respond(r, 400, 1) /\ Goto(r, "finish")
      BY <2>0, <2>3, <3>2, RespondingSteps DEF Accept
    <3> QED BY <2>3, <3>1, <3>2 DEF Accept
  <2>4. CASE Preflight(r)
    BY <2>0, <2>4, HeaderSteps DEF Preflight
  <2>5. CASE UpgradeWS(r) \/ ReadBody(r)
    BY <2>0, <2>5, StartSteps
  <2>6. CASE UpstreamStep(r)
    BY <2>0, <2>6, HeaderStep, UpstreamSteps DEF UpstreamStep
  <2>7. CASE DelayAborted(r)
    BY <2>0, <2>7, AbortStep
  <2>8. CASE Response(r)
    BY <2>0, <2>8, ResponseStep
  <2>9. CASE FlushLock(r) \/ FlushWrite(r) \/ FlushUnlock(r)
    BY <2>0, <2>9, FlushSteps
  <2>10. CASE Finish(r)
    BY <2>0, <2>10, FinishStep
  <2>11. CASE Return(r)
    BY <2>0, <2>11, ReturnStep
  <2>12. CASE ReadWS(r) \/ MirrorWS(r) \/ CloseWS(r) \/ FailWS(r)
    BY <2>0, <2>12, SessionSteps
  <2>13. CASE ClientWS(r)
    BY <2>0, <2>13, ClientSteps
  <2>14. CASE ClientLeaves(r)
    BY <2>0, <2>14, LeaveStep
  <2> QED BY <2>1, <2>2, <2>3, <2>4, <2>5, <2>6, <2>7, <2>8, <2>9, <2>10, <2>11, <2>12,
             <2>13, <2>14 DEF Step, HandlerStep
<1>2. ASSUME NEW q \in Requests \ {r} PROVE Local(q)'
  <2>1. Same(q)
    BY <1>2, OthersSame
  <2>2. q \in Requests /\ Local(q)
    OBVIOUS
  <2> QED BY <2>1, <2>2, LocalFrame
<1> QED BY <1>1, <1>2

-----------------------------------------------------------------------------
(* The printer: numbers, mutex and blocks.                                  *)

\* The blocks of a sequence of halves.
Atomic(s) ==
    \A i \in 1..Len(s) :
        /\ i % 2 = 1 /\ i < Len(s) => s[i] = s[i + 1]
        /\ \A j \in 1..(i - 1) : s[j] = s[i] => i % 2 = 0 /\ j = i - 1

\* A natural number is odd or even, the next one the other.
LEMMA Parity == \A n \in Nat : /\ n % 2 \in {0, 1}
                               /\ n % 2 = 0 <=> (n + 1) % 2 = 1
  OBVIOUS

\* The first half of a block of a new number.
LEMMA FirstHalf ==
    ASSUME NEW S, NEW s \in Seq(S), NEW x \in S, Atomic(s), Len(s) % 2 = 0,
           \A i \in 1..Len(s) : s[i] # x
    PROVE  Atomic(Append(s, x)) /\ Len(Append(s, x)) % 2 = 1
<1> DEFINE n == Len(s)
           t == Append(s, x)
<1>1. n \in Nat /\ Len(t) = n + 1 /\ t[n + 1] = x /\ \A i \in 1..n : t[i] = s[i]
  OBVIOUS
<1>2. (n + 1) % 2 = 1
  BY <1>1, Parity
<1> HIDE DEF t, n
<1>3. ASSUME NEW i \in 1..(n + 1), i % 2 = 1, i < n + 1 PROVE t[i] = t[i + 1]
  <2>1. i \in 1..n /\ i # n
    BY <1>1, <1>3 DEF n
  <2>2. i < n /\ i + 1 \in 1..n
    BY <1>1, <2>1
  <2>3. s[i] = s[i + 1]
    BY <1>3, <2>1, <2>2 DEF Atomic, n
  <2> QED BY <1>1, <2>1, <2>2, <2>3
<1>4. ASSUME NEW i \in 1..(n + 1), NEW j \in 1..(i - 1), t[j] = t[i]
      PROVE  i % 2 = 0 /\ j = i - 1
  <2>1. CASE i = n + 1
    <3>1. j \in 1..n
      BY <1>1, <2>1
    <3>2. s[j] = x
      BY <1>1, <1>4, <2>1, <3>1
    <3> QED BY <3>1, <3>2 DEF n
  <2>2. CASE i # n + 1
    <3>1. i \in 1..n /\ j \in 1..n
      BY <1>1, <2>2
    <3>2. s[j] = s[i]
      BY <1>1, <1>4, <3>1
    <3> QED BY <3>1, <3>2 DEF Atomic, n
  <2> QED BY <2>1, <2>2
<1>5. Atomic(t)
  BY <1>1, <1>3, <1>4 DEF Atomic
<1> QED BY <1>1, <1>2, <1>5 DEF t

\* The second half, right after the first.
LEMMA SecondHalf ==
    ASSUME NEW S, NEW s \in Seq(S), NEW x \in S, Atomic(s), Len(s) % 2 = 1, s[Len(s)] = x
    PROVE  Atomic(Append(s, x)) /\ Len(Append(s, x)) % 2 = 0
<1> DEFINE n == Len(s)
           t == Append(s, x)
<1>1. n \in Nat /\ Len(t) = n + 1 /\ t[n + 1] = x /\ \A i \in 1..n : t[i] = s[i]
  OBVIOUS
<1>2. (n + 1) % 2 = 0 /\ n # 0
  BY <1>1, Parity
<1> HIDE DEF t, n
<1>3. ASSUME NEW i \in 1..(n + 1), i % 2 = 1, i < n + 1 PROVE t[i] = t[i + 1]
  <2>1. CASE i = n
    BY <1>1, <1>2, <2>1 DEF n
  <2>2. CASE i # n
    <3>1. i \in 1..n /\ i < n /\ i + 1 \in 1..n
      BY <1>1, <1>3, <2>2
    <3>2. s[i] = s[i + 1]
      BY <1>3, <3>1 DEF Atomic, n
    <3> QED BY <1>1, <3>1, <3>2
  <2> QED BY <2>1, <2>2
<1>4. ASSUME NEW i \in 1..(n + 1), NEW j \in 1..(i - 1), t[j] = t[i]
      PROVE  i % 2 = 0 /\ j = i - 1
  <2>1. CASE i = n + 1
    <3>1. j \in 1..n
      BY <1>1, <2>1
    <3>2. s[j] = s[n] /\ n \in 1..n
      BY <1>1, <1>2, <1>4, <2>1, <3>1 DEF n
    <3>3. j = n
      <4> SUFFICES ASSUME j # n PROVE FALSE
        OBVIOUS
      <4>1. j \in 1..(n - 1)
        BY <1>1, <3>1
      <4>2. n % 2 = 0
        BY <3>2, <4>1 DEF Atomic, n
      <4> QED BY <4>2 DEF n
    <3> QED BY <1>1, <1>2, <2>1, <3>3
  <2>2. CASE i # n + 1
    <3>1. i \in 1..n /\ j \in 1..n
      BY <1>1, <2>2
    <3>2. s[j] = s[i]
      BY <1>1, <1>4, <3>1
    <3> QED BY <3>1, <3>2 DEF Atomic, n
  <2> QED BY <2>1, <2>2
<1>5. Atomic(t)
  BY <1>1, <1>3, <1>4 DEF Atomic
<1> QED BY <1>1, <1>2, <1>5 DEF t

\* A step that leaves the printer alone.
LEMMA PrinterIdle ==
    ASSUME TypeOK, Printer, NEW r \in Requests, UNCHANGED <<id, seq, mu, out>>,
           NEW p, pc' = [pc EXCEPT ![r] = p],
           \/ p = pc[r]
           \/ /\ pc[r] # "unlock" /\ p \notin {"idle", "write", "unlock"}
              /\ p = "route" => pc[r] = "idle"
              /\ p = "flush" => pc[r] = "respond" /\ Verbose
              /\ p \in {"handle", "upstream", "relay", "delay", "respond"} =>
                    Unprinted(r) \/ (pc[r] = "route" /\ ~Verbose)
    PROVE  Printer'
<1>1. pc'[r] = p /\ \A q \in Requests \ {r} : pc'[q] = pc[q]
  BY DEF TypeOK
<1>2. out \in Seq(1..seq) /\ seq \in Nat /\ Numbered(r)
  BY DEF TypeOK, Printer
<1>3. \A i \in 1..Len(out) : out[i] # 0
  <2> PICK n \in Nat : n = seq
    BY <1>2
  <2>1. \A i \in 1..Len(out) : out[i] \in 1..n
    BY <1>2, ElementOfSeq
  <2> QED BY <2>1
<1>4. Numbered(r)'
  BY <1>1, <1>2, <1>3 DEF Numbered, Unprinted, Printing
<1>5. ASSUME NEW q \in Requests \ {r} PROVE Numbered(q)'
  <2>1. Numbered(q)
    BY DEF Printer
  <2> QED BY <1>1, <2>1 DEF Numbered, Unprinted
<1>6. ASSUME Len(out) % 2 = 1 PROVE \E q \in Requests : pc'[q] = "unlock"
  <2>1. PICK q \in Requests : pc[q] = "unlock"
    BY <1>6 DEF Printer
  <2>2. pc'[q] = "unlock"
    BY <1>1, <2>1
  <2> QED BY <2>2
<1>7. BlocksAreAtomic'
  BY DEF Printer, BlocksAreAtomic
<1>8. \A q \in Requests : Numbered(q)'
  BY <1>4, <1>5
<1> QED BY <1>6, <1>7, <1>8 DEF Printer

\* A new number is larger than all that were given out.
LEMMA PrinterStart ==
    ASSUME TypeOK, Printer, NEW r \in Requests, NEW legs, Verbose, StartDump(r, legs),
           NEW p \in {"handle", "flush"}, pc' = [pc EXCEPT ![r] = p], pc[r] = "route"
    PROVE  Printer'
<1>1. /\ pc'[r] = p /\ id'[r] = seq + 1
      /\ \A q \in Requests \ {r} : pc'[q] = pc[q] /\ id'[q] = id[q]
      /\ out' = out /\ mu' = mu
  BY DEF TypeOK, StartDump
<1>2. seq \in Nat /\ out \in Seq(1..seq) /\ \A q \in Requests : id[q] \in 0..seq
  BY DEF TypeOK
<1>3. \A q \in Requests : id[q] # seq + 1
  BY <1>2
<1>4. \A i \in 1..Len(out) : out[i] # seq + 1
  <2> PICK n \in Nat : n = seq
    BY <1>2
  <2>1. \A i \in 1..Len(out) : out[i] \in 1..n
    BY <1>2, ElementOfSeq
  <2> QED BY <2>1
<1>5. \A q, q2 \in Requests : id'[q] = id'[q2] /\ id'[q] # 0 => q = q2
  BY <1>1, <1>3 DEF Printer
<1>6. Numbered(r)'
  BY <1>1, <1>2, <1>4 DEF Numbered, Unprinted, Printing
<1>7. ASSUME NEW q \in Requests \ {r} PROVE Numbered(q)'
  <2>1. Numbered(q)
    BY DEF Printer
  <2> QED BY <1>1, <2>1 DEF Numbered, Unprinted
<1>8. ASSUME Len(out) % 2 = 1 PROVE \E q \in Requests : pc'[q] = "unlock"
  <2>1. PICK q \in Requests : pc[q] = "unlock"
    BY <1>8 DEF Printer
  <2>2. pc'[q] = "unlock"
    BY <1>1, <2>1
  <2> QED BY <2>2
<1>9. BlocksAreAtomic'
  BY <1>1 DEF Printer, BlocksAreAtomic
<1>10. \A q \in Requests : Numbered(q)'
  BY <1>6, <1>7
<1> QED BY <1>1, <1>5, <1>8, <1>9, <1>10 DEF Printer

\* The mutex is taken when nobody is between its halves.
LEMMA PrinterLock ==
    ASSUME TypeOK, Printer, NEW r \in Requests, FlushLock(r)
    PROVE  Printer'
<1>1. /\ pc[r] = "flush" /\ pc'[r] = "write" /\ mu = 0 /\ mu' = id[r]
      /\ \A q \in Requests \ {r} : pc'[q] = pc[q]
      /\ UNCHANGED <<id, seq, out>>
  BY DEF TypeOK, FlushLock, Goto
<1>2. ASSUME NEW q \in Requests PROVE pc[q] \notin {"write", "unlock"} /\ Numbered(q)
  BY <1>1 DEF Printer, Numbered, Printing
<1>3. Numbered(r)'
  BY <1>1, <1>2 DEF Numbered, Unprinted, Printing
<1>4. ASSUME NEW q \in Requests \ {r} PROVE Numbered(q)'
  <2>1. Numbered(q) /\ pc[q] \notin {"write", "unlock"}
    BY <1>2
  <2> QED BY <1>1, <2>1 DEF Numbered, Unprinted
<1>5. Len(out) % 2 # 1
  BY <1>2 DEF Printer
<1>6. BlocksAreAtomic'
  BY <1>1 DEF Printer, BlocksAreAtomic
<1>7. \A q \in Requests : Numbered(q)'
  BY <1>3, <1>4
<1> QED BY <1>1, <1>5, <1>6, <1>7 DEF Printer

\* Who is between the halves of a block holds the mutex: it is one exchange.
LEMMA OneHolder ==
    ASSUME Printer, NEW r \in Requests, pc[r] \in {"write", "unlock"},
           NEW q \in Requests, pc[q] \in {"write", "unlock"}
    PROVE  q = r
<1>1. Numbered(r) /\ Numbered(q)
  BY DEF Printer
<1>2. id[r] = id[q] /\ id[r] # 0
  BY <1>1 DEF Numbered, Printing
<1> QED BY <1>2 DEF Printer

\* A half is printed.
LEMMA PrinterHalf ==
    ASSUME TypeOK, Printer, NEW r \in Requests, FlushWrite(r) \/ FlushUnlock(r)
    PROVE  Printer'
<1>1. /\ \A q \in Requests \ {r} : pc'[q] = pc[q]
      /\ UNCHANGED <<id, seq>> /\ out' = Append(out, id[r])
      /\ \/ pc[r] = "write" /\ pc'[r] = "unlock" /\ mu' = mu
         \/ pc[r] = "unlock" /\ pc'[r] \in {"accept", "finish"}
  BY DEF TypeOK, FlushWrite, FlushUnlock, Goto
<1>2. Numbered(r) /\ id[r] # 0 /\ Atomic(out)
  BY <1>1 DEF Printer, Numbered, Printing, BlocksAreAtomic, Atomic
<1>x. PICK x : x = id[r]
  OBVIOUS
<1>S. PICK S : S = 1..seq
  OBVIOUS
<1>3. out \in Seq(S) /\ x \in S
  BY <1>2, <1>x, <1>S DEF TypeOK
<1>4. \A q \in Requests \ {r} : pc[q] \notin {"write", "unlock"} /\ id[q] # x
  <2> TAKE q \in Requests \ {r}
  <2>1. pc[q] \notin {"write", "unlock"}
    BY <1>1, OneHolder
  <2>2. id[q] # x
    BY <1>2, <1>x DEF Printer
  <2> QED BY <2>1, <2>2
<1>5. /\ pc[r] = "write" => Len(out) % 2 = 0 /\ \A i \in 1..Len(out) : out[i] # x
      /\ pc[r] = "unlock" => Len(out) % 2 = 1 /\ out[Len(out)] = x
  <2>1. pc[r] = "write" => Len(out) % 2 # 1
    BY <1>4 DEF Printer
  <2>2. Len(out) % 2 \in {0, 1}
    BY <1>3, Parity
  <2> QED BY <1>2, <1>x, <2>1, <2>2 DEF Numbered, Unprinted
<1>6. /\ Atomic(Append(out, x))
      /\ pc[r] = "write" => Len(Append(out, x)) % 2 = 1
      /\ pc[r] = "unlock" => Len(Append(out, x)) % 2 = 0
  <2>1. CASE pc[r] = "write"
    BY <1>2, <1>3, <1>5, <2>1, FirstHalf
  <2>2. CASE pc[r] = "unlock"
    BY <1>2, <1>3, <1>5, <2>2, SecondHalf
  <2> QED BY <1>1, <2>1, <2>2
<1>o. PICK o : o = Append(out, x)
  OBVIOUS
<1>7. /\ out' = o /\ o[Len(o)] = x /\ Len(o) = Len(out) + 1
      /\ \A i \in 1..Len(o) : o[i] = x \/ (i \in 1..Len(out) /\ o[i] = out[i])
  <2>1. Len(out) \in Nat
    BY <1>3
  <2>2. Len(o) = Len(out) + 1 /\ o[Len(out) + 1] = x /\ \A i \in 1..Len(out) : o[i] = out[i]
    BY <1>3, <1>o
  <2>3. \A i \in 1..(Len(out) + 1) : i = Len(out) + 1 \/ i \in 1..Len(out)
    BY <2>1
  <2> QED BY <1>1, <1>x, <1>o, <2>2, <2>3
<1>8. Numbered(r)'
  BY <1>1, <1>2, <1>6, <1>7, <1>o, <1>x DEF Numbered, Unprinted, Printing
<1>9. ASSUME NEW q \in Requests \ {r} PROVE Numbered(q)'
  <2>1. Numbered(q) /\ pc[q] \notin {"write", "unlock"} /\ id[q] # x
    BY <1>4 DEF Printer
  <2>2. Unprinted(q) => \A i \in 1..Len(o) : o[i] # id[q]
    BY <1>7, <2>1 DEF Numbered
  <2> QED BY <1>1, <1>7, <2>1, <2>2 DEF Numbered, Unprinted
<1>10. ASSUME Len(o) % 2 = 1 PROVE \E q \in Requests : pc'[q] = "unlock"
  BY <1>1, <1>6, <1>10, <1>o
<1>11. BlocksAreAtomic'
  BY <1>6, <1>7, <1>o DEF BlocksAreAtomic, Atomic
<1>12. \A q \in Requests : Numbered(q)'
  BY <1>8, <1>9
<1> QED BY <1>1, <1>7, <1>10, <1>11, <1>12 DEF Printer

\* No step of an exchange disturbs the printer.
LEMMA StepPrinter ==
    ASSUME TypeOK, \A q \in Requests : Local(q), Printer, NEW r \in Requests, Step(r)
    PROVE  Printer'
<1> USE DEF Goto, dumpVars
<1>0. Routed(r)
  BY DEF Local
<1>1. CASE Arrive(r)
  BY <1>1, PrinterIdle DEF Arrive
<1>2. CASE ServeReserved(r) \/ ReadBodyFails(r)
  BY <1>2, PrinterIdle DEF ServeReserved, ReadBodyFails
<1>3. CASE Accept(r)
  <2>1. CASE pc' = [pc EXCEPT ![r] = "finishWS"]
    BY <1>3, <2>1, PrinterIdle DEF Accept
  <2>2. CASE pc' = [pc EXCEPT ![r] = "finish"]
    BY <1>3, <2>2, PrinterIdle DEF Accept
  <2> QED BY <1>3, <2>1, <2>2 DEF Accept
<1>4. CASE Forward(r)
  BY <1>4, PrinterIdle DEF Forward, Unprinted
<1>5. CASE Relay(r) \/ Preflight(r) \/ DelayAborted(r)
  BY <1>5, PrinterIdle DEF Relay, Preflight, DelayAborted, Unprinted
<1>6. CASE Echo(r)
  BY <1>6, PrinterIdle DEF Echo, Unprinted
<1>7. CASE RelayPanics(r) \/ FinishPanics(r)
  BY <1>7, PrinterIdle DEF RelayPanics, FinishPanics
<1>8. CASE Delay(r)
  BY <1>8, PrinterIdle DEF Delay, Unprinted
<1>9. CASE Response(r)
  <2>1. CASE Verbose
    BY <1>9, <2>1, PrinterIdle DEF Response, DumpLegs
  <2>2. CASE ~Verbose
    BY <1>9, <2>2, PrinterIdle DEF Response, DumpLegs
  <2> QED BY <2>1, <2>2
<1>10. CASE FlushLock(r)
  BY <1>10, PrinterLock
<1>11. CASE FlushWrite(r) \/ FlushUnlock(r)
  BY <1>11, PrinterHalf
<1>12. CASE Finish(r)
  <2>1. CASE pc' = [pc EXCEPT ![r] = "echoing"]
    BY <1>12, <2>1, PrinterIdle DEF Finish
  <2>2. CASE pc' = [pc EXCEPT ![r] = "return"]
    BY <1>12, <2>2, PrinterIdle DEF Finish
  <2> QED BY <1>12, <2>1, <2>2 DEF Finish
<1>13. CASE Return(r)
  BY <1>13, PrinterIdle DEF Return
<1>14. CASE ReadWS(r) \/ MirrorWS(r) \/ CloseWS(r) \/ FailWS(r)
  <2>1. /\ UNCHANGED <<id, seq, mu, out>> /\ pc[r] = "echoing"
        /\ \/ pc' = [pc EXCEPT ![r] = "echoing"]
           \/ pc' = [pc EXCEPT ![r] = "done"]
    BY <1>14 DEF ReadWS, MirrorWS, CloseWS, FailWS, Session
  <2>2. CASE pc' = [pc EXCEPT ![r] = "echoing"]
    BY <2>1, <2>2, PrinterIdle
  <2>3. CASE pc' = [pc EXCEPT ![r] = "done"]
    BY <2>1, <2>3, PrinterIdle
  <2> QED BY <2>1, <2>2, <2>3
<1>15. CASE ClientLeaves(r) \/ ClientWS(r)
  <2>1. UNCHANGED <<id, seq, mu, out>> /\ pc' = [pc EXCEPT ![r] = pc[r]]
    BY <1>15 DEF ClientLeaves, ClientWS, TypeOK
  <2> QED BY <2>1, PrinterIdle
<1>16. CASE UpstreamStep(r)
  <2>1. CASE UpstreamHeader(r)
    <3>1. UNCHANGED <<id, seq, mu, out>> /\ pc' = [pc EXCEPT ![r] = pc[r]]
      BY <2>1 DEF UpstreamHeader, dumpVars, TypeOK
    <3> QED BY <3>1, PrinterIdle
  <2>2. CASE UpstreamAnswers(r) \/ UpstreamFails(r)
    BY <2>2, PrinterIdle DEF UpstreamAnswers, UpstreamFails, DumpLegs, Unprinted
  <2> QED BY <1>16, <2>1, <2>2 DEF UpstreamStep
<1>17. CASE UpgradeWS(r)
  <2>1. CASE Verbose
    BY <1>17, <2>1, PrinterStart DEF UpgradeWS
  <2>2. CASE ~Verbose
    BY <1>17, <2>2, PrinterIdle DEF UpgradeWS, StartDump
  <2> QED BY <2>1, <2>2
<1>18. CASE ReadBody(r)
  <2>1. CASE Verbose
    BY <1>18, <2>1, PrinterStart DEF ReadBody
  <2>2. CASE ~Verbose
    BY <1>18, <2>2, PrinterIdle DEF ReadBody, StartDump
  <2> QED BY <2>1, <2>2
<1> QED BY <1>1, <1>2, <1>3, <1>4, <1>5, <1>6, <1>7, <1>8, <1>9, <1>10, <1>11, <1>12, <1>13,
           <1>14, <1>15, <1>16, <1>17, <1>18 DEF Step, HandlerStep

-----------------------------------------------------------------------------
(* The metrics: one observation for each exchange that is over.             *)

\* What was recorded of an exchange that is over does not change.
LEMMA CountedIdle ==
    ASSUME Counted, metrics' = metrics,
           \A q \in Requests : /\ (Finished(q)' <=> Finished(q))
                               /\ Finished(q) => Labels(q)' = Labels(q)
    PROVE  Counted'
<1>1. {q \in Requests : Finished(q)}' = {q \in Requests : Finished(q)}
  OBVIOUS
<1>2. ASSUME NEW l PROVE Observed(l)' = Observed(l) /\ Copies(l)' = Copies(l)
  BY DEF Observed, Copies
<1> QED BY <1>1, <1>2 DEF Counted

\* An observation adds one to the count of its labels and to no other.
LEMMA CopiesOneMore ==
    ASSUME IsABag(metrics), NEW x, metrics' = OneMore(metrics, x), NEW l
    PROVE  Copies(l)' = IF l = x THEN Copies(l) + 1 ELSE Copies(l)
<1>1. DOMAIN metrics' = DOMAIN metrics \union {x}
  BY ObserveBag
<1>2. metrics'[x] = (IF x \in DOMAIN metrics THEN metrics[x] ELSE 0) + 1
  BY ObserveBag
<1>3. \A y \in DOMAIN metrics \ {x} : metrics'[y] = metrics[y]
  BY ObserveBag
<1> QED BY <1>1, <1>2, <1>3 DEF Copies, BagIn, BagToSet

\* finish adds the observation of its exchange.
LEMMA CountedFinish ==
    ASSUME TypeOK, Counted, NEW r \in Requests, MetricsOn => Observe(r), ~Finished(r), Finished(r)',
           \A q \in Requests : Labels(q)' = Labels(q),
           \A q \in Requests \ {r} : (Finished(q)' <=> Finished(q))
    PROVE  Counted'
<1>1. IsFiniteSet({q \in Requests : Finished(q)}')
  <2>1. {q \in Requests : Finished(q)}' = {q \in Requests : Finished(q)} \union {r}
    OBVIOUS
  <2> QED BY <2>1, FS_AddElement DEF Counted
<1>2. ASSUME MetricsOn, NEW l PROVE Copies(l)' = Cardinality(Observed(l)')
  <2> PICK x : x = Labels(r)
    OBVIOUS
  <2>1. IsABag(metrics) /\ metrics' = OneMore(metrics, x)
    BY <1>2 DEF Observe, OneMore, TypeOK
  <2>3. Copies(l)' = IF l = x THEN Copies(l) + 1 ELSE Copies(l)
    BY <2>1, CopiesOneMore
  <2>4. Observed(l)' = IF l = x THEN Observed(l) \union {r} ELSE Observed(l)
    BY DEF Observed
  <2>5. IsFiniteSet(Observed(l)) /\ r \notin Observed(l) /\ Copies(l) = Cardinality(Observed(l))
    <3>1. Observed(l) \subseteq {q \in Requests : Finished(q)}
      BY DEF Observed
    <3>2. IsFiniteSet(Observed(l))
      BY <3>1, FS_Subset DEF Counted
    <3> QED BY <1>2, <3>2 DEF Counted, Observed
  <2>6. Cardinality(Observed(l) \union {r}) = Cardinality(Observed(l)) + 1
    BY <2>5, FS_AddElement
  <2> QED BY <2>3, <2>4, <2>5, <2>6
<1> QED BY <1>1, <1>2 DEF Counted

\* Only finish touches the metrics, and no step what an exchange was counted as.
LEMMA StepCounted ==
    ASSUME TypeOK, \A q \in Requests : Local(q), Counted, NEW r \in Requests, Step(r)
    PROVE  Counted'
<1> USE DEF Goto, doneVars
<1>1. ASSUME NEW q \in Requests, in'[q] = in[q], rec'[q] = rec[q] PROVE Labels(q)' = Labels(q)
  <2>1. Status(q)' = Status(q)
    BY <1>1 DEF Status
  <2> QED BY <1>1, <2>1 DEF Labels
<1>2. ASSUME NEW q \in Requests \ {r}
      PROVE  (Finished(q)' <=> Finished(q)) /\ Labels(q)' = Labels(q)
  <2>1. Same(q)
    BY OthersSame
  <2>2. Labels(q)' = Labels(q)
    BY <1>1, <2>1 DEF Same
  <2> QED BY <2>1, <2>2 DEF Same, Finished, Over
<1>3. CASE Finish(r)
  <2>1. /\ pc[r] \in {"finish", "finishWS"} /\ pc'[r] \in {"echoing", "return"}
        /\ in'[r] = in[r] /\ rec'[r] = rec[r] /\ (MetricsOn => Observe(r))
    BY <1>3 DEF Finish, TypeOK
  <2>2. ~Finished(r) /\ Finished(r)' /\ Labels(r)' = Labels(r)
    BY <1>1, <2>1 DEF Finished, Over
  <2> QED BY <1>2, <2>1, <2>2, CountedFinish
<1>4. CASE ~Finish(r)
  <2>1. /\ metrics' = metrics /\ in'[r] = in[r]
        /\ \/ ~Finished(r) /\ ~Finished(r)'
           \/ Finished(r) /\ Finished(r)' /\ rec'[r] = rec[r]
    <3> USE DEF Finished, Over, TypeOK
    <3>1. CASE Arrive(r) \/ Forward(r) \/ Delay(r) \/ RelayPanics(r) \/ FinishPanics(r)
      BY <3>1 DEF Arrive, Forward, Delay, RelayPanics, FinishPanics
    <3>2. CASE ServeReserved(r) \/ ReadBodyFails(r)
      BY <3>2 DEF ServeReserved, ReadBodyFails
    <3>3. CASE Accept(r)
      BY <3>3 DEF Accept
    <3>4. CASE Relay(r) \/ Echo(r) \/ Preflight(r) \/ DelayAborted(r)
      BY <3>4 DEF Relay, Echo, Preflight, DelayAborted
    <3>5. CASE UpgradeWS(r) \/ ReadBody(r)
      BY <3>5 DEF UpgradeWS, ReadBody
    <3>6. CASE UpstreamStep(r) \/ Response(r)
      BY <3>6 DEF UpstreamStep, UpstreamHeader, UpstreamAnswers, UpstreamFails, Response
    <3>7. CASE FlushLock(r) \/ FlushWrite(r) \/ FlushUnlock(r)
      BY <3>7 DEF FlushLock, FlushWrite, FlushUnlock
    <3>8. CASE Return(r)
      BY <3>8 DEF Return
    <3>9. CASE ReadWS(r) \/ MirrorWS(r) \/ CloseWS(r) \/ FailWS(r)
      BY <3>9 DEF ReadWS, MirrorWS, CloseWS, FailWS, Session
    <3>10. CASE ClientLeaves(r) \/ ClientWS(r)
      BY <3>10 DEF ClientLeaves, ClientWS
    <3> QED BY <1>4, <3>1, <3>2, <3>3, <3>4, <3>5, <3>6, <3>7, <3>8, <3>9, <3>10
            DEF Step, HandlerStep
  <2>2. (Finished(r)' <=> Finished(r)) /\ (Finished(r) => Labels(r)' = Labels(r))
    BY <1>1, <2>1
  <2> QED BY <1>2, <2>1, <2>2, CountedIdle
<1> QED BY <1>3, <1>4

-----------------------------------------------------------------------------
(* The theorems.                                                            *)

\* A session begins with the echo of the upgrade request to write.
LEMMA NewSessionInOrder ==
    InOrder(NewSession) /\ Len(NewSession.toServer) <= PipeSize /\ Len(NewSession.toClient) <= PipeSize
<1>1. 0 \in Frame /\ 0 \in 0..MaxMessages
  BY SessionAssumption DEF Frame, CloseFrame
<1>2. << >> \in Frames /\ <<0>> \in Frames
  BY <1>1, NoFrames, OneFrame
<1>3. /\ NewSession.toServer = << >> /\ NewSession.held = <<0>> /\ NewSession.toClient = << >>
      /\ NewSession.got = << >> /\ NewSession.sent = 0 /\ NewSession \in SessionType
  BY <1>1, <1>2 DEF NewSession, SessionType
<1>4. Messages(NewSession) = <<0>>
  BY <1>3 DEF Messages
<1>5. Sent(NewSession) = <<0>>
  <2>1. Sent(NewSession) = [i \in 1..1 |-> i - 1]
    BY <1>3 DEF Sent
  <2>2. <<0>> = [i \in 1..1 |-> 0]
    OBVIOUS
  <2>3. \A i \in 1..1 : i - 1 = 0
    OBVIOUS
  <2> QED BY <2>1, <2>2, <2>3
<1>6. Len(NewSession.held) = 1 /\ Len(NewSession.toServer) = 0 /\ Len(NewSession.toClient) = 0
  BY <1>3
<1> QED BY <1>3, <1>4, <1>5, <1>6, SessionAssumption DEF InOrder

\* The invariant holds before any request.
LEMMA InitInvariant == Init => IndInv
<1> SUFFICES ASSUME Init PROVE IndInv
  OBVIOUS
<1> USE DEF Init
<1>1. TypeOK
  <2>0. InOrder(NewSession) /\ Len(NewSession.toServer) <= PipeSize /\ Len(NewSession.toClient) <= PipeSize
    BY NewSessionInOrder
  <2>1. /\ pc \in [Requests -> {"idle", "route", "accept", "handle", "upstream", "relay",
                                "delay", "respond", "flush", "write", "unlock", "finish",
                                "finishWS", "echoing", "return", "done", "panicked"}]
        /\ in \in [Requests -> Inputs] /\ link \in [Requests -> {"open"} \union Departures]
        /\ body \in [Requests -> Nat]
    OBVIOUS
  <2>2. rec \in [Requests -> [wrote : BOOLEAN, status : {0} \union Statuses, captured : 0..dumpCap]]
    <3>1. 0 \in 0..dumpCap
      BY ExchangeAssumption DEF dumpCap
    <3>2. [wrote |-> FALSE, status |-> 0, captured |-> 0]
             \in [wrote : BOOLEAN, status : {0} \union Statuses, captured : 0..dumpCap]
      BY <3>1
    <3> QED BY <3>2
  <2>3. /\ wire \in [Requests -> [final : {0} \union Statuses, body : Nat]]
        /\ up \in [Requests -> [sent : Nat, resp : {NoAnswer} \union Upstream,
                               answer : {NoAnswer} \union Upstream]]
    OBVIOUS
  <2>4. echoed \in [Requests -> [len : 0..MaxBody, truncated : BOOLEAN]]
    BY LimitShowsAll
  <2>5. /\ dump \in [Requests -> Seq([leg : {">", ">>", "<<", "<"}, shown : 0..MaxBody,
                                      marked : BOOLEAN])]
        /\ id \in [Requests -> 0..seq] /\ seq \in Nat /\ mu \in 0..seq
        /\ out \in Seq(1..seq) /\ log \in [Requests -> Seq(Statuses)]
    OBVIOUS
  <2>6. IsABag(metrics)
    BY DEF IsABag, EmptyBag, SetToBag
  <2>7. /\ ws \in [Requests -> SessionType]
        /\ \A r \in Requests : Len(ws[r].toServer) <= PipeSize
                              /\ Len(ws[r].toClient) <= PipeSize /\ Len(ws[r].held) <= 1
    BY <2>0 DEF InOrder
  <2> QED BY <2>1, <2>2, <2>3, <2>4, <2>5, <2>6, <2>7 DEF TypeOK
<1>2. ASSUME NEW r \in Requests PROVE Local(r)
  <2>1. pc[r] = "idle" /\ rec[r] = NewRec /\ wire[r] = NewWire /\ up[r] = NewUp
        /\ log[r] = << >> /\ ws[r] = NewSession
    BY DEF NewRec, NewWire, NewUp
  <2>2. Routed(r) /\ Unwritten(r) /\ BodyRead(r)
    BY <2>1 DEF Routed, Unwritten, BodyRead, InBody, Printing
  <2>3. UpLeg(r) /\ Written(r)
    BY <2>1 DEF UpLeg, NewUp, Written, NewWire, Answered, Printing
  <2>4. Dumped(r) /\ Logged(r)
    BY <2>1 DEF Dumped, Printing, Logged, Finished, Over
  <2>5. SessionOK(r)
    BY <2>1, NewSessionInOrder DEF SessionOK
  <2> QED BY <2>2, <2>3, <2>4, <2>5 DEF Local
<1>3. Printer
  <2>1. out = << >> /\ Len(out) = 0
    OBVIOUS
  <2>2. \A r \in Requests : Numbered(r)
    BY DEF Numbered, Unprinted, Printing
  <2>3. Len(out) % 2 # 1
    BY <2>1
  <2>4. BlocksAreAtomic
    BY <2>1 DEF BlocksAreAtomic
  <2> QED BY <2>2, <2>3, <2>4 DEF Printer
<1>4. Counted
  <2>1. \A r \in Requests : ~Finished(r)
    BY DEF Finished, Over
  <2>2. {r \in Requests : Finished(r)} = {}
    BY <2>1
  <2>3. \A l : Observed(l) = {}
    BY <2>1 DEF Observed
  <2>4. \A l : Copies(l) = 0
    BY DEF Copies, BagIn, BagToSet, EmptyBag, SetToBag
  <2> QED BY <2>2, <2>3, <2>4, FS_EmptySet DEF Counted
<1> QED BY <1>1, <1>2, <1>3, <1>4 DEF IndInv

\* Every step, and none, keeps it.
LEMMA StepInvariant == IndInv /\ [Next]_vars => IndInv'
<1> SUFFICES ASSUME IndInv, [Next]_vars PROVE IndInv'
  OBVIOUS
<1>1. ASSUME NEW r \in Requests, Step(r) PROVE IndInv'
  BY <1>1, StepLocal, StepPrinter, StepCounted DEF IndInv
<1>2. CASE UNCHANGED vars
  <2> USE DEF vars, dumpVars, doneVars
  <2>1. TypeOK'
    BY <1>2 DEF IndInv, TypeOK
  <2>2. ASSUME NEW q \in Requests PROVE Local(q)'
    <3>1. Same(q) /\ Local(q)
      BY <1>2 DEF Same, IndInv
    <3> QED BY <3>1, LocalFrame
  <2>3. Printer'
    <3>1. \A q \in Requests : Numbered(q)'
      BY <1>2 DEF IndInv, Printer, Numbered, Unprinted
    <3> QED BY <1>2, <3>1 DEF IndInv, Printer, BlocksAreAtomic
  <2>4. Counted'
    <3>1. ASSUME NEW q \in Requests PROVE (Finished(q)' <=> Finished(q)) /\ Labels(q)' = Labels(q)
      <4>1. Status(q)' = Status(q)
        BY <1>2 DEF Status
      <4> QED BY <1>2, <4>1 DEF Finished, Over, Labels
    <3> QED BY <1>2, <3>1, CountedIdle DEF IndInv
  <2> QED BY <2>1, <2>2, <2>3, <2>4 DEF IndInv
<1> QED BY <1>1, <1>2 DEF Next, Step

\* Whatever the exchanges do, each is where its own history says, the printer
\* prints one block at a time and the metrics count what is over.
THEOREM Invariant == Spec => []IndInv
<1>1. Init => IndInv
  BY InitInvariant
<1>2. IndInv /\ [Next]_vars => IndInv'
  BY StepInvariant
<1> QED BY <1>1, <1>2, PTL DEF Spec

\* Every variable keeps its type: the capture its cap, the legs and the echo
\* object MAX_BODY_SIZE, the pipes of a session their size.
THEOREM TypeCorrect == Spec => []TypeOK
<1>1. IndInv => TypeOK
  BY DEF IndInv
<1> QED BY <1>1, Invariant, PTL

\* Whatever way serve came to its end, the exchange has one log line and one
\* observation, under the status that was recorded (handler.go:338-367).
THEOREM Accounting == Spec => []CountedOnce
<1>1. IndInv => CountedOnce
  <2> SUFFICES ASSUME IndInv PROVE CountedOnce
    OBVIOUS
  <2>1. \A r \in Requests : Logged(r)
    BY DEF IndInv, Local
  <2>2. MetricsOn => \A l : Copies(l) = Cardinality({r \in Requests : Finished(r) /\ Labels(r) = l})
    BY DEF IndInv, Counted, Observed
  <2> QED BY <2>1, <2>2 DEF CountedOnce, Logged
<1> QED BY <1>1, Invariant, PTL

\* 499 is never on the wire unless the client or the upstream asked for it
\* (recorder.go:11-13).
THEOREM ClosedOffWire == Spec => []ClosedRequestOffWire
<1>1. IndInv => ClosedRequestOffWire
  BY DEF IndInv, Local, Written, ClosedRequestOffWire
<1> QED BY <1>1, Invariant, PTL

\* However many exchanges print, no block is split or printed twice
\* (verbose.go:106-111).
THEOREM Blocks == Spec => []BlocksAreAtomic
<1>1. IndInv => BlocksAreAtomic
  BY DEF IndInv, Printer
<1> QED BY <1>1, Invariant, PTL

\* The markers of the echo object and of the dump tell every body longer than
\* MAX_BODY_SIZE from one that fits, although no more than one byte beyond it is
\* read or captured (handler.go:41-44, 132, 378-384).
THEOREM Truncation == Spec => []TruncationMarked
<1>1. IndInv => TruncationMarked
  <2> SUFFICES ASSUME IndInv, NEW r \in Requests,
                      pc[r] \in {"respond", "flush", "write", "unlock"}, ~IsUpgrade(r)
               PROVE  /\ echoed[r] = capBody(in[r].len)
                      /\ Verbose => \A k \in 1..Len(dump[r]) :
                            LET s == dump[r][k]
                            IN  /\ s.leg \in {">", ">>"} => s = section(s.leg, in[r].len)
                                /\ s.leg = "<<" => s = section("<<", up[r].answer.len)
                                /\ s.leg = "<" /\ BodyAllowed(rec[r].status) =>
                                      s = section("<", wire[r].body)
    BY DEF TruncationMarked
  <2>1. Local(r)
    BY DEF IndInv
  <2>2. echoed[r] = capBody(in[r].len)
    BY <2>1 DEF Local, BodyRead, InBody, Printing
  <2>3. Verbose => \A k \in 1..Len(dump[r]) : LegOK(r, dump[r][k])
    BY <2>1 DEF Local, Dumped, Printing
  <2> QED BY <2>2, <2>3 DEF LegOK
<1> QED BY <1>1, Invariant, PTL

\* Between the two ends of a session no message is lost, doubled or overtaken,
\* for any pipe size and number of messages (ws.go:41-74).
THEOREM Mirrored == Spec => []MirroredInOrder
<1>1. IndInv => MirroredInOrder
  <2> SUFFICES ASSUME IndInv, NEW r \in Requests
               PROVE  /\ Messages(ws[r]) \in {Sent(ws[r]), Append(Sent(ws[r]), CloseFrame)}
                      /\ pc[r] = "done" /\ link[r] = "open" /\ ws[r] # NewSession =>
                            ws[r].toServer \o ws[r].held = << >>
    BY DEF MirroredInOrder
  <2>1. SessionOK(r)
    BY DEF IndInv, Local
  <2>2. << >> \o << >> = << >>
    OBVIOUS
  <2> QED BY <2>1, <2>2 DEF SessionOK, InOrder
<1> QED BY <1>1, Invariant, PTL

\* Forwarding relays whole bodies and the upstream's status, whatever the limit
\* (handler.go:378-384, forward.go:119-139), and no part of a response; what is
\* served locally never reaches the upstream.
THEOREM Relayed == Spec => []RelayUnchanged
<1>1. IndInv => RelayUnchanged
  <2> SUFFICES ASSUME IndInv, NEW r \in Requests, Forwarding
               PROVE  LET u == up[r].resp
                      IN  /\ pc[r] = "upstream" => up[r].sent = in[r].len
                          /\ up[r].answer # NoAnswer /\ pc[r] # "relay" =>
                                IF u.code < 100
                                THEN pc[r] = "panicked" /\ wire[r] = [final |-> 0, body |-> 0]
                                ELSE wire[r] = [final |-> u.code,
                                                body |-> IF BodyAllowed(u.code) THEN u.len ELSE 0]
                          /\ Over(r) /\ up[r].answer = NoAnswer => Status(r) \in {101, 200, 400, 502}
                          /\ IsUpgrade(r) => up[r].sent = 0
    BY DEF RelayUnchanged
  <2>1. /\ UpLeg(r) /\ Written(r)
        /\ pc[r] \in {"idle", "route", "accept", "handle", "upstream", "relay",
                       "delay", "respond", "flush", "write", "unlock", "finish",
                       "finishWS", "echoing", "return", "done", "panicked"}
        /\ up[r].answer \in {NoAnswer} \union Upstream
    BY DEF IndInv, Local, TypeOK
  <2>2. NewUp.answer = NoAnswer /\ NewUp.sent = 0
    BY DEF NewUp
  <2>3. up[r].answer # NoAnswer /\ pc[r] # "relay" => Answered(r) \/ pc[r] = "panicked"
    BY <2>1, <2>2 DEF UpLeg, Answered, Printing
  <2>4. Over(r) => Answered(r) \/ pc[r] = "panicked"
    BY DEF Over, Answered
  <2>5. pc[r] = "upstream" => up[r].sent = in[r].len
    BY <2>1 DEF UpLeg
  <2>6. IsUpgrade(r) => up[r].sent = 0
    BY <2>1, <2>2 DEF UpLeg
  <2>7. Over(r) /\ up[r].answer = NoAnswer => Status(r) \in {101, 200, 400, 502}
    BY <2>1, <2>4 DEF Written, Status
  <2>8. ASSUME up[r].answer # NoAnswer, pc[r] # "relay"
        PROVE  IF up[r].resp.code < 100
               THEN pc[r] = "panicked" /\ wire[r] = [final |-> 0, body |-> 0]
               ELSE wire[r] = [final |-> up[r].resp.code,
                               body |-> IF BodyAllowed(up[r].resp.code)
                                        THEN up[r].resp.len ELSE 0]
    <3>1. up[r].answer = up[r].resp
      BY <2>1, <2>8 DEF UpLeg
    <3>2. up[r].answer.code \in (1..999) \ Interim
      BY <2>1, <2>8, ExchangeAssumption
    <3>3. \A x \in (1..999) \ Interim : x >= 100 => ~(x < 100)
      OBVIOUS
    <3>4. CASE Answered(r)
      <4>1. up[r].answer.code >= 100 /\ Relays(r)
        BY <2>1, <2>8, <3>4 DEF Written
      <4>2. ~(up[r].answer.code < 100)
        BY <3>2, <3>3, <4>1
      <4> QED BY <3>1, <4>1, <4>2 DEF Relays
    <3>5. CASE pc[r] = "panicked"
      BY <2>1, <2>8, <3>1, <3>5 DEF Written, Relays, NewWire
    <3> QED BY <2>3, <2>8, <3>4, <3>5
  <2> QED BY <2>5, <2>6, <2>7, <2>8
<1> QED BY <1>1, Invariant, PTL

-----------------------------------------------------------------------------
(* The refinement: a step of an exchange is a step of what is promised of   *)
(* it, or changes nothing that is promised.                                 *)

LeftSet == {r \in Requests : link[r] \in {"gone", "half"}}
Reply == [r \in Requests |-> wire[r].final]
Record == [r \in Requests |-> IF Finished(r) THEN Status(r) ELSE 0]

\* What the promise sees of a step of exchange r.
LEMMA Visible ==
    ASSUME TypeOK, NEW r \in Requests, Step(r)
    PROVE  /\ LeftSet' = IF link'[r] \in {"gone", "half"} THEN LeftSet \union {r} ELSE LeftSet \ {r}
           /\ Reply' = [Reply EXCEPT ![r] = wire'[r].final]
           /\ Record' = [Record EXCEPT ![r] = IF Finished(r)' THEN Status(r)' ELSE 0]
<1>1. ASSUME NEW q \in Requests \ {r}
      PROVE  /\ link'[q] = link[q] /\ wire'[q] = wire[q]
             /\ (Finished(q)' <=> Finished(q)) /\ Status(q)' = Status(q)
  <2>1. Same(q)
    BY OthersSame
  <2> QED BY <2>1 DEF Same, Finished, Over, Status
<1>2. LeftSet' = IF link'[r] \in {"gone", "half"} THEN LeftSet \union {r} ELSE LeftSet \ {r}
  BY <1>1 DEF LeftSet
<1>3. Reply' = [Reply EXCEPT ![r] = wire'[r].final]
  BY <1>1 DEF Reply
<1>4. Record' = [Record EXCEPT ![r] = IF Finished(r)' THEN Status(r)' ELSE 0]
  <2>1. Record' = [q \in Requests |-> IF Finished(q)' THEN Status(q)' ELSE 0]
    BY DEF Record
  <2>2. \A q \in Requests \ {r} : (IF Finished(q)' THEN Status(q)' ELSE 0) = Record[q]
    BY <1>1 DEF Record
  <2>3. Record = [q \in Requests |-> Record[q]]
    BY DEF Record
  <2> QED BY <2>1, <2>2, <2>3
<1> QED BY <1>2, <1>3, <1>4

\* How the wire, the record and the client of one exchange can change in a step.
LEMMA Kinds ==
    ASSUME IndInv, NEW r \in Requests, Step(r)
    PROVE  \/ /\ link'[r] = link[r] /\ wire'[r].final = wire[r].final
              /\ Finished(r)' <=> Finished(r)
              /\ Finished(r) => Status(r)' = Status(r)
           \/ ClientLeaves(r)
           \/ /\ Unanswered(r) /\ link'[r] = link[r] /\ ~Finished(r) /\ ~Finished(r)'
           \/ Finish(r)
           \/ Return(r)
<1> USE DEF Goto, Finished, Over, Status, IndInv, TypeOK
<1>1. CASE Arrive(r) \/ Forward(r) \/ Delay(r) \/ RelayPanics(r) \/ FinishPanics(r)
  BY <1>1 DEF Arrive, Forward, Delay, RelayPanics, FinishPanics
<1>2. CASE ServeReserved(r) \/ ReadBodyFails(r)
  BY <1>2 DEF ServeReserved, ReadBodyFails, Unanswered
<1>3. CASE Accept(r)
  BY <1>3 DEF Accept, Unanswered
<1>4. CASE Relay(r) \/ Echo(r) \/ Preflight(r) \/ DelayAborted(r)
  BY <1>4 DEF Relay, Echo, Preflight, DelayAborted, Unanswered
<1>5. CASE UpgradeWS(r) \/ ReadBody(r)
  BY <1>5 DEF UpgradeWS, ReadBody
<1>6. CASE UpstreamStep(r) \/ Response(r)
  BY <1>6 DEF UpstreamStep, UpstreamHeader, UpstreamAnswers, UpstreamFails, Response
<1>7. CASE FlushLock(r) \/ FlushWrite(r) \/ FlushUnlock(r)
  BY <1>7 DEF FlushLock, FlushWrite, FlushUnlock
<1>8. CASE ReadWS(r) \/ MirrorWS(r) \/ CloseWS(r) \/ FailWS(r)
  BY <1>8 DEF ReadWS, MirrorWS, CloseWS, FailWS, Session
<1>9. CASE ClientWS(r)
  BY <1>9 DEF ClientWS
<1> QED BY <1>1, <1>2, <1>3, <1>4, <1>5, <1>6, <1>7, <1>8, <1>9 DEF Step, HandlerStep

\* Each kind of step is a step of the promise or is not seen by it.
LEMMA StepPromise ==
    ASSUME IndInv, IndInv', NEW r \in Requests, Step(r)
    PROVE  Promise!Next \/ UNCHANGED <<LeftSet, Reply, Record>>
<1> USE DEF Promise!Next
<1>1. /\ LeftSet' = IF link'[r] \in {"gone", "half"} THEN LeftSet \union {r} ELSE LeftSet \ {r}
      /\ Reply' = [Reply EXCEPT ![r] = wire'[r].final]
      /\ Record' = [Record EXCEPT ![r] = IF Finished(r)' THEN Status(r)' ELSE 0]
  BY Visible DEF IndInv
<1>2. /\ r \in LeftSet <=> link[r] \in {"gone", "half"}
      /\ Reply[r] = wire[r].final /\ Record[r] = IF Finished(r) THEN Status(r) ELSE 0
      /\ Reply = [Reply EXCEPT ![r] = Reply[r]] /\ Record = [Record EXCEPT ![r] = Record[r]]
  BY DEF LeftSet, Reply, Record
<1>3. Local(r) /\ wire'[r].final \in {0} \union Statuses /\ rec[r].status \in {0} \union Statuses
  BY DEF IndInv, TypeOK
<1>4. link'[r] = link[r] => LeftSet' = LeftSet
  BY <1>1, <1>2
<1>5. CASE /\ link'[r] = link[r] /\ wire'[r].final = wire[r].final
           /\ Finished(r)' <=> Finished(r)
           /\ Finished(r) => Status(r)' = Status(r)
  BY <1>1, <1>2, <1>4, <1>5
<1>6. CASE ClientLeaves(r)
  <2>1. UNCHANGED <<Reply, Record>>
    BY <1>6 DEF ClientLeaves, Reply, Record, Finished, Over, Status
  <2>2. LeftSet' = LeftSet \union {r} \/ LeftSet' = LeftSet
    BY <1>1, <1>2, <1>6 DEF ClientLeaves, IndInv, TypeOK
  <2> QED BY <2>1, <2>2 DEF Promise!Leave, LeftSet, Reply, Record
<1>7. CASE /\ Unanswered(r) /\ link'[r] = link[r] /\ ~Finished(r) /\ ~Finished(r)'
  <2>1. Record' = Record /\ Record[r] = 0
    BY <1>1, <1>2, <1>7
  <2>2. Reply[r] = 0
    BY <1>2, <1>3, <1>7 DEF Local, Unwritten, NewWire
  <2>3. CASE wire'[r].final = 0
    BY <1>1, <1>2, <1>4, <1>7, <2>1, <2>2, <2>3
  <2>4. CASE wire'[r].final \in Statuses
    <3>1. \E code \in Statuses : Reply' = [Reply EXCEPT ![r] = code]
      BY <1>1, <2>4
    <3>2. Promise!Answer(r)
      BY <1>4, <1>7, <2>1, <2>2, <3>1 DEF Promise!Answer, LeftSet, Reply, Record
    <3> QED BY <3>2
  <2> QED BY <1>3, <2>3, <2>4
<1>8. CASE Finish(r)
  <2>1. /\ ~Finished(r) /\ Finished(r)' /\ Status(r)' = Status(r) /\ UNCHANGED <<link, wire, rec>>
        /\ Answered(r) /\ pc[r] # "done"
    BY <1>8 DEF Finish, Goto, Finished, Over, Status, IndInv, TypeOK, Answered
  <2>2. rec[r].wrote /\ Agrees(r) /\ Status(r) = rec[r].status
    BY <1>3, <2>1 DEF Local, Written, Status
  <2>3. LeftSet' = LeftSet /\ Reply' = Reply
    BY <1>1, <1>2, <2>1
  <2>4. Record[r] = 0 /\ Record' = [Record EXCEPT ![r] = rec[r].status]
    BY <1>1, <1>2, <2>1, <2>2
  <2>5. CASE rec[r].status # 0 /\ wire[r].final = rec[r].status
    <3>1. Promise!Account(r)
      BY <1>2, <2>3, <2>4, <2>5 DEF Promise!Account, LeftSet, Reply, Record
    <3> QED BY <3>1
  <2>6. CASE rec[r].status \in Interim /\ wire[r].final = 200
    <3>1. rec[r].status \in Statuses
      BY <1>3, <2>6 DEF Interim
    <3>2. \E code \in Statuses \intersect ((100..199) \ {101}) :
             Record' = [Record EXCEPT ![r] = code]
      <4> PICK code : code = rec[r].status
        OBVIOUS
      <4>1. code \in Statuses \intersect ((100..199) \ {101})
        BY <2>6, <3>1 DEF Interim
      <4> QED BY <2>4, <4>1
    <3>3. Promise!AccountInterim(r)
      BY <1>2, <2>3, <2>4, <2>6, <3>2 DEF Promise!AccountInterim, LeftSet, Reply, Record
    <3> QED BY <3>3
  <2>7. CASE rec[r].status = 499 /\ link[r] \in {"gone", "half"} /\ wire[r].final = 0
    <3>1. Promise!AccountGone(r)
      BY <1>2, <2>3, <2>4, <2>7 DEF Promise!AccountGone, LeftSet, Reply, Record
    <3> QED BY <3>1
  <2> QED BY <2>1, <2>2, <2>5, <2>6, <2>7 DEF Agrees
<1>9. CASE Return(r)
  <2>1. /\ Finished(r) /\ Finished(r)' /\ Status(r)' = Status(r) /\ UNCHANGED <<link, rec>>
        /\ Answered(r) /\ wire' = [wire EXCEPT ![r] = WireHeader(wire[r], 200)]
    BY <1>9 DEF Return, Goto, Finished, Over, Status, IndInv, TypeOK, Answered
  <2>2. rec[r].wrote /\ Agrees(r) /\ Status(r) = rec[r].status
    BY <1>3, <2>1 DEF Local, Written, Status
  <2>3. LeftSet' = LeftSet /\ Record' = Record
    BY <1>1, <1>2, <2>1
  <2>4. wire'[r].final = IF wire[r].final = 0 THEN 200 ELSE wire[r].final
    <3>1. wire \in [Requests -> [final : {0} \union Statuses, body : Nat]]
      BY DEF IndInv, TypeOK
    <3> PICK y : y = WireHeader(wire[r], 200)
      OBVIOUS
    <3>2. wire'[r] = y
      BY <2>1, <3>1
    <3>3. wire[r] \in [final : {0} \union Statuses, body : Nat]
      BY <3>1
    <3>4. y.final = IF wire[r].final = 0 THEN 200 ELSE wire[r].final
      BY <3>3 DEF WireHeader, Interim
    <3> QED BY <3>2, <3>4
  <2>5. CASE wire[r].final # 0
    BY <1>1, <1>2, <2>3, <2>4, <2>5
  <2>6. CASE wire[r].final = 0
    <3>1. Record[r] = 499
      BY <1>2, <2>1, <2>2, <2>6 DEF Agrees
    <3>2. Promise!Complete(r)
      BY <1>1, <1>2, <2>3, <2>4, <2>6, <3>1 DEF Promise!Complete, LeftSet, Reply, Record
    <3> QED BY <3>2
  <2> QED BY <2>5, <2>6
<1> QED BY <1>5, <1>6, <1>7, <1>8, <1>9, Kinds

\* Log, metrics and traffic keep the promise of ExchangeService: one final
\* status, one record, and the two agree unless the client left first or asked
\* for an interim status (recorder.go:9-17, 30-60; handler.go:225-230).
THEOREM Refinement == Spec => ImplementsExchange
<1>1. Init => Promise!Init
  <2> SUFFICES ASSUME Init PROVE Promise!Init
    OBVIOUS
  <2>1. \A r \in Requests : link[r] = "open" /\ wire[r].final = 0 /\ ~Finished(r)
    BY DEF Init, Finished, Over
  <2> QED BY <2>1 DEF Promise!Init
<1>2. IndInv /\ IndInv' /\ [Next]_vars => [Promise!Next]_(Promise!vars)
  <2> SUFFICES ASSUME IndInv, IndInv', [Next]_vars PROVE [Promise!Next]_(Promise!vars)
    OBVIOUS
  <2>1. CASE UNCHANGED vars
    BY <2>1 DEF vars, Promise!vars, Finished, Over, Status
  <2>2. ASSUME NEW r \in Requests, Step(r) PROVE [Promise!Next]_(Promise!vars)
    <3>1. Promise!Next \/ UNCHANGED <<LeftSet, Reply, Record>>
      BY <2>2, StepPromise
    <3>2. UNCHANGED <<LeftSet, Reply, Record>> => UNCHANGED Promise!vars
      BY DEF LeftSet, Reply, Record, Promise!vars
    <3> QED BY <3>1, <3>2
  <2> QED BY <2>1, <2>2 DEF Next, Step
<1> QED BY <1>1, <1>2, Invariant, PTL DEF Spec, ImplementsExchange, Promise!Spec
=============================================================================
