------------------------------ MODULE WebSocket ------------------------------
(****************************************************************************)
(* A WebSocket session after its 101, as operators on a record: the message *)
(* loop of handleWebSocket (internal/server/ws.go) and the two directions   *)
(* of the connection.                                                       *)
(*                                                                          *)
(* Message 0 is the JSON echo of the upgrade request, messages 1, 2, ... are*)
(* the client's, in the order it sends them.  The loop holds one message at *)
(* a time and is either reading or writing, never both.                     *)
(****************************************************************************)
EXTENDS Naturals, Sequences

CONSTANTS
    PipeSize,     \* messages one direction of a connection holds
    MaxMessages   \* bound on the messages a client sends

ASSUME SessionAssumption == PipeSize \in Nat \ {0} /\ MaxMessages \in Nat

\* A close frame, told apart from the messages.
CloseFrame == MaxMessages + 1

Frame == 0..CloseFrame
Frames == Seq(Frame)

\* Frames on their way to the server, held by the loop, on their way to the
\* client, and received; the client sent so many messages, and may have closed.
SessionType == [toServer : Frames, held : Frames, toClient : Frames, got : Frames,
                sent : 0..MaxMessages, closed : BOOLEAN]

\* The loop has the echo of the upgrade request to write.
NewSession == [toServer |-> << >>, held |-> <<0>>, toClient |-> << >>,
               got |-> << >>, sent |-> 0, closed |-> FALSE]

\* Mutant: the loop reads on while a message waits to be written.
MutCanReadAhead(w) == w.toServer # << >>

\* conn.Read: the loop has nothing to write and there is a frame.
CanRead(w) == w.held = << >> /\ w.toServer # << >>

ReadFrame(w) == [w EXCEPT !.held = <<Head(w.toServer)>>, !.toServer = Tail(@)]

\* conn.Write: it blocks while the client does not read.
CanMirror(w) == w.held # << >> /\ Len(w.toClient) < PipeSize

Mirror(w) == [w EXCEPT !.toClient = @ \o w.held, !.held = << >>]

\* A close is answered with a close, for which the library waits some seconds.
MirrorClose(w) ==
    [w EXCEPT !.toServer = Tail(@),
              !.toClient = IF Len(@) < PipeSize THEN Append(@, CloseFrame) ELSE @]

\* The client sends a message, closes, reads.
CanSubmit(w) == ~w.closed /\ Len(w.toServer) < PipeSize

Submit(w) == [w EXCEPT !.toServer = Append(@, w.sent + 1), !.sent = @ + 1]

SubmitClose(w) == [w EXCEPT !.toServer = Append(@, CloseFrame), !.closed = TRUE]

Receive(w) == [w EXCEPT !.got = Append(@, Head(w.toClient)), !.toClient = Tail(@)]

\* All messages of a session, from the one the client received first to the one
\* the server reads last.
Messages(w) == w.got \o w.toClient \o w.held \o w.toServer

\* The echo of the upgrade request and what the client sent after it.
Sent(w) == [i \in 1..(w.sent + 1) |-> i - 1]
=============================================================================
