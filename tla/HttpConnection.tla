--------------------------- MODULE HttpConnection ---------------------------
(***************************************************************************)
(* HttpClient, the client without I/O of its own: its methods return bytes, *)
(* the application carries them to the homeserver and hands in what comes   *)
(* back.  HttpConnection makes one request at a time and queues the others; *)
(* Http2Connection makes them at once, each on a stream, and keeps back the *)
(* part of a body that the windows of flow control do not let through.      *)
(*                                                                          *)
(* Left out: what receive_response and handle_key_upload_error do with a    *)
(* response, the frames a chunk is cut into, informational answers.         *)
(* External: h11 and h2, the homeserver, the application, which writes what *)
(* it is given at once and reads in chunks of any length.                   *)
(*                                                                          *)
(* A definition headed "Slip" is a wrong version of the one after it, for   *)
(* mutation tests of the properties; nothing uses it.                       *)
(***************************************************************************)
EXTENDS Integers, SequencesExt, HttpCalls

CONSTANTS
  Requests,   \* the calls the application makes
  Setups,     \* choices of the method each is a call of, the bytes of its body and its
              \* uuid: some methods take one from their caller
  Answers,    \* kinds of answer: "full" as asked for, "error" with a code, "page" of a gateway
  Window,     \* bytes that may be on their way, of a stream and in all
  MaxConnects,\* bound: calls of connect
  NoRequest
Whole == "connection"  \* the window of all streams

ASSUME ConstantsAssumption ==
  /\ Setups \subseteq [call : [Requests -> Calls], size : [Requests -> Nat], tx : [Requests -> Nat]]
  /\ Answers \subseteq {"full", "error", "page"}
  /\ Window \in Nat \ {0} /\ MaxConnects \in Nat
  /\ NoRequest \notin Requests /\ Whole \notin Requests

VARIABLES
  setup,                       \* what the application does
  transport, connects,         \* the class of connection
  made,                        \* requests_made
  parse_queue,
  current, message_queue,      \* HttpConnection
  responses, buffered, left,   \* Http2Connection: _responses, _data_to_send and what is left of it
  heads,                       \* the responses with a status
  window, stream, outbox,      \* of h2: the windows, the frames not written yet
  refused, forgotten,          \* of h2: streams that were reset, and those it has dropped since
  chunk, loop,                 \* of the call of receive: events, and streams of an update, still to be handled
  got, server, owed, inbound,  \* the homeserver: bytes it has, what it does, windows it may open again, its events
  sent, spoilt,                \* history: calls made; calls whose answer has got lost
  handled                      \* history: what was made of the answers

h1_vars     == <<current, message_queue>>
h2_vars     == <<responses, buffered, left, window, stream, outbox, refused, forgotten>>
receive_vars == <<heads, chunk, loop>>
server_vars == <<got, server, owed, inbound>>
client_vars == <<setup, transport, connects, made, parse_queue, sent, handled>>
vars        == <<client_vars, h1_vars, h2_vars, receive_vars, server_vars, spoilt>>

Tx(r)     == setup.tx[r]
Size(r)   == setup.size[r]
CallOf(r) == setup.call[r]
Uuids == {Tx(r) : r \in Requests}
Current == {current} \ {NoRequest}
\* The requests a connection waits for the answers of.
Waiting == Current \cup Range(message_queue) \cup responses
\* No call of receive is under way.
Returned == chunk = <<>> /\ loop = <<>>
Least(a, b) == IF a < b THEN a ELSE b
Without(function, key) == [k \in DOMAIN function \ {key} |-> function[k]]
Sum(numbers) == FoldLeft(+, 0, numbers)

-----------------------------------------------------------------------------
(* Connecting.                                                             *)

\* A connection of its own, on either side; what the server still had to say is
\* lost with the old one.
FreshConnection ==
  /\ current' = NoRequest /\ message_queue' = <<>> /\ heads' = {} /\ chunk' = <<>> /\ loop' = <<>>
  /\ responses' = {} /\ buffered' = <<>> /\ left' = setup.size /\ outbox' = <<>>
  /\ window' = Window /\ stream' = [r \in Requests |-> Window]
  /\ refused' = {} /\ forgotten' = {}
  /\ got' = [r \in Requests |-> 0] /\ server' = [r \in Requests |-> "none"]
  /\ owed' = [r \in Requests \cup {Whole} |-> 0] /\ inbound' = <<>>

Init ==
  /\ setup \in Setups /\ transport = "none" /\ connects = 0
  /\ made = <<>> /\ parse_queue = <<>> /\ sent = {} /\ spoilt = {} /\ handled = {}
  /\ current = NoRequest /\ message_queue = <<>> /\ heads = {} /\ chunk = <<>> /\ loop = <<>>
  /\ responses = {} /\ buffered = <<>> /\ left = setup.size /\ outbox = <<>>
  /\ window = Window /\ stream = [r \in Requests |-> Window]
  /\ refused = {} /\ forgotten = {}
  /\ got = [r \in Requests |-> 0] /\ server = [r \in Requests |-> "none"]
  /\ owed = [r \in Requests \cup {Whole} |-> 0] /\ inbound = <<>>

\* connect does not ask whether there is a connection, and keeps the queues.
Connect(t) ==
  /\ Returned /\ connects < MaxConnects /\ connects' = connects + 1
  /\ transport' = t /\ FreshConnection
  /\ spoilt' = IF transport = "none" THEN spoilt ELSE spoilt \cup Waiting
  /\ UNCHANGED <<setup, made, parse_queue, sent, handled>>

\* Slip: what was waiting stays.
KeepQueues(queue) == queue
\* _clear_queues
Cleared(queue) == <<>>
Disconnect ==
  /\ Returned /\ transport # "none" /\ transport' = "none"
  /\ made' = Cleared(made) /\ parse_queue' = Cleared(parse_queue)
  /\ FreshConnection
  /\ UNCHANGED <<setup, connects, sent, spoilt, handled>>

-----------------------------------------------------------------------------
(* HTTP/1.                                                                 *)

\* A whole request has reached the homeserver.
Asked(r) ==
  /\ got' = [got EXCEPT ![r] = Size(r)]
  /\ server' = [server EXCEPT ![r] = "whole"]

Idle == current = NoRequest

\* HttpConnection.send
SendHttp(r) ==
  /\ IF Idle
     THEN /\ current' = r /\ message_queue' = message_queue /\ Asked(r)
     ELSE /\ message_queue' = Append(message_queue, r)
          /\ UNCHANGED <<current, got, server>>
  /\ UNCHANGED <<h2_vars, owed, inbound>>

NextRequest == Head(message_queue)
\* HttpConnection.data_to_send
DataToSendHttp ==
  /\ Returned /\ transport = "http" /\ Idle /\ message_queue # <<>>
  /\ current' = NextRequest /\ message_queue' = Tail(message_queue)
  /\ Asked(NextRequest)
  /\ UNCHANGED <<client_vars, h2_vars, receive_vars, owed, inbound, spoilt>>

-----------------------------------------------------------------------------
(* HTTP/2: what is sent.                                                   *)

\* Slip: the window of the stream is not looked at.
WholeWindow(r) == window
\* local_flow_control_window
LocalWindow(r) == Least(window, stream[r])
ToSend(r)    == Least(LocalWindow(r), left[r])
Finishes(r)  == ToSend(r) = left[r]
Frames(r)    == IF ToSend(r) > 0 \/ Finishes(r)
                THEN <<[of |-> r, bytes |-> ToSend(r), end |-> Finishes(r)]>> ELSE <<>>
\* h2 refuses to send on a stream that was reset, and to know one that it has
\* forgotten.
Refuses(r)   == r \in forgotten \/ (r \in refused /\ ToSend(r) > 0)

Remaining(r) == left[r] - ToSend(r)

\* _send_data
SendData(r) ==
  /\ left' = [left EXCEPT ![r] = Remaining(r)]
  /\ buffered' = CASE Finishes(r)                            -> RemoveFirst(buffered, r)
                   [] ~Finishes(r) /\ Contains(buffered, r)  -> buffered
                   [] OTHER                                  -> Append(buffered, r)
  /\ window' = window - ToSend(r) /\ stream' = [stream EXCEPT ![r] = @ - ToSend(r)]

\* The frames that are written reach the homeserver in their order.
Bytes(frames, r) == Sum([i \in DOMAIN frames |-> IF frames[i].of = r THEN frames[i].bytes ELSE 0])
AllBytes(frames) == Sum([i \in DOMAIN frames |-> frames[i].bytes])
Write(frames) ==
  LET ends(r) == \E i \in DOMAIN frames: frames[i].of = r /\ frames[i].end
      begins(r) == r \in responses'
  IN /\ got' = [r \in Requests |-> got[r] + Bytes(frames, r)]
     /\ server' = [r \in Requests |->
          CASE server[r] \in {"none", "open"} /\ ends(r)   -> "whole"
            [] server[r] = "none" /\ ~ends(r) /\ begins(r) -> "open"
            [] OTHER -> server[r]]
     /\ owed' = [r \in Requests \cup {Whole} |->
          owed[r] + IF r = Whole THEN AllBytes(frames) ELSE Bytes(frames, r)]

\* Http2Connection.send; the headers of a new stream make h2 drop the closed ones.
SendHttp2(r) ==
  /\ responses' = responses \cup {r} /\ SendData(r)
  /\ outbox' = <<>> /\ Write(outbox \o Frames(r))
  /\ forgotten' = refused /\ refused' = refused
  /\ UNCHANGED <<h1_vars, inbound>>

\* A method: the request is made and noted under its uuid.
Send(r) ==
  /\ Returned /\ transport # "none" /\ r \notin sent
  /\ CASE transport = "http" -> SendHttp(r) [] transport = "http2" -> SendHttp2(r)
  /\ sent' = sent \cup {r}
  /\ made' = [u \in DOMAIN made \cup {Tx(r)} |-> IF u = Tx(r) THEN r ELSE made[u]]
  /\ UNCHANGED <<setup, transport, connects, parse_queue, receive_vars, spoilt, handled>>

\* Http2Connection.data_to_send
DataToSendHttp2 ==
  /\ Returned /\ transport = "http2" /\ outbox # <<>> /\ outbox' = <<>>
  /\ UNCHANGED <<client_vars, h1_vars, receive_vars, responses, buffered, left, window, stream, refused, forgotten,
                 inbound, spoilt>>
  /\ Write(outbox)

DataToSend == DataToSendHttp \/ DataToSendHttp2

-----------------------------------------------------------------------------
(* The homeserver.                                                         *)

Event(kind, r, n, answer) == [kind |-> kind, of |-> r, bytes |-> n, answer |-> answer]

\* receive does not wait, and what it hands on is asked for at once: whatever the
\* homeserver does meanwhile comes after it.
Meanwhile == Returned /\ parse_queue = <<>>

\* It answers a request it has got whole; a chunk may end between head and rest.
Answer(r, a) ==
  /\ Meanwhile /\ server[r] = "whole" /\ server' = [server EXCEPT ![r] = "answered"]
  /\ inbound' = inbound \o <<Event("head", r, 0, a), Event("end", r, 0, a)>>
  /\ UNCHANGED <<client_vars, h1_vars, h2_vars, receive_vars, got, owed, spoilt>>

\* It resets a stream it has not answered.
Reset(r) ==
  /\ Meanwhile /\ transport = "http2" /\ server[r] \in {"open", "whole"} /\ server' = [server EXCEPT ![r] = "reset"]
  /\ inbound' = Append(inbound, Event("reset", r, 0, "nothing"))
  /\ UNCHANGED <<client_vars, h1_vars, h2_vars, receive_vars, got, owed, spoilt>>

\* It has read the bytes it got, and opens a window by as much.
OpenWindow(w) ==
  /\ Meanwhile /\ owed[w] > 0 /\ (w \in Requests => server[w] = "open")
  /\ owed' = [owed EXCEPT ![w] = 0]
  /\ inbound' = Append(inbound, Event("window", w, owed[w], "nothing"))
  /\ UNCHANGED <<client_vars, h1_vars, h2_vars, receive_vars, got, server, spoilt>>

-----------------------------------------------------------------------------
(* Receiving.                                                              *)

\* receive hands the chunk to h2 or h11, which makes events of it; h2 opens the
\* windows and closes the streams of all of them first.
Opens(event, w) == event.kind = "window" /\ event.of = w
Opened(events, w) == Sum([i \in DOMAIN events |-> IF Opens(events[i], w) THEN events[i].bytes ELSE 0])
ResetIn(events) == {e.of : e \in {d \in Range(events): d.kind = "reset"}}

Receive(k) ==
  /\ Returned /\ k \in DOMAIN inbound
  /\ chunk' = SubSeq(inbound, 1, k) /\ inbound' = SubSeq(inbound, k + 1, Len(inbound))
  /\ window' = window + Opened(chunk', Whole)
  /\ stream' = [r \in Requests |-> stream[r] + Opened(chunk', r)]
  /\ refused' = refused \cup ResetIn(chunk')
  /\ UNCHANGED <<client_vars, h1_vars, responses, buffered, left, outbox, forgotten, heads, loop, got, server, owed, spoilt>>

Handling(kind) == loop = <<>> /\ chunk # <<>> /\ Head(chunk).kind = kind
Rest == chunk' = Tail(chunk)
\* receive is over with these events unseen: whom they were for.
Lost(events) == {e.of : e \in Range(events)}
Leave(streams) ==
  /\ chunk' = <<>> /\ loop' = <<>>
  /\ spoilt' = spoilt \cup (Lost(Tail(chunk)) \ {Whole})
                      \cup IF Whole \in Lost(Tail(chunk)) THEN Range(buffered) ELSE streams

\* _handle_response, _handle_data; over HTTP/1 all is for the current response.
HandleHead ==
  /\ Handling("head") /\ heads' = heads \cup {Head(chunk).of} /\ Rest
  /\ UNCHANGED <<client_vars, h1_vars, h2_vars, loop, server_vars, spoilt>>

\* Slip: the answer is taken for that of any stream there is.
SomeResponse == IF transport = "http" THEN current ELSE CHOOSE r \in responses : TRUE
ResponseOf     == IF transport = "http" THEN current ELSE Head(chunk).of

\* HttpClient.receive, given a response: it is put down with the request made
\* under its uuid.
Noted(r) ==
  LET answer == IF r \in heads THEN Head(chunk).answer ELSE "nothing"
  IN IF Tx(r) \in DOMAIN made
     THEN /\ made' = Without(made, Tx(r))
          /\ parse_queue' = Append(parse_queue, [info |-> made[Tx(r)], of |-> Head(chunk).of, answer |-> answer,
                                                 typed |-> transport = "http2" /\ answer # "nothing"])
     ELSE UNCHANGED <<made, parse_queue>>  \* KeyError

\* The end of an answer, or of its stream: the connection returns this response,
\* whatever else there is in the chunk.
HandleEnd ==
  /\ Handling("end") \/ Handling("reset")
  /\ Noted(ResponseOf)
  /\ current' = NoRequest
  /\ responses' = responses \ {ResponseOf}
  /\ heads' = heads \ {ResponseOf} /\ Leave({})
  /\ UNCHANGED <<setup, transport, connects, sent, handled, message_queue, buffered, left, window, stream, outbox,
                 refused, forgotten, server_vars>>

\* An exception leaves receive; what is buffered is not looked at any more.
Raise == Leave(Range(buffered))

\* Slip: an update of the window of all streams is for none of them.
StreamOnly(w) == IF Contains(buffered, w) THEN <<w>> ELSE <<>>
\* _handle_window_update: the streams it calls _send_data for.
Updated(w) ==
  CASE Contains(buffered, w)                 -> <<w>>
    [] ~Contains(buffered, w) /\ w = Whole   -> buffered
    [] ~Contains(buffered, w) /\ w # Whole   -> <<>>
HandleWindow ==
  /\ Handling("window") /\ loop' = Updated(Head(chunk).of)
  \* The event stays until its streams have been handled.
  /\ chunk' = IF loop' = <<>> THEN Tail(chunk) ELSE chunk
  /\ UNCHANGED <<client_vars, h1_vars, h2_vars, heads, server_vars, spoilt>>

\* One turn of the loop over _data_to_send.  It ends when a body has been sent to
\* its end and another one is to follow: the dictionary has changed.
SendBuffered ==
  /\ loop # <<>>
  /\ LET r == Head(loop)
     IN IF Refuses(r)
        THEN /\ UNCHANGED <<buffered, left, window, stream, outbox>> /\ Raise
        ELSE /\ SendData(r) /\ outbox' = outbox \o Frames(r)
             /\ IF Finishes(r) /\ Len(loop) > 1
                THEN Raise
                ELSE /\ loop' = Tail(loop) /\ spoilt' = spoilt
                     /\ chunk' = IF loop' = <<>> THEN Tail(chunk) ELSE chunk
  /\ UNCHANGED <<client_vars, h1_vars, responses, refused, forgotten, heads, server_vars>>

\* The steps of a call of receive.
Handle == HandleHead \/ HandleEnd \/ HandleWindow \/ SendBuffered

AnswerTo(call, a) ==
  CASE a = "full"    -> R!Answer(200, R!FullBody(call.response))
    [] a = "error"   -> R!Answer(401, R!ErrorBody)
    [] a = "page"    -> R!Answer(502, R!NoBody)
    [] a = "nothing" -> R!Answer(0, R!NoBody)

NextResponse ==
  /\ Returned /\ parse_queue # <<>> /\ parse_queue' = Tail(parse_queue)
  /\ LET x == Head(parse_queue)
         call == CallOf(x.info)
     IN handled' = handled \cup {[info |-> x.info, of |-> x.of, answer |-> x.answer,
                                  outcome |-> CreateResponse(call, AnswerTo(call, x.answer), x.typed)]}
         /\ spoilt' = spoilt \ {x.info, x.of}
  /\ UNCHANGED <<setup, transport, connects, made, sent, h1_vars, h2_vars, receive_vars, server_vars>>

-----------------------------------------------------------------------------
Next ==
  \/ \E t \in {"http", "http2"}: Connect(t)
  \/ Disconnect
  \/ \E r \in Requests: Send(r) \/ Reset(r) \/ \E a \in Answers: Answer(r, a)
  \/ \E w \in Requests \cup {Whole}: OpenWindow(w)
  \/ DataToSend
  \/ \E k \in DOMAIN inbound: Receive(k)
  \/ Handle
  \/ NextResponse

\* The homeserver goes on reading and answering; the application writes what
\* there is to write, reads what there is to read and asks for the responses.
Fairness ==
  /\ \A r \in Requests: WF_vars(\E a \in Answers: Answer(r, a))
  /\ \A w \in Requests \cup {Whole}: WF_vars(OpenWindow(w))
  /\ WF_vars(DataToSend) /\ WF_vars(\E k \in DOMAIN inbound: Receive(k)) /\ WF_vars(Handle) /\ WF_vars(NextResponse)

Spec == Init /\ [][Next]_vars /\ Fairness

-----------------------------------------------------------------------------
(* Properties.                                                             *)

TypeOK ==
  /\ transport \in {"none", "http", "http2"} /\ connects \in 0..MaxConnects
  /\ DOMAIN made \subseteq Uuids /\ Range(made) \subseteq sent
  /\ Waiting \subseteq sent /\ sent \subseteq Requests /\ spoilt \subseteq sent
  /\ Range(buffered) \subseteq sent /\ heads \subseteq sent
  /\ forgotten \subseteq refused /\ refused \subseteq sent
  /\ \A r \in Requests:
       /\ left[r] \in 0..Size(r) /\ got[r] \in 0..Size(r)
       /\ stream[r] \in 0..Window /\ owed[r] \in 0..Window
       /\ server[r] \in {"none", "open", "whole", "answered", "reset"}
  /\ window \in 0..Window /\ owed[Whole] \in 0..Window
  /\ \A x \in handled: x.outcome \in {"success", "error", "raises"}

\* An answer is parsed as the answer of the request it is for, whatever the order
\* the answers come in and the pieces they are read in.
AnswersMatch ==
  \A x \in handled \cup Range(parse_queue): Tx(x.of) = Tx(x.info)

\* requests_made and the connection agree: what the connection waits for can be
\* told when it comes, unless a second request has the same uuid, and what has
\* been noted is waited for, unless its connection was replaced.
RequestsTracked ==
  /\ \A r \in Waiting: Tx(r) \in DOMAIN made \/ \E q \in sent \ {r}: Tx(q) = Tx(r)
  /\ \A u \in DOMAIN made: (\E r \in Waiting: Tx(r) = u) \/ made[u] \in spoilt
  /\ transport = "none" => made = <<>> /\ parse_queue = <<>>

\* No byte of a body is lost, sent twice or overtaken by the end of it, however
\* often the windows cut it.
BodyWhole ==
  transport = "http2" =>
    \A r \in responses:
      /\ got[r] + Bytes(outbox, r) + left[r] = Size(r)
      /\ server[r] \in {"whole", "answered"} => got[r] = Size(r)
      /\ left[r] > 0 <=> Contains(buffered, r)

\* The bytes on their way never exceed a window.
WindowKept ==
  transport = "http2" =>
    /\ owed[Whole] + AllBytes(outbox) <= Window
    /\ \A r \in Requests: server[r] \in {"none", "open"} => owed[r] + Bytes(outbox, r) <= Window

\* Over HTTP/1 the homeserver has one request at a time to answer, and gets those
\* that had to wait in the order they were made in.
OneAtATime ==
  transport = "http" =>
    /\ \A q, r \in Requests: server[q] = "whole" /\ server[r] = "whole" => q = r
    /\ \A r \in Range(message_queue): server[r] = "none"

\* A response of the class of a call means that the homeserver has carried it out:
\* an answer that was cut short or reset does not pass for one, but with the
\* classes that take an empty body or any file.
SuccessIsReal ==
  \A x \in handled:
    x.outcome = "success" /\ x.answer # "full" =>
      LET class == CallOf(x.info).response
      IN \/ class.file \/ (x.answer # "error" /\ class.schema.closed)
         \/ x.answer # "error" /\ CallOf(x.info) = get_profile

\* Answers are taken for what they are and as those of the right requests.
AnswersTrue == AnswersMatch /\ SuccessIsReal

\* The client keeps track of its requests, queued or on their way.
Tracked == TypeOK /\ RequestsTracked /\ OneAtATime

\* Flow control cuts bodies into pieces that arrive whole and in time.
FlowControl == BodyWhole /\ WindowKept

\* A request is answered, or its connection ends, unless one of the ways in which
\* an answer is lost by a chunk or by an exception of receive bites.
EveryRequestAnswered ==
  \A r \in Requests:
    r \in Waiting ~> (\E x \in handled: Tx(x.info) = Tx(r)) \/ r \in spoilt \/ transport = "none"
=============================================================================
