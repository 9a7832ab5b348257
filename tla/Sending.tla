------------------------------- MODULE Sending -------------------------------
(***************************************************************************)
(* AsyncClient._send: one call is prepared, sent, answered or lost, retried *)
(* while it is rate-limited or fails on the way, each up to its own limit,  *)
(* and parsed.  An upload streams a file and starts over with each attempt, *)
(* watched and cancelled through a TransferMonitor.                         *)
(*                                                                          *)
(* Left out: the thread of the monitor that averages its speed.  External:  *)
(* the homeserver, a gateway before it, and aiohttp, which turns an         *)
(* exception of the body generator into a ClientConnectionError.            *)
(*                                                                          *)
(* A definition headed "Slip" is a wrong version of the one after it, for   *)
(* mutation tests of the properties; nothing uses it.                       *)
(***************************************************************************)
EXTENDS Naturals, Sequences, FiniteSets, ClientCalls

CONSTANTS
  Limits,    \* values of max_limit_exceeded and max_timeouts to choose from
  FileSize,  \* chunks of the file to upload
  MaxFaults  \* bound: rate limits, gateway pages, lost connections of a call

\* A limit of None.
Unlimited == MaxFaults + 1
ASSUME LimitsAssumption == MaxFaults \in Nat /\ Limits \subseteq 0..MaxFaults /\ FileSize \in Nat

VARIABLES
  max429, maxTimeouts, \* the configuration
  loggedIn, hasStore,  \* access_token, store and olm
  call, phase,         \* the call and how far it is
  got429, gotTimeouts,
  answer,              \* the answer that is on its way
  served,              \* history: what the server has done for the call
  received,            \* history: chunks of this attempt the server has
  uploaded,            \* history: the content the server has stored and the attempt it is of
  position, startAt,   \* of the file; initial_file_pos
  held,                \* a chunk is past the look at cancel and not sent yet
  keys,                \* the attempt decryption_dict is of
  monitor,             \* transferred, and the cancel and pause flags
  result, faults

upload_vars == <<received, uploaded, position, startAt, held, keys, monitor>>
retry_vars  == <<got429, gotTimeouts>>
config      == <<max429, maxTimeouts, hasStore>>
sending     == <<max429, maxTimeouts, loggedIn, hasStore, call, phase, got429, gotTimeouts, answer,
                 served, upload_vars, result, faults>>

NoAnswer == R!Answer(0, R!NoBody)
Unwatched == [transferred |-> 0, cancel |-> FALSE, pause |-> FALSE]
NoUpload == [content |-> <<>>, attempt |-> 0]
Attempt  == got429 + gotTimeouts + 1
IsUpload == call = upload

SendingInit ==
  /\ max429 \in Limits \cup {Unlimited} /\ maxTimeouts \in Limits \cup {Unlimited}
  /\ loggedIn \in BOOLEAN /\ hasStore \in BOOLEAN
  /\ call = login /\ phase = "idle" /\ result = "none" /\ faults = 0
  /\ got429 = 0 /\ gotTimeouts = 0 /\ answer = NoAnswer /\ served = {}
  /\ received = <<>> /\ uploaded = NoUpload /\ position = 0 /\ startAt = 0 /\ held = FALSE /\ keys = 0
  /\ monitor = Unwatched

Fault == faults < MaxFaults /\ faults' = faults + 1
End(outcome) == phase' = "done" /\ result' = outcome

-----------------------------------------------------------------------------
(* The call.                                                               *)

\* The decorators.
Guarded(c) == (c.login => loggedIn) /\ (c.store => hasStore)

\* The file may have been read from before.
Begin(c) ==
  /\ phase = "idle" /\ call' = c
  /\ IF Guarded(c) THEN phase' = "prepare" /\ result' = "none" ELSE End("refused")
  /\ position' \in IF c = upload THEN 0..FileSize ELSE {0}
  /\ UNCHANGED <<config, loggedIn, retry_vars, answer, served, received, uploaded, startAt, held, keys, monitor, faults>>

\* Slip: the second attempt goes on where the first one stopped.
ReadOn == position
\* provider of upload: the first attempt notes the position, a repetition seeks
\* to it.
Rewound == IF Attempt = 1 THEN position ELSE startAt

Restarted == IF Attempt = 1 THEN monitor ELSE [monitor EXCEPT !.transferred = 0]

Prepare ==
  /\ phase = "prepare" /\ phase' = IF IsUpload THEN "streaming" ELSE "sent"
  /\ position' = IF IsUpload THEN Rewound ELSE 0
  /\ startAt' = IF IsUpload /\ Attempt = 1 THEN position ELSE startAt
  /\ monitor' = Restarted
  /\ received' = <<>> /\ held' = FALSE
  /\ UNCHANGED <<config, loggedIn, call, got429, gotTimeouts, answer, served, uploaded, keys, result, faults>>

-----------------------------------------------------------------------------
(* The body of an upload.                                                  *)

\* _process_data_chunk first looks at cancel; it then keeps the chunk while the
\* monitor is paused, and looks at nothing else.
MayRead == ~monitor.cancel
Streaming == phase = "streaming" /\ ~held

ReadChunk ==
  /\ Streaming /\ position < FileSize /\ MayRead
  /\ position' = position + 1 /\ held' = TRUE
  /\ UNCHANGED <<config, loggedIn, call, phase, retry_vars, answer, served, received, uploaded, startAt, keys, monitor, result, faults>>

\* aiohttp sends the chunk, on_request_chunk_sent counts it.
SendChunk ==
  /\ phase = "streaming" /\ held /\ ~monitor.pause
  /\ held' = FALSE
  /\ received' = Append(received, position)
  /\ monitor' = [monitor EXCEPT !.transferred = @ + 1]
  /\ UNCHANGED <<config, loggedIn, call, phase, retry_vars, answer, served, uploaded, position, startAt, keys, result, faults>>

\* The last thing the generator yields are the keys of this encryption.
BodyEnds ==
  /\ Streaming /\ position = FileSize
  /\ phase' = "sent" /\ keys' = Attempt
  /\ UNCHANGED <<config, loggedIn, call, retry_vars, answer, served, received, uploaded, position, startAt, held, monitor, result, faults>>


UserCancels ==
  /\ phase \notin {"idle", "done"} /\ IsUpload /\ ~monitor.cancel
  /\ monitor' = [monitor EXCEPT !.cancel = TRUE]
  /\ UNCHANGED <<config, loggedIn, call, phase, retry_vars, answer, served, received, uploaded, position, startAt, held, keys, result, faults>>

UserPauses ==
  /\ phase \notin {"idle", "done"} /\ IsUpload /\ monitor' = [monitor EXCEPT !.pause = ~@]
  /\ UNCHANGED <<config, loggedIn, call, phase, retry_vars, answer, served, received, uploaded, position, startAt, held, keys, result, faults>>

-----------------------------------------------------------------------------
(* The homeserver and the way to it.                                       *)

\* A repetition of a request that can be repeated is the same to the server.
Effect == IF A!Repeatable(call.request) THEN 1 ELSE Attempt

Serve ==
  /\ phase = "sent" /\ phase' = "served"
  /\ served' = served \cup {Effect}
  /\ uploaded' = IF IsUpload THEN [content |-> received, attempt |-> Attempt] ELSE uploaded
  /\ UNCHANGED <<config, loggedIn, call, retry_vars, answer, received, position, startAt, held, keys, monitor, result, faults>>

Respond(a) ==
  /\ answer' = a /\ phase' = "answered"
  /\ UNCHANGED <<config, loggedIn, call, retry_vars, served, upload_vars, result>>

\* What was asked for; an error; a rate limit, of the server or of a gateway; a
\* page of the gateway, whether the request came through or not.
Answers == phase = "served" /\ Respond(R!Answer(200, R!FullBody(call.response))) /\ UNCHANGED faults
Refuses == phase = "sent" /\ (\E s \in {401, 403, 404} : Respond(R!Answer(s, R!ErrorBody))) /\ UNCHANGED faults
Limited == phase = "sent" /\ (\E b \in {R!ErrorBody, R!NoBody} : Respond(R!Answer(429, b))) /\ Fault
Gateway == phase \in {"sent", "served"} /\ Respond(R!Answer(502, R!NoBody)) /\ Fault

-----------------------------------------------------------------------------
(* The loop.                                                               *)

Outcome == R!Parse(call.response, answer, call.given)
Wait    == R!RetryAfter(call.response, answer, call.given)
IsLimited == answer.status = 429
\* Slip: one attempt too many.
GivesUpLate(n, limit) == limit # Unlimited /\ n > limit + 1
GivesUp(n, limit) == limit # Unlimited /\ n > limit

\* receive_response, as far as it changes who is logged in; an error may say
\* that the client has been logged out.
Received(outcome) ==
  CASE outcome = "success" /\ call.response = R!LoginResponse  -> loggedIn' = TRUE
    [] outcome = "success" /\ call.response = R!RegisterResponse -> loggedIn' = TRUE
    [] outcome = "success" /\ call = logout -> loggedIn' = FALSE
    [] outcome = "error" -> loggedIn' \in {loggedIn, FALSE}
    [] OTHER -> loggedIn' = loggedIn

\* An answer that is final, the last one allowed when it is a rate limit.
Finish ==
  /\ phase = "answered"
  /\ Outcome = "raises" \/ ~IsLimited \/ GivesUp(got429 + 1, max429)
  /\ got429' = IF IsLimited /\ Outcome # "raises" THEN got429 + 1 ELSE got429
  /\ IF Outcome = "raises" THEN End("unparsable") /\ UNCHANGED loggedIn
     ELSE End(Outcome) /\ Received(Outcome)
  /\ UNCHANGED <<config, call, gotTimeouts, answer, served, upload_vars, faults>>

\* A rate limit: sleep and go round again; what retry_after_ms holds is divided
\* by a thousand.
RetryLimited ==
  /\ phase = "answered" /\ IsLimited /\ Outcome # "raises" /\ ~GivesUp(got429 + 1, max429)
  /\ got429' = got429 + 1
  /\ IF Wait = "argument" THEN End("no_number") ELSE phase' = "prepare" /\ UNCHANGED result
  /\ UNCHANGED <<config, loggedIn, call, gotTimeouts, answer, served, upload_vars, faults>>

TimedOutOften(limit) == GivesUp(gotTimeouts + 1, limit)
\* ClientConnectionError or TimeoutError: counted, raised when there were too many,
\* or else the request is tried again.
Failed(count) ==
  /\ gotTimeouts' = count
  /\ IF TimedOutOften(maxTimeouts) THEN End("timeout") ELSE phase' = "prepare" /\ UNCHANGED result
  /\ UNCHANGED <<config, loggedIn, call, got429, answer, served, upload_vars>>

\* A timeout or a lost connection, before or after the server has the request.
Lost == Fault /\ phase \in {"streaming", "sent", "served"} /\ Failed(gotTimeouts + 1)

\* The generator raises TransferCancelledError, which is one more failed attempt
\* to _send.  This may go on without end: the count stops above every limit.
CancelSeen ==
  /\ Streaming /\ position < FileSize /\ ~MayRead
  /\ Failed(IF gotTimeouts < Unlimited THEN gotTimeouts + 1 ELSE gotTimeouts)
  /\ UNCHANGED faults

\* What the call knew is gone.
Forget ==
  /\ phase' = "idle" /\ call' = login /\ result' = "none" /\ answer' = NoAnswer /\ served' = {}
  /\ got429' = 0 /\ gotTimeouts' = 0
  /\ received' = <<>> /\ uploaded' = NoUpload /\ position' = 0 /\ startAt' = 0 /\ held' = FALSE /\ keys' = 0
  /\ monitor' = Unwatched
  /\ UNCHANGED <<config, loggedIn, faults>>
Return == phase = "done" /\ Forget

\* The steps of a call that has begun.
CallStep ==
  \/ Prepare \/ ReadChunk \/ SendChunk \/ BodyEnds \/ CancelSeen \/ UserCancels \/ UserPauses
  \/ Serve \/ Answers \/ Refuses \/ Limited \/ Gateway \/ Lost \/ Finish \/ RetryLimited

-----------------------------------------------------------------------------
(* Properties of a call.                                                   *)

Results == {"none", "success", "error", "refused", "unparsable", "no_number", "timeout"}
SendingTypeOK ==
  /\ {max429, maxTimeouts} \subseteq Limits \cup {Unlimited}
  /\ {loggedIn, hasStore} \subseteq BOOLEAN /\ call \in Calls
  /\ phase \in {"idle", "prepare", "streaming", "sent", "served", "answered", "done"}
  /\ got429 \in 0..MaxFaults /\ gotTimeouts \in 0..2 * Unlimited /\ served \subseteq 1..2 * Unlimited
  /\ result \in Results /\ faults \in 0..MaxFaults
  /\ held \in BOOLEAN /\ position \in 0..FileSize /\ startAt \in 0..FileSize /\ keys \in 0..2 * Unlimited
  /\ monitor.transferred \in 0..FileSize

\* A call is not retried beyond its limits.
LimitsKept ==
  /\ max429 # Unlimited => got429 <= max429 + 1
  /\ maxTimeouts # Unlimited => gotTimeouts <= maxTimeouts + 1

\* Retries, after a rate limit or a lost answer, do not make the server act
\* twice, unless the request is a POST: a message is sent and a to-device event
\* delivered once per call.
ActsOnce == A!Repeatable(call.request) => Cardinality(served) <= 1

\* Calls that take an error of the homeserver for what they asked for, and an
\* answer with nothing in it.
TakesErrors  == call \in {room_put_alias, room_delete_alias, room_get_state_event, content_repository_config}
TakesNothing == TakesErrors \/ call.response.schema.closed \/ call.response.file
                \/ call \in {list_direct_rooms, get_profile}

\* A call that returns its response class has been carried out by the server,
\* but for the calls that cannot tell, and for those only on the answers named.
SuccessIsReal ==
  phase = "done" /\ result = "success" /\ served = {} =>
    CASE answer.body = R!ErrorBody -> TakesErrors
      [] answer.body = R!NoBody    -> answer.status # 404 /\ TakesNothing
      [] OTHER -> FALSE

\* A call ends with a response or an error response, unless it may not be made, the
\* connection fails too often, or one of the known defects of parsing an error bites.
OnlyKnownRaises ==
  phase = "done" =>
    CASE result = "refused"    -> ~Guarded(call)

      [] result = "timeout"    -> gotTimeouts > maxTimeouts
      [] result = "unparsable" -> call \in {keys_claim, delete_devices}
      [] result = "no_number"  -> call \in {to_device, share_group_session}
      [] OTHER -> TRUE

\* What _send promises of a call: it keeps to its limits, retries without making
\* the server act again, and its outcome is what happened, or one of the known
\* exceptions.
CallPromise == SendingTypeOK /\ LimitsKept /\ ActsOnce /\ SuccessIsReal /\ OnlyKnownRaises

\* "How many 429 (Too many requests) errors can a request encounter before giving
\* up" (AsyncClientConfig): a rate limit never ends a call before
\* max_limit_exceeded is reached.
RateLimitsAreRetried == result # "no_number"

Suffix(n) == [i \in 1..FileSize - n |-> n + i]
\* The content of a successful upload is the file from where it stood, and the
\* keys that are returned decrypt it, however often it was started over; what the
\* monitor shows is what this attempt has sent.
UploadedWhole ==
  /\ phase = "done" /\ IsUpload /\ result = "success" =>
       uploaded = [content |-> Suffix(startAt), attempt |-> keys]
  /\ IsUpload /\ phase # "prepare" => monitor.transferred = Len(received)

\* "Raises a TransferCancelledError if a monitor is passed and its cancelled property
\* becomes set to True" (upload).  Does not hold: what the caller sees is the
\* ClientConnectionError of the last attempt, and without max_timeouts, the default,
\* there is none.
CancelIsDue == IsUpload /\ monitor.cancel /\ Streaming /\ position < FileSize
CancelEnds  == CancelIsDue ~> phase = "done"

\* Where timeouts have a limit, an upload that is cancelled while it still has
\* something to read fails, even when it is paused, and no later attempt carries it out.
CancelEndsLimited == CancelIsDue /\ maxTimeouts # Unlimited ~> result = "timeout"
=============================================================================
