---------------------------- MODULE ActionEvents ----------------------------
(***************************************************************************)
(* One action in the browser: the event that carries it through its phases *)
(* and steps (actions/action_event.ts), the client's method or the         *)
(* dispatcher that drives the event (rpc_client.ts, action_dispatcher.ts), *)
(* and the transport that a request or a notification takes                *)
(* (transports.ts, transports_http.ts, transports_ws.ts).                  *)
(*                                                                         *)
(* A handler or a transport may answer anything.  Payloads are left out: a *)
(* value is null, as it came ("raw") or as its schema parsed it.           *)
(***************************************************************************)
EXTENDS Naturals, FiniteSets

VARIABLES
    event,          \* the data of the event
    at,             \* where the code that drives it is
    outcome,        \* what the caller, or the peer that sent the message, is told
    sent,           \* the transports the message was given to
    answer,         \* what the remote made of it
    faithful,       \* every check and handler so far succeeded
    connected,      \* the socket is open
    will_reconnect  \* the socket will open again on its own

event_vars == <<event, at, outcome, sent, answer, faithful, connected, will_reconnect>>

RequestPhases == {"send_request", "receive_request", "send_response", "receive_response"}
ErrorPhases == {"send_error", "receive_error"}

KindOf(phase) ==
    CASE phase \in RequestPhases \cup ErrorPhases -> "request_response"
      [] phase \in {"send", "receive"} -> "remote_notification"
      [] OTHER -> "local_call"

\* Fields that hold a message or an error only say whether they do; a response says which
\* of the two it carries.
InitialData(phase, input) ==
    [kind |-> KindOf(phase), phase |-> phase, step |-> "initial", input |-> input,
     output |-> "null", error |-> FALSE, progress |-> FALSE,
     request |-> FALSE, response |-> "null", notification |-> FALSE]

EventsInit ==
    /\ event = InitialData("send_request", "raw")
    /\ at = "idle" /\ outcome = "none" /\ sent = {} /\ answer = "none"
    /\ faithful = TRUE
    /\ connected \in BOOLEAN /\ will_reconnect = FALSE

-----------------------------------------------------------------------------
\* What the event does.
Fail(d) == [d EXCEPT !.step = "failed", !.error = TRUE]
\* An error phase that keeps the output of the phase that failed.
ToErrorPhaseWithOutput(d, phase) ==
    [d EXCEPT !.phase = phase, !.step = "parsed", !.error = TRUE]

ToErrorPhase(d, phase) ==
    [d EXCEPT !.phase = phase, !.step = "parsed", !.error = TRUE, !.output = "null"]

ErrorPhaseFor(phase) ==
    CASE phase \in {"send_request", "receive_request"} -> "send_error"
      [] phase = "receive_response" -> "receive_error"
      [] OTHER -> "none"

\* A received response is parsed as output, an error response is an error, a response to
\* be sent is not parsed again, and all else is parsed as input.
Parse(d, valid) ==
    CASE d.response = "error" /\ d.phase = "receive_response" -> ToErrorPhase(d, "receive_error")
      [] d.response = "error" /\ d.phase # "receive_response" -> Fail(d)
      [] d.response # "error" /\ d.phase = "receive_response" ->
            IF valid THEN [d EXCEPT !.step = "parsed", !.output = "parsed"]
                     ELSE ToErrorPhase(d, "receive_error")
      [] d.response # "error" /\ d.phase = "send_response" -> [d EXCEPT !.step = "parsed"]
      [] OTHER -> IF valid THEN [d EXCEPT !.step = "parsed", !.input = "parsed"] ELSE Fail(d)

\* What is to be sent is created when the handling starts.
StartHandling(d) ==
    IF d.step = "failed" THEN d
    ELSE [d EXCEPT !.step = "handling",
                   !.request = @ \/ d.phase = "send_request",
                   !.notification = @ \/ d.phase = "send"]

\* Without a handler the step is handled; a value is validated where the phase says so.
Results == {"absent", "nothing", "value", "invalid", "throws"}
ValidatesOutput(d) == d.phase \in {"receive_request", "receive_response", "execute"}
HandlerThrew(d) ==
    IF ErrorPhaseFor(d.phase) = "none" THEN Fail(d) ELSE ToErrorPhase(d, ErrorPhaseFor(d.phase))
FinishHandling(d, result) ==
    CASE d.step = "failed" -> d
      [] d.step # "failed" /\ result = "throws" -> HandlerThrew(d)
      [] d.step # "failed" /\ result = "invalid" /\ ValidatesOutput(d) -> Fail(d)
      [] d.step # "failed" /\ result = "value" /\ ValidatesOutput(d) ->
            [d EXCEPT !.step = "handled", !.output = "parsed"]
      [] OTHER -> [d EXCEPT !.step = "handled"]

ToReceiveResponse(d) ==
    [InitialData("receive_response", d.input) EXCEPT !.request = d.request]
ToSendResponse(d) ==
    [InitialData("send_response", d.input)
        EXCEPT !.output = d.output, !.request = d.request,
               !.response = IF d.error THEN "error" ELSE "result"]

SetResponse(d, response) ==
    [d EXCEPT !.response = response, !.output = IF response = "result" THEN "raw" ELSE "null"]

\* A step that is handled taken for success, although an error was handled.
ExtractResultByStep(d) ==
    CASE d.step = "handled" -> "ok"
      [] d.step # "handled" /\ d.error -> "error"
      [] OTHER -> "rejected"

\* What the method returns: an error the event has comes before a step that is handled.
ExtractResult(d) ==
    CASE d.error -> "error"
      [] ~d.error /\ d.step = "handled" -> "ok"
      [] OTHER -> "rejected"

-----------------------------------------------------------------------------
\* The transports: HTTP is registered first, and always ready.
GetTransport(named, queue) ==
    IF named = "websocket" /\ (connected \/ (queue /\ will_reconnect))
    THEN "websocket"
    ELSE "http"

\* One step of the code that drives the event: it is handled, then this is done.
Drive(d, next) == event' = StartHandling(d) /\ at' = next

Wire == <<connected, will_reconnect>>

\* A method of the client is called: its input is parsed, and its handler begins.
Call(phase) ==
    /\ at = "idle"
    /\ \E valid \in BOOLEAN :
        /\ Drive(Parse(InitialData(phase, "raw"), valid), "handler")
        /\ faithful' = valid
    /\ UNCHANGED <<outcome, sent, answer, Wire>>

\* A message that asks something of this side comes over the socket.
Receive(phase) ==
    /\ at = "idle" /\ connected
    /\ LET initial == [InitialData(phase, "raw")
                          EXCEPT !.request = phase = "receive_request",
                                 !.notification = phase = "receive"]
       IN \E valid \in BOOLEAN :
            /\ Drive(Parse(initial, valid), "handler")
            /\ faithful' = valid
    /\ UNCHANGED <<outcome, sent, answer, Wire>>

\* A handler reports progress while it runs.
UpdateProgress ==
    /\ event.step = "handling" /\ ~event.progress
    /\ event' = [event EXCEPT !.progress = TRUE]
    /\ UNCHANGED <<at, outcome, sent, answer, faithful, Wire>>

\* The code goes on where the handler ended: with the handler of the error, with the
\* message, with the answer, or with what the method returns.
Ends(d, told) == event' = d /\ at' = "done" /\ outcome' = told
GoesOn(d, next) == Drive(d, next) /\ UNCHANGED outcome

Continue(d) ==
    CASE at = "handler" /\ d.phase = "send_request" /\ d.step = "handled" ->
            event' = d /\ at' = "sending" /\ UNCHANGED outcome
      [] at = "handler" /\ d.phase = "send" /\ d.step = "handled" ->
            event' = d /\ at' = "sending" /\ UNCHANGED outcome
      [] at = "handler" /\ d.phase = "receive_request" /\ d.step = "handled" ->
            GoesOn(Parse(ToSendResponse(d), TRUE), "responding")
      [] at = "handler" /\ d.phase = "send_error" /\ d.step = "parsed" ->
            GoesOn(d, "error handler")
      [] at = "responding" -> Ends(d, IF d.response = "result" THEN "ok" ELSE "error")
      [] at = "handler" /\ d.phase = "receive_request" /\ d.step = "failed" -> Ends(d, "error")
      [] d.phase = "receive" -> Ends(d, "none")
      [] OTHER -> Ends(d, ExtractResult(d))

HandlerReturns(result) ==
    /\ at \in {"handler", "error handler", "responding", "receiving"}
    /\ result = "absent" => ~event.progress
    /\ LET d == FinishHandling(event, result)
       IN /\ Continue(d)
          /\ faithful' = (faithful /\ (at = "responding"
                                       \/ (result # "throws" /\ d.step # "failed")))
    /\ UNCHANGED <<sent, answer, Wire>>

\* The message is given to a transport: the one the caller or the method's kind names, if
\* it is ready or a request may wait for it, or the default.
Send(named, queue) ==
    /\ at = "sending"
    /\ LET transport == GetTransport(named, queue /\ event.phase = "send_request")
       IN sent' = sent \cup {transport}
    /\ at' = "sent"
    /\ UNCHANGED <<event, outcome, answer, faithful, Wire>>

\* A request is answered with a result or an error; an abort, a message that is too large,
\* a socket that closes for good and an answer that is not one of JSON-RPC are errors.
Answered(response) ==
    /\ at = "sent" /\ event.phase = "send_request"
    /\ answer' = response
    /\ \E valid \in BOOLEAN :
        /\ Drive(Parse(SetResponse(ToReceiveResponse(event), response), valid), "receiving")
        /\ faithful' = (faithful /\ response = "result" /\ valid)
    /\ UNCHANGED <<outcome, sent, Wire>>

\* A notification over the socket is not answered; one that could not go is an error.
Notified(response) ==
    /\ at = "sent" /\ event.phase = "send"
    /\ answer' = response
    /\ at' = "done"
    /\ outcome' = IF response = "error" THEN "error" ELSE "ok"
    /\ faithful' = (faithful /\ response # "error")
    /\ UNCHANGED <<event, sent, Wire>>

\* The socket opens and closes, and may or may not come back.
SocketChanges ==
    /\ at \in {"handler", "sending"}
    /\ connected' \in BOOLEAN /\ will_reconnect' \in BOOLEAN
    /\ connected' => ~will_reconnect'
    /\ UNCHANGED <<event, at, outcome, sent, answer, faithful>>

EventsNext ==
    \/ \E phase \in {"send_request", "send", "execute"} : Call(phase)
    \/ \E phase \in {"receive_request", "receive"} : Receive(phase)
    \/ UpdateProgress
    \/ \E result \in Results : HandlerReturns(result)
    \/ \E named \in {"http", "websocket"}, queue \in BOOLEAN : Send(named, queue)
    \/ \E response \in {"result", "error"} : Answered(response)
    \/ \E response \in {"none", "error"} : Notified(response)
    \/ SocketChanges

EventsSpec == EventsInit /\ [][EventsNext]_event_vars

-----------------------------------------------------------------------------
\* What action_event_data.ts lists, phase by phase and step by step.  Progress is null
\* before the handling, an output is what a schema made of it or nothing.
Early(d) == d.step \in {"initial", "parsed"}
TInput(d) == d.input = "parsed"
TOutput(d) == d.output \in {"parsed", "null"}
FailsWithAnError(d) == d.error <=> d.step = "failed"

SendRequestData(d) ==
    /\ d.output = "null" /\ d.response = "null" /\ ~d.notification /\ FailsWithAnError(d)
    /\ d.step \notin {"initial", "failed"} => TInput(d)
    /\ Early(d) => ~d.request
    /\ d.step \in {"handling", "handled"} => d.request

ReceiveRequestData(d) ==
    /\ d.request /\ d.response = "null" /\ ~d.notification /\ FailsWithAnError(d)
    /\ d.step \notin {"initial", "failed"} => TInput(d)
    /\ IF d.step = "handled" THEN TOutput(d) ELSE d.output = "null"

SendResponseData(d) ==
    /\ d.request /\ d.response # "null" /\ ~d.notification /\ FailsWithAnError(d)
    /\ TInput(d) /\ TOutput(d)

ReceiveResponseData(d) ==
    /\ d.request /\ d.response # "null" /\ ~d.notification /\ FailsWithAnError(d)
    /\ TInput(d) /\ (d.step # "initial" => TOutput(d))

ErrorData(d) ==
    /\ d.error /\ d.step # "failed" /\ d.output = "null" /\ ~d.notification
    /\ IF d.phase = "send_error"
       THEN d.response = "null"
       ELSE d.request /\ d.response # "null" /\ TInput(d)

NotificationData(d) ==
    /\ d.output = "null" /\ ~d.request /\ d.response = "null" /\ FailsWithAnError(d)
    /\ d.step \notin {"initial", "failed"} => TInput(d)
    /\ d.phase = "send" /\ Early(d) => ~d.notification
    /\ d.phase = "receive" \/ d.step \in {"handling", "handled"} => d.notification

LocalCallData(d) ==
    /\ ~d.request /\ d.response = "null" /\ ~d.notification /\ FailsWithAnError(d)
    /\ d.step \notin {"initial", "failed"} => TInput(d)
    /\ IF d.step = "handled" THEN TOutput(d) ELSE d.output = "null"

ActionEventData(d) ==
    /\ d.kind = KindOf(d.phase)
    /\ Early(d) => ~d.progress
    /\ CASE d.phase = "send_request" -> SendRequestData(d)
         [] d.phase = "receive_request" -> ReceiveRequestData(d)
         [] d.phase = "send_response" -> SendResponseData(d)
         [] d.phase = "receive_response" -> ReceiveResponseData(d)
         [] d.phase \in ErrorPhases -> ErrorData(d)
         [] d.phase \in {"send", "receive"} -> NotificationData(d)
         [] OTHER -> LocalCallData(d)

\* The code casts every record it makes to this type.  Two kinds of record are not of it: an
\* error phase whose own handler threw, and an error phase that starts with the progress
\* of the phase that failed.
EventsAreOfTheirType ==
    \/ ActionEventData(event)
    \/ event.phase \in ErrorPhases
       /\ (event.step = "failed" \/ (event.step = "parsed" /\ event.progress))

\* What the caller is told is what happened: it is told of success if and only if every
\* check and every handler that decides it succeeded, and the remote answered with a
\* result; an error the remote knows nothing of is one of a message that was not sent.
\* A message goes to one transport, which is open or will be.
ResultsAreTrue ==
    /\ at = "done" /\ event.phase # "receive" =>
        /\ outcome = IF faithful THEN "ok" ELSE "error"
        /\ outcome = "ok" /\ event.phase = "receive_response" => answer = "result"
        /\ outcome = "error" /\ answer = "none" => sent = {}
    /\ Cardinality(sent) <= 1
    /\ at = "sent" /\ "websocket" \in sent =>
        connected \/ (will_reconnect /\ event.phase = "send_request")
=============================================================================
