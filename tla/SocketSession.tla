--------------------------- MODULE SocketSession ---------------------------
(***************************************************************************)
(* The frames of one WebSocket (actions/ws_socket_session.ts): queued      *)
(* until the socket is open, dispatched in arrival order, answered, and    *)
(* dropped once it has ended.  Requests run concurrently, may be cancelled *)
(* by id, may ask the client something (PeerRequests) and may revoke the   *)
(* credential of this very socket.                                         *)
(*                                                                         *)
(* The re-check behind the admission is SocketAdmission's: here it admits  *)
(* or refuses.  Whatever else closes a connection (a revocation, the cap,  *)
(* a deadline, a heartbeat, a broadcast that overflows) may do so at any   *)
(* time.  The loop that drains the queue is one run: while "draining" is   *)
(* not empty nothing else moves.                                           *)
(***************************************************************************)
EXTENDS PeerRequests, Sequences, Functions, SequencesExt

CONSTANTS
  Socket,           \* the connection whose session this is
  RequestIds,
  MaxQueuedFrames,  \* MAX_PRE_ADMISSION_FRAMES
  MaxQueuedBytes,   \* pre_admission_queue_max_bytes
  FrameSizes,       \* sizes of the frames; one over MaxMessageBytes closes
  MaxMessageBytes,
  MaxRunning,       \* MAX_INBOUND_DISPATCHES_PER_CONNECTION
  MaxFrames         \* bound on the frames received

ASSUME SessionAssumption ==
  /\ Socket \in Connections
  /\ {MaxQueuedFrames, MaxQueuedBytes, MaxMessageBytes, MaxRunning, MaxFrames}
       \subseteq Nat
  /\ FrameSizes \subseteq Nat

VARIABLES
  phase,               \* "opening", "open", "ended"
  opener,              \* where open_socket is: "admitting", "hook", "done"
  gone,                \* the socket's close event has fired
  frames,              \* the frames received, in arrival order
  queued_frames, queued_bytes,
  draining,            \* what open_socket's loop has left to dispatch
  pending_controllers, \* live request id -> the frame that carries it
  handler,             \* the frames being handled, and what each awaits
  revoking,            \* frames whose handler queued a close of this socket
  cancelled,           \* frames whose request controller a cancel fired
  settled,             \* frames whose onMessage promise has settled
  dispatched,          \* history: the frames handled, in order
  outbox               \* what the connection's writer accepted, in order

run_vars == <<pending_controllers, handler, revoking, cancelled>>
queue_vars == <<queued_frames, queued_bytes, draining>>
session_vars == <<phase, opener, gone, frames, queue_vars, run_vars, settled,
                  dispatched, outbox>>
all_vars == <<session_vars, registration, peer_vars>>

Numbers == 1..Len(frames)
Arriving == Len(frames) + 1

FrameKinds ==
  [kind : {"request"}, id : RequestIds]
    \cup [kind : {"cancel"}, id : RequestIds]
    \cup [kind : {"response"}, id : Ids]
    \cup [kind : {"invalid"}, id : {0}]

(* A handler runs, awaiting the client's answer to a peer request if       *)
(* "awaits" is not 0, and then flushes its effects.                        *)
(* What goes out is a reply, an error or a close; a close is "to" the      *)
(* frame whose handler asked for it, 0 for any other.                      *)

SessionInit ==
  /\ PeerInit
  /\ phase = "opening" /\ opener = "admitting" /\ gone = FALSE
  /\ frames = <<>>
  /\ queued_frames = <<>> /\ queued_bytes = 0
  /\ draining = <<>>
  /\ pending_controllers = <<>> /\ handler = <<>>
  /\ revoking = {} /\ cancelled = {} /\ settled = {}
  /\ dispatched = <<>>
  /\ outbox = <<>>

Admitted == registration[Socket] = "admitted"

NoLoopAtAll == TRUE

Between == draining = <<>>   \* no run of the drain loop is under way

-----------------------------------------------------------------------------
(* What is sent, and the end of the socket.  "done" is what the run        *)
(* settles besides, "sent" what the writer has accepted by then.           *)

Sent(what, n) == Append(outbox, [kind |-> what, to |-> n])

DropUnsettled(done) ==
  /\ queued_frames' = <<>>
  /\ settled' = settled \cup done

(* The abort listener drops the queue, settling each frame. *)
DropQueued(done) ==
  /\ queued_frames' = <<>>
  /\ settled' = settled \cup done \cup Range(queued_frames)

(***************************************************************************)
(* end_socket, and every close the registry makes: the connection goes,    *)
(* the signal aborts, and the close frame is the last thing sent.  "by" is *)
(* the frame whose handler asked for it, or 0.                             *)
(***************************************************************************)
EndSocket(sent, by, done) ==
  /\ Cleanup(Socket)
  /\ phase' = "ended"
  /\ DropQueued(done)
  /\ outbox' = Append(sent, [kind |-> "close", to |-> by])

Quietly(done) ==
  /\ settled' = settled \cup done
  /\ UNCHANGED <<phase, queued_frames, outbox, registration, peer_vars>>

(* send_to: refused when the connection is not admitted; accepted, or the  *)
(* overflow that ends the connection.                                      *)
Answer(what, n, done) ==
  \/ ~Admitted /\ Quietly(done)
  \/ /\ Admitted
     /\ outbox' = Sent(what, n)
     /\ settled' = settled \cup done
     /\ UNCHANGED <<phase, queued_frames, registration, peer_vars>>
  \/ Admitted /\ EndSocket(outbox, 0, done)

-----------------------------------------------------------------------------
(* handle_frame, up to its first await.                                    *)

Live(id) == id \in DOMAIN pending_controllers

NeverADuplicate(id) == FALSE

Duplicate(id) == Live(id)

RefusedInSilence(n) == Quietly({n}) /\ UNCHANGED run_vars

Refused(n) == Answer("error", n, {n}) /\ UNCHANGED run_vars

HandleResponse(n, id) ==
  /\ settled' = settled \cup {n}
  /\ UNCHANGED <<run_vars, phase, queued_frames, outbox>>
  /\ \/ \E what \in {"value", "client_error"} : ResolvePeerResponse(Socket, id, what)
     \/ /\ id \notin pending[Socket]
        /\ UNCHANGED <<registration, peer_vars>>

(* Aborts the controller of the request live under the id, if any. *)
HandleCancel(n, id) ==
  /\ cancelled' =
       cancelled \cup (IF Live(id) THEN {pending_controllers[id]} ELSE {})
  /\ UNCHANGED <<pending_controllers, handler, revoking>>
  /\ Quietly({n})

AtCeiling == Cardinality(DOMAIN pending_controllers) >= MaxRunning

(* A request that is refused neither for a live id nor at the ceiling is   *)
(* live from here.  (An unknown method is an "invalid" frame.)             *)
HandleRequest(n, id) ==
  \/ /\ Duplicate(id) \/ AtCeiling
     /\ Refused(n)
  \/ /\ ~Duplicate(id) /\ ~AtCeiling
     /\ pending_controllers' =
          [i \in DOMAIN pending_controllers \cup {id} |->
             IF i = id THEN n ELSE pending_controllers[i]]
     /\ handler' = [m \in DOMAIN handler \cup {n} |->
          IF m = n THEN [at |-> "running", awaits |-> 0] ELSE handler[m]]
     /\ UNCHANGED <<revoking, cancelled>>
     /\ Quietly({})

HandleFrame(n, f) ==
  /\ dispatched' = Append(dispatched, n)
  /\ \/ f.kind = "invalid" /\ Refused(n)
     \/ f.kind = "response" /\ HandleResponse(n, f.id)
     \/ f.kind = "cancel" /\ HandleCancel(n, f.id)
     \/ f.kind = "request" /\ HandleRequest(n, f.id)

-----------------------------------------------------------------------------
(* onMessage.                                                              *)

FitsQueue(size) ==
  /\ Len(queued_frames) < MaxQueuedFrames
  /\ queued_bytes + size <= MaxQueuedBytes

EndOnMessage ==
  /\ EndSocket(outbox, 0, {Arriving})
  /\ UNCHANGED <<queued_bytes, draining, run_vars, dispatched>>

ReceiveEnded ==
  /\ phase = "ended"
  /\ Quietly({Arriving})
  /\ UNCHANGED <<queued_bytes, draining, run_vars, dispatched>>

ReceiveOpening(size) ==
  /\ phase = "opening"
  /\ \/ ~FitsQueue(size) /\ EndOnMessage
     \/ /\ FitsQueue(size)
        /\ queued_frames' = Append(queued_frames, Arriving)
        /\ queued_bytes' = queued_bytes + size
        /\ UNCHANGED <<phase, draining, run_vars, settled, dispatched, outbox,
                       registration, peer_vars>>

ReceiveOpen(f) ==
  /\ phase = "open"
  /\ \/ ~Admitted /\ EndOnMessage
     \/ /\ Admitted
        /\ HandleFrame(Arriving, f)
        /\ UNCHANGED <<queued_bytes, draining>>

Receive(f, size) ==
  /\ Between /\ ~gone
  /\ Len(frames) < MaxFrames
  /\ frames' = Append(frames, f)
  /\ UNCHANGED <<opener, gone>>
  /\ \/ ReceiveEnded
     \/ phase # "ended" /\ size > MaxMessageBytes /\ EndOnMessage
     \/ size <= MaxMessageBytes /\ (ReceiveOpening(size) \/ ReceiveOpen(f))

-----------------------------------------------------------------------------
(* open_socket.                                                            *)

(* The re-check passed and nothing ended the socket meanwhile. *)
AdmitUpgrade ==
  /\ Between
  /\ opener = "admitting" /\ phase = "opening"
  /\ AdmitConnection(Socket)
  /\ opener' = "hook"
  /\ UNCHANGED <<phase, gone, frames, queue_vars, run_vars, settled, dispatched,
                 outbox>>

(* An ended socket needs no close frame. *)
RefuseUpgrade ==
  /\ Between
  /\ opener = "admitting"
  /\ opener' = "done"
  /\ UNCHANGED <<gone, frames, queued_bytes, draining, run_vars, dispatched>>
  /\ IF phase = "ended" THEN Quietly({}) ELSE EndSocket(outbox, 0, {})

(* on_socket_open returned, or there is none: the loop begins. *)
HookReturns ==
  /\ Between
  /\ opener = "hook"
  /\ opener' = "done"
  /\ UNCHANGED <<gone, frames, queued_bytes, run_vars, settled, dispatched,
                 outbox, registration, peer_vars>>
  /\ IF phase = "opening"
       THEN phase' = "open" /\ draining' = queued_frames /\ queued_frames' = <<>>
       ELSE UNCHANGED <<phase, draining, queued_frames>>

(* The client of a live socket is told, when the writer takes the error.   *)
HookThrows ==
  /\ Between
  /\ opener = "hook"
  /\ opener' = "done"
  /\ UNCHANGED <<gone, frames, queued_bytes, draining, run_vars, dispatched>>
  /\ \/ phase = "ended" /\ Quietly({})
     \/ phase # "ended" /\ EndSocket(outbox, 0, {})
     \/ phase # "ended" /\ Admitted /\ EndSocket(Sent("error", 0), 0, {})

(* One turn of the loop: an earlier frame's answer may have ended it all.  *)
DrainNext ==
  /\ draining # <<>>
  /\ draining' = Tail(draining)
  /\ IF Admitted
       THEN HandleFrame(Head(draining), frames[Head(draining)])
       ELSE Quietly({Head(draining)}) /\ UNCHANGED <<run_vars, dispatched>>
  /\ UNCHANGED <<opener, gone, frames, queued_bytes>>

-----------------------------------------------------------------------------
(* A request's handler.                                                    *)

Running(n) == n \in DOMAIN handler /\ handler[n] = [at |-> "running", awaits |-> 0]

(* It asks the client and awaits the outcome. *)
HandlerAsks(n) ==
  /\ Between /\ Running(n)
  /\ \/ /\ RequestConnection(Socket)
        /\ handler' = [handler EXCEPT ![n].awaits = next_id']
        /\ UNCHANGED <<phase, queued_frames, settled, outbox>>
     \/ /\ RequestNotAccepted(Socket)
        /\ UNCHANGED <<handler, phase, queued_frames, settled, outbox>>
     \/ /\ RequestOverflows(Socket)
        /\ phase' = "ended"
        /\ DropQueued({})
        /\ outbox' = Append(outbox, [kind |-> "close", to |-> 0])
        /\ UNCHANGED handler
  /\ UNCHANGED <<opener, gone, frames, queued_bytes, draining,
                 pending_controllers, revoking, cancelled, dispatched>>

HandlerHears(n) ==
  /\ Between
  /\ n \in DOMAIN handler /\ handler[n].awaits # 0
  /\ outcome[handler[n].awaits] # "none"
  /\ handler' = [handler EXCEPT ![n].awaits = 0]
  /\ UNCHANGED <<phase, opener, gone, frames, queue_vars, pending_controllers,
                 revoking, cancelled, settled, dispatched, outbox, registration,
                 peer_vars>>

(* It revokes the credential of this socket: the close is queued. *)
HandlerRevokes(n) ==
  /\ Between /\ Running(n)
  /\ revoking' = revoking \cup {n}
  /\ UNCHANGED <<phase, opener, gone, frames, queue_vars, pending_controllers,
                 handler, cancelled, settled, dispatched, outbox, registration,
                 peer_vars>>

FlushThenReply(n, closes) ==
  IF closes /\ Admitted THEN EndSocket(outbox, n, {})
                        ELSE Answer("reply", n, {})

(***************************************************************************)
(* The reply, then the deferred effects: a close queued by the handler     *)
(* runs once its transaction committed.                                    *)
(***************************************************************************)
ReplyThenFlush(n, closes) ==
  IF closes /\ Admitted
    THEN \/ EndSocket(Sent("reply", n), n, {})
         \/ EndSocket(outbox, 0, {})            \* the reply overflows it
    ELSE Answer("reply", n, {})

(* A handler that fails replies with its error and its effects are lost.   *)
HandlerReturns(n, committed) ==
  /\ Between /\ Running(n)
  /\ ReplyThenFlush(n, committed /\ n \in revoking)
  /\ pending_controllers' =
       Restrict(pending_controllers, DOMAIN pending_controllers \ {frames[n].id})
  /\ handler' = [handler EXCEPT ![n].at = "flushing"]
  /\ UNCHANGED <<opener, gone, frames, queued_bytes, draining, revoking,
                 cancelled, dispatched>>

(* The eager writes are done. *)
FlushDone(n) ==
  /\ Between
  /\ n \in DOMAIN handler /\ handler[n].at = "flushing"
  /\ handler' = Restrict(handler, DOMAIN handler \ {n})
  /\ settled' = settled \cup {n}
  /\ UNCHANGED <<phase, opener, gone, frames, queue_vars, pending_controllers,
                 revoking, cancelled, dispatched, outbox, registration,
                 peer_vars>>

-----------------------------------------------------------------------------
(* The rest of the world.                                                  *)

(* A close the registry makes, for whatever reason. *)
ClosedByRegistry ==
  /\ Between
  /\ registration[Socket] # "gone"
  /\ EndSocket(outbox, 0, {})
  /\ UNCHANGED <<opener, gone, frames, queued_bytes, draining, run_vars,
                 dispatched>>

(* remove_connection by someone else: the socket is left as it is. *)
BareRemoval ==
  /\ Between
  /\ EndConnection(Socket)
  /\ UNCHANGED session_vars

OnClose ==
  /\ Between /\ ~gone
  /\ gone' = TRUE
  /\ phase' = "ended"
  /\ DropQueued({})
  /\ Cleanup(Socket)
  /\ UNCHANGED <<opener, frames, queued_bytes, draining, run_vars, dispatched,
                 outbox>>

DeadlinePasses(id) ==
  /\ Between
  /\ PeerTimeout(id)
  /\ UNCHANGED session_vars

OpenerNext == AdmitUpgrade \/ RefuseUpgrade \/ HookReturns \/ HookThrows

HandlerNext(n) ==
  \/ HandlerAsks(n)
  \/ HandlerHears(n)
  \/ HandlerRevokes(n)
  \/ \E committed \in BOOLEAN : HandlerReturns(n, committed)
  \/ FlushDone(n)

SessionNext ==
  \/ \E f \in FrameKinds, size \in FrameSizes : Receive(f, size)
  \/ OpenerNext
  \/ DrainNext
  \/ \E n \in Numbers : HandlerNext(n)
  \/ ClosedByRegistry
  \/ BareRemoval
  \/ OnClose
  \/ \E id \in Ids : DeadlinePasses(id)

SessionSafetySpec == SessionInit /\ [][SessionNext]_all_vars

(***************************************************************************)
(* The re-check answers and the hook returns, the loop goes on, a timer    *)
(* fires; a handler that is not awaiting the client returns, and so do its *)
(* effects.  Nothing is assumed of the client, nor of its socket.          *)
(***************************************************************************)
SessionSpec ==
  /\ SessionSafetySpec
  /\ WF_all_vars(OpenerNext)
  /\ WF_all_vars(DrainNext)
  /\ \A id \in Ids : WF_all_vars(DeadlinePasses(id))
  /\ \A n \in 1..MaxFrames :
       /\ WF_all_vars(n \in Numbers /\ HandlerHears(n))
       /\ WF_all_vars(n \in Numbers
                        /\ \E committed \in BOOLEAN : HandlerReturns(n, committed))
       /\ WF_all_vars(n \in Numbers /\ FlushDone(n))

-----------------------------------------------------------------------------
(* Correctness.                                                            *)

(***************************************************************************)
(* Frames are handled in the order they came, those that had to wait for   *)
(* the admission included: the queue is emptied before a later frame runs. *)
(***************************************************************************)
HandledInOrder ==
  \A i, j \in DOMAIN dispatched : i < j => dispatched[i] < dispatched[j]

(***************************************************************************)
(* A cancel reaches the request it names, and only that one: a running     *)
(* request is cancelled exactly when a cancel of its id was handled since  *)
(* it was.  No other request, before or after it, takes its entry.         *)
(***************************************************************************)
CancelsReachTheirRequest ==
  LET CancelledSince(n) ==
        \E m \in Range(dispatched) :
          m > n /\ frames[m] = [kind |-> "cancel", id |-> frames[n].id]
  IN \A n \in DOMAIN handler :
       handler[n].at = "running" => (n \in cancelled <=> CancelledSince(n))

(***************************************************************************)
(* While the socket lives, each request that is done with has exactly one  *)
(* answer, and one that still runs has none, whichever way it went: run,   *)
(* refused for a live id or at the ceiling, or queued before.  A caller    *)
(* that revokes its own credential reads the reply, then the close: never  *)
(* the close first.                                                        *)
(***************************************************************************)
AnsweredOnce ==
  LET Answers(n) == {i \in DOMAIN outbox : outbox[i].to = n /\ outbox[i].kind # "close"}
  IN /\ phase = "open" /\ Admitted =>
         \A n \in Numbers : frames[n].kind = "request" =>
           Cardinality(Answers(n)) =
             IF n \in DOMAIN handler THEN (IF handler[n].at = "running" THEN 0 ELSE 1)
             ELSE IF n \in settled THEN 1 ELSE 0
     /\ \A i \in DOMAIN outbox :
         outbox[i].kind = "close" /\ outbox[i].to # 0
           => i > 1 /\ outbox[i - 1] = [kind |-> "reply", to |-> outbox[i].to]

(* Every onMessage promise settles: the frame was handled, or dropped with *)
(* its socket, even if its handler awaits a client that never answers.  At *)
(* most MaxFrames come, so that this is: each frame settles.               *)
EveryFrameSettles == <>[](Numbers \subseteq settled)
=============================================================================
