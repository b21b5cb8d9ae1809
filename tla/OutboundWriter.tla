--------------------------- MODULE OutboundWriter ---------------------------
(***************************************************************************)
(* The outbound side of one WebSocket connection: the byte-budgeted queue  *)
(* of frames, the pump that hands them to the socket, and the deadlines on *)
(* what the socket has not written (actions/ws_outbound_writer.ts,         *)
(* realtime/outbound_budget.ts), with the two things the registry does     *)
(* with it: close, and close for an overflow (connection_registry.ts).     *)
(*                                                                         *)
(* A push is a synchronous call.  The pump is a microtask: it runs before  *)
(* any timer, and after the rest of the burst that scheduled it.  How long *)
(* a poll waits is left out; that it waits far less than the write         *)
(* deadline is in Stall.  The client reads when it pleases, or never.      *)
(***************************************************************************)
EXTENDS Naturals, SequencesExt

CONSTANTS
  FrameSizes,      \* payload bytes of the frames pushed
  Overhead,        \* OUTBOUND_FRAME_OVERHEAD_BYTES
  MaxBytes,        \* the connection's outbound budget
  HighWater,       \* WS_WRITE_HIGH_WATER_BYTES
  MaxFrames        \* bound on the frames pushed

OutboundAssumption ==
  /\ FrameSizes \subseteq Nat \ {0}
  /\ Overhead \in Nat /\ MaxBytes \in Nat
  /\ HighWater \in Nat \ {0}
  /\ MaxFrames \in Nat

VARIABLES
  can_terminate,   \* whether the runtime can cut a socket (Node, Bun; not Deno)
  state,           \* "open", "closing" (close sent), "ended"
  waiting,         \* frames not handed to the socket, oldest first
  queued_bytes, queued_frames,    \* the budget's accounting of them
  pump_pending, poll_timer, stall_timer, close_timer,
  handed_since_stall_start,
  buffer,          \* external: frames the socket holds unwritten
  socket,          \* external: "up", "cut", "closed" (its close event fired)
  pushed,          \* frames pushed so far
  sent,            \* history: ids the socket took, in order
  covered,         \* history: what the buffer held when the deadline started
  seen             \* history: the buffer was read since the socket last wrote

budget_vars == <<queued_bytes, queued_frames>>
timer_vars == <<poll_timer, stall_timer, close_timer, handed_since_stall_start>>
socket_vars == <<buffer, socket, sent>>
outbound_vars == <<can_terminate, state, waiting, budget_vars, pump_pending, timer_vars,
                   socket_vars, pushed, covered, seen>>

\* A frame has an id and a size; the close frame has id 0.
CloseFrame == [id |-> 0, bytes |-> 1]

Bytes(frames) ==
  LET upto[n \in 0..Len(frames)] == IF n = 0 THEN 0 ELSE upto[n - 1] + frames[n].bytes
  IN  upto[Len(frames)]

Ids(frames) == {frames[i].id : i \in DOMAIN frames}

OutboundInit ==
  /\ can_terminate \in BOOLEAN
  /\ state = "open" /\ waiting = <<>>
  /\ queued_bytes = 0 /\ queued_frames = 0
  /\ pump_pending = FALSE
  /\ poll_timer = FALSE /\ stall_timer = FALSE /\ close_timer = FALSE
  /\ handed_since_stall_start = 0
  /\ buffer = <<>> /\ socket = "up" /\ sent = <<>>
  /\ pushed = 0
  /\ covered = {} /\ seen = TRUE

-----------------------------------------------------------------------------
(* The budget.                                                             *)

FitsWithoutItsOverhead(bytes) ==
  \/ queued_frames = 0
  \/ queued_bytes + bytes + queued_frames * Overhead <= MaxBytes

\* a frame is always admitted when nothing waits
Fits(bytes) ==
  \/ queued_frames = 0
  \/ queued_bytes + bytes + (queued_frames + 1) * Overhead <= MaxBytes

DiscardWaiting ==
  /\ waiting' = <<>>
  /\ queued_bytes' = 0 /\ queued_frames' = 0

-----------------------------------------------------------------------------
(* Handing frames to the socket.                                           *)

(***************************************************************************)
(* What may come of one run of #hand_over: the first n frames leave the    *)
(* queue, of which the socket throws on those in lost; "prompt" is a       *)
(* socket that writes each frame before its buffer is read again.  It goes *)
(* on while the buffer is below the high-water mark; at a close it also    *)
(* stops at the first frame the socket throws on.                          *)
(***************************************************************************)
Runs == [n : 0..Len(waiting), lost : SUBSET Ids(waiting), prompt : BOOLEAN]

HandedOver(r) == SubSeq(waiting, 1, r.n)

Taken(r, k) ==
  LET kept[n \in 0..Len(waiting)] ==
        IF n = 0 THEN <<>>
        ELSE IF waiting[n].id \in r.lost THEN kept[n - 1]
        ELSE Append(kept[n - 1], waiting[n])
  IN  kept[k]

BufferAfter(r, k) == IF r.prompt THEN buffer ELSE buffer \o Taken(r, k)

PossibleRun(r, stop_when_refused) ==
  /\ r.lost \subseteq Ids(HandedOver(r))
  /\ r.prompt => buffer = <<>>
  /\ \A k \in 0..(r.n - 1) : Bytes(BufferAfter(r, k)) < HighWater
  /\ stop_when_refused => \A k \in 1..(r.n - 1) : waiting[k].id \notin r.lost
  /\ \/ r.n = Len(waiting)
     \/ Bytes(BufferAfter(r, r.n)) >= HighWater
     \/ stop_when_refused /\ r.n > 0 /\ waiting[r.n].id \in r.lost

SocketTakes(r) ==
  /\ buffer' = BufferAfter(r, r.n)
  /\ sent' = sent \o [i \in DOMAIN Taken(r, r.n) |-> Taken(r, r.n)[i].id]
  /\ UNCHANGED socket

HandOver(r) ==
  /\ SocketTakes(r)
  /\ waiting' = SubSeq(waiting, r.n + 1, Len(waiting))
  /\ queued_bytes' = queued_bytes - Bytes(HandedOver(r))
  /\ queued_frames' = queued_frames - r.n

WatchOnlyABacklog(armed, handed) ==
  /\ stall_timer' = (armed \/ waiting' # <<>>)
  /\ handed_since_stall_start' = handed
  /\ covered' = IF armed THEN covered ELSE Ids(buffer')
  /\ poll_timer' = (waiting' # <<>>)
  /\ seen' = TRUE

(***************************************************************************)
(* #watch: the write deadline and the poll run while anything is           *)
(* unwritten.  "armed" and "handed" are what the caller has left of the    *)
(* deadline.                                                               *)
(***************************************************************************)
Watch(armed, handed) ==
  /\ IF Bytes(buffer') > 0 /\ ~armed
       THEN /\ stall_timer' = TRUE
            /\ handed_since_stall_start' = 0
            /\ covered' = Ids(buffer')
       ELSE /\ stall_timer' = armed
            /\ handed_since_stall_start' = handed
            /\ covered' = IF armed THEN covered ELSE {}
  /\ poll_timer' = (Bytes(buffer') > 0 \/ waiting' # <<>>)
  /\ seen' = TRUE

DrainWithoutMeeting ==
  \E r \in Runs :
    /\ PossibleRun(r, FALSE)
    /\ HandOver(r)
    /\ Watch(stall_timer, handed_since_stall_start + Bytes(HandedOver(r)))

\* the deadline is met once the buffer holds no more than was handed since
Drain ==
  LET met == stall_timer /\ Bytes(buffer) <= handed_since_stall_start
      before == IF met THEN 0 ELSE handed_since_stall_start
  IN \E r \in Runs :
       /\ PossibleRun(r, FALSE)
       /\ HandOver(r)
       /\ Watch(stall_timer /\ ~met, before + Bytes(HandedOver(r)))

-----------------------------------------------------------------------------
(* Pushing.                                                                *)

NextFrame(bytes) ==
  /\ pushed < MaxFrames
  /\ pushed' = pushed + 1

IdleUnlessBuffered == ~pump_pending /\ buffer = <<>>

Idle == ~pump_pending /\ waiting = <<>> /\ buffer = <<>>

(* Straight to the socket, which may throw, or write the frame at once.    *)
PushIdle(bytes) ==
  /\ state = "open" /\ socket # "closed"
  /\ Idle
  /\ NextFrame(bytes)
  /\ pump_pending' = TRUE
  /\ UNCHANGED <<state, waiting, budget_vars, socket, close_timer>>
  /\ \/ /\ buffer' \in {<<>>, <<[id |-> pushed', bytes |-> bytes]>>}
        /\ sent' = Append(sent, pushed')
        /\ Watch(FALSE, 0)
     \/ /\ stall_timer' = FALSE
        /\ handed_since_stall_start' = 0
        /\ UNCHANGED <<buffer, sent, poll_timer, covered, seen>>

PushQueued(bytes) ==
  /\ state = "open" /\ socket # "closed"
  /\ ~Idle
  /\ Fits(bytes)
  /\ NextFrame(bytes)
  /\ waiting' = Append(waiting, [id |-> pushed', bytes |-> bytes])
  /\ queued_bytes' = queued_bytes + bytes
  /\ queued_frames' = queued_frames + 1
  /\ pump_pending' = TRUE
  /\ UNCHANGED <<state, timer_vars, socket_vars, covered, seen>>

(* The microtask after a push. *)
Pump ==
  /\ pump_pending
  /\ pump_pending' = FALSE
  /\ IF state = "open"
       THEN Drain /\ UNCHANGED <<state, close_timer, pushed>>
       ELSE UNCHANGED <<state, waiting, budget_vars, timer_vars, socket_vars,
                        pushed, covered, seen>>

PollFires ==
  /\ poll_timer /\ ~pump_pending
  /\ Drain
  /\ UNCHANGED <<state, pump_pending, close_timer, pushed>>

-----------------------------------------------------------------------------
(* Closing.                                                                *)

\* the socket's close may throw; the writer has closed all the same
SendClose(buffered) == buffer' \in {buffered, Append(buffered, CloseFrame)}

(***************************************************************************)
(* close: with "flush" the pump's rule runs once more; what still waits is *)
(* dropped, and the close frame has its own deadline.                      *)
(***************************************************************************)
Close(backlog) ==
  /\ state = "open" /\ socket # "closed"
  /\ state' = "closing"
  /\ poll_timer' = FALSE /\ stall_timer' = FALSE /\ close_timer' = TRUE
  /\ \E r \in Runs :
       /\ IF backlog = "flush" THEN PossibleRun(r, TRUE)
                               ELSE r = [n |-> 0, lost |-> {}, prompt |-> FALSE]
       /\ handed_since_stall_start' =
            IF backlog = "flush" THEN Bytes(HandedOver(r)) ELSE 0
       /\ sent' = sent \o [i \in DOMAIN Taken(r, r.n) |-> Taken(r, r.n)[i].id]
       /\ SendClose(BufferAfter(r, r.n))
  /\ DiscardWaiting
  /\ UNCHANGED <<pump_pending, socket, pushed, covered, seen>>

(* A frame that does not fit: the registry closes the connection. *)
PushOverflow(bytes) ==
  /\ ~Idle
  /\ ~Fits(bytes)
  /\ pushed < MaxFrames
  /\ Close("discard")

(* The close is still unwritten at its deadline. *)
CloseDeadline ==
  /\ close_timer /\ ~pump_pending
  /\ close_timer' = FALSE
  /\ state' = "ended"
  /\ IF buffer # <<>> /\ can_terminate
       THEN socket' = "cut" /\ buffer' = <<>>
       ELSE UNCHANGED <<socket, buffer>>
  /\ UNCHANGED <<waiting, budget_vars, pump_pending, poll_timer, stall_timer,
                 handed_since_stall_start, sent, pushed, covered, seen>>

(***************************************************************************)
(* The write deadline passed.  A poll that is due reads the buffer long    *)
(* before, so a deadline passes on what the last read saw.                 *)
(***************************************************************************)
Stall ==
  /\ stall_timer /\ ~pump_pending
  /\ poll_timer => seen
  /\ state' = "ended"
  /\ stall_timer' = FALSE /\ poll_timer' = FALSE
  /\ DiscardWaiting
  /\ IF can_terminate
       THEN socket' = "cut" /\ buffer' = <<>>
       ELSE SendClose(buffer) /\ UNCHANGED socket
  /\ UNCHANGED <<pump_pending, close_timer, handed_since_stall_start, sent,
                 pushed, covered, seen>>

(* The socket's close event: remove_connection disposes of the writer.     *)
Dispose ==
  /\ socket # "closed"
  /\ socket' = "closed" /\ buffer' = <<>>
  /\ state' = "ended"
  /\ poll_timer' = FALSE /\ stall_timer' = FALSE /\ close_timer' = FALSE
  /\ handed_since_stall_start' = 0
  /\ DiscardWaiting
  /\ UNCHANGED <<pump_pending, sent, pushed, covered, seen>>

(* The client reads. *)
SocketWrites ==
  /\ buffer # <<>>
  /\ buffer' = Tail(buffer)
  /\ seen' = FALSE
  /\ UNCHANGED <<state, waiting, budget_vars, pump_pending, timer_vars, socket,
                 sent, pushed, covered>>

OutboundStep ==
  \/ \E bytes \in FrameSizes :
       PushIdle(bytes) \/ PushQueued(bytes) \/ PushOverflow(bytes)
  \/ Pump
  \/ PollFires
  \/ \E backlog \in {"flush", "discard"} : Close(backlog)
  \/ CloseDeadline
  \/ Stall
  \/ Dispose
  \/ SocketWrites

(* What the runtime can do does not change. *)
OutboundNext == OutboundStep /\ UNCHANGED can_terminate

OutboundSafetySpec == OutboundInit /\ [][OutboundNext]_outbound_vars

(* Microtasks and timers run.  Nothing is assumed of the client. *)
OutboundSpec ==
  /\ OutboundSafetySpec
  /\ WF_outbound_vars(Pump /\ UNCHANGED can_terminate)
  /\ WF_outbound_vars(PollFires /\ UNCHANGED can_terminate)
  /\ WF_outbound_vars(Stall /\ UNCHANGED can_terminate)
  /\ WF_outbound_vars(CloseDeadline /\ UNCHANGED can_terminate)

-----------------------------------------------------------------------------
(* Correctness.                                                            *)

(***************************************************************************)
(* A client reads the frames in the order they were pushed: whatever the   *)
(* socket took is in order, and nothing that still waits was pushed before *)
(* it.  The idle path may not overtake the queue.                          *)
(***************************************************************************)
FramesInOrder ==
  LET line == sent \o [i \in DOMAIN waiting |-> waiting[i].id]
  IN \A i, j \in DOMAIN line : i < j => line[i] < line[j]

(***************************************************************************)
(* A client that does not read cannot make the server hold more than its   *)
(* bound: what waits is within the budget, unless it is a single frame,    *)
(* and the socket holds less than the high-water mark plus one frame, and  *)
(* the close frame.  It is so whatever mix of pushes, pumps, polls and     *)
(* closes led there.                                                       *)
(***************************************************************************)
BacklogIsBounded ==
  /\ Len(waiting) > 1 => Bytes(waiting) + Len(waiting) * Overhead <= MaxBytes
  /\ Len(buffer) > 2 => Bytes(Front(Front(buffer))) < HighWater

(* What is held for a client is in order and within its bound. *)
OrderedAndBounded == FramesInOrder /\ BacklogIsBounded

(***************************************************************************)
(* A connection is dropped as stalled only for bytes that were in its      *)
(* buffer when the deadline started and still are: a client that reads     *)
(* them in time keeps its connection, however much is behind them.         *)
(***************************************************************************)
DroppedOnlyIfUnread ==
  [][stall_timer /\ state = "open" /\ state' = "ended" /\ socket' # "closed"
       => covered \cap Ids(buffer) # {}]_outbound_vars

(***************************************************************************)
(* No frame is held for good.  Whether or not the client ever reads, the   *)
(* frames, of which at most MaxFrames come, leave the queue and the        *)
(* socket's buffer: written, discarded, or cut with the socket at a        *)
(* deadline.  Where a runtime cannot cut a socket they leave at least the  *)
(* queue.                                                                  *)
(***************************************************************************)
NoFrameIsHeldForever ==
  LET HeldOf(frames) == Ids(frames) \cap 1..MaxFrames
  IN <>[](/\ HeldOf(waiting) = {}
          /\ can_terminate => HeldOf(buffer) = {})
=============================================================================
