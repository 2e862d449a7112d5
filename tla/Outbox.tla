------------------------------- MODULE Outbox -------------------------------
(***************************************************************************)
(* event/client.rs: what is written to one X client.  The connection      *)
(* thread queues replies, any thread queues events, and a writer thread   *)
(* sends them.  Every message is stamped with a 16-bit sequence number,   *)
(* which libxcb widens again: the client's half of that is modelled, from *)
(* what the comments in event/client.rs say of it, to ask whether it ends *)
(* up with the number that was meant.                                     *)
(*                                                                        *)
(* `of', the number of the request a message is about, is not on the wire *)
(* and no step of the code reads it.                                      *)
(***************************************************************************)
EXTENDS Integers, SequencesExt

CONSTANTS Wrap,         \* how many sequence numbers there are (2^16)
          MaxBytes,     \* MAX_QUEUED_BYTES
          Sizes,        \* the sizes of replies; an event's is 1
          MaxSilent,    \* bound: requests in a row without an answer due
          MaxRequests   \* bound: requests of the connection

ASSUME OutboxAssumption ==
  /\ Wrap \in Nat \ {0} /\ Wrap % 2 = 0
  /\ MaxBytes \in Nat /\ MaxSilent \in Nat /\ MaxRequests \in Nat
  /\ Sizes \subseteq Nat \ {0}

VARIABLES outbox,    \* Outbox, under its mutex
          conn,      \* where the connection thread is
          registered, \* events reach this client
          writer,    \* the writer thread: where it is, the message it writes
          up,        \* nobody shut the socket down
          handled,   \* how many requests the connection thread has read
          asked,     \* the last of them an answer is due to
          peer,      \* what the client does: reading, stalled, gone
          full,      \* the widened number of the last message it read
          heard,     \* that message
          waits      \* the requests it waits for the answer of
outboxVars == <<outbox, conn, registered, writer, up, handled, asked, peer, full, heard, waits>>
clientVars == <<peer, full, heard, waits>>

Wire == 0 .. Wrap - 1
Requests == 1 .. MaxRequests
Nothing == [kind |-> "none", seq |-> 0, of |-> 0, size |-> 0]
Messages == [kind : {"setup", "reply", "event"}, seq : Wire,
             of : 0 .. MaxRequests, size : Sizes \cup {1}]

MessagesOK ==
  /\ outbox \in [queue : Seq(Messages), bytes : Nat, last : Wire,
                 closed : BOOLEAN]
  /\ conn \in {"handshake", "register", "reading", "dispatch", "closing", "ended"}
  /\ writer \in [at : {"awake", "waiting", "writing", "done"},
                 hand : Messages \cup {Nothing}]
  /\ up \in BOOLEAN /\ registered \in BOOLEAN
  /\ handled \in 0 .. MaxRequests /\ asked \in 0 .. handled
  /\ peer \in {"reading", "stalled", "gone"}
  /\ full \in Nat
  /\ heard \in Messages \cup {Nothing}
  /\ waits \subseteq Requests

OutboxInit ==
  /\ outbox = [queue |-> <<>>, bytes |-> 0, last |-> 0, closed |-> FALSE]
  /\ conn = "handshake" /\ registered = FALSE
  /\ writer = [at |-> "awake", hand |-> Nothing]
  /\ up = TRUE
  /\ handled = 0 /\ asked = 0
  /\ peer = "reading" /\ full = 0 /\ heard = Nothing /\ waits = {}

-----------------------------------------------------------------------------
(* Queueing, under the lock.                                              *)

\* Client::seq, as the connection thread stores it before each dispatch.
CurrentSeq == handled % Wrap

\* Mutant: plain comparison, which the first wrap defeats.
MonotonicNaive(seq, last) == IF seq >= last THEN seq ELSE last

\* `seq', unless it is behind the last one stamped, as an i16 sees it.
Monotonic(seq, last) ==
  IF (seq - last) % Wrap < Wrap \div 2 THEN seq ELSE last

Notified == IF writer.at = "waiting" THEN [writer EXCEPT !.at = "awake"]
            ELSE writer

TooFarBehind(size) == outbox.bytes > 0 /\ outbox.bytes + size > MaxBytes

\* enqueue, with `last' as already stamped.
Enqueue(m, last) ==
  \/ /\ outbox.closed
     /\ outbox' = [outbox EXCEPT !.last = last]
     /\ UNCHANGED <<writer, up>>
  \/ /\ ~outbox.closed /\ TooFarBehind(m.size)
     /\ outbox' = [queue |-> <<>>, bytes |-> 0, last |-> last, closed |-> TRUE]
     /\ up' = FALSE
     /\ writer' = Notified
  \/ /\ ~outbox.closed /\ ~TooFarBehind(m.size)
     /\ outbox' = [outbox EXCEPT !.queue = Append(@, m), !.last = last,
                                 !.bytes = @ + m.size]
     /\ writer' = Notified
     /\ UNCHANGED up

Stamped(kind, size) ==
  LET seq == Monotonic(CurrentSeq, outbox.last)
  IN  Enqueue([kind |-> kind, seq |-> seq, of |-> handled, size |-> size], seq)

-----------------------------------------------------------------------------
(* The connection thread.                                                 *)

WriteSetup ==
  /\ conn = "handshake"
  /\ Enqueue([kind |-> "setup", seq |-> 0, of |-> 0, size |-> 1],
             outbox.last)
  /\ conn' = IF outbox'.closed THEN "closing" ELSE "register"
  /\ UNCHANGED <<registered, handled, asked, clientVars>>

\* EventSink::register: from now on events reach this client.
Register ==
  /\ conn = "register"
  /\ conn' = "reading" /\ registered' = TRUE
  /\ UNCHANGED <<outbox, writer, up, handled, asked, clientVars>>

\* A request is read.  A client must not send more than Wrap - 1 in a row that
\* no answer is due to, and libxcb asks for one then; nothing else limits them.
ReadRequest ==
  /\ conn = "reading" /\ handled < MaxRequests
  /\ handled' = handled + 1
  /\ conn' = "dispatch"
  /\ \/ asked' = handled' /\ waits' = waits \cup {handled'}
     \/ handled' - asked <= MaxSilent /\ UNCHANGED <<asked, waits>>
  /\ UNCHANGED <<registered, outbox, writer, up, peer, full, heard>>

\* dispatch answers: with the reply that is due, or with an error.
SendReply ==
  /\ conn = "dispatch"
  /\ \E size \in Sizes : Stamped("reply", size)
  /\ conn' = IF outbox'.closed THEN "closing" ELSE "reading"
  /\ UNCHANGED <<registered, handled, asked, clientVars>>

\* dispatch of a request that has no reply.
Silently ==
  /\ conn = "dispatch" /\ handled # asked
  /\ conn' = "reading"
  /\ UNCHANGED <<registered, outbox, writer, up, handled, asked, clientVars>>

\* The end of the stream, or a request that cannot be read.
ReadEnds ==
  /\ conn \in {"handshake", "reading"}
  /\ conn' = "closing"
  /\ UNCHANGED <<registered, outbox, writer, up, handled, asked, clientVars>>

\* Mutant: what is queued is discarded.
CloseDiscards ==
  /\ conn = "closing"
  /\ conn' = "ended"
  /\ outbox' = [outbox EXCEPT !.closed = TRUE, !.queue = <<>>, !.bytes = 0]
  /\ writer' = Notified
  /\ UNCHANGED <<registered, up, handled, asked, clientVars>>

Close ==
  /\ conn = "closing"
  /\ conn' = "ended"
  /\ outbox' = [outbox EXCEPT !.closed = TRUE]
  /\ writer' = Notified
  /\ UNCHANGED <<registered, up, handled, asked, clientVars>>

-----------------------------------------------------------------------------
(* Every other thread, and the connection thread for its own events.      *)

SendEvent ==
  /\ registered
  /\ Stamped("event", 1)
  /\ UNCHANGED <<registered, conn, handled, asked, clientVars>>

-----------------------------------------------------------------------------
(* The writer thread.                                                     *)

Pop ==
  /\ writer.at = "awake" /\ outbox.queue # <<>>
  /\ writer' = [at |-> "writing", hand |-> Head(outbox.queue)]
  /\ outbox' = [outbox EXCEPT !.queue = Tail(@),
                              !.bytes = @ - Head(outbox.queue).size]
  /\ UNCHANGED <<registered, conn, up, handled, asked, clientVars>>

Wait ==
  /\ writer.at = "awake" /\ outbox.queue = <<>> /\ ~outbox.closed
  /\ writer' = [writer EXCEPT !.at = "waiting"]
  /\ UNCHANGED <<registered, outbox, conn, up, handled, asked, clientVars>>

Exit ==
  /\ writer.at = "awake" /\ outbox.queue = <<>> /\ outbox.closed
  /\ writer' = [writer EXCEPT !.at = "done"]
  /\ UNCHANGED <<registered, outbox, conn, up, handled, asked, clientVars>>

\* libxcb: the first number with these low bits that is not behind the last.
Widened(seq) ==
  LET near == (full - (full % Wrap)) + seq
  IN  IF near < full THEN near + Wrap ELSE near

\* write_all, and the client reading it: a reply is the answer to the request
\* with the number it widens to.
Write ==
  /\ writer.at = "writing" /\ up /\ peer = "reading"
  /\ writer' = [at |-> "awake", hand |-> Nothing]
  /\ heard' = writer.hand
  /\ full' = IF heard'.kind = "setup" THEN full ELSE Widened(heard'.seq)
  /\ waits' = IF heard'.kind = "reply" THEN waits \ {full'} ELSE waits
  /\ UNCHANGED <<registered, outbox, conn, up, handled, asked, peer>>

\* Mutant: the connection thread's socket stays open.
WriteFailsQuietly ==
  /\ writer.at = "writing" /\ ~(up /\ peer = "reading")
  /\ writer' = [at |-> "done", hand |-> Nothing]
  /\ outbox' = [outbox EXCEPT !.queue = <<>>, !.bytes = 0, !.closed = TRUE]
  /\ UNCHANGED <<registered, conn, up, handled, asked, clientVars>>

\* The write fails, at WRITE_TIMEOUT if the client reads no more: drop_client.
WriteFails ==
  /\ writer.at = "writing" /\ ~(up /\ peer = "reading")
  /\ writer' = [at |-> "done", hand |-> Nothing]
  /\ outbox' = [outbox EXCEPT !.queue = <<>>, !.bytes = 0, !.closed = TRUE]
  /\ up' = FALSE
  /\ UNCHANGED <<registered, conn, handled, asked, clientVars>>

-----------------------------------------------------------------------------
(* The client, which may stop reading, or leave.                          *)

PeerStalls ==
  /\ peer = "reading" /\ peer' = "stalled"
  /\ UNCHANGED <<registered, outbox, conn, writer, up, handled, asked,
                 full, heard, waits>>

PeerLeaves ==
  /\ peer # "gone" /\ peer' = "gone"
  /\ UNCHANGED <<registered, outbox, conn, writer, up, handled, asked,
                 full, heard, waits>>

OutboxNext ==
  \/ WriteSetup \/ Register \/ ReadRequest \/ SendReply \/ Silently
  \/ ReadEnds \/ Close \/ SendEvent
  \/ Pop \/ Wait \/ Exit \/ Write \/ WriteFails
  \/ PeerStalls \/ PeerLeaves

\* The threads go on; a blocking read ends once the socket is shut down or
\* the client has gone, whatever was still in the reader's buffer.
OutboxFairness ==
  /\ WF_outboxVars(Register \/ Close) /\ WF_outboxVars(SendReply \/ Silently)
  /\ SF_outboxVars(ReadEnds /\ (~up \/ peer = "gone"))
  /\ WF_outboxVars(Pop \/ Wait \/ Exit) /\ WF_outboxVars(Write \/ WriteFails)

OutboxSpec == OutboxInit /\ [][OutboxNext]_outboxVars /\ OutboxFairness

-----------------------------------------------------------------------------
(* Properties.                                                            *)

\* libxcb never widens a number past the last request: it would abort with
\* xcb_xlib_threads_sequence_lost (the comment on Outbox).
SequenceNeverLost == full <= handled

\* A reply, or an error in place of one, is widened to the number of its own
\* request, through every wrap and whatever events were stamped in between
\* (send_reply, monotonic).
ReplyFindsItsRequest == heard.kind = "reply" => full = heard.of

\* A client that reads has every answer due to it, also those still queued as
\* its connection ends, unless it was dropped (writer_loop, close).
AnswersArrive ==
  \A n \in Requests :
    n \in waits ~> n \notin waits \/ ~up \/ peer # "reading"

\* Once a client has gone or its outbox is closed, from whichever side, both
\* its threads end: neither is left in a read or a wait (enqueue,
\* drop_client, close).
BothThreadsEnd ==
  outbox.closed \/ peer = "gone" ~> conn = "ended" /\ writer.at = "done"
=============================================================================
