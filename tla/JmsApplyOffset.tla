--------------------------- MODULE JmsApplyOffset ---------------------------
(***************************************************************************)
(* The instrument's request for a telescope offset over JMS:               *)
(* JmsApplyOffset::sendOffset (src/src/gemini/tcs/jms/JmsApplyOffset.cpp), *)
(* against a TCS that takes requests from the offset destination and       *)
(* answers on the reply queue the request names.                           *)
(*                                                                         *)
(* One client thread makes up to MaxCalls calls one after another.  Each   *)
(* call creates a request message, a temporary reply queue and a consumer, *)
(* sends, waits (with or without a timeout), closes the consumer,          *)
(* destroys the queue and reads the answer.  Every CMS call may throw a    *)
(* CMSException, caught at the end of sendOffset.  The TCS answers any     *)
(* pending request at any later time, or never; an answer to a queue that *)
(* no longer exists is lost.  An answer need not be a BytesMessage, in     *)
(* which case sendOffset returns status::ERROR.  Temporary queues are named by the call that *)
(* created them, since the broker gives each one a fresh name.             *)
(***************************************************************************)
EXTENDS Naturals, Sequences

CONSTANTS
  MaxCalls,   \* calls of sendOffset made by the client
  Timeouts    \* timeout arguments, in {0, 1}: 0 waits forever

VARIABLES
  cpc,        \* where the client is in sendOffset
  call,       \* number of the current (or last) call
  tmo,        \* the current call's timeout argument
  rMsg,       \* request message held by the call: "none", "live", "deleted"
  deletes,    \* how many times the current request message was deleted
  tmpQueue,   \* the current call's temporary queue, 0 before it exists
  live,       \* temporary queues that exist on the broker
  inbox,      \* inbox[q]: answers waiting in queue q
  pending,    \* requests sent to the TCS and not yet answered
  reply,      \* answer received by the current call, or NoReply
  result,     \* outcome of the last finished call
  failed      \* calls that ended in a CMSException (history)

vars == <<cpc, call, tmo, rMsg, deletes, tmpQueue, live, inbox, pending,
          reply, result, failed>>

QueueIds == 0 .. MaxCalls
NoReply == [req |-> 0, applied |-> FALSE, bytes |-> FALSE]
Answer == [req : 1 .. MaxCalls, applied : BOOLEAN, bytes : BOOLEAN]
Outcome == [kind : {"none", "applied", "timeout", "error", "commError"},
            call : 0 .. MaxCalls, req : 0 .. MaxCalls, applied : BOOLEAN]

-----------------------------------------------------------------------------
(* Client: the steps of sendOffset (lines 42-95)                           *)

\* Entry and 'rMsg = _session->createBytesMessage();'
CreateRequest ==
  /\ cpc = "idle" /\ call < MaxCalls
  /\ \E t \in Timeouts : tmo' = t
  /\ call' = call + 1
  /\ cpc' = "message"
  /\ rMsg' = "live"
  /\ deletes' = 0
  /\ tmpQueue' = 0
  /\ reply' = NoReply
  /\ UNCHANGED <<live, inbox, pending, result, failed>>

\* Mutant: every call answers on the same, fixed reply queue.
CreateReplyQueue_shared ==
  /\ cpc = "message"
  /\ tmpQueue' = 0
  /\ live' = live \cup {0}
  /\ cpc' = "queue"
  /\ UNCHANGED <<call, tmo, rMsg, deletes, inbox, pending, reply, result,
                 failed>>

\* 'createTemporaryQueue(); createConsumer(tmpQueue);': a new queue, named
\* by this call; a fresh temporary queue holds no messages.
CreateReplyQueue ==
  /\ cpc = "message"
  /\ tmpQueue' = call
  /\ live' = live \cup {call}
  /\ cpc' = "queue"
  /\ UNCHANGED <<call, tmo, rMsg, deletes, inbox, pending, reply, result,
                 failed>>

\* 'setCMSReplyTo(tmpQueue)', the writes, '_producer->send(rMsg)', then
\* 'delete rMsg' (the pointer is not set back to NULL).
SendRequest ==
  /\ cpc = "queue"
  /\ pending' = pending \cup {[req |-> call, replyTo |-> tmpQueue]}
  /\ rMsg' = "deleted"
  /\ deletes' = deletes + 1
  /\ cpc' = "wait"
  /\ UNCHANGED <<call, tmo, tmpQueue, live, inbox, reply, result, failed>>

\* 'tmpConsumer->receive(...)' returning the first answer in the queue.
Receive ==
  /\ cpc = "wait"
  /\ inbox[tmpQueue] # << >>
  /\ reply' = Head(inbox[tmpQueue])
  /\ inbox' = [inbox EXCEPT ![tmpQueue] = Tail(@)]
  /\ cpc' = "received"
  /\ UNCHANGED <<call, tmo, rMsg, deletes, tmpQueue, live, pending, result,
                 failed>>

\* Mutant: the arms of '(timeout > 0) ? receive(timeout) : receive()' are
\* swapped, so a call with a timeout waits forever.
ReceiveTimeout_swapped ==
  /\ cpc = "wait" /\ tmo = 0
  /\ inbox[tmpQueue] = << >>
  /\ reply' = NoReply
  /\ cpc' = "received"
  /\ UNCHANGED <<call, tmo, rMsg, deletes, tmpQueue, live, inbox, pending,
                 result, failed>>

\* 'receive(timeout)' with timeout > 0 returns NULL when nothing came.
ReceiveTimeout ==
  /\ cpc = "wait" /\ tmo > 0
  /\ inbox[tmpQueue] = << >>
  /\ reply' = NoReply
  /\ cpc' = "received"
  /\ UNCHANGED <<call, tmo, rMsg, deletes, tmpQueue, live, inbox, pending,
                 result, failed>>

\* Mutant: the consumer is closed but the queue is not destroyed.
DestroyReplyQueue_kept ==
  /\ cpc = "received"
  /\ cpc' = "closed"
  /\ UNCHANGED <<call, tmo, rMsg, deletes, tmpQueue, live, inbox, pending,
                 reply, result, failed>>

\* 'tmpConsumer->close(); tmpQueue->destroy();': the queue and whatever
\* it still holds disappear.
DestroyReplyQueue ==
  /\ cpc = "received"
  /\ live' = live \ {tmpQueue}
  /\ inbox' = [inbox EXCEPT ![tmpQueue] = << >>]
  /\ cpc' = "closed"
  /\ UNCHANGED <<call, tmo, rMsg, deletes, tmpQueue, pending, reply, result,
                 failed>>

\* 'if (reply != NULL) { if (bytesMessage == NULL) return status::ERROR;
\* wasOffsetApplied = readBoolean(); } else throw TimeoutException' (not a
\* CMSException, so it leaves sendOffset directly).
ReturnKind ==
  CASE reply = NoReply -> "timeout"
    [] ~reply.bytes    -> "error"
    [] OTHER           -> "applied"

Return ==
  /\ cpc = "closed"
  /\ result' = [kind |-> ReturnKind,
                call |-> call, req |-> reply.req, applied |-> reply.applied]
  /\ cpc' = "idle"
  /\ UNCHANGED <<call, tmo, rMsg, deletes, tmpQueue, live, inbox, pending,
                 reply, failed>>

\* A CMS call of the try block throws: 'catch (CMSException &e)' deletes
\* rMsg if it is not NULL and throws CommunicationException.  The consumer
\* and the temporary queue created so far are left as they are.
CMSFailure ==
  /\ cpc \in {"message", "queue", "wait", "received", "closed"}
  /\ deletes' = IF rMsg # "none" THEN deletes + 1 ELSE deletes
  /\ rMsg' = IF rMsg # "none" THEN "deleted" ELSE rMsg
  /\ result' = [kind |-> "commError", call |-> call, req |-> 0,
                applied |-> FALSE]
  /\ failed' = failed \cup {call}
  /\ cpc' = "idle"
  /\ UNCHANGED <<call, tmo, tmpQueue, live, inbox, pending, reply>>

\* createBytesMessage itself throws: rMsg is still NULL.
CreateRequestFailure ==
  /\ cpc = "idle" /\ call < MaxCalls
  /\ call' = call + 1
  /\ rMsg' = "none"
  /\ deletes' = 0
  /\ tmpQueue' = 0
  /\ result' = [kind |-> "commError", call |-> call + 1, req |-> 0,
                applied |-> FALSE]
  /\ failed' = failed \cup {call + 1}
  /\ UNCHANGED <<cpc, tmo, live, inbox, pending, reply>>

-----------------------------------------------------------------------------
(* The TCS                                                                 *)

\* The TCS applies (or refuses) a requested offset and answers on the
\* request's reply queue; the answer is lost if that queue is gone.
TcsAnswer ==
  \E r \in pending, ok \in BOOLEAN, isBytes \in BOOLEAN :
    /\ pending' = pending \ {r}
    /\ inbox' = IF r.replyTo \in live
                  THEN [inbox EXCEPT ![r.replyTo] =
                          Append(@, [req |-> r.req, applied |-> ok,
                                     bytes |-> isBytes])]
                  ELSE inbox
    /\ UNCHANGED <<cpc, call, tmo, rMsg, deletes, tmpQueue, live, reply,
                   result, failed>>

Init ==
  /\ cpc = "idle"
  /\ call = 0
  /\ tmo = 0
  /\ rMsg = "none"
  /\ deletes = 0
  /\ tmpQueue = 0
  /\ live = {}
  /\ inbox = [q \in QueueIds |-> << >>]
  /\ pending = {}
  /\ reply = NoReply
  /\ result = [kind |-> "none", call |-> 0, req |-> 0, applied |-> FALSE]
  /\ failed = {}

Next ==
  \/ CreateRequest \/ CreateReplyQueue \/ SendRequest \/ Receive
  \/ ReceiveTimeout \/ DestroyReplyQueue \/ Return
  \/ CMSFailure \/ CreateRequestFailure
  \/ TcsAnswer

\* The client thread keeps running the normal path of sendOffset; a CMS
\* exception may happen but need not, and the TCS may never answer.
Fairness ==
  /\ WF_vars(CreateReplyQueue) /\ WF_vars(SendRequest)
  /\ WF_vars(Receive) /\ WF_vars(ReceiveTimeout)
  /\ WF_vars(DestroyReplyQueue) /\ WF_vars(Return)

Spec == Init /\ [][Next]_vars /\ Fairness

-----------------------------------------------------------------------------
(* Properties                                                              *)

\* When sendOffset reports whether the offset was applied, the answer it
\* read is the TCS's answer to the request this call sent, never a late
\* answer to an earlier call that timed out.
ReplyForThisRequest ==
  result.kind = "applied" => result.req = result.call

\* Temporary queues outlive their call only on the CMSException path:
\* every queue still on the broker belongs to the call in progress or to
\* a call that ended in a CMSException, whose handler (line 88) neither
\* closes the consumer nor destroys the queue.  Calls that return an
\* answer, status::ERROR or a TimeoutException leave none behind.
QueuesLeakOnlyOnCMSException ==
  \A q \in live : (q = tmpQueue /\ cpc # "idle") \/ q \in failed

\* sendOffset deletes its request message at most once, on every path
\* through the try block and its CMSException handler.
NoDoubleDelete == deletes <= 1

\* Every call made with a timeout returns: receive(timeout) bounds the
\* wait even when the TCS never answers.
CallWithTimeoutReturns ==
  (cpc # "idle" /\ tmo > 0) ~> cpc = "idle"

=============================================================================
