------------------------------ MODULE McpClient ------------------------------
(***************************************************************************)
(* The MCP stdio client, mcp/client.py: concurrent requests over one pair  *)
(* of pipes, matched to their responses by a background read loop.         *)
(*                                                                         *)
(* Everything but the server runs on one event loop, so a step is what     *)
(* happens between two awaits.  A request's id names its caller too: each  *)
(* call of _send_request has a coroutine, which may be cancelled (a        *)
(* caller's wait_for) wherever it waits.  The server answers in any order, *)
(* or exits; its stdout is a FIFO that is read to its end after it exited. *)
(***************************************************************************)
EXTENDS Integers, Sequences

CONSTANTS
    MaxRequests,   \* bound: requests sent
    MaxFrames      \* bound: unread frames on stdout when the server adds noise

ASSUME MaxRequestsAssumption == MaxRequests \in Nat
ASSUME MaxFramesAssumption == MaxFrames \in Nat

VARIABLES
    requestId,   \* self.request_id
    pending,     \* the ids in self._pending_requests
    future,      \* each request's future
    caller,      \* where the coroutine of each request is
    received,    \* the frame that resolved or failed the future, or Notice
    reader,      \* self.read_task
    stopping,    \* where stop() is
    server,      \* self.process
    asked,       \* requests the server has not answered
    stdout       \* frames the server wrote and the client has not read

clientVars == <<requestId, pending, future, caller, received, reader, stopping>>
serverVars == <<server, asked, stdout>>
vars == <<clientVars, serverVars>>

Ids == 1 .. MaxRequests

(* A line on stdout: a response, a frame nobody waits for, or a line the   *)
(* loop cannot handle, because it is not a JSON object, or because its id  *)
(* is a list or an object, which the table cannot be asked for.            *)
Notice == 0
Malformed == -1
Frames == Ids \cup {Notice, Malformed}

Waiting(i) == caller[i] \in {"draining", "awaiting"}

-----------------------------------------------------------------------------
(* The lifecycle of the client.                                            *)

Start ==
    /\ server = "none"
    /\ server' = "up"
    /\ reader' = "reading"
    /\ UNCHANGED <<requestId, pending, future, caller, received, stopping, asked, stdout>>

(* stop() cancels the read task and waits for it ... *)
Stop ==
    /\ server # "none"
    /\ stopping = "no"
    /\ stopping' = "reader"
    /\ UNCHANGED <<requestId, pending, future, caller, received, reader, serverVars>>

(* ... then terminates the process and waits for that. *)
StopTerminates ==
    /\ stopping = "reader"
    /\ reader # "reading"
    /\ stopping' = "process"
    /\ UNCHANGED <<requestId, pending, future, caller, received, reader, serverVars>>

StopReturns ==
    /\ stopping = "process"
    /\ server = "exited"
    /\ stopping' = "done"
    /\ UNCHANGED <<requestId, pending, future, caller, received, reader, serverVars>>

-----------------------------------------------------------------------------
(* A caller, _send_request.                                                *)

(* Faulty variant: the id is taken before the counter is incremented. *)
IdBeforeIncrement == requestId

NextId == requestId + 1

(* Up to the drain: nothing here asks whether anyone still reads. Arguments *)
(* that cannot be serialised raise when the future is already in the table. *)
SendRequest ==
    LET i == NextId IN
    /\ server # "none"
    /\ requestId < MaxRequests
    /\ requestId' = requestId + 1
    /\ pending' = pending \cup {i}
    /\ future' = [future EXCEPT ![i] = "pending"]
    /\ \/ /\ caller' = [caller EXCEPT ![i] = "draining"]
          /\ asked' = IF server = "up" THEN asked \cup {i} ELSE asked
       \/ /\ caller' = [caller EXCEPT ![i] = "raised"]
          /\ UNCHANGED asked
    /\ UNCHANGED <<received, reader, stopping, server, stdout>>

(* A drain of the pipe to a server that is gone may fail, or not notice. *)
Drained(i) ==
    /\ caller[i] = "draining"
    /\ \/ caller' = [caller EXCEPT ![i] = "awaiting"]
       \/ /\ server = "exited"
          /\ caller' = [caller EXCEPT ![i] = "raised"]
    /\ UNCHANGED <<requestId, pending, future, received, reader, stopping, serverVars>>

CallerResumes(i) ==
    /\ caller[i] = "awaiting"
    /\ future[i] \in {"result", "exception"}
    /\ caller' = [caller EXCEPT
          ![i] = IF future[i] = "result" THEN "returned" ELSE "raised"]
    /\ UNCHANGED <<requestId, pending, future, received, reader, stopping, serverVars>>

(* The future a caller awaits is cancelled with it; its id stays pending. *)
CallerCancelled(i) ==
    /\ Waiting(i)
    /\ future' = IF caller[i] = "awaiting" /\ future[i] = "pending"
                   THEN [future EXCEPT ![i] = "cancelled"]
                   ELSE future
    /\ caller' = [caller EXCEPT ![i] = "cancelled"]
    /\ UNCHANGED <<requestId, pending, received, reader, stopping, serverVars>>

-----------------------------------------------------------------------------
(* The read loop.                                                          *)

(* Faulty variant: the oldest request is taken for the one answered. *)
Oldest(frame) == {i \in pending : frame # Notice /\ \A j \in pending : i <= j}

Addressee(frame) == {i \in pending : i = frame}

(* Faulty variant: a late answer is set whatever became of its future. *)
AnyResolved(frame) == Addressee(frame)

Resolved(frame) == {i \in Addressee(frame) : future[i] = "pending"}

(* What raises in the loop: a line it cannot handle, and set_result of a    *)
(* future that is done.                                                    *)
Breaks(frame) ==
    \/ frame = Malformed
    \/ \E i \in Resolved(frame) : future[i] # "pending"

Reads == reader = "reading" /\ stopping = "no"

(* Faulty variant: the response is looked up, not popped. *)
LookedUp(frame) == pending

Popped(frame) == pending \ Addressee(frame)

ReadFrame ==
    LET frame == Head(stdout)
        resolved == Resolved(frame)
    IN
    /\ Reads
    /\ stdout # << >>
    /\ ~Breaks(frame)
    /\ pending' = Popped(frame)
    /\ future' = [i \in Ids |-> IF i \in resolved THEN "result" ELSE future[i]]
    /\ received' = [i \in Ids |-> IF i \in resolved THEN frame ELSE received[i]]
    /\ stdout' = Tail(stdout)
    /\ UNCHANGED <<requestId, caller, reader, stopping, server, asked>>

(* Faulty variant: the loop ends without telling anyone. *)
NobodyFails == {}

FailedByReader == {i \in pending : future[i] = "pending"}

(* Any exception in the loop fails every pending future, and ends it. *)
ReaderFails ==
    /\ Reads
    /\ stdout # << >>
    /\ Breaks(Head(stdout))
    /\ reader' = "failed"
    /\ future' = [i \in Ids |-> IF i \in FailedByReader THEN "exception" ELSE future[i]]
    /\ received' = [i \in Ids |->
          IF i \in FailedByReader THEN Head(stdout) ELSE received[i]]
    /\ stdout' = Tail(stdout)
    /\ UNCHANGED <<requestId, pending, caller, stopping, server, asked>>

ReaderEndOfFile ==
    /\ Reads
    /\ stdout = << >>
    /\ server = "exited"
    /\ reader' = "ended"
    /\ UNCHANGED <<requestId, pending, future, caller, received, stopping, serverVars>>

(* A cancelled task reads no further frame. *)
ReaderCancelled ==
    /\ reader = "reading"
    /\ stopping = "reader"
    /\ reader' = "ended"
    /\ UNCHANGED <<requestId, pending, future, caller, received, stopping, serverVars>>

ReaderStep == ReadFrame \/ ReaderFails \/ ReaderEndOfFile \/ ReaderCancelled

-----------------------------------------------------------------------------
(* The server.                                                             *)

Respond(i) ==
    /\ server = "up"
    /\ i \in asked
    /\ asked' = asked \ {i}
    /\ stdout' = Append(stdout, i)
    /\ UNCHANGED <<clientVars, server>>

Noise(frame) ==
    /\ server = "up"
    /\ Len(stdout) < MaxFrames
    /\ stdout' = Append(stdout, frame)
    /\ UNCHANGED <<clientVars, server, asked>>

ServerExits ==
    /\ server = "up"
    /\ server' = "exited"
    /\ UNCHANGED <<clientVars, asked, stdout>>

-----------------------------------------------------------------------------
Init ==
    /\ requestId = 0
    /\ pending = {}
    /\ future = [i \in Ids |-> "none"]
    /\ caller = [i \in Ids |-> "none"]
    /\ received = [i \in Ids |-> Notice]
    /\ reader = "none"
    /\ stopping = "no"
    /\ server = "none"
    /\ asked = {}
    /\ stdout = << >>

CallerStep(i) == Drained(i) \/ CallerResumes(i)

Next ==
    \/ Start \/ Stop \/ StopTerminates \/ StopReturns
    \/ SendRequest
    \/ \E i \in Ids : CallerStep(i) \/ CallerCancelled(i) \/ Respond(i)
    \/ ReaderStep
    \/ \E frame \in {Notice, Malformed} : Noise(frame)
    \/ ServerExits

Spec == Init /\ [][Next]_vars

(* The event loop is fair to its tasks, and a server that stays up answers. *)
FairSpec ==
    /\ Spec
    /\ WF_vars(ReaderStep)
    /\ \A i \in Ids : WF_vars(CallerStep(i)) /\ WF_vars(Respond(i))

-----------------------------------------------------------------------------
(* Properties.                                                             *)

(* Every variable has its type. *)
TypeOK ==
    /\ requestId \in 0 .. MaxRequests
    /\ pending \subseteq Ids
    /\ future \in [Ids -> {"none", "pending", "result", "exception", "cancelled"}]
    /\ caller \in [Ids -> {"none", "draining", "awaiting", "returned", "raised",
                           "cancelled"}]
    /\ received \in [Ids -> Frames]
    /\ reader \in {"none", "reading", "ended", "failed"}
    /\ stopping \in {"no", "reader", "process", "done"}
    /\ server \in {"none", "up", "exited"}
    /\ asked \subseteq Ids
    /\ stdout \in Seq(Frames)

(* Whatever the order the server answers in and whoever gave up meanwhile, *)
(* a caller that returns has the response to its own request.              *)
AnswersMatch == \A i \in Ids : caller[i] = "returned" => received[i] = i

(* A caller whose future is not done is in the table, where its response or *)
(* a reader error finds it; an answered request has left the table, so     *)
(* nothing can resolve it twice.                                           *)
WaitersAreKnown ==
    \A i \in Ids :
        /\ Waiting(i) /\ future[i] = "pending" => i \in pending
        /\ i \in pending => future[i] # "result"
        /\ Waiting(i) => future[i] # "cancelled"

(* A call made while the read loop runs ends: with its response, with its   *)
(* own cancellation, or with an error that a malformed line or the pipe of *)
(* a server that is gone accounts for.  That another caller gave up and    *)
(* its answer comes late is no reason to fail.  The exceptions are a       *)
(* server that closes its stdout and a client that is stopped, both of     *)
(* which end the loop and leave the futures as they are.                   *)
CallsEnd ==
    \A i \in Ids :
        (reader = "reading" /\ Waiting(i)) ~>
            \/ caller[i] \in {"returned", "cancelled"}
            \/ /\ caller[i] = "raised"
               /\ received[i] = Malformed \/ server = "exited"
            \/ reader = "ended"

(* client.py:50: "Fail every pending future so a reader error cannot       *)
(* deadlock callers."                                                      *)
ReaderErrorsReleaseCallers ==
    \A i \in Ids : (reader = "failed" /\ Waiting(i)) ~> ~Waiting(i)

=============================================================================
