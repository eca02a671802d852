--------------------------- MODULE McpClientProofs ---------------------------
(***************************************************************************)
(* Proofs about McpClient for any number of requests and any amount of     *)
(* noise.  The checked invariants are inductive once it is added that a    *)
(* future with a result got it from the frame that carries its id, and     *)
(* that a caller only returns with a result.                               *)
(***************************************************************************)
EXTENDS McpClient, TLAPS

ResultsMatch ==
    \A i \in Ids :
        /\ future[i] = "result" => received[i] = i
        /\ caller[i] = "returned" => future[i] = "result"

Inv == /\ TypeOK
       /\ ResultsMatch
       /\ AnswersMatch
       /\ WaitersAreKnown

(* The client starts with nothing pending.                                 *)
LEMMA InitInv == Init => Inv
BY MaxRequestsAssumption
   DEF Init, Inv, TypeOK, ResultsMatch, AnswersMatch, WaitersAreKnown, Waiting, Ids,
       Frames, Notice

-----------------------------------------------------------------------------
(* Steps of a caller.                                                      *)

(* A new request has its future, and is in the table before its frame is   *)
(* written.                                                                *)
LEMMA SendInv == Inv /\ SendRequest => Inv'
<1> SUFFICES ASSUME Inv, SendRequest PROVE Inv'
  OBVIOUS
<1> DEFINE n == requestId + 1
<1>1. /\ n \in Ids
      /\ requestId' = n
      /\ pending' = pending \cup {n}
      /\ future' = [future EXCEPT ![n] = "pending"]
      /\ caller' \in {[caller EXCEPT ![n] = "draining"], [caller EXCEPT ![n] = "raised"]}
      /\ asked' \in {asked, asked \cup {n}}
      /\ UNCHANGED <<received, reader, stopping, server, stdout>>
  BY MaxRequestsAssumption DEF SendRequest, NextId, Inv, TypeOK, Ids
<1>2. TypeOK'
  BY <1>1 DEF Inv, TypeOK, Ids
<1>3. ResultsMatch' /\ AnswersMatch'
  BY <1>1 DEF Inv, TypeOK, ResultsMatch, AnswersMatch
<1>4. WaitersAreKnown'
  BY <1>1 DEF Inv, TypeOK, WaitersAreKnown, Waiting
<1> QED
  BY <1>2, <1>3, <1>4 DEF Inv

(* A caller goes on, returns, raises or gives up.                          *)
LEMMA CallerInv ==
    ASSUME Inv, NEW i \in Ids, CallerStep(i) \/ CallerCancelled(i)
    PROVE  Inv'
<1>1. CASE Drained(i)
  BY <1>1 DEF Drained, serverVars, Inv, TypeOK, ResultsMatch, AnswersMatch,
              WaitersAreKnown, Waiting
<1>2. CASE CallerResumes(i)
  BY <1>2 DEF CallerResumes, serverVars, Inv, TypeOK, ResultsMatch, AnswersMatch,
              WaitersAreKnown, Waiting
<1>3. CASE CallerCancelled(i)
  <2>1. /\ caller' = [caller EXCEPT ![i] = "cancelled"]
        /\ future' \in {future, [future EXCEPT ![i] = "cancelled"]}
        /\ UNCHANGED <<requestId, pending, received, reader, stopping, server, asked,
                       stdout>>
    BY <1>3 DEF CallerCancelled, serverVars
  <2> QED
    BY <2>1 DEF Inv, TypeOK, ResultsMatch, AnswersMatch, WaitersAreKnown, Waiting
<1> QED
  BY <1>1, <1>2, <1>3 DEF CallerStep

-----------------------------------------------------------------------------
(* Steps of the read loop.                                                 *)

(* A frame resolves the future of its own id and takes it off the table.   *)
LEMMA ReadInv == Inv /\ ReadFrame => Inv'
<1> SUFFICES ASSUME Inv, ReadFrame PROVE Inv'
  OBVIOUS
<1> DEFINE frame == Head(stdout)
           resolved == {i \in pending : i = frame /\ future[i] = "pending"}
<1>1. /\ stdout # << >>
      /\ pending' = {i \in pending : i # frame}
      /\ future' = [i \in Ids |-> IF i \in resolved THEN "result" ELSE future[i]]
      /\ received' = [i \in Ids |-> IF i \in resolved THEN frame ELSE received[i]]
      /\ stdout' = Tail(stdout)
      /\ UNCHANGED <<requestId, caller, reader, stopping, server, asked>>
  BY DEF ReadFrame, Popped, Addressee, Resolved
<1>2. frame \in Frames /\ stdout' \in Seq(Frames)
  BY <1>1 DEF Inv, TypeOK
<1> HIDE DEF frame
<1>3. TypeOK'
  BY <1>1, <1>2 DEF Inv, TypeOK
<1>4. ResultsMatch' /\ AnswersMatch'
  BY <1>1 DEF Inv, TypeOK, ResultsMatch, AnswersMatch, WaitersAreKnown, Waiting
<1>5. WaitersAreKnown'
  BY <1>1 DEF Inv, TypeOK, WaitersAreKnown, Waiting
<1> QED
  BY <1>3, <1>4, <1>5 DEF Inv

(* A reader error fails the pending futures and touches no other.          *)
LEMMA FailInv == Inv /\ ReaderFails => Inv'
<1> SUFFICES ASSUME Inv, ReaderFails PROVE Inv'
  OBVIOUS
<1> DEFINE failed == {i \in pending : future[i] = "pending"}
<1>1. /\ stdout # << >>
      /\ reader' = "failed"
      /\ future' = [i \in Ids |-> IF i \in failed THEN "exception" ELSE future[i]]
      /\ received' = [i \in Ids |-> IF i \in failed THEN Head(stdout) ELSE received[i]]
      /\ stdout' = Tail(stdout)
      /\ UNCHANGED <<requestId, pending, caller, stopping, server, asked>>
  BY DEF ReaderFails, FailedByReader
<1>2. stdout' \in Seq(Frames) /\ Head(stdout) \in Frames
  BY <1>1 DEF Inv, TypeOK
<1> HIDE DEF failed
<1>3. TypeOK'
  <2>1. /\ received' \in [Ids -> Frames]
        /\ future' \in [Ids -> {"none", "pending", "result", "exception", "cancelled"}]
    BY <1>1, <1>2 DEF Inv, TypeOK
  <2> QED
    BY <1>1, <1>2, <2>1 DEF Inv, TypeOK
<1> USE DEF failed
<1>4. ResultsMatch' /\ AnswersMatch' /\ WaitersAreKnown'
  BY <1>1 DEF Inv, TypeOK, ResultsMatch, AnswersMatch, WaitersAreKnown, Waiting
<1> QED
  BY <1>3, <1>4 DEF Inv

-----------------------------------------------------------------------------
(* The server only adds frames.                                            *)
LEMMA ServerInv ==
    ASSUME Inv,
           \/ \E i \in Ids : Respond(i)
           \/ \E frame \in {Notice, Malformed} : Noise(frame)
           \/ ServerExits
    PROVE  Inv'
<1>1. /\ UNCHANGED clientVars
      /\ server' \in {"none", "up", "exited"}
      /\ asked' \subseteq Ids
      /\ stdout' \in Seq(Frames)
  BY DEF Respond, Noise, ServerExits, Inv, TypeOK, Frames
<1> QED
  BY <1>1 DEF clientVars, Inv, TypeOK, ResultsMatch, AnswersMatch, WaitersAreKnown, Waiting

(* Starting, stopping and the ends of the read loop touch no request.      *)
LEMMA LifecycleInv ==
    ASSUME Inv,
           \/ Start \/ Stop \/ StopTerminates \/ StopReturns
           \/ ReaderEndOfFile \/ ReaderCancelled \/ UNCHANGED vars
    PROVE  Inv'
<1>1. /\ UNCHANGED <<requestId, pending, future, caller, received, asked, stdout>>
      /\ reader' \in {"none", "reading", "ended", "failed"}
      /\ stopping' \in {"no", "reader", "process", "done"}
      /\ server' \in {"none", "up", "exited"}
  BY DEF Start, Stop, StopTerminates, StopReturns, ReaderEndOfFile, ReaderCancelled,
         vars, clientVars, serverVars, Inv, TypeOK
<1> QED
  BY <1>1 DEF Inv, TypeOK, ResultsMatch, AnswersMatch, WaitersAreKnown, Waiting

(* Every step preserves the invariant.                                     *)
LEMMA NextInv == Inv /\ [Next]_vars => Inv'
<1> SUFFICES ASSUME Inv, [Next]_vars PROVE Inv'
  OBVIOUS
<1>1. CASE SendRequest
  BY <1>1, SendInv
<1>2. CASE \E i \in Ids : CallerStep(i) \/ CallerCancelled(i)
  BY <1>2, CallerInv
<1>3. CASE ReadFrame
  BY <1>3, ReadInv
<1>4. CASE ReaderFails
  BY <1>4, FailInv
<1>5. CASE \/ \E i \in Ids : Respond(i)
           \/ \E frame \in {Notice, Malformed} : Noise(frame)
           \/ ServerExits
  BY <1>5, ServerInv
<1>6. CASE \/ Start \/ Stop \/ StopTerminates \/ StopReturns
           \/ ReaderEndOfFile \/ ReaderCancelled \/ UNCHANGED vars
  BY <1>6, LifecycleInv
<1> QED
  BY <1>1, <1>2, <1>3, <1>4, <1>5, <1>6 DEF Next, ReaderStep

-----------------------------------------------------------------------------
(* The theorems.                                                           *)

(* The invariant holds in every reachable state of client and server.      *)
THEOREM ClientInvariance == Spec => []Inv
BY InitInv, NextInv, PTL DEF Spec

(* Every variable of the client has its type.                              *)
THEOREM ClientTypeCorrect == Spec => []TypeOK
<1>1. Inv => TypeOK
  BY DEF Inv
<1> QED
  BY <1>1, ClientInvariance, PTL

(* _read_loop and _send_request: whatever the order of the answers and     *)
(* whoever gives up, a caller returns with the response to its request.    *)
THEOREM CallersGetTheirAnswers == Spec => []AnswersMatch
<1>1. Inv => AnswersMatch
  BY DEF Inv
<1> QED
  BY <1>1, ClientInvariance, PTL

(* _pending_requests: whoever still waits for a future can be found by its *)
(* response, and no answered request can be answered again.                *)
THEOREM WaitersStayReachable == Spec => []WaitersAreKnown
<1>1. Inv => WaitersAreKnown
  BY DEF Inv
<1> QED
  BY <1>1, ClientInvariance, PTL

=============================================================================
