-------------------------- MODULE TerminalDelivery --------------------------
(***************************************************************************)
(* The end of one streamed Responses request (openai.ts).  The inner pump  *)
(* of responsesStream finishes the turn, commits it, stages an alias for   *)
(* its response id and offers response.completed.  The stream is read      *)
(* either by the client (direct) or by the pump of                         *)
(* bridgePendingResponsesStream, which answered the client when the        *)
(* preparation took longer than its grace period.  Both pumps and the      *)
(* cancel callbacks of both streams share one ResponsesTerminalDelivery,   *)
(* whose promises decide who publishes the alias and who may send the      *)
(* terminal event.                                                         *)
(*                                                                         *)
(* Abstractions: of the events only the terminal ones are kept, and the    *)
(* end of a stream.  The alias is one durable row (ResponseAlias models    *)
(* its admission).  A continuation that takes microtasks only is atomic; a *)
(* call to another object is a step of its own.                            *)
(*                                                                         *)
(* inner:  off       responsesCore has not returned a stream yet           *)
(*         turn      resolveAssistantTurn                                  *)
(*         mark      completeFinalTurn done, markCommitted is next         *)
(*         seed      seedAliasWithRetry                                    *)
(*         stage     the alias is about to be staged                       *)
(*         spub      stage() publishes for a client that has left          *)
(*         events    the last events before the terminal one               *)
(*         deliver   deliverInner waits for the owner                      *)
(*         dpub      deliverInner, owner direct: publishes                 *)
(*         send      sends response.completed to the client                *)
(*         await     owner bridge: waits for the bridge's delivery         *)
(*         fpub      failDelivery                                          *)
(*         quit      the stream was closed: cancel(), then return          *)
(*         finish    delivered, the finally block is next                  *)
(*         catch     the catch block, waiting for cancel()                 *)
(*         over                                                            *)
(* bridge: off, pending, read, pub, send, fpub, final, over                *)
(***************************************************************************)
EXTENDS Naturals, Sequences

VARIABLES
    d,       \* the ResponsesTerminalDelivery
    row,     \* the alias row: none, staged, visible
    pend,    \* the promise of responsesCore: running, stream, failed
    mode,    \* what responses() returned: none, direct, bridge, error
    inner, bridge,
    leaving, \* cancel callbacks under way: subset of {"inner", "bridge"}
    closed,  \* the closed flags of the two streams
    saw,     \* sawTerminalEvent of the bridge
    q,       \* events of the inner stream that nobody has read
    abort,   \* the request's abort signal
    client,  \* well, stalled, gone
    got      \* terminal events that have reached the client

deliveryVars == <<d, row, pend, mode, inner, bridge, leaving, closed, saw, q, abort, client, got>>

Delivery ==
    [ owner : {"none", "direct", "bridge", "cancelled"},
      told : {"open", "yes", "no"},                  \* deliveredPromise
      alias : BOOLEAN, cancelled : BOOLEAN, delivered : BOOLEAN, committed : BOOLEAN,
      publish : {"none", "pending", "ok", "failed"}, \* publishPromise
      revoked : BOOLEAN ]                            \* revokePromise exists

NoDelivery ==
    [owner |-> "none", told |-> "open", alias |-> FALSE, cancelled |-> FALSE, delivered |-> FALSE,
     committed |-> FALSE, publish |-> "none", revoked |-> FALSE]

DeliveryTypeOK ==
    /\ d \in Delivery /\ row \in {"none", "staged", "visible"}
    /\ pend \in {"running", "stream", "failed"} /\ mode \in {"none", "direct", "bridge", "error"}
    /\ leaving \subseteq {"inner", "bridge"} /\ closed \subseteq {"inner", "bridge"}
    /\ saw \in BOOLEAN /\ abort \in BOOLEAN /\ client \in {"well", "stalled", "gone"}
    /\ q \in Seq({"completed", "failed", "end"}) /\ got \in Seq({"completed", "failed"})

DeliveryInit ==
    /\ d = NoDelivery /\ row = "none" /\ pend = "running" /\ mode = "none"
    /\ inner = "off" /\ bridge = "off" /\ leaving = {} /\ closed = {}
    /\ saw = FALSE /\ q = <<>> /\ abort = FALSE /\ client = "well" /\ got = <<>>

-----------------------------------------------------------------------------
(* createResponsesTerminalDelivery: its methods as functions of its state. *)

Publishing(x) == [x EXCEPT !.publish = IF @ = "none" THEN "pending" ELSE @]

\* Mutant: a rollback that looks at the delivery only.
SettledByDelivery(x) == IF x.alias /\ ~x.delivered THEN [x EXCEPT !.revoked = TRUE] ELSE x

\* What cancel() and failDelivery() do with the alias.
Settled(x) ==
    IF x.committed THEN IF x.alias THEN Publishing(x) ELSE x
    ELSE IF x.alias /\ ~x.delivered THEN [x EXCEPT !.revoked = TRUE] ELSE x

Failed(x) == Settled([x EXCEPT !.cancelled = TRUE, !.told = IF @ = "open" THEN "no" ELSE @])

Cancelled(x) ==
    IF x.delivered THEN x
    ELSE Failed([x EXCEPT !.owner = IF @ = "none" THEN "cancelled" ELSE @])

Delivered(x) == [x EXCEPT !.delivered = TRUE, !.told = IF @ = "open" THEN "yes" ELSE @]

\* A thread that awaits publish() or cancel() goes on.
Resumes == d.publish # "pending"

\* The two sends: an enqueue fails when nobody drains the stream.
InnerSends(e) == "inner" \notin closed /\ q' = Append(q, e) /\ UNCHANGED closed
InnerFails ==
    /\ client # "well" \/ "inner" \in closed
    /\ closed' = closed \cup {"inner"} /\ UNCHANGED q
BridgeSends(e) == "bridge" \notin closed /\ got' = Append(got, e) /\ UNCHANGED closed
BridgeFails ==
    /\ client # "well" \/ "bridge" \in closed
    /\ closed' = closed \cup {"bridge"} /\ UNCHANGED got

-----------------------------------------------------------------------------
(* responses(): the race of responsesCore with the grace period. *)

\* responsesCore returns a stream (whose pump starts) or fails.
CoreReturns ==
    /\ pend = "running"
    /\ \/ pend' = "stream" /\ inner' = "turn"
       \/ pend' = "failed" /\ UNCHANGED inner
    /\ UNCHANGED <<d, row, mode, bridge, leaving, closed, saw, q, abort, client, got>>

\* In time: the caller claims the terminal event for the stream itself.
ClaimDirect ==
    /\ mode = "none" /\ pend = "stream"
    /\ IF d.owner = "none" THEN d' = [d EXCEPT !.owner = "direct"] /\ mode' = "direct"
       ELSE mode' = "error" /\ UNCHANGED d
    /\ UNCHANGED <<row, pend, inner, bridge, leaving, closed, saw, q, abort, client, got>>

\* The grace period is over, or responsesCore has failed within it.
OpenBridge ==
    /\ mode = "none" /\ pend # "stream"
    /\ mode' = "bridge" /\ bridge' = "pending"
    /\ UNCHANGED <<d, row, pend, inner, leaving, closed, saw, q, abort, client, got>>

-----------------------------------------------------------------------------
(* The pump of responsesStream. *)

\* resolveAssistantTurn and completeFinalTurn succeed.  Both call other
\* objects, which takes longer than the claim.
TurnCommits ==
    /\ inner = "turn" /\ d.owner # "none" /\ inner' = "mark"
    /\ UNCHANGED <<d, row, pend, mode, bridge, leaving, closed, saw, q, abort, client, got>>

\* Either of them throws; of an aborted request at once.  The catch block
\* cancels the delivery and the request.
TurnFails ==
    /\ inner = "turn" /\ (d.owner # "none" \/ abort)
    /\ inner' = "catch" /\ d' = Cancelled(d) /\ abort' = TRUE
    /\ UNCHANGED <<row, pend, mode, bridge, leaving, closed, saw, q, client, got>>

MarkCommitted ==
    /\ inner = "mark" /\ inner' = "seed" /\ d' = [d EXCEPT !.committed = TRUE]
    /\ UNCHANGED <<row, pend, mode, bridge, leaving, closed, saw, q, abort, client, got>>

\* seedAliasWithRetry: admitted, refused, or admitted with the reply lost.
SeedAlias ==
    /\ inner = "seed"
    /\ \/ inner' = "stage" /\ row' = "staged" /\ UNCHANGED <<d, abort>>
       \/ inner' = "catch" /\ row' \in {"none", "staged"} /\ d' = Cancelled(d) /\ abort' = TRUE
    /\ UNCHANGED <<pend, mode, bridge, leaving, closed, saw, q, client, got>>

\* stage(): a client that left before is served now.
StageAlias ==
    /\ inner = "stage"
    /\ LET x == [d EXCEPT !.alias = TRUE]
       IN  IF ~x.cancelled THEN d' = x /\ inner' = "events"
           ELSE d' = Settled(x) /\ inner' = IF x.committed THEN "spub" ELSE "catch"
    /\ UNCHANGED <<row, pend, mode, bridge, leaving, closed, saw, q, abort, client, got>>

\* The last events before the terminal one; the stream may turn out closed.
SendEvents ==
    /\ inner = "events"
    /\ \/ "inner" \notin closed /\ inner' = "deliver" /\ UNCHANGED <<d, closed, abort>>
       \/ /\ "inner" \in closed \/ client # "well"
          /\ closed' = closed \cup {"inner"} /\ inner' = "quit"
          /\ d' = Cancelled(d) /\ abort' = TRUE
    /\ UNCHANGED <<row, pend, mode, bridge, leaving, saw, q, client, got>>

\* deliverInner learns the owner.
DeliverInner ==
    /\ inner = "deliver" /\ d.owner # "none"
    /\ \/ /\ d.owner = "cancelled" /\ inner' = "catch" /\ d' = Cancelled(d) /\ abort' = TRUE
          /\ UNCHANGED <<q, closed>>
       \/ /\ d.owner = "direct" /\ inner' = "dpub" /\ d' = Publishing(d)
          /\ UNCHANGED <<q, closed, abort>>
       \/ /\ d.owner = "bridge"
          /\ \/ InnerSends("completed") /\ inner' = "await" /\ UNCHANGED <<d, abort>>
             \/ InnerFails /\ inner' = "fpub" /\ d' = Failed(d) /\ abort' = TRUE
    /\ UNCHANGED <<row, pend, mode, bridge, leaving, saw, client, got>>

\* publish() inside stage(), deliverInner(), failDelivery() or cancel() is over.
PublishReturns ==
    /\ inner \in {"spub", "dpub", "fpub", "quit"} /\ Resumes
    /\ \/ /\ inner \in {"spub", "dpub"} /\ d.publish = "ok"
          /\ inner' = (IF inner = "spub" THEN "events" ELSE "send") /\ UNCHANGED <<d, abort>>
       \/ /\ inner = "quit" /\ d.publish # "failed" /\ inner' = "over" /\ UNCHANGED <<d, abort>>
       \/ /\ inner = "fpub" \/ d.publish = "failed"
          /\ inner' = "catch" /\ d' = Cancelled(d) /\ abort' = TRUE
    /\ UNCHANGED <<row, pend, mode, bridge, leaving, closed, saw, q, client, got>>

\* The terminal event of a direct stream, and the end of the pump.
SendCompleted ==
    /\ inner = "send"
    /\ \/ /\ InnerSends("completed") /\ d' = Delivered(d) /\ inner' = "finish" /\ UNCHANGED abort
       \/ InnerFails /\ d' = Failed(d) /\ inner' = "fpub" /\ abort' = TRUE
    /\ UNCHANGED <<row, pend, mode, bridge, leaving, saw, client, got>>

\* deliveredPromise settles for the pump behind a bridge.
BridgeTold ==
    /\ inner = "await" /\ d.told # "open"
    /\ IF d.told = "yes" THEN inner' = "finish" /\ UNCHANGED <<d, abort>>
       ELSE inner' = "catch" /\ d' = Cancelled(d) /\ abort' = TRUE
    /\ UNCHANGED <<row, pend, mode, bridge, leaving, closed, saw, q, client, got>>

\* The catch block after its cleanup: response.failed; the finally block: the end.
PumpEnds ==
    /\ inner \in {"catch", "finish"} /\ Resumes /\ inner' = "over"
    /\ q' = IF "inner" \in closed THEN q
            ELSE q \o (IF inner = "catch" THEN <<"failed">> ELSE <<>>) \o <<"end">>
    /\ closed' = closed \cup {"inner"}
    /\ UNCHANGED <<d, row, pend, mode, bridge, leaving, saw, abort, client, got>>

\* publishResponseAlias at the alias object: done, refused, or done with the reply lost.
PublishRuns ==
    /\ d.publish = "pending"
    /\ \E p \in {"ok", "failed"} :
          /\ d' = [d EXCEPT !.publish = p]
          /\ row' \in IF p = "ok" THEN {"visible"} ELSE {row, "visible"}
    /\ UNCHANGED <<pend, mode, inner, bridge, leaving, closed, saw, q, abort, client, got>>

-----------------------------------------------------------------------------
(* The pump of bridgePendingResponsesStream. *)

SendFailure ==
    IF "bridge" \in closed \/ saw THEN UNCHANGED <<got, saw>>
    ELSE got' = Append(got, "failed") /\ saw' = TRUE

\* responsesCore is over: claim the stream, or report the failure.
BridgeClaims ==
    /\ bridge = "pending" /\ pend # "running"
    /\ \/ /\ pend = "stream" /\ "bridge" \in closed
          /\ bridge' = "over" /\ leaving' = leaving \cup {"inner"}
          /\ closed' = closed \cup {"inner"} /\ d' = Cancelled(d) /\ abort' = TRUE
          /\ UNCHANGED <<got, saw>>
       \/ /\ pend = "stream" /\ "bridge" \notin closed /\ d.owner = "none"
          /\ bridge' = "read" /\ d' = [d EXCEPT !.owner = "bridge"]
          /\ UNCHANGED <<got, saw, leaving, closed, abort>>
       \/ /\ pend = "failed" \/ ("bridge" \notin closed /\ d.owner # "none")
          /\ SendFailure
          /\ bridge' = "over" /\ closed' = closed \cup {"bridge"} /\ UNCHANGED <<d, leaving, abort>>
    /\ UNCHANGED <<row, pend, mode, inner, q, client>>

\* The finally block of the bridge cancels whatever was not delivered.
ToFinally == bridge' = "final" /\ d' = Cancelled(d)

\* Mutant: the terminal event counts as seen before it is published and sent.
SeenTooEarly ==
    /\ bridge = "read" /\ q # <<>>
    /\ LET e == Head(q)
       IN  \/ e = "completed" /\ bridge' = "pub" /\ d' = Publishing(d) /\ saw' = TRUE /\ UNCHANGED <<got, closed, abort>>
           \/ e = "failed" /\ BridgeSends(e) /\ saw' = TRUE /\ UNCHANGED <<bridge, d, abort>>
           \/ e = "failed" /\ BridgeFails /\ ToFinally /\ abort' = TRUE /\ UNCHANGED saw
           \/ e = "end" /\ SendFailure /\ ToFinally /\ UNCHANGED <<closed, abort>>
    /\ q' = Tail(q)
    /\ UNCHANGED <<row, pend, mode, inner, leaving, client>>

BridgeReads ==
    /\ bridge = "read" /\ q # <<>>
    /\ LET e == Head(q)
       IN  \/ e = "completed" /\ bridge' = "pub" /\ d' = Publishing(d) /\ UNCHANGED <<got, saw, closed, abort>>
           \/ e = "failed" /\ BridgeSends(e) /\ saw' = TRUE /\ UNCHANGED <<bridge, d, abort>>
           \/ e = "failed" /\ BridgeFails /\ ToFinally /\ abort' = TRUE /\ UNCHANGED saw
           \/ e = "end" /\ SendFailure /\ ToFinally /\ UNCHANGED <<closed, abort>>
    /\ q' = Tail(q)
    /\ UNCHANGED <<row, pend, mode, inner, leaving, client>>

\* The loop ends with the bridge's own stream.
BridgeStops ==
    /\ bridge = "read" /\ "bridge" \in closed /\ ToFinally
    /\ UNCHANGED <<row, pend, mode, inner, leaving, closed, saw, q, abort, client, got>>

\* deliverBridge goes on after publish(), which may have failed.
BridgePublished ==
    /\ bridge = "pub" /\ Resumes
    /\ IF d.publish = "ok" THEN bridge' = "send" /\ UNCHANGED <<d, got, saw>>
       ELSE SendFailure /\ ToFinally
    /\ UNCHANGED <<row, pend, mode, inner, leaving, closed, q, abort, client>>

BridgeSendsCompleted ==
    /\ bridge = "send"
    /\ \/ BridgeSends("completed") /\ d' = Delivered(d) /\ saw' = TRUE /\ bridge' = "read" /\ UNCHANGED abort
       \/ BridgeFails /\ d' = Failed(d) /\ bridge' = "fpub" /\ abort' = TRUE /\ UNCHANGED saw
    /\ UNCHANGED <<row, pend, mode, inner, leaving, q, client>>

BridgeEnds ==
    /\ bridge \in {"fpub", "final"} /\ Resumes
    /\ IF bridge = "fpub" THEN ToFinally /\ UNCHANGED closed
       ELSE bridge' = "over" /\ closed' = closed \cup {"bridge"} /\ UNCHANGED d
    /\ UNCHANGED <<row, pend, mode, inner, leaving, saw, q, abort, client, got>>

-----------------------------------------------------------------------------
(* The client and the cancel callbacks of the two streams. *)

ClientReads ==
    /\ mode = "direct" /\ client = "well" /\ q # <<>>
    /\ q' = Tail(q)
    /\ got' = IF Head(q) = "end" THEN got ELSE Append(got, Head(q))
    /\ UNCHANGED <<d, row, pend, mode, inner, bridge, leaving, closed, saw, abort, client>>

ClientStalls ==
    /\ client = "well" /\ client' = "stalled"
    /\ UNCHANGED <<d, row, pend, mode, inner, bridge, leaving, closed, saw, q, abort, got>>

ClientLeaves ==
    /\ client # "gone" /\ client' = "gone" /\ abort' = (abort \/ mode = "none")
    /\ UNCHANGED <<d, row, pend, mode, inner, bridge, leaving, closed, saw, q, got>>

\* cancel() of the stream the client held; it is not called for a stream that
\* has been closed.
StreamCancelled ==
    /\ client = "gone"
    /\ \/ /\ mode = "direct" /\ "inner" \notin closed
          /\ closed' = closed \cup {"inner"} /\ leaving' = leaving \cup {"inner"} /\ d' = Cancelled(d)
       \/ /\ mode = "bridge" /\ "bridge" \notin closed
          /\ closed' = closed \cup {"bridge"} /\ leaving' = leaving \cup {"bridge"}
          /\ d' = IF bridge = "pending" THEN d ELSE Cancelled(d)
    /\ abort' = TRUE
    /\ UNCHANGED <<row, pend, mode, inner, bridge, saw, q, client, got>>

\* The callback has waited for the delivery; the bridge's then cancels the
\* inner stream it was reading.
CancelReturns ==
    /\ leaving # {} /\ Resumes
    /\ \E s \in leaving :
          IF s = "bridge" /\ bridge # "pending" /\ "inner" \notin closed
          THEN /\ leaving' = (leaving \ {s}) \cup {"inner"}
               /\ closed' = closed \cup {"inner"} /\ d' = Cancelled(d)
          ELSE leaving' = leaving \ {s} /\ UNCHANGED <<closed, d>>
    /\ UNCHANGED <<row, pend, mode, inner, bridge, saw, q, abort, client, got>>

-----------------------------------------------------------------------------

\* What the Worker does by itself.
DeliveryWorks ==
    \/ CoreReturns \/ ClaimDirect \/ OpenBridge
    \/ TurnCommits \/ TurnFails \/ MarkCommitted \/ SeedAlias \/ StageAlias
    \/ SendEvents \/ DeliverInner \/ PublishReturns \/ SendCompleted \/ BridgeTold \/ PumpEnds
    \/ PublishRuns
    \/ BridgeClaims \/ BridgeReads \/ BridgeStops \/ BridgePublished \/ BridgeSendsCompleted \/ BridgeEnds
    \/ StreamCancelled \/ CancelReturns

DeliveryNext == DeliveryWorks \/ ClientReads \/ ClientStalls \/ ClientLeaves

DeliverySpec == DeliveryInit /\ [][DeliveryNext]_deliveryVars

\* The isolate runs what is runnable, calls return, and a client that is well
\* reads what it is sent.
DeliveryFairness == WF_deliveryVars(DeliveryWorks) /\ WF_deliveryVars(ClientReads)

FairDelivery == DeliverySpec /\ DeliveryFairness

-----------------------------------------------------------------------------

(* A response id whose completion has reached the client can be continued:  *)
(* its alias was published before.  And an alias whose turn is committed is *)
(* never revoked by the delivery, whoever cancels (publish and revoke in    *)
(* createResponsesTerminalDelivery).  Nor does the client hear a second     *)
(* outcome after it, from the bridge or the inner stream.                   *)
CompletedIsResumable ==
    /\ Len(got) <= 1
    /\ (\E i \in DOMAIN got : got[i] = "completed") => row = "visible"
    /\ d.committed => ~d.revoked

(* A committed turn whose alias was staged gets it published (or learns that *)
(* it could not be) also when the client has left at any moment since       *)
(* (markCommitted, stage, cancel, failDelivery).                             *)
StagedIsPublished == d.alias ~> d.publish \in {"ok", "failed"}

(* Once the request has an answer, a client that stays and reads hears a    *)
(* terminal event: no pump waits for an owner or a delivery that nobody     *)
(* decides (createResponsesTerminalDelivery, bridgePendingResponsesStream). *)
ClientHears == (mode # "none") ~> (got # <<>> \/ mode = "error" \/ client # "well")
=============================================================================
