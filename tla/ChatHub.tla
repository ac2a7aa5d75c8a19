------------------------------- MODULE ChatHub -------------------------------
(***************************************************************************)
(* One call of chatHub (chathub.ts): the upload, up to two attempts to     *)
(* dial Microsoft, the SignalR handshake, the one send of the invocation,  *)
(* and the loop that reads its frames until the answer is complete, the    *)
(* socket breaks or a deadline passes.                                     *)
(*                                                                         *)
(* Abstractions: a frame is its kind, and one frame holds one SignalR      *)
(* record.  Text is whether there is any; what a finished text means       *)
(* (parsed calls, decisions) belongs to AssistantTurn.  Time is counted in *)
(* ticks of the two deadlines.                                             *)
(*                                                                         *)
(* pc: upload, dial, shake, read, pause (before the second attempt), over  *)
(***************************************************************************)
EXTENDS Naturals, Sequences

CONSTANTS
    Deadline,   \* bound: ticks of the request deadline
    Idle,       \* ticks of CHAT_PROGRESS_IDLE_TIMEOUT_MS
    QueueMax,   \* frames that fit MAX_QUEUED_SOCKET_CHARACTERS
    MaxFrames   \* bound: frames Microsoft sends in one call

ASSUME HubAssumption == {Deadline, Idle, QueueMax, MaxFrames} \subseteq Nat \ {0}

VARIABLES
    hub,   \* chatHub and runChatHub: [pc, attempt, sub, hist, sem]
    ans,   \* what the frames have brought
    net,   \* the socket and its reader
    left,  \* ticks to the request deadline
    idle,  \* ticks to the progress deadline
    aborted, \* the bounded signal
    wrote, \* times the invocation was sent on a socket
    out    \* the outcome

hubVars == <<hub, ans, net, left, idle, aborted, wrote, out>>

\* Frames of the invocation, by what the loop does with them:
\*   delta, content (an image or a call), badcall, synth (a placeholder answer), quota, busy
\*   (progress only), noise; item, final, itemerr (type 2); done, doneerr (3); ping (6); bye, byeerr (7)
Frame == {"delta", "content", "badcall", "synth", "quota", "busy", "noise", "item", "final",
          "itemerr", "done", "doneerr", "ping", "bye", "byeerr"}
Hello == {"hello", "badhello"}   \* answers to the handshake

Semantic == {"delta", "content", "synth", "quota", "busy", "item", "final", "itemerr"}
Closing == {"final", "done", "doneerr", "itemerr", "bye", "byeerr"}   \* frames that end the loop

NoAnswer == [text |-> FALSE, final |-> FALSE, content |-> FALSE, bad |-> FALSE, synth |-> FALSE,
             quota |-> FALSE, seen |-> "none"]
NoSocket == [up |-> FALSE, q |-> <<>>, term |-> "none", n |-> 0, got |-> {}]
NoOutcome == [kind |-> "none", cause |-> "none", sub |-> FALSE]

HubTypeOK ==
    /\ hub \in [pc : {"upload", "dial", "shake", "read", "pause", "over"}, attempt : 0..1,
                sub : BOOLEAN, hist : BOOLEAN, sem : BOOLEAN]
    /\ net.q \in Seq(Frame \cup Hello) /\ Len(net.q) <= QueueMax /\ net.n \in 0..MaxFrames
    /\ left \in 0..Deadline /\ idle \in 0..Idle /\ aborted \in BOOLEAN /\ wrote \in 0..2

HubInit ==
    /\ hub = [pc |-> "upload", attempt |-> 0, sub |-> FALSE, hist |-> FALSE, sem |-> FALSE]
    /\ ans = NoAnswer /\ net = NoSocket
    /\ left = Deadline /\ idle = Idle /\ aborted = FALSE
    /\ wrote = 0 /\ out = NoOutcome

-----------------------------------------------------------------------------
(* socketReader *)

\* Mutant: every failure drops the queue.
TerminatedEmpty(w, reason) == [w EXCEPT !.term = IF @ = "none" THEN reason ELSE @, !.q = <<>>]

\* fail: the first terminal reason stays; a policy violation drops the queue.
Terminated(w, reason) ==
    IF w.term # "none" THEN w
    ELSE [w EXCEPT !.term = reason, !.q = IF reason = "big" THEN <<>> ELSE @]

\* settle: a frame after the end is ignored, one too many breaks the policy.
Queued(w, f) ==
    IF w.term # "none" THEN w
    ELSE IF Len(w.q) >= QueueMax THEN Terminated(w, "big")
    ELSE [w EXCEPT !.q = Append(@, f), !.got = @ \cup ({f} \cap Closing)]

\* Microsoft answers the handshake, then the invocation; frames may be too large.
FrameArrives ==
    /\ net.up /\ net.n < MaxFrames
    /\ \/ \E f \in (IF hub.pc = "shake" /\ net.q = <<>> THEN Hello ELSE IF hub.pc = "read" THEN Frame ELSE {}) :
             net' = [Queued(net, f) EXCEPT !.n = @ + 1]
       \/ net' = [Terminated(net, "big") EXCEPT !.n = @ + 1]
    /\ UNCHANGED <<hub, ans, left, idle, aborted, wrote, out>>

SocketBreaks ==
    /\ net.up /\ net.term = "none"
    /\ \E reason \in {"closed", "error"} : net' = Terminated(net, reason)
    /\ UNCHANGED <<hub, ans, left, idle, aborted, wrote, out>>

\* The request is cancelled: the reader is closed, the queue is kept.
Abort ==
    /\ ~aborted /\ hub.pc # "over" /\ aborted' = TRUE
    /\ net' = IF net.up THEN Terminated(net, "own") ELSE net
    /\ UNCHANGED <<hub, ans, left, idle, wrote, out>>

\* Time passes; the request deadline is an abort of its own.
HubTick ==
    /\ left > 0 /\ hub.pc # "over"
    /\ left' = left - 1 /\ idle' = IF idle = 0 THEN 0 ELSE idle - 1
    /\ aborted' = (aborted \/ left = 1)
    /\ net' = IF left = 1 /\ net.up THEN Terminated(net, "own") ELSE net
    /\ UNCHANGED <<hub, ans, wrote, out>>

-----------------------------------------------------------------------------
(* chatHub and runChatHub *)

\* mayReconnectChatHubFailure: nothing was submitted, and the transport is to blame.
ReconnectSafe(cause) == cause \in {"dial", "dial5xx", "closed", "error"}

\* The deadline and the abort are named before the cause.
Named(cause) == IF left = 0 THEN "deadline" ELSE IF aborted THEN "aborted" ELSE cause

\* Mutant: the retry does not ask whether the invocation was submitted.
MayRetryAnyway(h, cause) == ~aborted /\ ~h.sem /\ h.attempt = 0 /\ ReconnectSafe(cause)

\* One more attempt: only of an attempt that has left no trace.
MayRetry(h, cause) ==
    ~aborted /\ ~h.sem /\ ~h.hist /\ h.attempt = 0 /\ left > 0 /\ ReconnectSafe(cause)

\* An attempt fails.  The catch block of chatHub remembers a submission and
\* either pauses or throws.
AttemptFails(cause) ==
    LET h == [hub EXCEPT !.hist = @ \/ hub.sub, !.sub = FALSE]
        c == Named(cause)
    IN  /\ net' = NoSocket
        /\ IF MayRetry(h, c)
           THEN hub' = [h EXCEPT !.pc = "pause"] /\ UNCHANGED out
           ELSE hub' = [h EXCEPT !.pc = "over"] /\ out' = [kind |-> "fail", cause |-> c, sub |-> h.hist]

\* uploadConversationImages, once for both attempts.
Upload ==
    /\ hub.pc = "upload"
    /\ \/ hub' = [hub EXCEPT !.pc = "dial"] /\ UNCHANGED out
       \/ hub' = [hub EXCEPT !.pc = "over"] /\ out' = [kind |-> "fail", cause |-> "upload", sub |-> FALSE]
    /\ UNCHANGED <<ans, net, left, idle, aborted, wrote>>

\* fetch: a socket, no socket (a transient status or another), or an error; the
\* relay's errors are never worth a reconnect.
Dial ==
    /\ hub.pc = "dial"
    /\ \/ ~aborted /\ hub' = [hub EXCEPT !.pc = "shake"] /\ net' = [NoSocket EXCEPT !.up = TRUE] /\ UNCHANGED out
       \/ \E cause \in {"dial", "dial5xx", "dial4xx", "relay"} : AttemptFails(cause)
    /\ UNCHANGED <<ans, left, idle, aborted, wrote>>

\* The handshake is answered: the invocation is sent, and counts from here, also
\* when the answer was read from the queue of a socket that has broken since; only
\* a send that throws does not count.  The handshake may also be refused, time out,
\* or find the socket broken.
Handshake ==
    /\ hub.pc = "shake"
    /\ \/ /\ net.q # <<>> /\ Head(net.q) = "hello" /\ net.term # "own"
          /\ hub' = [hub EXCEPT !.pc = "read", !.sub = TRUE] /\ wrote' = wrote + 1
          /\ net' = [net EXCEPT !.q = Tail(@)] /\ idle' = Idle /\ UNCHANGED out
       \/ /\ net.q # <<>> /\ (Head(net.q) = "badhello" \/ net.term # "none")
          /\ AttemptFails("handshake") /\ UNCHANGED <<wrote, idle>>
       \/ /\ net.q = <<>> /\ net.term # "none" /\ AttemptFails(net.term) /\ UNCHANGED <<wrote, idle>>
       \/ /\ net.q = <<>> /\ net.term = "none" /\ AttemptFails("timeout") /\ UNCHANGED <<wrote, idle>>
    /\ UNCHANGED <<ans, left, aborted>>

\* What a frame adds.
Harvested(f) ==
    [ans EXCEPT !.text = @ \/ f = "delta", !.final = @ \/ f = "final", !.content = @ \/ f = "content",
                !.bad = @ \/ f = "badcall", !.synth = @ \/ f = "synth", !.quota = @ \/ f = "quota",
                !.seen = IF f \in Closing \cup {"item"} THEN f ELSE @]

\* completeResult: an answer, an invalid decision for the caller to repair, or a failure.
Complete(a) ==
    IF a.synth THEN [kind |-> "fail", cause |-> "ratelimited", sub |-> TRUE]
    ELSE IF a.text \/ a.final \/ a.content THEN [kind |-> "ok", cause |-> "answer", sub |-> TRUE]
    ELSE IF a.bad THEN [kind |-> "ok", cause |-> "invalid", sub |-> TRUE]
    ELSE [kind |-> "fail", cause |-> IF a.quota THEN "quota" ELSE "empty", sub |-> TRUE]

\* A frame completes the turn: type 3; type 2 with anything to show; a clean
\* close after a final text or content, never after a mere delta.
Completes(a, f) ==
    \/ f = "done"
    \/ f \in {"item", "final"} /\ (a.text \/ a.final \/ a.content)
    \/ f = "bye" /\ (a.final \/ a.content)

\* One frame of the loop, while both deadlines lie ahead.
ReadFrame ==
    /\ hub.pc = "read" /\ net.q # <<>> /\ left > 0 /\ idle > 0
    /\ LET f == Head(net.q)
           a == Harvested(f)
           h == [hub EXCEPT !.sem = @ \/ f \in Semantic]
       IN  /\ ans' = a
           /\ idle' = IF f \in Semantic \cup {"ping"} THEN Idle ELSE idle
           /\ \/ /\ Completes(a, f) /\ Complete(a).kind = "ok"
                 /\ out' = Complete(a) /\ hub' = [h EXCEPT !.pc = "over", !.hist = TRUE] /\ net' = NoSocket
              \/ /\ Completes(a, f) /\ Complete(a).kind = "fail"
                 /\ net' = NoSocket /\ hub' = [h EXCEPT !.pc = "over", !.hist = TRUE]
                 /\ out' = [kind |-> "fail", cause |-> Named(Complete(a).cause), sub |-> TRUE]
              \/ /\ f \in {"itemerr", "doneerr", "byeerr"} \/ (f = "bye" /\ ~Completes(a, f))
                 /\ net' = NoSocket /\ hub' = [h EXCEPT !.pc = "over", !.hist = TRUE]
                 /\ out' = [kind |-> "fail", cause |-> Named("upstream"), sub |-> TRUE]
              \/ /\ ~Completes(a, f) /\ f \notin {"itemerr", "doneerr", "byeerr", "bye"}
                 /\ hub' = h /\ net' = [net EXCEPT !.q = Tail(@)] /\ UNCHANGED out
    /\ UNCHANGED <<left, aborted, wrote>>

\* Nothing queued: the terminal reason, if there is one.
ReadTerminal ==
    /\ hub.pc = "read" /\ net.q = <<>> /\ net.term # "none" /\ left > 0 /\ idle > 0
    /\ AttemptFails(net.term)
    /\ UNCHANGED <<ans, left, idle, aborted, wrote>>

\* Mutant: only the idle timer ends a read.
NeverTimesOut ==
    /\ hub.pc = "read" /\ idle = 0 /\ left > 0
    /\ AttemptFails("progress")
    /\ UNCHANGED <<ans, left, idle, aborted, wrote>>

\* One of the two deadlines has passed, whatever is queued.
ReadTimesOut ==
    /\ hub.pc = "read" /\ (left = 0 \/ idle = 0)
    /\ AttemptFails("progress")
    /\ UNCHANGED <<ans, left, idle, aborted, wrote>>

\* 250 ms later the second attempt begins.
Resume ==
    /\ hub.pc = "pause" /\ hub' = [hub EXCEPT !.pc = "dial", !.attempt = 1]
    /\ UNCHANGED <<ans, net, left, idle, aborted, wrote, out>>

-----------------------------------------------------------------------------

HubWorks == Upload \/ Dial \/ Handshake \/ ReadFrame \/ ReadTerminal \/ ReadTimesOut \/ Resume

HubNext == HubWorks \/ FrameArrives \/ SocketBreaks \/ Abort \/ HubTick

HubSpec == HubInit /\ [][HubNext]_hubVars

\* The Worker runs and time passes.
HubFairness == WF_hubVars(HubWorks) /\ WF_hubVars(HubTick)

HubFair == HubSpec /\ HubFairness

\* The single run of this call.
HubInvocation ==
    INSTANCE ChatInvocation WITH
        Run <- {1}, over <- {},
        sent <- [r \in {1} |-> wrote],
        told <- [r \in {1} |-> IF out.kind = "none" THEN {} ELSE IF out.kind = "ok" THEN {"answer"}
                               ELSE IF out.sub THEN {"maybe"} ELSE {"unsent"}]

(* chatHub keeps the promise of ChatInvocation: two attempts never submit   *)
(* twice, and a failure is reported as not submitted exactly when nothing   *)
(* was sent, also by a second attempt after a first that was                *)
(* (preserveChatHubSubmissionHistory, mayRetryUnseenChatHubFailure).        *)
HubKeepsPromise == HubInvocation!InvocationSpec

(* What was received before the socket broke is not lost: a call that fails *)
(* with the broken socket had no frame waiting that would have ended it     *)
(* (the queue of socketReader is drained before its terminal reason).       *)
ReceivedIsKept ==
    [][(out.kind = "none" /\ out'.cause \in {"closed", "error"}) => net.got \cap Closing = {}]_hubVars

(* A call ends: heartbeats, silence, a lost close and a queue of noise are  *)
(* all bounded by the two deadlines.                                        *)
HubEnds == (hub.pc = "shake") ~> (hub.pc = "over")
=============================================================================
