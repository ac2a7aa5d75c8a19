------------------------ MODULE ChatInvocationProofs ------------------------
(***************************************************************************)
(* The runner object and the WebSocket client each implement               *)
(* ChatInvocation, for any number of runs and any size of their bounds;    *)
(* the client loses no frame that would have ended the call, and the       *)
(* runner submits nothing that it has confirmed as cancelled and has not   *)
(* had to forget.                                                          *)
(***************************************************************************)
EXTENDS ChatRunner, ChatHub, TLAPS

-----------------------------------------------------------------------------
(* chatHub *)

\* What an outcome says is what was sent.  Nothing is sent before the
\* handshake of the only attempt that gets there, so an attempt that may be
\* repeated has sent nothing.
HubRecord ==
    [pc : {"upload", "dial", "shake", "read", "pause", "over"}, attempt : {0, 1},
     sub : BOOLEAN, hist : BOOLEAN, sem : BOOLEAN]

HubInv ==
    /\ hub \in HubRecord /\ wrote \in {0, 1}
    /\ out.kind \in {"none", "ok", "fail"} /\ out.sub \in BOOLEAN
    /\ hub.pc \in {"upload", "dial", "shake", "pause"} => ~hub.sub /\ ~hub.hist /\ wrote = 0
    /\ hub.pc = "read" => hub.sub /\ wrote = 1
    /\ (hub.pc = "over") <=> (out.kind # "none")
    /\ out.kind = "ok" => wrote = 1
    /\ out.kind = "fail" => (out.sub <=> wrote = 1)

\* An attempt that fails is repeated, and then nothing was sent, or it is
\* reported truthfully.
LEMMA AttemptFailsTruthfully ==
    ASSUME HubInv, hub.pc \in {"dial", "shake", "read"}, NEW STATE cause,
           AttemptFails(cause), wrote' = wrote
    PROVE  /\ HubInv'
           /\ out' # out => out'.kind = "fail" /\ out.kind = "none"
<1> DEFINE h == [hub EXCEPT !.hist = @ \/ hub.sub, !.sub = FALSE]
           c == Named(cause)
<1>2. /\ h \in HubRecord /\ h.pc = hub.pc /\ ~h.sub
      /\ h.hist <=> (hub.hist \/ hub.sub)
  BY DEF HubInv, HubRecord
<1>4. h.hist <=> (wrote = 1)
  BY <1>2 DEF HubInv
<1> HIDE DEF h, c
<1>5. CASE MayRetry(h, c)
  <2>1. hub' = [h EXCEPT !.pc = "pause"] /\ out' = out /\ ~h.hist
    BY <1>5 DEF AttemptFails, MayRetry, h, c
  <2>2. hub' \in HubRecord /\ hub'.pc = "pause" /\ ~hub'.sub /\ ~hub'.hist
    BY <2>1, <1>2 DEF HubRecord
  <2> QED  BY <2>1, <2>2, <1>4 DEF HubInv
<1>6. CASE ~MayRetry(h, c)
  <2>1. hub' = [h EXCEPT !.pc = "over"] /\ out' = [kind |-> "fail", cause |-> c, sub |-> h.hist]
    BY <1>6 DEF AttemptFails, h, c
  <2>2. hub' \in HubRecord /\ hub'.pc = "over"
    BY <2>1, <1>2 DEF HubRecord
  <2>3. out'.sub \in BOOLEAN /\ out'.kind = "fail" /\ (out'.sub <=> wrote = 1)
    <3>1. h.hist \in BOOLEAN
      BY <1>2 DEF HubRecord
    <3> QED  BY <2>1, <1>4, <3>1
  <2> QED  BY <2>1, <2>2, <2>3 DEF HubInv
<1> QED  BY <1>5, <1>6

\* Nothing has been sent or reported at the start.
LEMMA HubInitInv == HubInit => HubInv
BY DEF HubInit, HubInv, NoOutcome, HubRecord

\* Seen from Microsoft and from the caller a step does nothing, sends the
\* invocation that was not sent, or reports.
HubEffect ==
    \/ wrote' = wrote /\ out' = out
    \/ wrote = 0 /\ wrote' = 1 /\ out' = out /\ out.kind = "none"
    \/ wrote' = wrote /\ out.kind = "none" /\ out'.kind \in {"ok", "fail"}

\* A failed attempt, seen from outside.
LEMMA AttemptFailsEffect ==
    ASSUME HubInv, hub.pc \in {"dial", "shake", "read"}, NEW STATE cause,
           AttemptFails(cause), wrote' = wrote
    PROVE  HubInv' /\ HubEffect
BY AttemptFailsTruthfully DEF HubEffect, HubInv

\* The loop of runChatHub over one frame.
LEMMA ReadFrameEffect == ASSUME HubInv, ReadFrame PROVE HubInv' /\ HubEffect
<1> DEFINE f == Head(net.q)
           a == Harvested(f)
           h == [hub EXCEPT !.sem = @ \/ f \in Semantic]
<1>1. hub.pc = "read" /\ hub.sub /\ wrote = 1 /\ out.kind = "none" /\ wrote' = wrote
  BY DEF ReadFrame, HubInv
<1>2. h \in HubRecord /\ h.pc = "read" /\ h.sub
  <2>1. (hub.sem \/ f \in Semantic) \in BOOLEAN
    OBVIOUS
  <2> HIDE DEF f
  <2> QED  BY <1>1, <2>1 DEF HubInv, HubRecord
<1> HIDE DEF f, a, h
<1>3. \/ hub' = [h EXCEPT !.pc = "over", !.hist = TRUE] /\ out'.kind = "ok" /\ out'.sub = TRUE
      \/ hub' = [h EXCEPT !.pc = "over", !.hist = TRUE] /\ out'.kind = "fail" /\ out'.sub = TRUE
      \/ hub' = h /\ out' = out
  <2>1. CASE Completes(a, f) /\ Complete(a).kind = "ok"
    <3>1. f \notin {"itemerr", "doneerr", "byeerr"} /\ Complete(a).kind # "fail"
      BY <2>1 DEF Completes
    <3>2. out' = Complete(a) /\ hub' = [h EXCEPT !.pc = "over", !.hist = TRUE]
      BY <2>1, <3>1 DEF ReadFrame, f, a, h
    <3>3. Complete(a).sub = TRUE
      BY DEF Complete
    <3> QED  BY <3>2, <3>3, <2>1
  <2>2. CASE ~(Completes(a, f) /\ Complete(a).kind = "ok")
    BY <2>2 DEF ReadFrame, f, a, h
  <2> QED  BY <2>1, <2>2
<1>4. CASE hub' = h /\ out' = out
  BY <1>4, <1>1, <1>2 DEF HubInv, HubEffect
<1>5. CASE hub' = [h EXCEPT !.pc = "over", !.hist = TRUE] /\ out'.kind \in {"ok", "fail"} /\ out'.sub = TRUE
  <2>1. hub' \in HubRecord /\ hub'.pc = "over"
    BY <1>5, <1>2 DEF HubRecord
  <2> QED  BY <2>1, <1>5, <1>1 DEF HubInv, HubEffect
<1> QED  BY <1>3, <1>4, <1>5

\* Every step of a call, its socket and its clocks.
LEMMA HubStepEffect == ASSUME HubInv, [HubNext]_hubVars PROVE HubInv' /\ HubEffect
<1>1. CASE Upload
  <2>1. CASE hub' = [hub EXCEPT !.pc = "dial"] /\ UNCHANGED out
    BY <1>1, <2>1 DEF Upload, HubInv, HubRecord, HubEffect
  <2>2. CASE hub' = [hub EXCEPT !.pc = "over"] /\ out' = [kind |-> "fail", cause |-> "upload", sub |-> FALSE]
    BY <1>1, <2>2 DEF Upload, HubInv, HubRecord, HubEffect
  <2> QED  BY <1>1, <2>1, <2>2 DEF Upload
<1>2. CASE Dial
  <2>1. CASE hub' = [hub EXCEPT !.pc = "shake"] /\ UNCHANGED out
    BY <1>2, <2>1 DEF Dial, HubInv, HubRecord, HubEffect
  <2>2. CASE \E cause \in {"dial", "dial5xx", "dial4xx", "relay"} : AttemptFails(cause)
    <3>1. PICK cause \in {"dial", "dial5xx", "dial4xx", "relay"} : AttemptFails(cause)
      BY <2>2
    <3> QED  BY <1>2, <3>1, AttemptFailsEffect DEF Dial
  <2> QED  BY <1>2, <2>1, <2>2 DEF Dial
<1>3. CASE Handshake
  <2>1. CASE hub' = [hub EXCEPT !.pc = "read", !.sub = TRUE] /\ wrote' = wrote + 1 /\ UNCHANGED out
    <3>1. hub.pc = "shake" /\ wrote = 0 /\ out.kind = "none" /\ wrote' = 1 /\ out' = out
      BY <1>3, <2>1 DEF Handshake, HubInv
    <3>2. hub' \in HubRecord /\ hub'.pc = "read" /\ hub'.sub
      BY <2>1 DEF HubInv, HubRecord
    <3> QED  BY <3>1, <3>2 DEF HubInv, HubEffect
  <2>2. CASE wrote' = wrote /\ AttemptFails("handshake")
    BY <1>3, <2>2, AttemptFailsEffect DEF Handshake
  <2>3. CASE wrote' = wrote /\ AttemptFails(net.term)
    BY <1>3, <2>3, AttemptFailsEffect DEF Handshake
  <2>4. CASE wrote' = wrote /\ AttemptFails("timeout")
    BY <1>3, <2>4, AttemptFailsEffect DEF Handshake
  <2> QED  BY <1>3, <2>1, <2>2, <2>3, <2>4 DEF Handshake
<1>4. CASE ReadFrame
  BY <1>4, ReadFrameEffect
<1>5. CASE ReadTerminal
  BY <1>5, AttemptFailsEffect DEF ReadTerminal
<1>6. CASE ReadTimesOut
  BY <1>6, AttemptFailsEffect DEF ReadTimesOut
<1>7. CASE Resume
  BY <1>7 DEF Resume, HubInv, HubRecord, HubEffect
<1>8. CASE UNCHANGED <<hub, wrote, out>>
  BY <1>8 DEF HubInv, HubEffect
<1>9. CASE FrameArrives \/ SocketBreaks \/ Abort \/ HubTick \/ UNCHANGED hubVars
  BY <1>8, <1>9 DEF FrameArrives, SocketBreaks, Abort, HubTick, hubVars
<1> QED  BY <1>1, <1>2, <1>3, <1>4, <1>5, <1>6, <1>7, <1>9 DEF HubNext, HubWorks

\* chatHub keeps the promise of ChatInvocation, whatever the deadlines and the
\* size of the queue (chathub.ts: chatHub, runChatHub, preserveChatHubSubmissionHistory).
THEOREM HubImplementsInvocation == HubSpec => HubKeepsPromise
<1>1. HubInit => HubInvocation!InvocationInit
  BY DEF HubInit, NoOutcome, HubInvocation!InvocationInit
<1>2. ASSUME HubInv, HubInv', HubEffect
      PROVE  [HubInvocation!InvocationNext]_(HubInvocation!invocationVars)
  <2>1. CASE wrote' = wrote /\ out' = out
    BY <2>1 DEF HubInvocation!invocationVars
  <2>2. CASE wrote = 0 /\ wrote' = 1 /\ out' = out /\ out.kind = "none"
    <3>1. HubInvocation!Submit(1)
      BY <2>2 DEF HubInvocation!Submit
    <3> QED  BY <3>1 DEF HubInvocation!InvocationNext
  <2>3. CASE wrote' = wrote /\ out.kind = "none" /\ out'.kind = "ok"
    <3>1. HubInvocation!Tell(1, "answer")
      BY <2>3, <1>2 DEF HubInvocation!Tell, HubInv
    <3> QED  BY <3>1 DEF HubInvocation!InvocationNext
  <2>4. CASE wrote' = wrote /\ out.kind = "none" /\ out'.kind = "fail" /\ out'.sub
    <3>1. HubInvocation!Tell(1, "maybe")
      BY <2>4, <1>2 DEF HubInvocation!Tell, HubInv
    <3> QED  BY <3>1 DEF HubInvocation!InvocationNext
  <2>5. CASE wrote' = wrote /\ out.kind = "none" /\ out'.kind = "fail" /\ ~out'.sub
    <3>1. HubInvocation!Tell(1, "unsent")
      BY <2>5, <1>2 DEF HubInvocation!Tell, HubInv
    <3> QED  BY <3>1 DEF HubInvocation!InvocationNext
  <2> QED  BY <1>2, <2>1, <2>2, <2>3, <2>4, <2>5 DEF HubEffect
<1> QED
  BY <1>1, <1>2, HubInitInv, HubStepEffect, PTL
  DEF HubSpec, HubKeepsPromise, HubInvocation!InvocationSpec

-----------------------------------------------------------------------------
(* Frames that were received before the socket broke *)

Socket == [up : BOOLEAN, q : Seq(Frame \cup Hello), term : {"none", "closed", "error", "own", "big"},
           n : Nat, got : SUBSET Closing]

\* A frame that will end the loop stays in the queue until the loop takes it; only
\* a policy violation drops it, and that is a terminal reason of its own.
Waiting(w) ==
    /\ w \in Socket
    /\ w.term # "big" => \A f \in w.got : \E i \in DOMAIN w.q : w.q[i] = f

Answer == [text : BOOLEAN, final : BOOLEAN, content : BOOLEAN, bad : BOOLEAN, synth : BOOLEAN,
           quota : BOOLEAN, seen : Frame \cup Hello \cup {"none"}]

\* Nothing is received before the invocation is sent, and no outcome has a cause
\* before there is one.
KeptInv ==
    /\ Waiting(net) /\ ans \in Answer
    /\ hub.pc \notin {"read", "over"} => net.got = {}
    /\ out.kind = "none" => out.cause = "none"

\* The step ends the call with a broken socket only when nothing was waiting.
FailsEmpty == out.kind = "none" /\ out'.cause \in {"closed", "error"} => net.got = {}

\* A socket that is not there, or was opened just now, has received nothing.
LEMMA NoSocketWaits == Waiting(NoSocket) /\ Waiting([NoSocket EXCEPT !.up = TRUE])
<1>1. <<>> \in Seq(Frame \cup Hello) /\ {} \in SUBSET Closing
  OBVIOUS
<1>2. NoSocket \in Socket /\ [NoSocket EXCEPT !.up = TRUE] \in Socket
  BY <1>1 DEF NoSocket, Socket
<1>3. NoSocket.got = {} /\ [NoSocket EXCEPT !.up = TRUE].got = {}
  BY DEF NoSocket
<1> QED  BY <1>2, <1>3 DEF Waiting

\* fail keeps the queue, or names the violation.
LEMMA TerminatedWaits ==
    ASSUME NEW w, Waiting(w), NEW reason \in {"closed", "error", "own", "big"}
    PROVE  Waiting(Terminated(w, reason))
<1>1. CASE w.term # "none"
  BY <1>1 DEF Terminated
<1>2. CASE w.term = "none" /\ reason = "big"
  <2>1. Terminated(w, reason) = [w EXCEPT !.term = "big", !.q = <<>>]
    BY <1>2 DEF Terminated
  <2>2. <<>> \in Seq(Frame \cup Hello)
    OBVIOUS
  <2>3. Terminated(w, reason) \in Socket /\ Terminated(w, reason).term = "big"
    BY <2>1, <2>2 DEF Waiting, Socket
  <2> QED  BY <2>3 DEF Waiting
<1>3. CASE w.term = "none" /\ reason # "big"
  <2>1. Terminated(w, reason) = [w EXCEPT !.term = reason]
    BY <1>3 DEF Terminated, Waiting, Socket
  <2> QED  BY <1>3, <2>1 DEF Waiting, Socket
<1> QED  BY <1>1, <1>2, <1>3

\* settle appends, and appends only.
LEMMA QueuedWaits ==
    ASSUME NEW w, Waiting(w), NEW f \in Frame \cup Hello
    PROVE  Waiting(Queued(w, f))
<1>1. CASE w.term # "none"
  BY <1>1 DEF Queued
<1>2. CASE w.term = "none" /\ Len(w.q) >= QueueMax
  BY <1>2, TerminatedWaits DEF Queued
<1>3. CASE w.term = "none" /\ ~(Len(w.q) >= QueueMax)
  <2> DEFINE line == Append(w.q, f)
             seen == w.got \cup ({f} \cap Closing)
  <2>1. Queued(w, f) = [w EXCEPT !.q = line, !.got = seen]
    BY <1>3 DEF Queued
  <2>2. w.q \in Seq(Frame \cup Hello) /\ Len(w.q) \in Nat /\ DOMAIN w.q = 1..Len(w.q)
    BY DEF Waiting, Socket
  <2>3. /\ line \in Seq(Frame \cup Hello) /\ Len(line) = Len(w.q) + 1
        /\ line[Len(w.q) + 1] = f /\ \A i \in 1..Len(w.q) : line[i] = w.q[i]
    BY <2>2
  <2>4. DOMAIN line = 1..(Len(w.q) + 1)
    BY <2>3
  <2> HIDE DEF line
  <2>5. \A g \in seen : \E i \in DOMAIN line : line[i] = g
    <3> TAKE g \in seen
    <3>1. CASE g = f
      <4>1. Len(w.q) + 1 \in DOMAIN line
        BY <2>2, <2>4
      <4> QED  BY <3>1, <4>1, <2>3
    <3>2. CASE g \in w.got
      <4>1. PICK i \in DOMAIN w.q : w.q[i] = g
        BY <3>2, <1>3 DEF Waiting
      <4>2. i \in DOMAIN line /\ line[i] = g
        BY <4>1, <2>2, <2>3, <2>4
      <4> QED  BY <4>2
    <3> QED  BY <3>1, <3>2
  <2>6. seen \in SUBSET Closing
    BY DEF Waiting, Socket
  <2> HIDE DEF seen
  <2>7. Queued(w, f) \in Socket /\ Queued(w, f).q = line /\ Queued(w, f).got = seen
    BY <2>1, <2>3, <2>6 DEF Waiting, Socket
  <2> QED  BY <2>5, <2>7 DEF Waiting
<1> QED  BY <1>1, <1>2, <1>3

\* The count of frames does not matter.
LEMMA CountWaits ==
    ASSUME NEW w, Waiting(w)
    PROVE  Waiting([w EXCEPT !.n = @ + 1])
BY DEF Waiting, Socket

\* The head that the loop consumes and goes on is no frame that ends it.
LEMMA TailWaits ==
    ASSUME NEW w, Waiting(w), w.q # <<>>, Head(w.q) \notin w.got
    PROVE  Waiting([w EXCEPT !.q = Tail(@)])
<1> DEFINE line == Tail(w.q)
<1>1. w.q \in Seq(Frame \cup Hello) /\ Len(w.q) \in Nat \ {0} /\ DOMAIN w.q = 1..Len(w.q) /\ Head(w.q) = w.q[1]
  BY DEF Waiting, Socket
<1>2. line \in Seq(Frame \cup Hello) /\ Len(line) = Len(w.q) - 1 /\ \A i \in 1..(Len(w.q) - 1) : line[i] = w.q[i + 1]
  BY <1>1
<1>3. DOMAIN line = 1..(Len(w.q) - 1)
  BY <1>2
<1> HIDE DEF line
<1>4. ASSUME NEW g \in w.got, w.term # "big" PROVE \E i \in DOMAIN line : line[i] = g
  <2>1. PICK i \in DOMAIN w.q : w.q[i] = g
    BY <1>4 DEF Waiting
  <2>2. i # 1
    BY <2>1, <1>1
  <2>3. i - 1 \in DOMAIN line /\ line[i - 1] = g
    BY <2>1, <2>2, <1>1, <1>2, <1>3
  <2> QED  BY <2>3
<1>5. /\ [w EXCEPT !.q = line] \in Socket /\ [w EXCEPT !.q = line].q = line
      /\ [w EXCEPT !.q = line].got = w.got /\ [w EXCEPT !.q = line].term = w.term
  BY <1>2 DEF Waiting, Socket
<1>6. Waiting([w EXCEPT !.q = line])
  BY <1>4, <1>5 DEF Waiting
<1> QED  BY <1>6 DEF line

\* A failed attempt names the cause it was given, an abort or a deadline.
LEMMA AttemptFailsKept ==
    ASSUME KeptInv, NEW STATE cause, AttemptFails(cause), ans' = ans,
           cause \in {"closed", "error"} => net.got = {}
    PROVE  KeptInv' /\ FailsEmpty
<1> DEFINE h == [hub EXCEPT !.hist = @ \/ hub.sub, !.sub = FALSE]
           c == Named(cause)
<1>1. net' = NoSocket /\ Waiting(net') /\ net'.got = {}
  BY NoSocketWaits DEF AttemptFails, NoSocket
<1>2. c \in {"closed", "error"} => cause = c
  BY DEF Named
<1>3. \/ out' = out
      \/ out' = [kind |-> "fail", cause |-> c, sub |-> h.hist]
  BY DEF AttemptFails
<1> HIDE DEF h, c
<1> QED  BY <1>1, <1>2, <1>3 DEF KeptInv, FailsEmpty

\* What a frame adds to the answer.
LEMMA HarvestedTyped ==
    ASSUME ans \in Answer, NEW f \in Frame \cup Hello
    PROVE  Harvested(f) \in Answer /\ (f = "final" => Harvested(f).final)
<1> DEFINE s == IF f \in Closing \cup {"item"} THEN f ELSE ans.seen
<1>1. s \in Frame \cup Hello \cup {"none"}
  BY DEF Answer
<1>2. Harvested(f) = [ans EXCEPT !.text = @ \/ f = "delta", !.final = @ \/ f = "final",
                                 !.content = @ \/ f = "content", !.bad = @ \/ f = "badcall",
                                 !.synth = @ \/ f = "synth", !.quota = @ \/ f = "quota", !.seen = s]
  BY DEF Harvested
<1> HIDE DEF s
<1>3. /\ Harvested(f).text = (ans.text \/ f = "delta") /\ Harvested(f).final = (ans.final \/ f = "final")
      /\ Harvested(f) \in Answer
  BY <1>1, <1>2, ZenonT(60) DEF Answer
<1> QED  BY <1>3

\* The loop over one frame: a frame that would end the loop does.
LEMMA ReadFrameKept == ASSUME HubInv, KeptInv, ReadFrame PROVE KeptInv' /\ FailsEmpty
<1> DEFINE f == Head(net.q)
           a == Harvested(f)
           h == [hub EXCEPT !.sem = @ \/ f \in Semantic]
<1>0. f \in Frame \cup Hello /\ net.q # <<>> /\ ans' = a
  BY DEF ReadFrame, KeptInv, Waiting, Socket
<1>1. a \in Answer /\ (f = "final" => a.final)
  BY <1>0, HarvestedTyped DEF KeptInv
<1>2. CASE net' = NoSocket /\ out'.kind \in {"ok", "fail"} /\ out'.cause \notin {"closed", "error"}
  <2>1. net'.got = {}
    BY <1>2 DEF NoSocket
  <2> QED  BY <1>0, <1>1, <1>2, <2>1, NoSocketWaits DEF KeptInv, FailsEmpty
<1>3. CASE /\ ~Completes(a, f) /\ f \notin {"itemerr", "doneerr", "byeerr", "bye"}
           /\ net' = [net EXCEPT !.q = Tail(@)] /\ out' = out
  <2>1. f \notin Closing
    BY <1>1, <1>3 DEF Completes, Closing
  <2>2. f \notin net.got
    BY <2>1 DEF KeptInv, Waiting, Socket
  <2>3. Waiting(net')
    BY <1>0, <1>3, <2>2, TailWaits DEF KeptInv
  <2>4. hub'.pc \in {"read", "over"}
    <3>1. HubInv' /\ wrote = 1 /\ wrote' = wrote
      BY ReadFrameEffect DEF ReadFrame, HubInv
    <3> QED  BY <3>1 DEF HubInv, HubRecord
  <2> QED  BY <1>0, <1>1, <1>3, <2>3, <2>4 DEF KeptInv, FailsEmpty
<1>4. \A c \in {"quota", "empty", "ratelimited", "upstream"} : Named(c) \notin {"closed", "error"}
  BY DEF Named
<1>5. /\ Complete(a).kind = "ok" => Complete(a).cause \in {"answer", "invalid"}
      /\ Complete(a).kind = "fail" => Complete(a).cause \in {"quota", "empty", "ratelimited"}
  BY DEF Complete
<1> HIDE DEF a, f
<1>6. \/ net' = NoSocket /\ out' = Complete(a) /\ Complete(a).kind = "ok"
      \/ net' = NoSocket /\ out' = [kind |-> "fail", cause |-> Named(Complete(a).cause), sub |-> TRUE] /\ Complete(a).kind = "fail"
      \/ net' = NoSocket /\ out' = [kind |-> "fail", cause |-> Named("upstream"), sub |-> TRUE]
      \/ /\ ~Completes(a, f) /\ f \notin {"itemerr", "doneerr", "byeerr", "bye"}
         /\ net' = [net EXCEPT !.q = Tail(@)] /\ out' = out
  BY DEF ReadFrame, a, f
<1> QED  BY <1>2, <1>3, <1>4, <1>5, <1>6

\* Every step of a call, its socket and its clocks.
LEMMA HubStepKept == ASSUME HubInv, KeptInv, [HubNext]_hubVars PROVE KeptInv' /\ FailsEmpty
<1>q. ASSUME Waiting(net'), net'.got = net.got \/ hub'.pc = "read", hub' = hub, ans' = ans, out' = out
      PROVE  KeptInv' /\ FailsEmpty
  BY <1>q DEF KeptInv, FailsEmpty
<1>1. CASE Upload
  <2>1. hub.pc = "upload" /\ net' = net /\ ans' = ans
        /\ (out' = out \/ (out'.kind = "fail" /\ out'.cause = "upload"))
    BY <1>1 DEF Upload
  <2> QED  BY <2>1 DEF KeptInv, FailsEmpty
<1>2. CASE Dial
  <2>1. CASE net' = [NoSocket EXCEPT !.up = TRUE] /\ UNCHANGED out
    <3>1. net'.got = {} /\ ans' = ans
      BY <1>2, <2>1 DEF Dial, NoSocket
    <3> QED  BY <2>1, <3>1, NoSocketWaits DEF KeptInv, FailsEmpty
  <2>2. CASE \E cause \in {"dial", "dial5xx", "dial4xx", "relay"} : AttemptFails(cause)
    <3>1. PICK cause \in {"dial", "dial5xx", "dial4xx", "relay"} : AttemptFails(cause)
      BY <2>2
    <3> QED  BY <1>2, <3>1, AttemptFailsKept DEF Dial
  <2> QED  BY <1>2, <2>1, <2>2 DEF Dial
<1>3. CASE Handshake
  <2>0. net.got = {} /\ ans' = ans
    BY <1>3 DEF Handshake, KeptInv
  <2>1. CASE net.q # <<>> /\ net' = [net EXCEPT !.q = Tail(@)] /\ UNCHANGED out
    <3>1. Waiting(net')
      BY <2>0, <2>1, TailWaits DEF KeptInv
    <3>2. net'.got = {}
      BY <2>0, <2>1 DEF KeptInv, Waiting, Socket
    <3> QED  BY <2>0, <2>1, <3>1, <3>2 DEF KeptInv, FailsEmpty
  <2>2. ASSUME NEW STATE cause, AttemptFails(cause) PROVE KeptInv' /\ FailsEmpty
    BY <2>0, <2>2, AttemptFailsKept
  <2> QED  BY <1>3, <2>1, <2>2 DEF Handshake
<1>4. CASE ReadFrame
  BY <1>4, ReadFrameKept
<1>5. CASE ReadTerminal
  <2>1. net.term \in {"closed", "error"} => net.got = {}
    BY <1>5 DEF ReadTerminal, KeptInv, Waiting
  <2> QED  BY <1>5, <2>1, AttemptFailsKept DEF ReadTerminal
<1>6. CASE ReadTimesOut
  BY <1>6, AttemptFailsKept DEF ReadTimesOut
<1>7. CASE Resume
  BY <1>7 DEF Resume, KeptInv, FailsEmpty
<1>8. CASE FrameArrives
  <2>1. hub' = hub /\ ans' = ans /\ out' = out
    BY <1>8 DEF FrameArrives
  <2>2. ASSUME NEW f \in Hello, net' = [Queued(net, f) EXCEPT !.n = @ + 1] PROVE KeptInv' /\ FailsEmpty
    <3>1. f \in Frame \cup Hello /\ f \notin Closing
      BY DEF Hello, Closing
    <3>2. Waiting(Queued(net, f)) /\ Waiting(net')
      BY <2>2, <3>1, QueuedWaits, CountWaits DEF KeptInv
    <3>3. Queued(net, f).got = net.got
      BY <3>1 DEF Queued, Terminated, KeptInv, Waiting, Socket
    <3>4. net'.got = net.got
      BY <2>2, <3>2, <3>3 DEF Waiting, Socket
    <3> QED  BY <2>1, <3>2, <3>4, <1>q
  <2>3. ASSUME NEW f \in Frame, hub.pc = "read", net' = [Queued(net, f) EXCEPT !.n = @ + 1] PROVE KeptInv' /\ FailsEmpty
    <3>1. Waiting(Queued(net, f)) /\ Waiting(net')
      BY <2>3, QueuedWaits, CountWaits DEF KeptInv
    <3> QED  BY <2>1, <2>3, <3>1, <1>q
  <2>4. CASE net' = [Terminated(net, "big") EXCEPT !.n = @ + 1]
    <3>1. Waiting(Terminated(net, "big")) /\ Waiting(net')
      BY <2>4, TerminatedWaits, CountWaits DEF KeptInv
    <3>2. Terminated(net, "big").got = net.got
      BY DEF Terminated, KeptInv, Waiting, Socket
    <3>3. net'.got = net.got
      BY <2>4, <3>1, <3>2 DEF Waiting, Socket
    <3> QED  BY <2>1, <3>1, <3>3, <1>q
  <2> QED  BY <1>8, <2>2, <2>3, <2>4 DEF FrameArrives
<1>9. ASSUME NEW reason \in {"closed", "error", "own"}, net' = net \/ net' = Terminated(net, reason),
             hub' = hub, ans' = ans, out' = out
      PROVE  KeptInv' /\ FailsEmpty
  <2>1. Waiting(net')
    BY <1>9, TerminatedWaits DEF KeptInv
  <2>2. net'.got = net.got
    BY <1>9 DEF Terminated, KeptInv, Waiting, Socket
  <2> QED  BY <1>9, <2>1, <2>2, <1>q
<1>10. CASE SocketBreaks
  BY <1>9, <1>10 DEF SocketBreaks
<1>11. CASE Abort
  BY <1>9, <1>11 DEF Abort
<1>12. CASE HubTick
  BY <1>9, <1>12 DEF HubTick
<1>13. CASE UNCHANGED hubVars
  BY <1>9, <1>13 DEF hubVars
<1> QED
  BY <1>1, <1>2, <1>3, <1>4, <1>5, <1>6, <1>7, <1>8, <1>10, <1>11, <1>12, <1>13 DEF HubNext, HubWorks

\* What was received before the socket broke is not lost, for any queue size,
\* deadlines and number of frames: a call fails with a broken socket only when no
\* frame that would have ended it was waiting (chathub.ts: socketReader).
THEOREM ReceivedTheorem == HubSpec => ReceivedIsKept
<1>1. HubInit => KeptInv
  <2>1. NoAnswer \in Answer
    BY DEF NoAnswer, Answer
  <2>2. NoSocket.got = {}
    BY DEF NoSocket
  <2> QED  BY <2>1, <2>2, NoSocketWaits DEF HubInit, KeptInv, NoOutcome
<1>2. HubInv /\ KeptInv /\ [HubNext]_hubVars => KeptInv'
  BY HubStepKept
<1>3. HubInv /\ [HubNext]_hubVars => HubInv'
  BY HubStepEffect
<1>4. HubInv /\ KeptInv /\ [HubNext]_hubVars
      => [(out.kind = "none" /\ out'.cause \in {"closed", "error"}) => net.got \cap Closing = {}]_hubVars
  BY HubStepKept DEF FailsEmpty
<1> QED  BY <1>1, <1>2, <1>3, <1>4, HubInitInv, PTL DEF HubSpec, ReceivedIsKept

-----------------------------------------------------------------------------
(* runChatHub and cancelChatHub *)

Word == {"answer", "maybe", "unsent"}
Entry == [run : Run, what : Word]
Progress == [on : BOOLEAN, sent : BOOLEAN, abort : BOOLEAN]

RunnerTypes ==
    /\ active \in [Run -> Progress]
    /\ done \in Seq(Entry) /\ marks \in Seq(Run)
    /\ callers \in [Run -> SUBSET {"made", "joined"}]
    /\ sent \in [Run -> Nat] /\ told \in [Run -> SUBSET (Word \cup {"lost"})]
    /\ since \in [Run -> 0..(Kept + 1)] /\ age \in [Run -> 0..(Markers + 1)] /\ lost \subseteq Run

Marked(r) == \E i \in DOMAIN marks : marks[i] = r

\* A run in progress has a caller who waits, no outcome and no marker.
ActiveIsHeard ==
    \A r \in Run : active[r].on => "joined" \in callers[r] /\ ~IsDone(r) /\ ~Marked(r)

\* Nothing has been said of a run that has not ended, and only the invocation in
\* progress may have been sent.
FreshIsUnsent ==
    \A r \in Run \ lost : since[r] = 0 =>
        /\ told[r] \subseteq {"lost"}
        /\ sent[r] = IF active[r].on /\ active[r].sent THEN 1 ELSE 0

\* An outcome stays until Kept others have come: it is never further from the end
\* than outcomes have been kept since.
RecentIsKept ==
    \A r \in Run \ lost : since[r] \in 1..Kept =>
        \E j \in DOMAIN done : done[j].run = r /\ Len(done) - j < since[r]

\* The same of the markers.
RecentIsMarked ==
    \A r \in Run \ lost : age[r] \in 1..Markers =>
        \E j \in DOMAIN marks : marks[j] = r /\ Len(marks) - j < age[r]

\* The outcome of a run that is not forgotten is what the callers have heard, and it
\* is true.
KeptIsTold ==
    \A j \in DOMAIN done : ~Forgotten(done[j].run) =>
        /\ told[done[j].run] \ {"lost"} = {done[j].what}
        /\ (done[j].what = "unsent") <=> (sent[done[j].run] = 0)

RunnerInv ==
    RunnerTypes /\ ActiveIsHeard /\ FreshIsUnsent /\ RecentIsKept /\ RecentIsMarked /\ KeptIsTold

\* The constants, and what is known of a counter.
LEMMA RunnerNumbers == Kept \in Nat \ {0} /\ Markers \in Nat \ {0}
BY RunnerAssumption

\* A map that keeps k entries after one more: nothing else comes, the new one is the
\* last, and every other one that is not too far from the end moves away by one.
LEMMA NewestKeeps ==
    ASSUME NEW S, NEW s \in Seq(S), NEW e \in S, NEW k \in Nat \ {0}
    PROVE  /\ Newest(Append(s, e), k) \in Seq(S)
           /\ \A i \in DOMAIN Newest(Append(s, e), k) :
                 Newest(Append(s, e), k)[i] = e \/ \E j \in DOMAIN s : Newest(Append(s, e), k)[i] = s[j]
           /\ \E i \in DOMAIN Newest(Append(s, e), k) :
                 Newest(Append(s, e), k)[i] = e /\ Len(Newest(Append(s, e), k)) - i = 0
           /\ \A j \in DOMAIN s : Len(s) - j + 1 < k =>
                 \E i \in DOMAIN Newest(Append(s, e), k) :
                    Newest(Append(s, e), k)[i] = s[j] /\ Len(Newest(Append(s, e), k)) - i = Len(s) - j + 1
<1> DEFINE t == Append(s, e)
           w == Newest(t, k)
           n == Len(s) + 1
           d == IF n <= k THEN 0 ELSE n - k
<1>1. Len(s) \in Nat /\ DOMAIN s = 1..Len(s) /\ n \in Nat \ {0} /\ d \in Nat /\ d < n /\ n - d <= k
  OBVIOUS
<1>2. t \in Seq(S) /\ Len(t) = n /\ t[n] = e /\ \A j \in 1..Len(s) : t[j] = s[j]
  BY <1>1
<1> HIDE DEF t
<1>3. w \in Seq(S) /\ Len(w) = n - d /\ \A i \in 1..(n - d) : w[i] = t[i + d]
  <2>1. CASE n <= k
    <3>1. w = t /\ d = 0
      BY <2>1, <1>2 DEF Newest
    <3> QED  BY <3>1, <1>1, <1>2
  <2>2. CASE ~(n <= k)
    <3>1. w = SubSeq(t, n - k + 1, n) /\ d = n - k
      BY <2>2, <1>2 DEF Newest
    <3>2. SubSeq(t, d + 1, n) \in Seq(S) /\ Len(SubSeq(t, d + 1, n)) = n - d
          /\ \A i \in 1..(n - d) : SubSeq(t, d + 1, n)[i] = t[i + d]
      <4> HIDE DEF n, d
      <4> QED  BY <1>1, <1>2
    <3>3. n - k + 1 = d + 1
      BY <3>1
    <3> QED  BY <3>1, <3>2, <3>3
  <2> QED  BY <2>1, <2>2
<1>4. DOMAIN w = 1..(n - d)
  BY <1>3
<1> HIDE DEF w, d
<1>5. ASSUME NEW i \in DOMAIN w PROVE w[i] = e \/ \E j \in DOMAIN s : w[i] = s[j]
  <2>1. i \in 1..(n - d) /\ w[i] = t[i + d] /\ i + d \in 1..n
    BY <1>1, <1>3, <1>4
  <2>2. CASE i + d = n
    BY <2>1, <2>2, <1>2
  <2>3. CASE i + d # n
    <3>1. i + d \in 1..Len(s)
      BY <2>1, <2>3, <1>1
    <3> QED  BY <2>1, <3>1, <1>1, <1>2
  <2> QED  BY <2>2, <2>3
<1>6. \E i \in DOMAIN w : w[i] = e /\ Len(w) - i = 0
  <2>1. n - d \in DOMAIN w /\ w[n - d] = t[n - d + d] /\ Len(w) - (n - d) = 0 /\ n - d + d = n
    BY <1>1, <1>3, <1>4
  <2> QED  BY <2>1, <1>2
<1>7. ASSUME NEW j \in DOMAIN s, Len(s) - j + 1 < k
      PROVE  \E i \in DOMAIN w : w[i] = s[j] /\ Len(w) - i = Len(s) - j + 1
  <2>3. j \in 1..Len(s) /\ j > d
    BY <1>1, <1>7 DEF d
  <2>4. j - d \in 1..(n - d)
    BY <2>3, <1>1
  <2>1. j - d \in DOMAIN w /\ j - d + d = j /\ Len(w) - (j - d) = Len(s) - j + 1
    BY <2>3, <2>4, <1>1, <1>3, <1>4
  <2>2. w[j - d] = t[j - d + d]
    BY <2>4, <1>3
  <2>5. w[j - d] = s[j]
    BY <2>1, <2>2, <2>3, <1>2
  <2> QED  BY <2>1, <2>5
<1> QED  BY <1>3, <1>5, <1>6, <1>7 DEF w, t

\* RemoveAt brings no element, and takes none further from the end.
LEMMA RemoveAtKeeps ==
    ASSUME NEW S, NEW s \in Seq(S), NEW n \in DOMAIN s
    PROVE  /\ RemoveAt(s, n) \in Seq(S)
           /\ \A i \in DOMAIN RemoveAt(s, n) : \E j \in DOMAIN s : RemoveAt(s, n)[i] = s[j]
           /\ \A j \in DOMAIN s : j # n =>
                 \E i \in DOMAIN RemoveAt(s, n) :
                    RemoveAt(s, n)[i] = s[j] /\ Len(RemoveAt(s, n)) - i <= Len(s) - j
<1> DEFINE a == SubSeq(s, 1, n - 1)
           b == SubSeq(s, n + 1, Len(s))
           t == RemoveAt(s, n)
<1>1. n \in 1..Len(s) /\ Len(s) \in Nat /\ DOMAIN s = 1..Len(s)
  OBVIOUS
<1>2. a \in Seq(S) /\ Len(a) = n - 1 /\ \A i \in 1..(n - 1) : a[i] = s[i]
  BY <1>1
<1>3. b \in Seq(S) /\ Len(b) = Len(s) - n /\ \A i \in 1..(Len(s) - n) : b[i] = s[n + i]
  BY <1>1
<1>4. t = a \o b
  BY DEF RemoveAt
<1> HIDE DEF a, b, t
<1>5. a \o b \in Seq(S) /\ Len(a \o b) = Len(s) - 1
  <2>1. a \in Seq(S) /\ b \in Seq(S)
    BY <1>2, <1>3
  <2>2. a \o b \in Seq(S) /\ Len(a \o b) = Len(a) + Len(b)
    BY <2>1
  <2>3. n - 1 + (Len(s) - n) = Len(s) - 1
    BY <1>1
  <2> QED  BY <2>2, <2>3, <1>2, <1>3
<1>6. ASSUME NEW i \in 1..(Len(s) - 1) PROVE t[i] = s[IF i < n THEN i ELSE i + 1]
  <2>1. CASE i <= n - 1
    <3>1. i \in 1..(n - 1)
      BY <2>1, <1>1
    <3>2. (a \o b)[i] = a[i]
      BY <3>1, <1>2, <1>3
    <3>3. i < n
      BY <2>1, <1>1
    <3> QED  BY <3>1, <3>2, <3>3, <1>2, <1>4
  <2>2. CASE i > n - 1
    <3>1. (a \o b)[i] = b[i - (n - 1)] /\ i - (n - 1) \in 1..(Len(s) - n)
      BY <2>2, <1>1, <1>2, <1>3, SMTT(40)
    <3>2. b[i - (n - 1)] = s[n + (i - (n - 1))] /\ n + (i - (n - 1)) = i + 1
      BY <3>1, <1>1, <1>3, SMTT(40)
    <3>3. ~(i < n)
      BY <2>2, <1>1
    <3> QED  BY <3>1, <3>2, <3>3, <1>4
  <2>3. i <= n - 1 \/ i > n - 1
    BY <1>1
  <2> QED  BY <2>1, <2>2, <2>3
<1>7. t \in Seq(S) /\ Len(t) = Len(s) - 1 /\ DOMAIN t = 1..(Len(s) - 1)
  BY <1>4, <1>5
<1>8. ASSUME NEW i \in DOMAIN t PROVE \E j \in DOMAIN s : t[i] = s[j]
  <2>1. (IF i < n THEN i ELSE i + 1) \in DOMAIN s
    BY <1>1, <1>7
  <2> QED  BY <2>1, <1>6, <1>7
<1>9. ASSUME NEW j \in DOMAIN s, j # n PROVE \E i \in DOMAIN t : t[i] = s[j] /\ Len(t) - i <= Len(s) - j
  <2>1. CASE j < n
    <3>1. j \in DOMAIN t /\ Len(t) - j <= Len(s) - j
      BY <2>1, <1>1, <1>7
    <3> QED  BY <2>1, <3>1, <1>6, <1>7
  <2>2. CASE j > n
    <3>1. j - 1 \in DOMAIN t /\ Len(t) - (j - 1) <= Len(s) - j /\ ~(j - 1 < n) /\ (j - 1) + 1 = j
      BY <2>2, <1>1, <1>7
    <3>2. t[j - 1] = s[j]
      BY <3>1, <1>6, <1>7
    <3> QED  BY <3>1, <3>2
  <2> QED  BY <1>1, <1>9, <2>1, <2>2
<1> QED  BY <1>7, <1>8, <1>9 DEF t

\* A counter counts from its own entry on, never down.
LEMMA CountedFacts ==
    ASSUME NEW m \in Nat \ {0}, NEW c \in [Run -> 0..(m + 1)], NEW r \in Run
    PROVE  /\ Counted(c, r, m) \in [Run -> 0..(m + 1)]
           /\ Counted(c, r, m)[r] >= 1
           /\ \A q \in Run : c[q] <= Counted(c, r, m)[q]
           /\ \A q \in Run \ {r} : c[q] = 0 <=> Counted(c, r, m)[q] = 0
           /\ \A q \in Run : Counted(c, r, m)[q] \in 1..m /\ c[q] # 0
                             => c[q] \in 1..m /\ Counted(c, r, m)[q] = c[q] + 1
<1>1. \A q \in Run : c[q] \in 0..(m + 1)
  OBVIOUS
<1>2. \A q \in Run : Counted(c, r, m)[q] = IF c[q] = 0 THEN IF q = r THEN 1 ELSE 0
                                           ELSE IF c[q] <= m THEN c[q] + 1 ELSE c[q]
  BY DEF Counted
<1>3. \A q \in Run : Counted(c, r, m)[q] \in 0..(m + 1)
  BY <1>1, <1>2
<1>4. Counted(c, r, m) = [q \in Run |-> Counted(c, r, m)[q]]
  BY DEF Counted
<1>5. Counted(c, r, m) \in [Run -> 0..(m + 1)]
  BY <1>3, <1>4
<1>6. Counted(c, r, m)[r] >= 1
  BY <1>1, <1>2
<1>7. \A q \in Run : c[q] <= Counted(c, r, m)[q]
  BY <1>1, <1>2
<1>8. \A q \in Run \ {r} : c[q] = 0 <=> Counted(c, r, m)[q] = 0
  BY <1>1, <1>2
<1>9. \A q \in Run : Counted(c, r, m)[q] \in 1..m /\ c[q] # 0
                     => c[q] \in 1..m /\ Counted(c, r, m)[q] = c[q] + 1
  BY <1>1, <1>2
<1> QED  BY <1>5, <1>6, <1>7, <1>8, <1>9

-----------------------------------------------------------------------------
(* The promise *)

PromiseStep == [Invocation!InvocationNext]_(Invocation!invocationVars)

\* What has been forgotten stays so.
Forgets == lost \subseteq lost' /\ \A r \in Run : since[r] <= since'[r]

LEMMA OverGrows ==
    ASSUME RunnerTypes, RunnerTypes', Forgets
    PROVE  {r \in Run : Forgotten(r)} \subseteq {r \in Run : Forgotten(r)'}
<1> SUFFICES ASSUME NEW r \in Run, Forgotten(r) PROVE Forgotten(r)'
  OBVIOUS
<1>1. since[r] \in Nat /\ since'[r] \in Nat /\ Kept \in Nat /\ since[r] <= since'[r]
  BY RunnerNumbers DEF RunnerTypes, Forgets
<1> QED  BY <1>1 DEF Forgotten, Forgets

\* A step that submits and reports nothing.
LEMMA StutterKeepsPromise ==
    ASSUME RunnerTypes, RunnerTypes', Forgets, sent' = sent,
           [r \in Run |-> told'[r] \ {"lost"}] = [r \in Run |-> told[r] \ {"lost"}]
    PROVE  PromiseStep
BY OverGrows DEF PromiseStep, Invocation!InvocationNext

\* A true report that contradicts no earlier one, or a run that is forgotten.
LEMMA TellKeepsPromise ==
    ASSUME RunnerTypes, RunnerTypes', Forgets, NEW r \in Run, NEW what \in Word,
           \/ Forgotten(r)
           \/ told[r] \ {"lost"} \subseteq {what} /\ ((what = "unsent") <=> (sent[r] = 0)),
           Tell(r, what), sent' = sent
    PROVE  PromiseStep
<1>1. [q \in Run |-> told'[q] \ {"lost"}]
        = [[q \in Run |-> told[q] \ {"lost"}] EXCEPT ![r] = @ \cup {what}]
  <2>1. what # "lost"
    BY DEF Word
  <2>2. told' = [told EXCEPT ![r] = @ \cup {what}] /\ DOMAIN told = Run
    BY DEF Tell, RunnerTypes
  <2>3. \A q \in Run : told'[q] \ {"lost"} = IF q = r THEN (told[q] \ {"lost"}) \cup {what} ELSE told[q] \ {"lost"}
    BY <2>1, <2>2
  <2> QED  BY <2>3
<1>2. Invocation!Tell(r, what)
  BY <1>1 DEF Invocation!Tell
<1> QED  BY <1>2, OverGrows DEF PromiseStep, Invocation!InvocationNext, Word

\* The fields of a kept outcome.
LEMMA KeptIsTyped ==
    ASSUME RunnerTypes, NEW i \in DOMAIN done
    PROVE  done[i].run \in Run /\ done[i].what \in Word
<1>1. done[i] \in Entry
  BY DEF RunnerTypes
<1> QED  BY <1>1 DEF Entry

\* A run that is neither kept nor forgotten has not ended.
LEMMA UnknownIsFresh ==
    ASSUME RunnerInv, NEW r \in Run, ~IsDone(r), ~Forgotten(r)
    PROVE  /\ r \notin lost /\ since[r] = 0 /\ told[r] \subseteq {"lost"}
           /\ sent[r] = IF active[r].on /\ active[r].sent THEN 1 ELSE 0
<1>1. r \notin lost /\ ~(since[r] > Kept) /\ since[r] \in 0..(Kept + 1) /\ Kept \in Nat
  BY RunnerNumbers DEF Forgotten, RunnerInv, RunnerTypes
<1>2. ~(since[r] \in 1..Kept)
  BY <1>1 DEF RunnerInv, RecentIsKept, IsDone
<1>3. since[r] = 0
  BY <1>1, <1>2
<1> QED  BY <1>1, <1>3 DEF RunnerInv, FreshIsUnsent

\* Steps that touch neither an outcome, a marker nor a run.
LEMMA QuietStep ==
    ASSUME RunnerInv, UNCHANGED <<active, done, marks, sent, told, historyVars>>,
           callers' \in [Run -> SUBSET {"made", "joined"}],
           \A r \in Run : "joined" \in callers[r] => "joined" \in callers'[r]
    PROVE  RunnerInv' /\ PromiseStep
<1>1. RunnerTypes' /\ Forgets
  BY RunnerNumbers DEF RunnerInv, RunnerTypes, historyVars, Forgets
<1>2. ActiveIsHeard'
  BY DEF RunnerInv, ActiveIsHeard, IsDone, Marked
<1>3. FreshIsUnsent' /\ RecentIsKept' /\ RecentIsMarked' /\ KeptIsTold'
  BY DEF RunnerInv, FreshIsUnsent, RecentIsKept, RecentIsMarked, KeptIsTold, Forgotten, historyVars
<1>4. RunnerTypes
  BY DEF RunnerInv
<1> QED  BY <1>1, <1>2, <1>3, <1>4, StutterKeepsPromise DEF RunnerInv

\* A report on a run that is kept and not forgotten, or forgotten, leaves the rest true.
LEMMA ToldKeeps ==
    ASSUME RunnerInv, NEW r \in Run, NEW what \in Word, Tell(r, what),
           Forgotten(r) \/ told[r] \ {"lost"} = {what},
           UNCHANGED <<done, sent, active, historyVars>>
    PROVE  FreshIsUnsent' /\ KeptIsTold' /\ told' \in [Run -> SUBSET (Word \cup {"lost"})]
<1>1. told' = [told EXCEPT ![r] = @ \cup {what}] /\ told \in [Run -> SUBSET (Word \cup {"lost"})]
  BY DEF Tell, RunnerInv, RunnerTypes
<1>2. told' \in [Run -> SUBSET (Word \cup {"lost"})] /\ \A q \in Run \ {r} : told'[q] = told[q]
  BY <1>1
<1>3. Forgotten(r) \/ told'[r] \ {"lost"} = told[r] \ {"lost"}
  BY <1>1
<1>4. \A q \in Run : Forgotten(q)' <=> Forgotten(q)
  BY DEF Forgotten, historyVars
<1>5. \A q \in Run : Forgotten(q) \/ told'[q] \ {"lost"} = told[q] \ {"lost"}
  BY <1>2, <1>3
<1>6. KeptIsTold'
  <2> SUFFICES ASSUME NEW j \in DOMAIN done, ~Forgotten(done[j].run)
               PROVE  /\ told'[done[j].run] \ {"lost"} = {done[j].what}
                      /\ (done[j].what = "unsent") <=> (sent[done[j].run] = 0)
    BY <1>4, KeptIsTyped DEF KeptIsTold, RunnerInv
  <2>1. done[j].run \in Run
    BY KeptIsTyped DEF RunnerInv
  <2> QED  BY <2>1, <1>5 DEF RunnerInv, KeptIsTold
<1>7. FreshIsUnsent'
  <2> SUFFICES ASSUME NEW q \in Run \ lost, since[q] = 0
               PROVE  /\ told'[q] \subseteq {"lost"}
                      /\ sent[q] = IF active[q].on /\ active[q].sent THEN 1 ELSE 0
    BY DEF FreshIsUnsent, historyVars
  <2>1. ~Forgotten(q)
    BY RunnerNumbers DEF Forgotten
  <2>2. told[q] \subseteq {"lost"} /\ sent[q] = IF active[q].on /\ active[q].sent THEN 1 ELSE 0
    BY DEF RunnerInv, FreshIsUnsent
  <2>3. told'[q] \ {"lost"} = told[q] \ {"lost"}
    BY <2>1, <1>5
  <2> QED  BY <2>2, <2>3
<1> QED  BY <1>2, <1>6, <1>7

\* A call finds an outcome, a marker, a run in progress, or none of them.
LEMMA RunChatHubStep ==
    ASSUME RunnerInv, NEW r \in Run, RunChatHub(r)
    PROVE  RunnerInv' /\ PromiseStep
<1>0. RunnerTypes /\ UNCHANGED <<done, cancel, sent, since, age>>
  BY DEF RunChatHub, RunnerInv
<1>1. callers \in [Run -> SUBSET {"made", "joined"}] /\ marks \in Seq(Run)
  BY <1>0 DEF RunnerTypes
<1>2. CASE IsDone(r) /\ Tell(r, Outcome(r)) /\ callers' = [callers EXCEPT ![r] = @ \ {"made"}]
           /\ UNCHANGED <<active, marks, lost>>
  <2> DEFINE x == CHOOSE y \in ToSet(done) : y.run = r
  <2>1. x \in ToSet(done) /\ x.run = r /\ Outcome(r) = x.what
    BY <1>2 DEF IsDone, ToSet, Outcome
  <2> HIDE DEF x
  <2>2. PICK j \in DOMAIN done : done[j] = x
    BY <2>1 DEF ToSet
  <2>3. x.what \in Word
    BY <1>0, <2>2, KeptIsTyped
  <2>4. Forgotten(r) \/ (told[r] \ {"lost"} = {x.what} /\ ((x.what = "unsent") <=> (sent[r] = 0)))
    BY <2>1, <2>2 DEF RunnerInv, KeptIsTold
  <2>5. FreshIsUnsent' /\ KeptIsTold' /\ told' \in [Run -> SUBSET (Word \cup {"lost"})]
    BY <1>0, <1>2, <2>1, <2>3, <2>4, ToldKeeps DEF historyVars
  <2>6. callers' \in [Run -> SUBSET {"made", "joined"}]
        /\ \A q \in Run : "joined" \in callers[q] => "joined" \in callers'[q]
    BY <1>1, <1>2
  <2>7. RunnerTypes' /\ Forgets
    BY <1>0, <1>2, <2>5, <2>6, RunnerNumbers DEF RunnerTypes, Forgets
  <2>8. ActiveIsHeard' /\ RecentIsKept' /\ RecentIsMarked'
    BY <1>0, <1>2, <2>6 DEF RunnerInv, ActiveIsHeard, RecentIsKept, RecentIsMarked, IsDone, Marked
  <2>9. PromiseStep
    BY <1>0, <1>2, <2>1, <2>3, <2>4, <2>7, TellKeepsPromise
  <2> QED  BY <2>5, <2>7, <2>8, <2>9 DEF RunnerInv
<1>3. CASE ~IsDone(r) /\ r \in ToSet(marks) /\ Tell(r, "unsent") /\ UNCHANGED active /\ lost' = lost \cup {r}
           /\ marks' = RemoveAt(marks, CHOOSE i \in DOMAIN marks : marks[i] = r)
           /\ callers' = [callers EXCEPT ![r] = @ \ {"made"}]
  <2>1. Marked(r) /\ ~active[r].on
    BY <1>3 DEF RunnerInv, ActiveIsHeard, ToSet, Marked
  <2>2. Forgotten(r) \/ (told[r] \subseteq {"lost"} /\ sent[r] = 0)
    BY <1>3, <2>1, UnknownIsFresh
  <2> DEFINE n == CHOOSE i \in DOMAIN marks : marks[i] = r
  <2>3. n \in DOMAIN marks /\ marks[n] = r /\ marks' = RemoveAt(marks, n)
    BY <1>3, <2>1 DEF Marked
  <2> HIDE DEF n
  <2>4. /\ marks' \in Seq(Run)
        /\ \A i \in DOMAIN marks' : \E j \in DOMAIN marks : marks'[i] = marks[j]
        /\ \A j \in DOMAIN marks : j # n =>
              \E i \in DOMAIN marks' : marks'[i] = marks[j] /\ Len(marks') - i <= Len(marks) - j
    BY <1>1, <2>3, RemoveAtKeeps
  <2>5. told' \in [Run -> SUBSET (Word \cup {"lost"})] /\ \A q \in Run \ {r} : told'[q] = told[q]
    BY <1>0, <1>3 DEF RunnerTypes, Tell, Word
  <2>6. callers' \in [Run -> SUBSET {"made", "joined"}]
        /\ \A q \in Run : "joined" \in callers[q] => "joined" \in callers'[q]
    BY <1>1, <1>3
  <2>7. RunnerTypes' /\ Forgets
    BY <1>0, <1>3, <2>4, <2>5, <2>6, RunnerNumbers DEF RunnerTypes, Forgets
  <2>8. ActiveIsHeard'
    <3>1. \A q \in Run : Marked(q)' => Marked(q)
      BY <2>4 DEF Marked
    <3> QED  BY <1>0, <1>3, <2>6, <3>1 DEF RunnerInv, ActiveIsHeard, IsDone
  <2>9. FreshIsUnsent' /\ RecentIsKept'
    BY <1>0, <1>3, <2>5 DEF RunnerInv, FreshIsUnsent, RecentIsKept
  <2>10. KeptIsTold'
    <3>1. ASSUME NEW j \in DOMAIN done PROVE done[j].run \in Run \ {r}
      BY <1>0, <1>3, KeptIsTyped DEF IsDone
    <3>2. \A q \in Run \ {r} : told'[q] = told[q] /\ (Forgotten(q)' <=> Forgotten(q))
      BY <1>0, <1>3, <2>5 DEF Forgotten
    <3> QED  BY <1>0, <3>1, <3>2 DEF RunnerInv, KeptIsTold
  <2>11. RecentIsMarked'
    <3> SUFFICES ASSUME NEW q \in Run \ lost', age[q] \in 1..Markers
                 PROVE  \E i \in DOMAIN marks' : marks'[i] = q /\ Len(marks') - i < age[q]
      BY <1>0 DEF RecentIsMarked
    <3>1. q # r /\ q \notin lost
      BY <1>3
    <3>2. PICK j \in DOMAIN marks : marks[j] = q /\ Len(marks) - j < age[q]
      BY <3>1 DEF RunnerInv, RecentIsMarked
    <3>3. j # n
      BY <3>1, <3>2, <2>3
    <3>4. PICK i \in DOMAIN marks' : marks'[i] = marks[j] /\ Len(marks') - i <= Len(marks) - j
      BY <3>3, <2>4
    <3>5. i \in Nat /\ j \in Nat /\ Len(marks) \in Nat /\ Len(marks') \in Nat /\ age[q] \in Nat
      BY <1>1, <2>4, RunnerNumbers
    <3>6. Len(marks') - i < age[q]
      BY <3>2, <3>4, <3>5
    <3> QED  BY <3>2, <3>4, <3>6
  <2>12. PromiseStep
    <3>1. "unsent" \in Word /\ (told[r] \subseteq {"lost"} => told[r] \ {"lost"} \subseteq {"unsent"})
      BY DEF Word
    <3> QED  BY <1>0, <1>3, <2>2, <2>7, <3>1, TellKeepsPromise
  <2> QED  BY <2>7, <2>8, <2>9, <2>10, <2>11, <2>12 DEF RunnerInv
<1>4. CASE ~IsDone(r) /\ r \notin ToSet(marks) /\ UNCHANGED <<marks, told, lost>>
           /\ active' = (IF active[r].on THEN active ELSE [active EXCEPT ![r] = [NoRun EXCEPT !.on = TRUE]])
           /\ callers' = [callers EXCEPT ![r] = {"joined"}]
  <2>0. callers' \in [Run -> SUBSET {"made", "joined"}] /\ callers'[r] = {"joined"}
        /\ \A q \in Run : "joined" \in callers[q] => "joined" \in callers'[q]
    BY <1>1, <1>4
  <2>1. CASE active[r].on
    <3>1. active' = active
      BY <1>4, <2>1
    <3> QED  BY <1>0, <1>4, <2>0, <3>1, QuietStep DEF historyVars
  <2>2. CASE ~active[r].on
    <3> DEFINE started == [NoRun EXCEPT !.on = TRUE]
    <3>1. started \in Progress /\ started.on /\ ~started.sent
      BY DEF NoRun, Progress
    <3> HIDE DEF started
    <3>2. active' = [active EXCEPT ![r] = started] /\ active \in [Run -> Progress]
      BY <1>0, <1>4, <2>2 DEF started, RunnerTypes
    <3>3. active' \in [Run -> Progress] /\ active'[r] = started /\ \A q \in Run \ {r} : active'[q] = active[q]
      BY <3>1, <3>2
    <3>4. RunnerTypes' /\ Forgets
      BY <1>0, <1>4, <2>0, <3>3, RunnerNumbers DEF RunnerTypes, Forgets
    <3>5. ActiveIsHeard'
      <4>1. ~Marked(r)
        BY <1>4 DEF ToSet, Marked
      <4> QED  BY <1>0, <1>4, <2>0, <3>3, <4>1 DEF RunnerInv, ActiveIsHeard, IsDone, Marked
    <3>6. FreshIsUnsent'
      BY <1>0, <1>4, <2>2, <3>1, <3>3 DEF RunnerInv, FreshIsUnsent
    <3>7. RecentIsKept' /\ RecentIsMarked' /\ KeptIsTold'
      BY <1>0, <1>4 DEF RunnerInv, RecentIsKept, RecentIsMarked, KeptIsTold, Forgotten
    <3>8. PromiseStep
      BY <1>0, <1>4, <3>4, StutterKeepsPromise
    <3> QED  BY <3>4, <3>5, <3>6, <3>7, <3>8 DEF RunnerInv
  <2> QED  BY <2>1, <2>2
<1> QED  BY <1>2, <1>3, <1>4 DEF RunChatHub

\* A submission: the first of its run, or of one that is forgotten.
LEMMA HubSubmitsStep ==
    ASSUME RunnerInv, NEW r \in Run, HubSubmits(r)
    PROVE  RunnerInv' /\ PromiseStep
<1>0. RunnerTypes /\ UNCHANGED <<done, marks, callers, told, historyVars>>
  BY DEF HubSubmits, RunnerInv
<1>1. active[r].on /\ ~active[r].sent /\ ~IsDone(r)
  BY DEF HubSubmits, RunnerInv, ActiveIsHeard
<1>2. Forgotten(r) \/ (told[r] \subseteq {"lost"} /\ sent[r] = 0)
  BY <1>1, UnknownIsFresh
<1>3. sent' = [sent EXCEPT ![r] = @ + 1] /\ sent \in [Run -> Nat] /\ active \in [Run -> Progress]
  BY <1>0 DEF HubSubmits, RunnerTypes
<1>4. sent' \in [Run -> Nat] /\ sent'[r] = sent[r] + 1 /\ \A q \in Run \ {r} : sent'[q] = sent[q]
  BY <1>3
<1>5. active' \in [Run -> Progress]
      /\ active'[r].on /\ active'[r].sent /\ \A q \in Run \ {r} : active'[q] = active[q]
  BY <1>1, <1>3 DEF HubSubmits, Progress
<1>6. RunnerTypes' /\ Forgets
  BY <1>0, <1>4, <1>5, RunnerNumbers DEF RunnerTypes, Forgets, historyVars
<1>7. ActiveIsHeard'
  BY <1>0, <1>1, <1>5 DEF RunnerInv, ActiveIsHeard, IsDone, Marked
<1>8. FreshIsUnsent'
  <2> SUFFICES ASSUME NEW q \in Run \ lost, since[q] = 0
               PROVE  told[q] \subseteq {"lost"} /\ sent'[q] = IF active'[q].on /\ active'[q].sent THEN 1 ELSE 0
    BY <1>0 DEF FreshIsUnsent, historyVars
  <2>1. told[q] \subseteq {"lost"} /\ sent[q] = IF active[q].on /\ active[q].sent THEN 1 ELSE 0
    BY DEF RunnerInv, FreshIsUnsent
  <2> QED  BY <1>1, <1>4, <1>5, <2>1
<1>9. RecentIsKept' /\ RecentIsMarked'
  BY <1>0 DEF RunnerInv, RecentIsKept, RecentIsMarked, historyVars
<1>10. KeptIsTold'
  <2>1. ASSUME NEW j \in DOMAIN done PROVE done[j].run \in Run \ {r}
    BY <1>0, <1>1, KeptIsTyped DEF IsDone
  <2>2. \A q \in Run : Forgotten(q)' <=> Forgotten(q)
    BY <1>0 DEF Forgotten, historyVars
  <2> QED  BY <1>0, <1>4, <2>1, <2>2 DEF RunnerInv, KeptIsTold
<1>11. PromiseStep
  <2>1. r \in {q \in Run : Forgotten(q)} \/ (sent[r] = 0 /\ [q \in Run |-> told[q] \ {"lost"}][r] = {})
    BY <1>2
  <2>2. [q \in Run |-> told'[q] \ {"lost"}] = [q \in Run |-> told[q] \ {"lost"}]
    BY <1>0
  <2>3. Invocation!Submit(r)
    BY <1>3, <2>1, <2>2 DEF Invocation!Submit
  <2> QED  BY <1>0, <1>6, <2>3, OverGrows DEF PromiseStep, Invocation!InvocationNext
<1> QED  BY <1>6, <1>7, <1>8, <1>9, <1>10, <1>11 DEF RunnerInv

\* A run ends: its outcome is kept, and told to whoever has joined.
LEMMA HubSettlesStep ==
    ASSUME RunnerInv, NEW r \in Run, HubSettles(r)
    PROVE  RunnerInv' /\ PromiseStep
<1>0. RunnerTypes /\ UNCHANGED <<marks, sent, age, lost>> /\ since' = Counted(since, r, Kept)
      /\ callers' = [callers EXCEPT ![r] = @ \ {"joined"}] /\ active' = [active EXCEPT ![r] = NoRun]
  BY DEF HubSettles, RunnerInv
<1>1. active[r].on /\ "joined" \in callers[r] /\ ~IsDone(r) /\ active \in [Run -> Progress]
  BY DEF HubSettles, RunnerInv, RunnerTypes, ActiveIsHeard
<1>2. PICK what \in Word :
        /\ IF active[r].sent THEN what \in {"answer", "maybe"} ELSE what = "unsent"
        /\ done' = Newest(Append(done, [run |-> r, what |-> what]), Kept)
        /\ Tell(r, what)
  BY <1>1 DEF HubSettles, Word
<1>3. Forgotten(r) \/ (told[r] \subseteq {"lost"} /\ ((what = "unsent") <=> (sent[r] = 0)))
  BY <1>1, <1>2, UnknownIsFresh
<1>4. told' \in [Run -> SUBSET (Word \cup {"lost"})] /\ told'[r] = told[r] \cup {what}
      /\ \A q \in Run \ {r} : told'[q] = told[q]
  BY <1>0, <1>2 DEF RunnerTypes, Tell, Word
<1>5. NoRun \in Progress /\ ~NoRun.on
  BY DEF NoRun, Progress
<1>6. active' \in [Run -> Progress] /\ ~active'[r].on /\ \A q \in Run \ {r} : active'[q] = active[q]
  BY <1>0, <1>1, <1>5
<1>7. callers' \in [Run -> SUBSET {"made", "joined"}] /\ \A q \in Run \ {r} : callers'[q] = callers[q]
  BY <1>0 DEF RunnerTypes
<1> DEFINE e == [run |-> r, what |-> what]
<1>8. e \in Entry /\ e.run = r /\ e.what = what
  BY DEF Entry
<1> HIDE DEF e
<1>9. /\ done' \in Seq(Entry)
      /\ \A i \in DOMAIN done' : done'[i] = e \/ \E j \in DOMAIN done : done'[i] = done[j]
      /\ \E i \in DOMAIN done' : done'[i] = e /\ Len(done') - i = 0
      /\ \A j \in DOMAIN done : Len(done) - j + 1 < Kept =>
            \E i \in DOMAIN done' : done'[i] = done[j] /\ Len(done') - i = Len(done) - j + 1
  <2>1. done' = Newest(Append(done, e), Kept) /\ done \in Seq(Entry) /\ Kept \in Nat \ {0}
    BY <1>0, <1>2, RunnerNumbers DEF e, RunnerTypes
  <2>2. e \in Entry
    BY <1>8
  <2> QED  BY <2>1, <2>2, NewestKeeps
<1>10. /\ since' \in [Run -> 0..(Kept + 1)] /\ since'[r] >= 1
       /\ \A q \in Run : since[q] <= since'[q]
       /\ \A q \in Run \ {r} : since[q] = 0 <=> since'[q] = 0
       /\ \A q \in Run : since'[q] \in 1..Kept /\ since[q] # 0 => since[q] \in 1..Kept /\ since'[q] = since[q] + 1
  <2>1. since \in [Run -> 0..(Kept + 1)] /\ Kept \in Nat \ {0} /\ since' = Counted(since, r, Kept)
    BY <1>0, RunnerNumbers DEF RunnerTypes
  <2> QED  BY <2>1, CountedFacts
<1>11. RunnerTypes' /\ Forgets
  BY <1>0, <1>4, <1>6, <1>7, <1>9, <1>10 DEF RunnerTypes, Forgets
<1>12. \A q \in Run : Forgotten(q) => Forgotten(q)'
  BY <1>0, <1>11, OverGrows
<1>13. ActiveIsHeard'
  <2> SUFFICES ASSUME NEW q \in Run, active'[q].on PROVE "joined" \in callers'[q] /\ ~IsDone(q)' /\ ~Marked(q)'
    BY DEF ActiveIsHeard
  <2>1. q # r /\ active[q].on
    BY <1>6
  <2>2. "joined" \in callers[q] /\ ~IsDone(q) /\ ~Marked(q)
    BY <2>1 DEF RunnerInv, ActiveIsHeard
  <2>3. ~IsDone(q)'
    BY <2>1, <2>2, <1>8, <1>9 DEF IsDone
  <2> QED  BY <2>1, <2>2, <2>3, <1>0, <1>7 DEF Marked
<1>14. FreshIsUnsent'
  <2> SUFFICES ASSUME NEW q \in Run \ lost, since'[q] = 0
               PROVE  told'[q] \subseteq {"lost"} /\ sent[q] = IF active'[q].on /\ active'[q].sent THEN 1 ELSE 0
    BY <1>0 DEF FreshIsUnsent
  <2>1. q # r /\ since[q] = 0
    BY <1>10
  <2>2. told[q] \subseteq {"lost"} /\ sent[q] = IF active[q].on /\ active[q].sent THEN 1 ELSE 0
    BY <2>1 DEF RunnerInv, FreshIsUnsent
  <2> QED  BY <2>1, <2>2, <1>4, <1>6
<1>15. RecentIsKept'
  <2> SUFFICES ASSUME NEW q \in Run \ lost, since'[q] \in 1..Kept
               PROVE  \E i \in DOMAIN done' : done'[i].run = q /\ Len(done') - i < since'[q]
    BY <1>0 DEF RecentIsKept
  <2>1. CASE q = r
    <3>1. PICK i \in DOMAIN done' : done'[i] = e /\ Len(done') - i = 0
      BY <1>9
    <3>2. Len(done') - i < since'[q]
      BY <2>1, <3>1, <1>10, RunnerNumbers
    <3> QED  BY <2>1, <3>1, <3>2, <1>8
  <2>2. CASE q # r
    <3>1. since[q] \in 1..Kept /\ since'[q] = since[q] + 1
      BY <2>2, <1>10, RunnerNumbers
    <3>2. PICK j \in DOMAIN done : done[j].run = q /\ Len(done) - j < since[q]
      BY <3>1 DEF RunnerInv, RecentIsKept
    <3>3. Len(done) \in Nat /\ j \in Nat /\ Kept \in Nat
      BY <1>0, RunnerNumbers DEF RunnerTypes
    <3>4. Len(done) - j + 1 < Kept
      BY <3>1, <3>2, <3>3
    <3>5. PICK i \in DOMAIN done' : done'[i] = done[j] /\ Len(done') - i = Len(done) - j + 1
      BY <3>4, <1>9
    <3>6. Len(done') - i < since'[q]
      BY <3>1, <3>2, <3>3, <3>5
    <3> QED  BY <3>2, <3>5, <3>6
  <2> QED  BY <2>1, <2>2
<1>16. RecentIsMarked'
  BY <1>0 DEF RunnerInv, RecentIsMarked
<1>17. KeptIsTold'
  <2> SUFFICES ASSUME NEW i \in DOMAIN done', done'[i].run \notin lost', ~(since'[done'[i].run] > Kept)
               PROVE  /\ told'[done'[i].run] \ {"lost"} = {done'[i].what}
                      /\ (done'[i].what = "unsent") <=> (sent[done'[i].run] = 0)
    BY <1>0 DEF KeptIsTold, Forgotten
  <2>0. \A q \in Run : q \notin lost' /\ ~(since'[q] > Kept) => ~Forgotten(q)
    BY <1>12 DEF Forgotten
  <2>1. CASE done'[i] = e
    <3>1. ~Forgotten(r)
      BY <2>0, <2>1, <1>8
    <3>2. told[r] \subseteq {"lost"} /\ ((what = "unsent") <=> (sent[r] = 0)) /\ what # "lost"
      BY <3>1, <1>3 DEF Word
    <3> QED  BY <2>1, <3>2, <1>4, <1>8
  <2>2. CASE \E j \in DOMAIN done : done'[i] = done[j]
    <3>1. PICK j \in DOMAIN done : done'[i] = done[j]
      BY <2>2
    <3>2. done[j].run \in Run \ {r}
      BY <1>0, <1>1, KeptIsTyped DEF IsDone
    <3>3. ~Forgotten(done[j].run)
      BY <2>0, <3>1, <3>2
    <3> QED  BY <3>1, <3>2, <3>3, <1>4 DEF RunnerInv, KeptIsTold
  <2> QED  BY <2>1, <2>2, <1>9
<1>18. PromiseStep
  <2>1. told[r] \subseteq {"lost"} => told[r] \ {"lost"} \subseteq {what}
    OBVIOUS
  <2> QED  BY <1>0, <1>2, <1>3, <1>11, <2>1, TellKeepsPromise
<1> QED  BY <1>11, <1>13, <1>14, <1>15, <1>16, <1>17, <1>18 DEF RunnerInv

\* A cancellation submits and reports nothing.
LEMMA CancelStep ==
    ASSUME RunnerInv, NEW r \in Run, CancelChatHub(r)
    PROVE  RunnerInv' /\ PromiseStep
<1>0. RunnerTypes /\ UNCHANGED <<done, callers, sent, told, since, lost>>
  BY DEF CancelChatHub, RunnerInv
<1>1. CASE active[r].on /\ active' = [active EXCEPT ![r].abort = TRUE] /\ UNCHANGED <<marks, age>>
  <2>1. active' \in [Run -> Progress]
        /\ \A q \in Run : (active'[q].on <=> active[q].on) /\ (active'[q].sent <=> active[q].sent)
    BY <1>0, <1>1 DEF RunnerTypes, Progress
  <2>2. RunnerTypes' /\ Forgets
    BY <1>0, <1>1, <2>1, RunnerNumbers DEF RunnerTypes, Forgets
  <2>3. ActiveIsHeard' /\ FreshIsUnsent'
    BY <1>0, <1>1, <2>1 DEF RunnerInv, ActiveIsHeard, FreshIsUnsent, IsDone, Marked
  <2>4. RecentIsKept' /\ RecentIsMarked' /\ KeptIsTold'
    BY <1>0, <1>1 DEF RunnerInv, RecentIsKept, RecentIsMarked, KeptIsTold, Forgotten
  <2> QED  BY <1>0, <2>2, <2>3, <2>4, StutterKeepsPromise DEF RunnerInv
<1>2. CASE UNCHANGED <<active, marks, age>>
  BY <1>0, <1>2, QuietStep DEF RunnerTypes, historyVars
<1>3. CASE ~active[r].on /\ marks' = Newest(Append(marks, r), Markers) /\ age' = Counted(age, r, Markers)
           /\ UNCHANGED active
  <2>1. /\ marks' \in Seq(Run)
        /\ \A i \in DOMAIN marks' : marks'[i] = r \/ \E j \in DOMAIN marks : marks'[i] = marks[j]
        /\ \E i \in DOMAIN marks' : marks'[i] = r /\ Len(marks') - i = 0
        /\ \A j \in DOMAIN marks : Len(marks) - j + 1 < Markers =>
              \E i \in DOMAIN marks' : marks'[i] = marks[j] /\ Len(marks') - i = Len(marks) - j + 1
    <3>1. marks \in Seq(Run) /\ Markers \in Nat \ {0}
      BY <1>0, RunnerNumbers DEF RunnerTypes
    <3> QED  BY <1>3, <3>1, NewestKeeps
  <2>2. /\ age' \in [Run -> 0..(Markers + 1)] /\ age'[r] >= 1
        /\ \A q \in Run \ {r} : age[q] = 0 <=> age'[q] = 0
        /\ \A q \in Run : age'[q] \in 1..Markers /\ age[q] # 0 => age[q] \in 1..Markers /\ age'[q] = age[q] + 1
    <3>1. age \in [Run -> 0..(Markers + 1)] /\ Markers \in Nat \ {0} /\ age' = Counted(age, r, Markers)
      BY <1>0, <1>3, RunnerNumbers DEF RunnerTypes
    <3> QED  BY <3>1, CountedFacts
  <2>3. RunnerTypes' /\ Forgets
    <3>1. marks' \in Seq(Run) /\ age' \in [Run -> 0..(Markers + 1)] /\ active' = active
      BY <1>3, <2>1, <2>2
    <3>2. Forgets
      BY <1>0, RunnerNumbers DEF RunnerTypes, Forgets
    <3> QED  BY <1>0, <3>1, <3>2 DEF RunnerTypes
  <2>4. ActiveIsHeard'
    <3>1. \A q \in Run : Marked(q)' => Marked(q) \/ q = r
      BY <2>1 DEF Marked
    <3> QED  BY <1>0, <1>3, <3>1 DEF RunnerInv, ActiveIsHeard, IsDone
  <2>5. FreshIsUnsent' /\ RecentIsKept' /\ KeptIsTold'
    BY <1>0, <1>3 DEF RunnerInv, FreshIsUnsent, RecentIsKept, KeptIsTold, Forgotten
  <2>6. RecentIsMarked'
    <3> SUFFICES ASSUME NEW q \in Run \ lost, age'[q] \in 1..Markers
                 PROVE  \E i \in DOMAIN marks' : marks'[i] = q /\ Len(marks') - i < age'[q]
      BY <1>0 DEF RecentIsMarked
    <3>1. CASE q = r
      <4>1. PICK i \in DOMAIN marks' : marks'[i] = r /\ Len(marks') - i = 0
        BY <2>1
      <4>2. Len(marks') - i < age'[q]
        BY <3>1, <4>1, <2>2, RunnerNumbers
      <4> QED  BY <3>1, <4>1, <4>2
    <3>2. CASE q # r
      <4>1. age[q] \in 1..Markers /\ age'[q] = age[q] + 1
        BY <3>2, <2>2, RunnerNumbers
      <4>2. PICK j \in DOMAIN marks : marks[j] = q /\ Len(marks) - j < age[q]
        BY <4>1 DEF RunnerInv, RecentIsMarked
      <4>3. Len(marks) \in Nat /\ j \in Nat /\ Markers \in Nat
        <5>1. marks \in Seq(Run)
          BY <1>0 DEF RunnerTypes
        <5> QED  BY <5>1, RunnerNumbers
      <4>4. Len(marks) - j + 1 < Markers
        BY <4>1, <4>2, <4>3
      <4>5. PICK i \in DOMAIN marks' : marks'[i] = marks[j] /\ Len(marks') - i = Len(marks) - j + 1
        BY <4>4, <2>1
      <4>6. Len(marks') - i < age'[q]
        BY <4>1, <4>2, <4>3, <4>5
      <4> QED  BY <4>2, <4>5, <4>6
    <3> QED  BY <3>1, <3>2
  <2> QED  BY <1>0, <2>3, <2>4, <2>5, <2>6, StutterKeepsPromise DEF RunnerInv
<1> QED  BY <1>1, <1>2, <1>3 DEF CancelChatHub

\* A reset forgets every run of which anything is known, and nothing else.
LEMMA ResetStep ==
    ASSUME RunnerInv, RunnerReset
    PROVE  RunnerInv' /\ PromiseStep
<1>0. RunnerTypes /\ active' = [r \in Run |-> NoRun] /\ done' = <<>> /\ marks' = <<>>
      /\ UNCHANGED <<sent, since, age>>
      /\ told' = [r \in Run |-> IF callers[r] = {} THEN told[r] ELSE told[r] \cup {"lost"}]
      /\ callers' = [r \in Run |-> {}]
      /\ lost' = lost \cup {r \in Run : active[r].on \/ IsDone(r) \/ r \in ToSet(marks)}
  BY DEF RunnerReset, RunnerInv
<1>1. NoRun \in Progress /\ ~NoRun.on
  BY DEF NoRun, Progress
<1>2. RunnerTypes' /\ Forgets
  <2>1. told' \in [Run -> SUBSET (Word \cup {"lost"})]
    BY <1>0 DEF RunnerTypes
  <2>2. lost' \subseteq Run /\ lost \subseteq lost'
    BY <1>0 DEF RunnerTypes
  <2> QED  BY <1>0, <1>1, <2>1, <2>2, RunnerNumbers DEF RunnerTypes, Forgets
<1>3. ActiveIsHeard' /\ KeptIsTold'
  BY <1>0, <1>1 DEF ActiveIsHeard, KeptIsTold
<1>4. \A r \in Run \ lost' : r \notin lost /\ ~active[r].on /\ ~IsDone(r) /\ ~Marked(r)
  BY <1>0 DEF ToSet, Marked
<1>5. FreshIsUnsent'
  <2> SUFFICES ASSUME NEW r \in Run \ lost', since[r] = 0
               PROVE  told'[r] \subseteq {"lost"} /\ sent[r] = IF active'[r].on /\ active'[r].sent THEN 1 ELSE 0
    BY <1>0 DEF FreshIsUnsent
  <2>1. told[r] \subseteq {"lost"} /\ sent[r] = 0
    BY <1>4 DEF RunnerInv, FreshIsUnsent
  <2>2. ~active'[r].on
    BY <1>0, <1>1
  <2>3. told'[r] \subseteq {"lost"}
    BY <1>0, <2>1
  <2> QED  BY <2>1, <2>2, <2>3
<1>6. RecentIsKept' /\ RecentIsMarked'
  BY <1>0, <1>4 DEF RunnerInv, RecentIsKept, RecentIsMarked, IsDone, Marked
<1>7. [r \in Run |-> told'[r] \ {"lost"}] = [r \in Run |-> told[r] \ {"lost"}]
  BY <1>0
<1> QED  BY <1>0, <1>2, <1>3, <1>5, <1>6, <1>7, StutterKeepsPromise DEF RunnerInv

\* Every step of the runner keeps the invariant and the promise.
LEMMA RunnerSteps ==
    ASSUME RunnerInv, [RunnerNext]_runnerVars
    PROVE  RunnerInv' /\ PromiseStep
<1>1. ASSUME NEW r \in Run, CallRunner(r) \/ Redelivered(r) \/ AskCancel(r) PROVE RunnerInv' /\ PromiseStep
  <2>1. callers' \in [Run -> SUBSET {"made", "joined"}]
        /\ \A q \in Run : "joined" \in callers[q] => "joined" \in callers'[q]
    BY <1>1 DEF CallRunner, Redelivered, AskCancel, RunnerInv, RunnerTypes
  <2> QED  BY <1>1, <2>1, QuietStep DEF CallRunner, Redelivered, AskCancel
<1>2. CASE UNCHANGED runnerVars
  BY <1>2, QuietStep DEF runnerVars, RunnerInv, RunnerTypes
<1> QED
  BY <1>1, <1>2, RunChatHubStep, HubSubmitsStep, HubSettlesStep, CancelStep, ResetStep
  DEF RunnerNext, RunnerWorks

\* Nothing is in memory at the start.
LEMMA RunnerInitInv == RunnerInit => RunnerInv
<1> SUFFICES ASSUME RunnerInit PROVE RunnerInv
  OBVIOUS
<1>1. NoRun \in Progress /\ ~NoRun.on
  BY DEF NoRun, Progress
<1>2. RunnerTypes
  BY <1>1, RunnerNumbers DEF RunnerInit, RunnerTypes
<1>3. ActiveIsHeard /\ FreshIsUnsent /\ KeptIsTold
  BY <1>1 DEF RunnerInit, ActiveIsHeard, FreshIsUnsent, KeptIsTold
<1>4. RecentIsKept /\ RecentIsMarked
  BY DEF RunnerInit, RecentIsKept, RecentIsMarked
<1> QED  BY <1>2, <1>3, <1>4 DEF RunnerInv

\* The runner keeps the promise of ChatInvocation for any number of runs, of
\* repeated calls and of resets, and any sizes of its maps, for every run until
\* Kept further outcomes, a reset or the use of its marker let runChatHub forget it
\* (chat-session.ts: runChatHub, cancelChatHub).
THEOREM RunnerImplementsInvocation == RunnerSpec => RunnerKeepsPromise
<1>1. RunnerInit => RunnerInv
  BY RunnerInitInv
<1>2. RunnerInit => Invocation!InvocationInit
  BY RunnerNumbers DEF RunnerInit, Invocation!InvocationInit, Forgotten
<1>3. RunnerInv /\ [RunnerNext]_runnerVars => RunnerInv' /\ PromiseStep
  BY RunnerSteps
<1> QED
  BY <1>1, <1>2, <1>3, PTL
  DEF RunnerSpec, RunnerKeepsPromise, Invocation!InvocationSpec, PromiseStep

-----------------------------------------------------------------------------
(* Cancellations *)

CancelTypes == cancel \in [Run -> {"no", "asked", "waiting", "cancelled", "queued"}]

\* The outcome of a run whose cancellation is confirmed has been kept once, and a
\* queued one has been marked, unless the record is lost.
CancelledIsSettled ==
    \A r \in Run \ lost :
        /\ cancel[r] = "cancelled" => since[r] >= 1
        /\ cancel[r] = "queued" => age[r] >= 1

CancelInv == CancelTypes /\ CancelledIsSettled

\* No submission of a cancelled run that the runner has to remember.
SentStays ==
    \A r \in Run :
        /\ cancel[r] = "cancelled" => sent'[r] = sent[r] \/ Forgotten(r)
        /\ cancel[r] = "queued" => sent'[r] = sent[r] \/ r \in lost \/ age[r] > Markers

\* Steps that confirm or queue nothing.
LEMMA SettledStays ==
    ASSUME RunnerTypes, RunnerTypes', CancelInv, CancelTypes', Forgets,
           \A r \in Run : age[r] >= 1 => age'[r] >= 1,
           \A r \in Run \ lost' : cancel'[r] \in {"cancelled", "queued"} /\ cancel'[r] # cancel[r] =>
              /\ cancel'[r] = "cancelled" => since'[r] >= 1
              /\ cancel'[r] = "queued" => age'[r] >= 1
    PROVE  CancelInv'
<1> SUFFICES ASSUME NEW r \in Run \ lost'
             PROVE  /\ cancel'[r] = "cancelled" => since'[r] >= 1
                    /\ cancel'[r] = "queued" => age'[r] >= 1
  BY DEF CancelInv, CancelledIsSettled
<1>1. r \notin lost /\ since[r] <= since'[r] /\ since[r] \in Nat /\ since'[r] \in Nat
  BY RunnerNumbers DEF RunnerTypes, Forgets
<1>2. since[r] >= 1 => since'[r] >= 1
  BY <1>1
<1> QED  BY <1>1, <1>2 DEF CancelInv, CancelledIsSettled

\* A run in progress is neither confirmed nor queued, unless it is forgotten.
LEMMA ActiveIsWanted ==
    ASSUME RunnerInv, CancelInv, NEW r \in Run, active[r].on
    PROVE  /\ cancel[r] = "cancelled" => Forgotten(r)
           /\ cancel[r] = "queued" => r \in lost \/ age[r] > Markers
<1>1. ~IsDone(r) /\ ~Marked(r)
  BY DEF RunnerInv, ActiveIsHeard
<1>2. ASSUME cancel[r] = "cancelled", ~Forgotten(r) PROVE FALSE
  <2>1. r \notin lost /\ since[r] = 0
    BY <1>1, <1>2, UnknownIsFresh
  <2> QED  BY <1>2, <2>1 DEF CancelInv, CancelledIsSettled
<1>3. ASSUME cancel[r] = "queued", r \notin lost, ~(age[r] > Markers) PROVE FALSE
  <2>1. age[r] \in 1..Markers
    BY <1>3, RunnerNumbers DEF CancelInv, CancelledIsSettled, RunnerInv, RunnerTypes
  <2>2. Marked(r)
    BY <1>3, <2>1 DEF RunnerInv, RecentIsMarked, Marked
  <2> QED  BY <1>1, <2>2
<1> QED  BY <1>2, <1>3

\* Every step of the runner.
LEMMA CancelNext ==
    ASSUME RunnerInv, RunnerInv', CancelInv, [RunnerNext]_runnerVars
    PROVE  CancelInv' /\ SentStays
<1>0. /\ RunnerTypes /\ RunnerTypes' /\ cancel \in [Run -> {"no", "asked", "waiting", "cancelled", "queued"}]
      /\ \A r \in Run : since[r] \in Nat /\ age[r] \in Nat
      /\ since \in [Run -> 0..(Kept + 1)] /\ age \in [Run -> 0..(Markers + 1)]
  BY RunnerNumbers DEF RunnerInv, RunnerTypes, CancelInv, CancelTypes
<1>1. ASSUME NEW r \in Run, HubSettles(r) PROVE CancelInv' /\ SentStays
  <2>1. since' = Counted(since, r, Kept) /\ lost' = lost /\ age' = age /\ sent' = sent
        /\ cancel' = [cancel EXCEPT ![r] = IF @ = "waiting" THEN "cancelled" ELSE @]
    BY <1>1 DEF HubSettles
  <2>2. since'[r] >= 1 /\ Forgets
    BY <1>0, <2>1, RunnerNumbers, CountedFacts DEF Forgets
  <2>3. CancelTypes' /\ \A q \in Run : cancel'[q] # cancel[q] => q = r /\ cancel'[q] = "cancelled"
    BY <1>0, <2>1 DEF CancelTypes
  <2> QED  BY <1>0, <2>1, <2>2, <2>3, SettledStays DEF SentStays
<1>2. ASSUME NEW r \in Run, CancelChatHub(r) PROVE CancelInv' /\ SentStays
  <2>0. UNCHANGED <<since, lost, sent>> /\ Forgets
    BY <1>0, <1>2 DEF CancelChatHub, Forgets
  <2>1. CASE IsDone(r) /\ cancel' = [cancel EXCEPT ![r] = "cancelled"] /\ age' = age
    <3>1. r \notin lost => since[r] >= 1
      <4> SUFFICES ASSUME r \notin lost, since[r] = 0 PROVE FALSE
        BY <1>0
      <4>1. PICK j \in DOMAIN done : done[j].run = r
        BY <2>1 DEF IsDone
      <4>2. ~Forgotten(r)
        BY RunnerNumbers DEF Forgotten
      <4>3. told[r] \subseteq {"lost"} /\ told[r] \ {"lost"} = {done[j].what}
        BY <4>1, <4>2 DEF RunnerInv, FreshIsUnsent, KeptIsTold
      <4> QED  BY <4>3
    <3>2. CancelTypes' /\ \A q \in Run : cancel'[q] # cancel[q] => q = r /\ cancel'[q] = "cancelled"
      BY <1>0, <2>1 DEF CancelTypes
    <3> QED  BY <1>0, <2>0, <2>1, <3>1, <3>2, SettledStays DEF SentStays
  <2>2. CASE cancel' = [cancel EXCEPT ![r] = "waiting"] /\ age' = age
    <3>1. CancelTypes' /\ \A q \in Run : cancel'[q] # cancel[q] => cancel'[q] = "waiting"
      BY <1>0, <2>2 DEF CancelTypes
    <3> QED  BY <1>0, <2>0, <2>2, <3>1, SettledStays DEF SentStays
  <2>3. CASE cancel' = [cancel EXCEPT ![r] = "queued"] /\ age' = Counted(age, r, Markers)
    <3>1. CancelTypes' /\ \A q \in Run : cancel'[q] # cancel[q] => q = r /\ cancel'[q] = "queued"
      BY <1>0, <2>3 DEF CancelTypes
    <3>2. age'[r] >= 1 /\ \A q \in Run : age[q] <= age'[q] /\ age'[q] \in Nat
      BY <1>0, <2>3, RunnerNumbers, CountedFacts
    <3>3. \A q \in Run : age[q] >= 1 => age'[q] >= 1
      BY <1>0, <3>2
    <3> QED  BY <1>0, <2>0, <3>1, <3>2, <3>3, SettledStays DEF SentStays
  <2> QED  BY <1>2, <2>1, <2>2, <2>3 DEF CancelChatHub
<1>3. ASSUME UNCHANGED <<since, age>>, lost \subseteq lost', CancelTypes',
             \A r \in Run : cancel'[r] \in {"cancelled", "queued"} => cancel'[r] = cancel[r]
      PROVE  CancelInv'
  BY <1>0, <1>3, SettledStays DEF Forgets
<1>4. ASSUME NEW r \in Run, HubSubmits(r) PROVE CancelInv' /\ SentStays
  <2>1. CancelInv'
    BY <1>0, <1>3, <1>4 DEF HubSubmits, historyVars, CancelTypes
  <2>2. active[r].on /\ sent' = [sent EXCEPT ![r] = @ + 1]
    BY <1>4 DEF HubSubmits
  <2>3. \A q \in Run \ {r} : sent'[q] = sent[q]
    BY <1>0, <2>2 DEF RunnerTypes
  <2> QED  BY <2>1, <2>2, <2>3, ActiveIsWanted DEF SentStays
<1>5. ASSUME NEW r \in Run, RunChatHub(r) \/ CallRunner(r) \/ Redelivered(r) \/ AskCancel(r)
      PROVE  CancelInv' /\ SentStays
  <2>1. sent' = sent /\ UNCHANGED <<since, age>> /\ lost \subseteq lost'
    BY <1>5 DEF RunChatHub, CallRunner, Redelivered, AskCancel, historyVars
  <2>2. cancel' = cancel \/ cancel' = [cancel EXCEPT ![r] = "asked"]
    BY <1>5 DEF RunChatHub, CallRunner, Redelivered, AskCancel
  <2>3. CancelTypes' /\ \A q \in Run : cancel'[q] \in {"cancelled", "queued"} => cancel'[q] = cancel[q]
    BY <1>0, <2>2 DEF CancelTypes
  <2> QED  BY <2>1, <2>3, <1>3 DEF SentStays
<1>6. CASE RunnerReset
  <2>1. CancelTypes' /\ \A q \in Run : cancel'[q] \in {"cancelled", "queued"} => cancel'[q] = cancel[q]
    BY <1>0, <1>6 DEF RunnerReset, CancelTypes
  <2> QED  BY <1>3, <1>6, <2>1 DEF RunnerReset, SentStays
<1>7. CASE UNCHANGED runnerVars
  BY <1>0, <1>3, <1>7 DEF runnerVars, historyVars, CancelTypes, SentStays
<1> QED  BY <1>1, <1>2, <1>4, <1>5, <1>6, <1>7 DEF RunnerNext, RunnerWorks

\* A cancellation that has been confirmed or queued is final, for any number of runs,
\* repeated calls and resets, and any sizes of the maps: a confirmed one until the run
\* is forgotten, a queued one until its marker is used up, lost with a reset or pushed
\* out by Markers younger ones (chat-session.ts: cancelChatHub, runChatHub).
THEOREM CancelledTheorem == RunnerSpec => CancelledStaysDown
<1>1. RunnerInit => RunnerInv
  BY RunnerInitInv
<1>2. RunnerInit => CancelInv
  BY DEF RunnerInit, CancelInv, CancelTypes, CancelledIsSettled
<1>3. RunnerInv /\ [RunnerNext]_runnerVars => RunnerInv'
  BY RunnerSteps
<1>4. RunnerInv /\ CancelInv /\ [RunnerNext]_runnerVars => CancelInv'
  BY RunnerSteps, CancelNext
<1>5. RunnerInv /\ CancelInv /\ [RunnerNext]_runnerVars
      => [\A r \in Run :
            /\ cancel[r] = "cancelled" => sent'[r] = sent[r] \/ Forgotten(r)
            /\ cancel[r] = "queued" => sent'[r] = sent[r] \/ r \in lost \/ age[r] > Markers]_runnerVars
  BY RunnerSteps, CancelNext DEF SentStays
<1> QED  BY <1>1, <1>2, <1>3, <1>4, <1>5, PTL DEF RunnerSpec, CancelledStaysDown
=============================================================================
