---------------------------- MODULE ResponseProofs ----------------------------
(***************************************************************************)
(* What outlives a response, for every behaviour: the delivery of its last *)
(* event, its alias and the registry of aliases, and the cold archive of   *)
(* its conversation.                                                       *)
(*                                                                         *)
(* TerminalDelivery: however the two pumps, the cancel callbacks and the   *)
(* calls to the alias object interleave, a completion that the client has  *)
(* heard is resumable, is the only outcome it hears, and no alias of a     *)
(* committed turn is revoked.                                              *)
(* The inner stream and what the client has heard take only a few values,  *)
(* which are named, so that the provers treat them as an enumeration and   *)
(* never as sequences (Events, Distinct).  Each method of the shared       *)
(* ResponsesTerminalDelivery gets a law: what it may change, field by      *)
(* field.  The invariant then follows action by action.                    *)
(*                                                                         *)
(* R2Archive: a pending write is younger than the row it copies, so only   *)
(* the clear of a branch ever waits, and a branch is never acquired again. *)
(*                                                                         *)
(* ResponseAlias: what is visible is listed, and the registry is within    *)
(* its quotas but for the registration that holds its lock.  That the      *)
(* victims of a registration are enough is a fact about the newest k       *)
(* members of a set (Newest), which the archive's outbox uses too.         *)
(***************************************************************************)
EXTENDS TerminalDelivery, ResponseAlias, R2Archive, SequenceTheorems, FiniteSetTheorems,
        WellFoundedInduction, TLAPS

OnlyCompleted == <<"completed">>
OnlyEnd == <<"end">>
OnlyFailed == <<"failed">>
CompletedEnd == <<"completed", "end">>
FailedEnd == <<"failed", "end">>
CompletedFailedEnd == <<"completed", "failed", "end">>

(* Appending to a sequence of one element. *)
LEMMA Pair ==
    ASSUME NEW a, NEW b
    PROVE  Append(<<a>>, b) = <<a, b>>
  <1> DEFINE S == {a, b}
             s == Append(<<a>>, b)
             t == <<a, b>>
  <1>1. <<a>> \in Seq(S) /\ t \in Seq(S) /\ s \in Seq(S) OBVIOUS
  <1>2. Len(<<a>>) = 1 OBVIOUS
  <1>3. Len(s) = 2 BY <1>1, <1>2
  <1>4. Len(t) = 2 OBVIOUS
  <1>5. s[1] = a /\ s[2] = b BY <1>1, <1>2
  <1>6. t[1] = a /\ t[2] = b OBVIOUS
  <1> HIDE DEF s, t
  <1>7. \A i \in 1..Len(s) : s[i] = t[i] BY <1>3, <1>4, <1>5, <1>6
  <1> QED BY <1>1, <1>3, <1>4, <1>7, SeqEqual DEF s, t

(* Appending to a sequence of two elements. *)
LEMMA Triple ==
    ASSUME NEW a, NEW b, NEW c
    PROVE  Append(<<a, b>>, c) = <<a, b, c>>
  <1> DEFINE S == {a, b, c}
             s == Append(<<a, b>>, c)
             t == <<a, b, c>>
  <1>1. <<a, b>> \in Seq(S) /\ t \in Seq(S) /\ s \in Seq(S) OBVIOUS
  <1>2. Len(<<a, b>>) = 2 OBVIOUS
  <1>3. Len(s) = 3 BY <1>1, <1>2
  <1>4. Len(t) = 3 OBVIOUS
  <1>5. s[1] = a /\ s[2] = b /\ s[3] = c BY <1>1, <1>2
  <1>6. t[1] = a /\ t[2] = b /\ t[3] = c OBVIOUS
  <1> HIDE DEF s, t
  <1>7. \A i \in 1..Len(s) : s[i] = t[i] BY <1>3, <1>4, <1>5, <1>6
  <1> QED BY <1>1, <1>3, <1>4, <1>7, SeqEqual DEF s, t

(* What sending and reading do to the named streams. *)
LEMMA Events ==
    /\ Append(<<>>, "completed") = OnlyCompleted /\ Append(<<>>, "failed") = OnlyFailed
    /\ <<>> \o <<"failed">> \o <<"end">> = FailedEnd /\ <<>> \o <<>> \o <<"end">> = OnlyEnd
    /\ OnlyCompleted \o <<>> \o <<"end">> = CompletedEnd
    /\ OnlyCompleted \o <<"failed">> \o <<"end">> = CompletedFailedEnd
    /\ Tail(OnlyCompleted) = <<>> /\ Tail(OnlyEnd) = <<>>
    /\ Tail(CompletedEnd) = OnlyEnd /\ Tail(FailedEnd) = OnlyEnd /\ Tail(CompletedFailedEnd) = FailedEnd
    /\ Head(OnlyCompleted) = "completed" /\ Head(OnlyEnd) = "end" /\ Head(CompletedEnd) = "completed"
    /\ Head(FailedEnd) = "failed" /\ Head(CompletedFailedEnd) = "completed"
  <1>1. Append(<<>>, "completed") = OnlyCompleted BY DEF OnlyCompleted
  <1>2. Append(<<>>, "failed") = OnlyFailed BY DEF OnlyFailed
  <1>3. <<>> \o <<"failed">> \o <<"end">> = FailedEnd
    <2>1. Append(OnlyFailed, "end") = FailedEnd BY Pair DEF OnlyFailed, FailedEnd
    <2>2. OnlyFailed \in Seq({"failed"}) BY DEF OnlyFailed
    <2>3. Append(OnlyFailed, "end") = OnlyFailed \o <<"end">> BY <2>2, OnlyFailed \in Seq({"failed", "end"}),
       AppendIsConcat DEF OnlyFailed
    <2>4. <<>> \o OnlyFailed = OnlyFailed BY <2>2, ConcatEmptySeq
    <2> QED BY <2>1, <2>3, <2>4 DEF OnlyFailed
  <1>4. <<>> \o <<>> \o <<"end">> = OnlyEnd BY DEF OnlyEnd
  <1>5. OnlyCompleted \o <<>> \o <<"end">> = CompletedEnd
    <2>1. Append(OnlyCompleted, "end") = CompletedEnd BY Pair DEF OnlyCompleted, CompletedEnd
    <2>2. OnlyCompleted \in Seq({"completed", "end"}) BY DEF OnlyCompleted
    <2>3. Append(OnlyCompleted, "end") = OnlyCompleted \o <<"end">> BY <2>2, AppendIsConcat
    <2>4. OnlyCompleted \o <<>> = OnlyCompleted BY <2>2, ConcatEmptySeq
    <2> QED BY <2>1, <2>3, <2>4
  <1>6. OnlyCompleted \o <<"failed">> \o <<"end">> = CompletedFailedEnd
    <2> DEFINE CF == <<"completed", "failed">>
    <2>1. Append(OnlyCompleted, "failed") = CF /\ Append(CF, "end") = CompletedFailedEnd BY Pair, Triple DEF
       OnlyCompleted, CompletedFailedEnd
    <2>2. OnlyCompleted \in Seq({"completed", "failed", "end"}) /\ CF \in Seq({"completed", "failed", "end"}) BY
       DEF OnlyCompleted
    <2>3. Append(OnlyCompleted, "failed") = OnlyCompleted \o <<"failed">> /\ Append(CF, "end") = CF \o <<"end">>
       BY <2>2, AppendIsConcat
    <2> QED BY <2>1, <2>3
  <1>7. Tail(OnlyCompleted) = <<>> BY DEF OnlyCompleted
  <1>8. Tail(OnlyEnd) = <<>> BY DEF OnlyEnd
  <1>9. Tail(CompletedEnd) = OnlyEnd BY DEF CompletedEnd, OnlyEnd
  <1>10. Tail(FailedEnd) = OnlyEnd BY DEF FailedEnd, OnlyEnd
  <1>11. Tail(CompletedFailedEnd) = FailedEnd BY DEF FailedEnd, CompletedFailedEnd
  <1>12. /\ Head(OnlyCompleted) = "completed" /\ Head(OnlyEnd) = "end" /\ Head(CompletedEnd) = "completed"
         /\ Head(FailedEnd) = "failed" /\ Head(CompletedFailedEnd) = "completed"
    BY DEF OnlyCompleted, OnlyEnd, CompletedEnd, FailedEnd, CompletedFailedEnd
  <1> QED BY <1>1, <1>2, <1>3, <1>4, <1>5, <1>6, <1>7, <1>8, <1>9, <1>10, <1>11, <1>12

(* The named streams differ. *)
LEMMA Distinct ==
    /\ OnlyCompleted # <<>> /\ OnlyEnd # <<>> /\ CompletedEnd # <<>>
    /\ FailedEnd # <<>> /\ CompletedFailedEnd # <<>> /\ OnlyFailed # <<>>
    /\ OnlyCompleted # OnlyEnd /\ OnlyCompleted # CompletedEnd
    /\ OnlyCompleted # FailedEnd /\ OnlyCompleted # CompletedFailedEnd /\ OnlyCompleted # OnlyFailed
    /\ OnlyEnd # CompletedEnd /\ OnlyEnd # FailedEnd /\ OnlyEnd # CompletedFailedEnd
    /\ CompletedEnd # FailedEnd /\ CompletedEnd # CompletedFailedEnd /\ FailedEnd # CompletedFailedEnd
  BY DEF OnlyCompleted, OnlyEnd, CompletedEnd, FailedEnd, CompletedFailedEnd, OnlyFailed

(* Settled (cancel and failDelivery): it publishes a committed alias, and revokes none. *)
LEMMA SettledEffect ==
    ASSUME NEW x \in Delivery, ~x.revoked, x.alias => x.committed, NEW y, y = Settled(x)
    PROVE  /\ y \in Delivery /\ y.owner = x.owner /\ y.told = x.told /\ y.alias = x.alias
           /\ y.committed = x.committed /\ y.delivered = x.delivered /\ ~y.revoked
           /\ y.publish = x.publish \/ (x.publish = "none" /\ x.alias /\ y.publish = "pending")
  BY DEF Settled, Publishing, Delivery

(* Failed: the delivery is told no unless it was told before. *)
LEMMA FailedEffect ==
    ASSUME NEW x \in Delivery, ~x.revoked, x.alias => x.committed, NEW y, y = Failed(x)
    PROVE  /\ y \in Delivery /\ y.owner = x.owner /\ y.alias = x.alias
           /\ y.told = IF x.told = "open" THEN "no" ELSE x.told
           /\ y.committed = x.committed /\ y.delivered = x.delivered /\ ~y.revoked
           /\ y.publish = x.publish \/ (x.publish = "none" /\ x.alias /\ y.publish = "pending")
  <1> DEFINE z == [x EXCEPT !.cancelled = TRUE, !.told = IF @ = "open" THEN "no" ELSE @]
  <1>1. /\ z \in Delivery /\ z.owner = x.owner /\ z.alias = x.alias
        /\ z.told = IF x.told = "open" THEN "no" ELSE x.told
        /\ z.committed = x.committed /\ z.delivered = x.delivered /\ ~z.revoked /\ z.publish = x.publish
    BY DEF Delivery
  <1>2. y = Settled(z)
    BY DEF Failed
  <1> HIDE DEF z
  <1> QED BY <1>1, <1>2, SettledEffect

(* Cancelled: as Failed, and an unclaimed delivery is owned by nobody. *)
LEMMA CancelledEffect ==
    ASSUME NEW x \in Delivery, ~x.revoked, x.alias => x.committed,
           x.delivered => x.told # "open", NEW y, y = Cancelled(x)
    PROVE  /\ y \in Delivery /\ y.alias = x.alias
           /\ y.owner = x.owner \/ (x.owner = "none" /\ y.owner = "cancelled")
           /\ x.told = "open" => y.owner # "none"
           /\ y.told = IF x.told = "open" THEN "no" ELSE x.told
           /\ y.committed = x.committed /\ y.delivered = x.delivered /\ ~y.revoked
           /\ y.publish = x.publish \/ (x.publish = "none" /\ x.alias /\ y.publish = "pending")
  <1>1. CASE x.delivered
    BY <1>1 DEF Cancelled
  <1>2. CASE ~x.delivered
    <2> DEFINE z == [x EXCEPT !.owner = IF @ = "none" THEN "cancelled" ELSE @]
    <2>1. /\ z \in Delivery /\ z.alias = x.alias /\ z.told = x.told /\ z.committed = x.committed
          /\ z.delivered = x.delivered /\ ~z.revoked /\ z.publish = x.publish
          /\ z.owner # "none"
          /\ z.owner = x.owner \/ (x.owner = "none" /\ z.owner = "cancelled")
      BY DEF Delivery
    <2>2. y = Failed(z)
      BY <1>2 DEF Cancelled
    <2> HIDE DEF z
    <2> QED BY <2>1, <2>2, FailedEffect
  <1> QED BY <1>1, <1>2

\* The pump before the alias is staged, and after its last word.
Phase1 == {"off", "turn", "mark", "seed", "stage"}
Phase3 == {"await", "finish", "over"}

\* The variables without the two streams, whose possible contents Queue lists.
DeliveryTyped ==
    /\ d \in Delivery /\ row \in {"none", "staged", "visible"}
    /\ pend \in {"running", "stream", "failed"} /\ mode \in {"none", "direct", "bridge", "error"}
    /\ leaving \subseteq {"inner", "bridge"} /\ closed \subseteq {"inner", "bridge"}
    /\ saw \in BOOLEAN /\ abort \in BOOLEAN /\ client \in {"well", "stalled", "gone"}

\* The program counters of the two pumps.
Places ==
    /\ inner \in Phase1 \cup Phase3 \cup {"spub", "events", "deliver", "dpub", "send", "fpub", "quit", "catch"}
    /\ bridge \in {"off", "pending", "read", "pub", "send", "fpub", "final", "over"}

\* Who owns the terminal event, against who answered the client.  The owner is chosen once: direct goes with the
\* stream itself, bridge with the bridge, cancelled with neither, and before the choice the pump has done nothing.
\* Only a stream that was closed has a cancel callback.
Ownership ==
    /\ pend # "stream" => inner = "off"
    /\ mode = "none" => bridge = "off" /\ leaving = {} /\ ~saw /\ d.owner \in {"none", "cancelled"}
    /\ (mode = "none" /\ pend # "stream") => d.owner = "none"
    /\ mode \in {"none", "error"} => got = <<>>
    /\ mode = "direct" <=> d.owner = "direct"
    /\ mode # "bridge" => bridge = "off"
    /\ d.owner = "none" => inner \in {"off", "turn"} /\ d.told = "open"
    /\ d.owner = "bridge" => mode = "bridge" /\ bridge # "pending"
    /\ d.owner # "bridge" => bridge \in {"off", "pending", "over"}
    /\ "bridge" \in closed => mode = "bridge"
    /\ leaving \subseteq closed

\* The alias against the turn.  There is none before the turn is committed, so the delivery never revokes one; it
\* is published only when it is there, and a publish that succeeded has made the row visible.
Aliased ==
    /\ ~d.revoked
    /\ d.delivered => d.told # "open"
    /\ inner \in {"seed", "stage"} => d.committed
    /\ d.alias => d.committed
    /\ inner \in Phase1 => ~d.alias
    /\ inner \in {"spub", "events", "deliver", "dpub", "send", "await", "finish"} => d.alias
    /\ d.publish # "none" => d.alias
    /\ d.publish = "ok" => row = "visible"

\* What the inner stream can hold and the client can have heard.  Nothing precedes the completion, and only the
\* end of the pump follows it.
Queue ==
    /\ q \in {<<>>, OnlyCompleted, CompletedEnd, FailedEnd, OnlyEnd, CompletedFailedEnd}
    /\ got \in {<<>>, OnlyCompleted, OnlyFailed}
    /\ inner \notin (Phase3 \cup {"catch"}) => q = <<>>
    /\ (inner # "over" /\ q # <<>>) => q = OnlyCompleted
    /\ q \in {OnlyCompleted, CompletedEnd, CompletedFailedEnd} => d.alias

\* The client reads the inner stream itself: the completion enters it after the publish, and no failure follows.
Direct ==
    d.owner = "direct" =>
        /\ inner = "send" => d.publish = "ok"
        /\ inner \notin {"finish", "over"} => q = <<>> /\ got = <<>>
        /\ q \in {OnlyCompleted, CompletedEnd} => d.publish = "ok" /\ got = <<>>
        /\ got = OnlyCompleted => d.publish = "ok"
        /\ q = FailedEnd => got = <<>>
        /\ q # CompletedFailedEnd

\* The bridge reads the inner stream.  While the client's stream is open, the bridge has passed on at most one
\* terminal event; the pump behind it waits as long as the completion is under way, is told yes once the client has
\* it, and adds a failure only where none was heard.  (Once the stream is closed nothing reaches the client.)
Bridged ==
    mode = "bridge" =>
        /\ got = OnlyCompleted => d.publish = "ok"
        /\ inner # "send" /\ inner # "dpub"
        /\ bridge = "send" => d.publish = "ok"
        /\ bridge = "pub" => d.alias
        /\ "bridge" \notin closed =>
              /\ saw <=> got # <<>>
              /\ bridge = "pending" => got = <<>>
              /\ bridge \in {"pub", "send"} => got = <<>> /\ inner = "await" /\ d.told = "open" /\ q = <<>>
              /\ (bridge = "read" /\ inner = "await" /\ got = <<>>) => q = OnlyCompleted /\ d.told = "open"
              /\ (bridge = "read" /\ got # <<>>) =>
                     /\ inner \in Phase3 /\ q \in {<<>>, OnlyEnd}
                     /\ inner = "await" => d.told = "yes"
              /\ (bridge \in {"pending", "read"} /\ inner \in Phase1 \cup {"spub", "events", "deliver"}) =>
                     d.told = "open"
              /\ bridge = "read" => q \in {<<>>, OnlyCompleted, FailedEnd, OnlyEnd}
              /\ (bridge = "read" /\ inner = "catch") => q = <<>> /\ ("inner" \in closed \/ got = <<>>)
              /\ (bridge = "read" /\ q = OnlyCompleted) => inner = "await" /\ got = <<>>

\* The inductive invariant.
DeliveryInv == DeliveryTyped /\ Places /\ Ownership /\ Aliased /\ Queue /\ Direct /\ Bridged

\* What a method of the delivery changes, field by field.
CancelLaw ==
    /\ d' \in Delivery /\ d'.alias = d.alias /\ d'.committed = d.committed /\ ~d'.revoked
    /\ d'.delivered = d.delivered
    /\ d'.publish = d.publish \/ (d.publish = "none" /\ d.alias /\ d'.publish = "pending")
    /\ d'.owner = d.owner \/ (d.owner = "none" /\ d'.owner = "cancelled")
    /\ d.told = "open" => d'.owner # "none"
    /\ d'.told = IF d.told = "open" THEN "no" ELSE d.told

FailLaw ==
    /\ d' \in Delivery /\ d'.alias = d.alias /\ d'.committed = d.committed /\ ~d'.revoked
    /\ d'.delivered = d.delivered
    /\ d'.publish = d.publish \/ (d.publish = "none" /\ d.alias /\ d'.publish = "pending")
    /\ d'.owner = d.owner
    /\ d'.told = IF d.told = "open" THEN "no" ELSE d.told

PublishLaw ==
    /\ d' \in Delivery /\ d'.alias = d.alias /\ d'.committed = d.committed /\ ~d'.revoked
    /\ d'.delivered = d.delivered
    /\ d'.publish = IF d.publish = "none" THEN "pending" ELSE d.publish
    /\ d'.owner = d.owner /\ d'.told = d.told

DeliverLaw ==
    /\ d' \in Delivery /\ d'.alias = d.alias /\ d'.committed = d.committed /\ ~d'.revoked
    /\ d'.delivered
    /\ d'.publish = d.publish /\ d'.owner = d.owner
    /\ d'.told = IF d.told = "open" THEN "yes" ELSE d.told

(* The methods obey their laws: cancel(), failDelivery(), publish(), claim(), stage() and the delivery. *)
LEMMA CancelStep == DeliveryInv /\ d' = Cancelled(d) => CancelLaw
  BY CancelledEffect DEF DeliveryInv, DeliveryTyped, Aliased, CancelLaw

(* FailDelivery() marks the delivery as failed and settles the alias. *)
LEMMA FailStep == DeliveryInv /\ d' = Failed(d) => FailLaw
  BY FailedEffect DEF DeliveryInv, DeliveryTyped, Aliased, FailLaw

(* Publish() starts a publication, once. *)
LEMMA PublishStep == DeliveryInv /\ d' = Publishing(d) => PublishLaw
  BY DEF DeliveryInv, DeliveryTyped, Aliased, PublishLaw, Publishing, Delivery

ClaimLaw ==
    /\ d' \in Delivery /\ d'.alias = d.alias /\ d'.committed = d.committed /\ ~d'.revoked
    /\ d'.delivered = d.delivered /\ d'.publish = d.publish /\ d'.told = d.told

StageLaw ==
    /\ d' \in Delivery /\ d'.alias /\ d'.committed /\ ~d'.revoked
    /\ d'.delivered = d.delivered /\ d'.told = d.told /\ d'.owner = d.owner
    /\ d'.publish = d.publish \/ (d.publish = "none" /\ d'.publish = "pending")

(* Claim() chooses the owner. *)
LEMMA ClaimStep ==
    ASSUME DeliveryInv, NEW o \in {"direct", "bridge"}, d' = [d EXCEPT !.owner = o]
    PROVE  ClaimLaw /\ d'.owner = o
  BY DEF DeliveryInv, DeliveryTyped, Aliased, ClaimLaw, Delivery

(* Stage() records the alias, and settles it for a client that has left. *)
LEMMA StageStep ==
    ASSUME DeliveryInv, inner = "stage", NEW x, x = [d EXCEPT !.alias = TRUE], d' = x \/ d' = Settled(x)
    PROVE  StageLaw
  <1>1. /\ x \in Delivery /\ x.alias /\ x.committed /\ ~x.revoked /\ x.delivered = d.delivered
        /\ x.told = d.told /\ x.owner = d.owner /\ x.publish = d.publish
    BY DEF DeliveryInv, DeliveryTyped, Aliased, Delivery
  <1>2. CASE d' = x
    BY <1>1, <1>2 DEF StageLaw
  <1>3. CASE d' = Settled(x)
    BY <1>1, <1>3, SettledEffect DEF StageLaw, Delivery
  <1> QED BY <1>2, <1>3

(* The terminal event was sent. *)
LEMMA DeliverStep == DeliveryInv /\ d' = Delivered(d) => DeliverLaw
  BY DEF DeliveryInv, DeliveryTyped, Aliased, DeliverLaw, Delivered, Delivery

(* ResponsesCore returns: the invariant is kept. *)
LEMMA CoreReturnsKeeps == ASSUME DeliveryInv, CoreReturns PROVE DeliveryInv'
  <1> USE DEF DeliveryInv, DeliveryTyped, Places, Ownership, Aliased, Queue, Direct, Bridged
  <1>1. DeliveryTyped'
    BY Events, Distinct DEF Phase1, Phase3, CoreReturns
  <1>2. Places'
    BY Events, Distinct DEF Phase1, Phase3, CoreReturns
  <1>3. Ownership'
    BY Events, Distinct DEF Phase1, Phase3, CoreReturns
  <1>4. Aliased'
    BY Events, Distinct DEF Phase1, Phase3, CoreReturns
  <1>5. Queue'
    BY Events, Distinct DEF Phase1, Phase3, CoreReturns
  <1>6. Direct'
    BY Events, Distinct DEF Phase1, Phase3, CoreReturns
  <1>7. Bridged'
    BY Events, Distinct DEF Phase1, Phase3, CoreReturns
  <1> QED BY <1>1, <1>2, <1>3, <1>4, <1>5, <1>6, <1>7

(* Claim("direct"): the invariant is kept. *)
LEMMA ClaimDirectKeeps == ASSUME DeliveryInv, ClaimDirect PROVE DeliveryInv'
  <1>0. (d.owner # "none" /\ d' = d) \/ (d.owner = "none" /\ ClaimLaw /\ d'.owner = "direct")
    BY ClaimStep DEF ClaimDirect
  <1> USE DEF DeliveryInv, DeliveryTyped, Places, Ownership, Aliased, Queue, Direct, Bridged
  <1>1. DeliveryTyped'
    BY Events, Distinct, <1>0 DEF Phase1, Phase3, ClaimDirect, ClaimLaw
  <1>2. Places'
    BY Events, Distinct, <1>0 DEF Phase1, Phase3, ClaimDirect, ClaimLaw
  <1>3. Ownership'
    BY Events, Distinct, <1>0 DEF Phase1, Phase3, ClaimDirect, ClaimLaw
  <1>4. Aliased'
    BY Events, Distinct, <1>0 DEF Phase1, Phase3, ClaimDirect, ClaimLaw
  <1>5. Queue'
    BY Events, Distinct, <1>0 DEF Phase1, Phase3, ClaimDirect, ClaimLaw
  <1>6. Direct'
    BY Events, Distinct, <1>0 DEF Phase1, Phase3, ClaimDirect, ClaimLaw
  <1>7. Bridged'
    BY Events, Distinct, <1>0 DEF Phase1, Phase3, ClaimDirect, ClaimLaw
  <1> QED BY <1>1, <1>2, <1>3, <1>4, <1>5, <1>6, <1>7

(* The bridge answers the client: the invariant is kept. *)
LEMMA OpenBridgeKeeps == ASSUME DeliveryInv, OpenBridge PROVE DeliveryInv'
  <1> USE DEF DeliveryInv, DeliveryTyped, Places, Ownership, Aliased, Queue, Direct, Bridged
  <1>1. DeliveryTyped'
    BY Events, Distinct DEF Phase1, Phase3, OpenBridge
  <1>2. Places'
    BY Events, Distinct DEF Phase1, Phase3, OpenBridge
  <1>3. Ownership'
    BY Events, Distinct DEF Phase1, Phase3, OpenBridge
  <1>4. Aliased'
    BY Events, Distinct DEF Phase1, Phase3, OpenBridge
  <1>5. Queue'
    BY Events, Distinct DEF Phase1, Phase3, OpenBridge
  <1>6. Direct'
    BY Events, Distinct DEF Phase1, Phase3, OpenBridge
  <1>7. Bridged'
    BY Events, Distinct DEF Phase1, Phase3, OpenBridge
  <1> QED BY <1>1, <1>2, <1>3, <1>4, <1>5, <1>6, <1>7

(* ResolveAssistantTurn and completeFinalTurn succeed: the invariant is kept. *)
LEMMA TurnCommitsKeeps == ASSUME DeliveryInv, TurnCommits PROVE DeliveryInv'
  <1> USE DEF DeliveryInv, DeliveryTyped, Places, Ownership, Aliased, Queue, Direct, Bridged
  <1>1. DeliveryTyped'
    BY Events, Distinct DEF Phase1, Phase3, TurnCommits
  <1>2. Places'
    BY Events, Distinct DEF Phase1, Phase3, TurnCommits
  <1>3. Ownership'
    BY Events, Distinct DEF Phase1, Phase3, TurnCommits
  <1>4. Aliased'
    BY Events, Distinct DEF Phase1, Phase3, TurnCommits
  <1>5. Queue'
    BY Events, Distinct DEF Phase1, Phase3, TurnCommits
  <1>6. Direct'
    BY Events, Distinct DEF Phase1, Phase3, TurnCommits
  <1>7. Bridged'
    BY Events, Distinct DEF Phase1, Phase3, TurnCommits
  <1> QED BY <1>1, <1>2, <1>3, <1>4, <1>5, <1>6, <1>7

(* The turn throws: the invariant is kept. *)
LEMMA TurnFailsKeeps == ASSUME DeliveryInv, TurnFails PROVE DeliveryInv'
  <1> USE DEF DeliveryInv, DeliveryTyped, Places, Ownership, Aliased, Queue, Direct, Bridged
  <1>1. DeliveryTyped'
    BY Events, Distinct, CancelStep DEF Phase1, Phase3, TurnFails, CancelLaw
  <1>2. Places'
    BY Events, Distinct, CancelStep DEF Phase1, Phase3, TurnFails, CancelLaw
  <1>3. Ownership'
    BY Events, Distinct, CancelStep, SMTT(40) DEF Phase1, Phase3, TurnFails, CancelLaw
  <1>4. Aliased'
    BY Events, Distinct, CancelStep DEF Phase1, Phase3, TurnFails, CancelLaw
  <1>5. Queue'
    BY Events, Distinct, CancelStep DEF Phase1, Phase3, TurnFails, CancelLaw
  <1>6. Direct'
    BY Events, Distinct, CancelStep DEF Phase1, Phase3, TurnFails, CancelLaw
  <1>7. Bridged'
    BY Events, Distinct, CancelStep DEF Phase1, Phase3, TurnFails, CancelLaw
  <1> QED BY <1>1, <1>2, <1>3, <1>4, <1>5, <1>6, <1>7

(* MarkCommitted: the invariant is kept. *)
LEMMA MarkCommittedKeeps == ASSUME DeliveryInv, MarkCommitted PROVE DeliveryInv'
  <1> USE DEF DeliveryInv, DeliveryTyped, Places, Ownership, Aliased, Queue, Direct, Bridged
  <1>1. DeliveryTyped'
    BY Events, Distinct DEF Phase1, Phase3, MarkCommitted, Delivery
  <1>2. Places'
    BY Events, Distinct DEF Phase1, Phase3, MarkCommitted, Delivery
  <1>3. Ownership'
    BY Events, Distinct DEF Phase1, Phase3, MarkCommitted, Delivery
  <1>4. Aliased'
    BY Events, Distinct DEF Phase1, Phase3, MarkCommitted, Delivery
  <1>5. Queue'
    BY Events, Distinct DEF Phase1, Phase3, MarkCommitted, Delivery
  <1>6. Direct'
    BY Events, Distinct DEF Phase1, Phase3, MarkCommitted, Delivery
  <1>7. Bridged'
    BY Events, Distinct DEF Phase1, Phase3, MarkCommitted, Delivery
  <1> QED BY <1>1, <1>2, <1>3, <1>4, <1>5, <1>6, <1>7

(* SeedAliasWithRetry: the invariant is kept. *)
LEMMA SeedAliasKeeps == ASSUME DeliveryInv, SeedAlias PROVE DeliveryInv'
  <1> USE DEF DeliveryInv, DeliveryTyped, Places, Ownership, Aliased, Queue, Direct, Bridged
  <1>1. DeliveryTyped'
    BY Events, Distinct, CancelStep DEF Phase1, Phase3, SeedAlias, CancelLaw
  <1>2. Places'
    BY Events, Distinct, CancelStep DEF Phase1, Phase3, SeedAlias, CancelLaw
  <1>3. Ownership'
    BY Events, Distinct, CancelStep DEF Phase1, Phase3, SeedAlias, CancelLaw
  <1>4. Aliased'
    BY Events, Distinct, CancelStep DEF Phase1, Phase3, SeedAlias, CancelLaw
  <1>5. Queue'
    BY Events, Distinct, CancelStep DEF Phase1, Phase3, SeedAlias, CancelLaw
  <1>6. Direct'
    BY Events, Distinct, CancelStep DEF Phase1, Phase3, SeedAlias, CancelLaw
  <1>7. Bridged'
    BY Events, Distinct, CancelStep DEF Phase1, Phase3, SeedAlias, CancelLaw
  <1> QED BY <1>1, <1>2, <1>3, <1>4, <1>5, <1>6, <1>7

(* Stage(): the invariant is kept. *)
LEMMA StageAliasKeeps == ASSUME DeliveryInv, StageAlias PROVE DeliveryInv'
  <1>0. StageLaw
    BY StageStep DEF StageAlias
  <1> USE DEF DeliveryInv, DeliveryTyped, Places, Ownership, Aliased, Queue, Direct, Bridged
  <1>1. DeliveryTyped'
    BY Events, Distinct, <1>0 DEF Phase1, Phase3, StageAlias, StageLaw
  <1>2. Places'
    BY Events, Distinct, <1>0 DEF Phase1, Phase3, StageAlias, StageLaw
  <1>3. Ownership'
    BY Events, Distinct, <1>0 DEF Phase1, Phase3, StageAlias, StageLaw
  <1>4. Aliased'
    BY Events, Distinct, <1>0 DEF Phase1, Phase3, StageAlias, StageLaw
  <1>5. Queue'
    BY Events, Distinct, <1>0 DEF Phase1, Phase3, StageAlias, StageLaw
  <1>6. Direct'
    BY Events, Distinct, <1>0 DEF Phase1, Phase3, StageAlias, StageLaw
  <1>7. Bridged'
    BY Events, Distinct, <1>0 DEF Phase1, Phase3, StageAlias, StageLaw
  <1> QED BY <1>1, <1>2, <1>3, <1>4, <1>5, <1>6, <1>7

(* The last events: the invariant is kept. *)
LEMMA SendEventsKeeps == ASSUME DeliveryInv, SendEvents PROVE DeliveryInv'
  <1> USE DEF DeliveryInv, DeliveryTyped, Places, Ownership, Aliased, Queue, Direct, Bridged
  <1>1. DeliveryTyped'
    BY Events, Distinct, CancelStep, ZenonT(60) DEF Phase1, Phase3, SendEvents, CancelLaw
  <1>2. Places'
    BY Events, Distinct, CancelStep DEF Phase1, Phase3, SendEvents, CancelLaw
  <1>3. Ownership'
    BY Events, Distinct, CancelStep DEF Phase1, Phase3, SendEvents, CancelLaw
  <1>4. Aliased'
    BY Events, Distinct, CancelStep DEF Phase1, Phase3, SendEvents, CancelLaw
  <1>5. Queue'
    BY Events, Distinct, CancelStep DEF Phase1, Phase3, SendEvents, CancelLaw
  <1>6. Direct'
    BY Events, Distinct, CancelStep DEF Phase1, Phase3, SendEvents, CancelLaw
  <1>7. Bridged'
    BY Events, Distinct, CancelStep DEF Phase1, Phase3, SendEvents, CancelLaw
  <1> QED BY <1>1, <1>2, <1>3, <1>4, <1>5, <1>6, <1>7

(* DeliverInner learns the owner: the invariant is kept. *)
LEMMA DeliverInnerKeeps == ASSUME DeliveryInv, DeliverInner PROVE DeliveryInv'
  <1> USE DEF DeliveryInv, DeliveryTyped, Places, Ownership, Aliased, Queue, Direct, Bridged
  <1>1. DeliveryTyped'
    BY Events, Distinct, CancelStep, FailStep, PublishStep, ZenonT(60) DEF Phase1, Phase3, DeliverInner, InnerSends,
       InnerFails, CancelLaw, FailLaw, PublishLaw
  <1>2. Places'
    BY Events, Distinct, CancelStep, FailStep, PublishStep DEF Phase1, Phase3, DeliverInner, InnerSends,
       InnerFails, CancelLaw, FailLaw, PublishLaw
  <1>3. Ownership'
    BY Events, Distinct, CancelStep, FailStep, PublishStep DEF Phase1, Phase3, DeliverInner, InnerSends,
       InnerFails, CancelLaw, FailLaw, PublishLaw
  <1>4. Aliased'
    BY Events, Distinct, CancelStep, FailStep, PublishStep DEF Phase1, Phase3, DeliverInner, InnerSends,
       InnerFails, CancelLaw, FailLaw, PublishLaw
  <1>5. Queue'
    BY Events, Distinct, CancelStep, FailStep, PublishStep DEF Phase1, Phase3, DeliverInner, InnerSends,
       InnerFails, CancelLaw, FailLaw, PublishLaw
  <1>6. Direct'
    BY Events, Distinct, CancelStep, FailStep, PublishStep DEF Phase1, Phase3, DeliverInner, InnerSends,
       InnerFails, CancelLaw, FailLaw, PublishLaw
  <1>7. Bridged'
    BY Events, Distinct, CancelStep, FailStep, PublishStep DEF Phase1, Phase3, DeliverInner, InnerSends,
       InnerFails, CancelLaw, FailLaw, PublishLaw
  <1> QED BY <1>1, <1>2, <1>3, <1>4, <1>5, <1>6, <1>7

(* Publish() returns to the pump: the invariant is kept. *)
LEMMA PublishReturnsKeeps == ASSUME DeliveryInv, PublishReturns PROVE DeliveryInv'
  <1> USE DEF DeliveryInv, DeliveryTyped, Places, Ownership, Aliased, Queue, Direct, Bridged
  <1>1. DeliveryTyped'
    BY Events, Distinct, CancelStep, ZenonT(60) DEF Phase1, Phase3, PublishReturns, Resumes, CancelLaw
  <1>2. Places'
    BY Events, Distinct, CancelStep DEF Phase1, Phase3, PublishReturns, Resumes, CancelLaw
  <1>3. Ownership'
    BY Events, Distinct, CancelStep DEF Phase1, Phase3, PublishReturns, Resumes, CancelLaw
  <1>4. Aliased'
    BY Events, Distinct, CancelStep DEF Phase1, Phase3, PublishReturns, Resumes, CancelLaw
  <1>5. Queue'
    BY Events, Distinct, CancelStep DEF Phase1, Phase3, PublishReturns, Resumes, CancelLaw
  <1>6. Direct'
    BY Events, Distinct, CancelStep DEF Phase1, Phase3, PublishReturns, Resumes, CancelLaw
  <1>7. Bridged'
    BY Events, Distinct, CancelStep DEF Phase1, Phase3, PublishReturns, Resumes, CancelLaw
  <1> QED BY <1>1, <1>2, <1>3, <1>4, <1>5, <1>6, <1>7

(* Response.completed of a direct stream: the invariant is kept. *)
LEMMA SendCompletedKeeps == ASSUME DeliveryInv, SendCompleted PROVE DeliveryInv'
  <1> USE DEF DeliveryInv, DeliveryTyped, Places, Ownership, Aliased, Queue, Direct, Bridged
  <1>1. DeliveryTyped'
    BY Events, Distinct, FailStep, DeliverStep, ZenonT(60) DEF Phase1, Phase3, SendCompleted, InnerSends, InnerFails,
       FailLaw, DeliverLaw
  <1>2. Places'
    BY Events, Distinct, FailStep, DeliverStep DEF Phase1, Phase3, SendCompleted, InnerSends, InnerFails,
       FailLaw, DeliverLaw
  <1>3. Ownership'
    BY Events, Distinct, FailStep, DeliverStep DEF Phase1, Phase3, SendCompleted, InnerSends, InnerFails,
       FailLaw, DeliverLaw
  <1>4. Aliased'
    BY Events, Distinct, FailStep, DeliverStep DEF Phase1, Phase3, SendCompleted, InnerSends, InnerFails,
       FailLaw, DeliverLaw
  <1>5. Queue'
    BY Events, Distinct, FailStep, DeliverStep DEF Phase1, Phase3, SendCompleted, InnerSends, InnerFails,
       FailLaw, DeliverLaw
  <1>6. Direct'
    BY Events, Distinct, FailStep, DeliverStep DEF Phase1, Phase3, SendCompleted, InnerSends, InnerFails,
       FailLaw, DeliverLaw
  <1>7. Bridged'
    BY Events, Distinct, FailStep, DeliverStep DEF Phase1, Phase3, SendCompleted, InnerSends, InnerFails,
       FailLaw, DeliverLaw
  <1> QED BY <1>1, <1>2, <1>3, <1>4, <1>5, <1>6, <1>7

(* DeliveredPromise settles: the invariant is kept. *)
LEMMA BridgeToldKeeps == ASSUME DeliveryInv, BridgeTold PROVE DeliveryInv'
  <1> USE DEF DeliveryInv, DeliveryTyped, Places, Ownership, Aliased, Queue, Direct, Bridged
  <1>1. DeliveryTyped'
    BY Events, Distinct, CancelStep, ZenonT(60) DEF Phase1, Phase3, BridgeTold, CancelLaw
  <1>2. Places'
    BY Events, Distinct, CancelStep DEF Phase1, Phase3, BridgeTold, CancelLaw
  <1>3. Ownership'
    BY Events, Distinct, CancelStep DEF Phase1, Phase3, BridgeTold, CancelLaw
  <1>4. Aliased'
    BY Events, Distinct, CancelStep DEF Phase1, Phase3, BridgeTold, CancelLaw
  <1>5. Queue'
    BY Events, Distinct, CancelStep DEF Phase1, Phase3, BridgeTold, CancelLaw
  <1>6. Direct'
    BY Events, Distinct, CancelStep DEF Phase1, Phase3, BridgeTold, CancelLaw
  <1>7. Bridged'
    BY Events, Distinct, CancelStep DEF Phase1, Phase3, BridgeTold, CancelLaw
  <1> QED BY <1>1, <1>2, <1>3, <1>4, <1>5, <1>6, <1>7

(* The catch and finally blocks of the pump: the invariant is kept. *)
LEMMA PumpEndsKeeps == ASSUME DeliveryInv, PumpEnds PROVE DeliveryInv'
  <1> USE DEF DeliveryInv, DeliveryTyped, Places, Ownership, Aliased, Queue, Direct, Bridged
  <1>1. DeliveryTyped'
    BY Events, Distinct DEF Phase1, Phase3, PumpEnds, Resumes
  <1>2. Places'
    BY Events, Distinct DEF Phase1, Phase3, PumpEnds, Resumes
  <1>3. Ownership'
    BY Events, Distinct DEF Phase1, Phase3, PumpEnds, Resumes
  <1>4. Aliased'
    BY Events, Distinct DEF Phase1, Phase3, PumpEnds, Resumes
  <1>5. Queue'
    BY Events, Distinct DEF Phase1, Phase3, PumpEnds, Resumes
  <1>6. Direct'
    BY Events, Distinct, SMTT(40) DEF Phase1, Phase3, PumpEnds, Resumes
  <1>7. Bridged'
    BY Events, Distinct DEF Phase1, Phase3, PumpEnds, Resumes
  <1> QED BY <1>1, <1>2, <1>3, <1>4, <1>5, <1>6, <1>7

(* PublishResponseAlias at the alias object: the invariant is kept. *)
LEMMA PublishRunsKeeps == ASSUME DeliveryInv, PublishRuns PROVE DeliveryInv'
  <1> USE DEF DeliveryInv, DeliveryTyped, Places, Ownership, Aliased, Queue, Direct, Bridged
  <1>1. DeliveryTyped'
    <2>1. d' \in Delivery
      BY Events, Distinct, ZenonT(60) DEF Phase1, Phase3, PublishRuns, Delivery
    <2>2. row' \in {"none", "staged", "visible"}
      BY Events, Distinct DEF Phase1, Phase3, PublishRuns, Delivery
    <2>3. pend' \in {"running", "stream", "failed"} /\ mode' \in {"none", "direct", "bridge", "error"}
      BY Events, Distinct DEF Phase1, Phase3, PublishRuns, Delivery
    <2>4. leaving' \subseteq {"inner", "bridge"} /\ closed' \subseteq {"inner", "bridge"}
      BY Events, Distinct DEF Phase1, Phase3, PublishRuns, Delivery
    <2>5. saw' \in BOOLEAN /\ abort' \in BOOLEAN /\ client' \in {"well", "stalled", "gone"}
      BY Events, Distinct DEF Phase1, Phase3, PublishRuns, Delivery
    <2> QED BY <2>1, <2>2, <2>3, <2>4, <2>5 DEF Phase1, Phase3
  <1>2. Places'
    BY Events, Distinct DEF Phase1, Phase3, PublishRuns, Delivery
  <1>3. Ownership'
    BY Events, Distinct DEF Phase1, Phase3, PublishRuns, Delivery
  <1>4. Aliased'
    BY Events, Distinct DEF Phase1, Phase3, PublishRuns, Delivery
  <1>5. Queue'
    BY Events, Distinct DEF Phase1, Phase3, PublishRuns, Delivery
  <1>6. Direct'
    BY Events, Distinct DEF Phase1, Phase3, PublishRuns, Delivery
  <1>7. Bridged'
    BY Events, Distinct DEF Phase1, Phase3, PublishRuns, Delivery
  <1> QED BY <1>1, <1>2, <1>3, <1>4, <1>5, <1>6, <1>7

(* The bridge claims the stream: the invariant is kept. *)
LEMMA BridgeClaimsKeeps == ASSUME DeliveryInv, BridgeClaims PROVE DeliveryInv'
  <1> USE DEF DeliveryInv, DeliveryTyped, Places, Ownership, Aliased, Queue, Direct, Bridged
  <1>1. DeliveryTyped'
    BY Events, Distinct, CancelStep, ZenonT(60) DEF Phase1, Phase3, BridgeClaims, SendFailure, CancelLaw, Delivery
  <1>2. Places'
    BY Events, Distinct, CancelStep DEF Phase1, Phase3, BridgeClaims, SendFailure, CancelLaw, Delivery
  <1>3. Ownership'
    BY Events, Distinct, CancelStep DEF Phase1, Phase3, BridgeClaims, SendFailure, CancelLaw, Delivery
  <1>4. Aliased'
    BY Events, Distinct, CancelStep, ZenonT(60) DEF Phase1, Phase3, BridgeClaims, SendFailure, CancelLaw, Delivery
  <1>5. Queue'
    BY Events, Distinct, CancelStep, SMTT(40) DEF Phase1, Phase3, BridgeClaims, SendFailure, CancelLaw, Delivery
  <1>6. Direct'
    BY Events, Distinct, CancelStep DEF Phase1, Phase3, BridgeClaims, SendFailure, CancelLaw, Delivery
  <1>7. Bridged'
    BY Events, Distinct, CancelStep DEF Phase1, Phase3, BridgeClaims, SendFailure, CancelLaw, Delivery
  <1> QED BY <1>1, <1>2, <1>3, <1>4, <1>5, <1>6, <1>7

(* The bridge reads an event: the invariant is kept. *)
LEMMA BridgeReadsKeeps == ASSUME DeliveryInv, BridgeReads PROVE DeliveryInv'
  <1> USE DEF DeliveryInv, DeliveryTyped, Places, Ownership, Aliased, Queue, Direct, Bridged
  <1>1. DeliveryTyped'
    BY Events, Distinct, CancelStep, PublishStep, ZenonT(60) DEF Phase1, Phase3, BridgeReads, BridgeSends, BridgeFails,
       SendFailure, ToFinally, CancelLaw, PublishLaw
  <1>2. Places'
    BY Events, Distinct, CancelStep, PublishStep DEF Phase1, Phase3, BridgeReads, BridgeSends, BridgeFails,
       SendFailure, ToFinally, CancelLaw, PublishLaw
  <1>3. Ownership'
    BY Events, Distinct, CancelStep, PublishStep DEF Phase1, Phase3, BridgeReads, BridgeSends, BridgeFails,
       SendFailure, ToFinally, CancelLaw, PublishLaw
  <1>4. Aliased'
    BY Events, Distinct, CancelStep, PublishStep, SMTT(40) DEF Phase1, Phase3, BridgeReads, BridgeSends, BridgeFails,
       SendFailure, ToFinally, CancelLaw, PublishLaw
  <1>5. Queue'
    BY Events, Distinct, CancelStep, PublishStep, ZenonT(60) DEF Phase1, Phase3, BridgeReads, BridgeSends, BridgeFails,
       SendFailure, ToFinally, CancelLaw, PublishLaw
  <1>6. Direct'
    BY Events, Distinct, CancelStep, PublishStep DEF Phase1, Phase3, BridgeReads, BridgeSends, BridgeFails,
       SendFailure, ToFinally, CancelLaw, PublishLaw
  <1>7. Bridged'
    BY Events, Distinct, CancelStep, PublishStep, SMTT(40) DEF Phase1, Phase3, BridgeReads, BridgeSends, BridgeFails,
       SendFailure, ToFinally, CancelLaw, PublishLaw
  <1> QED BY <1>1, <1>2, <1>3, <1>4, <1>5, <1>6, <1>7

(* The bridge finds its stream closed: the invariant is kept. *)
LEMMA BridgeStopsKeeps == ASSUME DeliveryInv, BridgeStops PROVE DeliveryInv'
  <1> USE DEF DeliveryInv, DeliveryTyped, Places, Ownership, Aliased, Queue, Direct, Bridged
  <1>1. DeliveryTyped'
    BY Events, Distinct, CancelStep DEF Phase1, Phase3, BridgeStops, ToFinally, CancelLaw
  <1>2. Places'
    BY Events, Distinct, CancelStep DEF Phase1, Phase3, BridgeStops, ToFinally, CancelLaw
  <1>3. Ownership'
    BY Events, Distinct, CancelStep DEF Phase1, Phase3, BridgeStops, ToFinally, CancelLaw
  <1>4. Aliased'
    BY Events, Distinct, CancelStep DEF Phase1, Phase3, BridgeStops, ToFinally, CancelLaw
  <1>5. Queue'
    BY Events, Distinct, CancelStep DEF Phase1, Phase3, BridgeStops, ToFinally, CancelLaw
  <1>6. Direct'
    BY Events, Distinct, CancelStep DEF Phase1, Phase3, BridgeStops, ToFinally, CancelLaw
  <1>7. Bridged'
    BY Events, Distinct, CancelStep DEF Phase1, Phase3, BridgeStops, ToFinally, CancelLaw
  <1> QED BY <1>1, <1>2, <1>3, <1>4, <1>5, <1>6, <1>7

(* Publish() returns to the bridge: the invariant is kept. *)
LEMMA BridgePublishedKeeps == ASSUME DeliveryInv, BridgePublished PROVE DeliveryInv'
  <1> USE DEF DeliveryInv, DeliveryTyped, Places, Ownership, Aliased, Queue, Direct, Bridged
  <1>1. DeliveryTyped'
    BY Events, Distinct, CancelStep, ZenonT(60) DEF Phase1, Phase3, BridgePublished, Resumes, SendFailure, ToFinally, CancelLaw
  <1>2. Places'
    BY Events, Distinct, CancelStep DEF Phase1, Phase3, BridgePublished, Resumes, SendFailure, ToFinally, CancelLaw
  <1>3. Ownership'
    BY Events, Distinct, CancelStep DEF Phase1, Phase3, BridgePublished, Resumes, SendFailure, ToFinally, CancelLaw
  <1>4. Aliased'
    BY Events, Distinct, CancelStep DEF Phase1, Phase3, BridgePublished, Resumes, SendFailure, ToFinally, CancelLaw
  <1>5. Queue'
    BY Events, Distinct, CancelStep DEF Phase1, Phase3, BridgePublished, Resumes, SendFailure, ToFinally, CancelLaw
  <1>6. Direct'
    BY Events, Distinct, CancelStep DEF Phase1, Phase3, BridgePublished, Resumes, SendFailure, ToFinally, CancelLaw
  <1>7. Bridged'
    BY Events, Distinct, CancelStep DEF Phase1, Phase3, BridgePublished, Resumes, SendFailure, ToFinally, CancelLaw
  <1> QED BY <1>1, <1>2, <1>3, <1>4, <1>5, <1>6, <1>7

(* Response.completed of the bridge: the invariant is kept. *)
LEMMA BridgeSendsCompletedKeeps == ASSUME DeliveryInv, BridgeSendsCompleted PROVE DeliveryInv'
  <1> USE DEF DeliveryInv, DeliveryTyped, Places, Ownership, Aliased, Queue, Direct, Bridged
  <1>1. DeliveryTyped'
    BY Events, Distinct, FailStep, DeliverStep DEF Phase1, Phase3, BridgeSendsCompleted, BridgeSends,
       BridgeFails, FailLaw, DeliverLaw
  <1>2. Places'
    BY Events, Distinct, FailStep, DeliverStep DEF Phase1, Phase3, BridgeSendsCompleted, BridgeSends,
       BridgeFails, FailLaw, DeliverLaw
  <1>3. Ownership'
    BY Events, Distinct, FailStep, DeliverStep DEF Phase1, Phase3, BridgeSendsCompleted, BridgeSends,
       BridgeFails, FailLaw, DeliverLaw
  <1>4. Aliased'
    BY Events, Distinct, FailStep, DeliverStep DEF Phase1, Phase3, BridgeSendsCompleted, BridgeSends,
       BridgeFails, FailLaw, DeliverLaw
  <1>5. Queue'
    BY Events, Distinct, FailStep, DeliverStep DEF Phase1, Phase3, BridgeSendsCompleted, BridgeSends,
       BridgeFails, FailLaw, DeliverLaw
  <1>6. Direct'
    BY Events, Distinct, FailStep, DeliverStep DEF Phase1, Phase3, BridgeSendsCompleted, BridgeSends,
       BridgeFails, FailLaw, DeliverLaw
  <1>7. Bridged'
    BY Events, Distinct, FailStep, DeliverStep DEF Phase1, Phase3, BridgeSendsCompleted, BridgeSends,
       BridgeFails, FailLaw, DeliverLaw
  <1> QED BY <1>1, <1>2, <1>3, <1>4, <1>5, <1>6, <1>7

(* The finally block of the bridge: the invariant is kept. *)
LEMMA BridgeEndsKeeps == ASSUME DeliveryInv, BridgeEnds PROVE DeliveryInv'
  <1> USE DEF DeliveryInv, DeliveryTyped, Places, Ownership, Aliased, Queue, Direct, Bridged
  <1>1. DeliveryTyped'
    <2>1. d' \in Delivery
      BY Events, Distinct, CancelStep DEF Phase1, Phase3, BridgeEnds, Resumes, ToFinally, CancelLaw
    <2>2. row' \in {"none", "staged", "visible"}
      BY Events, Distinct, CancelStep DEF Phase1, Phase3, BridgeEnds, Resumes, ToFinally, CancelLaw
    <2>3. pend' \in {"running", "stream", "failed"} /\ mode' \in {"none", "direct", "bridge", "error"}
      BY Events, Distinct, CancelStep DEF Phase1, Phase3, BridgeEnds, Resumes, ToFinally, CancelLaw
    <2>4. leaving' \subseteq {"inner", "bridge"} /\ closed' \subseteq {"inner", "bridge"}
      BY DEF BridgeEnds
    <2>5. saw' \in BOOLEAN /\ abort' \in BOOLEAN /\ client' \in {"well", "stalled", "gone"}
      BY Events, Distinct, CancelStep DEF Phase1, Phase3, BridgeEnds, Resumes, ToFinally, CancelLaw
    <2> QED BY <2>1, <2>2, <2>3, <2>4, <2>5 DEF Phase1, Phase3
  <1>2. Places'
    BY Events, Distinct, CancelStep DEF Phase1, Phase3, BridgeEnds, Resumes, ToFinally, CancelLaw
  <1>3. Ownership'
    BY Events, Distinct, CancelStep DEF Phase1, Phase3, BridgeEnds, Resumes, ToFinally, CancelLaw
  <1>4. Aliased'
    BY Events, Distinct, CancelStep, SMTT(40) DEF Phase1, Phase3, BridgeEnds, Resumes, ToFinally, CancelLaw
  <1>5. Queue'
    BY Events, Distinct, CancelStep DEF Phase1, Phase3, BridgeEnds, Resumes, ToFinally, CancelLaw
  <1>6. Direct'
    BY Events, Distinct, CancelStep DEF Phase1, Phase3, BridgeEnds, Resumes, ToFinally, CancelLaw
  <1>7. Bridged'
    BY Events, Distinct, CancelStep DEF Phase1, Phase3, BridgeEnds, Resumes, ToFinally, CancelLaw
  <1> QED BY <1>1, <1>2, <1>3, <1>4, <1>5, <1>6, <1>7

(* The client reads: the invariant is kept. *)
LEMMA ClientReadsKeeps == ASSUME DeliveryInv, ClientReads PROVE DeliveryInv'
  <1> USE DEF DeliveryInv, DeliveryTyped, Places, Ownership, Aliased, Queue, Direct, Bridged
  <1>1. DeliveryTyped'
    BY Events, Distinct DEF Phase1, Phase3, ClientReads
  <1>2. Places'
    BY Events, Distinct DEF Phase1, Phase3, ClientReads
  <1>3. Ownership'
    BY Events, Distinct DEF Phase1, Phase3, ClientReads
  <1>4. Aliased'
    BY Events, Distinct DEF Phase1, Phase3, ClientReads
  <1>5. Queue'
    BY Events, Distinct, SMTT(40) DEF Phase1, Phase3, ClientReads
  <1>6. Direct'
    BY Events, Distinct, SMTT(40) DEF Phase1, Phase3, ClientReads
  <1>7. Bridged'
    BY Events, Distinct DEF Phase1, Phase3, ClientReads
  <1> QED BY <1>1, <1>2, <1>3, <1>4, <1>5, <1>6, <1>7

(* The client stops reading: the invariant is kept. *)
LEMMA ClientStallsKeeps == ASSUME DeliveryInv, ClientStalls PROVE DeliveryInv'
  <1> USE DEF DeliveryInv, DeliveryTyped, Places, Ownership, Aliased, Queue, Direct, Bridged
  <1>1. DeliveryTyped'
    BY Events, Distinct DEF Phase1, Phase3, ClientStalls
  <1>2. Places'
    BY Events, Distinct DEF Phase1, Phase3, ClientStalls
  <1>3. Ownership'
    BY Events, Distinct DEF Phase1, Phase3, ClientStalls
  <1>4. Aliased'
    BY Events, Distinct DEF Phase1, Phase3, ClientStalls
  <1>5. Queue'
    BY Events, Distinct DEF Phase1, Phase3, ClientStalls
  <1>6. Direct'
    BY Events, Distinct DEF Phase1, Phase3, ClientStalls
  <1>7. Bridged'
    BY Events, Distinct DEF Phase1, Phase3, ClientStalls
  <1> QED BY <1>1, <1>2, <1>3, <1>4, <1>5, <1>6, <1>7

(* The client leaves: the invariant is kept. *)
LEMMA ClientLeavesKeeps == ASSUME DeliveryInv, ClientLeaves PROVE DeliveryInv'
  <1> USE DEF DeliveryInv, DeliveryTyped, Places, Ownership, Aliased, Queue, Direct, Bridged
  <1>1. DeliveryTyped'
    BY Events, Distinct DEF Phase1, Phase3, ClientLeaves
  <1>2. Places'
    BY Events, Distinct DEF Phase1, Phase3, ClientLeaves
  <1>3. Ownership'
    BY Events, Distinct DEF Phase1, Phase3, ClientLeaves
  <1>4. Aliased'
    BY Events, Distinct DEF Phase1, Phase3, ClientLeaves
  <1>5. Queue'
    BY Events, Distinct DEF Phase1, Phase3, ClientLeaves
  <1>6. Direct'
    BY Events, Distinct DEF Phase1, Phase3, ClientLeaves
  <1>7. Bridged'
    BY Events, Distinct DEF Phase1, Phase3, ClientLeaves
  <1> QED BY <1>1, <1>2, <1>3, <1>4, <1>5, <1>6, <1>7

(* Cancel() of the client's stream: the invariant is kept. *)
LEMMA StreamCancelledKeeps == ASSUME DeliveryInv, StreamCancelled PROVE DeliveryInv'
  <1> USE DEF DeliveryInv, DeliveryTyped, Places, Ownership, Aliased, Queue, Direct, Bridged
  <1>1. DeliveryTyped'
    BY Events, Distinct, CancelStep, ZenonT(60) DEF Phase1, Phase3, StreamCancelled, CancelLaw
  <1>2. Places'
    BY Events, Distinct, CancelStep DEF Phase1, Phase3, StreamCancelled, CancelLaw
  <1>3. Ownership'
    <2>1. leaving' \subseteq closed'
      BY Events, Distinct, CancelStep DEF Phase1, Phase3, StreamCancelled, CancelLaw
    <2>2. /\ pend' # "stream" => inner' = "off"
          /\ mode' = "none" => bridge' = "off" /\ leaving' = {} /\ ~saw' /\ d'.owner \in {"none", "cancelled"}
          /\ (mode' = "none" /\ pend' # "stream") => d'.owner = "none"
          /\ mode' \in {"none", "error"} => got' = <<>>
          /\ (mode' = "direct" <=> d'.owner = "direct")
          /\ mode' # "bridge" => bridge' = "off"
      BY Events, Distinct, CancelStep, SMTT(40) DEF Phase1, Phase3, StreamCancelled, CancelLaw
    <2>3. /\ d'.owner = "none" => inner' \in {"off", "turn"} /\ d'.told = "open"
          /\ d'.owner = "bridge" => mode' = "bridge" /\ bridge' # "pending"
          /\ d'.owner # "bridge" => bridge' \in {"off", "pending", "over"}
          /\ "bridge" \in closed' => mode' = "bridge"
      BY Events, Distinct, CancelStep, SMTT(40) DEF Phase1, Phase3, StreamCancelled, CancelLaw
    <2> QED BY <2>1, <2>2, <2>3 DEF Phase1, Phase3
  <1>4. Aliased'
    BY Events, Distinct, CancelStep DEF Phase1, Phase3, StreamCancelled, CancelLaw
  <1>5. Queue'
    BY Events, Distinct, CancelStep DEF Phase1, Phase3, StreamCancelled, CancelLaw
  <1>6. Direct'
    BY Events, Distinct, CancelStep DEF Phase1, Phase3, StreamCancelled, CancelLaw
  <1>7. Bridged'
    BY Events, Distinct, CancelStep DEF Phase1, Phase3, StreamCancelled, CancelLaw
  <1> QED BY <1>1, <1>2, <1>3, <1>4, <1>5, <1>6, <1>7

(* A cancel callback returns: the invariant is kept. *)
LEMMA CancelReturnsKeeps == ASSUME DeliveryInv, CancelReturns PROVE DeliveryInv'
  <1> USE DEF DeliveryInv, DeliveryTyped, Places, Ownership, Aliased, Queue, Direct, Bridged
  <1>1. DeliveryTyped'
    <2>1. d' \in Delivery
      BY Events, Distinct, CancelStep DEF Phase1, Phase3, CancelReturns, Resumes, CancelLaw
    <2>2. row' \in {"none", "staged", "visible"}
      BY Events, Distinct, CancelStep DEF Phase1, Phase3, CancelReturns, Resumes, CancelLaw
    <2>3. pend' \in {"running", "stream", "failed"} /\ mode' \in {"none", "direct", "bridge", "error"}
      BY Events, Distinct, CancelStep DEF Phase1, Phase3, CancelReturns, Resumes, CancelLaw
    <2>4. leaving' \subseteq {"inner", "bridge"} /\ closed' \subseteq {"inner", "bridge"}
      BY Events, Distinct, CancelStep, ZenonT(60) DEF Phase1, Phase3, CancelReturns, Resumes, CancelLaw
    <2>5. saw' \in BOOLEAN /\ abort' \in BOOLEAN /\ client' \in {"well", "stalled", "gone"}
      BY Events, Distinct, CancelStep DEF Phase1, Phase3, CancelReturns, Resumes, CancelLaw
    <2> QED BY <2>1, <2>2, <2>3, <2>4, <2>5 DEF Phase1, Phase3
  <1>2. Places'
    BY Events, Distinct, CancelStep DEF Phase1, Phase3, CancelReturns, Resumes, CancelLaw
  <1>3. Ownership'
    <2>1. leaving' \subseteq closed'
      BY Events, Distinct, CancelStep, ZenonT(60) DEF Phase1, Phase3, CancelReturns, Resumes, CancelLaw
    <2>2. /\ pend' # "stream" => inner' = "off"
          /\ mode' = "none" => bridge' = "off" /\ leaving' = {} /\ ~saw' /\ d'.owner \in {"none", "cancelled"}
          /\ (mode' = "none" /\ pend' # "stream") => d'.owner = "none"
          /\ mode' \in {"none", "error"} => got' = <<>>
          /\ (mode' = "direct" <=> d'.owner = "direct")
          /\ mode' # "bridge" => bridge' = "off"
      BY Events, Distinct, CancelStep DEF Phase1, Phase3, CancelReturns, Resumes, CancelLaw
    <2>3. /\ d'.owner = "none" => inner' \in {"off", "turn"} /\ d'.told = "open"
          /\ d'.owner = "bridge" => mode' = "bridge" /\ bridge' # "pending"
          /\ d'.owner # "bridge" => bridge' \in {"off", "pending", "over"}
          /\ "bridge" \in closed' => mode' = "bridge"
      BY Events, Distinct, CancelStep, SMTT(40) DEF Phase1, Phase3, CancelReturns, Resumes, CancelLaw
    <2> QED BY <2>1, <2>2, <2>3 DEF Phase1, Phase3
  <1>4. Aliased'
    BY Events, Distinct, CancelStep, SMTT(40) DEF Phase1, Phase3, CancelReturns, Resumes, CancelLaw
  <1>5. Queue'
    BY Events, Distinct, CancelStep, SMTT(40) DEF Phase1, Phase3, CancelReturns, Resumes, CancelLaw
  <1>6. Direct'
    BY Events, Distinct, CancelStep DEF Phase1, Phase3, CancelReturns, Resumes, CancelLaw
  <1>7. Bridged'
    BY Events, Distinct, CancelStep DEF Phase1, Phase3, CancelReturns, Resumes, CancelLaw
  <1> QED BY <1>1, <1>2, <1>3, <1>4, <1>5, <1>6, <1>7

(* No step breaks the invariant. *)
LEMMA DeliveryStepKeeps == ASSUME DeliveryInv, [DeliveryNext]_deliveryVars PROVE DeliveryInv'
  <1>1. CASE UNCHANGED deliveryVars
    BY <1>1 DEF deliveryVars, DeliveryInv, DeliveryTyped, Places, Ownership, Aliased, Queue, Direct, Bridged
  <1>2. CASE DeliveryWorks
    BY <1>2, CoreReturnsKeeps, ClaimDirectKeeps, OpenBridgeKeeps, TurnCommitsKeeps, TurnFailsKeeps,
       MarkCommittedKeeps,
       SeedAliasKeeps, StageAliasKeeps, SendEventsKeeps, DeliverInnerKeeps, PublishReturnsKeeps, SendCompletedKeeps,
       BridgeToldKeeps, PumpEndsKeeps, PublishRunsKeeps, BridgeClaimsKeeps, BridgeReadsKeeps, BridgeStopsKeeps,
       BridgePublishedKeeps, BridgeSendsCompletedKeeps, BridgeEndsKeeps, StreamCancelledKeeps, CancelReturnsKeeps
       DEF DeliveryWorks
  <1>3. CASE ClientReads \/ ClientStalls \/ ClientLeaves
    BY <1>3, ClientReadsKeeps, ClientStallsKeeps, ClientLeavesKeeps
  <1> QED BY <1>1, <1>2, <1>3 DEF DeliveryNext

(* The invariant holds of a request that begins. *)
LEMMA DeliveryInitInv == DeliveryInit => DeliveryInv
  <1> SUFFICES ASSUME DeliveryInit PROVE DeliveryInv
    OBVIOUS
  <1>1. /\ d.owner = "none" /\ d.told = "open" /\ ~d.alias /\ ~d.delivered /\ ~d.committed /\ d.publish = "none"
        /\ ~d.revoked /\ d \in Delivery
    BY DEF DeliveryInit, NoDelivery, Delivery
  <1>2. DeliveryTyped /\ Places
    BY <1>1 DEF DeliveryInit, DeliveryTyped, Places, Phase1, Phase3
  <1>3. Ownership /\ Aliased /\ Bridged
    BY <1>1 DEF DeliveryInit, Ownership, Aliased, Bridged
  <1>4. Queue /\ Direct
    BY <1>1, Distinct DEF DeliveryInit, Queue, Direct
  <1> QED BY <1>2, <1>3, <1>4 DEF DeliveryInv

(* The two pumps, the callbacks and the alias object keep the invariant in  *)
(* every behaviour of one streamed request.                                 *)
THEOREM DeliveryInvariance == DeliverySpec => []DeliveryInv
  <1>1. DeliveryInit => DeliveryInv
    BY DeliveryInitInv
  <1>2. DeliveryInv /\ [DeliveryNext]_deliveryVars => DeliveryInv'
    BY DeliveryStepKeeps
  <1> QED BY <1>1, <1>2, PTL DEF DeliverySpec

(* Type correctness: every variable of the delivery stays in its type.      *)
THEOREM DeliveryTypes == DeliverySpec => []DeliveryTypeOK
  <1>1. DeliveryInv => DeliveryTypeOK
    <2> SUFFICES ASSUME DeliveryInv PROVE DeliveryTypeOK
      OBVIOUS
    <2>1. q \in Seq({"completed", "failed", "end"})
      <3> DEFINE S == Seq({"completed", "failed", "end"})
      <3>1. <<>> \in S /\ OnlyCompleted \in S /\ OnlyEnd \in S
        BY DEF OnlyCompleted, OnlyEnd
      <3>2. CompletedEnd \in S /\ FailedEnd \in S
        BY DEF CompletedEnd, FailedEnd
      <3>3. CompletedFailedEnd \in S
        BY DEF CompletedFailedEnd
      <3> HIDE DEF S
      <3>4. q \in S
        BY <3>1, <3>2, <3>3 DEF DeliveryInv, Queue
      <3> QED BY <3>4 DEF S
    <2>2. got \in Seq({"completed", "failed"})
      <3> DEFINE S == Seq({"completed", "failed"})
      <3>1. <<>> \in S /\ OnlyCompleted \in S /\ OnlyFailed \in S
        BY DEF OnlyCompleted, OnlyFailed
      <3> HIDE DEF S
      <3>2. got \in S
        BY <3>1 DEF DeliveryInv, Queue
      <3> QED BY <3>2 DEF S
    <2> QED BY <2>1, <2>2 DEF DeliveryInv, DeliveryTyped, DeliveryTypeOK
  <1> QED BY <1>1, DeliveryInvariance, PTL

(* A response id whose completion has reached the client can be continued,  *)
(* the client hears no second outcome, and no alias of a committed turn is  *)
(* revoked (publish, revoke, cancel and failDelivery of                     *)
(* createResponsesTerminalDelivery, both pumps).                            *)
THEOREM CompletedTheorem == DeliverySpec => []CompletedIsResumable
  <1>1. DeliveryInv => CompletedIsResumable
    <2> SUFFICES ASSUME DeliveryInv PROVE CompletedIsResumable
      OBVIOUS
    <2>1. Len(got) <= 1
      BY DEF DeliveryInv, Queue, OnlyCompleted, OnlyFailed
    <2>2. (\E i \in DOMAIN got : got[i] = "completed") => got = OnlyCompleted
      BY DEF DeliveryInv, Queue, OnlyCompleted, OnlyFailed
    <2>3. got = OnlyCompleted => d.publish = "ok"
      BY Distinct DEF DeliveryInv, DeliveryTyped, Ownership, Direct, Bridged
    <2> QED BY <2>1, <2>2, <2>3 DEF DeliveryInv, Aliased, CompletedIsResumable
  <1> QED BY <1>1, DeliveryInvariance, PTL

-----------------------------------------------------------------------------
(* The least, the greatest and the newest members of a set of naturals. *)

\* A set of naturals has a least member.
LEMMA NatMin ==
    ASSUME NEW S \in SUBSET Nat, S # {}
    PROVE  \E m \in S : \A x \in S : m <= x
<1>1. IsWellFoundedOn(OpToRel(<, Nat), Nat)
  BY NatLessThanWellFounded
<1>2. PICK m \in S : \A x \in S : ~(<<x, m>> \in OpToRel(<, Nat))
  BY <1>1, WFMin
<1>3. \A x \in S : ~(x < m)
  BY <1>2 DEF OpToRel
<1> QED
  BY <1>3

\* Min is the least member.
LEMMA MinIn ==
    ASSUME NEW S \in SUBSET Nat, S # {}
    PROVE  Min(S) \in S
<1>1. \E m \in S : \A x \in S : m =< x
  BY NatMin
<1> QED
  BY <1>1 DEF Min

\* A bounded set of naturals has a greatest member.
LEMMA NatMax ==
    ASSUME NEW S \in SUBSET Nat, S # {}, NEW n \in Nat, \A x \in S : x <= n
    PROVE  \E m \in S : \A x \in S : x <= m
<1> DEFINE D == {n - x : x \in S}
<1>0. \A x \in S : n - x \in Nat
  OBVIOUS
<1>1. D \in SUBSET Nat /\ D # {}
  BY <1>0
<1>2. PICK least \in D : \A e \in D : least <= e
  BY <1>1, NatMin
<1>3. PICK m \in S : least = n - m
  BY <1>2
<1>4. ASSUME NEW x \in S PROVE x <= m
  <2>1. n - m <= n - x
    BY <1>2, <1>3
  <2>2. x \in Nat /\ m \in Nat
    OBVIOUS
  <2> QED
    BY <2>1, <2>2
<1> QED
  BY <1>4

\* The members of S that fewer than k members exceed: the newest k.
Newest(S, k) == {r \in S : Cardinality({s \in S : s > r}) < k}

\* At most k members are among the newest k, exactly k when some member is not, and that one is older than all.
LEMMA NewestFacts ==
    ASSUME NEW S \in SUBSET Nat, NEW n \in Nat, \A x \in S : x <= n, NEW k \in Nat
    PROVE  /\ IsFiniteSet(S) /\ IsFiniteSet(Newest(S, k)) /\ Cardinality(Newest(S, k)) \in 0..k
           /\ \A r \in S \ Newest(S, k) :
                 Cardinality(Newest(S, k)) = k /\ {s \in Newest(S, k) : s > r} = Newest(S, k)
<1> DEFINE T == Newest(S, k)
           Above(r) == {s \in S : s > r}
<1>1. IsFiniteSet(S)
  BY FS_BoundedSetOfNaturals
<1>2. T \in SUBSET S /\ IsFiniteSet(T) /\ Cardinality(T) \in Nat
  <2>1. T \in SUBSET S
    BY DEF Newest
  <2> QED
    BY <2>1, <1>1, FS_Subset, FS_CardinalityType
<1>3. \A r \in S : Above(r) \in SUBSET S /\ IsFiniteSet(Above(r)) /\ Cardinality(Above(r)) \in Nat
  <2> TAKE r \in S
  <2>1. Above(r) \in SUBSET S
    OBVIOUS
  <2> QED
    BY <2>1, <1>1, FS_Subset, FS_CardinalityType
<1>4. \A r \in S : r \in T <=> Cardinality(Above(r)) < k
  BY DEF Newest
<1> HIDE DEF T
<1>5. Cardinality(T) <= k
  <2>1. CASE T = {}
    BY <2>1, FS_EmptySet
  <2>2. CASE T # {}
    <3>1. PICK m \in T : \A x \in T : m <= x
      <4>1. T \in SUBSET Nat
        BY <1>2
      <4> QED
        BY ONLY <4>1, <2>2, NatMin
    <3>2. m \in S /\ Cardinality(Above(m)) < k
      BY <1>2, <1>4
    <3>3. T \ {m} \in SUBSET Above(m)
      BY <3>1, <1>2
    <3>4. Cardinality(T \ {m}) <= Cardinality(Above(m))
      BY <3>2, <3>3, <1>3, FS_Subset
    <3>5. Cardinality(T \ {m}) = Cardinality(T) - 1
      BY <1>2, FS_RemoveElement
    <3>6. Cardinality(Above(m)) \in Nat
      BY <3>2, <1>3
    <3> HIDE DEF Above
    <3> QED
      BY ONLY <3>2, <3>4, <3>5, <3>6, <1>2, k \in Nat
  <2> QED
    BY <2>1, <2>2
<1>6. ASSUME NEW r \in S \ T PROVE Cardinality(T) = k /\ {s \in T : s > r} = T
  <2>1. PICK last \in S \ T : \A x \in S \ T : x <= last
    <3>1. (S \ T) \in SUBSET Nat /\ S \ T # {} /\ \A x \in S \ T : x <= n
      OBVIOUS
    <3> QED
      BY ONLY <3>1, n \in Nat, NatMax
  <2>2. Above(last) \in SUBSET T
    <3>1. ASSUME NEW x \in S, x > last, x \notin T PROVE FALSE
      <4>1. x \in Nat /\ last \in Nat /\ x <= last
        BY <2>1, <3>1
      <4> QED
        BY ONLY <4>1, <3>1
    <3> QED
      BY <3>1
  <2>3. Cardinality(Above(last)) <= Cardinality(T)
    BY <2>2, <1>2, FS_Subset
  <2>4. ~(Cardinality(Above(last)) < k) /\ Cardinality(Above(last)) \in Nat
    BY <1>3, <1>4
  <2>5. Cardinality(T) = k
    <3> HIDE DEF Above
    <3> QED
      BY ONLY <2>3, <2>4, <1>5, <1>2, k \in Nat
  <2>6. ASSUME NEW s \in T, ~(s > r) PROVE FALSE
    <3>1. Above(r) \in SUBSET Above(s) /\ s \in S
      <4>1. s \in S /\ s \in Nat /\ r \in Nat /\ s <= r
        BY <2>6, <1>2
      <4>2. \A x \in Nat : x > r => x > s
        BY ONLY <4>1
      <4> QED
        BY <4>1, <4>2
    <3>2. Cardinality(Above(r)) <= Cardinality(Above(s))
      BY <3>1, <1>3, FS_Subset
    <3>3. Cardinality(Above(s)) < k /\ ~(Cardinality(Above(r)) < k)
      BY <3>1, <1>4
    <3>4. Cardinality(Above(s)) \in Nat /\ Cardinality(Above(r)) \in Nat
      BY <3>1, <1>3
    <3> HIDE DEF Above
    <3> QED
      BY ONLY <3>2, <3>3, <3>4, k \in Nat
  <2> QED
    BY <2>5, <2>6
<1> QED
  BY <1>1, <1>2, <1>5, <1>6 DEF T

-----------------------------------------------------------------------------
(* The cold archive. *)

Revision == 0..(MaxCalls - 1)
Copy == [tries : 0..(MaxAttempts - 1), due : 0..RetryMax]
Moment == 0..Later(Ttl, RetryMax)
HotRow == [life : 0..Ttl, lease : 0..LeaseTime]

\* A well-typed outbox, and well-typed pending writes.
OutboxOK(box) ==
    /\ DOMAIN box \in SUBSET Revision /\ Cardinality(DOMAIN box) <= MaxQueue
    /\ box \in [DOMAIN box -> Copy]
WritesOK(ws) == DOMAIN ws \in SUBSET Revision /\ ws \in [DOMAIN ws -> {"encrypt", "flush"}]

\* The numbers of the model.
LEMMA ArchiveNumbers ==
    /\ Ttl \in Nat /\ Ttl > 0 /\ LeaseTime \in Nat /\ LeaseTime > 0 /\ MaxQueue \in Nat /\ MaxQueue > 0
    /\ MaxAttempts \in Nat /\ MaxAttempts > 0 /\ RetryMax \in Nat /\ RetryMax > 0 /\ Batch \in Nat /\ Batch > 0
    /\ MaxCalls \in Nat /\ MaxCalls > 0 /\ UploadTime \in Nat /\ UploadTime < Ttl /\ MaxCrashes \in Nat
    /\ Never \notin Nat /\ Never \notin HotRow /\ Never \notin Moment
    /\ Never \notin [rev : Revision, turn : 1..Batch]
    /\ Later(Ttl, RetryMax) \in Nat /\ Ttl \in Moment /\ RetryMax \in Moment /\ 0 \in Moment
    /\ Revision \in SUBSET Nat /\ Moment \in SUBSET Nat /\ MaxCalls - 1 \in Nat
<1>1. /\ Ttl \in Nat \ {0} /\ LeaseTime \in Nat \ {0} /\ MaxQueue \in Nat \ {0} /\ MaxAttempts \in Nat \ {0}
      /\ RetryMax \in Nat \ {0} /\ Batch \in Nat \ {0} /\ MaxCalls \in Nat \ {0}
  BY ArchiveAssumption
<1>2. UploadTime \in Nat /\ UploadTime < Ttl /\ MaxCrashes \in Nat /\ Never \notin Nat
  BY ArchiveAssumption
<1>3. HotRow \in SUBSET [life : Nat, lease : Nat]
  BY <1>1 DEF HotRow
<1>4. [rev : Revision, turn : 1..Batch] \in SUBSET [rev : Nat, turn : Nat]
  BY <1>1 DEF Revision
<1>5. Never \notin HotRow /\ Never \notin [rev : Revision, turn : 1..Batch]
  BY <1>3, <1>4, ArchiveAssumption
<1>6. /\ Later(Ttl, RetryMax) \in Nat /\ Ttl \in Moment /\ RetryMax \in Moment /\ 0 \in Moment
      /\ Moment \in SUBSET Nat
  BY <1>1 DEF Later, Moment
<1>7. Revision \in SUBSET Nat /\ MaxCalls - 1 \in Nat
  BY <1>1 DEF Revision
<1>8. Never \notin Moment
  BY <1>2, <1>6
<1>9. \A x \in Nat \ {0} : x \in Nat /\ x > 0
  OBVIOUS
<1> QED
  BY <1>1, <1>2, <1>5, <1>6, <1>7, <1>8, <1>9

\* A set of revisions is finite.
LEMMA RevisionsFinite ==
    ASSUME NEW S \in SUBSET Revision
    PROVE  IsFiniteSet(S) /\ S \in SUBSET Nat /\ \A x \in S : x <= MaxCalls - 1
<1>1. S \in SUBSET Nat /\ MaxCalls - 1 \in Nat /\ \A x \in S : x <= MaxCalls - 1
  BY ArchiveNumbers DEF Revision
<1> QED
  BY <1>1, FS_BoundedSetOfNaturals

\* An alarm is set for one of the deadlines.
LEMMA ScheduledTyped ==
    ASSUME NEW box, OutboxOK(box), NEW asked \in SUBSET Moment, NEW t \in Moment \cup {Never}
    PROVE  Scheduled(asked, box, t) \in Moment \cup {Never}
<1> DEFINE dues == {box[r].due : r \in DOMAIN box}
           deadlines == asked \cup dues \cup ({t} \ {0, Never})
<1>1. dues \in SUBSET Moment
  <2>1. \A r \in DOMAIN box : box[r].due \in 0..RetryMax
    BY DEF OutboxOK, Copy
  <2>2. 0..RetryMax \in SUBSET Moment
    BY ArchiveNumbers DEF Moment, Later
  <2> QED
    BY <2>1, <2>2
<1>2. deadlines \in SUBSET Moment /\ Moment \in SUBSET Nat
  BY <1>1, ArchiveNumbers
<1>3. deadlines # {} => Min(deadlines) \in Moment
  <2> HIDE DEF deadlines
  <2> QED
    BY <1>2, MinIn
<1>4. asked # {} => Min(asked) \in Moment
  <2>1. asked \in SUBSET Nat
    BY <1>2
  <2> QED
    BY <2>1, MinIn
<1> HIDE DEF dues, deadlines
<1> QED
  BY <1>3, <1>4 DEF Scheduled, dues, deadlines

\* A part of an outbox.
LEMMA PartOfOutbox ==
    ASSUME NEW box, OutboxOK(box), NEW S \in SUBSET DOMAIN box
    PROVE  OutboxOK(Restrict(box, S)) /\ DOMAIN Restrict(box, S) = S
<1>1. DOMAIN Restrict(box, S) = S /\ Restrict(box, S) \in [S -> Copy]
  BY DEF Restrict, OutboxOK
<1>2. IsFiniteSet(DOMAIN box) /\ DOMAIN box \in SUBSET Revision /\ Cardinality(DOMAIN box) <= MaxQueue
  BY RevisionsFinite DEF OutboxOK
<1>3. Cardinality(S) <= Cardinality(DOMAIN box) /\ IsFiniteSet(S)
  BY <1>2, FS_Subset
<1>4. Cardinality(S) \in Nat /\ Cardinality(DOMAIN box) \in Nat
  BY <1>2, <1>3, FS_CardinalityType
<1>5. Cardinality(S) <= MaxQueue
  BY ONLY <1>2, <1>3, <1>4, ArchiveNumbers
<1> QED
  BY <1>1, <1>2, <1>5 DEF OutboxOK

\* What a trimmed outbox keeps: at most MaxQueue copies, and that many newer ones than any it drops.
LEMMA TrimmedFacts ==
    ASSUME NEW box, DOMAIN box \in SUBSET Revision, box \in [DOMAIN box -> Copy]
    PROVE  /\ OutboxOK(Trimmed(box)) /\ DOMAIN Trimmed(box) \in SUBSET DOMAIN box
           /\ \A r \in DOMAIN box \ DOMAIN Trimmed(box) :
                 Cardinality({s \in DOMAIN Trimmed(box) : s > r}) = MaxQueue
<1> DEFINE D == DOMAIN box
           T == Newest(D, MaxQueue)
<1>1. D \in SUBSET Nat /\ (\A x \in D : x <= MaxCalls - 1) /\ MaxCalls - 1 \in Nat /\ MaxQueue \in Nat
  BY RevisionsFinite, ArchiveNumbers
<1> HIDE DEF D
<1>2. /\ Cardinality(T) \in 0..MaxQueue
      /\ \A r \in D \ T : Cardinality(T) = MaxQueue /\ {s \in T : s > r} = T
  BY ONLY <1>1, NewestFacts
<1>3. T \in SUBSET D
  BY DEF Newest
<1>4. Trimmed(box) = Restrict(box, T)
  BY DEF Trimmed, Newest, D
<1>5. DOMAIN Restrict(box, T) = T /\ Restrict(box, T) \in [T -> Copy]
  BY <1>3 DEF Restrict, D
<1>6. Cardinality(T) <= MaxQueue
  BY ONLY <1>1, <1>2
<1> HIDE DEF T
<1>7. OutboxOK(Trimmed(box))
  BY <1>3, <1>4, <1>5, <1>6 DEF OutboxOK, D
<1> QED
  BY <1>2, <1>3, <1>4, <1>5, <1>7 DEF D

\* A copy that could not be stored stays, or its attempts are used up.
LEMMA RetriedFacts ==
    ASSUME NEW box, OutboxOK(box), NEW r
    PROVE  /\ OutboxOK(Retried(box, r)) /\ DOMAIN Retried(box, r) \in SUBSET DOMAIN box
           /\ \A s \in DOMAIN box \ DOMAIN Retried(box, r) : box[s].tries + 1 = MaxAttempts
<1>1. CASE r \notin DOMAIN box
  BY <1>1 DEF Retried
<1>2. CASE r \in DOMAIN box
  <2>1. box[r].tries \in 0..(MaxAttempts - 1) /\ box[r] \in Copy
    BY <1>2 DEF OutboxOK, Copy
  <2>2. CASE box[r].tries + 1 >= MaxAttempts
    <3>1. Retried(box, r) = Restrict(box, DOMAIN box \ {r})
      BY <1>2, <2>2 DEF Retried
    <3>2. box[r].tries + 1 = MaxAttempts
      BY ONLY <2>1, <2>2, ArchiveNumbers
    <3>3. OutboxOK(Retried(box, r)) /\ DOMAIN Retried(box, r) = DOMAIN box \ {r}
      BY <3>1, PartOfOutbox
    <3> QED
      BY <3>2, <3>3
  <2>3. CASE ~(box[r].tries + 1 >= MaxAttempts)
    <3> DEFINE new == [tries |-> box[r].tries + 1, due |-> Delay(box[r].tries + 1)]
    <3>1. Retried(box, r) = [box EXCEPT ![r] = new]
      BY <1>2, <2>3 DEF Retried
    <3>2. box[r].tries + 1 \in 0..(MaxAttempts - 1)
      BY ONLY <2>1, <2>3, ArchiveNumbers
    <3>3. Delay(box[r].tries + 1) \in 0..RetryMax
      BY ArchiveNumbers DEF Delay
    <3>4. new \in Copy
      BY <3>2, <3>3 DEF Copy
    <3> HIDE DEF new
    <3>5. DOMAIN Retried(box, r) = DOMAIN box /\ Retried(box, r) \in [DOMAIN box -> Copy]
      BY <3>1, <3>4 DEF OutboxOK
    <3> QED
      BY <3>5 DEF OutboxOK
  <2> QED
    BY <2>2, <2>3
<1> QED
  BY <1>1, <1>2

\* The flush picks a copy of the outbox or ends; it starts no write.
LEMMA FlushingFacts ==
    ASSUME NEW box, OutboxOK(box), NEW ws, WritesOK(ws), NEW turn \in Nat \ {0},
           NEW t \in Moment \cup {Never}, Flushing(box, ws, turn, t)
    PROVE  /\ upload' \in [rev : Revision, turn : 1..Batch] \cup {Never}
           /\ alarm' \in Moment \cup {Never}
           /\ WritesOK(writes') /\ DOMAIN writes' \in SUBSET DOMAIN ws
<1>1. CASE Due(box) # {} /\ turn <= Batch
  <2>1. upload' = [rev |-> Min(Due(box)), turn |-> turn] /\ alarm' = t /\ writes' = ws
    BY <1>1 DEF Flushing
  <2>2. Due(box) \in SUBSET Revision /\ Revision \in SUBSET Nat
    BY ArchiveNumbers DEF Due, OutboxOK
  <2>3. Min(Due(box)) \in Revision
    BY <1>1, <2>2, MinIn
  <2>4. turn \in 1..Batch
    BY <1>1, ArchiveNumbers
  <2> QED
    BY <2>1, <2>3, <2>4
<1>2. CASE ~(Due(box) # {} /\ turn <= Batch)
  <2> DEFINE E == {r \in DOMAIN ws : ws[r] = "encrypt"}
  <2>1. upload' = Never /\ alarm' = Scheduled({}, box, t) /\ writes' = Restrict(ws, E)
    BY <1>2 DEF Flushing
  <2>2. {} \in SUBSET Moment
    OBVIOUS
  <2>3. alarm' \in Moment \cup {Never}
    BY ONLY <2>1, <2>2, OutboxOK(box), t \in Moment \cup {Never}, ScheduledTyped
  <2>4. E \in SUBSET DOMAIN ws
    OBVIOUS
  <2>5. DOMAIN Restrict(ws, E) = E /\ WritesOK(Restrict(ws, E))
    BY <2>4 DEF Restrict, WritesOK
  <2> QED
    BY <2>1, <2>3, <2>4, <2>5
<1> QED
  BY <1>1, <1>2

\* The type invariant, with its parts by name.
ArchiveTyped ==
    /\ bound \in BOOLEAN /\ branch \in BOOLEAN /\ used \in BOOLEAN
    /\ hot \in HotRow \cup {Never} /\ alarm \in Moment \cup {Never}
    /\ OutboxOK(outbox) /\ WritesOK(writes)
    /\ upload \in [rev : Revision, turn : 1..Batch] \cup {Never} /\ cold \in SUBSET Revision
    /\ handler \in {"idle", "flush", "clear"} /\ caller \in {"idle", "expired", "again", "discard"}
    /\ calls \in 0..MaxCalls /\ patience \in 0..UploadTime /\ crashes \in 0..MaxCrashes

\* Without the bucket nothing is copied.
CopiesNeedBucket == ~bound => DOMAIN outbox = {} /\ DOMAIN writes = {}

\* A write that is pending is younger than the row it copies: the row cannot expire before it has settled.
WritesAreYoung == hot # Never /\ DOMAIN writes # {} => hot.life + UploadTime >= Ttl + patience

\* So the clear of a conversation never has to wait for a write.
ConversationNeverWaits ==
    ~branch => /\ hot = Never => DOMAIN writes = {}
               /\ handler # "clear" /\ caller \notin {"expired", "discard"}

\* The clear of a branch may wait, but its one turn is over: no row comes back.
BranchIsOver ==
    branch => /\ handler = "clear" \/ caller # "idle" => hot = Never
              /\ caller \notin {"expired", "again"}
              /\ calls = 0 => hot = Never /\ DOMAIN writes = {} /\ handler # "clear" /\ caller = "idle"

ArchiveInv ==
    ArchiveTyped /\ CopiesNeedBucket /\ WritesAreYoung /\ ConversationNeverWaits /\ BranchIsOver

\* What ClearingLosesNothing says of one step.
Lossless ==
    /\ \A r \in DOMAIN outbox \ DOMAIN outbox' :
          \/ r \in cold'
          \/ outbox[r].tries + 1 = MaxAttempts
          \/ Cardinality({s \in DOMAIN outbox' : s > r}) = MaxQueue
    /\ (hot # Never /\ hot' = Never) =>
          (hot.life = 0 /\ hot.lease = 0) \/ (branch /\ calls' # calls)

\* The invariant gives the type invariant of the module.
LEMMA ArchiveTypes == ArchiveTyped /\ dropped \in BOOLEAN => ArchiveTypeOK
BY DEF ArchiveTyped, ArchiveTypeOK, OutboxOK, WritesOK, HotRow, Copy, Moment, Revision

\* The fields of a row.
LEMMA HotFields ==
    /\ \A h \in HotRow : h # Never /\ h.life \in 0..Ttl /\ h.lease \in 0..LeaseTime
    /\ \A l \in 0..LeaseTime : Row(l) \in HotRow /\ Row(l).life = Ttl /\ Row(l).lease = l
<1>1. ASSUME NEW h \in HotRow PROVE h.life \in 0..Ttl /\ h.lease \in 0..LeaseTime
  BY DEF HotRow
<1>2. ASSUME NEW l \in 0..LeaseTime PROVE Row(l) \in HotRow /\ Row(l).life = Ttl /\ Row(l).lease = l
  BY ArchiveNumbers DEF HotRow, Row
<1> QED
  BY <1>1, <1>2, ArchiveNumbers

\* A row is saved.
LEMMA SavedFacts ==
    ASSUME ArchiveInv, NEW l \in 0..LeaseTime, Saved(Row(l))
    PROVE  /\ hot' \in HotRow /\ hot' # Never /\ hot'.life = Ttl
           /\ used' = TRUE /\ alarm' \in Moment \cup {Never}
<1>1. hot' = Row(l) /\ used' = TRUE /\ alarm' = Scheduled({Ttl}, outbox, alarm)
  BY DEF Saved, SetAlarmAt
<1>2. {Ttl} \in SUBSET Moment
  BY ArchiveNumbers
<1>3. OutboxOK(outbox) /\ alarm \in Moment \cup {Never}
  BY DEF ArchiveInv, ArchiveTyped
<1>4. alarm' \in Moment \cup {Never}
  BY <1>1, <1>2, <1>3, ScheduledTyped
<1> QED
  BY <1>1, <1>4, HotFields

\* clearStateStorage keeps every copy.
LEMMA ClearFacts ==
    ASSUME ArchiveInv, NEW kept, Clear(kept)
    PROVE  /\ hot' \in {kept, Never} /\ used' \in BOOLEAN /\ alarm' \in Moment \cup {Never}
           /\ OutboxOK(outbox') /\ DOMAIN outbox' = DOMAIN outbox
<1>1. OutboxOK(outbox) /\ alarm \in Moment \cup {Never} /\ used \in BOOLEAN
  BY DEF ArchiveInv, ArchiveTyped
<1>2. CASE bound /\ DOMAIN outbox # {}
  <2>1. hot' = kept /\ used' = used /\ outbox' = outbox /\ alarm' = Scheduled({}, outbox, alarm)
    BY <1>2 DEF Clear
  <2>2. {} \in SUBSET Moment
    OBVIOUS
  <2>3. alarm' \in Moment \cup {Never}
    BY ONLY <1>1, <2>1, <2>2, ScheduledTyped
  <2> QED
    BY <1>1, <2>1, <2>3
<1>3. CASE ~(bound /\ DOMAIN outbox # {})
  <2>1. hot' = Never /\ used' = FALSE /\ outbox' = NoCopies /\ alarm' = Never
    BY <1>3 DEF Clear
  <2>2. DOMAIN outbox = {}
    BY <1>3 DEF ArchiveInv, CopiesNeedBucket
  <2>3. DOMAIN NoCopies = {} /\ NoCopies \in [{} -> Copy]
    BY DEF NoCopies
  <2>4. Cardinality({}) <= MaxQueue
    BY FS_EmptySet, ArchiveNumbers
  <2>5. OutboxOK(NoCopies)
    BY <2>3, <2>4 DEF OutboxOK
  <2> QED
    BY <2>1, <2>2, <2>3, <2>5
<1> QED
  BY <1>2, <1>3

\* deleteCurrentState takes the kept, and no copy.
LEMMA DeleteFacts ==
    ASSUME ArchiveInv, DeleteState
    PROVE  /\ hot' = Never /\ used' \in BOOLEAN /\ alarm' \in Moment \cup {Never}
           /\ OutboxOK(outbox') /\ DOMAIN outbox' = DOMAIN outbox
<1>1. CASE DOMAIN writes = {}
  <2>1. Clear(Never)
    BY <1>1 DEF DeleteState
  <2> QED
    BY <2>1, ClearFacts
<1>2. CASE DOMAIN writes # {}
  <2>1. hot' = Never /\ used' = used /\ outbox' = outbox /\ alarm' = alarm
    BY <1>2 DEF DeleteState
  <2> QED
    BY <2>1 DEF ArchiveInv, ArchiveTyped
<1> QED
  BY <1>1, <1>2

\* An expired row is copied by no write that is still pending.
LEMMA ExpiredHasNoWrites ==
    ASSUME ArchiveInv, hot # Never, hot.life = 0
    PROVE  DOMAIN writes = {}
<1>1. UploadTime \in Nat /\ UploadTime < Ttl /\ Ttl \in Nat /\ patience \in 0..UploadTime
  BY ArchiveNumbers DEF ArchiveInv, ArchiveTyped
<1>2. ASSUME DOMAIN writes # {} PROVE FALSE
  <2>1. 0 + UploadTime >= Ttl + patience
    BY <1>2 DEF ArchiveInv, WritesAreYoung
  <2> QED
    BY ONLY <1>1, <2>1
<1> QED
  BY <1>2

\* What a step of the outbox keeps: the session is left alone, no write begins and every number stays in range.
LEMMA OutboxStep ==
    ASSUME ArchiveInv, UNCHANGED <<bound, branch, hot, used, handler, caller, calls, patience, crashes>>,
           alarm' \in Moment \cup {Never}, OutboxOK(outbox'), ~bound => DOMAIN outbox' = {},
           WritesOK(writes'), DOMAIN writes' \in SUBSET DOMAIN writes,
           upload' \in [rev : Revision, turn : 1..Batch] \cup {Never}, cold' \in SUBSET Revision
    PROVE  ArchiveInv'
<1>1. ArchiveTyped'
  BY DEF ArchiveInv, ArchiveTyped
<1>2. DOMAIN writes = {} => DOMAIN writes' = {}
  OBVIOUS
<1>3. CopiesNeedBucket' /\ WritesAreYoung'
  BY <1>2 DEF ArchiveInv, CopiesNeedBucket, WritesAreYoung
<1>4. ConversationNeverWaits' /\ BranchIsOver'
  BY <1>2 DEF ArchiveInv, ConversationNeverWaits, BranchIsOver
<1> QED
  BY <1>1, <1>3, <1>4 DEF ArchiveInv

\* What a step of the session keeps that writes only the row, the storage flag, the alarm and the outbox's alarm.
LEMMA SessionTyped ==
    ASSUME ArchiveInv, UNCHANGED <<bound, branch, upload, cold, crashes>>,
           hot' \in HotRow \cup {Never}, used' \in BOOLEAN, alarm' \in Moment \cup {Never},
           OutboxOK(outbox'), DOMAIN outbox' = DOMAIN outbox, WritesOK(writes'), ~bound => DOMAIN writes' = {},
           handler' \in {"idle", "flush", "clear"}, caller' \in {"idle", "expired", "again", "discard"},
           calls' \in 0..MaxCalls, patience' \in 0..UploadTime
    PROVE  ArchiveTyped' /\ CopiesNeedBucket'
<1>1. ArchiveTyped'
  BY DEF ArchiveInv, ArchiveTyped
<1>2. CopiesNeedBucket'
  BY DEF ArchiveInv, CopiesNeedBucket
<1> QED
  BY <1>1, <1>2

\* The facts of the current state that the steps use.
LEMMA ArchiveNow ==
    ASSUME ArchiveInv
    PROVE  /\ bound \in BOOLEAN /\ branch \in BOOLEAN /\ used \in BOOLEAN
           /\ hot \in HotRow \cup {Never} /\ alarm \in Moment \cup {Never}
           /\ OutboxOK(outbox) /\ WritesOK(writes)
           /\ upload \in [rev : Revision, turn : 1..Batch] \cup {Never} /\ cold \in SUBSET Revision
           /\ handler \in {"idle", "flush", "clear"} /\ caller \in {"idle", "expired", "again", "discard"}
           /\ calls \in 0..MaxCalls /\ patience \in 0..UploadTime /\ crashes \in 0..MaxCrashes
           /\ (~bound => DOMAIN outbox = {} /\ DOMAIN writes = {})
BY DEF ArchiveInv, ArchiveTyped, CopiesNeedBucket

\* A call counts.
LEMMA CalledFacts ==
    ASSUME ArchiveInv, Called
    PROVE  calls \in Revision /\ calls' \in 0..MaxCalls /\ calls' # calls /\ calls' # 0 /\ caller = "idle"
<1>1. calls \in 0..MaxCalls /\ calls < MaxCalls /\ calls' = calls + 1 /\ caller = "idle"
  BY ArchiveNow DEF Called
<1> QED
  BY <1>1, ArchiveNumbers DEF Revision

\* prepareAndFlush after the encryption.
LEMMA EncryptedStep == ArchiveInv /\ CopyEncrypted => ArchiveInv' /\ Lossless
<1> SUFFICES ASSUME ArchiveInv, CopyEncrypted PROVE ArchiveInv' /\ Lossless
  OBVIOUS
<1>1. UNCHANGED <<bound, branch, hot, used, cold, handler, caller, calls, patience, crashes>>
  BY DEF CopyEncrypted
<1>2. PICK r \in DOMAIN writes, large \in BOOLEAN :
        /\ writes[r] = "encrypt"
        /\ IF large
           THEN /\ writes' = Restrict(writes, DOMAIN writes \ {r})
                /\ UNCHANGED <<outbox, upload, alarm>>
           ELSE LET box == Trimmed([s \in DOMAIN outbox \cup {r} |->
                                        IF s = r THEN [tries |-> 0, due |-> 0] ELSE outbox[s]])
                IN /\ outbox' = box
                   /\ FlushOrJoin(box, [writes EXCEPT ![r] = "flush"], Scheduled({}, box, alarm))
  BY DEF CopyEncrypted
<1>3. bound /\ r \in Revision
  BY ArchiveNow DEF WritesOK
<1>4. CASE large
  <2>1. writes' = Restrict(writes, DOMAIN writes \ {r}) /\ UNCHANGED <<outbox, upload, alarm>>
    BY <1>2, <1>4
  <2>2. WritesOK(writes') /\ DOMAIN writes' \in SUBSET DOMAIN writes
    BY <2>1, ArchiveNow DEF WritesOK, Restrict
  <2>3. ArchiveInv'
    BY <1>1, <2>1, <2>2, ArchiveNow, OutboxStep
  <2> QED
    BY <1>1, <2>1, <2>3 DEF Lossless
<1>5. CASE ~large
  <2> DEFINE full == [s \in DOMAIN outbox \cup {r} |-> IF s = r THEN [tries |-> 0, due |-> 0] ELSE outbox[s]]
             box == Trimmed(full)
             ws == [writes EXCEPT ![r] = "flush"]
             t == Scheduled({}, box, alarm)
  <2>1. outbox' = box /\ FlushOrJoin(box, ws, t)
    BY <1>2, <1>5
  <2>2. DOMAIN full = DOMAIN outbox \cup {r} /\ DOMAIN full \in SUBSET Revision
    BY <1>3, ArchiveNow DEF OutboxOK
  <2>3. full \in [DOMAIN full -> Copy]
    <3>1. [tries |-> 0, due |-> 0] \in Copy
      BY ArchiveNumbers DEF Copy
    <3> QED
      BY <3>1, ArchiveNow DEF OutboxOK
  <2> HIDE DEF full
  <2>4. /\ OutboxOK(box) /\ DOMAIN box \in SUBSET DOMAIN full
        /\ \A x \in DOMAIN full \ DOMAIN box : Cardinality({s \in DOMAIN box : s > x}) = MaxQueue
    BY <2>2, <2>3, TrimmedFacts
  <2>5. WritesOK(ws) /\ DOMAIN ws = DOMAIN writes
    BY ArchiveNow DEF WritesOK
  <2> HIDE DEF box, ws
  <2>6. t \in Moment \cup {Never}
    <3>1. {} \in SUBSET Moment
      OBVIOUS
    <3> QED
      BY ONLY <3>1, <2>4, ArchiveInv, ArchiveNow, ScheduledTyped
  <2> HIDE DEF t
  <2>7. /\ upload' \in [rev : Revision, turn : 1..Batch] \cup {Never} /\ alarm' \in Moment \cup {Never}
        /\ WritesOK(writes') /\ DOMAIN writes' \in SUBSET DOMAIN ws
    <3>1. CASE upload # Never
      <4>1. upload' = upload /\ alarm' = t /\ writes' = ws
        BY <3>1, <2>1 DEF FlushOrJoin
      <4> QED
        BY <4>1, <2>5, <2>6, ArchiveNow
    <3>2. CASE upload = Never
      <4>1. Flushing(box, ws, 1, t)
        BY <3>2, <2>1 DEF FlushOrJoin
      <4> QED
        BY <4>1, <2>4, <2>5, <2>6, FlushingFacts
    <3> QED
      BY <3>1, <3>2
  <2>8. ArchiveInv'
    BY <1>1, <1>3, <2>1, <2>4, <2>5, <2>7, ArchiveNow, OutboxStep
  <2> QED
    BY <1>1, <2>1, <2>2, <2>4, <2>8 DEF Lossless
<1> QED
  BY <1>4, <1>5

\* head and put answer.
LEMMA AnswersStep == ArchiveInv /\ UploadAnswers => ArchiveInv' /\ Lossless
<1> SUFFICES ASSUME ArchiveInv, UploadAnswers PROVE ArchiveInv' /\ Lossless
  OBVIOUS
<1>1. UNCHANGED <<bound, branch, hot, used, handler, caller, calls, patience, crashes>> /\ upload # Never
  BY DEF UploadAnswers
<1>2. PICK stored \in BOOLEAN, failed \in BOOLEAN :
        /\ stored \/ failed
        /\ cold' = IF stored THEN cold \cup {upload.rev} ELSE cold
        /\ LET box == IF failed THEN Retried(outbox, upload.rev)
                      ELSE Restrict(outbox, DOMAIN outbox \ {upload.rev})
           IN /\ outbox' = box
              /\ Flushing(box, writes, IF failed THEN Batch + 1 ELSE upload.turn + 1, alarm)
  BY DEF UploadAnswers
<1> DEFINE turn == IF failed THEN Batch + 1 ELSE upload.turn + 1
<1>3. upload.rev \in Revision /\ upload.turn \in 1..Batch
  BY <1>1, ArchiveNow
<1>4. turn \in Nat \ {0}
  BY <1>3, ArchiveNumbers
<1>5. cold' \in SUBSET Revision
  BY <1>2, <1>3, ArchiveNow
<1>6. /\ OutboxOK(outbox') /\ DOMAIN outbox' \in SUBSET DOMAIN outbox
      /\ \A r \in DOMAIN outbox \ DOMAIN outbox' : r \in cold' \/ outbox[r].tries + 1 = MaxAttempts
  <2>1. CASE failed
    BY <1>2, <2>1, ArchiveNow, RetriedFacts
  <2>2. CASE ~failed
    <3>1. outbox' = Restrict(outbox, DOMAIN outbox \ {upload.rev}) /\ upload.rev \in cold'
      BY <1>2, <2>2
    <3>2. OutboxOK(outbox') /\ DOMAIN outbox' = DOMAIN outbox \ {upload.rev}
      BY <3>1, ArchiveNow, PartOfOutbox
    <3> QED
      BY <3>1, <3>2
  <2> QED
    BY <2>1, <2>2
<1>7. Flushing(outbox', writes, turn, alarm)
  BY <1>2
<1> HIDE DEF turn
<1>8. /\ upload' \in [rev : Revision, turn : 1..Batch] \cup {Never} /\ alarm' \in Moment \cup {Never}
      /\ WritesOK(writes') /\ DOMAIN writes' \in SUBSET DOMAIN writes
  BY <1>4, <1>6, <1>7, ArchiveNow, FlushingFacts
<1>9. ~bound => DOMAIN outbox' = {}
  BY <1>6, ArchiveNow
<1>10. ArchiveInv'
  BY <1>1, <1>5, <1>6, <1>8, <1>9, OutboxStep
<1> QED
  BY <1>1, <1>6, <1>10 DEF Lossless

\* alarm() begins with the flush.
LEMMA FiresStep == ArchiveInv /\ AlarmFires => ArchiveInv' /\ Lossless
<1> SUFFICES ASSUME ArchiveInv, AlarmFires PROVE ArchiveInv' /\ Lossless
  OBVIOUS
<1>1. UNCHANGED <<bound, branch, hot, used, outbox, cold, caller, calls, patience, crashes>>
  BY DEF AlarmFires
<1>2. handler = "idle" /\ handler' = "flush"
  BY DEF AlarmFires
<1>3. /\ upload' \in [rev : Revision, turn : 1..Batch] \cup {Never} /\ alarm' \in Moment \cup {Never}
      /\ WritesOK(writes') /\ DOMAIN writes' \in SUBSET DOMAIN writes
  <2>1. CASE bound /\ upload = Never
    <3>1. Flushing(outbox, writes, 1, Never)
      BY <2>1 DEF AlarmFires, FlushOrJoin
    <3> QED
      BY <3>1, ArchiveNow, FlushingFacts
  <2>2. CASE bound /\ upload # Never
    <3>1. upload' = upload /\ alarm' = Never /\ writes' = writes
      BY <2>2 DEF AlarmFires, FlushOrJoin
    <3> QED
      BY <3>1, ArchiveNow
  <2>3. CASE ~bound
    <3>1. upload' = upload /\ alarm' = Never /\ writes' = writes
      BY <2>3 DEF AlarmFires
    <3> QED
      BY <3>1, ArchiveNow
  <2> QED
    BY <2>1, <2>2, <2>3
<1>4. ArchiveTyped'
  BY <1>1, <1>2, <1>3 DEF ArchiveInv, ArchiveTyped
<1>5. DOMAIN writes = {} => DOMAIN writes' = {}
  BY <1>3
<1>6. CopiesNeedBucket' /\ WritesAreYoung'
  BY <1>1, <1>5 DEF ArchiveInv, CopiesNeedBucket, WritesAreYoung
<1>7. ConversationNeverWaits' /\ BranchIsOver'
  BY <1>1, <1>2, <1>5 DEF ArchiveInv, ConversationNeverWaits, BranchIsOver
<1> QED
  BY <1>1, <1>4, <1>6, <1>7 DEF ArchiveInv, Lossless

\* A saved row is younger than every pending write.
LEMMA SavedIsYoung ==
    ASSUME hot'.life = Ttl, patience' \in 0..UploadTime
    PROVE  WritesAreYoung'
<1>1. Ttl \in Nat /\ UploadTime \in Nat
  BY ArchiveNumbers
<1>2. \A p \in 0..UploadTime : Ttl + UploadTime >= Ttl + p
  BY ONLY <1>1
<1> QED
  BY <1>2 DEF WritesAreYoung

\* acquireInternal.
LEMMA AcquireStep == ArchiveInv /\ Acquire => ArchiveInv' /\ Lossless
<1> SUFFICES ASSUME ArchiveInv, Acquire PROVE ArchiveInv' /\ Lossless
  OBVIOUS
<1>1. UNCHANGED <<bound, branch, writes, upload, cold, handler, patience, crashes>>
  BY DEF Acquire
<1>2. /\ calls' \in 0..MaxCalls /\ (calls = 0 \/ calls' # 0)
      /\ branch => calls = 0 /\ calls' # 0 /\ caller = "idle" /\ handler # "clear" /\ hot = Never
      /\ ~branch => caller \in {"idle", "again"}
  <2>1. CASE Called /\ (branch => calls = 0)
    BY <2>1, CalledFacts DEF ArchiveInv, BranchIsOver
  <2>2. CASE caller = "again" /\ UNCHANGED calls
    BY <2>2, ArchiveNow DEF ArchiveInv, BranchIsOver
  <2> QED
    BY <2>1, <2>2 DEF Acquire
<1>3. CASE Saved(Row(LeaseTime)) /\ caller' = "idle" /\ UNCHANGED outbox
  <2>1. LeaseTime \in 0..LeaseTime
    BY ArchiveNumbers
  <2>2. hot' \in HotRow /\ hot' # Never /\ hot'.life = Ttl /\ used' = TRUE /\ alarm' \in Moment \cup {Never}
    BY <1>3, <2>1, SavedFacts
  <2>3. ArchiveTyped' /\ CopiesNeedBucket'
    BY <1>1, <1>2, <1>3, <2>2, ArchiveNow, SessionTyped
  <2>4. patience' \in 0..UploadTime
    BY <1>1, ArchiveNow
  <2>5. WritesAreYoung'
    BY <2>2, <2>4, SavedIsYoung
  <2>6. ConversationNeverWaits' /\ BranchIsOver'
    BY <1>1, <1>2, <1>3, <2>2 DEF ArchiveInv, ConversationNeverWaits, BranchIsOver
  <2> QED
    BY <1>3, <2>2, <2>3, <2>5, <2>6 DEF ArchiveInv, Lossless
<1>4. CASE caller' = "idle" /\ UNCHANGED <<hot, used, alarm, outbox>>
  <2>1. ArchiveTyped' /\ CopiesNeedBucket'
    BY <1>1, <1>2, <1>4, ArchiveNow, SessionTyped
  <2>2. WritesAreYoung'
    BY <1>1, <1>4 DEF ArchiveInv, WritesAreYoung
  <2>3. ConversationNeverWaits' /\ BranchIsOver'
    BY <1>1, <1>2, <1>4 DEF ArchiveInv, ConversationNeverWaits, BranchIsOver
  <2> QED
    BY <1>4, <2>1, <2>2, <2>3 DEF ArchiveInv, Lossless
<1>5. CASE /\ hot # Never /\ hot.lease = 0 /\ hot.life = 0
           /\ DeleteState /\ caller' = Drained("expired", "again")
  <2>1. ~branch /\ DOMAIN writes = {}
    BY <1>2, <1>5, ExpiredHasNoWrites
  <2>2. caller' = "again"
    BY <1>5, <2>1 DEF Drained
  <2>3. /\ hot' = Never /\ used' \in BOOLEAN /\ alarm' \in Moment \cup {Never}
        /\ OutboxOK(outbox') /\ DOMAIN outbox' = DOMAIN outbox
    BY <1>5, DeleteFacts
  <2>4. ArchiveTyped' /\ CopiesNeedBucket'
    BY <1>1, <1>2, <2>2, <2>3, ArchiveNow, SessionTyped
  <2>5. WritesAreYoung'
    BY <2>3 DEF WritesAreYoung
  <2>6. ConversationNeverWaits' /\ BranchIsOver'
    BY <1>1, <2>1, <2>2, <2>3 DEF ArchiveInv, ConversationNeverWaits, BranchIsOver
  <2> QED
    BY <1>5, <2>3, <2>4, <2>5, <2>6 DEF ArchiveInv, Lossless
<1> QED
  BY <1>3, <1>4, <1>5 DEF Acquire

\* A turn commits.
LEMMA CommitStep == ArchiveInv /\ CommitTurn => ArchiveInv' /\ Lossless
<1> SUFFICES ASSUME ArchiveInv, CommitTurn PROVE ArchiveInv' /\ Lossless
  OBVIOUS
<1>1. UNCHANGED <<bound, branch, outbox, upload, cold, handler, caller, crashes>> /\ Saved(Row(0)) /\ hot # Never
  BY DEF CommitTurn
<1>2. calls \in Revision /\ calls' \in 0..MaxCalls /\ calls' # 0 /\ caller = "idle"
  BY CalledFacts DEF CommitTurn
<1>3. hot' \in HotRow /\ hot' # Never /\ hot'.life = Ttl /\ used' = TRUE /\ alarm' \in Moment \cup {Never}
  <2>1. 0 \in 0..LeaseTime
    BY ArchiveNumbers
  <2> QED
    BY <1>1, <2>1, SavedFacts
<1>4. WritesOK(writes') /\ (~bound => DOMAIN writes' = {}) /\ patience' \in 0..UploadTime
  <2>1. PICK archived \in IF bound THEN BOOLEAN ELSE {FALSE} :
          IF archived
          THEN /\ writes' = [r \in DOMAIN writes \cup {calls} |-> IF r = calls THEN "encrypt" ELSE writes[r]]
               /\ patience' = UploadTime
          ELSE UNCHANGED <<writes, patience>>
    BY DEF CommitTurn, QueueCurrentR2Archive
  <2>2. CASE archived
    <3>1. bound /\ patience' = UploadTime
      BY <2>1, <2>2
    <3>2. writes' = [r \in DOMAIN writes \cup {calls} |-> IF r = calls THEN "encrypt" ELSE writes[r]]
      BY <2>1, <2>2
    <3>3. WritesOK(writes')
      BY <1>2, <3>2, ArchiveNow DEF WritesOK
    <3>4. UploadTime \in 0..UploadTime
      BY ArchiveNumbers
    <3> QED
      BY <3>1, <3>3, <3>4
  <2>3. CASE ~archived
    BY <2>1, <2>3, ArchiveNow
  <2> QED
    BY <2>2, <2>3
<1>5. ArchiveTyped' /\ CopiesNeedBucket'
  BY <1>1, <1>2, <1>3, <1>4, ArchiveNow, SessionTyped
<1>6. WritesAreYoung'
  BY <1>3, <1>4, SavedIsYoung
<1>7. ConversationNeverWaits'
  BY <1>1, <1>3 DEF ArchiveInv, ConversationNeverWaits
<1>8. BranchIsOver'
  BY <1>1, <1>2, <1>3 DEF ArchiveInv, BranchIsOver
<1> QED
  BY <1>1, <1>3, <1>5, <1>6, <1>7, <1>8 DEF ArchiveInv, Lossless

\* release.
LEMMA ReleaseStep == ArchiveInv /\ Release => ArchiveInv' /\ Lossless
<1> SUFFICES ASSUME ArchiveInv, Release PROVE ArchiveInv' /\ Lossless
  OBVIOUS
<1>1. UNCHANGED <<bound, branch, writes, upload, cold, handler, patience, crashes>> /\ hot # Never
  BY DEF Release
<1>2. calls' \in 0..MaxCalls /\ calls' # calls /\ calls' # 0 /\ caller = "idle"
  BY CalledFacts DEF Release
<1>3. CASE branch
  <2>1. DeleteState /\ caller' = Drained("discard", "idle")
    BY <1>3 DEF Release
  <2>2. /\ hot' = Never /\ used' \in BOOLEAN /\ alarm' \in Moment \cup {Never}
        /\ OutboxOK(outbox') /\ DOMAIN outbox' = DOMAIN outbox
    BY <2>1, DeleteFacts
  <2>3. caller' \in {"idle", "discard"}
    BY <2>1 DEF Drained
  <2>4. ArchiveTyped' /\ CopiesNeedBucket'
    BY <1>1, <1>2, <2>2, <2>3, ArchiveNow, SessionTyped
  <2>5. WritesAreYoung'
    BY <2>2 DEF WritesAreYoung
  <2>6. ConversationNeverWaits' /\ BranchIsOver'
    BY <1>1, <1>2, <1>3, <2>2, <2>3 DEF ArchiveInv, ConversationNeverWaits, BranchIsOver
  <2> QED
    BY <1>2, <1>3, <2>2, <2>4, <2>5, <2>6 DEF ArchiveInv, Lossless
<1>4. CASE ~branch
  <2>1. Saved(Row(0)) /\ UNCHANGED <<caller, outbox>>
    BY <1>4 DEF Release
  <2>2. hot' \in HotRow /\ hot' # Never /\ hot'.life = Ttl /\ used' = TRUE /\ alarm' \in Moment \cup {Never}
    <3>1. 0 \in 0..LeaseTime
      BY ArchiveNumbers
    <3> QED
      BY <2>1, <3>1, SavedFacts
  <2>3. ArchiveTyped' /\ CopiesNeedBucket' /\ patience' \in 0..UploadTime
    BY <1>1, <1>2, <2>1, <2>2, ArchiveNow, SessionTyped
  <2>4. WritesAreYoung'
    BY <2>2, <2>3, SavedIsYoung
  <2>5. ConversationNeverWaits' /\ BranchIsOver'
    BY <1>1, <1>2, <1>4, <2>1, <2>2 DEF ArchiveInv, ConversationNeverWaits, BranchIsOver
  <2> QED
    BY <2>1, <2>2, <2>3, <2>4, <2>5 DEF ArchiveInv, Lossless
<1> QED
  BY <1>3, <1>4

\* A clear that had to wait finds no row.
LEMMA WaitingClear ==
    ASSUME ArchiveInv, Clear(hot), handler = "clear" \/ caller \in {"expired", "discard"}
    PROVE  /\ branch /\ hot = Never /\ hot' = Never /\ used' \in BOOLEAN /\ alarm' \in Moment \cup {Never}
           /\ OutboxOK(outbox') /\ DOMAIN outbox' = DOMAIN outbox /\ calls # 0
<1>1. branch /\ hot = Never /\ calls # 0
  BY ArchiveNow DEF ArchiveInv, ConversationNeverWaits, BranchIsOver
<1> QED
  BY <1>1, ClearFacts

\* A call whose clear had to wait goes on.
LEMMA CallClearsStep == ArchiveInv /\ CallClears => ArchiveInv' /\ Lossless
<1> SUFFICES ASSUME ArchiveInv, CallClears PROVE ArchiveInv' /\ Lossless
  OBVIOUS
<1>1. UNCHANGED <<bound, branch, writes, upload, cold, handler, calls, patience, crashes>> /\ Clear(hot)
  BY DEF CallClears
<1>2. /\ branch /\ hot = Never /\ hot' = Never /\ used' \in BOOLEAN /\ alarm' \in Moment \cup {Never}
      /\ OutboxOK(outbox') /\ DOMAIN outbox' = DOMAIN outbox /\ calls # 0
  BY <1>1, WaitingClear DEF CallClears
<1>3. caller' = "idle"
  BY <1>2 DEF CallClears, ArchiveInv, BranchIsOver
<1>4. ArchiveTyped' /\ CopiesNeedBucket'
  BY <1>1, <1>2, <1>3, ArchiveNow, SessionTyped
<1>5. WritesAreYoung'
  BY <1>2 DEF WritesAreYoung
<1>6. ConversationNeverWaits' /\ BranchIsOver'
  BY <1>1, <1>2, <1>3 DEF ArchiveInv, ConversationNeverWaits, BranchIsOver
<1> QED
  BY <1>2, <1>4, <1>5, <1>6 DEF ArchiveInv, Lossless

\* The alarm whose clear had to wait goes on.
LEMMA AlarmClearsStep == ArchiveInv /\ AlarmClears => ArchiveInv' /\ Lossless
<1> SUFFICES ASSUME ArchiveInv, AlarmClears PROVE ArchiveInv' /\ Lossless
  OBVIOUS
<1>1. /\ UNCHANGED <<bound, branch, writes, upload, cold, caller, calls, patience, crashes>>
      /\ Clear(hot) /\ handler = "clear" /\ handler' = "idle"
  BY DEF AlarmClears
<1>2. /\ branch /\ hot = Never /\ hot' = Never /\ used' \in BOOLEAN /\ alarm' \in Moment \cup {Never}
      /\ OutboxOK(outbox') /\ DOMAIN outbox' = DOMAIN outbox /\ calls # 0
  BY <1>1, WaitingClear
<1>4. ArchiveTyped' /\ CopiesNeedBucket'
  BY <1>1, <1>2, ArchiveNow, SessionTyped
<1>5. WritesAreYoung'
  BY <1>2 DEF WritesAreYoung
<1>6. ConversationNeverWaits' /\ BranchIsOver'
  BY <1>1, <1>2 DEF ArchiveInv, ConversationNeverWaits, BranchIsOver
<1> QED
  BY <1>2, <1>4, <1>5, <1>6 DEF ArchiveInv, Lossless

\* The alarm looks at the row: it is set again for a live one, and an idle one goes.
LEMMA LooksStep == ArchiveInv /\ AlarmLooks => ArchiveInv' /\ Lossless
<1> SUFFICES ASSUME ArchiveInv, AlarmLooks PROVE ArchiveInv' /\ Lossless
  OBVIOUS
<1>1. UNCHANGED <<bound, branch, writes, upload, cold, caller, calls, patience, crashes>> /\ handler = "flush"
  BY DEF AlarmLooks
<1>2. CASE Alive
  <2>1. Rearm /\ handler' = "idle" /\ UNCHANGED <<hot, used, outbox>>
    BY <1>2 DEF AlarmLooks
  <2>2. {Later(hot.lease, hot.life)} \in SUBSET Moment
    <3>1. hot.life \in 0..Ttl /\ hot.lease \in 0..LeaseTime
      BY <1>2, ArchiveNow, HotFields DEF Alive
    <3>2. LeaseTime < Ttl
      BY ArchiveAssumption
    <3> QED
      BY <3>1, <3>2, ArchiveNumbers DEF Later, Moment
  <2>3. alarm' = Scheduled({Later(hot.lease, hot.life)}, outbox, alarm)
    BY <2>1 DEF Rearm, SetAlarmAt
  <2>4. OutboxOK(outbox) /\ alarm \in Moment \cup {Never}
    BY ArchiveNow
  <2>5. alarm' \in Moment \cup {Never}
    BY ONLY <2>2, <2>3, <2>4, ScheduledTyped
  <2>6. ArchiveTyped' /\ CopiesNeedBucket'
    BY <1>1, <2>1, <2>5, ArchiveNow, SessionTyped
  <2>7. WritesAreYoung'
    BY <1>1, <2>1 DEF ArchiveInv, WritesAreYoung
  <2>8. ConversationNeverWaits' /\ BranchIsOver'
    BY <1>1, <2>1 DEF ArchiveInv, ConversationNeverWaits, BranchIsOver
  <2> QED
    BY <2>1, <2>6, <2>7, <2>8 DEF ArchiveInv, Lossless
<1>3. CASE ~Alive
  <2>1. DeleteState /\ handler' = Drained("clear", "idle")
    BY <1>3 DEF AlarmLooks
  <2>2. /\ hot' = Never /\ used' \in BOOLEAN /\ alarm' \in Moment \cup {Never}
        /\ OutboxOK(outbox') /\ DOMAIN outbox' = DOMAIN outbox
    BY <2>1, DeleteFacts
  <2>3. hot # Never => hot.life = 0 /\ hot.lease = 0
    <3>1. ASSUME hot # Never PROVE hot.life \in 0..Ttl /\ hot.lease \in 0..LeaseTime
      BY <3>1, ArchiveNow, HotFields
    <3>2. ASSUME hot # Never PROVE ~(hot.lease > 0) /\ ~(hot.life > 0)
      BY <3>2, <1>3 DEF Alive
    <3>3. Ttl \in Nat /\ LeaseTime \in Nat
      BY ArchiveNumbers
    <3> QED
      BY <3>1, <3>2, <3>3
  <2>4. ~branch => DOMAIN writes = {}
    BY <2>3, ExpiredHasNoWrites DEF ArchiveInv, ConversationNeverWaits
  <2>5. /\ handler' \in {"clear", "idle"} /\ (handler' = "clear" => DOMAIN writes # {})
        /\ branch /\ calls = 0 => DOMAIN writes = {}
    BY <2>1 DEF Drained, ArchiveInv, BranchIsOver
  <2>6. ArchiveTyped' /\ CopiesNeedBucket'
    BY <1>1, <2>2, <2>5, ArchiveNow, SessionTyped
  <2>7. WritesAreYoung'
    BY <2>2 DEF WritesAreYoung
  <2>8. ConversationNeverWaits' /\ BranchIsOver'
    BY <1>1, <2>2, <2>4, <2>5 DEF ArchiveInv, ConversationNeverWaits, BranchIsOver
  <2> QED
    BY <2>2, <2>3, <2>6, <2>7, <2>8 DEF ArchiveInv, Lossless
<1> QED
  BY <1>2, <1>3

\* A tick less.
LEMMA LessFacts == \A n \in Nat : Less(n) \in Nat /\ Less(n) <= n /\ (n = 0 \/ Less(n) = n - 1)
BY DEF Less

\* Time passes.
LEMMA TickStep == ArchiveInv /\ Tick => ArchiveInv' /\ Lossless
<1> SUFFICES ASSUME ArchiveInv, Tick PROVE ArchiveInv' /\ Lossless
  OBVIOUS
<1>1. UNCHANGED <<bound, branch, used, writes, upload, cold, handler, caller, calls, crashes>>
  BY DEF Tick
<1>2. /\ hot' \in HotRow \cup {Never} /\ (hot = Never <=> hot' = Never)
      /\ hot # Never => hot'.life = Less(hot.life)
  <2>1. CASE hot = Never
    BY <2>1 DEF Tick
  <2>2. CASE hot # Never
    <3>1. hot' = [hot EXCEPT !.life = Less(@), !.lease = Less(@)] /\ hot \in HotRow
      BY <2>2, ArchiveNow DEF Tick
    <3>2. hot.life \in 0..Ttl /\ hot.lease \in 0..LeaseTime
      BY <3>1, HotFields
    <3>3. Less(hot.life) \in 0..Ttl /\ Less(hot.lease) \in 0..LeaseTime
      BY ONLY <3>2, ArchiveNumbers, LessFacts
    <3>4. hot' \in HotRow /\ hot'.life = Less(hot.life)
      BY <3>1, <3>3 DEF HotRow
    <3> QED
      BY <2>2, <3>4, HotFields
  <2> QED
    BY <2>1, <2>2
<1>3. alarm' \in Moment \cup {Never}
  <2>1. CASE alarm = Never
    BY <2>1 DEF Tick
  <2>2. CASE alarm # Never
    <3>1. alarm' = Less(alarm) /\ alarm \in Moment
      BY <2>2, ArchiveNow DEF Tick
    <3>2. Less(alarm) \in Moment
      BY <3>1, ArchiveNumbers, LessFacts DEF Moment
    <3> QED
      BY <3>1, <3>2
  <2> QED
    BY <2>1, <2>2
<1>4. OutboxOK(outbox') /\ DOMAIN outbox' = DOMAIN outbox
  <2>1. outbox' = [r \in DOMAIN outbox |-> [outbox[r] EXCEPT !.due = Less(@)]]
    BY DEF Tick
  <2>2. ASSUME NEW r \in DOMAIN outbox PROVE [outbox[r] EXCEPT !.due = Less(@)] \in Copy
    <3>1. outbox[r] \in Copy
      BY ArchiveNow DEF OutboxOK
    <3>2. outbox[r].due \in 0..RetryMax
      BY <3>1 DEF Copy
    <3>3. Less(outbox[r].due) \in 0..RetryMax
      BY ONLY <3>2, ArchiveNumbers, LessFacts
    <3> QED
      BY <3>1, <3>3 DEF Copy
  <2>3. outbox' \in [DOMAIN outbox -> Copy] /\ DOMAIN outbox' = DOMAIN outbox
    BY <2>1, <2>2
  <2> QED
    BY <2>3, ArchiveNow DEF OutboxOK
<1>5. patience \in Nat /\ patience' \in 0..UploadTime /\ (DOMAIN writes # {} => patience' = patience - 1)
  <2>1. patience \in 0..UploadTime
    BY ArchiveNow
  <2>2. DOMAIN writes # {} => patience > 0
    BY DEF Tick
  <2>3. patience' = IF DOMAIN writes # {} THEN patience - 1 ELSE patience
    BY DEF Tick
  <2>4. CASE DOMAIN writes # {}
    <3>1. patience > 0 /\ patience' = patience - 1
      BY <2>2, <2>3, <2>4
    <3> QED
      BY <2>1, <3>1, ArchiveNumbers
  <2>5. CASE DOMAIN writes = {}
    BY <2>1, <2>3, <2>5
  <2> QED
    BY <2>4, <2>5
<1>6. ArchiveTyped' /\ CopiesNeedBucket'
  BY <1>1, <1>2, <1>3, <1>4, <1>5, ArchiveNow, SessionTyped
<1>7. WritesAreYoung'
  <2>1. SUFFICES ASSUME hot' # Never, DOMAIN writes' # {} PROVE hot'.life + UploadTime >= Ttl + patience'
    BY DEF WritesAreYoung
  <2>2. hot # Never /\ DOMAIN writes # {} /\ hot'.life = Less(hot.life) /\ patience' = patience - 1
    BY <1>1, <1>2, <1>5, <2>1
  <2>3. hot.life + UploadTime >= Ttl + patience
    BY <2>2 DEF ArchiveInv, WritesAreYoung
  <2>4. hot.life \in Nat
    BY <2>2, ArchiveNow, HotFields, ArchiveNumbers
  <2>5. Less(hot.life) \in Nat /\ Less(hot.life) >= hot.life - 1
    BY ONLY <2>4, LessFacts
  <2>6. UploadTime \in Nat /\ Ttl \in Nat
    BY ArchiveNumbers
  <2>7. Less(hot.life) + UploadTime >= Ttl + (patience - 1)
    BY ONLY <2>3, <2>4, <2>5, <2>6, <1>5
  <2> QED
    BY <2>2, <2>7
<1>8. ConversationNeverWaits' /\ BranchIsOver'
  BY <1>1, <1>2 DEF ArchiveInv, ConversationNeverWaits, BranchIsOver
<1> QED
  BY <1>2, <1>4, <1>6, <1>7, <1>8 DEF ArchiveInv, Lossless

\* The object restarts.
LEMMA RestartStep == ArchiveInv /\ Restart => ArchiveInv' /\ Lossless
<1> SUFFICES ASSUME ArchiveInv, Restart PROVE ArchiveInv' /\ Lossless
  OBVIOUS
<1>1. /\ UNCHANGED <<bound, branch, hot, used, outbox, calls, patience>>
      /\ writes' = NoCopies /\ upload' = Never /\ handler' = "idle" /\ caller' = "idle"
  BY DEF Restart
<1>2. DOMAIN writes' = {} /\ WritesOK(writes')
  BY <1>1 DEF NoCopies, WritesOK
<1>3. cold' \in SUBSET Revision
  <2>1. CASE upload = Never
    BY <2>1, ArchiveNow DEF Restart
  <2>2. CASE upload # Never
    <3>1. upload.rev \in Revision
      BY <2>2, ArchiveNow
    <3>2. cold' \in {cold, cold \cup {upload.rev}}
      BY <2>2 DEF Restart
    <3> QED
      BY <3>1, <3>2, ArchiveNow
  <2> QED
    BY <2>1, <2>2
<1>4. alarm' \in Moment \cup {Never}
  BY ArchiveNow, ArchiveNumbers DEF Restart
<1>5. crashes' \in 0..MaxCrashes
  <2>1. crashes \in 0..MaxCrashes /\ crashes < MaxCrashes /\ crashes' = crashes + 1
    BY ArchiveNow DEF Restart
  <2> QED
    BY <2>1, ArchiveNumbers
<1>6. ArchiveTyped' /\ CopiesNeedBucket' /\ WritesAreYoung'
  <2>1. ArchiveTyped'
    BY <1>1, <1>2, <1>3, <1>4, <1>5, ArchiveNow DEF ArchiveTyped
  <2> QED
    BY <1>1, <1>2, <2>1, ArchiveNow DEF CopiesNeedBucket, WritesAreYoung
<1>7. ConversationNeverWaits' /\ BranchIsOver'
  BY <1>1, <1>2 DEF ArchiveInv, ConversationNeverWaits, BranchIsOver
<1> QED
  BY <1>1, <1>6, <1>7 DEF ArchiveInv, Lossless

\* The first states.
LEMMA ArchiveStarts == ArchiveInit => ArchiveInv
<1> SUFFICES ASSUME ArchiveInit PROVE ArchiveInv
  OBVIOUS
<1>1. DOMAIN outbox = {} /\ DOMAIN writes = {} /\ WritesOK(writes) /\ OutboxOK(outbox)
  <2>1. DOMAIN NoCopies = {} /\ NoCopies \in [{} -> Copy] /\ NoCopies \in [{} -> {"encrypt", "flush"}]
    BY DEF NoCopies
  <2>2. outbox = NoCopies /\ writes = NoCopies
    BY DEF ArchiveInit
  <2>3. Cardinality({}) <= MaxQueue
    BY FS_EmptySet, ArchiveNumbers
  <2> QED
    BY <2>1, <2>2, <2>3 DEF OutboxOK, WritesOK
<1>2. ArchiveTyped
  <2>1. UploadTime \in 0..UploadTime /\ 0 \in 0..MaxCalls /\ 0 \in 0..MaxCrashes
    BY ArchiveNumbers
  <2> QED
    BY <1>1, <2>1 DEF ArchiveInit, ArchiveTyped
<1> QED
  BY <1>1, <1>2 DEF ArchiveInit, ArchiveInv, CopiesNeedBucket, WritesAreYoung, ConversationNeverWaits, BranchIsOver

\* Every step keeps the invariant and loses nothing.
LEMMA ArchiveSteps == ArchiveInv /\ [ArchiveNext]_archiveVars => ArchiveInv' /\ [Lossless]_archiveVars
<1> SUFFICES ASSUME ArchiveInv, [ArchiveNext]_archiveVars PROVE ArchiveInv' /\ [Lossless]_archiveVars
  OBVIOUS
<1>1. CASE ArchiveNext
  BY <1>1, EncryptedStep, AnswersStep, CallClearsStep, FiresStep, LooksStep, AlarmClearsStep, AcquireStep,
     CommitStep, ReleaseStep, TickStep, RestartStep DEF ArchiveNext, ArchiveWorks
<1>2. CASE UNCHANGED archiveVars
  BY <1>2 DEF archiveVars, ArchiveInv, ArchiveTyped, CopiesNeedBucket, WritesAreYoung, ConversationNeverWaits,
     BranchIsOver
<1> QED
  BY <1>1, <1>2

(* The state of the archive keeps its types: an outbox never holds more     *)
(* than R2_ARCHIVE_MAX_QUEUE copies, no attempt is counted beyond           *)
(* R2_ARCHIVE_MAX_ATTEMPTS (the outbox of r2-archive.ts).                   *)
THEOREM ArchiveTypesTheorem == ArchiveSpec => []ArchiveTypeOK
<1>1. ArchiveInit => ArchiveInv
  BY ArchiveStarts
<1>2. ArchiveInv /\ [ArchiveNext]_archiveVars => ArchiveInv'
  BY ArchiveSteps
<1>3. ArchiveInit => dropped \in BOOLEAN
  BY DEF ArchiveInit
<1>4. dropped \in BOOLEAN /\ [ArchiveNext]_archiveVars => (dropped \in BOOLEAN)'
  BY DEF ArchiveNext, Observe, archiveVars
<1>5. ArchiveInv /\ dropped \in BOOLEAN => ArchiveTypeOK
  BY ArchiveTypes DEF ArchiveInv
<1> QED
  BY <1>1, <1>2, <1>3, <1>4, <1>5, PTL DEF ArchiveSpec

(* A copy that waits leaves the outbox only for the bucket, at its last     *)
(* attempt or for newer ones, and no clear, however long it had to wait for *)
(* an upload, takes the row of a turn that began meanwhile                  *)
(* (clearStateStorage, expireIfIdle, acquireInternal, flushInternal).       *)
THEOREM ClearingTheorem == ArchiveSpec => ClearingLosesNothing
<1>1. ArchiveInit => ArchiveInv
  BY ArchiveStarts
<1>2. ArchiveInv /\ [ArchiveNext]_archiveVars => ArchiveInv'
  BY ArchiveSteps
<1>3. ArchiveInv /\ [ArchiveNext]_archiveVars => [Lossless]_archiveVars
  BY ArchiveSteps
<1>4. [][Lossless]_archiveVars => ClearingLosesNothing
  BY PTL DEF ClearingLosesNothing, Lossless
<1> QED
  BY <1>1, <1>2, <1>3, <1>4, PTL DEF ArchiveSpec

-----------------------------------------------------------------------------
(* The aliases and their registry. *)

\* The aliases that a registry r lists, and whether it lists one generation of one of them.
Keys(r) == {r[i].a : i \in DOMAIN r}
Lists(r, a, g) == \E i \in DOMAIN r : r[i].a = a /\ r[i].gen = g

\* The alias is the primary key.
KeyIsUnique(r) == \A i, j \in DOMAIN r : r[i].a = r[j].a => i = j

\* A set of aliases within both quotas.
Fits(S) ==
    /\ Cardinality(S) <= Total
    /\ \A g \in {Group[a] : a \in Aliases} : Cardinality({b \in S : Group[b] = g}) <= PerGroup

\* A row belongs to the last seed of its alias, and is not admitted before that seed is over.
RowsOfSeeds ==
    \A a \in Aliases : rows[a] # None =>
        /\ seeder[a].pc # "over" => rows[a].gen = seeder[a].n
        /\ rows[a].adm => seeder[a].pc = "over"

\* What is visible, or may become visible, is listed.
Registered ==
    \A a \in Aliases : rows[a] # None /\ (rows[a].adm \/ seeder[a].pc \in {"lock", "ok", "staged"})
        => Lists(reg, a, rows[a].gen)

\* An expired registry row belongs to a seed that is over, and its alias has expired too.
OldIsOver ==
    \A i \in DOMAIN reg : reg[i].old =>
        /\ seeder[reg[i].a].pc = "over"
        /\ Matches(reg[i].a, reg[i].gen) => rows[reg[i].a].old

\* A late unregister names a generation that is gone for good.
UnregisterIsLate ==
    \A m \in unreg : /\ rows[m[1]] # None => rows[m[1]].gen > m[2]
                     /\ seeder[m[1]].pc # "over" => m[2] <= seeder[m[1]].n

\* While a registration holds the lock, its own row stays and its victims are rows of others.
LockHeld ==
    lock # None =>
        /\ lock.who # "sweep" => seeder[lock.who].pc = "lock" /\ Lists(reg, lock.who, seeder[lock.who].n)
        /\ \A v \in lock.todo :
              /\ v.a # lock.who
              /\ \A i \in DOMAIN reg : reg[i].a = v.a => reg[i].gen = v.gen
              /\ lock.who = "sweep" => /\ seeder[v.a].pc = "over"
                                       /\ Matches(v.a, v.gen) => rows[v.a].old

\* The registry is within its quotas, but for the registration under way: without its row, and without the rows
\* it has still to evict.
RegistryFits ==
    /\ lock = None \/ lock.who = "sweep" => Fits(Keys(reg))
    /\ lock # None /\ lock.who # "sweep" =>
          Fits(Keys(reg) \ {lock.who}) /\ Fits(Keys(reg) \ {v.a : v \in lock.todo})

AliasInv ==
    /\ AliasTypeOK /\ KeyIsUnique(reg) /\ RowsOfSeeds /\ Registered /\ OldIsOver /\ UnregisterIsLate
    /\ LockHeld /\ RegistryFits

\* The numbers of the registry.
LEMMA AliasNumbers ==
    /\ Total \in Nat /\ Total > 0 /\ PerGroup \in Nat /\ PerGroup > 0 /\ Attempts \in Nat /\ Attempts > 0
    /\ None \notin AliasRow /\ None \notin Lock /\ IsFiniteSet(Aliases) /\ Legacy \in SUBSET Aliases
<1>1. \A x \in Nat \ {0} : x \in Nat /\ x > 0
  OBVIOUS
<1> QED
  BY <1>1, AliasAssumption, NoneAssumption

\* Removing one position.
LEMMA RemoveAtFacts ==
    ASSUME NEW X, NEW s \in Seq(X), NEW k \in DOMAIN s
    PROVE  /\ RemoveAt(s, k) \in Seq(X) /\ Len(RemoveAt(s, k)) = Len(s) - 1
           /\ \A j \in 1..(Len(s) - 1) : RemoveAt(s, k)[j] = s[IF j < k THEN j ELSE j + 1]
<1>1. k \in 1..Len(s) /\ Len(s) \in Nat /\ DOMAIN s = 1..Len(s)
  OBVIOUS
<1> DEFINE u == SubSeq(s, 1, k - 1)
           w == SubSeq(s, k + 1, Len(s))
<1>2. u \in Seq(X) /\ Len(u) = k - 1 /\ \A j \in 1..(k - 1) : u[j] = s[j]
  BY <1>1
<1>3. w \in Seq(X) /\ Len(w) = Len(s) - k /\ \A j \in 1..(Len(s) - k) : w[j] = s[k + j]
  BY <1>1
<1> HIDE DEF u, w
<1>4. u \o w \in Seq(X) /\ Len(u \o w) = Len(s) - 1
  <2>1. u \o w \in Seq(X) /\ Len(u \o w) = Len(u) + Len(w)
    BY <1>2, <1>3, ConcatProperties
  <2>2. (k - 1) + (Len(s) - k) = Len(s) - 1
    BY ONLY <1>1
  <2> QED
    BY <1>2, <1>3, <2>1, <2>2
<1>5. ASSUME NEW j \in 1..(Len(s) - 1) PROVE (u \o w)[j] = s[IF j < k THEN j ELSE j + 1]
  <2>1. CASE j < k
    BY <1>1, <1>2, <1>3, <2>1
  <2>2. CASE ~(j < k)
    <3>1. j - (k - 1) \in 1..(Len(s) - k) /\ k + (j - (k - 1)) = j + 1
      BY <1>1, <2>2
    <3>2. (u \o w)[j] = w[j - (k - 1)]
      BY <1>1, <1>2, <1>3, <2>2
    <3>3. w[j - (k - 1)] = s[k + (j - (k - 1))]
      BY <1>3, <3>1
    <3> QED
      BY <2>2, <3>1, <3>2, <3>3
  <2> QED
    BY <2>1, <2>2
<1> QED
  BY <1>4, <1>5 DEF RemoveAt, u, w

\* The registry without one generation of one alias.
LEMMA WithoutFacts ==
    ASSUME NEW r \in Seq(RegistryRow), KeyIsUnique(r), NEW a, NEW g
    PROVE  /\ Without(r, a, g) \in Seq(RegistryRow) /\ KeyIsUnique(Without(r, a, g))
           /\ \A j \in DOMAIN Without(r, a, g) : \E i \in DOMAIN r :
                 Without(r, a, g)[j] = r[i] /\ ~(r[i].a = a /\ r[i].gen = g)
           /\ \A i \in DOMAIN r : ~(r[i].a = a /\ r[i].gen = g) =>
                 \E j \in DOMAIN Without(r, a, g) : Without(r, a, g)[j] = r[i]
<1> DEFINE at == {i \in DOMAIN r : r[i].a = a /\ r[i].gen = g}
           W == Without(r, a, g)
<1>1. CASE at = {}
  <2>1. W = r
    BY <1>1 DEF Without, Removed
  <2>2. \A i \in DOMAIN r : ~(r[i].a = a /\ r[i].gen = g)
    BY <1>1
  <2> HIDE DEF W
  <2> QED
    BY <2>1, <2>2 DEF W
<1>2. CASE at # {}
  <2> DEFINE k == CHOOSE i \in at : TRUE
  <2>1. k \in at
    BY <1>2
  <2>2. W = RemoveAt(r, k)
    BY <1>2 DEF Without, Removed
  <2>3. k \in DOMAIN r /\ r[k].a = a /\ r[k].gen = g
    BY <2>1
  <2> HIDE DEF k, W, at
  <2>4. DOMAIN r = 1..Len(r) /\ Len(r) \in Nat /\ k \in 1..Len(r)
    BY <2>3
  <2>5. /\ W \in Seq(RegistryRow) /\ Len(W) = Len(r) - 1
        /\ \A j \in 1..(Len(r) - 1) : W[j] = r[IF j < k THEN j ELSE j + 1]
    BY <2>2, <2>3, RemoveAtFacts
  <2>6. DOMAIN W = 1..(Len(r) - 1)
    BY <2>5
  <2>7. \A i \in DOMAIN r : (r[i].a = a /\ r[i].gen = g) => i = k
    BY <2>3 DEF KeyIsUnique
  <2> DEFINE P(j) == IF j < k THEN j ELSE j + 1
  <2>8. \A j \in DOMAIN W : P(j) \in DOMAIN r /\ P(j) # k /\ W[j] = r[P(j)]
    BY <2>4, <2>5, <2>6
  <2>9. \A i, j \in DOMAIN W : P(i) = P(j) => i = j
    BY <2>4, <2>6
  <2>10. ASSUME NEW i \in DOMAIN r, i # k PROVE \E j \in DOMAIN W : P(j) = i
    <3>1. CASE i < k
      <4>1. i \in DOMAIN W /\ P(i) = i
        BY <2>4, <2>6, <3>1
      <4> QED
        BY <4>1
    <3>2. CASE ~(i < k)
      <4>1. i - 1 \in DOMAIN W /\ P(i - 1) = i
        BY <2>4, <2>6, <2>10, <3>2
      <4> QED
        BY <4>1
    <3> QED
      BY <3>1, <3>2
  <2> HIDE DEF P
  <2>11. KeyIsUnique(W)
    <3> SUFFICES ASSUME NEW i \in DOMAIN W, NEW j \in DOMAIN W, W[i].a = W[j].a PROVE i = j
      BY DEF KeyIsUnique
    <3>1. r[P(i)].a = r[P(j)].a /\ P(i) \in DOMAIN r /\ P(j) \in DOMAIN r
      BY <2>8
    <3>2. P(i) = P(j)
      BY <3>1 DEF KeyIsUnique
    <3> QED
      BY <3>2, <2>9
  <2>12. \A j \in DOMAIN W : \E i \in DOMAIN r : W[j] = r[i] /\ ~(r[i].a = a /\ r[i].gen = g)
    BY <2>7, <2>8
  <2>13. \A i \in DOMAIN r : ~(r[i].a = a /\ r[i].gen = g) => \E j \in DOMAIN W : W[j] = r[i]
    <3> SUFFICES ASSUME NEW i \in DOMAIN r, ~(r[i].a = a /\ r[i].gen = g) PROVE \E j \in DOMAIN W : W[j] = r[i]
      OBVIOUS
    <3>1. i # k
      BY <2>3
    <3>2. PICK j \in DOMAIN W : P(j) = i
      BY <3>1, <2>10
    <3> QED
      BY <3>2, <2>8
  <2> QED
    BY <2>5, <2>11, <2>12, <2>13 DEF W
<1> QED
  BY <1>1, <1>2

\* The same of what it lists.
LEMMA WithoutLists ==
    ASSUME NEW r \in Seq(RegistryRow), KeyIsUnique(r), NEW a, NEW g
    PROVE  /\ \A b, h : Lists(Without(r, a, g), b, h) <=> Lists(r, b, h) /\ ~(b = a /\ h = g)
           /\ Keys(Without(r, a, g)) \in SUBSET Keys(r)
           /\ (\A i \in DOMAIN r : r[i].a = a => r[i].gen = g) => a \notin Keys(Without(r, a, g))
           /\ Lists(r, a, g) => a \notin Keys(Without(r, a, g))
<1> DEFINE W == Without(r, a, g)
<1>1. \A j \in DOMAIN W : \E i \in DOMAIN r : W[j] = r[i] /\ ~(r[i].a = a /\ r[i].gen = g)
  BY WithoutFacts
<1>2. \A i \in DOMAIN r : ~(r[i].a = a /\ r[i].gen = g) => \E j \in DOMAIN W : W[j] = r[i]
  BY WithoutFacts
<1> HIDE DEF W
<1>3. \A b, h : Lists(W, b, h) <=> Lists(r, b, h) /\ ~(b = a /\ h = g)
  <2> TAKE b, h
  <2>1. ASSUME Lists(W, b, h) PROVE Lists(r, b, h) /\ ~(b = a /\ h = g)
    BY <2>1, <1>1 DEF Lists
  <2>2. ASSUME Lists(r, b, h), ~(b = a /\ h = g) PROVE Lists(W, b, h)
    BY <2>2, <1>2 DEF Lists
  <2> QED
    BY <2>1, <2>2
<1>4. Keys(W) \in SUBSET Keys(r)
  BY <1>1 DEF Keys
<1>5. (\A i \in DOMAIN r : r[i].a = a => r[i].gen = g) => a \notin Keys(W)
  BY <1>1 DEF Keys
<1>6. Lists(r, a, g) => \A i \in DOMAIN r : r[i].a = a => r[i].gen = g
  BY DEF Lists, KeyIsUnique
<1> QED
  BY <1>3, <1>4, <1>5, <1>6 DEF W

\* Fewer aliases fit as well.
LEMMA FewerFit ==
    ASSUME NEW S \in SUBSET Aliases, Fits(S), NEW T \in SUBSET S
    PROVE  Fits(T)
<1>1. IsFiniteSet(S)
  BY AliasNumbers, FS_Subset
<1>2. Cardinality(T) <= Cardinality(S) /\ Cardinality(T) \in Nat /\ Cardinality(S) \in Nat
  BY <1>1, FS_Subset, FS_CardinalityType
<1>3. ASSUME NEW g \in {Group[a] : a \in Aliases} PROVE Cardinality({b \in T : Group[b] = g}) <= PerGroup
  <2> DEFINE U == {b \in S : Group[b] = g}
             V == {b \in T : Group[b] = g}
  <2>1. U \in SUBSET S /\ V \in SUBSET U
    OBVIOUS
  <2>2. Cardinality(U) <= PerGroup
    BY DEF Fits
  <2> HIDE DEF U, V
  <2>3. IsFiniteSet(U)
    BY <1>1, <2>1, FS_Subset
  <2>4. Cardinality(V) <= Cardinality(U) /\ Cardinality(V) \in Nat /\ Cardinality(U) \in Nat
    BY <2>1, <2>3, FS_Subset, FS_CardinalityType
  <2>5. Cardinality(V) <= PerGroup
    BY ONLY <2>2, <2>4, AliasNumbers
  <2> QED
    BY <2>5 DEF V
<1>4. Cardinality(T) <= Total
  <2>1. Cardinality(S) <= Total
    BY DEF Fits
  <2> QED
    BY ONLY <1>2, <2>1, AliasNumbers
<1> QED
  BY <1>3, <1>4 DEF Fits

\* The aliases at some positions are no more than the positions.
LEMMA AliasesAt ==
    ASSUME NEW r \in Seq(RegistryRow), NEW P \in SUBSET DOMAIN r, NEW k \in Nat,
           IsFiniteSet(P), Cardinality(P) <= k, NEW S, S \in SUBSET {r[i].a : i \in P}
    PROVE  IsFiniteSet(S) /\ Cardinality(S) <= k
<1> DEFINE T == {r[i].a : i \in P}
           f == [i \in P |-> r[i].a]
<1>1. f \in Surjection(P, T)
  BY DEF Surjection
<1> HIDE DEF f
<1>2. IsFiniteSet(T) /\ Cardinality(T) <= Cardinality(P)
  BY <1>1, FS_Surjection
<1>3. S \in SUBSET T
  OBVIOUS
<1> HIDE DEF T
<1>4. IsFiniteSet(S) /\ Cardinality(S) <= Cardinality(T)
  BY <1>2, <1>3, FS_Subset
<1>5. Cardinality(S) \in Nat /\ Cardinality(T) \in Nat /\ Cardinality(P) \in Nat
  BY <1>2, <1>4, FS_CardinalityType
<1> QED
  BY ONLY <1>2, <1>4, <1>5, k \in Nat, Cardinality(P) <= k

\* The positions that Oldest leaves out are the newest k, and they are few.
LEMMA OldestFacts ==
    ASSUME NEW r \in Seq(RegistryRow), NEW S \in SUBSET DOMAIN r, NEW k \in Nat, k > 0
    PROVE  /\ \A i \in S \ Newest(S, k) : r[i] \in Oldest(r, S, k)
           /\ IsFiniteSet(Newest(S, k)) /\ Cardinality(Newest(S, k)) <= k /\ Newest(S, k) \in SUBSET S
           /\ \A x \in Oldest(r, S, k) : \E i \in S \ Newest(S, k) : x = r[i]
           /\ Len(r) \in S => Len(r) \in Newest(S, k)
<1>1. S \in SUBSET Nat /\ Len(r) \in Nat /\ \A x \in S : x <= Len(r)
  OBVIOUS
<1>2. IsFiniteSet(S) /\ IsFiniteSet(Newest(S, k)) /\ Cardinality(Newest(S, k)) \in 0..k
  BY ONLY <1>1, k \in Nat, NewestFacts
<1>3. Newest(S, k) \in SUBSET S
  BY DEF Newest
<1>4. \A i \in S : Cardinality({s \in S : s > i}) \in Nat
  <2> TAKE i \in S
  <2>1. {s \in S : s > i} \in SUBSET S
    OBVIOUS
  <2> HIDE DEF Newest
  <2> QED
    BY <2>1, <1>2, FS_Subset, FS_CardinalityType
<1>5. \A i \in S : i \notin Newest(S, k) <=> Cardinality({s \in S : s > i}) >= k
  <2> TAKE i \in S
  <2> DEFINE c == Cardinality({s \in S : s > i})
  <2>1. i \in Newest(S, k) <=> c < k
    BY DEF Newest
  <2>2. c \in Nat
    BY <1>4
  <2> HIDE DEF c
  <2>3. ~(c < k) <=> c >= k
    BY ONLY <2>2, k \in Nat
  <2> QED
    BY <2>1, <2>3 DEF c
<1>6. Oldest(r, S, k) = {r[i] : i \in S \ Newest(S, k)}
  <2>1. {j \in S : Cardinality({m \in S : m > j}) >= k} = S \ Newest(S, k)
    BY <1>5
  <2> QED
    BY <2>1 DEF Oldest
<1>7. ASSUME Len(r) \in S PROVE Len(r) \in Newest(S, k)
  <2>1. {s \in S : s > Len(r)} = {}
    BY <1>1
  <2>2. Cardinality({s \in S : s > Len(r)}) = 0
    BY <2>1, FS_EmptySet
  <2> QED
    BY <1>7, <2>2 DEF Newest
<1>8. Cardinality(Newest(S, k)) <= k
  BY ONLY <1>2, k \in Nat
<1> QED
  BY <1>2, <1>3, <1>6, <1>7, <1>8

\* The victims of a registration are rows of other aliases, and what remains without them fits.
LEMMA VictimsFacts ==
    ASSUME NEW r \in Seq(RegistryRow), Fits(Keys(r)), NEW x \in RegistryRow, x.a \notin Keys(r), x.old = FALSE
    PROVE  /\ VictimsOf(Append(r, x), x.a) \in SUBSET ToSet(r)
           /\ Fits(Keys(Append(r, x)) \ {v.a : v \in VictimsOf(Append(r, x), x.a)})
<1> DEFINE new == Append(r, x)
           a == x.a
           D == DOMAIN new
           G == {i \in D : Group[new[i].a] = Group[a]}
           V == VictimsOf(new, a)
           rest == Keys(new) \ {v.a : v \in V}
<1>1. /\ new \in Seq(RegistryRow) /\ Len(new) = Len(r) + 1 /\ new[Len(new)] = x /\ D = 1..Len(new)
      /\ \A i \in 1..Len(r) : new[i] = r[i]
  OBVIOUS
<1>2. DOMAIN r = 1..Len(r) /\ Len(r) \in Nat /\ Len(new) \in Nat
  BY <1>1
<1>3. Keys(r) \in SUBSET Aliases /\ x.a \in Aliases
  <2>1. \A i \in DOMAIN r : r[i] \in RegistryRow
    OBVIOUS
  <2> QED
    BY <2>1 DEF Keys, RegistryRow
<1>4. Keys(new) = Keys(r) \cup {a}
  <2>1. \A i \in D : i = Len(new) \/ i \in DOMAIN r
    BY <1>1, <1>2
  <2>2. \A i \in DOMAIN r : i \in D /\ new[i] = r[i]
    BY <1>1, <1>2
  <2>3. Len(new) \in D
    BY <1>1, <1>2
  <2> HIDE DEF new, D
  <2> QED
    BY <1>1, <2>1, <2>2, <2>3 DEF Keys, D
<1>5. V = {y \in ToSet(new) : y.old} \cup Oldest(new, G, PerGroup) \cup Oldest(new, D, Total)
  BY DEF VictimsOf
<1>6. G \in SUBSET D /\ Len(new) \in G /\ Len(new) \in D
  BY <1>1, <1>2
<1> DEFINE NG == Newest(G, PerGroup)
           ND == Newest(D, Total)
<1> HIDE DEF new, G, D, V
<1>7. /\ \A i \in G \ NG : new[i] \in Oldest(new, G, PerGroup)
      /\ IsFiniteSet(NG) /\ Cardinality(NG) <= PerGroup /\ NG \in SUBSET G /\ Len(new) \in NG
      /\ \A y \in Oldest(new, G, PerGroup) : \E i \in G \ NG : y = new[i]
  <2>1. PerGroup \in Nat /\ PerGroup > 0 /\ G \in SUBSET DOMAIN new
    BY <1>6, AliasNumbers DEF D
  <2>2. new \in Seq(RegistryRow) /\ Len(new) \in G
    BY <1>1, <1>6
  <2> QED
    BY ONLY <2>1, <2>2, OldestFacts
<1>8. /\ \A i \in D \ ND : new[i] \in Oldest(new, D, Total)
      /\ IsFiniteSet(ND) /\ Cardinality(ND) <= Total /\ ND \in SUBSET D /\ Len(new) \in ND
      /\ \A y \in Oldest(new, D, Total) : \E i \in D \ ND : y = new[i]
  <2>1. Total \in Nat /\ Total > 0 /\ D \in SUBSET DOMAIN new
    BY AliasNumbers DEF D
  <2>2. new \in Seq(RegistryRow) /\ Len(new) \in D
    BY <1>1, <1>6
  <2> QED
    BY ONLY <2>1, <2>2, OldestFacts
<1> HIDE DEF NG, ND
<1>9. V \in SUBSET ToSet(r)
  <2> SUFFICES ASSUME NEW y \in V PROVE y \in ToSet(r)
    OBVIOUS
  <2>1. \E i \in D : y = new[i] /\ i # Len(new)
    <3>1. CASE y \in ToSet(new) /\ y.old
      <4>1. PICK i \in D : y = new[i]
        BY <3>1 DEF ToSet, D
      <4>2. i # Len(new)
        BY <1>1, <3>1, <4>1
      <4> QED
        BY <4>1, <4>2
    <3>2. CASE y \in Oldest(new, G, PerGroup)
      BY <3>2, <1>6, <1>7
    <3>3. CASE y \in Oldest(new, D, Total)
      BY <3>3, <1>8
    <3> QED
      BY <3>1, <3>2, <3>3, <1>5
  <2>2. PICK i \in D : y = new[i] /\ i # Len(new)
    BY <2>1
  <2>3. i \in DOMAIN r /\ y = r[i]
    BY <1>1, <1>2, <2>2
  <2> QED
    BY <2>3 DEF ToSet
<1>10. rest \in SUBSET {new[i].a : i \in ND}
  <2> SUFFICES ASSUME NEW b \in rest PROVE b \in {new[i].a : i \in ND}
    OBVIOUS
  <2>1. PICK i \in D : b = new[i].a
    BY DEF Keys, D
  <2>2. i \in ND
    BY <1>5, <1>8, <2>1
  <2> QED
    BY <2>1, <2>2
<1>11. {b \in rest : Group[b] = Group[a]} \in SUBSET {new[i].a : i \in NG}
  <2> SUFFICES ASSUME NEW b \in rest, Group[b] = Group[a] PROVE b \in {new[i].a : i \in NG}
    OBVIOUS
  <2>1. PICK i \in D : b = new[i].a
    BY DEF Keys, D
  <2>2. i \in G
    BY <2>1 DEF G
  <2>3. i \in NG
    BY <1>5, <1>7, <2>1, <2>2
  <2> QED
    BY <2>1, <2>3
<1>12. rest \in SUBSET (Keys(r) \cup {a})
  BY <1>4
<1> HIDE DEF rest
<1>13. Cardinality(rest) <= Total
  <2>1. ND \in SUBSET DOMAIN new /\ Total \in Nat
    BY <1>8, AliasNumbers DEF D
  <2> QED
    BY <1>1, <1>8, <1>10, <2>1, AliasesAt
<1>14. ASSUME NEW g \in {Group[b] : b \in Aliases} PROVE Cardinality({b \in rest : Group[b] = g}) <= PerGroup
  <2>1. CASE g = Group[a]
    <3>1. NG \in SUBSET DOMAIN new /\ PerGroup \in Nat
      BY <1>6, <1>7, AliasNumbers DEF D
    <3>2. {b \in rest : Group[b] = g} \in SUBSET {new[i].a : i \in NG}
      BY <1>11, <2>1
    <3> QED
      BY <1>1, <1>7, <3>1, <3>2, AliasesAt
  <2>2. CASE g # Group[a]
    <3> DEFINE U == {b \in Keys(r) : Group[b] = g}
               W == {b \in rest : Group[b] = g}
    <3>1. U \in SUBSET Aliases /\ W \in SUBSET U
      BY <1>3, <1>12, <2>2
    <3>2. Cardinality(U) <= PerGroup
      BY DEF Fits
    <3> HIDE DEF U, W
    <3>3. IsFiniteSet(U)
      BY <3>1, AliasNumbers, FS_Subset
    <3>4. Cardinality(W) <= Cardinality(U) /\ Cardinality(W) \in Nat /\ Cardinality(U) \in Nat
      BY <3>1, <3>3, FS_Subset, FS_CardinalityType
    <3>5. Cardinality(W) <= PerGroup
      BY ONLY <3>2, <3>4, AliasNumbers
    <3> QED
      BY <3>5 DEF W
  <2> QED
    BY <2>1, <2>2
<1>15. Fits(rest)
  BY <1>13, <1>14 DEF Fits
<1> QED
  BY <1>9, <1>15 DEF V, rest, new

Seeder == [pc : SeederPc, n : 0..Attempts]

\* What ForgottenForAReason says of one step.
Remembered ==
    \A a \in Aliases :
        (Visible(a) /\ rows'[a] = None) =>
            /\ a \notin leased
            /\ rows[a].old \/ (lock # None /\ lock.who \notin {a, "sweep"})

\* The facts of the current state that the steps use.
LEMMA AliasNow ==
    ASSUME AliasInv
    PROVE  /\ rows \in [Aliases -> AliasRow \cup {None}] /\ leased \in SUBSET Legacy
           /\ reg \in Seq(RegistryRow) /\ lock \in Lock \cup {None} /\ seeder \in [Aliases -> Seeder]
           /\ unreg \in SUBSET (Aliases \X (0..Attempts)) /\ KeyIsUnique(reg) /\ None \notin AliasRow
BY AliasNumbers DEF AliasInv, AliasTypeOK, Seeder

\* The holder of the lock, and the rows on its list.
LEMMA LockFields ==
    ASSUME AliasInv, lock # None
    PROVE  /\ lock \in Lock /\ lock.todo \in SUBSET RegistryRow /\ (lock.who = "sweep" \/ lock.who \in Aliases)
           /\ \A v \in lock.todo : v.a \in Aliases /\ v.gen \in 0..Attempts
<1>1. lock \in Lock
  BY AliasNow
<1> QED
  BY <1>1 DEF Lock, RegistryRow

\* One alias and its seed go on; the registry is not concerned.
LEMMA ObjectKeeps ==
    ASSUME AliasInv, UNCHANGED <<reg, lock>>, NEW a \in Aliases,
           rows' \in [Aliases -> AliasRow \cup {None}], seeder' \in [Aliases -> Seeder],
           leased' \in SUBSET Legacy, unreg' \in SUBSET (Aliases \X (0..Attempts)),
           \A b \in Aliases \ {a} : rows'[b] = rows[b] /\ seeder'[b] = seeder[b],
           seeder[a].pc = "lock" => seeder'[a] = seeder[a],
           rows'[a] # None =>
              /\ seeder'[a].pc # "over" => rows'[a].gen = seeder'[a].n
              /\ rows'[a].adm => seeder'[a].pc = "over"
              /\ (rows'[a].adm \/ seeder'[a].pc \in {"lock", "ok", "staged"}) => Lists(reg, a, rows'[a].gen),
           seeder[a].pc = "over" =>
              /\ seeder'[a].pc = "over"
              /\ rows'[a] # None => /\ rows[a] # None /\ rows'[a].gen = rows[a].gen
                                    /\ rows[a].old => rows'[a].old,
           \A m \in unreg' :
              /\ m \in unreg \/ m[1] = a
              /\ m[1] = a => /\ rows'[a] # None => rows'[a].gen > m[2]
                             /\ seeder'[a].pc # "over" => m[2] <= seeder'[a].n
    PROVE  AliasInv'
<1>1. AliasTypeOK' /\ KeyIsUnique(reg)'
  BY AliasNow DEF AliasTypeOK, Seeder, KeyIsUnique
<1>2. RowsOfSeeds'
  <2> SUFFICES ASSUME NEW b \in Aliases, rows'[b] # None
               PROVE  /\ seeder'[b].pc # "over" => rows'[b].gen = seeder'[b].n
                      /\ rows'[b].adm => seeder'[b].pc = "over"
    BY DEF RowsOfSeeds
  <2>1. CASE b = a
    BY <2>1
  <2>2. CASE b # a
    BY <2>2 DEF AliasInv, RowsOfSeeds
  <2> QED
    BY <2>1, <2>2
<1>3. Registered'
  <2> SUFFICES ASSUME NEW b \in Aliases, rows'[b] # None,
                      rows'[b].adm \/ seeder'[b].pc \in {"lock", "ok", "staged"}
               PROVE  Lists(reg, b, rows'[b].gen)
    BY DEF Registered, Lists
  <2>1. CASE b = a
    BY <2>1
  <2>2. CASE b # a
    BY <2>2 DEF AliasInv, Registered
  <2> QED
    BY <2>1, <2>2
\* what is over stays over, and what has expired stays so
<1>4. ASSUME NEW b \in Aliases, NEW g, seeder[b].pc = "over", Matches(b, g) => rows[b].old
      PROVE  seeder'[b].pc = "over" /\ (Matches(b, g)' => rows'[b].old)
  <2>1. CASE b = a
    BY <1>4, <2>1 DEF Matches
  <2>2. CASE b # a
    BY <1>4, <2>2 DEF Matches
  <2> QED
    BY <2>1, <2>2
<1>5. OldIsOver'
  <2> SUFFICES ASSUME NEW i \in DOMAIN reg, reg[i].old
               PROVE  seeder'[reg[i].a].pc = "over" /\ (Matches(reg[i].a, reg[i].gen)' => rows'[reg[i].a].old)
    BY DEF OldIsOver, Matches
  <2>1. reg[i] \in RegistryRow
    BY AliasNow
  <2>2. reg[i].a \in Aliases
    BY <2>1 DEF RegistryRow
  <2>3. seeder[reg[i].a].pc = "over" /\ (Matches(reg[i].a, reg[i].gen) => rows[reg[i].a].old)
    BY DEF AliasInv, OldIsOver
  <2> QED
    BY <1>4, <2>2, <2>3
<1>6. UnregisterIsLate'
  <2> SUFFICES ASSUME NEW m \in unreg'
               PROVE  /\ rows'[m[1]] # None => rows'[m[1]].gen > m[2]
                      /\ seeder'[m[1]].pc # "over" => m[2] <= seeder'[m[1]].n
    BY DEF UnregisterIsLate
  <2>1. CASE m[1] = a
    BY <2>1
  <2>2. CASE m[1] # a
    <3>1. m \in unreg /\ m[1] \in Aliases \ {a}
      BY <2>2
    <3> QED
      BY <3>1 DEF AliasInv, UnregisterIsLate
  <2> QED
    BY <2>1, <2>2
<1>7. LockHeld'
  <2> SUFFICES ASSUME lock # None PROVE LockHeld'
    BY DEF LockHeld
  <2>1. ASSUME lock.who # "sweep" PROVE seeder'[lock.who] = seeder[lock.who] /\ lock.who \in Aliases
    <3>1. lock.who \in Aliases /\ seeder[lock.who].pc = "lock"
      BY <2>1, LockFields DEF AliasInv, LockHeld
    <3> QED
      BY <3>1
  <2>2. lock.who # "sweep" => seeder'[lock.who].pc = "lock" /\ Lists(reg, lock.who, seeder'[lock.who].n)
    BY <2>1 DEF AliasInv, LockHeld
  <2>3. ASSUME NEW v \in lock.todo
        PROVE  /\ v.a # lock.who /\ \A i \in DOMAIN reg : reg[i].a = v.a => reg[i].gen = v.gen
               /\ lock.who = "sweep" => seeder'[v.a].pc = "over" /\ (Matches(v.a, v.gen)' => rows'[v.a].old)
    <3>1. v.a \in Aliases
      BY LockFields
    <3>2. /\ v.a # lock.who /\ \A i \in DOMAIN reg : reg[i].a = v.a => reg[i].gen = v.gen
          /\ lock.who = "sweep" => seeder[v.a].pc = "over" /\ (Matches(v.a, v.gen) => rows[v.a].old)
      BY DEF AliasInv, LockHeld
    <3> QED
      BY <1>4, <3>1, <3>2
  <2> QED
    BY <2>2, <2>3 DEF LockHeld, Lists, Matches
<1>8. RegistryFits'
  BY DEF AliasInv, RegistryFits
<1> QED
  BY <1>1, <1>2, <1>3, <1>5, <1>6, <1>7, <1>8 DEF AliasInv

\* What SetPc leaves.
LEMMA SetPcFacts ==
    ASSUME AliasInv, NEW a \in Aliases, NEW pc \in SeederPc, SetPc(a, pc)
    PROVE  /\ seeder' \in [Aliases -> Seeder] /\ \A b \in Aliases \ {a} : seeder'[b] = seeder[b]
           /\ seeder'[a].pc = pc /\ (pc # "over" => seeder'[a].n = seeder[a].n)
<1>1. seeder \in [Aliases -> Seeder] /\ seeder[a] \in Seeder
  BY AliasNow
<1> DEFINE S == [pc |-> pc, n |-> IF pc = "over" THEN 0 ELSE seeder[a].n]
<1>2. seeder' = [seeder EXCEPT ![a] = S]
  BY <1>1 DEF SetPc
<1>3. S \in Seeder /\ S.pc = pc /\ (pc # "over" => S.n = seeder[a].n)
  BY <1>1, AliasNumbers DEF Seeder
<1> HIDE DEF S
<1> QED
  BY <1>1, <1>2, <1>3

\* The invariant at one alias.
LEMMA AliasAt ==
    ASSUME AliasInv, NEW a \in Aliases
    PROVE  /\ rows[a] \in AliasRow \cup {None} /\ seeder[a] \in Seeder /\ seeder[a].pc \in SeederPc
           /\ seeder[a].n \in 0..Attempts
           /\ rows[a] # None =>
                 /\ rows[a].gen \in 0..Attempts /\ rows[a].adm \in BOOLEAN /\ rows[a].old \in BOOLEAN
                 /\ seeder[a].pc # "over" => rows[a].gen = seeder[a].n
                 /\ rows[a].adm => seeder[a].pc = "over"
                 /\ (rows[a].adm \/ seeder[a].pc \in {"lock", "ok", "staged"}) => Lists(reg, a, rows[a].gen)
           /\ \A m \in unreg : m[1] = a => /\ rows[a] # None => rows[a].gen > m[2]
                                           /\ seeder[a].pc # "over" => m[2] <= seeder[a].n
<1>1. rows[a] \in AliasRow \cup {None} /\ seeder[a] \in Seeder
  BY AliasNow
<1>2. seeder[a].pc \in SeederPc /\ seeder[a].n \in 0..Attempts
  BY <1>1 DEF Seeder
<1>3. rows[a] # None => rows[a].gen \in 0..Attempts /\ rows[a].adm \in BOOLEAN /\ rows[a].old \in BOOLEAN
  BY <1>1 DEF AliasRow
<1>4. rows[a] # None =>
         /\ seeder[a].pc # "over" => rows[a].gen = seeder[a].n
         /\ rows[a].adm => seeder[a].pc = "over"
         /\ (rows[a].adm \/ seeder[a].pc \in {"lock", "ok", "staged"}) => Lists(reg, a, rows[a].gen)
  BY DEF AliasInv, RowsOfSeeds, Registered
<1>5. \A m \in unreg : m[1] = a => /\ rows[a] # None => rows[a].gen > m[2]
                                   /\ seeder[a].pc # "over" => m[2] <= seeder[a].n
  BY DEF AliasInv, UnregisterIsLate
<1> QED
  BY <1>1, <1>2, <1>3, <1>4, <1>5

\* A step of the seed alone, to a step that needs no registration.
LEMMA SeedOnly ==
    ASSUME AliasInv, NEW a \in Aliases, NEW pc \in SeederPc, SetPc(a, pc),
           seeder[a].pc \notin {"lock", "over"},
           pc \in {"lock", "ok", "staged"} => seeder[a].pc \in {"lock", "ok", "staged"},
           UNCHANGED <<rows, leased, reg, lock, unreg>>
    PROVE  AliasInv' /\ Remembered
<1>1. /\ seeder' \in [Aliases -> Seeder] /\ \A b \in Aliases \ {a} : seeder'[b] = seeder[b]
      /\ seeder'[a].pc = pc /\ (pc # "over" => seeder'[a].n = seeder[a].n)
  BY SetPcFacts
<1>2. rows'[a] # None =>
         /\ seeder'[a].pc # "over" => rows'[a].gen = seeder'[a].n
         /\ rows'[a].adm => seeder'[a].pc = "over"
         /\ (rows'[a].adm \/ seeder'[a].pc \in {"lock", "ok", "staged"}) => Lists(reg, a, rows'[a].gen)
  BY <1>1, AliasAt
<1>3. \A m \in unreg' :
         /\ m \in unreg \/ m[1] = a
         /\ m[1] = a => /\ rows'[a] # None => rows'[a].gen > m[2]
                        /\ seeder'[a].pc # "over" => m[2] <= seeder'[a].n
  BY <1>1, AliasAt
<1>4. AliasInv'
  BY <1>1, <1>2, <1>3, AliasNow, ObjectKeeps
<1>5. Remembered
  BY DEF Remembered, Visible
<1> QED
  BY <1>4, <1>5

\* The states of a seed.
LEMMA SeederStates ==
    {"idle", "turn", "ask", "lock", "ok", "busy", "broken", "staged", "over"} = SeederPc
BY DEF SeederPc

\* A request begins: its parent is visible, or it has none.
LEMMA BeginStep == ASSUME AliasInv, NEW a \in Aliases, Begin(a) PROVE AliasInv' /\ Remembered
<1>1. SetPc(a, "turn") /\ seeder[a].pc = "idle" /\ UNCHANGED <<rows, leased, reg, lock, unreg>>
  BY DEF Begin
<1> QED
  BY <1>1, SeedOnly, SeederStates

\* The turn fails before a seed.
LEMMA TurnLostStep == ASSUME AliasInv, NEW a \in Aliases, TurnLost(a) PROVE AliasInv' /\ Remembered
<1>1. SetPc(a, "over") /\ seeder[a].pc = "turn" /\ UNCHANGED <<rows, leased, reg, lock, unreg>>
  BY DEF TurnLost
<1> QED
  BY <1>1, SeedOnly, SeederStates

\* The call of the registry fails.
LEMMA RegisterLostStep == ASSUME AliasInv, NEW a \in Aliases, RegisterLost(a) PROVE AliasInv' /\ Remembered
<1>1. SetPc(a, "broken") /\ seeder[a].pc = "ask" /\ UNCHANGED <<rows, leased, reg, lock, unreg>>
  BY DEF RegisterLost
<1> QED
  BY <1>1, SeedOnly, SeederStates

\* Nobody publishes.
LEMMA NeverPublishedStep == ASSUME AliasInv, NEW a \in Aliases, NeverPublished(a) PROVE AliasInv' /\ Remembered
<1>1. SetPc(a, "over") /\ seeder[a].pc = "staged" /\ UNCHANGED <<rows, leased, reg, lock, unreg>>
  BY DEF NeverPublished
<1> QED
  BY <1>1, SeedOnly, SeederStates

\* expireIfIdle.
LEMMA ExpireStep == ASSUME AliasInv, NEW a \in Aliases, ExpireAlias(a) PROVE AliasInv' /\ Remembered
<1>1. /\ rows[a] # None /\ a \notin leased /\ rows[a].old /\ rows' = [rows EXCEPT ![a] = None]
      /\ unreg' = unreg \cup {<<a, rows[a].gen>>} /\ UNCHANGED <<leased, reg, seeder, lock>>
  BY DEF ExpireAlias
<1>2. rows' \in [Aliases -> AliasRow \cup {None}] /\ rows'[a] = None /\ \A b \in Aliases \ {a} : rows'[b] = rows[b]
  BY <1>1, AliasNow
<1>3. rows[a].gen \in 0..Attempts /\ (seeder[a].pc # "over" => rows[a].gen = seeder[a].n)
  BY <1>1, AliasAt
<1>4. unreg' \in SUBSET (Aliases \X (0..Attempts))
  BY <1>1, <1>3, AliasNow
<1>5. ASSUME NEW m \in unreg', m[1] = a, seeder[a].pc # "over" PROVE m[2] <= seeder[a].n
  <2>1. CASE m \in unreg
    BY <1>5, <2>1, AliasAt
  <2>2. CASE m = <<a, rows[a].gen>>
    BY <1>3, <1>5, <2>2, AliasNumbers
  <2> QED
    BY <1>1, <2>1, <2>2
<1>6. AliasInv'
  BY <1>1, <1>2, <1>4, <1>5, AliasNow, ObjectKeeps
<1>7. Remembered
  BY <1>1, <1>2 DEF Remembered, Visible
<1> QED
  BY <1>6, <1>7

\* The lease of a legacy alias ends.
LEMMA LeaseEndsStep == ASSUME AliasInv, NEW a \in Aliases, LeaseEnds(a) PROVE AliasInv' /\ Remembered
<1>1. leased' = leased \ {a} /\ UNCHANGED <<rows, reg, seeder, lock, unreg>>
  BY DEF LeaseEnds
<1>2. AliasInv'
  BY <1>1, AliasNow, AliasAt, ObjectKeeps
<1>3. Remembered
  BY <1>1 DEF Remembered, Visible
<1> QED
  BY <1>2, <1>3

\* A row is changed in its flags: it keeps its generation.
LEMMA FlagsOnly ==
    ASSUME AliasInv, NEW a \in Aliases, rows[a] # None, NEW R \in AliasRow, R.gen = rows[a].gen,
           rows' = [rows EXCEPT ![a] = R], seeder' \in [Aliases -> Seeder],
           \A b \in Aliases \ {a} : seeder'[b] = seeder[b],
           seeder[a].pc \in {"lock", "over"} => seeder'[a] = seeder[a] /\ (rows[a].old => R.old),
           seeder'[a] = seeder[a] \/ seeder'[a].pc = "over",
           R.adm => seeder'[a].pc = "over" /\ (rows[a].adm \/ seeder[a].pc \in {"ok", "staged"}),
           UNCHANGED <<leased, reg, lock, unreg>>
    PROVE  AliasInv' /\ Remembered
<1>1. /\ rows' \in [Aliases -> AliasRow \cup {None}] /\ rows'[a] = R /\ R # None
      /\ \A b \in Aliases \ {a} : rows'[b] = rows[b]
  BY AliasNow
<1>2. /\ seeder'[a].pc # "over" => rows'[a].gen = seeder'[a].n
      /\ rows'[a].adm => seeder'[a].pc = "over"
      /\ (rows'[a].adm \/ seeder'[a].pc \in {"lock", "ok", "staged"}) => Lists(reg, a, rows'[a].gen)
  <2>1. seeder'[a].pc # "over" => rows'[a].gen = seeder'[a].n
    BY <1>1, AliasAt
  <2>2. ASSUME R.adm PROVE Lists(reg, a, R.gen)
    BY <2>2, AliasAt
  <2>3. ASSUME seeder'[a].pc \in {"lock", "ok", "staged"} PROVE Lists(reg, a, R.gen)
    <3>1. seeder'[a] = seeder[a]
      BY <2>3
    <3> QED
      BY <2>3, <3>1, AliasAt
  <2> QED
    BY <1>1, <2>1, <2>2, <2>3
<1>3. \A m \in unreg' :
         /\ m \in unreg \/ m[1] = a
         /\ m[1] = a => /\ rows'[a] # None => rows'[a].gen > m[2]
                        /\ seeder'[a].pc # "over" => m[2] <= seeder'[a].n
  BY <1>1, AliasAt
<1>4. seeder[a].pc = "over" =>
         /\ seeder'[a].pc = "over"
         /\ rows'[a] # None => /\ rows[a] # None /\ rows'[a].gen = rows[a].gen /\ (rows[a].old => rows'[a].old)
  BY <1>1
<1>5. AliasInv'
  BY <1>1, <1>2, <1>3, <1>4, AliasNow, ObjectKeeps
<1>6. Remembered
  <2>1. ASSUME NEW b \in Aliases, Visible(b), rows'[b] = None PROVE FALSE
    BY <1>1, <2>1 DEF Visible
  <2> QED
    BY <2>1 DEF Remembered
<1> QED
  BY <1>5, <1>6

\* A staged row outlives the pending TTL.
LEMMA LapseStep == ASSUME AliasInv, NEW a \in Aliases, Lapse(a) PROVE AliasInv' /\ Remembered
<1>1. rows[a] # None /\ ~rows[a].adm /\ rows' = [rows EXCEPT ![a].old = TRUE]
  BY DEF Lapse
<1>2. UNCHANGED <<leased, reg, seeder, lock, unreg>>
  BY DEF Lapse
<1> DEFINE R == [rows[a] EXCEPT !.old = TRUE]
<1>3. rows[a] \in AliasRow
  BY <1>1, AliasAt
<1>4. R \in AliasRow /\ R.gen = rows[a].gen /\ R.adm = rows[a].adm /\ R.old
  BY <1>3 DEF AliasRow
<1>5. rows' = [rows EXCEPT ![a] = R]
  BY <1>1
<1> HIDE DEF R
<1> QED
  BY <1>1, <1>2, <1>4, <1>5, AliasNow, FlagsOnly

\* A row becomes visible: its seed is over.
LEMMA AdmitOnly ==
    ASSUME AliasInv, NEW a \in Aliases, rows[a] # None, seeder[a].pc \in {"ok", "staged"}, SetPc(a, "over"),
           rows' = [rows EXCEPT ![a] = [@ EXCEPT !.adm = TRUE, !.old = FALSE]], UNCHANGED <<leased, reg, lock, unreg>>
    PROVE  AliasInv' /\ Remembered
<1> DEFINE R == [rows[a] EXCEPT !.adm = TRUE, !.old = FALSE]
<1>1. rows[a] \in AliasRow
  BY AliasAt
<1>2. R \in AliasRow /\ R.gen = rows[a].gen
  BY <1>1 DEF AliasRow
<1>3. rows' = [rows EXCEPT ![a] = R]
  OBVIOUS
<1>4. "over" \in SeederPc
  BY SeederStates
<1>5. seeder' \in [Aliases -> Seeder] /\ seeder'[a].pc = "over" /\ \A b \in Aliases \ {a} : seeder'[b] = seeder[b]
  BY <1>4, SetPcFacts
<1> HIDE DEF R
<1> QED
  BY <1>2, <1>3, <1>5, FlagsOnly

\* The registry has answered ok.
LEMMA AdmitStep == ASSUME AliasInv, NEW a \in Aliases, Admit(a) PROVE AliasInv' /\ Remembered
<1>1. seeder[a].pc = "ok" /\ UNCHANGED <<leased, reg, lock, unreg>>
  BY DEF Admit
<1>2. CASE a \in Streamed
  <2>1. SetPc(a, "staged") /\ UNCHANGED rows
    BY <1>2 DEF Admit
  <2> QED
    BY <1>1, <2>1, SeedOnly, SeederStates
<1>3. CASE a \notin Streamed /\ Matches(a, seeder[a].n)
  <2>1. SetPc(a, "over") /\ rows' = [rows EXCEPT ![a] = [@ EXCEPT !.adm = TRUE, !.old = FALSE]]
    BY <1>3 DEF Admit
  <2>2. rows[a] # None
    BY <1>3 DEF Matches
  <2> QED
    BY <1>1, <2>1, <2>2, AdmitOnly
<1>4. CASE a \notin Streamed /\ ~Matches(a, seeder[a].n)
  <2> DEFINE pc == IF seeder[a].n < Attempts THEN "turn" ELSE "over"
  <2>1. SetPc(a, pc) /\ UNCHANGED rows
    BY <1>4 DEF Admit
  <2>2. pc \in SeederPc /\ pc \notin {"lock", "ok", "staged"}
    BY SeederStates
  <2> HIDE DEF pc
  <2> QED
    BY <1>1, <2>1, <2>2, SeedOnly
<1> QED
  BY <1>2, <1>3, <1>4

\* publishResponseAlias.
LEMMA PublishAliasStep == ASSUME AliasInv, NEW a \in Aliases, Publish(a) PROVE AliasInv' /\ Remembered
<1>1. seeder[a].pc = "staged" /\ UNCHANGED <<leased, reg, lock, unreg>> /\ SetPc(a, "over")
  BY DEF Publish
<1>2. CASE Matches(a, seeder[a].n) /\ a \notin leased
  <2>1. rows' = [rows EXCEPT ![a] = [@ EXCEPT !.adm = TRUE, !.old = FALSE]] /\ rows[a] # None
    BY <1>2 DEF Publish, Matches
  <2> QED
    BY <1>1, <2>1, AdmitOnly
<1>3. CASE ~(Matches(a, seeder[a].n) /\ a \notin leased)
  <2>1. UNCHANGED rows
    BY <1>3 DEF Publish
  <2> QED
    BY <1>1, <2>1, SeedOnly, SeederStates
<1> QED
  BY <1>2, <1>3

\* seed: a new generation, unadmitted.
LEMMA SeedStepKeeps == ASSUME AliasInv, NEW a \in Aliases, Seed(a) PROVE AliasInv' /\ Remembered
<1> DEFINE n == seeder[a].n + 1
           S == [pc |-> "ask", n |-> n]
           R == [gen |-> n, adm |-> FALSE, old |-> FALSE]
<1>1. /\ seeder[a].pc = "turn" /\ rows[a] = None /\ seeder[a].n < Attempts
      /\ seeder' = [seeder EXCEPT ![a] = S] /\ rows' = [rows EXCEPT ![a] = R]
      /\ UNCHANGED <<leased, reg, lock, unreg>>
  BY DEF Seed
<1>2. seeder[a].n \in 0..Attempts /\ n \in 0..Attempts
  BY <1>1, AliasAt, AliasNumbers
<1>3. S \in Seeder /\ R \in AliasRow
  BY <1>2, SeederStates DEF Seeder, AliasRow
<1>4. /\ rows' \in [Aliases -> AliasRow \cup {None}] /\ seeder' \in [Aliases -> Seeder]
      /\ rows'[a] = R /\ seeder'[a] = S
      /\ \A b \in Aliases \ {a} : rows'[b] = rows[b] /\ seeder'[b] = seeder[b]
  BY <1>1, <1>3, AliasNow
<1>5. /\ seeder'[a].pc = "ask" /\ seeder'[a].n = n /\ rows'[a].gen = n /\ rows'[a].adm = FALSE
  BY <1>4
<1>6. ASSUME NEW m \in unreg, m[1] = a PROVE m[2] <= n /\ n > m[2]
  <2>1. m[2] <= seeder[a].n /\ m[2] \in 0..Attempts
    BY <1>1, <1>6, AliasAt, AliasNow
  <2> QED
    BY <1>2, <2>1, AliasNumbers
<1> HIDE DEF n, S, R
<1>7. AliasInv'
  BY <1>1, <1>4, <1>5, <1>6, AliasNow, ObjectKeeps
<1>8. Remembered
  <2>1. ASSUME NEW b \in Aliases, Visible(b), rows'[b] = None PROVE FALSE
    BY <1>1, <1>4, <2>1 DEF Visible
  <2> QED
    BY <2>1 DEF Remembered
<1> QED
  BY <1>7, <1>8

\* What evictResponseAlias leaves.
LEMMA EvictedFacts ==
    ASSUME AliasInv, NEW a \in Aliases, NEW g
    PROVE  /\ Evicted(a, g) \in [Aliases -> AliasRow \cup {None}]
           /\ \A b \in Aliases : Evicted(a, g)[b] = rows[b] \/ Evicted(a, g)[b] = None
           /\ \A b \in Aliases \ {a} : Evicted(a, g)[b] = rows[b]
           /\ Evicted(a, g)[a] # rows[a] => rows[a].gen = g /\ a \notin leased
           /\ EvictResult(a, g) # "busy" => Evicted(a, g)[a] = None \/ rows[a].gen # g
<1>1. CASE EvictResult(a, g) = "evicted"
  <2>1. Evicted(a, g) = [rows EXCEPT ![a] = None] /\ rows[a] # None /\ rows[a].gen = g /\ a \notin leased
    BY <1>1 DEF Evicted, EvictResult
  <2> QED
    BY <2>1, AliasNow
<1>2. CASE EvictResult(a, g) # "evicted"
  <2>1. Evicted(a, g) = rows
    BY <1>2 DEF Evicted
  <2>2. EvictResult(a, g) # "busy" => rows[a] = None \/ rows[a].gen # g
    BY <1>2 DEF EvictResult
  <2> QED
    BY <2>1, <2>2, AliasNow
<1> QED
  BY <1>1, <1>2

\* The registry has refused: the row is evicted.
LEMMA RefusedStep == ASSUME AliasInv, NEW a \in Aliases, Refused(a) PROVE AliasInv' /\ Remembered
<1> DEFINE pc == IF seeder[a].pc = "busy" /\ seeder[a].n < Attempts THEN "turn" ELSE "over"
<1>1. /\ seeder[a].pc \in {"busy", "broken"} /\ rows' = Evicted(a, seeder[a].n) /\ SetPc(a, pc)
      /\ UNCHANGED <<leased, reg, lock, unreg>>
  BY DEF Refused
<1>2. pc \in SeederPc /\ pc \in {"turn", "over"}
  BY SeederStates
<1> HIDE DEF pc
<1>3. /\ seeder' \in [Aliases -> Seeder] /\ \A b \in Aliases \ {a} : seeder'[b] = seeder[b]
      /\ seeder'[a].pc = pc /\ (pc # "over" => seeder'[a].n = seeder[a].n)
  BY <1>1, <1>2, SetPcFacts
<1>4. /\ rows' \in [Aliases -> AliasRow \cup {None}] /\ \A b \in Aliases \ {a} : rows'[b] = rows[b]
      /\ rows'[a] = rows[a] \/ rows'[a] = None
  BY <1>1, EvictedFacts
<1>5. rows[a] # None => ~rows[a].adm /\ rows[a].gen = seeder[a].n
  BY <1>1, AliasAt
<1>6. rows'[a] # None =>
         /\ seeder'[a].pc # "over" => rows'[a].gen = seeder'[a].n
         /\ rows'[a].adm => seeder'[a].pc = "over"
         /\ (rows'[a].adm \/ seeder'[a].pc \in {"lock", "ok", "staged"}) => Lists(reg, a, rows'[a].gen)
  BY <1>2, <1>3, <1>4, <1>5
<1>7. \A m \in unreg' :
         /\ m \in unreg \/ m[1] = a
         /\ m[1] = a => /\ rows'[a] # None => rows'[a].gen > m[2]
                        /\ seeder'[a].pc # "over" => m[2] <= seeder'[a].n
  BY <1>1, <1>3, <1>4, AliasAt
<1>8. AliasInv'
  BY <1>1, <1>3, <1>4, <1>6, <1>7, AliasNow, ObjectKeeps
<1>9. Remembered
  <2>1. ASSUME NEW b \in Aliases, Visible(b), rows'[b] = None PROVE FALSE
    BY <1>4, <1>5, <2>1 DEF Visible
  <2> QED
    BY <2>1 DEF Remembered
<1> QED
  BY <1>8, <1>9

\* The aliases of the registry.
LEMMA KeysAreAliases == ASSUME NEW r \in Seq(RegistryRow) PROVE Keys(r) \in SUBSET Aliases
<1>1. \A i \in DOMAIN r : r[i] \in RegistryRow
  OBVIOUS
<1> QED
  BY <1>1 DEF Keys, RegistryRow

\* A step of the registry that only removes rows, of aliases that are neither visible nor to become so.
LEMMA RegistryShrinks ==
    ASSUME AliasInv, NEW a \in Aliases, NEW g,
           rows' \in [Aliases -> AliasRow \cup {None}], \A b \in Aliases : rows'[b] = rows[b] \/ rows'[b] = None,
           reg' = Without(reg, a, g), rows'[a] = None \/ rows'[a].gen # g,
           unreg' \in SUBSET unreg, UNCHANGED <<leased, seeder>>
    PROVE  RowsOfSeeds' /\ Registered' /\ OldIsOver' /\ UnregisterIsLate' /\ KeyIsUnique(reg)'
<1>1. RowsOfSeeds'
  <2> SUFFICES ASSUME NEW b \in Aliases, rows'[b] # None
               PROVE  /\ seeder[b].pc # "over" => rows'[b].gen = seeder[b].n
                      /\ rows'[b].adm => seeder[b].pc = "over"
    BY DEF RowsOfSeeds
  <2> QED
    BY AliasAt
<1>2. Registered'
  <2> SUFFICES ASSUME NEW b \in Aliases, rows'[b] # None,
                      rows'[b].adm \/ seeder[b].pc \in {"lock", "ok", "staged"}
               PROVE  Lists(reg', b, rows'[b].gen)
    BY DEF Registered
  <2>1. rows'[b] = rows[b] /\ Lists(reg, b, rows'[b].gen)
    BY AliasAt
  <2>2. ~(b = a /\ rows'[b].gen = g)
    OBVIOUS
  <2> QED
    BY <2>1, <2>2, AliasNow, WithoutLists
<1>3. OldIsOver'
  <2> SUFFICES ASSUME NEW j \in DOMAIN reg', reg'[j].old
               PROVE  /\ seeder[reg'[j].a].pc = "over"
                      /\ rows'[reg'[j].a] # None /\ rows'[reg'[j].a].gen = reg'[j].gen => rows'[reg'[j].a].old
    BY DEF OldIsOver, Matches
  <2>1. PICK i \in DOMAIN reg : reg'[j] = reg[i]
    BY AliasNow, WithoutFacts
  <2>2. reg[i] \in RegistryRow
    BY AliasNow
  <2>3. reg[i].a \in Aliases
    BY <2>2 DEF RegistryRow
  <2>4. seeder[reg[i].a].pc = "over" /\ (Matches(reg[i].a, reg[i].gen) => rows[reg[i].a].old)
    BY <2>1 DEF AliasInv, OldIsOver
  <2> QED
    BY <2>1, <2>3, <2>4 DEF Matches
<1>4. UnregisterIsLate'
  <2> SUFFICES ASSUME NEW m \in unreg'
               PROVE  /\ rows'[m[1]] # None => rows'[m[1]].gen > m[2]
                      /\ seeder[m[1]].pc # "over" => m[2] <= seeder[m[1]].n
    BY DEF UnregisterIsLate
  <2>1. m \in unreg /\ m[1] \in Aliases
    BY AliasNow
  <2> QED
    BY <2>1 DEF AliasInv, UnregisterIsLate
<1>5. KeyIsUnique(reg)'
  <2>1. KeyIsUnique(reg')
    BY AliasNow, WithoutFacts
  <2> QED
    BY <2>1 DEF KeyIsUnique
<1> QED
  BY <1>1, <1>2, <1>3, <1>4, <1>5

\* unregisterResponseAlias.
LEMMA UnregisterStep == ASSUME AliasInv, NEW m \in unreg, Unregister(m) PROVE AliasInv' /\ Remembered
<1>1. unreg' = unreg \ {m} /\ UNCHANGED <<rows, leased, seeder, lock>>
  BY DEF Unregister
<1>2. m[1] \in Aliases
  BY AliasNow
<1>3. CASE UNCHANGED reg
  BY <1>1, <1>2, <1>3, AliasNow, AliasAt, ObjectKeeps DEF Remembered, Visible
<1>4. CASE lock = None /\ reg' = Without(reg, m[1], m[2])
  <2>1. rows[m[1]] = None \/ rows[m[1]].gen # m[2]
    <3>1. rows[m[1]] # None => rows[m[1]].gen > m[2] /\ rows[m[1]].gen \in 0..Attempts /\ m[2] \in 0..Attempts
      BY <1>2, AliasAt, AliasNow
    <3> QED
      BY <3>1, AliasNumbers
  <2>2. RowsOfSeeds' /\ Registered' /\ OldIsOver' /\ UnregisterIsLate' /\ KeyIsUnique(reg)'
    BY <1>1, <1>2, <1>4, <2>1, AliasNow, RegistryShrinks
  <2>3. reg' \in Seq(RegistryRow)
    BY <1>4, AliasNow, WithoutFacts
  <2>4. AliasTypeOK'
    BY <1>1, <2>3, AliasNow DEF AliasTypeOK, Seeder
  <2>5. LockHeld'
    BY <1>1, <1>4 DEF LockHeld
  <2>6. RegistryFits'
    <3>1. Fits(Keys(reg)) /\ Keys(reg) \in SUBSET Aliases /\ Keys(reg') \in SUBSET Keys(reg)
      BY <1>4, AliasNow, KeysAreAliases, WithoutLists DEF AliasInv, RegistryFits
    <3>2. Fits(Keys(reg'))
      BY <3>1, FewerFit
    <3> QED
      BY <1>1, <1>4, <3>2 DEF RegistryFits
  <2> QED
    BY <1>1, <2>2, <2>4, <2>5, <2>6 DEF AliasInv, Remembered, Visible
<1> QED
  BY <1>3, <1>4 DEF Unregister

\* The alias TTL passes for the oldest registered row.
LEMMA LapseFullStep == ASSUME AliasInv, NEW i \in DOMAIN reg, LapseFull(i) PROVE AliasInv' /\ Remembered
<1> DEFINE a == reg[i].a
           x == [reg[i] EXCEPT !.old = TRUE]
<1>1. seeder[a].pc = "over" /\ UNCHANGED <<leased, seeder, lock, unreg>>
  BY DEF LapseFull
<1>2. reg[i] \in RegistryRow /\ reg \in Seq(RegistryRow)
  BY AliasNow
<1>3. a \in Aliases /\ x \in RegistryRow /\ x.a = a /\ x.gen = reg[i].gen
  BY <1>2 DEF RegistryRow
<1>4. /\ reg' \in Seq(RegistryRow) /\ DOMAIN reg' = DOMAIN reg /\ reg'[i] = x
      /\ \A j \in DOMAIN reg \ {i} : reg'[j] = reg[j]
  <2>1. reg' = [reg EXCEPT ![i] = x]
    BY DEF LapseFull
  <2> HIDE DEF x
  <2> QED
    BY <1>2, <1>3, <2>1
<1>5. \A j \in DOMAIN reg : reg'[j].a = reg[j].a /\ reg'[j].gen = reg[j].gen
  BY <1>3, <1>4
<1>6. /\ rows' \in [Aliases -> AliasRow \cup {None}] /\ \A b \in Aliases \ {a} : rows'[b] = rows[b]
      /\ rows'[a] = None <=> rows[a] = None
      /\ rows[a] # None => /\ rows'[a].gen = rows[a].gen /\ rows'[a].adm = rows[a].adm
                           /\ rows[a].old => rows'[a].old
                           /\ rows[a].gen = reg[i].gen => rows'[a].old
  <2>1. CASE Matches(a, reg[i].gen)
    <3> DEFINE R == [rows[a] EXCEPT !.old = TRUE]
    <3>1. rows' = [rows EXCEPT ![a].old = TRUE]
      BY <2>1 DEF LapseFull
    <3>2. rows[a] \in AliasRow
      BY <1>3, <2>1, AliasAt DEF Matches
    <3>3. R \in AliasRow /\ R.gen = rows[a].gen /\ R.adm = rows[a].adm /\ R.old
      BY <3>2 DEF AliasRow
    <3>4. rows' = [rows EXCEPT ![a] = R]
      BY <3>1
    <3> HIDE DEF R, a
    <3> QED
      BY <1>3, <3>2, <3>3, <3>4, AliasNow
  <2>2. CASE ~Matches(a, reg[i].gen)
    <3>1. rows' = rows
      BY <2>2 DEF LapseFull
    <3> QED
      BY <2>2, <3>1, AliasNow DEF Matches
  <2> QED
    BY <2>1, <2>2
<1> HIDE DEF a, x
<1>7. AliasTypeOK' /\ KeyIsUnique(reg)'
  BY <1>1, <1>4, <1>5, <1>6, AliasNow DEF AliasTypeOK, Seeder, KeyIsUnique
<1>8. \A b, h : Lists(reg', b, h) <=> Lists(reg, b, h)
  BY <1>4, <1>5 DEF Lists
<1>9. \A b \in Aliases : /\ rows'[b] # None <=> rows[b] # None
                         /\ rows[b] # None => /\ rows'[b].gen = rows[b].gen /\ rows'[b].adm = rows[b].adm
                                              /\ rows[b].old => rows'[b].old
  BY <1>3, <1>6
<1>10. RowsOfSeeds'
  BY <1>1, <1>9 DEF AliasInv, RowsOfSeeds
<1>11. Registered'
  <2> SUFFICES ASSUME NEW b \in Aliases, rows'[b] # None,
                      rows'[b].adm \/ seeder[b].pc \in {"lock", "ok", "staged"}
               PROVE  Lists(reg', b, rows'[b].gen)
    BY <1>1 DEF Registered
  <2> QED
    BY <1>8, <1>9, AliasAt
<1>12. OldIsOver'
  <2> SUFFICES ASSUME NEW j \in DOMAIN reg, reg'[j].old
               PROVE  seeder[reg[j].a].pc = "over" /\
                      (rows'[reg[j].a] # None /\ rows'[reg[j].a].gen = reg[j].gen => rows'[reg[j].a].old)
    BY <1>1, <1>4, <1>5 DEF OldIsOver, Matches
  <2>1. CASE j = i
    BY <1>1, <1>6, <2>1 DEF a
  <2>2. CASE j # i
    <3>1. reg[j].old
      BY <1>4, <2>2
    <3>2. reg[j] \in RegistryRow
      BY AliasNow
    <3>3. reg[j].a \in Aliases
      BY <3>2 DEF RegistryRow
    <3>4. seeder[reg[j].a].pc = "over" /\ (Matches(reg[j].a, reg[j].gen) => rows[reg[j].a].old)
      BY <3>1 DEF AliasInv, OldIsOver
    <3> QED
      BY <1>9, <3>3, <3>4 DEF Matches
  <2> QED
    BY <2>1, <2>2
<1>13. UnregisterIsLate'
  <2> SUFFICES ASSUME NEW m \in unreg
               PROVE  /\ rows'[m[1]] # None => rows'[m[1]].gen > m[2]
                      /\ seeder[m[1]].pc # "over" => m[2] <= seeder[m[1]].n
    BY <1>1 DEF UnregisterIsLate
  <2>1. m[1] \in Aliases
    BY AliasNow
  <2> QED
    BY <1>9, <2>1 DEF AliasInv, UnregisterIsLate
<1>14. LockHeld'
  <2> SUFFICES ASSUME lock # None PROVE LockHeld'
    BY <1>1 DEF LockHeld
  <2>1. lock.who # "sweep" => seeder[lock.who].pc = "lock" /\ Lists(reg', lock.who, seeder[lock.who].n)
    BY <1>8 DEF AliasInv, LockHeld
  <2>2. ASSUME NEW v \in lock.todo
        PROVE  /\ v.a # lock.who /\ \A j \in DOMAIN reg' : reg'[j].a = v.a => reg'[j].gen = v.gen
               /\ lock.who = "sweep" => /\ seeder[v.a].pc = "over"
                                        /\ rows'[v.a] # None /\ rows'[v.a].gen = v.gen => rows'[v.a].old
    <3>1. v.a \in Aliases
      BY LockFields
    <3>2. /\ v.a # lock.who /\ \A j \in DOMAIN reg : reg[j].a = v.a => reg[j].gen = v.gen
          /\ lock.who = "sweep" => seeder[v.a].pc = "over" /\ (Matches(v.a, v.gen) => rows[v.a].old)
      BY DEF AliasInv, LockHeld
    <3> QED
      BY <1>4, <1>5, <1>9, <3>1, <3>2 DEF Matches
  <2> QED
    BY <1>1, <2>1, <2>2 DEF LockHeld, Matches
<1>15. RegistryFits'
  <2>1. Keys(reg') = Keys(reg)
    BY <1>4, <1>5 DEF Keys
  <2> QED
    BY <1>1, <2>1 DEF AliasInv, RegistryFits
<1>16. Remembered
  BY <1>9 DEF Remembered, Visible
<1> QED
  BY <1>7, <1>10, <1>11, <1>12, <1>13, <1>14, <1>15, <1>16 DEF AliasInv

\* The registry answers a seed, or takes it in: what holds of the rows, whatever becomes of the lock.
LEMMA AnswerKeeps ==
    ASSUME AliasInv, NEW a \in Aliases, NEW pc \in SeederPc, pc # "over", SetPc(a, pc), seeder[a].pc # "over",
           rows' \in [Aliases -> AliasRow \cup {None}], \A b \in Aliases : rows'[b] = rows[b] \/ rows'[b] = None,
           reg' \in Seq(RegistryRow), KeyIsUnique(reg'),
           \A b \in Aliases \ {a} : rows'[b] # None =>
              (Lists(reg, b, rows'[b].gen) => Lists(reg', b, rows'[b].gen)),
           pc \in {"lock", "ok", "staged"} /\ rows'[a] # None => Lists(reg', a, rows'[a].gen),
           \A j \in DOMAIN reg' : reg'[j].old => \E i \in DOMAIN reg : reg'[j] = reg[i],
           lock' \in Lock \cup {None}, UNCHANGED <<leased, unreg>>
    PROVE  /\ AliasTypeOK' /\ KeyIsUnique(reg)' /\ RowsOfSeeds' /\ Registered' /\ OldIsOver' /\ UnregisterIsLate'
<1>1. /\ seeder' \in [Aliases -> Seeder] /\ \A b \in Aliases \ {a} : seeder'[b] = seeder[b]
      /\ seeder'[a].pc = pc /\ seeder'[a].n = seeder[a].n
  BY SetPcFacts
<1>2. AliasTypeOK' /\ KeyIsUnique(reg)'
  BY <1>1, AliasNow DEF AliasTypeOK, Seeder, KeyIsUnique
<1>3. rows'[a] # None => rows'[a] = rows[a] /\ rows[a].gen = seeder[a].n /\ ~rows[a].adm
  BY AliasAt
<1>4. RowsOfSeeds'
  <2> SUFFICES ASSUME NEW b \in Aliases, rows'[b] # None
               PROVE  /\ seeder'[b].pc # "over" => rows'[b].gen = seeder'[b].n
                      /\ rows'[b].adm => seeder'[b].pc = "over"
    BY DEF RowsOfSeeds
  <2>1. CASE b = a
    BY <1>1, <1>3, <2>1
  <2>2. CASE b # a
    BY <1>1, <2>2, AliasAt
  <2> QED
    BY <2>1, <2>2
<1>5. Registered'
  <2> SUFFICES ASSUME NEW b \in Aliases, rows'[b] # None,
                      rows'[b].adm \/ seeder'[b].pc \in {"lock", "ok", "staged"}
               PROVE  Lists(reg', b, rows'[b].gen)
    BY DEF Registered
  <2>1. CASE b = a
    BY <1>1, <1>3, <2>1
  <2>2. CASE b # a
    BY <1>1, <2>2, AliasAt
  <2> QED
    BY <2>1, <2>2
<1>6. OldIsOver'
  <2> SUFFICES ASSUME NEW j \in DOMAIN reg', reg'[j].old
               PROVE  /\ seeder'[reg'[j].a].pc = "over"
                      /\ rows'[reg'[j].a] # None /\ rows'[reg'[j].a].gen = reg'[j].gen => rows'[reg'[j].a].old
    BY DEF OldIsOver, Matches
  <2>1. PICK i \in DOMAIN reg : reg'[j] = reg[i]
    OBVIOUS
  <2>2. reg[i] \in RegistryRow
    BY AliasNow
  <2>3. reg[i].a \in Aliases
    BY <2>2 DEF RegistryRow
  <2>4. seeder[reg[i].a].pc = "over" /\ (Matches(reg[i].a, reg[i].gen) => rows[reg[i].a].old)
    BY <2>1 DEF AliasInv, OldIsOver
  <2>5. reg[i].a # a
    BY <2>4
  <2> QED
    BY <1>1, <2>1, <2>3, <2>4, <2>5 DEF Matches
<1>7. UnregisterIsLate'
  <2> SUFFICES ASSUME NEW m \in unreg
               PROVE  /\ rows'[m[1]] # None => rows'[m[1]].gen > m[2]
                      /\ seeder'[m[1]].pc # "over" => m[2] <= seeder'[m[1]].n
    BY DEF UnregisterIsLate
  <2>1. m[1] \in Aliases
    BY AliasNow
  <2>2. /\ rows[m[1]] # None => rows[m[1]].gen > m[2]
        /\ seeder[m[1]].pc # "over" => m[2] <= seeder[m[1]].n
    BY DEF AliasInv, UnregisterIsLate
  <2> QED
    BY <1>1, <2>1, <2>2
<1> QED
  BY <1>2, <1>4, <1>5, <1>6, <1>7

\* registerResponseAliasLocked, up to its first call.
LEMMA RegisterStartStep == ASSUME AliasInv, NEW a \in Aliases, RegisterStart(a) PROVE AliasInv' /\ Remembered
<1> DEFINE old == {x \in ToSet(reg) : x.a = a /\ ~x.old}
           at == {i \in DOMAIN reg : reg[i].a = a}
           x == [a |-> a, gen |-> seeder[a].n, old |-> FALSE]
           new == Append(Removed(reg, at), x)
<1>1. seeder[a].pc = "ask" /\ lock = None /\ UNCHANGED <<rows, leased, unreg>>
  BY DEF RegisterStart
<1>2. CASE old # {}
  <2>1. SetPc(a, "broken") /\ UNCHANGED <<reg, lock>>
    BY <1>2 DEF RegisterStart
  <2> QED
    BY <1>1, <2>1, SeedOnly, SeederStates
<1>3. CASE old = {}
  <2>1. reg' = new /\ lock' = [who |-> a, todo |-> VictimsOf(new, a)] /\ SetPc(a, "lock")
    BY <1>3 DEF RegisterStart
  <2>2. at = {}
    <3>1. ASSUME NEW i \in DOMAIN reg, reg[i].a = a PROVE FALSE
      <4>1. reg[i].old
        BY <1>3, <3>1 DEF ToSet
      <4> QED
        BY <1>1, <3>1, <4>1 DEF AliasInv, OldIsOver
    <3> QED
      BY <3>1
  <2>3. new = Append(reg, x)
    BY <2>2 DEF Removed
  <2>4. a \notin Keys(reg)
    BY <2>2 DEF Keys
  <2>5. seeder[a].n \in 0..Attempts
    BY AliasAt
  <2>6. x \in RegistryRow /\ x.a = a /\ x.gen = seeder[a].n /\ x.old = FALSE
    BY <2>5 DEF RegistryRow
  <2> HIDE DEF old, at, x, new
  <2>7. reg \in Seq(RegistryRow) /\ reg' = Append(reg, x) /\ Fits(Keys(reg))
    BY <1>1, <2>1, <2>3, AliasNow DEF AliasInv, RegistryFits
  <2>8. VictimsOf(reg', a) \in SUBSET ToSet(reg) /\ Fits(Keys(reg') \ {v.a : v \in VictimsOf(reg', a)})
    BY <2>4, <2>6, <2>7, VictimsFacts
  <2>9. /\ reg' \in Seq(RegistryRow) /\ DOMAIN reg = 1..Len(reg) /\ DOMAIN reg' = 1..(Len(reg) + 1)
        /\ reg'[Len(reg) + 1] = x /\ Len(reg) \in Nat /\ \A i \in 1..Len(reg) : reg'[i] = reg[i]
    BY <2>6, <2>7
  <2>10. \A j \in DOMAIN reg' : (j \in DOMAIN reg /\ reg'[j] = reg[j]) \/ (j = Len(reg) + 1 /\ reg'[j] = x)
    BY <2>9
  <2>11. KeyIsUnique(reg')
    <3> SUFFICES ASSUME NEW i \in DOMAIN reg', NEW j \in DOMAIN reg', reg'[i].a = reg'[j].a PROVE i = j
      BY DEF KeyIsUnique
    <3>1. \A k \in DOMAIN reg : reg[k].a # a
      BY <2>4 DEF Keys
    <3>2. KeyIsUnique(reg)
      BY AliasNow
    <3> QED
      BY <2>6, <2>10, <3>1, <3>2 DEF KeyIsUnique
  <2>12. \A b, h : Lists(reg, b, h) => Lists(reg', b, h)
    <3>1. \A i \in DOMAIN reg : i \in DOMAIN reg' /\ reg'[i] = reg[i]
      BY <2>9
    <3> QED
      BY <3>1 DEF Lists
  <2>13. Lists(reg', a, seeder[a].n)
    <3>1. Len(reg) + 1 \in DOMAIN reg'
      BY <2>9
    <3> QED
      BY <2>6, <2>9, <3>1 DEF Lists
  <2>14. rows[a] # None => rows[a].gen = seeder[a].n
    BY <1>1, AliasAt
  <2>15. lock' = [who |-> a, todo |-> VictimsOf(reg', a)]
    BY <2>1
  <2>16. ToSet(reg) \in SUBSET RegistryRow
    BY <2>7 DEF ToSet
  <2>17. lock' \in Lock /\ lock'.who = a /\ lock'.todo = VictimsOf(reg', a) /\ lock' # None
    <3>1. lock' \in Lock
      BY <2>8, <2>15, <2>16 DEF Lock
    <3> QED
      BY <2>15, <3>1, AliasNumbers
  <2>18. "lock" \in SeederPc
    BY SeederStates
  <2>19. AliasTypeOK' /\ KeyIsUnique(reg)' /\ RowsOfSeeds' /\ Registered' /\ OldIsOver' /\ UnregisterIsLate'
    <3>1. \A j \in DOMAIN reg' : reg'[j].old => \E i \in DOMAIN reg : reg'[j] = reg[i]
      BY <2>6, <2>10
    <3> QED
      BY <1>1, <2>1, <2>9, <2>11, <2>12, <2>13, <2>14, <2>17, <2>18, <3>1, AliasNow, AnswerKeeps
  <2>20. seeder'[a].pc = "lock" /\ seeder'[a].n = seeder[a].n
    BY <2>1, <2>18, SetPcFacts
  <2>21. a # "sweep"
    BY AliasAssumption
  <2>22. LockHeld'
    <3>1. ASSUME NEW v \in lock'.todo
          PROVE  v.a # a /\ \A j \in DOMAIN reg' : reg'[j].a = v.a => reg'[j].gen = v.gen
      <4>1. PICK k \in DOMAIN reg : v = reg[k]
        BY <2>8, <2>17 DEF ToSet
      <4>2. v.a # a
        BY <2>4, <4>1 DEF Keys
      <4>3. \A j \in DOMAIN reg : reg[j].a = v.a => reg[j].gen = v.gen
        BY <4>1, AliasNow DEF KeyIsUnique
      <4> QED
        BY <2>6, <2>10, <4>2, <4>3
    <3> QED
      BY <2>13, <2>17, <2>20, <2>21, <3>1 DEF LockHeld
  <2>23. RegistryFits'
    <3>1. Keys(reg') \ {a} \in SUBSET Keys(reg)
      <4>1. \A j \in DOMAIN reg' : reg'[j].a = a \/ reg'[j].a \in Keys(reg)
        BY <2>6, <2>10 DEF Keys
      <4> QED
        BY <4>1 DEF Keys
    <3>2. Fits(Keys(reg') \ {a})
      BY <2>7, <3>1, KeysAreAliases, FewerFit
    <3> QED
      BY <2>8, <2>17, <2>21, <3>2 DEF RegistryFits
  <2> QED
    BY <1>1, <2>19, <2>22, <2>23 DEF AliasInv, Remembered, Visible
<1> QED
  BY <1>2, <1>3

\* Every victim is gone: the registry answers.
LEMMA RegisterEndStep == ASSUME AliasInv, RegisterEnd PROVE AliasInv' /\ Remembered
<1>1. /\ lock # None /\ lock.who # "sweep" /\ lock.todo = {} /\ lock' = None
      /\ UNCHANGED <<rows, leased, reg, unreg>>
  BY DEF RegisterEnd
<1> DEFINE a == lock.who
<1>2. a \in Aliases /\ seeder[a].pc = "lock" /\ Lists(reg, a, seeder[a].n)
  BY <1>1, LockFields DEF AliasInv, LockHeld
<1>3. PICK pc \in {"ok", "broken"} : SetPc(a, pc)
  BY DEF RegisterEnd
<1>4. pc \in SeederPc /\ pc # "over"
  BY SeederStates
<1>5. rows[a] # None => Lists(reg, a, rows[a].gen)
  BY <1>2, AliasAt
<1>6. AliasTypeOK' /\ KeyIsUnique(reg)' /\ RowsOfSeeds' /\ Registered' /\ OldIsOver' /\ UnregisterIsLate'
  BY <1>1, <1>2, <1>3, <1>4, <1>5, AliasNow, AnswerKeeps
<1>7. LockHeld'
  BY <1>1 DEF LockHeld
<1>8. RegistryFits'
  <2>1. Fits(Keys(reg) \ {v.a : v \in lock.todo})
    BY <1>1 DEF AliasInv, RegistryFits
  <2>2. {v.a : v \in lock.todo} = {}
    BY <1>1
  <2>3. Keys(reg) \ {v.a : v \in lock.todo} = Keys(reg)
    BY <2>2
  <2>4. Fits(Keys(reg))
    BY <2>1, <2>3
  <2> QED
    BY <1>1, <2>4 DEF RegistryFits
<1> QED
  BY <1>1, <1>6, <1>7, <1>8 DEF AliasInv, Remembered, Visible

\* The new row is taken back.
LEMMA RefuseKeeps ==
    ASSUME AliasInv, lock # None, lock.who # "sweep", NEW v \in lock.todo, NEW pc \in {"busy", "broken"},
           Refuse(lock.who, pc), rows' \in {rows, Evicted(v.a, v.gen)}, UNCHANGED <<leased, unreg>>
    PROVE  AliasInv'
<1> DEFINE a == lock.who
<1>1. a \in Aliases /\ seeder[a].pc = "lock" /\ Lists(reg, a, seeder[a].n) /\ v.a \in Aliases /\ v.a # a
  BY LockFields DEF AliasInv, LockHeld
<1>2. reg' = Without(reg, a, seeder[a].n) /\ lock' = None /\ SetPc(a, pc)
  BY DEF Refuse
<1>3. pc \in SeederPc /\ pc # "over" /\ pc \notin {"lock", "ok", "staged"}
  BY SeederStates
<1> HIDE DEF a
<1>4. reg' \in Seq(RegistryRow) /\ KeyIsUnique(reg') /\ \A j \in DOMAIN reg' : \E i \in DOMAIN reg : reg'[j] = reg[i]
  BY <1>2, AliasNow, WithoutFacts
<1>5. /\ \A b, h : Lists(reg', b, h) <=> Lists(reg, b, h) /\ ~(b = a /\ h = seeder[a].n)
      /\ Keys(reg') \in SUBSET Keys(reg) /\ a \notin Keys(reg')
  BY <1>1, <1>2, AliasNow, WithoutLists
<1>6. rows' \in [Aliases -> AliasRow \cup {None}] /\ \A b \in Aliases : rows'[b] = rows[b] \/ rows'[b] = None
  BY <1>1, AliasNow, EvictedFacts
<1>7. AliasTypeOK' /\ KeyIsUnique(reg)' /\ RowsOfSeeds' /\ Registered' /\ OldIsOver' /\ UnregisterIsLate'
  BY <1>1, <1>2, <1>3, <1>4, <1>5, <1>6, AnswerKeeps
<1>8. LockHeld'
  BY <1>2 DEF LockHeld
<1>9. RegistryFits'
  <2>1. Fits(Keys(reg) \ {a}) /\ Keys(reg) \ {a} \in SUBSET Aliases /\ Keys(reg') \in SUBSET (Keys(reg) \ {a})
    BY <1>5, AliasNow, KeysAreAliases DEF AliasInv, RegistryFits, a
  <2>2. Fits(Keys(reg'))
    BY <2>1, FewerFit
  <2> QED
    BY <1>2, <2>2 DEF RegistryFits
<1> QED
  BY <1>7, <1>8, <1>9 DEF AliasInv

\* One victim, or one expired row, is evicted; the rest of the list waits.
LEMMA EvictionKeeps ==
    ASSUME AliasInv, lock # None, NEW v \in lock.todo, EvictResult(v.a, v.gen) # "busy",
           rows' = Evicted(v.a, v.gen), reg' = Without(reg, v.a, v.gen), UNCHANGED <<leased, seeder, unreg>>,
           \/ lock' = None /\ lock.who = "sweep"
           \/ lock' \in Lock /\ lock' # None /\ lock'.who = lock.who /\ lock'.todo = lock.todo \ {v}
    PROVE  AliasInv'
<1>1. v.a \in Aliases /\ lock.todo \in SUBSET RegistryRow /\ v.a # lock.who
  BY LockFields DEF AliasInv, LockHeld
<1>2. \A i \in DOMAIN reg : reg[i].a = v.a => reg[i].gen = v.gen
  BY DEF AliasInv, LockHeld
<1>3. /\ rows' \in [Aliases -> AliasRow \cup {None}] /\ \A b \in Aliases : rows'[b] = rows[b] \/ rows'[b] = None
      /\ rows'[v.a] = None \/ rows[v.a].gen # v.gen
  BY <1>1, EvictedFacts
<1>4. rows'[v.a] = None \/ rows'[v.a].gen # v.gen
  BY <1>1, <1>3
<1>5. RowsOfSeeds' /\ Registered' /\ OldIsOver' /\ UnregisterIsLate' /\ KeyIsUnique(reg)'
  BY <1>1, <1>3, <1>4, RegistryShrinks
<1>6. reg' \in Seq(RegistryRow) /\ \A j \in DOMAIN reg' : \E i \in DOMAIN reg : reg'[j] = reg[i]
  BY AliasNow, WithoutFacts
<1>7. /\ \A b, h : Lists(reg', b, h) <=> Lists(reg, b, h) /\ ~(b = v.a /\ h = v.gen)
      /\ Keys(reg') \in SUBSET Keys(reg) /\ v.a \notin Keys(reg')
  BY <1>2, AliasNow, WithoutLists
<1>8. AliasTypeOK'
  BY <1>3, <1>6, AliasNow DEF AliasTypeOK, Seeder
<1>9. LockHeld'
  <2>1. CASE lock' = None
    BY <2>1 DEF LockHeld
  <2>2. CASE lock' # None
    <3>1. lock'.who = lock.who /\ lock'.todo = lock.todo \ {v}
      BY <2>2
    <3>2. lock.who # "sweep" => seeder[lock.who].pc = "lock" /\ Lists(reg', lock.who, seeder[lock.who].n)
      BY <1>1, <1>7 DEF AliasInv, LockHeld
    <3>3. ASSUME NEW w \in lock.todo
          PROVE  /\ w.a # lock.who /\ \A j \in DOMAIN reg' : reg'[j].a = w.a => reg'[j].gen = w.gen
                 /\ lock.who = "sweep" => /\ seeder[w.a].pc = "over"
                                          /\ rows'[w.a] # None /\ rows'[w.a].gen = w.gen => rows'[w.a].old
      <4>1. w.a \in Aliases
        BY LockFields
      <4>2. /\ w.a # lock.who /\ \A j \in DOMAIN reg : reg[j].a = w.a => reg[j].gen = w.gen
            /\ lock.who = "sweep" => seeder[w.a].pc = "over" /\ (Matches(w.a, w.gen) => rows[w.a].old)
        BY DEF AliasInv, LockHeld
      <4> QED
        BY <1>3, <1>6, <4>1, <4>2 DEF Matches
    <3> QED
      BY <3>1, <3>2, <3>3 DEF LockHeld, Matches
  <2> QED
    BY <2>1, <2>2
<1>10. RegistryFits'
  <2>1. Keys(reg) \in SUBSET Aliases
    BY AliasNow, KeysAreAliases
  <2>2. CASE lock.who = "sweep"
    <3>1. Fits(Keys(reg'))
      <4>1. Fits(Keys(reg))
        BY <2>2 DEF AliasInv, RegistryFits
      <4> QED
        BY <1>7, <2>1, <4>1, FewerFit
    <3> QED
      BY <2>2, <3>1 DEF RegistryFits
  <2>3. CASE lock.who # "sweep"
    <3> DEFINE A == Keys(reg) \ {lock.who}
               B == Keys(reg) \ {w.a : w \in lock.todo}
    <3>1. lock' # None /\ lock'.who = lock.who /\ lock'.todo = lock.todo \ {v}
      BY <2>3
    <3>2. Fits(A) /\ Fits(B)
      BY <2>3 DEF AliasInv, RegistryFits
    <3>3. Keys(reg') \ {lock.who} \in SUBSET A /\ A \in SUBSET Aliases /\ B \in SUBSET Aliases
      BY <1>7, <2>1
    <3>4. Keys(reg') \ {w.a : w \in lock'.todo} \in SUBSET B
      BY <1>7, <3>1
    <3> HIDE DEF A, B
    <3>5. Fits(Keys(reg') \ {lock.who}) /\ Fits(Keys(reg') \ {w.a : w \in lock'.todo})
      BY <3>2, <3>3, <3>4, FewerFit
    <3> QED
      BY <2>3, <3>1, <3>5 DEF RegistryFits
  <2> QED
    BY <2>2, <2>3
<1> QED
  BY <1>5, <1>8, <1>9, <1>10 DEF AliasInv

\* A list without one row is a list.
LEMMA LockShrinks ==
    ASSUME AliasInv, lock # None, NEW v, lock' = [lock EXCEPT !.todo = @ \ {v}]
    PROVE  lock' \in Lock /\ lock' # None /\ lock'.who = lock.who /\ lock'.todo = lock.todo \ {v}
<1>1. lock \in Lock /\ None \notin Lock
  BY LockFields, AliasNumbers
<1> QED
  BY <1>1 DEF Lock

\* Only the row of the evicted alias may go, and not if it is leased.
LEMMA EvictionTakesOne ==
    ASSUME AliasInv, NEW a \in Aliases, NEW g, rows' \in {rows, Evicted(a, g)},
           NEW b \in Aliases, Visible(b), rows'[b] = None
    PROVE  b = a /\ b \notin leased /\ Matches(a, g)
<1>1. rows'[b] # rows[b]
  BY DEF Visible
<1>2. rows' = Evicted(a, g)
  BY <1>1
<1> QED
  BY <1>1, <1>2, EvictedFacts DEF Matches, Visible

\* evictResponseAlias of one victim.
LEMMA EvictVictimStep == ASSUME AliasInv, lock # None, NEW v \in lock.todo, EvictVictim(v) PROVE AliasInv' /\ Remembered
<1>1. lock.who # "sweep" /\ UNCHANGED <<leased, unreg>> /\ v.a \in Aliases /\ v.a # lock.who
  BY LockFields DEF EvictVictim, AliasInv, LockHeld
<1>2. rows' \in {rows, Evicted(v.a, v.gen)}
  BY DEF EvictVictim
<1>3. Remembered
  <2> SUFFICES ASSUME NEW b \in Aliases, Visible(b), rows'[b] = None
               PROVE  b \notin leased /\ lock.who \notin {b, "sweep"}
    BY DEF Remembered
  <2>1. b = v.a /\ b \notin leased
    BY <1>1, <1>2, EvictionTakesOne
  <2> QED
    BY <1>1, <2>1
<1>4. CASE /\ EvictResult(v.a, v.gen) # "busy" /\ rows' = Evicted(v.a, v.gen)
           /\ reg' = Without(reg, v.a, v.gen)
           /\ lock' = [lock EXCEPT !.todo = @ \ {v}] /\ UNCHANGED seeder
  <2>1. lock' \in Lock /\ lock' # None /\ lock'.who = lock.who /\ lock'.todo = lock.todo \ {v}
    BY <1>4, LockShrinks
  <2>2. AliasInv'
    BY <1>1, <1>4, <2>1, EvictionKeeps
  <2> QED
    BY <1>3, <2>2
<1>5. CASE Refuse(lock.who, "busy")
  <2>1. AliasInv'
    BY <1>1, <1>2, <1>5, RefuseKeeps
  <2> QED
    BY <1>3, <2>1
<1>6. CASE Refuse(lock.who, "broken")
  <2>1. AliasInv'
    BY <1>1, <1>2, <1>6, RefuseKeeps
  <2> QED
    BY <1>3, <2>1
<1> QED
  BY <1>4, <1>5, <1>6 DEF EvictVictim

\* The rows of a sweep: expired, and so are their aliases.
LEMMA SweepStartStep == ASSUME AliasInv, SweepStart PROVE AliasInv' /\ Remembered
<1> DEFINE todo == {x \in ToSet(reg) : x.old}
<1>1. lock = None /\ lock' = [who |-> "sweep", todo |-> todo] /\ UNCHANGED <<rows, leased, reg, seeder, unreg>>
  BY DEF SweepStart
<1>2. todo \in SUBSET RegistryRow
  BY AliasNow DEF ToSet
<1>3. lock' \in Lock /\ lock'.who = "sweep" /\ lock'.todo = todo /\ lock' # None
  <2>1. lock' \in Lock
    BY <1>1, <1>2 DEF Lock
  <2> QED
    BY <1>1, <2>1, AliasNumbers
<1>4. ASSUME NEW v \in todo
      PROVE  /\ v.a # "sweep" /\ seeder[v.a].pc = "over" /\ (Matches(v.a, v.gen) => rows[v.a].old)
             /\ \A i \in DOMAIN reg : reg[i].a = v.a => reg[i].gen = v.gen
  <2>1. PICK k \in DOMAIN reg : v = reg[k] /\ reg[k].old
    BY DEF ToSet
  <2>2. v.a \in Aliases
    BY <1>2 DEF RegistryRow
  <2>3. v.a # "sweep"
    BY <2>2, AliasAssumption
  <2>4. seeder[v.a].pc = "over" /\ (Matches(v.a, v.gen) => rows[v.a].old)
    BY <2>1 DEF AliasInv, OldIsOver
  <2>5. \A i \in DOMAIN reg : reg[i].a = v.a => reg[i].gen = v.gen
    BY <2>1, AliasNow DEF KeyIsUnique
  <2> QED
    BY <2>3, <2>4, <2>5
<1> HIDE DEF todo
<1>5. AliasTypeOK' /\ KeyIsUnique(reg)'
  BY <1>1, <1>3, AliasNow DEF AliasTypeOK, Seeder, KeyIsUnique
<1>6. RowsOfSeeds' /\ Registered' /\ OldIsOver' /\ UnregisterIsLate'
  BY <1>1 DEF AliasInv, RowsOfSeeds, Registered, OldIsOver, UnregisterIsLate, Lists, Matches
<1>7. LockHeld'
  BY <1>1, <1>3, <1>4 DEF LockHeld, Matches
<1>8. RegistryFits'
  BY <1>1, <1>3 DEF AliasInv, RegistryFits
<1> QED
  BY <1>1, <1>5, <1>6, <1>7, <1>8 DEF AliasInv, Remembered, Visible

\* One row of a sweep.
LEMMA SweepRowStep == ASSUME AliasInv, lock # None, NEW v \in lock.todo, SweepRow(v) PROVE AliasInv' /\ Remembered
<1> DEFINE rest == lock.todo \ {v}
<1>1. lock.who = "sweep" /\ UNCHANGED <<leased, seeder, unreg>> /\ v.a \in Aliases
  BY LockFields DEF SweepRow
<1>2. \/ lock' = None /\ lock.who = "sweep"
      \/ lock' \in Lock /\ lock' # None /\ lock'.who = lock.who /\ lock'.todo = lock.todo \ {v}
  <2>1. CASE rest = {}
    BY <1>1, <2>1 DEF SweepRow
  <2>2. CASE rest # {}
    <3>1. lock' = [lock EXCEPT !.todo = @ \ {v}]
      <4>1. lock' = [lock EXCEPT !.todo = rest]
        BY <2>2 DEF SweepRow
      <4> QED
        BY <4>1
    <3> QED
      BY <3>1, LockShrinks
  <2> QED
    BY <2>1, <2>2
<1>3. seeder[v.a].pc = "over" /\ (Matches(v.a, v.gen) => rows[v.a].old)
  BY <1>1 DEF AliasInv, LockHeld
<1> HIDE DEF rest
<1>4. CASE /\ EvictResult(v.a, v.gen) # "busy"
           /\ rows' = Evicted(v.a, v.gen) /\ reg' = Without(reg, v.a, v.gen)
  <2>1. AliasInv'
    BY <1>1, <1>2, <1>4, EvictionKeeps
  <2>2. Remembered
    <3> SUFFICES ASSUME NEW b \in Aliases, Visible(b), rows'[b] = None
                 PROVE  b \notin leased /\ rows[b].old
      BY DEF Remembered
    <3>1. b = v.a /\ b \notin leased /\ Matches(v.a, v.gen)
      BY <1>1, <1>4, EvictionTakesOne
    <3> QED
      BY <1>3, <3>1
  <2> QED
    BY <2>1, <2>2
<1>5. CASE UNCHANGED <<rows, reg>>
  <2>1. AliasTypeOK' /\ KeyIsUnique(reg)'
    BY <1>1, <1>2, <1>5, AliasNow DEF AliasTypeOK, Seeder, KeyIsUnique
  <2>2. RowsOfSeeds' /\ Registered' /\ OldIsOver' /\ UnregisterIsLate'
    BY <1>1, <1>5 DEF AliasInv, RowsOfSeeds, Registered, OldIsOver, UnregisterIsLate, Lists, Matches
  <2>3. LockHeld'
    BY <1>1, <1>2, <1>5 DEF AliasInv, LockHeld, Matches, Lists
  <2>4. RegistryFits'
    BY <1>1, <1>2, <1>5 DEF AliasInv, RegistryFits
  <2> QED
    BY <1>5, <2>1, <2>2, <2>3, <2>4 DEF AliasInv, Remembered, Visible
<1> QED
  BY <1>4, <1>5 DEF SweepRow

\* A finite set as a sequence.
LEMMA SetToSeqFacts ==
    ASSUME NEW S, IsFiniteSet(S)
    PROVE  /\ SetToSeq(S) \in Seq(S) /\ \A x \in S : \E i \in DOMAIN SetToSeq(S) : SetToSeq(S)[i] = x
           /\ \A i, j \in DOMAIN SetToSeq(S) : SetToSeq(S)[i] = SetToSeq(S)[j] => i = j
<1> DEFINE n == Cardinality(S)
           s == SetToSeq(S)
<1>1. n \in Nat /\ ExistsBijection(1..n, S)
  BY FS_CardinalityType
<1>2. \E f \in [1..n -> S] : IsInjective(f)
  BY <1>1 DEF ExistsBijection, Bijection, Injection
<1>3. s \in [1..n -> S] /\ IsInjective(s)
  BY <1>2 DEF SetToSeq
<1> HIDE DEF s
<1>4. s \in Injection(1..n, S)
  BY <1>3 DEF Injection
<1>5. Cardinality(1..n) = n
  <2>1. Cardinality(1..n) = IF 1 > n THEN 0 ELSE n - 1 + 1
    BY <1>1, FS_Interval
  <2> HIDE DEF n
  <2> QED
    BY <1>1, <2>1
<1>6. s \in Surjection(1..n, S)
  BY <1>4, <1>5, FS_Injection
<1>7. \A x \in S : \E i \in 1..n : s[i] = x
  BY <1>6 DEF Surjection
<1>8. s \in Seq(S) /\ DOMAIN s = 1..n
  BY <1>1, <1>3
<1> QED
  BY <1>3, <1>7, <1>8 DEF s, IsInjective

\* The first state: the registry lists the aliases that are there.
LEMMA AliasStarts == AliasInit => AliasInv
<1> SUFFICES ASSUME AliasInit PROVE AliasInv
  OBVIOUS
<1> DEFINE X(a) == [a |-> a, gen |-> 0, old |-> FALSE]
           S == {X(a) : a \in Legacy}
           f == [a \in Legacy |-> X(a)]
<1>1. Legacy \in SUBSET Aliases /\ IsFiniteSet(Legacy) /\ 0 \in 0..Attempts
  BY AliasNumbers, FS_Subset
<1>2. S \in SUBSET RegistryRow
  <2>1. ASSUME NEW a \in Legacy PROVE X(a) \in RegistryRow
    <3>1. a \in Aliases
      BY <1>1
    <3> QED
      BY <1>1, <3>1 DEF RegistryRow
  <2> HIDE DEF X
  <2> QED
    BY <2>1
<1>3. IsFiniteSet(S)
  <2>1. f \in Surjection(Legacy, S)
    BY DEF Surjection
  <2> HIDE DEF f, S
  <2> QED
    BY <1>1, <2>1, FS_Surjection
<1>4. reg = SetToSeq(S)
  BY DEF AliasInit
<1>5. \A y \in S : y.a \in Legacy /\ y.gen = 0 /\ y.old = FALSE /\ y = X(y.a)
  OBVIOUS
<1>6. \A a \in Legacy : X(a) \in S /\ X(a).a = a /\ X(a).gen = 0
  OBVIOUS
<1> HIDE DEF X, S, f
<1>7. /\ reg \in Seq(S) /\ \A x \in S : \E i \in DOMAIN reg : reg[i] = x
      /\ \A i, j \in DOMAIN reg : reg[i] = reg[j] => i = j
  BY <1>3, <1>4, SetToSeqFacts
<1>8. \A i \in DOMAIN reg : reg[i] \in S
  BY <1>7
<1>9. reg \in Seq(RegistryRow)
  BY <1>2, <1>7
<1>10. KeyIsUnique(reg)
  BY <1>5, <1>7, <1>8 DEF KeyIsUnique
<1>11. Keys(reg) = Legacy
  <2>1. \A i \in DOMAIN reg : reg[i].a \in Legacy
    BY <1>5, <1>8
  <2>2. \A a \in Legacy : \E i \in DOMAIN reg : reg[i].a = a
    BY <1>6, <1>7
  <2> QED
    BY <2>1, <2>2 DEF Keys
<1>12. \A a \in Legacy : Lists(reg, a, 0)
  BY <1>6, <1>7 DEF Lists
<1>13. /\ rows \in [Aliases -> AliasRow \cup {None}] /\ seeder \in [Aliases -> Seeder]
       /\ \A a \in Aliases : rows[a] # None => a \in Legacy /\ rows[a].gen = 0 /\ seeder[a].pc = "over"
  <2>1. [gen |-> 0, adm |-> TRUE, old |-> FALSE] \in AliasRow
    BY <1>1 DEF AliasRow
  <2>2. \A pc \in {"over", "idle"} : [pc |-> pc, n |-> 0] \in Seeder
    BY <1>1, SeederStates DEF Seeder
  <2>3. rows \in [Aliases -> AliasRow \cup {None}]
    BY <2>1 DEF AliasInit
  <2>4. seeder \in [Aliases -> Seeder]
    BY <2>2 DEF AliasInit
  <2>5. \A a \in Aliases : rows[a] # None => a \in Legacy /\ rows[a].gen = 0 /\ seeder[a].pc = "over"
    BY DEF AliasInit
  <2> QED
    BY <2>3, <2>4, <2>5
<1>14. lock = None /\ unreg = {} /\ leased = Leased
  BY DEF AliasInit
<1>15. AliasTypeOK
  BY <1>9, <1>13, <1>14, AliasAssumption DEF AliasTypeOK, Seeder
<1>16. RowsOfSeeds /\ Registered
  BY <1>12, <1>13 DEF RowsOfSeeds, Registered
<1>17. OldIsOver /\ UnregisterIsLate /\ LockHeld
  BY <1>5, <1>8, <1>14 DEF OldIsOver, UnregisterIsLate, LockHeld
<1>18. Fits(Legacy)
  <2>1. ASSUME NEW g \in {Group[a] : a \in Aliases} PROVE Cardinality({b \in Legacy : Group[b] = g}) <= PerGroup
    <3>1. CASE \E a \in Legacy : Group[a] = g
      BY <3>1, AliasAssumption
    <3>2. CASE ~\E a \in Legacy : Group[a] = g
      <4>1. {b \in Legacy : Group[b] = g} = {}
        BY <3>2
      <4>2. Cardinality({b \in Legacy : Group[b] = g}) = 0
        BY <4>1, FS_EmptySet
      <4> QED
        BY <4>2, AliasNumbers
    <3> QED
      BY <3>1, <3>2
  <2> QED
    BY <2>1, AliasAssumption DEF Fits
<1>19. RegistryFits
  BY <1>11, <1>14, <1>18 DEF RegistryFits
<1> QED
  BY <1>10, <1>15, <1>16, <1>17, <1>19 DEF AliasInv

\* Every step keeps the invariant and forgets no visible alias without a reason.
LEMMA AliasSteps == AliasInv /\ [AliasNext]_aliasVars => AliasInv' /\ [Remembered]_aliasVars
<1> SUFFICES ASSUME AliasInv, [AliasNext]_aliasVars PROVE AliasInv' /\ [Remembered]_aliasVars
  OBVIOUS
<1>1. ASSUME ObjectStep PROVE AliasInv' /\ Remembered
  <2>1. PICK a \in Aliases : SeedStep(a) \/ ExpireAlias(a) \/ Lapse(a)
    BY <1>1 DEF ObjectStep
  <2> QED
    BY <2>1, SeedStepKeeps, AdmitStep, RefusedStep, PublishAliasStep, ExpireStep, LapseStep DEF SeedStep
<1>2. ASSUME \E i \in DOMAIN reg : LapseFull(i) PROVE AliasInv' /\ Remembered
  BY <1>2, LapseFullStep
<1>3. ASSUME RegistryStep PROVE AliasInv' /\ Remembered
  BY <1>3, RegisterEndStep, EvictVictimStep, SweepRowStep DEF RegistryStep
<1>4. ASSUME Serve PROVE AliasInv' /\ Remembered
  BY <1>4, RegisterStartStep DEF Serve
<1>5. ASSUME SweepStart PROVE AliasInv' /\ Remembered
  BY <1>5, SweepStartStep
<1>6. ASSUME \E a \in Aliases : Begin(a) \/ TurnLost(a) \/ RegisterLost(a) \/ NeverPublished(a) \/ LeaseEnds(a)
      PROVE  AliasInv' /\ Remembered
  BY <1>6, BeginStep, TurnLostStep, RegisterLostStep, NeverPublishedStep, LeaseEndsStep
<1>7. ASSUME \E m \in unreg : Unregister(m) PROVE AliasInv' /\ Remembered
  BY <1>7, UnregisterStep
<1>8. ASSUME UNCHANGED aliasVars PROVE AliasInv'
  BY <1>8 DEF aliasVars, AliasInv, AliasTypeOK, KeyIsUnique, RowsOfSeeds, Registered, OldIsOver, UnregisterIsLate,
     LockHeld, RegistryFits, Lists, Matches
<1> QED
  BY <1>1, <1>2, <1>3, <1>4, <1>5, <1>6, <1>7, <1>8 DEF AliasNext

\* Visible aliases are listed, and not the one that is being registered: so they fit.
LEMMA VisibleFits == AliasInv => VisibleBounded
<1> SUFFICES ASSUME AliasInv PROVE VisibleBounded
  OBVIOUS
<1> DEFINE V == {a \in Aliases : Visible(a)}
<1>1. \A a \in V : a \in Keys(reg) /\ seeder[a].pc = "over" /\ a \in Aliases
  BY AliasAt DEF Visible, Lists, Keys
<1>2. Keys(reg) \in SUBSET Aliases
  BY AliasNow, KeysAreAliases
<1>3. Fits(V)
  <2>1. CASE lock = None \/ lock.who = "sweep"
    <3>1. Fits(Keys(reg)) /\ V \in SUBSET Keys(reg)
      BY <1>1, <2>1 DEF AliasInv, RegistryFits
    <3> QED
      BY <1>2, <3>1, FewerFit
  <2>2. CASE ~(lock = None \/ lock.who = "sweep")
    <3>1. Fits(Keys(reg) \ {lock.who}) /\ seeder[lock.who].pc = "lock"
      BY <2>2 DEF AliasInv, RegistryFits, LockHeld
    <3>2. V \in SUBSET (Keys(reg) \ {lock.who}) /\ Keys(reg) \ {lock.who} \in SUBSET Aliases
      BY <1>1, <1>2, <3>1
    <3> HIDE DEF V
    <3> QED
      BY <3>1, <3>2, FewerFit
  <2> QED
    BY <2>1, <2>2
<1> QED
  BY <1>3 DEF VisibleBounded, Fits

(* Aliases, seeds and the registry keep their types                         *)
(* (the tables of chat-session.ts).                                         *)
THEOREM AliasTypes == AliasSpec => []AliasTypeOK
<1>1. AliasInv /\ [AliasNext]_aliasVars => AliasInv'
  BY AliasSteps
<1>2. AliasInv => AliasTypeOK
  BY DEF AliasInv
<1> QED
  BY <1>1, <1>2, AliasStarts, PTL DEF AliasSpec

(* The quotas hold of what clients can continue from, for every number of   *)
(* aliases and every grouping of them (registerResponseAliasLocked,         *)
(* evictResponseAlias, seed, publishResponseAlias).                         *)
THEOREM VisibleTheorem == AliasSpec => []VisibleBounded
<1>1. AliasInv /\ [AliasNext]_aliasVars => AliasInv'
  BY AliasSteps
<1> QED
  BY <1>1, AliasStarts, VisibleFits, PTL DEF AliasSpec

(* A visible alias is forgotten only when it has expired or while another   *)
(* takes its place, and never while it is leased (evictResponseAlias,       *)
(* expireIfIdle, expireRegisteredAliases, the retries of seed).             *)
THEOREM ForgottenTheorem == AliasSpec => ForgottenForAReason
<1>1. AliasInv /\ [AliasNext]_aliasVars => AliasInv'
  BY AliasSteps
<1>2. AliasInv /\ [AliasNext]_aliasVars => [Remembered]_aliasVars
  BY AliasSteps
<1>3. [][Remembered]_aliasVars => ForgottenForAReason
  BY PTL DEF ForgottenForAReason, Remembered
<1> QED
  BY <1>1, <1>2, <1>3, AliasStarts, PTL DEF AliasSpec

=============================================================================
