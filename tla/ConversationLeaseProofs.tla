---------------------- MODULE ConversationLeaseProofs -----------------------
(***************************************************************************)
(* The safety properties of ConversationLease, for any sets of turns and   *)
(* accounts and any bound on the conversations.                            *)
(*                                                                         *)
(* The inductive invariant has four layers.  BaseInv: types, and what one  *)
(* turn's own state says about its exchanges, its run and the log of its   *)
(* conversation.  Fenced: the owner of the lease holds the context, the    *)
(* coordinates and the account of the row, and a supersession that waits   *)
(* for the runner still knows the context of the lease it saw.             *)
(* OneAccount: turns that share coordinates share their account.  Half:    *)
(* no two turns at work share coordinates, and the log of a conversation   *)
(* is covered by the context of whoever may continue it and by turns that  *)
(* were cut off.                                                           *)
(*                                                                         *)
(* The steps of Next fall into six kinds (RowOnly, Quiet, Takes, Moves,    *)
(* Binds, Sends), which say about rows and turns only what the layers      *)
(* need; each action is shown once to be of its kind, and each layer is    *)
(* shown to be kept by each kind.                                          *)
(***************************************************************************)
EXTENDS ConversationLease, TLAPS

\* A turn in front of the lease.
Waiting == {"idle", "probe", "cas"}

\* A turn that is bound to an account.
Working == {"bound", "marked", "running", "ran", "failed", "unwind", "result"}

\* A turn that may still submit.
Active == Working \cup {"leased"}

\* The turn has been given coordinates.
Came(t) == turn[t].conv # Unused

\* Microsoft cannot hold an invocation of this turn.
Unsubmitted(r) ==
    \/ r.pc \in Waiting \cup {"leased"}
    \/ /\ ~r.review
       /\ \/ r.pc \in {"bound", "marked"}
          \/ r.pc = "running" /\ ~r.sent
          \/ r.pc \in {"failed", "unwind"} /\ r.told = "no"

\* What the state of one turn says by itself: every exchange is counted, a turn that
\* was given the lease has coordinates, one that was bound has an account.
Fine(r) ==
    /\ r.pc \in Waiting \cup {"leased"} => r.exchange = 0 /\ ~r.moved /\ ~r.review
    /\ r.exchange <= 1 + (IF r.moved THEN 1 ELSE 0) + (IF r.review THEN 1 ELSE 0)
    /\ r.review => r.started
    /\ r.pc \in Waiting => r.conv = Unused
    /\ r.pc \notin Waiting \cup {"done"} => r.conv # Unused
    /\ r.pc \in Working => r.acct # NoAccount /\ r.exchange # 0
    /\ r.pc = "ran" => r.told = "yes"
    /\ r.pc = "marked" => r.told = "no" /\ ~r.sent

\* A run in a runner is the current exchange of its turn.
Runs(t) ==
    \A e \in 1..3 : <<t, e>> \in runner =>
        e = turn[t].exchange /\ turn[t].pc \in {"running", "dead"} /\ turn[t].acct # NoAccount

\* A submitted turn is logged under its current coordinates only.
Logged(t) ==
    \A c \in 1..MaxConv : t \in conv[c].log => c = turn[t].conv /\ ~Unsubmitted(turn[t])

\* A turn that lost the call to its runner does not submit again, but to review.
LostEnds(t) ==
    turn[t].told = "lost" => turn[t].review \/ turn[t].pc \in {"failed", "unwind", "cleanup", "done", "dead"}

\* One turn is sound.
Self(t) == Fine(turn[t]) /\ turn[t].conv <= drawn /\ Runs(t) /\ Logged(t) /\ LostEnds(t)

\* The coordinates of the row were drawn, those of a committed row are used.
RowOK == st.conv <= drawn /\ (st.committed => st.conv # Unused)

\* Microsoft knows nothing of coordinates that were not drawn.
NewOK == \A c \in 1..MaxConv : c > drawn => conv[c].log = {} /\ conv[c].acct = NoAccount

\* The first layer.
BaseInv == TypeOK /\ RowOK /\ NewOK /\ \A t \in Turn : Self(t)

\* The second layer: the fence.
Fenced ==
    /\ \A t \in Turn : st.lease = t =>
          Came(t) /\ turn[t].base = st.tail /\ turn[t].conv = st.conv /\ turn[t].acct = st.acct
    /\ \A t \in Turn : turn[t].pc \in {"probe", "cas"} =>
          /\ turn[t].saw.lease \in Turn /\ Came(turn[t].saw.lease)
          /\ st.lease = turn[t].saw.lease => st.tail = turn[t].saw.tail

\* The third layer: one account per conversation.
OneAccount ==
    /\ \A t \in Turn : Came(t) => conv[turn[t].conv].acct \in {NoAccount, turn[t].acct}
    /\ \A t, u \in Turn : Came(t) /\ turn[t].conv = turn[u].conv /\ t # u =>
          turn[t].acct = turn[u].acct /\ turn[t].acct # NoAccount
    /\ st.committed =>
          /\ st.acct # NoAccount
          /\ conv[st.conv].acct \in {NoAccount, st.acct}
          /\ \A t \in Turn : turn[t].conv = st.conv => turn[t].acct = st.acct

\* A turn that may still submit, or whose run may.  A review that was released has no run
\* any more; it only waits to be told so by its commit.
AtWork(t) ==
    \/ turn[t].pc \in Active /\ (turn[t].pc = "result" /\ turn[t].review => st.lease = t)
    \/ turn[t].pc = "dead" /\ <<t, turn[t].exchange>> \in runner

\* Conversation c holds nothing but turns of S and turns that were cut off.
Covered(c, S) == \A u \in conv[c].log : u \in S \/ CutOff(u)

\* The fourth layer: what has been submitted to a conversation is covered by the context
\* of the turn that may continue it.
Half ==
    /\ st.lease \in Turn =>
          /\ turn[st.lease].pc \in Active \cup {"cleanup", "dead"}
          /\ st.live \/ (turn[st.lease].pc = "dead" /\ <<st.lease, turn[st.lease].exchange>> \notin runner)
    /\ \A t \in Turn : AtWork(t) => Covered(turn[t].conv, turn[t].base \cup {t})
    /\ \A t, u \in Turn : AtWork(t) /\ AtWork(u) /\ turn[t].conv = turn[u].conv => t = u
    /\ st.committed =>
         /\ Covered(st.conv, st.tail \cup {st.lease})
         /\ \A t \in Turn : AtWork(t) /\ turn[t].conv = st.conv => st.lease = t

\* The columns the proofs look at stay as they are.
RowKept ==
    /\ st'.lease = st.lease /\ st'.conv = st.conv /\ st'.acct = st.acct
    /\ st'.committed = st.committed /\ st'.tail = st.tail /\ (st.live => st'.live)

\* The owner gives its lease back.  The conversation can be continued only if the turn was
\* not submitted, or does not know that it was.
RowFreed(t) ==
    /\ st.lease = t /\ st'.lease = NoTurn
    /\ st'.acct = st.acct /\ st'.conv \in {st.conv, Unused} /\ st'.tail \in {st.tail, turn[t].base}
    /\ st'.committed =>
          /\ st.committed /\ st'.conv = st.conv
          /\ turn[t].pc = "leased" \/ (turn[t].pc = "unwind" /\ turn[t].told # "yes")
          /\ turn'[t].pc \notin Active \cup {"dead"} \/ (turn'[t].pc = "result" /\ turn'[t].review)

\* The owner completes its turn.
RowDone(t) ==
    /\ st.lease = t /\ st'.lease = NoTurn /\ turn[t].pc = "result" /\ turn'[t].pc = "done"
    /\ st'.acct = st.acct /\ st'.tail = turn[t].base \cup {t}
    /\ st'.conv \in {turn[t].conv, Unused}
    /\ st'.committed => st'.conv = turn[t].conv

\* At most one turn and its runs change.
Frame(t) ==
    /\ turn' \in [Turn -> TurnState] /\ \A u \in Turn : u # t => turn'[u] = turn[u]
    /\ st' \in State
    /\ runner' \subseteq Run /\ \A u \in Turn : \A e \in 1..3 : u # t /\ <<u, e>> \in runner' => <<u, e>> \in runner

\* A step in which no coordinates and no account change hands.
Quiet(t) ==
    /\ Frame(t) /\ conv' = conv /\ drawn' = drawn
    /\ turn'[t].conv = turn[t].conv /\ turn'[t].acct = turn[t].acct /\ turn'[t].base = turn[t].base
    /\ turn'[t].pc \in {"probe", "cas"} =>
          \/ turn[t].pc \in {"probe", "cas"} /\ turn'[t].saw = turn[t].saw
          \/ turn'[t].saw = st /\ st.lease \in Turn
    /\ turn'[t].pc \in Active => turn[t].pc \in Active
    /\ turn'[t].pc \in Active /\ turn[t].pc = "result" /\ turn[t].review =>
          turn'[t].pc = "result" /\ turn'[t].review
    /\ turn'[t].pc = "dead" => \A e \in 1..3 : <<t, e>> \in runner' => <<t, e>> \in runner
    /\ turn[t].pc = "dead" => turn'[t].pc = "dead"
    /\ CutOff(t) => CutOff(t)'
    /\ turn[t].pc \in Active \cup {"cleanup"} /\ st'.lease = t => turn'[t].pc \in Active \cup {"cleanup", "dead"}
    /\ RowKept \/ RowFreed(t) \/ RowDone(t)

-----------------------------------------------------------------------------
(* Fields *)

\* The fields of a row.
LEMMA RowFields ==
    ASSUME NEW s \in State
    PROVE  /\ s.conv \in Conv /\ s.acct \in Account \cup {NoAccount}
           /\ s.locked \in BOOLEAN /\ s.committed \in BOOLEAN /\ s.old \in BOOLEAN /\ s.live \in BOOLEAN
           /\ s.lease \in Turn \cup {NoTurn} /\ s.tail \in SUBSET Turn /\ s.run \in Run \cup {NoRun}
BY DEF State

\* The fields of a turn.
LEMMA TurnFields ==
    ASSUME NEW r \in TurnState
    PROVE  /\ r.pc \in PC /\ r.conv \in Conv /\ r.acct \in Account \cup {NoAccount}
           /\ r.started \in BOOLEAN /\ r.locked \in BOOLEAN /\ r.sent \in BOOLEAN
           /\ r.moved \in BOOLEAN /\ r.review \in BOOLEAN
           /\ r.base \in SUBSET Turn /\ r.exchange \in 0..3 /\ r.told \in {"no", "yes", "lost"}
           /\ r.saw \in State
BY DEF TurnState

\* The first row and the first state of a turn are well typed.
LEMMA FirstsTyped == NoState \in State /\ FirstTurn \in TurnState
BY DEF State, TurnState, FirstTurn, NoState, Conv, PC, Unused

\* One turn takes a step: the others stay as they are.
OnlyTurn(t, q) ==
    /\ turn' \in [Turn -> TurnState]
    /\ turn'[t] = q /\ q \in TurnState
    /\ \A u \in Turn : u # t => turn'[u] = turn[u]

\* OnlyTurn for a step written with EXCEPT.
LEMMA Put ==
    ASSUME turn \in [Turn -> TurnState], NEW t \in Turn, NEW q \in TurnState,
           turn' = [turn EXCEPT ![t] = q]
    PROVE  OnlyTurn(t, q)
BY DEF OnlyTurn

\* Only the program counter of a turn moves.
PcTo(t, p) ==
    /\ turn' \in [Turn -> TurnState] /\ \A u \in Turn : u # t => turn'[u] = turn[u]
    /\ turn'[t].pc = p /\ turn'[t].conv = turn[t].conv /\ turn'[t].acct = turn[t].acct
    /\ turn'[t].started = turn[t].started /\ turn'[t].locked = turn[t].locked /\ turn'[t].base = turn[t].base
    /\ turn'[t].exchange = turn[t].exchange /\ turn'[t].sent = turn[t].sent /\ turn'[t].told = turn[t].told
    /\ turn'[t].moved = turn[t].moved /\ turn'[t].review = turn[t].review /\ turn'[t].saw = turn[t].saw

\* PcTo for a step written with EXCEPT.
LEMMA PcStep ==
    ASSUME turn \in [Turn -> TurnState], NEW t \in Turn, NEW p \in PC,
           turn' = [turn EXCEPT ![t].pc = p]
    PROVE  PcTo(t, p)
<1> DEFINE q == [turn[t] EXCEPT !.pc = p]
<1>1. turn[t] \in TurnState /\ FirstTurn \in TurnState
  BY FirstsTyped
<1>2. q \in TurnState
  BY <1>1 DEF TurnState, PC
<1>3. turn' = [turn EXCEPT ![t] = q]
  OBVIOUS
<1>4. OnlyTurn(t, q)
  BY <1>2, <1>3, Put
<1> QED
  BY <1>1, <1>4 DEF OnlyTurn, TurnState, PcTo

\* A turn begins to probe the run it sees.
ProbeTo(t) ==
    /\ turn' \in [Turn -> TurnState] /\ \A u \in Turn : u # t => turn'[u] = turn[u]
    /\ turn'[t].pc = "probe" /\ turn'[t].conv = turn[t].conv /\ turn'[t].acct = turn[t].acct
    /\ turn'[t].started = turn[t].started /\ turn'[t].locked = turn[t].locked /\ turn'[t].base = turn[t].base
    /\ turn'[t].exchange = turn[t].exchange /\ turn'[t].sent = turn[t].sent /\ turn'[t].told = turn[t].told
    /\ turn'[t].moved = turn[t].moved /\ turn'[t].review = turn[t].review /\ turn'[t].saw = st

\* ProbeTo for a step written with EXCEPT.
LEMMA ProbeStep ==
    ASSUME turn \in [Turn -> TurnState], NEW t \in Turn, st \in State,
           turn' = [turn EXCEPT ![t].pc = "probe", ![t].saw = st]
    PROVE  ProbeTo(t)
<1> DEFINE q == [turn[t] EXCEPT !.pc = "probe", !.saw = st]
<1>1. turn[t] \in TurnState /\ FirstTurn \in TurnState
  BY FirstsTyped
<1>2. q \in TurnState
  BY <1>1 DEF TurnState, PC
<1>3. turn' = [turn EXCEPT ![t] = q]
  OBVIOUS
<1>4. OnlyTurn(t, q)
  BY <1>2, <1>3, Put
<1> QED
  BY <1>1, <1>4 DEF OnlyTurn, TurnState, ProbeTo

\* A turn gets the lease.
LeasedTo(t, c, a, b, k, w) ==
    /\ turn' \in [Turn -> TurnState] /\ \A u \in Turn : u # t => turn'[u] = turn[u]
    /\ turn'[t].pc = "leased" /\ turn'[t].conv = c /\ turn'[t].acct = a
    /\ turn'[t].started = b /\ turn'[t].locked = k /\ turn'[t].base = w
    /\ turn'[t].exchange = FirstTurn.exchange /\ turn'[t].sent = FirstTurn.sent /\ turn'[t].told = FirstTurn.told
    /\ turn'[t].moved = FirstTurn.moved /\ turn'[t].review = FirstTurn.review

\* LeasedTo for a step written with EXCEPT.
LEMMA LeasedStep ==
    ASSUME turn \in [Turn -> TurnState], NEW t \in Turn,
           NEW c \in Conv, NEW a \in Account \cup {NoAccount}, NEW b \in BOOLEAN, NEW k \in BOOLEAN, NEW w \in SUBSET Turn,
           turn' = [turn EXCEPT ![t] = [FirstTurn EXCEPT !.pc = "leased", !.conv = c, !.acct = a, !.started = b,
                                    !.locked = k, !.base = w]]
    PROVE  LeasedTo(t, c, a, b, k, w)
<1> DEFINE q == [FirstTurn EXCEPT !.pc = "leased", !.conv = c, !.acct = a, !.started = b,
                                    !.locked = k, !.base = w]
<1>1. turn[t] \in TurnState /\ FirstTurn \in TurnState
  BY FirstsTyped
<1>2. q \in TurnState
  BY <1>1 DEF TurnState, PC
<1>3. turn' = [turn EXCEPT ![t] = q]
  OBVIOUS
<1>4. OnlyTurn(t, q)
  BY <1>2, <1>3, Put
<1> QED
  BY <1>1, <1>4 DEF OnlyTurn, TurnState, LeasedTo

\* A turn takes the lease over.
LeasedAgainTo(t, c, a, k, w) ==
    /\ turn' \in [Turn -> TurnState] /\ \A u \in Turn : u # t => turn'[u] = turn[u]
    /\ turn'[t].pc = "leased" /\ turn'[t].conv = c /\ turn'[t].acct = a
    /\ turn'[t].started = FirstTurn.started /\ turn'[t].locked = k /\ turn'[t].base = w
    /\ turn'[t].exchange = FirstTurn.exchange /\ turn'[t].sent = FirstTurn.sent /\ turn'[t].told = FirstTurn.told
    /\ turn'[t].moved = FirstTurn.moved /\ turn'[t].review = FirstTurn.review

\* LeasedAgainTo for a step written with EXCEPT.
LEMMA LeasedAgainStep ==
    ASSUME turn \in [Turn -> TurnState], NEW t \in Turn,
           NEW c \in Conv, NEW a \in Account \cup {NoAccount}, NEW k \in BOOLEAN, NEW w \in SUBSET Turn,
           turn' = [turn EXCEPT ![t] = [FirstTurn EXCEPT !.pc = "leased", !.conv = c, !.acct = a, !.locked = k,
                                    !.base = w]]
    PROVE  LeasedAgainTo(t, c, a, k, w)
<1> DEFINE q == [FirstTurn EXCEPT !.pc = "leased", !.conv = c, !.acct = a, !.locked = k,
                                    !.base = w]
<1>1. turn[t] \in TurnState /\ FirstTurn \in TurnState
  BY FirstsTyped
<1>2. q \in TurnState
  BY <1>1 DEF TurnState, PC
<1>3. turn' = [turn EXCEPT ![t] = q]
  OBVIOUS
<1>4. OnlyTurn(t, q)
  BY <1>2, <1>3, Put
<1> QED
  BY <1>1, <1>4 DEF OnlyTurn, TurnState, LeasedAgainTo

\* A turn is bound to an account and reads its lease back.
BoundTo(t, c, a, b, k, w) ==
    /\ turn' \in [Turn -> TurnState] /\ \A u \in Turn : u # t => turn'[u] = turn[u]
    /\ turn'[t].pc = "bound" /\ turn'[t].conv = c /\ turn'[t].acct = a
    /\ turn'[t].started = b /\ turn'[t].locked = k /\ turn'[t].base = w
    /\ turn'[t].exchange = 1 /\ turn'[t].sent = turn[t].sent /\ turn'[t].told = turn[t].told
    /\ turn'[t].moved = turn[t].moved /\ turn'[t].review = turn[t].review /\ turn'[t].saw = turn[t].saw

\* BoundTo for a step written with EXCEPT.
LEMMA BoundStep ==
    ASSUME turn \in [Turn -> TurnState], NEW t \in Turn,
           NEW c \in Conv, NEW a \in Account, NEW b \in BOOLEAN, NEW k \in BOOLEAN, NEW w \in SUBSET Turn,
           turn' = [turn EXCEPT ![t].pc = "bound", ![t].acct = a, ![t].exchange = 1, ![t].conv = c,
                                 ![t].started = b, ![t].locked = k, ![t].base = w]
    PROVE  BoundTo(t, c, a, b, k, w)
<1>0. 1 \in 0..3
  OBVIOUS
<1> DEFINE q == [turn[t] EXCEPT !.pc = "bound", !.acct = a, !.exchange = 1, !.conv = c,
                                    !.started = b, !.locked = k, !.base = w]
<1>1. turn[t] \in TurnState /\ FirstTurn \in TurnState
  BY FirstsTyped
<1>2. q \in TurnState
  BY <1>1, <1>0 DEF TurnState, PC
<1>3. turn' = [turn EXCEPT ![t] = q]
  OBVIOUS
<1>4. OnlyTurn(t, q)
  BY <1>2, <1>3, Put
<1>5. /\ q.pc = "bound" /\ q.conv = c /\ q.acct = a /\ q.started = b /\ q.locked = k /\ q.base = w
      /\ q.exchange = 1 /\ q.sent = turn[t].sent /\ q.told = turn[t].told
      /\ q.moved = turn[t].moved /\ q.review = turn[t].review /\ q.saw = turn[t].saw
  BY ONLY <1>1 DEF TurnState
<1> HIDE DEF q
<1> QED
  BY ONLY <1>4, <1>5 DEF OnlyTurn, BoundTo

\* A turn goes on with the account of its lease.
KeptTo(t) ==
    /\ turn' \in [Turn -> TurnState] /\ \A u \in Turn : u # t => turn'[u] = turn[u]
    /\ turn'[t].pc = "bound" /\ turn'[t].conv = turn[t].conv /\ turn'[t].acct = turn[t].acct
    /\ turn'[t].started = turn[t].started /\ turn'[t].locked = turn[t].locked /\ turn'[t].base = turn[t].base
    /\ turn'[t].exchange = 1 /\ turn'[t].sent = turn[t].sent /\ turn'[t].told = turn[t].told
    /\ turn'[t].moved = turn[t].moved /\ turn'[t].review = turn[t].review /\ turn'[t].saw = turn[t].saw

\* KeptTo for a step written with EXCEPT.
LEMMA KeptStep ==
    ASSUME turn \in [Turn -> TurnState], NEW t \in Turn,
           turn' = [turn EXCEPT ![t].pc = "bound", ![t].exchange = 1]
    PROVE  KeptTo(t)
<1>0. 1 \in 0..3
  OBVIOUS
<1> DEFINE q == [turn[t] EXCEPT !.pc = "bound", !.exchange = 1]
<1>1. turn[t] \in TurnState /\ FirstTurn \in TurnState
  BY FirstsTyped
<1>2. q \in TurnState
  BY <1>1, <1>0 DEF TurnState, PC
<1>3. turn' = [turn EXCEPT ![t] = q]
  OBVIOUS
<1>4. OnlyTurn(t, q)
  BY <1>2, <1>3, Put
<1> QED
  BY <1>1, <1>4 DEF OnlyTurn, TurnState, KeptTo

\* A turn moves its context to another account.
ReboundTo(t, c, a, m) ==
    /\ turn' \in [Turn -> TurnState] /\ \A u \in Turn : u # t => turn'[u] = turn[u]
    /\ turn'[t].pc = "bound" /\ turn'[t].conv = c /\ turn'[t].acct = a
    /\ turn'[t].started = FALSE /\ turn'[t].locked = FALSE /\ turn'[t].base = turn[t].base
    /\ turn'[t].exchange = turn[t].exchange + 1 /\ turn'[t].sent = turn[t].sent /\ turn'[t].told = turn[t].told
    /\ turn'[t].moved = m /\ turn'[t].review = turn[t].review /\ turn'[t].saw = turn[t].saw

\* ReboundTo for a step written with EXCEPT.
LEMMA ReboundStep ==
    ASSUME turn \in [Turn -> TurnState], NEW t \in Turn,
           NEW c \in Conv, NEW a \in Account, NEW m \in BOOLEAN, turn[t].exchange < 3,
           turn' = [turn EXCEPT ![t].pc = "bound", ![t].acct = a, ![t].conv = c, ![t].started = FALSE,
                                 ![t].locked = FALSE, ![t].moved = m, ![t].exchange = @ + 1]
    PROVE  ReboundTo(t, c, a, m)
<1> DEFINE q == [turn[t] EXCEPT !.pc = "bound", !.acct = a, !.conv = c, !.started = FALSE,
                                    !.locked = FALSE, !.moved = m, !.exchange = @ + 1]
<1>1. turn[t] \in TurnState /\ FirstTurn \in TurnState
  BY FirstsTyped
<1>2. q \in TurnState
  BY <1>1 DEF TurnState, PC
<1>3. turn' = [turn EXCEPT ![t] = q]
  OBVIOUS
<1>4. OnlyTurn(t, q)
  BY <1>2, <1>3, Put
<1>5. /\ q.pc = "bound" /\ q.conv = c /\ q.acct = a /\ q.started = FALSE /\ q.locked = FALSE
      /\ q.base = turn[t].base /\ q.exchange = turn[t].exchange + 1
      /\ q.sent = turn[t].sent /\ q.told = turn[t].told
      /\ q.moved = m /\ q.review = turn[t].review /\ q.saw = turn[t].saw
  BY ONLY <1>1 DEF TurnState
<1> HIDE DEF q
<1> QED
  BY ONLY <1>4, <1>5 DEF OnlyTurn, ReboundTo

\* A turn goes on with a second account.
FailedOverTo(t, c, a) ==
    /\ turn' \in [Turn -> TurnState] /\ \A u \in Turn : u # t => turn'[u] = turn[u]
    /\ turn'[t].pc = "bound" /\ turn'[t].conv = c /\ turn'[t].acct = a
    /\ turn'[t].started = turn[t].started /\ turn'[t].locked = turn[t].locked /\ turn'[t].base = turn[t].base
    /\ turn'[t].exchange = turn[t].exchange + 1 /\ turn'[t].sent = turn[t].sent /\ turn'[t].told = turn[t].told
    /\ turn'[t].moved = TRUE /\ turn'[t].review = turn[t].review /\ turn'[t].saw = turn[t].saw

\* FailedOverTo for a step written with EXCEPT.
LEMMA FailedOverStep ==
    ASSUME turn \in [Turn -> TurnState], NEW t \in Turn, NEW c \in Conv, NEW a \in Account, turn[t].exchange < 3,
           turn' = [turn EXCEPT ![t].pc = "bound", ![t].acct = a, ![t].conv = c, ![t].exchange = @ + 1,
                                 ![t].moved = TRUE]
    PROVE  FailedOverTo(t, c, a)
<1> DEFINE q == [turn[t] EXCEPT !.pc = "bound", !.acct = a, !.conv = c, !.exchange = @ + 1,
                                    !.moved = TRUE]
<1>1. turn[t] \in TurnState /\ FirstTurn \in TurnState
  BY FirstsTyped
<1>2. q \in TurnState
  BY <1>1 DEF TurnState, PC
<1>3. turn' = [turn EXCEPT ![t] = q]
  OBVIOUS
<1>4. OnlyTurn(t, q)
  BY <1>2, <1>3, Put
<1> QED
  BY <1>1, <1>4, SMTT(40) DEF OnlyTurn, TurnState, FailedOverTo

\* An exchange begins or is refused.
ResetTo(t, p) ==
    /\ turn' \in [Turn -> TurnState] /\ \A u \in Turn : u # t => turn'[u] = turn[u]
    /\ turn'[t].pc = p /\ turn'[t].conv = turn[t].conv /\ turn'[t].acct = turn[t].acct
    /\ turn'[t].started = turn[t].started /\ turn'[t].locked = turn[t].locked /\ turn'[t].base = turn[t].base
    /\ turn'[t].exchange = turn[t].exchange /\ turn'[t].sent = FALSE /\ turn'[t].told = "no"
    /\ turn'[t].moved = turn[t].moved /\ turn'[t].review = turn[t].review /\ turn'[t].saw = turn[t].saw

\* ResetTo for a step written with EXCEPT.
LEMMA ResetStep ==
    ASSUME turn \in [Turn -> TurnState], NEW t \in Turn, NEW p \in PC,
           turn' = [turn EXCEPT ![t].pc = p, ![t].sent = FALSE, ![t].told = "no"]
    PROVE  ResetTo(t, p)
<1> DEFINE q == [turn[t] EXCEPT !.pc = p, !.sent = FALSE, !.told = "no"]
<1>1. turn[t] \in TurnState /\ FirstTurn \in TurnState
  BY FirstsTyped
<1>2. q \in TurnState
  BY <1>1 DEF TurnState, PC
<1>3. turn' = [turn EXCEPT ![t] = q]
  OBVIOUS
<1>4. OnlyTurn(t, q)
  BY <1>2, <1>3, Put
<1> QED
  BY <1>1, <1>4 DEF OnlyTurn, TurnState, ResetTo

\* An invocation is submitted.
SentTo(t) ==
    /\ turn' \in [Turn -> TurnState] /\ \A u \in Turn : u # t => turn'[u] = turn[u]
    /\ turn'[t].pc = turn[t].pc /\ turn'[t].conv = turn[t].conv /\ turn'[t].acct = turn[t].acct
    /\ turn'[t].started = turn[t].started /\ turn'[t].locked = turn[t].locked /\ turn'[t].base = turn[t].base
    /\ turn'[t].exchange = turn[t].exchange /\ turn'[t].sent = TRUE /\ turn'[t].told = turn[t].told
    /\ turn'[t].moved = turn[t].moved /\ turn'[t].review = turn[t].review /\ turn'[t].saw = turn[t].saw

\* SentTo for a step written with EXCEPT.
LEMMA SentStep ==
    ASSUME turn \in [Turn -> TurnState], NEW t \in Turn,
           turn' = [turn EXCEPT ![t].sent = TRUE]
    PROVE  SentTo(t)
<1> DEFINE q == [turn[t] EXCEPT !.sent = TRUE]
<1>1. turn[t] \in TurnState /\ FirstTurn \in TurnState
  BY FirstsTyped
<1>2. q \in TurnState
  BY <1>1 DEF TurnState, PC
<1>3. turn' = [turn EXCEPT ![t] = q]
  OBVIOUS
<1>4. OnlyTurn(t, q)
  BY <1>2, <1>3, Put
<1> QED
  BY <1>1, <1>4 DEF OnlyTurn, TurnState, SentTo

\* A turn learns that its account is locked.
LockedTo(t) ==
    /\ turn' \in [Turn -> TurnState] /\ \A u \in Turn : u # t => turn'[u] = turn[u]
    /\ turn'[t].pc = turn[t].pc /\ turn'[t].conv = turn[t].conv /\ turn'[t].acct = turn[t].acct
    /\ turn'[t].started = turn[t].started /\ turn'[t].locked = TRUE /\ turn'[t].base = turn[t].base
    /\ turn'[t].exchange = turn[t].exchange /\ turn'[t].sent = turn[t].sent /\ turn'[t].told = turn[t].told
    /\ turn'[t].moved = turn[t].moved /\ turn'[t].review = turn[t].review /\ turn'[t].saw = turn[t].saw

\* LockedTo for a step written with EXCEPT.
LEMMA LockedStep ==
    ASSUME turn \in [Turn -> TurnState], NEW t \in Turn,
           turn' = [turn EXCEPT ![t].locked = TRUE]
    PROVE  LockedTo(t)
<1> DEFINE q == [turn[t] EXCEPT !.locked = TRUE]
<1>1. turn[t] \in TurnState /\ FirstTurn \in TurnState
  BY FirstsTyped
<1>2. q \in TurnState
  BY <1>1 DEF TurnState, PC
<1>3. turn' = [turn EXCEPT ![t] = q]
  OBVIOUS
<1>4. OnlyTurn(t, q)
  BY <1>2, <1>3, Put
<1> QED
  BY <1>1, <1>4 DEF OnlyTurn, TurnState, LockedTo

\* A run ends and tells whether it was submitted.
ToldTo(t, p, x) ==
    /\ turn' \in [Turn -> TurnState] /\ \A u \in Turn : u # t => turn'[u] = turn[u]
    /\ turn'[t].pc = p /\ turn'[t].conv = turn[t].conv /\ turn'[t].acct = turn[t].acct
    /\ turn'[t].started = turn[t].started /\ turn'[t].locked = turn[t].locked /\ turn'[t].base = turn[t].base
    /\ turn'[t].exchange = turn[t].exchange /\ turn'[t].sent = turn[t].sent /\ turn'[t].told = x
    /\ turn'[t].moved = turn[t].moved /\ turn'[t].review = turn[t].review /\ turn'[t].saw = turn[t].saw

\* ToldTo for a step written with EXCEPT.
LEMMA ToldStep ==
    ASSUME turn \in [Turn -> TurnState], NEW t \in Turn, NEW p \in PC, NEW x \in {"no", "yes", "lost"},
           turn' = [turn EXCEPT ![t].pc = p, ![t].told = x]
    PROVE  ToldTo(t, p, x)
<1> DEFINE q == [turn[t] EXCEPT !.pc = p, !.told = x]
<1>1. turn[t] \in TurnState /\ FirstTurn \in TurnState
  BY FirstsTyped
<1>2. q \in TurnState
  BY <1>1 DEF TurnState, PC
<1>3. turn' = [turn EXCEPT ![t] = q]
  OBVIOUS
<1>4. OnlyTurn(t, q)
  BY <1>2, <1>3, Put
<1> QED
  BY <1>1, <1>4 DEF OnlyTurn, TurnState, ToldTo

\* A turn has its answer reviewed.
ReviewTo(t) ==
    /\ turn' \in [Turn -> TurnState] /\ \A u \in Turn : u # t => turn'[u] = turn[u]
    /\ turn'[t].pc = "bound" /\ turn'[t].conv = turn[t].conv /\ turn'[t].acct = turn[t].acct
    /\ turn'[t].started = TRUE /\ turn'[t].locked = turn[t].locked /\ turn'[t].base = turn[t].base
    /\ turn'[t].exchange = turn[t].exchange + 1 /\ turn'[t].sent = turn[t].sent /\ turn'[t].told = turn[t].told
    /\ turn'[t].moved = turn[t].moved /\ turn'[t].review = TRUE /\ turn'[t].saw = turn[t].saw

\* ReviewTo for a step written with EXCEPT.
LEMMA ReviewStep ==
    ASSUME turn \in [Turn -> TurnState], NEW t \in Turn, turn[t].exchange < 3,
           turn' = [turn EXCEPT ![t].pc = "bound", ![t].review = TRUE, ![t].started = TRUE, ![t].exchange = @ + 1]
    PROVE  ReviewTo(t)
<1> DEFINE q == [turn[t] EXCEPT !.pc = "bound", !.review = TRUE, !.started = TRUE, !.exchange = @ + 1]
<1>1. turn[t] \in TurnState /\ FirstTurn \in TurnState
  BY FirstsTyped
<1>2. q \in TurnState
  BY <1>1 DEF TurnState, PC
<1>3. turn' = [turn EXCEPT ![t] = q]
  OBVIOUS
<1>4. OnlyTurn(t, q)
  BY <1>2, <1>3, Put
<1> QED
  BY <1>1, <1>4 DEF OnlyTurn, TurnState, ReviewTo

\* The row with an account.
LEMMA BoundRow ==
    ASSUME NEW s \in State, NEW a \in Account \cup {NoAccount}, NEW q, q = [s EXCEPT !.acct = a]
    PROVE  /\ q \in State
           /\ q.conv = s.conv /\ q.acct = a /\ q.locked = s.locked /\ q.committed = s.committed
           /\ q.old = s.old /\ q.lease = s.lease /\ q.live = s.live /\ q.tail = s.tail
BY DEF State, NoRun

\* The row with a marked run, or with none.
LEMMA MarkedRow ==
    ASSUME NEW s \in State, NEW e \in Run \cup {NoRun}, NEW q, q = [s EXCEPT !.run = e]
    PROVE  /\ q \in State
           /\ q.conv = s.conv /\ q.acct = s.acct /\ q.locked = s.locked /\ q.committed = s.committed
           /\ q.old = s.old /\ q.lease = s.lease /\ q.live = s.live /\ q.tail = s.tail
BY DEF State, NoRun

\* The row of a locked account.
LEMMA LockedRow ==
    ASSUME NEW s \in State, NEW q, q = [s EXCEPT !.locked = TRUE]
    PROVE  /\ q \in State
           /\ q.conv = s.conv /\ q.acct = s.acct /\ q.locked = TRUE /\ q.committed = s.committed
           /\ q.old = s.old /\ q.lease = s.lease /\ q.live = s.live /\ q.tail = s.tail
BY DEF State, NoRun

\* The row of an expired lease.
LEMMA ExpiredRow ==
    ASSUME NEW s \in State, NEW q, q = [s EXCEPT !.live = FALSE]
    PROVE  /\ q \in State
           /\ q.conv = s.conv /\ q.acct = s.acct /\ q.locked = s.locked /\ q.committed = s.committed
           /\ q.old = s.old /\ q.lease = s.lease /\ q.live = FALSE /\ q.tail = s.tail
BY DEF State, NoRun

\* The row of a retired protocol generation.
LEMMA OldRow ==
    ASSUME NEW s \in State, NEW q, q = [s EXCEPT !.old = TRUE]
    PROVE  /\ q \in State
           /\ q.conv = s.conv /\ q.acct = s.acct /\ q.locked = s.locked /\ q.committed = s.committed
           /\ q.old = TRUE /\ q.lease = s.lease /\ q.live = s.live /\ q.tail = s.tail
BY DEF State, NoRun

\* The row after a rollover.
LEMMA RolledOverRow ==
    ASSUME NEW s \in State, NEW q, q = RolledOver(s)
    PROVE  /\ q \in State
           /\ q.conv = s.conv /\ q.acct = s.acct /\ q.locked = s.locked /\ q.committed = (s.committed /\ ~s.old)
           /\ q.old = FALSE /\ q.lease = s.lease /\ q.live = s.live /\ q.tail = s.tail
BY DEF State, NoRun, RolledOver

\* The row after release.
LEMMA UnleasedRow ==
    ASSUME NEW s \in State, NEW q, q = Unleased(s)
    PROVE  /\ q \in State
           /\ q.conv = s.conv /\ q.acct = s.acct /\ q.locked = s.locked /\ q.committed = s.committed
           /\ q.old = s.old /\ q.lease = NoTurn /\ q.live = FALSE /\ q.tail = s.tail
BY DEF State, NoRun, Unleased

\* The row after abandonFailedUpstream.
LEMMA TombstonedRow ==
    ASSUME NEW s \in State, NEW t \in Turn, turn[t].base \in SUBSET Turn, NEW q, q = Tombstoned(s, t)
    PROVE  /\ q \in State
           /\ q.conv = Unused /\ q.acct = s.acct /\ q.locked = TRUE /\ q.committed = FALSE
           /\ q.old = s.old /\ q.lease = NoTurn /\ q.live = FALSE /\ q.tail = turn[t].base
BY DEF State, NoRun, Tombstoned, Unleased, Conv

\* The row after abandonIfActive.
LEMMA RestoredRow ==
    ASSUME NEW s \in State, NEW t \in Turn, turn[t].base \in SUBSET Turn, NEW q, q = Restored(s, t)
    PROVE  /\ q \in State
           /\ q.conv = s.conv /\ q.acct = s.acct /\ q.locked = s.locked /\ q.committed = FALSE
           /\ q.old = s.old /\ q.lease = NoTurn /\ q.live = FALSE /\ q.tail = turn[t].base
BY DEF State, NoRun, Restored, Unleased

\* The row after completeFinal and after completeCheckpoint.
LEMMA CompletedRow ==
    ASSUME st \in State, NEW t \in Turn, turn[t].base \in SUBSET Turn, turn[t].conv \in Conv,
           NEW q, q = Completed(t) \/ q = [Completed(t) EXCEPT !.conv = Unused, !.committed = FALSE]
    PROVE  /\ q \in State
           /\ q.conv \in {turn[t].conv, Unused}
           /\ q.committed => q.conv = turn[t].conv
           /\ q.acct = st.acct /\ q.lease = NoTurn
           /\ q.tail = turn[t].base \cup {t}
<1>1. Unleased(st) \in State /\ Unleased(st).acct = st.acct /\ Unleased(st).lease = NoTurn
  BY UnleasedRow
<1>2. /\ Completed(t) \in State /\ Completed(t).conv = turn[t].conv /\ Completed(t).acct = st.acct
      /\ Completed(t).lease = NoTurn /\ Completed(t).tail = turn[t].base \cup {t}
  BY <1>1 DEF Completed, State
<1>3. Unused \in Conv
  BY DEF Conv
<1> QED
  BY <1>2, <1>3 DEF State

-----------------------------------------------------------------------------
\* What the steps below use of the invariant.
LEMMA Facts ==
    ASSUME BaseInv, NEW t \in Turn
    PROVE  /\ turn \in [Turn -> TurnState] /\ turn[t] \in TurnState /\ st \in State
           /\ turn[t].pc \in PC /\ turn[t].conv \in Conv /\ turn[t].acct \in Account \cup {NoAccount}
           /\ turn[t].base \in SUBSET Turn /\ turn[t].exchange \in 0..3 /\ turn[t].saw \in State
           /\ turn[t].moved \in BOOLEAN /\ turn[t].review \in BOOLEAN /\ turn[t].sent \in BOOLEAN
           /\ turn[t].told \in {"no", "yes", "lost"}
           /\ runner \subseteq Run /\ drawn \in Conv /\ Self(t)
<1>1. turn \in [Turn -> TurnState] /\ turn[t] \in TurnState /\ st \in State
  BY DEF BaseInv, TypeOK
<1> QED
  BY <1>1, TurnFields DEF BaseInv, TypeOK

\* What the steps below use of the row.
LEMMA RowFacts ==
    ASSUME BaseInv
    PROVE  /\ st \in State /\ st.conv \in Conv /\ st.acct \in Account \cup {NoAccount}
           /\ st.locked \in BOOLEAN /\ st.committed \in BOOLEAN /\ st.live \in BOOLEAN
           /\ st.lease \in Turn \cup {NoTurn} /\ st.tail \in SUBSET Turn
BY RowFields DEF BaseInv, TypeOK

\* The row does not change, or only in a column the proofs ignore.
LEMMA SameRow ==
    ASSUME BaseInv, st' = st
    PROVE  st' \in State /\ RowKept
BY RowFacts DEF RowKept

\* What release does to the row.
LEMMA ReleaseRow ==
    ASSUME BaseInv, NEW t \in Turn, Release(t),
           turn[t].pc = "leased" \/ (turn[t].pc = "unwind" /\ turn[t].told # "yes"),
           turn'[t].pc \notin Active \cup {"dead"} \/ (turn'[t].pc = "result" /\ turn'[t].review)
    PROVE  st' \in State /\ (RowKept \/ RowFreed(t)) /\ st'.lease # t
<1>1. CASE st.lease = t
  <2>1. st' = Unleased(st)
    BY <1>1 DEF Release, Owns
  <2>2. /\ st' \in State /\ st'.conv = st.conv /\ st'.acct = st.acct /\ st'.committed = st.committed
        /\ st'.lease = NoTurn /\ st'.tail = st.tail
    BY <2>1, RowFacts, UnleasedRow
  <2> QED
    BY <1>1, <2>2, LeaseAssumption DEF RowFreed
<1>2. CASE st.lease # t
  BY <1>2, SameRow DEF Release, Owns, RowKept
<1> QED
  BY <1>1, <1>2

\* What abandonIfActive does to the row.
LEMMA AbandonRow ==
    ASSUME BaseInv, NEW t \in Turn, st' = AbandonedIfActive(st, t)
    PROVE  st' \in State /\ (RowKept \/ RowFreed(t)) /\ st'.lease # t
<1>1. CASE st.lease = t
  <2>1. st' = Restored(st, t)
    BY <1>1 DEF AbandonedIfActive
  <2>2. /\ st' \in State /\ st'.conv = st.conv /\ st'.acct = st.acct /\ ~st'.committed
        /\ st'.lease = NoTurn /\ st'.tail = turn[t].base
    BY <2>1, Facts, RowFacts, RestoredRow
  <2> QED
    BY <1>1, <2>2, LeaseAssumption DEF RowFreed
<1>2. CASE st.lease # t
  BY <1>2, SameRow DEF AbandonedIfActive, RowKept
<1> QED
  BY <1>1, <1>2

\* What abandonFailedUpstream does to the row.
LEMMA TombstoneRow ==
    ASSUME BaseInv, NEW t \in Turn, st' = IF Owns(t) THEN Tombstoned(st, t) ELSE st
    PROVE  st' \in State /\ (RowKept \/ RowFreed(t))
<1>1. CASE st.lease = t
  <2>1. st' = Tombstoned(st, t)
    BY <1>1 DEF Owns
  <2>2. /\ st' \in State /\ st'.conv = Unused /\ st'.acct = st.acct /\ ~st'.committed
        /\ st'.lease = NoTurn /\ st'.tail = turn[t].base
    <3>1. st \in State /\ turn[t].base \in SUBSET Turn
      BY Facts
    <3> QED
      BY <2>1, <3>1, TombstonedRow, ZenonT(60)
  <2> QED
    BY <1>1, <2>2, LeaseAssumption DEF RowFreed
<1>2. CASE st.lease # t
  BY <1>2, SameRow DEF Owns, RowKept
<1> QED
  BY <1>1, <1>2

\* A refused gate leaves the row alone.
LEMMA GateFailsStep ==
    ASSUME BaseInv, NEW t \in Turn, GateFails(t)
    PROVE  Quiet(t) /\ Self(t)'
<1>1. ResetTo(t, "unwind")
  BY Facts, ResetStep DEF GateFails, PC
<1>2. st' \in State /\ RowKept
  BY SameRow DEF GateFails
<1>3. /\ turn[t].pc = "bound"
      /\ runner' = runner /\ conv' = conv /\ drawn' = drawn
  BY DEF GateFails
<1>4. Quiet(t)
  BY <1>1, <1>2, <1>3, Facts DEF ResetTo, Quiet, Frame, CutOff, Self, LostEnds, Active, Working, Run
<1>5. Self(t)'
  BY <1>1, <1>3, Facts DEF ResetTo,
     Self, Fine, Runs, Logged, LostEnds, Unsubmitted, Waiting, Working
<1> QED
  BY <1>4, <1>5

\* A lease with an account goes on with it.
LEMMA KeepAccountStep ==
    ASSUME BaseInv, NEW t \in Turn, KeepAccount(t)
    PROVE  Quiet(t) /\ Self(t)'
<1>1. KeptTo(t)
  BY Facts, KeptStep DEF KeepAccount
<1>2. st' \in State /\ RowKept
  BY SameRow DEF KeepAccount
<1>3. /\ turn[t].pc = "leased" /\ turn[t].acct # NoAccount
      /\ runner' = runner /\ conv' = conv /\ drawn' = drawn
  BY DEF KeepAccount
<1>4. Quiet(t)
  BY <1>1, <1>2, <1>3, Facts DEF KeptTo, Quiet, Frame, CutOff, Active, Working, Run
<1>5. Self(t)'
  BY <1>1, <1>3, Facts DEF KeptTo,
     Self, Fine, Runs, Logged, LostEnds, Unsubmitted, Waiting, Working
<1> QED
  BY <1>4, <1>5

\* The answer of the runner changes nothing but the turn that asked.
LEMMA SupersedeProbeStep ==
    ASSUME BaseInv, NEW t \in Turn, SupersedeProbe(t)
    PROVE  Quiet(t) /\ Self(t)'
<1>1. PcTo(t, "cas") \/ PcTo(t, "done")
  BY Facts, PcStep DEF SupersedeProbe, Goto, PC
<1>2. st' \in State /\ RowKept
  BY SameRow DEF SupersedeProbe
<1>3. /\ turn[t].pc = "probe"
      /\ runner' = runner /\ conv' = conv /\ drawn' = drawn
  BY DEF SupersedeProbe
<1>4. Quiet(t)
  BY <1>1, <1>2, <1>3, Facts DEF PcTo, Quiet, Frame, CutOff, Active, Working, Run
<1>5. Self(t)'
  BY <1>1, <1>3, Facts DEF PcTo,
     Self, Fine, Runs, Logged, LostEnds, Unsubmitted, Waiting, Working
<1> QED
  BY <1>4, <1>5

\* A rejected answer.
LEMMA GuardFailsStep ==
    ASSUME BaseInv, NEW t \in Turn, GuardFails(t)
    PROVE  Quiet(t) /\ Self(t)'
<1>1. PcTo(t, "cleanup")
  BY Facts, PcStep DEF GuardFails, Goto, PC
<1>2. st' \in State /\ RowKept
  BY SameRow DEF GuardFails
<1>3. /\ turn[t].pc = "result"
      /\ runner' = runner /\ conv' = conv /\ drawn' = drawn
  BY DEF GuardFails
<1>4. Quiet(t)
  BY <1>1, <1>2, <1>3, Facts DEF PcTo, Quiet, Frame, CutOff, Active, Working, Run
<1>5. Self(t)'
  BY <1>1, <1>3, Facts DEF PcTo,
     Self, Fine, Runs, Logged, LostEnds, Unsubmitted, Waiting, Working
<1> QED
  BY <1>4, <1>5

\* A vanished Worker leaves row and runner as they are.
LEMMA WorkerDiesStep ==
    ASSUME BaseInv, NEW t \in Turn, WorkerDies(t)
    PROVE  Quiet(t) /\ Self(t)'
<1>1. PcTo(t, "dead")
  BY Facts, PcStep DEF WorkerDies, Goto, PC
<1>2. st' \in State /\ RowKept
  BY SameRow DEF WorkerDies
<1>3. /\ t \in Mortal /\ turn[t].pc \notin {"idle", "probe", "cas", "done", "dead"}
      /\ runner' = runner /\ conv' = conv /\ drawn' = drawn
  BY DEF WorkerDies
<1>4. Quiet(t)
  BY <1>1, <1>2, <1>3, Facts DEF PcTo, Quiet, Frame, CutOff, Active, Working, Run
<1>5. Self(t)'
  BY <1>1, <1>3, Facts DEF PcTo,
     Self, Fine, Runs, Logged, LostEnds, Unsubmitted, Waiting, Working
<1> QED
  BY <1>4, <1>5

\* A turn without a usable account releases its lease.
LEMMA GiveUpStep ==
    ASSUME BaseInv, NEW t \in Turn, GiveUp(t)
    PROVE  Quiet(t) /\ Self(t)'
<1>1. PcTo(t, "done")
  BY Facts, PcStep DEF GiveUp, Goto, PC
<1>2. st' \in State /\ (RowKept \/ RowFreed(t)) /\ st'.lease # t
  BY <1>1, ReleaseRow DEF GiveUp, PcTo, Active, Working
<1>3. /\ turn[t].pc = "leased"
      /\ runner' = runner /\ conv' = conv /\ drawn' = drawn
  BY DEF GiveUp
<1>4. Quiet(t)
  BY <1>1, <1>2, <1>3, Facts DEF PcTo, Quiet, Frame, CutOff, Active, Working, Run
<1>5. Self(t)'
  BY <1>1, <1>3, Facts DEF PcTo,
     Self, Fine, Runs, Logged, LostEnds, Unsubmitted, Waiting, Working
<1> QED
  BY <1>4, <1>5

\* abandonIfActive gives back the lease of a failed turn.
LEMMA CleanupStep ==
    ASSUME BaseInv, NEW t \in Turn, Cleanup(t)
    PROVE  Quiet(t) /\ Self(t)'
<1>1. PcTo(t, "done")
  BY Facts, PcStep DEF Cleanup, Goto, PC
<1>2. st' \in State /\ (RowKept \/ RowFreed(t)) /\ st'.lease # t
  BY AbandonRow DEF Cleanup
<1>3. /\ turn[t].pc = "cleanup"
      /\ runner' = runner /\ conv' = conv /\ drawn' = drawn
  BY DEF Cleanup
<1>4. Quiet(t)
  BY <1>1, <1>2, <1>3, Facts DEF PcTo, Quiet, Frame, CutOff, Active, Working, Run
<1>5. Self(t)'
  BY <1>1, <1>3, Facts DEF PcTo,
     Self, Fine, Runs, Logged, LostEnds, Unsubmitted, Waiting, Working
<1> QED
  BY <1>4, <1>5

\* markUpstreamRun writes only the run of the row.
LEMMA MarkUpstreamRunStep ==
    ASSUME BaseInv, NEW t \in Turn, MarkUpstreamRun(t)
    PROVE  Quiet(t) /\ Self(t)'
<1>1. ResetTo(t, "marked") \/ ResetTo(t, "unwind")
  BY Facts, ResetStep DEF MarkUpstreamRun, PC
<1>2. st' \in State /\ RowKept
  <2>1. <<t, turn[t].exchange>> \in Run
    <3>1. turn[t].exchange \in 1..3
      BY Facts DEF MarkUpstreamRun, Self, Fine, Working
    <3> QED
      BY <3>1 DEF Run
  <2>2. CASE st' = [st EXCEPT !.run = <<t, turn[t].exchange>>]
    BY <2>1, <2>2, RowFacts, MarkedRow DEF RowKept
  <2>3. CASE st' = st
    BY <2>3, SameRow
  <2> QED
    BY <2>2, <2>3 DEF MarkUpstreamRun
<1>3. /\ turn[t].pc = "bound"
      /\ runner' = runner /\ conv' = conv /\ drawn' = drawn
  BY DEF MarkUpstreamRun
<1>4. Quiet(t)
  BY <1>1, <1>2, <1>3, Facts DEF ResetTo, Quiet, Frame, CutOff, Self, LostEnds, Active, Working, Run
<1>5. Self(t)'
  BY <1>1, <1>3, Facts DEF ResetTo,
     Self, Fine, Runs, Logged, LostEnds, Unsubmitted, Waiting, Working
<1> QED
  BY <1>4, <1>5

\* A reset runner loses its run and fails the call.
LEMMA RunnerIsResetStep ==
    ASSUME BaseInv, NEW t \in Turn, RunnerIsReset(t)
    PROVE  Quiet(t) /\ Self(t)'
<1>1. ToldTo(t, "failed", "lost")
  BY Facts, ToldStep DEF RunnerIsReset, PC
<1>2. st' \in State /\ RowKept
  BY SameRow DEF RunnerIsReset
<1>3. /\ t \in Lossy /\ turn[t].pc = "running"
      /\ runner' \subseteq runner /\ <<t, turn[t].exchange>> \notin runner' /\ conv' = conv /\ drawn' = drawn
  BY DEF RunnerIsReset
<1>4. Quiet(t)
  BY <1>1, <1>2, <1>3, Facts DEF ToldTo, Quiet, Frame, CutOff, Active, Working, Run
<1>5. Self(t)'
  BY <1>1, <1>3, Facts DEF ToldTo,
     Self, Fine, Runs, Logged, LostEnds, Unsubmitted, Waiting, Working
<1> QED
  BY <1>4, <1>5

\* A review is another exchange of the same lease.
LEMMA ReviewedStep ==
    ASSUME BaseInv, NEW t \in Turn, Review(t)
    PROVE  Quiet(t) /\ Self(t)'
<1>1. ReviewTo(t)
  <2>1. turn[t].exchange < 3
    BY Facts DEF Review, Self, Fine
  <2> QED
    BY <2>1, Facts, ReviewStep DEF Review
<1>2. st' \in State /\ RowKept
  BY SameRow DEF Review
<1>3. /\ turn[t].pc = "result" /\ t \in Reviewed /\ ~turn[t].review
      /\ runner' = runner /\ conv' = conv /\ drawn' = drawn
  BY DEF Review
<1>4. Quiet(t)
  BY <1>1, <1>2, <1>3, Facts DEF ReviewTo, Quiet, Frame, CutOff, Active, Working, Run
<1>5. Self(t)'
  BY <1>1, <1>3, Facts DEF ReviewTo,
     Self, Fine, Runs, Logged, LostEnds, Unsubmitted, Waiting, Working
<1> QED
  BY <1>4, <1>5

\* markAccountLocked locks the account of the row.
LEMMA MarkAccountLockedStep ==
    ASSUME BaseInv, NEW t \in Turn, MarkAccountLocked(t)
    PROVE  Quiet(t) /\ Self(t)'
<1>1. LockedTo(t)
  BY Facts, LockedStep DEF MarkAccountLocked
<1>2. st' \in State /\ RowKept
  BY RowFacts, LockedRow, ZenonT(60) DEF MarkAccountLocked, RowKept
<1>3. /\ turn[t].pc = "running" /\ ~turn[t].review
      /\ runner' = runner /\ conv' = conv /\ drawn' = drawn
  BY DEF MarkAccountLocked
<1>4. Quiet(t)
  BY <1>1, <1>2, <1>3, Facts DEF LockedTo, Quiet, Frame, CutOff, Active, Working, Run
<1>5. Self(t)'
  BY <1>1, <1>3, Facts DEF LockedTo,
     Self, Fine, Runs, Logged, LostEnds, Unsubmitted, Waiting, Working
<1> QED
  BY <1>4, <1>5

\* completeCheckpoint keeps the answer and not the upstream conversation.
LEMMA CompleteCheckpointStep ==
    ASSUME BaseInv, NEW t \in Turn, CompleteCheckpoint(t)
    PROVE  Quiet(t) /\ Self(t)'
<1>1. PcTo(t, "done")
  BY Facts, PcStep DEF CompleteCheckpoint, Goto, PC
<1>2. st' \in State /\ RowDone(t)
  <2>1. /\ st' \in State /\ st'.conv \in {turn[t].conv, Unused} /\ (st'.committed => st'.conv = turn[t].conv)
        /\ st'.acct = st.acct /\ st'.lease = NoTurn /\ st'.tail = turn[t].base \cup {t}
    BY Facts, RowFacts, CompletedRow DEF CompleteCheckpoint
  <2> QED
    BY <1>1, <2>1 DEF CompleteCheckpoint, OwnsBound, Owns, RowDone, PcTo
<1>3. /\ turn[t].pc = "result"
      /\ runner' = runner /\ conv' = conv /\ drawn' = drawn
  BY DEF CompleteCheckpoint
<1>4. Quiet(t)
  BY <1>1, <1>2, <1>3, Facts, LeaseAssumption DEF PcTo, Quiet, Frame, CutOff, Active, Working, Run, RowDone
<1>5. Self(t)'
  BY <1>1, <1>3, Facts DEF PcTo,
     Self, Fine, Runs, Logged, LostEnds, Unsubmitted, Waiting, Working
<1> QED
  BY <1>4, <1>5

\* completeFinal commits under the lease, or fails.
LEMMA CompleteFinalStep ==
    ASSUME BaseInv, NEW t \in Turn, CompleteFinal(t)
    PROVE  Quiet(t) /\ Self(t)'
<1>1. PcTo(t, "done") \/ PcTo(t, "cleanup")
  BY Facts, PcStep DEF CompleteFinal, Goto, PC
<1>2. st' \in State /\ ((RowKept /\ PcTo(t, "cleanup")) \/ RowDone(t))
  <2>1. CASE OwnsBound(t) /\ st' = Completed(t) /\ Goto(t, "done")
    <3>1. /\ st' \in State /\ st'.conv \in {turn[t].conv, Unused} /\ (st'.committed => st'.conv = turn[t].conv)
          /\ st'.acct = st.acct /\ st'.lease = NoTurn /\ st'.tail = turn[t].base \cup {t}
      BY <2>1, Facts, RowFacts, CompletedRow
    <3>2. PcTo(t, "done")
      BY <2>1, Facts, PcStep DEF Goto, PC
    <3> QED
      BY <2>1, <3>1, <3>2 DEF CompleteFinal, OwnsBound, Owns, RowDone, PcTo
  <2>2. CASE ~OwnsBound(t) /\ st' = st /\ Goto(t, "cleanup")
    BY <2>2, Facts, PcStep, SameRow DEF Goto, PC
  <2> QED
    BY <2>1, <2>2 DEF CompleteFinal
<1>3. /\ turn[t].pc = "result"
      /\ runner' = runner /\ conv' = conv /\ drawn' = drawn
  BY DEF CompleteFinal
<1>4. Quiet(t)
  BY <1>1, <1>2, <1>3, Facts, LeaseAssumption DEF PcTo, Quiet, Frame, CutOff, Active, Working, Run, RowDone
<1>5. Self(t)'
  BY <1>1, <1>3, Facts DEF PcTo,
     Self, Fine, Runs, Logged, LostEnds, Unsubmitted, Waiting, Working
<1> QED
  BY <1>4, <1>5

\* A turn that finds a marked run asks the runner first.
LEMMA SupersedeBeginQuiet ==
    ASSUME BaseInv, NEW t \in Turn, SupersedeBegin(t), st.run # NoRun
    PROVE  Quiet(t) /\ Self(t)'
<1>1. ProbeTo(t)
  BY Facts, RowFacts, ProbeStep DEF SupersedeBegin
<1>2. st' \in State /\ RowKept
  BY SameRow DEF SupersedeBegin
<1>3. /\ turn[t].pc = "idle" /\ st.lease # NoTurn
      /\ runner' = runner /\ conv' = conv /\ drawn' = drawn
  BY DEF SupersedeBegin, Busy
<1>4. Quiet(t)
  BY <1>1, <1>2, <1>3, Facts, RowFacts DEF ProbeTo, Quiet, Frame, CutOff, Active, Working, Run
<1>5. Self(t)'
  BY <1>1, <1>3, Facts DEF ProbeTo,
     Self, Fine, Runs, Logged, LostEnds, Unsubmitted, Waiting, Working
<1> QED
  BY <1>4, <1>5

\* A turn that finds another lease than it saw gives up.
LEMMA SupersedeEndQuiet ==
    ASSUME BaseInv, NEW t \in Turn, SupersedeEnd(t), st.lease # turn[t].saw.lease
    PROVE  Quiet(t) /\ Self(t)'
<1>1. PcTo(t, "done")
  BY Facts, PcStep DEF SupersedeEnd, Goto, PC
<1>2. st' \in State /\ RowKept
  BY SameRow DEF SupersedeEnd
<1>3. /\ turn[t].pc = "cas"
      /\ runner' = runner /\ conv' = conv /\ drawn' = drawn
  BY DEF SupersedeEnd
<1>4. Quiet(t)
  BY <1>1, <1>2, <1>3, Facts DEF PcTo, Quiet, Frame, CutOff, Active, Working, Run
<1>5. Self(t)'
  BY <1>1, <1>3, Facts DEF PcTo,
     Self, Fine, Runs, Logged, LostEnds, Unsubmitted, Waiting, Working
<1> QED
  BY <1>4, <1>5

\* A turn that lost its lease cannot be bound.
LEMMA BindAccountQuiet ==
    ASSUME BaseInv, NEW t \in Turn, NEW a \in Account, BindAccount(t, a),
           ~(Owns(t) /\ st.acct \in {NoAccount, a})
    PROVE  Quiet(t) /\ Self(t)'
<1>1. PcTo(t, "cleanup")
  BY Facts, PcStep DEF BindAccount, Goto, PC
<1>2. st' \in State /\ RowKept
  BY SameRow DEF BindAccount
<1>3. /\ turn[t].pc = "leased"
      /\ runner' = runner /\ conv' = conv /\ drawn' = drawn
  BY DEF BindAccount
<1>4. Quiet(t)
  BY <1>1, <1>2, <1>3, Facts DEF PcTo, Quiet, Frame, CutOff, Active, Working, Run
<1>5. Self(t)'
  BY <1>1, <1>3, Facts DEF PcTo,
     Self, Fine, Runs, Logged, LostEnds, Unsubmitted, Waiting, Working
<1> QED
  BY <1>4, <1>5

\* A turn that cannot switch its account releases its lease.
LEMMA FailOverQuiet ==
    ASSUME BaseInv, NEW t \in Turn, NEW a \in Account, FailOver(t, a),
           ~(OwnsBound(t) /\ ~st.committed /\ ~st.locked)
    PROVE  Quiet(t) /\ Self(t)'
<1>1. PcTo(t, "cleanup")
  BY Facts, PcStep DEF FailOver, Goto, PC
<1>2. st' \in State /\ (RowKept \/ RowFreed(t))
  BY <1>1, ReleaseRow DEF FailOver, MayFailOver, PcTo, Active, Working
<1>3. /\ turn[t].pc = "unwind" /\ turn[t].told = "no"
      /\ runner' = runner /\ conv' = conv /\ drawn' = drawn
  BY DEF FailOver, MayFailOver
<1>4. Quiet(t)
  BY <1>1, <1>2, <1>3, Facts DEF PcTo, Quiet, Frame, CutOff, Active, Working, Run
<1>5. Self(t)'
  BY <1>1, <1>3, Facts DEF PcTo,
     Self, Fine, Runs, Logged, LostEnds, Unsubmitted, Waiting, Working
<1> QED
  BY <1>4, <1>5

\* A turn that cannot rebind its account releases its lease.
LEMMA FollowRouteQuiet ==
    ASSUME BaseInv, NEW t \in Turn, NEW a \in Account, FollowRoute(t, a), ~Rebind(t, a)
    PROVE  Quiet(t) /\ Self(t)'
<1>1. PcTo(t, "cleanup")
  BY Facts, PcStep DEF FollowRoute, Goto, PC
<1>2. st' \in State /\ (RowKept \/ RowFreed(t))
  BY <1>1, ReleaseRow DEF FollowRoute, PcTo, Active, Working
<1>3. /\ turn[t].pc = "unwind" /\ turn[t].told = "no"
      /\ runner' = runner /\ conv' = conv /\ drawn' = drawn
  BY DEF FollowRoute
<1>4. Quiet(t)
  BY <1>1, <1>2, <1>3, Facts DEF PcTo, Quiet, Frame, CutOff, Active, Working, Run
<1>5. Self(t)'
  BY <1>1, <1>3, Facts DEF PcTo,
     Self, Fine, Runs, Logged, LostEnds, Unsubmitted, Waiting, Working
<1> QED
  BY <1>4, <1>5

\* clearUpstreamRun removes at most the mark of its own run.
LEMMA ClearUpstreamRunStep ==
    ASSUME BaseInv, NEW t \in Turn, ClearUpstreamRun(t)
    PROVE  Quiet(t) /\ Self(t)'
<1>1. (turn[t].pc = "ran" /\ PcTo(t, "result")) \/ PcTo(t, "unwind")
  BY Facts, PcStep DEF ClearUpstreamRun, Goto, PC
<1>2. st' \in State /\ RowKept
  <2>1. CASE st' = [st EXCEPT !.run = NoRun]
    BY <2>1, RowFacts, MarkedRow DEF RowKept
  <2>2. CASE st' = st
    BY <2>2, SameRow
  <2> QED
    BY <2>1, <2>2 DEF ClearUpstreamRun
<1>3. /\ turn[t].pc \in {"ran", "failed"}
      /\ runner' = runner /\ conv' = conv /\ drawn' = drawn
  BY DEF ClearUpstreamRun
<1>4. Quiet(t)
  BY <1>1, <1>2, <1>3, Facts DEF PcTo, Quiet, Frame, CutOff, Active, Working, Run
<1>5. Self(t)'
  BY <1>1, <1>3, Facts DEF PcTo,
     Self, Fine, Runs, Logged, LostEnds, Unsubmitted, Waiting, Working
<1> QED
  BY <1>4, <1>5

\* A failed exchange tombstones a submitted invocation and releases any other.
LEMMA ExchangeFailsStep ==
    ASSUME BaseInv, NEW t \in Turn, ExchangeFails(t)
    PROVE  Quiet(t) /\ Self(t)'
<1>1. PcTo(t, IF turn[t].review THEN "result" ELSE "cleanup")
  <2>1. (IF turn[t].review THEN "result" ELSE "cleanup") \in PC
    BY DEF PC
  <2> QED
    BY <2>1, Facts, PcStep DEF ExchangeFails, Goto
<1>2. st' \in State /\ (RowKept \/ RowFreed(t))
  <2>1. CASE turn[t].told = "yes"
    BY <2>1, TombstoneRow DEF ExchangeFails
  <2>2. CASE turn[t].told # "yes"
    BY <1>1, <2>2, Facts, ReleaseRow DEF ExchangeFails, PcTo, Active, Working
  <2> QED
    BY <2>1, <2>2
<1>3. /\ turn[t].pc = "unwind"
      /\ runner' = runner /\ conv' = conv /\ drawn' = drawn
  BY DEF ExchangeFails
<1>4. Quiet(t)
  BY <1>1, <1>2, <1>3, Facts DEF PcTo, Quiet, Frame, CutOff, Active, Working, Run
<1>5. Self(t)'
  BY <1>1, <1>3, Facts DEF PcTo,
     Self, Fine, Runs, Logged, LostEnds, Unsubmitted, Waiting, Working
<1> QED
  BY <1>4, <1>5

\* The runner gets a run of this turn, or refuses it.
LEMMA RunStartsStep ==
    ASSUME BaseInv, NEW t \in Turn, RunStarts(t)
    PROVE  Quiet(t) /\ Self(t)'
<1> DEFINE run == <<t, turn[t].exchange>>
<1>1. st' \in State /\ RowKept
  BY SameRow DEF RunStarts
<1>2. turn[t].exchange \in 1..3 /\ turn[t].pc = "marked"
  BY Facts DEF RunStarts, Self, Fine, Working
<1>3. PcTo(t, "running") \/ PcTo(t, "failed")
  BY Facts, PcStep DEF RunStarts, Goto, PC
<1>4. conv' = conv /\ drawn' = drawn
  BY DEF RunStarts
<1>5. \A u \in Turn : \A e \in 1..3 : <<u, e>> \in runner' =>
         <<u, e>> \in runner \/ (u = t /\ e = turn[t].exchange /\ turn'[t].pc = "running")
  <2>1. CASE runner' = runner \cup {run} /\ Goto(t, "running")
    BY <2>1, Facts, PcStep DEF Goto, PC, PcTo
  <2>2. CASE runner' = runner
    BY <2>2
  <2> QED
    BY <2>1, <2>2 DEF RunStarts
<1>6. runner' \subseteq Run
  <2>1. run \in Run
    BY <1>2 DEF Run
  <2> QED
    BY <2>1, Facts DEF RunStarts
<1>7. Quiet(t)
  BY <1>1, <1>2, <1>3, <1>4, <1>5, <1>6, Facts DEF PcTo, Quiet, Frame, CutOff, Active, Working
<1>8. Runs(t)'
  BY <1>2, <1>3, <1>5, Facts, ZenonT(60) DEF PcTo, Runs, Self, Fine, Working
<1>9. Self(t)'
  BY <1>2, <1>3, <1>4, <1>8, Facts DEF PcTo, Self, Fine, Logged, LostEnds, Unsubmitted, Waiting, Working
<1> QED
  BY <1>7, <1>9

\* A run of this turn is over.
LEMMA RunEndsStep ==
    ASSUME BaseInv, NEW t \in Turn, RunEnds(t)
    PROVE  Quiet(t) /\ Self(t)'
<1>1. st' \in State /\ RowKept
  BY SameRow DEF RunEnds
<1>2. conv' = conv /\ drawn' = drawn /\ runner' \subseteq runner /\ <<t, turn[t].exchange>> \notin runner'
  BY DEF RunEnds
<1>3. \/ turn[t].pc = "running" /\ turn[t].sent /\ ToldTo(t, "ran", "yes")
      \/ turn[t].pc = "running" /\ turn[t].sent /\ ToldTo(t, "failed", "yes")
      \/ turn[t].pc = "running" /\ ~turn[t].sent /\ (ToldTo(t, "failed", "yes") \/ ToldTo(t, "failed", "no"))
      \/ turn[t].pc = "dead" /\ turn' = turn
  BY Facts, ToldStep DEF RunEnds, RunFails, PC
<1>4. Quiet(t)
  BY <1>1, <1>2, <1>3, Facts DEF ToldTo, Quiet, Frame, CutOff, Self, LostEnds, Active, Working
<1>5. \A e \in 1..3 : <<t, e>> \notin runner'
  BY <1>2, Facts DEF Self, Runs
<1>6. Fine(turn[t])' /\ LostEnds(t)'
  BY <1>2, <1>3, Facts DEF ToldTo, Self, Fine, LostEnds, Waiting, Working
<1>7. Runs(t)'
  BY <1>5 DEF Runs
<1>8. turn'[t].conv = turn[t].conv /\ (~Unsubmitted(turn[t]) => ~Unsubmitted(turn'[t]))
  BY <1>3, Facts DEF ToldTo, Unsubmitted, Self, Logged, Waiting
<1>9. Logged(t)'
  BY <1>2, <1>8, Facts DEF Self, Logged
<1> QED
  BY <1>2, <1>4, <1>6, <1>7, <1>8, <1>9, Facts DEF Self

-----------------------------------------------------------------------------
\* The lease goes to t: it continues a committed conversation, or gets new coordinates.
Takes(t) ==
    /\ Frame(t) /\ conv' = conv /\ runner' = runner
    /\ turn[t].pc \in Waiting /\ turn'[t].pc = "leased"
    /\ st'.lease = t /\ st'.live /\ st'.tail = st.tail
    /\ turn'[t].conv = st'.conv /\ turn'[t].acct = st'.acct /\ turn'[t].base = st.tail
    /\ \/ /\ st.committed /\ ~Busy /\ drawn' = drawn
          /\ st'.committed /\ st'.conv = st.conv /\ st'.acct = st.acct
       \/ drawn < MaxConv /\ drawn' = drawn + 1 /\ st'.conv = drawn' /\ ~st'.committed

\* The owner of the lease goes on with another account, under new coordinates.
Moves(t) ==
    /\ Frame(t) /\ conv' = conv /\ runner' = runner
    /\ st.lease = t /\ Unsubmitted(turn[t]) /\ turn[t].pc \in Active /\ turn'[t].pc = "bound"
    /\ st'.lease = t /\ st'.live = st.live /\ st'.tail = st.tail /\ ~st'.committed
    /\ drawn < MaxConv /\ drawn' = drawn + 1 /\ st'.conv = drawn' /\ turn'[t].conv = drawn'
    /\ st'.acct = turn'[t].acct /\ turn'[t].base = turn[t].base

\* The owner of the lease gets its account.
Binds(t) ==
    /\ Frame(t) /\ conv' = conv /\ runner' = runner /\ drawn' = drawn
    /\ st.lease = t /\ turn[t].pc = "leased" /\ turn[t].acct = NoAccount /\ turn'[t].pc = "bound"
    /\ st'.lease = t /\ st'.live = st.live /\ st'.tail = st.tail /\ st'.committed = st.committed
    /\ st'.conv = st.conv /\ turn'[t].conv = st.conv
    /\ st'.acct = turn'[t].acct /\ turn'[t].base = st.tail

\* A turn that has just got the lease is sound.
LEMMA LeasedSelf ==
    ASSUME BaseInv, NEW t \in Turn, turn[t].pc \in Waiting,
           NEW c \in Conv, NEW a \in Account \cup {NoAccount}, NEW b \in BOOLEAN, NEW k \in BOOLEAN,
           NEW w \in SUBSET Turn, LeasedTo(t, c, a, b, k, w),
           runner' = runner, conv' = conv, c # Unused, c <= drawn'
    PROVE  Self(t)'
<1>1. \A e \in 1..3 : <<t, e>> \notin runner
  BY Facts DEF Self, Runs, Waiting
<1>2. \A d \in 1..MaxConv : t \notin conv[d].log
  BY Facts DEF Self, Logged, Unsubmitted
<1> QED
  BY <1>1, <1>2 DEF LeasedTo, FirstTurn, Self, Fine, Runs, Logged, LostEnds, Waiting, Working

\* New coordinates have been drawn.
Drawn ==
    /\ Fresh \in Conv /\ Fresh # Unused /\ Fresh = drawn' /\ Fresh <= drawn'
    /\ drawn < MaxConv /\ drawn' = drawn + 1 /\ drawn' \in Conv /\ drawn <= drawn'

\* Fresh coordinates are coordinates.
LEMMA FreshConv ==
    ASSUME drawn \in Conv, DrawOne
    PROVE  Drawn
BY LeaseAssumption DEF Drawn, DrawOne, Fresh, Conv, Unused

\* tryAcquire
LEMMA AcquireStep ==
    ASSUME BaseInv, NEW t \in Turn, Acquire(t)
    PROVE  Takes(t) /\ Self(t)'
<1> DEFINE s == RolledOver(st)
           c == IF s.committed THEN s.conv ELSE Fresh
           a == IF s.committed \/ s.locked THEN s.acct ELSE NoAccount
<1>1. /\ s \in State /\ s.conv = st.conv /\ s.acct = st.acct /\ s.committed = (st.committed /\ ~st.old)
      /\ s.tail = st.tail /\ s.locked = st.locked
  BY RowFacts, RolledOverRow
<1>2. /\ turn[t].pc = "idle" /\ ~Busy /\ runner' = runner /\ conv' = conv
      /\ IF s.committed THEN UNCHANGED drawn ELSE DrawOne
      /\ st' = [s EXCEPT !.conv = c, !.acct = a, !.lease = t, !.live = TRUE, !.run = NoRun]
      /\ turn' = [turn EXCEPT ![t] =
                    [FirstTurn EXCEPT !.pc = "leased", !.conv = c, !.acct = a,
                                      !.started = s.committed, !.locked = s.locked, !.base = s.tail]]
  BY DEF Acquire
<1> HIDE DEF s
<1>3. st \in State /\ drawn \in Conv /\ st.conv \in Conv /\ st.acct \in Account \cup {NoAccount}
  BY Facts, RowFacts
<1>4. s.committed \in BOOLEAN /\ s.locked \in BOOLEAN /\ s.tail \in SUBSET Turn
  BY <1>1, RowFields
<1>5. /\ c \in Conv /\ a \in Account \cup {NoAccount}
      /\ c # Unused /\ c <= drawn' /\ drawn' \in Conv
      /\ \/ s.committed /\ st.committed /\ c = st.conv /\ a = st.acct /\ drawn' = drawn
         \/ ~s.committed /\ drawn < MaxConv /\ drawn' = drawn + 1 /\ c = drawn'
  <2>1. CASE s.committed
    <3>1. st.conv <= drawn /\ st.conv # Unused
      BY <1>1, <2>1 DEF BaseInv, RowOK
    <3> QED
      BY <1>1, <1>2, <1>3, <2>1, <3>1
  <2>2. CASE ~s.committed
    <3>1. DrawOne /\ c = Fresh /\ a \in Account \cup {NoAccount}
      BY <1>1, <1>2, <1>3, <2>2
    <3>2. /\ Fresh \in Conv /\ Fresh # Unused /\ Fresh = drawn' /\ Fresh <= drawn'
          /\ drawn < MaxConv /\ drawn' = drawn + 1 /\ drawn' \in Conv /\ drawn <= drawn'
      BY <1>3, <3>1, FreshConv DEF Drawn
    <3> QED
      BY <2>2, <3>1, <3>2
  <2> QED
    BY <2>1, <2>2
<1> HIDE DEF c, a
<1>6. LeasedTo(t, c, a, s.committed, s.locked, s.tail)
  BY <1>2, <1>5, <1>4, Facts, LeasedStep, ZenonT(60)
<1>7. /\ st' \in State /\ st'.conv = c /\ st'.acct = a /\ st'.lease = t /\ st'.live = TRUE
      /\ st'.tail = st.tail /\ st'.committed = s.committed
  BY ONLY t \in Turn, <1>1, <1>2, <1>5, <1>4 DEF State, NoRun
<1>8. Takes(t)
  BY <1>1, <1>2, <1>5, <1>6, <1>7, Facts DEF Takes, Frame, LeasedTo, Waiting
<1>9. Self(t)'
  BY <1>2, <1>5, <1>6, <1>4, LeasedSelf DEF Waiting
<1> QED
  BY <1>8, <1>9

\* A supersession, from the row it has read.
LEMMA TakeOverStep ==
    ASSUME BaseInv, NEW t \in Turn, NEW s \in State, TakeOver(t, s), s.tail = st.tail, turn[t].pc \in Waiting
    PROVE  Takes(t) /\ Self(t)'
<1> DEFINE a == IF s.locked THEN s.acct ELSE NoAccount
<1>1. /\ DrawOne /\ runner' = runner /\ conv' = conv
      /\ st' = [st EXCEPT !.conv = Fresh, !.acct = a, !.lease = t, !.live = TRUE,
                          !.committed = FALSE, !.old = FALSE, !.run = NoRun]
      /\ turn' = [turn EXCEPT ![t] =
                    [FirstTurn EXCEPT !.pc = "leased", !.conv = Fresh, !.acct = a,
                                      !.locked = s.locked, !.base = s.tail]]
  BY DEF TakeOver
<1>2. /\ s.locked \in BOOLEAN /\ s.tail \in SUBSET Turn /\ a \in Account \cup {NoAccount}
  BY RowFields
<1> HIDE DEF a
<1>3. /\ Fresh \in Conv /\ Fresh # Unused /\ Fresh = drawn' /\ Fresh <= drawn'
      /\ drawn < MaxConv /\ drawn' = drawn + 1 /\ drawn' \in Conv /\ drawn <= drawn'
  BY <1>1, Facts, FreshConv DEF Drawn
<1>4. turn \in [Turn -> TurnState] /\ st \in State
  BY Facts
<1>5. LeasedTo(t, Fresh, a, FALSE, s.locked, s.tail)
  <2>1. LeasedAgainTo(t, Fresh, a, s.locked, s.tail)
    BY ONLY t \in Turn, <1>1, <1>2, <1>3, <1>4, LeasedAgainStep
  <2> QED
    BY ONLY <2>1 DEF LeasedAgainTo, LeasedTo, FirstTurn
<1>6. /\ st' \in State /\ st'.conv = Fresh /\ st'.acct = a /\ st'.lease = t /\ st'.live = TRUE
      /\ st'.tail = st.tail /\ st'.committed = FALSE
  BY ONLY t \in Turn, <1>1, <1>2, <1>3, <1>4 DEF State, NoRun
<1>7. Takes(t)
  BY <1>1, <1>3, <1>5, <1>6, Facts DEF Takes, Frame, LeasedTo
<1>8. Self(t)'
  BY <1>1, <1>2, <1>3, <1>5, LeasedSelf
<1> QED
  BY <1>7, <1>8

\* bindAccount under the lease
LEMMA BindAccountStep ==
    ASSUME BaseInv, NEW t \in Turn, NEW a \in Account, BindAccount(t, a),
           Owns(t) /\ st.acct \in {NoAccount, a},
           Fenced
    PROVE  Binds(t) /\ Self(t)'
<1>1. /\ turn[t].pc = "leased" /\ turn[t].acct = NoAccount
      /\ st' = [st EXCEPT !.acct = a]
      /\ turn' = [turn EXCEPT ![t].pc = "bound", ![t].acct = a, ![t].exchange = 1,
                              ![t].conv = st.conv, ![t].started = st.committed,
                              ![t].locked = st.locked, ![t].base = st.tail]
      /\ runner' = runner /\ conv' = conv /\ drawn' = drawn
  BY DEF BindAccount
<1>2. BoundTo(t, st.conv, a, st.committed, st.locked, st.tail)
  <2>1. /\ turn \in [Turn -> TurnState] /\ st.conv \in Conv /\ st.committed \in BOOLEAN
        /\ st.locked \in BOOLEAN /\ st.tail \in SUBSET Turn
    BY Facts, RowFacts
  <2> QED
    BY ONLY t \in Turn, a \in Account, <1>1, <2>1, BoundStep
<1>3. /\ st' \in State /\ st'.conv = st.conv /\ st'.acct = a /\ st'.lease = st.lease /\ st'.live = st.live
      /\ st'.tail = st.tail /\ st'.committed = st.committed
  BY <1>1, RowFacts, BoundRow
<1>4. /\ turn' \in [Turn -> TurnState] /\ \A u \in Turn : u # t => turn'[u] = turn[u]
      /\ turn'[t].pc = "bound" /\ turn'[t].conv = st.conv /\ turn'[t].acct = a /\ turn'[t].base = st.tail
      /\ turn'[t].exchange = 1 /\ turn'[t].review = turn[t].review /\ turn'[t].moved = turn[t].moved
      /\ turn'[t].told = turn[t].told
  BY ONLY <1>2 DEF BoundTo
<1>5. turn[t].pc = "leased" /\ turn[t].acct = NoAccount /\ runner' = runner /\ conv' = conv /\ drawn' = drawn
  BY ONLY <1>1
<1>6. ~turn[t].review /\ ~turn[t].moved
  BY <1>5, Facts DEF Self, Fine
<1>7. Binds(t)
  BY <1>5, <1>4, <1>3, Facts DEF Binds, Frame, Owns
<1>8. st.conv = turn[t].conv
  BY DEF Fenced, Owns
<1>9. \A e \in 1..3 : <<t, e>> \notin runner
  BY <1>5, Facts DEF Self, Runs
<1>10. \A d \in 1..MaxConv : t \notin conv[d].log
  BY <1>5, Facts DEF Self, Logged, Unsubmitted
<1>11. Self(t)'
  BY <1>5, <1>4, <1>6, <1>8, <1>9, <1>10, Facts, LeaseAssumption
     DEF Self, Fine, Runs, Logged, LostEnds, Waiting, Working
<1> QED
  BY <1>7, <1>11

\* rebindCommittedAccount
LEMMA RebindStep ==
    ASSUME BaseInv, NEW t \in Turn, NEW a \in Account, Rebind(t, a),
           \/ turn[t].pc = "leased"
           \/ turn[t].pc = "unwind" /\ turn[t].told = "no" /\ ~turn[t].moved /\ ~turn[t].review
    PROVE  Moves(t) /\ Self(t)'
<1>1. /\ st.lease = t /\ DrawOne /\ st' = Rebound(t, a) /\ runner' = runner /\ conv' = conv
      /\ turn' = [turn EXCEPT ![t].pc = "bound", ![t].acct = a, ![t].conv = st'.conv,
                              ![t].started = FALSE, ![t].locked = FALSE,
                              ![t].moved = (turn[t].pc = "unwind"), ![t].exchange = @ + 1]
  BY DEF Rebind, OwnsBound, Owns
<1>2. /\ Fresh \in Conv /\ Fresh # Unused /\ Fresh = drawn' /\ Fresh <= drawn'
      /\ drawn < MaxConv /\ drawn' = drawn + 1 /\ drawn' \in Conv /\ drawn <= drawn'
  BY <1>1, Facts, FreshConv DEF Drawn
<1>3. /\ st' \in State /\ st'.conv = Fresh /\ st'.acct = a /\ st'.lease = st.lease /\ st'.live = st.live
      /\ st'.tail = st.tail /\ st'.committed = FALSE
  <2>1. st \in State
    BY RowFacts
  <2> QED
    BY ONLY a \in Account, <1>1, <1>2, <2>1 DEF Rebound, State
<1>4. turn[t].exchange <= 1 /\ ~turn[t].review
  BY Facts DEF Self, Fine
<1>5. ReboundTo(t, Fresh, a, turn[t].pc = "unwind")
  <2>1. turn \in [Turn -> TurnState] /\ turn[t].exchange < 3 /\ (turn[t].pc = "unwind") \in BOOLEAN
    BY <1>4, Facts
  <2>2. turn' = [turn EXCEPT ![t].pc = "bound", ![t].acct = a, ![t].conv = Fresh,
                             ![t].started = FALSE, ![t].locked = FALSE,
                             ![t].moved = (turn[t].pc = "unwind"), ![t].exchange = @ + 1]
    BY ONLY <1>1, <1>3
  <2> QED
    BY ONLY t \in Turn, a \in Account, <1>2, <2>1, <2>2, ReboundStep
<1>6. /\ turn' \in [Turn -> TurnState] /\ \A u \in Turn : u # t => turn'[u] = turn[u]
      /\ turn'[t].pc = "bound" /\ turn'[t].conv = Fresh /\ turn'[t].acct = a /\ turn'[t].base = turn[t].base
      /\ turn'[t].exchange = turn[t].exchange + 1 /\ turn'[t].review = turn[t].review
      /\ turn'[t].told = turn[t].told
  BY ONLY <1>5 DEF ReboundTo
<1>7. runner' = runner /\ conv' = conv
  BY ONLY <1>1
<1>8. turn'[t].moved \/ turn'[t].exchange = 1
  <2>1. CASE turn[t].pc = "leased"
    BY <2>1, <1>6, Facts DEF Self, Fine
  <2>2. CASE turn[t].pc = "unwind"
    BY ONLY <2>2, <1>5 DEF ReboundTo
  <2> QED
    BY <2>1, <2>2
<1>9. Unsubmitted(turn[t])
  BY <1>4 DEF Unsubmitted
<1>10. Moves(t)
  <2>1. runner \subseteq Run
    BY Facts
  <2>2. Frame(t)
    BY ONLY <1>3, <1>6, <1>7, <2>1 DEF Frame
  <2>3. turn[t].pc \in Active
    BY DEF Active, Working
  <2>4. st.lease = t
    BY ONLY <1>1
  <2> QED
    BY ONLY <1>2, <1>3, <1>6, <1>7, <1>9, <2>2, <2>3, <2>4 DEF Moves
<1>11. \A e \in 1..3 : <<t, e>> \notin runner
  BY <1>1, Facts DEF Self, Runs
<1>12. \A d \in 1..MaxConv : t \notin conv[d].log
  BY <1>9, Facts DEF Self, Logged
<1>13. Self(t)'
  <2>1. Fine(turn[t])'
    BY <1>2, <1>4, <1>6, <1>8, Facts, LeaseAssumption DEF Self, Fine, Waiting, Working
  <2> QED
    BY <1>7, <1>4, <1>6, <1>11, <1>12, <2>1, <1>2, Facts DEF Self, Runs, Logged, LostEnds
<1> QED
  BY <1>10, <1>13

\* switchUncommittedAccount
LEMMA FailOverStep ==
    ASSUME BaseInv, NEW t \in Turn, NEW a \in Account, FailOver(t, a),
           OwnsBound(t) /\ ~st.committed /\ ~st.locked
    PROVE  Moves(t) /\ Self(t)'
<1>1. /\ st.lease = t /\ DrawOne /\ st' = [st EXCEPT !.conv = Fresh, !.acct = a] /\ runner' = runner /\ conv' = conv
      /\ turn[t].pc = "unwind" /\ turn[t].told = "no" /\ ~turn[t].moved /\ ~turn[t].started
      /\ turn' = [turn EXCEPT ![t].pc = "bound", ![t].acct = a, ![t].conv = Fresh,
                              ![t].exchange = @ + 1, ![t].moved = TRUE]
  BY DEF FailOver, MayFailOver, OwnsBound, Owns
<1>2. /\ Fresh \in Conv /\ Fresh # Unused /\ Fresh = drawn' /\ Fresh <= drawn'
      /\ drawn < MaxConv /\ drawn' = drawn + 1 /\ drawn' \in Conv /\ drawn <= drawn'
  BY <1>1, Facts, FreshConv DEF Drawn
<1>3. /\ st' \in State /\ st'.conv = Fresh /\ st'.acct = a /\ st'.lease = st.lease /\ st'.live = st.live
      /\ st'.tail = st.tail /\ st'.committed = st.committed
  <2>1. st \in State
    BY RowFacts
  <2> QED
    BY ONLY a \in Account, <1>1, <1>2, <2>1 DEF State
<1>4. turn[t].exchange <= 1 /\ ~turn[t].review
  BY <1>1, Facts DEF Self, Fine
<1>5. FailedOverTo(t, Fresh, a)
  <2>1. turn \in [Turn -> TurnState] /\ turn[t].exchange < 3
    BY <1>4, Facts
  <2> QED
    BY ONLY t \in Turn, a \in Account, <1>1, <1>2, <2>1, FailedOverStep
<1>6. Unsubmitted(turn[t])
  BY <1>1, <1>4 DEF Unsubmitted
<1>7. Moves(t)
  BY <1>1, <1>2, <1>3, <1>5, <1>6, Facts DEF Moves, Frame, FailedOverTo, Active, Working
<1>8. \A e \in 1..3 : <<t, e>> \notin runner
  BY <1>1, Facts DEF Self, Runs
<1>9. \A d \in 1..MaxConv : t \notin conv[d].log
  BY <1>6, Facts DEF Self, Logged
<1>10. Self(t)'
  <2>1. Fine(turn[t])'
    BY <1>2, <1>4, <1>5, Facts, LeaseAssumption DEF FailedOverTo, Self, Fine, Waiting, Working
  <2> QED
    BY <1>1, <1>4, <1>5, <1>8, <1>9, <2>1, <1>2, Facts, ZenonT(60) DEF FailedOverTo, Self, Runs, Logged, LostEnds
<1> QED
  BY <1>7, <1>10

\* An invocation reaches Microsoft.
Sends(t) ==
    /\ Frame(t) /\ runner' = runner /\ drawn' = drawn /\ st' = st
    /\ turn[t].pc \in {"running", "dead"} /\ turn'[t].pc = turn[t].pc /\ turn[t].acct # NoAccount
    /\ turn'[t].conv = turn[t].conv /\ turn'[t].acct = turn[t].acct /\ turn'[t].base = turn[t].base
    /\ turn'[t].review = turn[t].review /\ turn'[t].told = turn[t].told
    /\ turn[t].conv \in 1..MaxConv /\ conv' \in [1..MaxConv -> Upstream]
    /\ \A c \in 1..MaxConv : c # turn[t].conv => conv'[c] = conv[c]
    /\ conv'[turn[t].conv].log = conv[turn[t].conv].log \cup {t}
    /\ conv'[turn[t].conv].acct \in {conv[turn[t].conv].acct, turn[t].acct}
    /\ conv[turn[t].conv].acct # NoAccount => conv'[turn[t].conv].acct = conv[turn[t].conv].acct

\* No turn takes a step.
RowOnly ==
    /\ turn' = turn /\ runner' = runner /\ conv' = conv /\ drawn' = drawn /\ st' \in State
    /\ \/ /\ st'.lease = st.lease /\ st'.conv = st.conv /\ st'.acct = st.acct
          /\ st'.committed = st.committed /\ st'.tail = st.tail
          /\ st.live => \/ st'.live
                        \/ /\ st.lease \in Turn /\ turn[st.lease].pc \in {"done", "dead"}
                           /\ <<st.lease, turn[st.lease].exchange>> \notin runner
       \/ st' = NoState /\ \A t \in Turn : turn[t].pc \in {"idle", "done", "dead"}

\* The stream of a turn is cancelled: abandonIfActive and nothing else.
LEMMA ClientLeavesStep ==
    ASSUME BaseInv, NEW t \in Turn, ClientLeaves(t)
    PROVE  Quiet(t) /\ Self(t)'
<1>1. turn' = turn /\ runner' = runner /\ conv' = conv /\ drawn' = drawn
  BY DEF ClientLeaves
<1>2. st' \in State /\ (RowKept \/ RowFreed(t)) /\ st'.lease # t
  BY AbandonRow DEF ClientLeaves
<1>3. Quiet(t)
  BY <1>1, <1>2, Facts DEF ClientLeaves, Quiet, Frame, CutOff
<1>4. Self(t)'
  BY <1>1, Facts DEF Self, Runs, Logged, LostEnds
<1> QED
  BY <1>3, <1>4

\* A submission adds the turn to the log of its own conversation.
LEMMA SubmitsStep ==
    ASSUME BaseInv, NEW t \in Turn, Submits(t)
    PROVE  Sends(t) /\ Self(t)'
<1> DEFINE k == turn[t].conv
           new == [acct |-> IF conv[k].acct = NoAccount THEN turn[t].acct ELSE conv[k].acct,
                   log |-> conv[k].log \cup {t}]
<1>1. /\ <<t, turn[t].exchange>> \in runner /\ ~turn[t].sent /\ st' = st /\ runner' = runner /\ drawn' = drawn
      /\ conv' = [conv EXCEPT ![k] = new]
  BY DEF Submits
<1>2. turn[t].exchange \in 1..3
  BY <1>1, Facts DEF Run
<1>3. turn[t].pc \in {"running", "dead"} /\ turn[t].acct # NoAccount
  BY <1>1, <1>2, Facts DEF Self, Runs
<1>4. k \in 1..MaxConv
  BY <1>3, Facts DEF Self, Fine, Waiting, Conv, Unused
<1>5. SentTo(t)
  BY Facts, SentStep DEF Submits
<1>6. conv \in [1..MaxConv -> Upstream] /\ conv[k] \in Upstream
  BY <1>4 DEF BaseInv, TypeOK
<1>7. /\ new \in Upstream /\ new.log = conv[k].log \cup {t}
      /\ new.acct \in {conv[k].acct, turn[t].acct} /\ (conv[k].acct # NoAccount => new.acct = conv[k].acct)
  BY <1>6, Facts DEF Upstream
<1> HIDE DEF new
<1>8. /\ conv' \in [1..MaxConv -> Upstream] /\ conv'[k] = new
      /\ \A c \in 1..MaxConv : c # k => conv'[c] = conv[c]
  BY <1>1, <1>4, <1>6, <1>7
<1> HIDE DEF k
<1>9. Sends(t)
  BY <1>1, <1>3, <1>4, <1>5, <1>7, <1>8, Facts DEF Sends, Frame, SentTo, k
<1>10. Logged(t)'
  <2> SUFFICES ASSUME NEW c \in 1..MaxConv, t \in conv'[c].log
               PROVE  c = turn'[t].conv /\ ~Unsubmitted(turn'[t])
    BY DEF Logged
  <2>1. c = k
    BY <1>7, <1>8, Facts DEF Self, Logged, k
  <2>2. ~Unsubmitted(turn'[t])
    BY <1>3, <1>5 DEF SentTo, Unsubmitted, Waiting
  <2> QED
    BY <2>1, <2>2, <1>5 DEF SentTo, k
<1>11. Self(t)'
  BY <1>1, <1>3, <1>5, <1>10, Facts DEF SentTo, Self, Fine, Runs, LostEnds, Waiting, Working
<1> QED
  BY <1>9, <1>11

\* The steps of no turn.
LEMMA RowSteps ==
    ASSUME BaseInv, LeaseExpires \/ ExpireIfIdle \/ ProtocolChanges
    PROVE  RowOnly
<1>1. CASE LeaseExpires
  <2>1. st' = [st EXCEPT !.live = FALSE] /\ turn' = turn /\ runner' = runner /\ conv' = conv /\ drawn' = drawn
    BY <1>1 DEF LeaseExpires
  <2>2. /\ st' \in State /\ st'.lease = st.lease /\ st'.conv = st.conv /\ st'.acct = st.acct
        /\ st'.committed = st.committed /\ st'.tail = st.tail
    BY <2>1, RowFacts, ExpiredRow
  <2>3. /\ st.lease \in Turn /\ turn[st.lease].pc \in {"done", "dead"}
        /\ <<st.lease, turn[st.lease].exchange>> \notin runner
    BY <1>1, RowFacts DEF LeaseExpires, Busy, OwnerIsGone
  <2> QED
    BY <2>1, <2>2, <2>3 DEF RowOnly
<1>2. CASE ExpireIfIdle
  BY <1>2, FirstsTyped DEF ExpireIfIdle, RowOnly
<1>3. CASE ProtocolChanges
  <2>1. st' = [st EXCEPT !.old = TRUE] /\ turn' = turn /\ runner' = runner /\ conv' = conv /\ drawn' = drawn
    BY <1>3 DEF ProtocolChanges
  <2>2. /\ st' \in State /\ st'.lease = st.lease /\ st'.conv = st.conv /\ st'.acct = st.acct
        /\ st'.committed = st.committed /\ st'.tail = st.tail /\ st'.live = st.live
    BY <2>1, RowFacts, OldRow
  <2> QED
    BY <2>1, <2>2 DEF RowOnly
<1> QED
  BY <1>1, <1>2, <1>3

-----------------------------------------------------------------------------
(* Every step is of one of six kinds *)

Kind(t) == Quiet(t) \/ Takes(t) \/ Moves(t) \/ Binds(t) \/ Sends(t)

\* Every step is of one of the kinds.
LEMMA StepKinds ==
    ASSUME BaseInv, Fenced, Next
    PROVE  RowOnly \/ \E t \in Turn : Kind(t) /\ Self(t)'
<1>1. CASE LeaseExpires \/ ExpireIfIdle \/ ProtocolChanges
  BY <1>1, RowSteps
<1>2. ASSUME NEW t \in Turn, NEW a \in Account,
             BindAccount(t, a) \/ RebindOnEntry(t, a) \/ FailOver(t, a) \/ FollowRoute(t, a)
      PROVE  Kind(t) /\ Self(t)'
  <2>1. CASE BindAccount(t, a)
    BY <2>1, BindAccountStep, BindAccountQuiet DEF Kind
  <2>2. CASE RebindOnEntry(t, a)
    BY <2>2, RebindStep DEF Kind, RebindOnEntry
  <2>3. CASE FailOver(t, a)
    BY <2>3, FailOverStep, FailOverQuiet DEF Kind
  <2>4. CASE FollowRoute(t, a) /\ Rebind(t, a)
    BY <2>4, RebindStep DEF Kind, FollowRoute
  <2>5. CASE FollowRoute(t, a) /\ ~Rebind(t, a)
    BY <2>5, FollowRouteQuiet DEF Kind
  <2> QED
    BY <1>2, <2>1, <2>2, <2>3, <2>4, <2>5
<1>3. ASSUME NEW t \in Turn, Acquire(t) \/ SupersedeBegin(t) \/ SupersedeEnd(t)
      PROVE  Kind(t) /\ Self(t)'
  <2>1. CASE Acquire(t)
    BY <2>1, AcquireStep DEF Kind
  <2>2. CASE SupersedeBegin(t) /\ st.run = NoRun
    BY <2>2, TakeOverStep, RowFacts DEF Kind, SupersedeBegin, Waiting
  <2>3. CASE SupersedeBegin(t) /\ st.run # NoRun
    BY <2>3, SupersedeBeginQuiet DEF Kind
  <2>4. CASE SupersedeEnd(t) /\ st.lease = turn[t].saw.lease
    <3>1. TakeOver(t, turn[t].saw) /\ turn[t].pc = "cas"
      BY <2>4 DEF SupersedeEnd
    <3>2. turn[t].saw.tail = st.tail /\ turn[t].saw \in State
      BY <2>4, <3>1, Facts DEF Fenced
    <3> QED
      BY <3>1, <3>2, TakeOverStep DEF Kind, Waiting
  <2>5. CASE SupersedeEnd(t) /\ st.lease # turn[t].saw.lease
    BY <2>5, SupersedeEndQuiet DEF Kind
  <2> QED
    BY <1>3, <2>1, <2>2, <2>3, <2>4, <2>5
<1>4. ASSUME NEW t \in Turn, Proceeds(t)
      PROVE  Kind(t) /\ Self(t)'
  BY <1>4, KeepAccountStep, GiveUpStep, MarkUpstreamRunStep, GateFailsStep, RunStartsStep, RunEndsStep,
     ClearUpstreamRunStep, ExchangeFailsStep, CompleteFinalStep, GuardFailsStep, CleanupStep
     DEF Proceeds, Kind
<1>5. ASSUME NEW t \in Turn,
             \/ SupersedeProbe(t) \/ Submits(t) \/ MarkAccountLocked(t) \/ RunnerIsReset(t)
             \/ Review(t) \/ CompleteCheckpoint(t) \/ ClientLeaves(t) \/ WorkerDies(t)
      PROVE  Kind(t) /\ Self(t)'
  BY <1>5, SupersedeProbeStep, SubmitsStep, MarkAccountLockedStep, RunnerIsResetStep, ReviewedStep,
     CompleteCheckpointStep, ClientLeavesStep, WorkerDiesStep DEF Kind
<1> QED
  BY <1>1, <1>2, <1>3, <1>4, <1>5 DEF Next

\* A step of one turn leaves the others sound.
LEMMA OthersKept ==
    ASSUME BaseInv, NEW t \in Turn, Frame(t), drawn' \in Conv, drawn <= drawn',
           \A u \in Turn : \A c \in 1..MaxConv : u # t /\ u \in conv'[c].log => u \in conv[c].log,
           NEW u \in Turn, u # t
    PROVE  Self(u)'
<1>1. turn'[u] = turn[u]
  BY DEF Frame
<1>2. Self(u) /\ turn[u].conv \in Conv /\ drawn \in Conv
  BY Facts
<1>3. turn'[u].conv <= drawn'
  BY <1>1, <1>2 DEF Self, Conv, Unused
<1>4. Runs(u)'
  BY <1>1, <1>2 DEF Frame, Runs, Self
<1>5. Logged(u)'
  BY <1>1, <1>2 DEF Logged, Self
<1> QED
  BY <1>1, <1>2, <1>3, <1>4, <1>5 DEF Self, LostEnds

\* The first layer, for a step of a turn.
LEMMA BaseStep ==
    ASSUME BaseInv, Fenced, NEW t \in Turn, Kind(t), Self(t)'
    PROVE  BaseInv'
<1>1. drawn \in Conv /\ st \in State /\ st.conv \in Conv /\ turn[t].conv \in Conv /\ Self(t) /\ MaxConv \in Nat
  BY Facts, RowFacts, LeaseAssumption
<1>2. /\ Frame(t) /\ drawn' \in Conv /\ drawn <= drawn'
      /\ conv' \in [1..MaxConv -> Upstream]
      /\ \A u \in Turn : \A c \in 1..MaxConv : u # t /\ u \in conv'[c].log => u \in conv[c].log
  <2>1. CASE Quiet(t) \/ Takes(t) \/ Moves(t) \/ Binds(t)
    <3>1. Frame(t) /\ conv' = conv /\ (drawn' = drawn \/ (drawn < MaxConv /\ drawn' = drawn + 1))
      BY <2>1 DEF Quiet, Takes, Moves, Binds
    <3> QED
      BY <1>1, <3>1 DEF BaseInv, TypeOK, Conv, Unused
  <2>2. CASE Sends(t)
    <3>1. \A u \in Turn : \A c \in 1..MaxConv : u # t /\ u \in conv'[c].log => u \in conv[c].log
      BY <2>2 DEF Sends
    <3> QED
      BY <2>2, <3>1, <1>1 DEF Sends, Conv, Unused
  <2> QED
    BY <2>1, <2>2 DEF Kind
<1>3. \A u \in Turn : Self(u)'
  BY <1>2, OthersKept
<1>4. TypeOK'
  BY <1>2 DEF TypeOK, Frame
<1>5. RowOK'
  <2>1. CASE Quiet(t)
    BY <2>1, <1>1 DEF Quiet, RowKept, RowFreed, RowDone, RowOK, BaseInv, Self, Fine, Waiting, Conv, Unused
  <2>2. CASE Takes(t)
    BY <2>2, <1>1 DEF Takes, RowOK, BaseInv, Conv, Unused
  <2>3. CASE Moves(t)
    BY <2>3, <1>1 DEF Moves, RowOK, Conv, Unused
  <2>4. CASE Binds(t) \/ Sends(t)
    BY <2>4 DEF Binds, Sends, RowOK, BaseInv
  <2> QED
    BY <2>1, <2>2, <2>3, <2>4 DEF Kind
<1>6. NewOK'
  <2>1. CASE Quiet(t) \/ Takes(t) \/ Moves(t) \/ Binds(t)
    <3>1. conv' = conv /\ (drawn' = drawn \/ drawn' = drawn + 1)
      BY <2>1 DEF Quiet, Takes, Moves, Binds
    <3>2. \A c \in 1..MaxConv : c > drawn' => c > drawn
      BY <3>1, <1>1 DEF Conv, Unused
    <3> QED
      BY <3>1, <3>2 DEF NewOK, BaseInv
  <2>2. CASE Sends(t)
    <3>1. turn[t].conv <= drawn /\ drawn' = drawn
      BY <2>2, <1>1 DEF Sends, Self
    <3>2. \A c \in 1..MaxConv : c > drawn => c # turn[t].conv
      BY <3>1, <1>1 DEF Conv, Unused
    <3> QED
      BY <2>2, <3>1, <3>2 DEF Sends, NewOK, BaseInv
  <2> QED
    BY <2>1, <2>2 DEF Kind
<1> QED
  BY <1>3, <1>4, <1>5, <1>6 DEF BaseInv

\* The first layer, for a step of no turn.
LEMMA RowOnlyBase ==
    ASSUME BaseInv, RowOnly
    PROVE  BaseInv'
<1>1. drawn \in Conv
  BY DEF BaseInv, TypeOK
<1>2. RowOK'
  BY <1>1 DEF RowOnly, RowOK, BaseInv, NoState, Conv, Unused
<1>3. TypeOK' /\ NewOK'
  BY DEF RowOnly, TypeOK, NewOK, BaseInv
<1>4. \A t \in Turn : Self(t)'
  BY DEF RowOnly, BaseInv, Self, Runs, Logged, LostEnds
<1> QED
  BY <1>2, <1>3, <1>4 DEF BaseInv

-----------------------------------------------------------------------------
(* The fence *)

\* The fence, for a step of a turn: a turn gets coordinates only once, so a lease that is
\* still the one a supersession saw has been held all the time.
LEMMA FencedStep ==
    ASSUME BaseInv, Fenced, NEW t \in Turn, Kind(t), Self(t)'
    PROVE  Fenced'
<1>1. /\ \A u \in Turn : u # t => turn'[u] = turn[u]
      /\ Self(t) /\ NoTurn \notin Turn /\ st.lease \in Turn \cup {NoTurn} /\ drawn \in Nat /\ turn[t].conv \in Conv
  <2>1. Frame(t)
    BY DEF Kind, Quiet, Takes, Moves, Binds, Sends
  <2>2. drawn \in Nat
    BY Facts, LeaseAssumption DEF Conv, Unused
  <2> QED
    BY <2>1, <2>2, Facts, RowFacts, LeaseAssumption DEF Frame
<1>2. \A u \in Turn : turn[u].conv # Unused => turn'[u].conv # Unused
  <2>1. CASE Quiet(t) \/ Binds(t) \/ Sends(t)
    BY <2>1, <1>1 DEF Quiet, Binds, Sends, Came, Fenced
  <2>2. CASE Takes(t)
    BY <2>2, <1>1 DEF Takes, Came, Self, Fine
  <2>3. CASE Moves(t)
    BY <2>3, <1>1 DEF Moves, Came, Unused
  <2> QED
    BY <2>1, <2>2, <2>3 DEF Kind
<1>3. ASSUME NEW u \in Turn, st'.lease = u
      PROVE  /\ Came(u)' /\ turn'[u].base = st'.tail /\ turn'[u].conv = st'.conv /\ turn'[u].acct = st'.acct
  <2>1. CASE Quiet(t)
    <3>1. RowKept
      BY <1>3, <1>1, <2>1 DEF Quiet, RowFreed, RowDone
    <3>2. turn'[u].conv = turn[u].conv /\ turn'[u].acct = turn[u].acct /\ turn'[u].base = turn[u].base
      BY <1>1, <2>1 DEF Quiet
    <3> QED
      BY <1>2, <1>3, <3>1, <3>2 DEF RowKept, Fenced, Came
  <2>2. CASE Takes(t)
    <3>1. u = t /\ turn'[t].pc = "leased"
      BY <1>3, <2>2 DEF Takes
    <3> QED
      BY <3>1, <2>2 DEF Takes, Self, Fine, Came, Waiting
  <2>3. CASE Moves(t)
    BY <1>1, <1>3, <2>3 DEF Moves, Came, Unused, Fenced
  <2>4. CASE Binds(t)
    BY <1>1, <1>2, <1>3, <2>4 DEF Binds, Fenced, Came
  <2>5. CASE Sends(t)
    BY <1>1, <1>2, <1>3, <2>5 DEF Sends, Fenced, Came
  <2> QED
    BY <2>1, <2>2, <2>3, <2>4, <2>5 DEF Kind
<1>4. ASSUME NEW u \in Turn, turn'[u].pc \in {"probe", "cas"}
      PROVE  /\ turn'[u].saw.lease \in Turn /\ turn'[turn'[u].saw.lease].conv # Unused
             /\ st'.lease = turn'[u].saw.lease => st'.tail = turn'[u].saw.tail
  <2>1. CASE u = t
    <3>1. Quiet(t)
      <4>1. turn'[t].pc \notin {"leased", "bound", "running", "dead"}
        BY <1>4, <2>1
      <4> QED
        BY <4>1 DEF Kind, Takes, Moves, Binds, Sends
    <3>2. CASE turn[t].pc \in {"probe", "cas"} /\ turn'[t].saw = turn[t].saw
      <4>1. /\ turn[t].saw.lease \in Turn /\ Came(turn[t].saw.lease)
            /\ st.lease = turn[t].saw.lease => st.tail = turn[t].saw.tail
        BY <3>2 DEF Fenced
      <4>2. st'.lease \in Turn => st'.lease = st.lease /\ st'.tail = st.tail
        BY <1>1, <3>1 DEF Quiet, RowKept, RowFreed, RowDone
      <4> QED
        BY <1>2, <2>1, <3>2, <4>1, <4>2 DEF Came
    <3>3. CASE turn'[t].saw = st /\ st.lease \in Turn
      <4>1. Came(st.lease)
        BY <3>3 DEF Fenced
      <4>2. st'.lease \in Turn => st'.lease = st.lease /\ st'.tail = st.tail
        BY <1>1, <3>1 DEF Quiet, RowKept, RowFreed, RowDone
      <4> QED
        BY <1>2, <2>1, <3>3, <4>1, <4>2 DEF Came
    <3> QED
      BY <1>4, <2>1, <3>1, <3>2, <3>3 DEF Quiet
  <2>2. CASE u # t
    <3>1. turn'[u] = turn[u]
      BY <1>1, <2>2
    <3>2. /\ turn[u].saw.lease \in Turn /\ Came(turn[u].saw.lease)
          /\ st.lease = turn[u].saw.lease => st.tail = turn[u].saw.tail
      BY <1>4, <3>1 DEF Fenced
    <3>3. st'.lease \in Turn => (st'.lease = st.lease /\ st'.tail = st.tail) \/ (st'.lease = t /\ ~Came(t))
      <4>1. CASE Quiet(t)
        BY <1>1, <4>1 DEF Quiet, RowKept, RowFreed, RowDone
      <4>2. CASE Takes(t)
        BY <1>1, <4>2 DEF Takes, Self, Fine, Came
      <4>3. CASE Moves(t) \/ Binds(t) \/ Sends(t)
        BY <4>3 DEF Moves, Binds, Sends
      <4> QED
        BY <4>1, <4>2, <4>3 DEF Kind
    <3> QED
      BY <1>2, <3>1, <3>2, <3>3 DEF Came
  <2> QED
    BY <2>1, <2>2
<1> QED
  BY <1>3, <1>4 DEF Fenced, Came

\* The fence, for a step of no turn.
LEMMA RowOnlyFenced ==
    ASSUME BaseInv, Fenced, RowOnly
    PROVE  Fenced'
<1>1. turn' = turn
  BY DEF RowOnly
<1>2. CASE st'.lease = st.lease /\ st'.conv = st.conv /\ st'.acct = st.acct /\ st'.tail = st.tail
  BY <1>1, <1>2 DEF Fenced, Came
<1>3. CASE st' = NoState /\ \A t \in Turn : turn[t].pc \in {"idle", "done", "dead"}
  <2>1. st'.lease \notin Turn
    BY <1>3, LeaseAssumption DEF NoState
  <2> QED
    BY <1>1, <1>3, <2>1 DEF Fenced, Came
<1> QED
  BY <1>2, <1>3 DEF RowOnly

\* A step adds an answer to the portable context only as its owner's extension of the
\* context that owner was given.
LEMMA TailStep ==
    ASSUME BaseInv, Fenced, RowOnly \/ \E t \in Turn : Kind(t)
    PROVE  /\ \A t \in Turn : t \in st'.tail \ st.tail =>
                st'.tail = turn[t].base \cup {t} /\ turn[t].base = st.tail
           /\ st.tail \subseteq st'.tail \/ st' = NoState
<1>1. CASE RowOnly
  BY <1>1 DEF RowOnly, NoState
<1>2. ASSUME NEW t \in Turn, Kind(t)
      PROVE  st'.tail = st.tail \/ (st'.tail = turn[t].base \cup {t} /\ turn[t].base = st.tail)
  <2>1. CASE Quiet(t)
    BY <2>1 DEF Quiet, RowKept, RowFreed, RowDone, Fenced
  <2>2. CASE Takes(t) \/ Moves(t) \/ Binds(t) \/ Sends(t)
    BY <2>2 DEF Takes, Moves, Binds, Sends
  <2> QED
    BY <1>2, <2>1, <2>2 DEF Kind
<1>3. CASE \E t \in Turn : Kind(t)
  <2>1. PICK t \in Turn : Kind(t)
    BY <1>3
  <2>2. CASE st'.tail = st.tail
    BY <2>2
  <2>3. CASE st'.tail = turn[t].base \cup {t} /\ turn[t].base = st.tail
    BY <2>3
  <2> QED
    BY <1>2, <2>1, <2>2, <2>3
<1> QED
  BY <1>1, <1>3

-----------------------------------------------------------------------------
(* Theorems *)

\* The first two layers hold initially.
LEMMA InitBase == Init => BaseInv /\ Fenced
<1> SUFFICES ASSUME Init PROVE BaseInv /\ Fenced
  OBVIOUS
<1>1. turn \in [Turn -> TurnState] /\ st \in State /\ \A t \in Turn : turn[t] = FirstTurn
  BY FirstsTyped DEF Init
<1>2. TypeOK
  BY <1>1, LeaseAssumption DEF Init, TypeOK, Upstream, Conv, Unused
<1>3. RowOK /\ NewOK
  BY DEF Init, RowOK, NewOK, NoState, Unused
<1>4. ASSUME NEW t \in Turn PROVE Self(t)
  BY <1>1 DEF Init, Self, Fine, Runs, Logged, LostEnds, FirstTurn, Waiting, Working, Unused
<1>5. Fenced
  BY <1>1, LeaseAssumption DEF Init, Fenced, NoState, FirstTurn
<1> QED
  BY <1>2, <1>3, <1>4, <1>5 DEF BaseInv

\* The first two layers are inductive.
LEMMA BaseInductive == BaseInv /\ Fenced /\ [Next]_vars => BaseInv' /\ Fenced'
<1>1. ASSUME BaseInv, Fenced, Next PROVE BaseInv' /\ Fenced'
  BY <1>1, StepKinds, BaseStep, RowOnlyBase, FencedStep, RowOnlyFenced
<1>2. ASSUME BaseInv, Fenced, UNCHANGED vars PROVE BaseInv' /\ Fenced'
  BY <1>2 DEF vars, BaseInv, TypeOK, RowOK, NewOK, Self, Runs, Logged, LostEnds, Fenced, Came
<1> QED
  BY <1>1, <1>2

\* The row, the turns, the runners and the conversations are well typed: no turn begins
\* more than three exchanges, whatever is superseded, moved or reviewed.
THEOREM LeaseTyped == Spec => []TypeOK
<1>1. BaseInv /\ Fenced => TypeOK
  BY DEF BaseInv
<1> QED
  BY <1>1, InitBase, BaseInductive, PTL DEF Spec

\* No answer another turn committed is lost, and a late disconnect erases none: every
\* commit of completeFinal and completeCheckpoint extends the context its turn was given.
THEOREM LostUpdateTheorem == Spec => NoLostUpdate
<1>1. BaseInv /\ Fenced /\ [Next]_vars =>
        [/\ \A t \in Turn :
              t \in st'.tail \ st.tail => st'.tail = turn[t].base \cup {t} /\ turn[t].base = st.tail
         /\ st.tail \subseteq st'.tail \/ st' = NoState]_vars
  BY StepKinds, TailStep
<1> QED
  BY <1>1, InitBase, BaseInductive, PTL DEF Spec, NoLostUpdate

\* Neither failover nor a retry after a moved route repeats an invocation that Microsoft
\* has received.
THEOREM DoubleSubmissionTheorem == Spec => []NoDoubleSubmission
<1>1. BaseInv /\ Fenced => NoDoubleSubmission
  BY DEF BaseInv, Self, Logged, NoDoubleSubmission
<1> QED
  BY <1>1, InitBase, BaseInductive, PTL DEF Spec

-----------------------------------------------------------------------------
(* One account per conversation *)

\* Fresh coordinates belong to nobody.
LEMMA FreshIsNew ==
    ASSUME BaseInv, drawn < MaxConv, NEW u \in Turn
    PROVE  /\ turn[u].conv # drawn + 1 /\ st.conv # drawn + 1 /\ drawn + 1 # Unused
           /\ drawn + 1 \in 1..MaxConv /\ conv[drawn + 1].log = {} /\ conv[drawn + 1].acct = NoAccount
<1>1. drawn \in Nat /\ turn[u].conv \in Nat /\ st.conv \in Nat /\ MaxConv \in Nat
  BY Facts, RowFacts, LeaseAssumption DEF Conv, Unused
<1>2. turn[u].conv <= drawn /\ st.conv <= drawn
  BY Facts DEF Self, BaseInv, RowOK
<1>3. drawn + 1 \in 1..MaxConv
  BY <1>1
<1> QED
  BY <1>1, <1>2, <1>3 DEF BaseInv, NewOK, Unused

\* The third layer, for a step of a turn.
LEMMA OneAccountStep ==
    ASSUME BaseInv, Fenced, OneAccount, NEW t \in Turn, Kind(t), Self(t)'
    PROVE  OneAccount'
<1>1. \A u \in Turn : u # t => turn'[u] = turn[u]
  BY DEF Kind, Quiet, Takes, Moves, Binds, Sends, Frame
<1>2. CASE Quiet(t)
  <2>1. conv' = conv /\ \A u \in Turn : turn'[u].conv = turn[u].conv /\ turn'[u].acct = turn[u].acct
    BY <1>1, <1>2 DEF Quiet
  <2>2. ASSUME st'.committed
        PROVE  /\ st'.acct # NoAccount /\ conv'[st'.conv].acct \in {NoAccount, st'.acct}
               /\ \A u \in Turn : turn'[u].conv = st'.conv => turn'[u].acct = st'.acct
    <3>1. CASE RowKept
      BY <2>1, <2>2, <3>1 DEF RowKept, OneAccount
    <3>2. CASE RowFreed(t)
      BY <2>1, <2>2, <3>2 DEF RowFreed, OneAccount
    <3>3. CASE RowDone(t)
      <4>1. /\ st'.conv = turn[t].conv /\ st'.acct = turn[t].acct /\ turn[t].acct # NoAccount
            /\ turn[t].conv # Unused
        BY <2>2, <3>3, Facts DEF RowDone, Fenced, Self, Fine, Working, Waiting
      <4> QED
        BY <2>1, <4>1 DEF OneAccount, Came
    <3> QED
      BY <1>2, <3>1, <3>2, <3>3 DEF Quiet
  <2> QED
    BY <2>1, <2>2 DEF OneAccount, Came
<1>3. CASE Takes(t)
  <2>1. conv' = conv /\ turn'[t].conv = st'.conv /\ turn'[t].acct = st'.acct /\ turn[t].conv = Unused
    BY <1>3, Facts DEF Takes, Self, Fine
  <2>2. CASE /\ st.committed /\ st'.committed /\ st'.conv = st.conv /\ st'.acct = st.acct
    <3>1. st.acct # NoAccount /\ conv[st.conv].acct \in {NoAccount, st.acct}
      BY <2>2 DEF OneAccount
    <3>2. \A u \in Turn : turn'[u].conv = st.conv => turn'[u].acct = st.acct
      BY <1>1, <2>1, <2>2 DEF OneAccount
    <3>3. \A u \in Turn : turn'[u].conv # Unused => conv'[turn'[u].conv].acct \in {NoAccount, turn'[u].acct}
      BY <1>1, <2>1, <2>2, <3>1 DEF OneAccount, Came
    <3>4. \A u, v \in Turn : turn'[u].conv # Unused /\ turn'[u].conv = turn'[v].conv /\ u # v =>
             turn'[u].acct = turn'[v].acct /\ turn'[u].acct # NoAccount
      BY <1>1, <2>1, <2>2, <3>1, <3>2 DEF OneAccount, Came
    <3> QED
      BY <2>1, <2>2, <3>1, <3>2, <3>3, <3>4 DEF OneAccount, Came
  <2>3. CASE drawn < MaxConv /\ st'.conv = drawn + 1 /\ ~st'.committed
    <3>1. \A u \in Turn : turn[u].conv # drawn + 1
      BY <2>3, FreshIsNew
    <3>2. conv[drawn + 1].acct = NoAccount
      BY <2>3, FreshIsNew
    <3> QED
      BY <1>1, <2>1, <2>3, <3>1, <3>2 DEF OneAccount, Came
  <2> QED
    BY <1>3, <2>2, <2>3 DEF Takes
<1>4. CASE Moves(t)
  <2>1. conv' = conv /\ turn'[t].conv = drawn + 1 /\ drawn < MaxConv /\ ~st'.committed
    BY <1>4 DEF Moves
  <2>2. \A u \in Turn : turn[u].conv # drawn + 1
    BY <2>1, FreshIsNew
  <2>3. conv[drawn + 1].acct = NoAccount
    BY <2>1, FreshIsNew
  <2> QED
    BY <1>1, <2>1, <2>2, <2>3 DEF OneAccount, Came
<1>5. CASE Binds(t)
  <2>1. /\ conv' = conv /\ turn'[t].conv = turn[t].conv /\ turn[t].acct = NoAccount /\ turn[t].conv # Unused
        /\ st'.committed = st.committed /\ st'.conv = st.conv /\ turn[t].acct = st.acct
    BY <1>5 DEF Binds, Fenced, Came
  <2>2. ~st.committed
    BY <2>1 DEF OneAccount
  <2>3. \A u \in Turn : u # t => turn[u].conv # turn[t].conv
    BY <2>1 DEF OneAccount, Came
  <2>4. conv[turn[t].conv].acct = NoAccount
    BY <2>1 DEF OneAccount, Came
  <2> QED
    BY <1>1, <2>1, <2>2, <2>3, <2>4 DEF OneAccount, Came
<1>6. CASE Sends(t)
  <2> DEFINE k == turn[t].conv
  <2>1. /\ st' = st /\ \A u \in Turn : turn'[u].conv = turn[u].conv /\ turn'[u].acct = turn[u].acct
    BY <1>1, <1>6 DEF Sends
  <2>2. k # Unused /\ turn[t].acct # NoAccount
    BY <1>6 DEF Sends, Unused
  <2>3. conv'[k].acct \in {NoAccount, turn[t].acct}
    BY <1>6, <2>2 DEF Sends, OneAccount, Came
  <2>4. \A u \in Turn : turn[u].conv = k => turn[u].acct = turn[t].acct
    BY <2>2 DEF OneAccount, Came
  <2>5. \A c \in 1..MaxConv : c # k => conv'[c] = conv[c]
    BY <1>6 DEF Sends
  <2>6. \A u \in Turn : turn[u].conv # Unused => turn[u].conv \in 1..MaxConv
    BY Facts DEF Conv
  <2>7. st.committed => st.conv \in 1..MaxConv
    BY RowFacts DEF BaseInv, RowOK, Conv
  <2> HIDE DEF k
  <2>8. \A u \in Turn : turn[u].conv # Unused => conv'[turn[u].conv].acct \in {NoAccount, turn[u].acct}
    BY <2>3, <2>4, <2>5, <2>6 DEF OneAccount, Came
  <2>9. st.committed => conv'[st.conv].acct \in {NoAccount, st.acct}
    <3>1. CASE st.committed /\ st.conv = k
      BY <3>1, <2>3 DEF OneAccount, k
    <3>2. CASE st.committed /\ st.conv # k
      BY <3>2, <2>5, <2>7 DEF OneAccount
    <3> QED
      BY <3>1, <3>2
  <2> QED
    BY <2>1, <2>8, <2>9 DEF OneAccount, Came
<1> QED
  BY <1>2, <1>3, <1>4, <1>5, <1>6 DEF Kind

\* The third layer is inductive.
LEMMA OneAccountInductive == BaseInv /\ Fenced /\ OneAccount /\ [Next]_vars => OneAccount'
<1>1. ASSUME BaseInv, Fenced, OneAccount, RowOnly PROVE OneAccount'
  BY <1>1 DEF RowOnly, OneAccount, NoState, Came
<1>2. ASSUME OneAccount, UNCHANGED vars PROVE OneAccount'
  BY <1>2 DEF vars, OneAccount, Came
<1> QED
  BY <1>1, <1>2, StepKinds, OneAccountStep

\* No turn runs in a Microsoft conversation under an account that did not create it.
THEOREM KeepsAccountTheorem == Spec => []ConversationKeepsAccount
<1>1. Init => OneAccount
  BY DEF Init, OneAccount, FirstTurn, NoState, Came
<1>2. BaseInv /\ OneAccount => ConversationKeepsAccount
  <2> SUFFICES ASSUME BaseInv, OneAccount, NEW t \in Turn, <<t, turn[t].exchange>> \in runner
               PROVE  conv[turn[t].conv].acct \in {NoAccount, turn[t].acct}
    BY DEF ConversationKeepsAccount
  <2>1. turn[t].exchange \in 1..3
    BY Facts DEF Run
  <2>2. Came(t)
    BY <2>1, Facts DEF Self, Runs, Fine, Waiting, Came
  <2> QED
    BY <2>2 DEF OneAccount
<1> QED
  BY <1>1, <1>2, InitBase, BaseInductive, OneAccountInductive, PTL DEF Spec

-----------------------------------------------------------------------------
(* Half-turns *)

\* Whoever was cut off stays so.
LEMMA CutOffStays ==
    ASSUME BaseInv, NEW t \in Turn, Kind(t)
    PROVE  \A u \in Turn : CutOff(u) => CutOff(u)'
<1>1. \A u \in Turn : u # t => turn'[u] = turn[u]
  BY DEF Kind, Quiet, Takes, Moves, Binds, Sends, Frame
<1>2. CutOff(t) => CutOff(t)'
  <2>1. CASE Quiet(t)
    BY <2>1 DEF Quiet
  <2>2. CASE Takes(t) \/ Moves(t) \/ Binds(t)
    <3>1. Unsubmitted(turn[t]) /\ turn[t].pc # "dead"
      BY <2>2 DEF Takes, Moves, Binds, Unsubmitted, Active, Working, Waiting
    <3> QED
      BY <3>1, Facts DEF CutOff, Self, Fine, LostEnds, Unsubmitted, Waiting
  <2>3. CASE Sends(t)
    BY <2>3 DEF Sends, CutOff
  <2> QED
    BY <2>1, <2>2, <2>3 DEF Kind
<1> QED
  BY <1>1, <1>2 DEF CutOff

\* Nobody comes to work but by the lease.
LEMMA WorkShrinks ==
    ASSUME BaseInv, NEW t \in Turn, Kind(t), Self(t)'
    PROVE  \A u \in Turn : AtWork(u)' => AtWork(u) \/ (u = t /\ Takes(t))
<1>1. /\ \A u \in Turn : u # t => turn'[u] = turn[u]
      /\ \A u \in Turn : \A e \in 1..3 : u # t /\ <<u, e>> \in runner' => <<u, e>> \in runner
      /\ NoTurn \notin Turn /\ runner' \subseteq Run
  BY LeaseAssumption DEF Kind, Quiet, Takes, Moves, Binds, Sends, Frame
<1>2. \A u \in Turn : st'.lease = u => st.lease = u \/ (u = t /\ Takes(t))
  BY <1>1 DEF Kind, Quiet, RowKept, RowFreed, RowDone, Takes, Moves, Binds, Sends
<1>3. ASSUME NEW u \in Turn, u # t, AtWork(u)' PROVE AtWork(u)
  <2>1. turn'[u] = turn[u]
    BY <1>1, <1>3
  <2>2. CASE turn[u].pc \in Active
    BY <1>2, <1>3, <2>1, <2>2 DEF AtWork, Active, Working
  <2>3. CASE turn[u].pc = "dead" /\ <<u, turn[u].exchange>> \in runner'
    <3>1. turn[u].exchange \in 1..3
      BY <1>1, <2>3 DEF Run
    <3> QED
      BY <1>1, <1>3, <2>3, <3>1 DEF AtWork
  <2> QED
    BY <1>3, <2>1, <2>2, <2>3 DEF AtWork
<1>4. ASSUME AtWork(t)', ~Takes(t) PROVE AtWork(t)
  <2>1. CASE turn'[t].pc = "dead" /\ <<t, turn'[t].exchange>> \in runner'
    <3>1. turn'[t].exchange \in 1..3
      BY <1>1, <2>1 DEF Run
    <3>2. <<t, turn'[t].exchange>> \in runner
      BY <1>4, <2>1, <3>1 DEF Kind, Quiet, Moves, Binds, Sends
    <3>3. turn[t].exchange = turn'[t].exchange /\ turn[t].pc \in {"running", "dead"}
      BY <3>1, <3>2, Facts DEF Self, Runs
    <3> QED
      BY <3>2, <3>3 DEF AtWork, Active, Working
  <2>2. CASE turn'[t].pc \in Active /\ (turn'[t].pc = "result" /\ turn'[t].review => st'.lease = t)
    <3>1. CASE Quiet(t)
      BY <1>2, <1>4, <2>2, <3>1 DEF Quiet, AtWork
    <3>2. CASE Moves(t) \/ Binds(t)
      BY <3>2 DEF Moves, Binds, AtWork, Active, Working
    <3>3. CASE Sends(t)
      BY <2>2, <3>3 DEF Sends, AtWork, Active, Working
    <3> QED
      BY <1>4, <3>1, <3>2, <3>3 DEF Kind
  <2> QED
    BY <1>4, <2>1, <2>2 DEF AtWork
<1> QED
  BY <1>3, <1>4

\* Whoever is at work has coordinates.
LEMMA WorkHasConv ==
    ASSUME BaseInv, NEW u \in Turn, AtWork(u)
    PROVE  turn[u].conv \in 1..MaxConv
BY Facts DEF AtWork, Self, Fine, Active, Working, Waiting, Conv

\* The fourth layer, for a step of a turn.
LEMMA HalfStep ==
    ASSUME BaseInv, Fenced, Half, NEW t \in Turn, Kind(t), Self(t)', Self(t)
    PROVE  Half'
<1>1. /\ \A u \in Turn : u # t => turn'[u] = turn[u]
      /\ NoTurn \notin Turn /\ st.lease \in Turn \cup {NoTurn} /\ st'.lease \in Turn \cup {NoTurn}
      /\ turn[t].base \in SUBSET Turn /\ st.tail \in SUBSET Turn
      /\ turn[t].review \in BOOLEAN
  <2>1. Frame(t)
    BY DEF Kind, Quiet, Takes, Moves, Binds, Sends
  <2> QED
    BY <2>1, Facts, RowFacts, RowFields, LeaseAssumption DEF Frame
<1>2. \A u \in Turn : CutOff(u) => CutOff(u)'
  BY CutOffStays
<1>3. /\ \A c \in 1..MaxConv : conv[c].log \subseteq Turn
      /\ st.committed => st.conv \in 1..MaxConv
      /\ \A u \in Turn : AtWork(u) => turn[u].conv \in 1..MaxConv
  BY RowFacts, WorkHasConv DEF BaseInv, TypeOK, Upstream, RowOK, Conv
\* What was covered stays covered as long as the log does not grow.
<1>c. ASSUME NEW c \in 1..MaxConv, conv'[c] = conv[c], NEW S, Covered(c, S)
      PROVE  \A u \in conv'[c].log : u \in S \/ CutOff(u)'
  BY <1>2, <1>3, <1>c DEF Covered
<1>w. \A u \in Turn : AtWork(u)' => AtWork(u) \/ (u = t /\ Takes(t))
  BY WorkShrinks
<1>4. CASE Quiet(t)
  <2>1. /\ conv' = conv /\ \A u \in Turn : turn'[u].conv = turn[u].conv /\ turn'[u].base = turn[u].base
        /\ \A u \in Turn : AtWork(u)' => AtWork(u)
    <3>1. turn[t].pc \in Waiting => turn'[t].pc \notin Active /\ (turn'[t].pc = "dead" => ~AtWork(t)')
      <4>1. turn[t].pc \in Waiting => \A e \in 1..3 : <<t, e>> \notin runner
        BY DEF Self, Runs, Waiting
      <4>2. turn[t].pc \in Waiting /\ turn'[t].pc = "dead" => <<t, turn'[t].exchange>> \notin runner'
        BY <1>4, <4>1 DEF Quiet, Frame, Run
      <4> QED
        BY <1>4, <4>2 DEF Quiet, AtWork, Waiting, Active, Working
    <3> QED
      BY <1>1, <1>4, <1>w, <3>1 DEF Quiet, Takes, AtWork
  <2>2. st'.lease \in Turn =>
          /\ turn'[st'.lease].pc \in Active \cup {"cleanup", "dead"}
          /\ st'.live \/ (turn'[st'.lease].pc = "dead" /\ <<st'.lease, turn'[st'.lease].exchange>> \notin runner')
    <3> SUFFICES ASSUME st'.lease \in Turn
                 PROVE  /\ turn'[st'.lease].pc \in Active \cup {"cleanup", "dead"}
                        /\ st'.live \/ (turn'[st'.lease].pc = "dead"
                                        /\ <<st'.lease, turn'[st'.lease].exchange>> \notin runner')
      OBVIOUS
    <3>1. RowKept
      BY <1>1, <1>4 DEF Quiet, RowFreed, RowDone
    <3>2. PICK o \in Turn :
            /\ st'.lease = o /\ turn[o].pc \in Active \cup {"cleanup", "dead"}
            /\ st'.live \/ (turn[o].pc = "dead" /\ <<o, turn[o].exchange>> \notin runner)
      BY <3>1 DEF RowKept, Half
    <3>3. turn'[o].pc \in Active \cup {"cleanup", "dead"}
      BY <1>1, <1>4, <3>2 DEF Quiet
    <3>4. ASSUME turn[o].pc = "dead", <<o, turn[o].exchange>> \notin runner
          PROVE  turn'[o].pc = "dead" /\ <<o, turn'[o].exchange>> \notin runner'
      <4>1. turn'[o].pc = "dead"
        BY <1>1, <1>4, <3>2, <3>4 DEF Quiet
      <4>2. ~AtWork(o)
        BY <3>4 DEF AtWork, Active, Working
      <4>3. ~AtWork(o)'
        BY <2>1, <3>2, <4>2
      <4> QED
        BY <4>1, <4>3 DEF AtWork
    <3> QED
      BY <3>2, <3>3, <3>4
  <2>3. ASSUME st'.committed
        PROVE  /\ st'.conv \in 1..MaxConv
               /\ Covered(st'.conv, st'.tail \cup {st'.lease}) \/ Covered(st'.conv, st'.tail)
                     \/ (\A u \in conv[st'.conv].log : u \in st'.tail \cup {st'.lease} \/ CutOff(u)')
               /\ \A u \in Turn : AtWork(u)' /\ turn[u].conv = st'.conv => st'.lease = u
    <3>1. CASE RowKept
      BY <1>3, <2>1, <2>3, <3>1 DEF RowKept, Half
    <3>2. CASE RowFreed(t)
      <4>1. st.committed /\ st'.conv = st.conv /\ st'.tail = st.tail /\ st.lease = t /\ st'.lease = NoTurn
        BY <1>4, <2>3, <3>2 DEF RowFreed, Fenced
      <4>2. ~AtWork(t)'
        BY <1>1, <2>3, <3>2, <4>1 DEF RowFreed, AtWork
      <4>3. Unsubmitted(turn[t]) \/ CutOff(t)
        BY <1>1, <2>3, <3>2, Facts DEF RowFreed, Unsubmitted, CutOff
      <4>4. t \notin conv[st.conv].log \/ CutOff(t)'
        BY <1>2, <1>3, <4>1, <4>3 DEF Self, Logged
      <4>5. \A u \in conv[st.conv].log : u \in st.tail \/ CutOff(u)'
        BY <1>2, <1>3, <4>1, <4>4 DEF Half, Covered
      <4> QED
        BY <1>3, <2>1, <4>1, <4>2, <4>5 DEF Half
    <3>3. CASE RowDone(t)
      <4>1. /\ st'.conv = turn[t].conv /\ st'.tail = turn[t].base \cup {t} /\ AtWork(t)
            /\ turn'[t].pc = "done"
        BY <2>3, <3>3 DEF RowDone, AtWork, Active, Working
      <4>2. ~AtWork(t)'
        BY <4>1 DEF AtWork, Active, Working
      <4> QED
        BY <1>3, <2>1, <4>1, <4>2 DEF Half
    <3> QED
      BY <1>4, <3>1, <3>2, <3>3 DEF Quiet
  <2>4. ASSUME st'.committed PROVE Covered(st.conv, st.tail \cup {st.lease})'
    BY <1>c, <1>2, <1>3, <2>1, <2>3, <2>4 DEF Covered
  <2>5. \A u \in Turn : AtWork(u)' => Covered(turn[u].conv, turn[u].base \cup {u})'
    BY <1>2, <1>3, <2>1 DEF Half, Covered
  <2>6. \A u, v \in Turn : AtWork(u)' /\ AtWork(v)' /\ turn'[u].conv = turn'[v].conv => u = v
    BY <2>1 DEF Half
  <2>7. st'.committed => \A u \in Turn : AtWork(u)' /\ turn'[u].conv = st'.conv => st'.lease = u
    BY <2>1, <2>3
  <2> QED
    BY <2>2, <2>4, <2>5, <2>6, <2>7 DEF Half
<1>5. CASE Takes(t)
  <2>1. /\ conv' = conv /\ turn'[t].conv = st'.conv /\ turn'[t].base = st.tail /\ st'.tail = st.tail
        /\ st'.lease = t /\ st'.live /\ turn'[t].pc = "leased" /\ "leased" \in Active
    BY <1>5 DEF Takes, Active
  <2>2. \A u \in Turn : AtWork(u)' /\ u # t => AtWork(u) /\ turn'[u] = turn[u]
    BY <1>1, <1>w
  <2>3. \A u \in Turn : AtWork(u)' /\ u # t => Covered(turn[u].conv, turn[u].base \cup {u})'
    BY <1>2, <1>3, <2>1, <2>2 DEF Half, Covered
  <2>4. CASE st.committed /\ ~Busy /\ st'.committed /\ st'.conv = st.conv
    <3>1. st.lease \in Turn => ~AtWork(st.lease) /\ CutOff(st.lease)
      BY <1>1, <2>4 DEF Busy, Half, AtWork, CutOff, Active, Working
    <3>2. \A u \in Turn : AtWork(u) => turn[u].conv # st.conv
      BY <2>4, <3>1 DEF Half
    <3>3. \A u \in conv[st.conv].log : u \in st.tail \/ CutOff(u)'
      BY <1>1, <1>2, <1>3, <2>4, <3>1 DEF Half, Covered
    <3>4. Covered(turn[t].conv, turn[t].base \cup {t})' /\ Covered(st.conv, st.tail \cup {st.lease})'
      BY <2>1, <2>4, <3>3 DEF Covered
    <3>5. \A u, v \in Turn : AtWork(u)' /\ AtWork(v)' /\ turn'[u].conv = turn'[v].conv => u = v
      BY <2>1, <2>2, <2>4, <3>2 DEF Half
    <3>6. \A u \in Turn : AtWork(u)' /\ turn'[u].conv = st'.conv => st'.lease = u
      BY <2>1, <2>2, <2>4, <3>2
    <3> QED
      BY <2>1, <2>3, <3>4, <3>5, <3>6 DEF Half
  <2>5. CASE drawn < MaxConv /\ st'.conv = drawn + 1 /\ ~st'.committed
    <3>1. (\A u \in Turn : turn[u].conv # drawn + 1) /\ conv[drawn + 1].log = {}
      BY <2>5, FreshIsNew
    <3>2. Covered(turn[t].conv, turn[t].base \cup {t})'
      BY <2>1, <2>5, <3>1 DEF Covered
    <3>3. \A u, v \in Turn : AtWork(u)' /\ AtWork(v)' /\ turn'[u].conv = turn'[v].conv => u = v
      BY <2>1, <2>2, <2>5, <3>1 DEF Half
    <3> QED
      BY <2>1, <2>3, <2>5, <3>2, <3>3 DEF Half
  <2> QED
    BY <1>5, <2>4, <2>5 DEF Takes
<1>6. CASE Moves(t)
  <2>1. /\ conv' = conv /\ turn'[t].conv = drawn + 1 /\ drawn < MaxConv /\ ~st'.committed
        /\ st'.lease = t /\ st.lease = t /\ st'.live = st.live /\ turn'[t].pc = "bound" /\ turn[t].pc \in Active
        /\ turn'[t].pc \in Active /\ turn[t].pc # "dead"
    BY <1>6 DEF Moves, Active, Working
  <2>2. (\A u \in Turn : turn[u].conv # drawn + 1) /\ conv[drawn + 1].log = {}
    BY <2>1, FreshIsNew
  <2>3. st'.live
    BY <2>1 DEF Half
  <2>4. \A u \in Turn : AtWork(u)' /\ u # t => AtWork(u) /\ turn'[u] = turn[u]
    BY <1>1, <1>w
  <2>5. \A u \in Turn : AtWork(u)' => Covered(turn[u].conv, turn[u].base \cup {u})'
    BY <1>2, <1>3, <2>1, <2>2, <2>4 DEF Half, Covered
  <2>6. \A u, v \in Turn : AtWork(u)' /\ AtWork(v)' /\ turn'[u].conv = turn'[v].conv => u = v
    BY <2>1, <2>2, <2>4 DEF Half
  <2> QED
    BY <2>1, <2>3, <2>5, <2>6 DEF Half
<1>7. CASE Binds(t)
  <2>1. /\ conv' = conv /\ turn'[t].base = turn[t].base /\ turn'[t].conv = turn[t].conv
        /\ turn[t].pc = "leased" /\ turn'[t].pc = "bound" /\ turn'[t].pc \in Active
        /\ st'.committed = st.committed /\ st'.conv = st.conv /\ st'.tail = st.tail
        /\ st'.lease = st.lease /\ st'.live = st.live /\ st.lease = t
    BY <1>7 DEF Binds, Fenced, Active, Working
  <2>2. st'.live
    BY <2>1 DEF Half
  <2>3. \A u \in Turn : AtWork(u)' => AtWork(u) /\ turn'[u].conv = turn[u].conv /\ turn'[u].base = turn[u].base
    BY <1>1, <1>w, <2>1 DEF Takes, Waiting
  <2>4. \A u \in Turn : AtWork(u)' => Covered(turn[u].conv, turn[u].base \cup {u})'
    BY <1>2, <1>3, <2>1, <2>3 DEF Half, Covered
  <2>5. st'.committed => Covered(st.conv, st.tail \cup {st.lease})'
    BY <1>2, <1>3, <2>1 DEF Half, Covered
  <2>6. st'.lease \in Turn =>
          /\ turn'[st'.lease].pc \in Active \cup {"cleanup", "dead"}
          /\ st'.live \/ (turn'[st'.lease].pc = "dead" /\ <<st'.lease, turn'[st'.lease].exchange>> \notin runner')
    BY <2>1, <2>2
  <2>7. \A u, v \in Turn : AtWork(u)' /\ AtWork(v)' /\ turn'[u].conv = turn'[v].conv => u = v
    BY <2>3 DEF Half
  <2>8. st'.committed => \A u \in Turn : AtWork(u)' /\ turn'[u].conv = st'.conv => st'.lease = u
    BY <2>1, <2>3 DEF Half
  <2> QED
    BY <2>4, <2>5, <2>6, <2>7, <2>8 DEF Half
<1>8. CASE Sends(t)
  <2> DEFINE k == turn[t].conv
  <2>1. /\ st' = st /\ \A u \in Turn : /\ turn'[u].conv = turn[u].conv /\ turn'[u].base = turn[u].base
                                      /\ turn'[u].pc = turn[u].pc
        /\ runner' = runner
    BY <1>1, <1>8 DEF Sends
  <2>2. AtWork(t) \/ CutOff(t)'
    BY <1>8 DEF Sends, AtWork, CutOff, Active, Working
  <2>3. k \in 1..MaxConv /\ conv'[k].log = conv[k].log \cup {t} /\ \A c \in 1..MaxConv : c # k => conv'[c] = conv[c]
    BY <1>8 DEF Sends
  <2>4. \A u \in Turn : AtWork(u)' => AtWork(u)
    BY <1>8, <1>w DEF Sends, Takes
  <2> HIDE DEF k
  <2>5. \A u \in Turn : AtWork(u)' => Covered(turn[u].conv, turn[u].base \cup {u})'
    <3> SUFFICES ASSUME NEW u \in Turn, AtWork(u)
                 PROVE  Covered(turn[u].conv, turn[u].base \cup {u})'
      BY <2>4
    <3>1. CASE turn[u].conv = k /\ AtWork(t)
      <4>1. u = t
        BY <3>1 DEF Half, k
      <4> QED
        BY <1>2, <1>3, <2>1, <2>3, <3>1, <4>1 DEF Half, Covered
    <3>2. CASE turn[u].conv = k /\ CutOff(t)'
      BY <1>2, <1>3, <2>1, <2>3, <3>2 DEF Half, Covered
    <3>3. CASE turn[u].conv # k
      BY <1>2, <1>3, <2>1, <2>3, <3>3 DEF Half, Covered
    <3> QED
      BY <2>2, <3>1, <3>2, <3>3
  <2>6. st.committed => Covered(st.conv, st.tail \cup {st.lease})'
    <3>1. CASE st.committed /\ st.conv = k /\ AtWork(t)
      <4>1. st.lease = t
        BY <3>1 DEF Half, k
      <4> QED
        BY <1>2, <1>3, <2>1, <2>3, <3>1, <4>1 DEF Half, Covered
    <3>2. CASE st.committed /\ st.conv = k /\ CutOff(t)'
      BY <1>2, <1>3, <2>1, <2>3, <3>2 DEF Half, Covered
    <3>3. CASE st.committed /\ st.conv # k
      BY <1>2, <1>3, <2>1, <2>3, <3>3 DEF Half, Covered
    <3> QED
      BY <2>2, <3>1, <3>2, <3>3
  <2>7. st'.lease \in Turn =>
          /\ turn'[st'.lease].pc \in Active \cup {"cleanup", "dead"}
          /\ st'.live \/ (turn'[st'.lease].pc = "dead" /\ <<st'.lease, turn'[st'.lease].exchange>> \notin runner')
    <3> SUFFICES ASSUME NEW o \in Turn, st.lease = o, ~st.live
                 PROVE  turn'[o].pc = "dead" /\ <<o, turn'[o].exchange>> \notin runner'
      BY <2>1 DEF Half
    <3>1. turn'[o].pc = "dead" /\ ~AtWork(o)
      BY <2>1 DEF Half, AtWork, Active, Working
    <3>2. ~AtWork(o)'
      BY <2>4, <3>1
    <3> QED
      BY <2>1, <3>1, <3>2 DEF AtWork
  <2> QED
    BY <2>1, <2>4, <2>5, <2>6, <2>7 DEF Half
<1> QED
  BY <1>4, <1>5, <1>6, <1>7, <1>8 DEF Kind

\* The fourth layer is inductive.
LEMMA HalfInductive == BaseInv /\ Fenced /\ Half /\ [Next]_vars => Half'
<1>1. ASSUME BaseInv, Fenced, Half, RowOnly PROVE Half'
  <2>1. turn' = turn /\ conv' = conv /\ runner' = runner
    BY <1>1 DEF RowOnly
  <2>2. CASE /\ st' = NoState
             /\ \A t \in Turn : turn[t].pc \in {"idle", "done", "dead"}
    <3>1. \A t \in Turn : AtWork(t)' => AtWork(t)
      BY <2>1, <2>2 DEF AtWork, Active, Working
    <3>2. st'.lease \notin Turn /\ ~st'.committed
      BY <2>2, LeaseAssumption DEF NoState
    <3> QED
      BY <1>1, <2>1, <3>1, <3>2 DEF Half, Covered, CutOff
  <2>3. CASE /\ st'.lease = st.lease /\ st'.conv = st.conv /\ st'.committed = st.committed /\ st'.tail = st.tail
             /\ st.live => \/ st'.live
                           \/ /\ st.lease \in Turn /\ turn[st.lease].pc \in {"done", "dead"}
                              /\ <<st.lease, turn[st.lease].exchange>> \notin runner
    <3>1. \A t \in Turn : AtWork(t)' <=> AtWork(t)
      BY <2>1, <2>3 DEF AtWork
    <3>2. st.lease \in Turn =>
            st'.live \/ (turn[st.lease].pc = "dead" /\ <<st.lease, turn[st.lease].exchange>> \notin runner)
      BY <1>1, <2>3 DEF Half, Active, Working
    <3> QED
      BY <1>1, <2>1, <2>3, <3>1, <3>2 DEF Half, Covered, CutOff
  <2> QED
    BY <1>1, <2>2, <2>3 DEF RowOnly
<1>2. ASSUME Half, UNCHANGED vars PROVE Half'
  BY <1>2 DEF vars, Half, AtWork, Covered, CutOff
<1>3. ASSUME BaseInv, NEW t \in Turn PROVE Self(t)
  BY <1>3 DEF BaseInv
<1> QED
  BY <1>1, <1>2, <1>3, StepKinds, HalfStep

\* A half-turn is never continued, whoever else vanishes, is reset, is superseded or runs
\* a second exchange: the only half-turns a conversation ever holds for the next turn are
\* those whose own turn was cut off.
THEOREM HalfTurnTheorem == Spec => []NoHalfTurnContinued
<1>1. Init => Half
  <2> SUFFICES ASSUME Init PROVE Half
    OBVIOUS
  <2>1. st.lease \notin Turn /\ ~st.committed /\ \A t \in Turn : turn[t].pc = "idle"
    BY LeaseAssumption DEF Init, NoState, FirstTurn
  <2> QED
    BY <2>1 DEF Half, AtWork, Active, Working
<1>2. BaseInv /\ Half => NoHalfTurnContinued
  <2> SUFFICES ASSUME BaseInv, Half, NEW t \in Turn, <<t, turn[t].exchange>> \in runner
               PROVE  \A u \in conv[turn[t].conv].log \ (turn[t].base \cup {t}) : CutOff(u)
    BY DEF NoHalfTurnContinued
  <2>1. turn[t].exchange \in 1..3
    BY Facts DEF Run
  <2>2. AtWork(t)
    BY <2>1, Facts DEF Self, Runs, AtWork, Active, Working
  <2> QED
    BY <2>2 DEF Half, Covered
<1>3. BaseInv /\ Fenced /\ Half /\ [Next]_vars => Half'
  BY HalfInductive
<1> QED
  BY <1>1, <1>2, <1>3, InitBase, BaseInductive, PTL DEF Spec
=============================================================================
