---------------------------- MODULE WorkingProofs ----------------------------
(***************************************************************************)
(* Theorems about the components of WorkingCommands, one after the other.  *)
(*                                                                         *)
(* RemoteDecision: a request is made of what its sender was told and has   *)
(* read, which no longer change; so a request that takes effect uses up    *)
(* the sequence it names, or its key, and every other request of the same  *)
(* order finds that.                                                       *)
(*                                                                         *)
(* Publishing: a request that has left carries what its sender was shown   *)
(* and read, and a sender that has sent reads no more; so the archive the  *)
(* cell compares with the digest is compared with what the person          *)
(* confirmed, however often the files are replaced meanwhile.              *)
(*                                                                         *)
(* Pagination: the cursor, and within a page what is left of it, split the *)
(* listing into what was given and what is to come, whatever is hidden.    *)
(*                                                                         *)
(* TaskWorkflow: the cell forgets no upload, no task and no result, and    *)
(* holds each under one key; so the results of an operation have one       *)
(* history, and two programs with the same inputs ask for the same body.   *)
(*                                                                         *)
(* Packaging, Snapshot: the sum of the sizes is the number of bytes there  *)
(* are, so that one more file adds its own to it.                          *)
(*                                                                         *)
(* Qualification: a row stands on the receipts of its artifact, which stay *)
(* where they are, and expires with the first of them.                     *)
(*                                                                         *)
(* The end puts them together, with the theorems of TicketStoreProofs: a   *)
(* behaviour of WorkingCommands is one of each of its components.  The     *)
(* types of all of them follow in the same way.                            *)
(***************************************************************************)
EXTENDS WorkingCommands, TicketStoreProofs, SequenceTheorems, WellFoundedInduction, TLAPS

-----------------------------------------------------------------------------
(***************************************************************************)
(* RemoteDecision                                                          *)
(***************************************************************************)

States == {"requested", "approved", "rejected", "expired"}
Views  == [state : States \cup {"none"}, sequence : Nat]

\* The request of an invocation, and the invocations that can have sent theirs.
Message(i) == [from |-> i, key |-> OrderKey(i), name |-> order[i].name,
               decision |-> order[i].decision, expected |-> Expected(i)]
MayHaveSent(i) == orderPc[i] \in {"sent", "done"}
OfSender(m) == m.from \in Invocations /\ MayHaveSent(m.from) /\ m = Message(m.from)

\* What was carried out is in the past, and stands.
IsPast(c) == c.expected < runSequence /\ (Decides(c) => approval = Committed(c.decision))

\* A view of a decided approval stays true.
ViewStands(i) ==
  /\ viewed[i].state \in {"none", "requested"} \/ approval = viewed[i].state
  /\ orderPc[i] = "judge" => viewed[i].state # "none"

DecisionInv ==
  /\ DecisionTypeOK /\ viewed \in [Invocations -> Views]
  /\ \A m \in wire \cup carriedOut : OfSender(m)
  /\ \A c \in carriedOut : IsPast(c)
  /\ OrdersTakeEffectOnce
  /\ \A i \in Invocations : ViewStands(i)
  /\ DecisionIsTrue

LEMMA DecisionStarts == DecisionInit => DecisionInv
  BY SequenceAssumption
  DEF DecisionInit, DecisionInv, DecisionTypeOK, Views, States, NoOrder, Orders,
      OrdersTakeEffectOnce, ViewStands, DecisionIsTrue, Decisions

\* The steps of an invocation that has sent nothing, and sends nothing: all that
\* is left to show is its own view and verdict.
LEMMA BeforeRequest ==
  ASSUME DecisionInv, DecisionTypeOK', viewed' \in [Invocations -> Views],
         NEW i \in Invocations, ~MayHaveSent(i),
         UNCHANGED <<wire, approval, runSequence, carriedOut>>,
         \A j \in Invocations \ {i} :
           /\ order'[j] = order[j] /\ orderPc'[j] = orderPc[j]
           /\ viewed'[j] = viewed[j] /\ verdict'[j] = verdict[j],
         ViewStands(i)',
         verdict'[i] \notin {"carried out", "recovered", "different decision"}
           \/ (/\ order'[i] = order[i]
               /\ verdict'[i] = "recovered" => approval = Committed(order[i].decision)
               /\ verdict'[i] = "different decision" =>
                    approval \notin {"requested", Committed(order[i].decision)}
               /\ verdict'[i] # "carried out")
  PROVE  DecisionInv'
<1>1. \A m \in wire \cup carriedOut : m.from \in Invocations \ {i}
  BY DEF DecisionInv, OfSender
<1>2. ASSUME NEW j \in Invocations \ {i}
      PROVE  Message(j)' = Message(j) /\ MayHaveSent(j)' = MayHaveSent(j)
  BY <1>2 DEF Message, OrderKey, Expected, MayHaveSent
<1>3. \A m \in wire' \cup carriedOut' : OfSender(m)'
  <2> SUFFICES ASSUME NEW m \in wire \cup carriedOut  PROVE OfSender(m)'
    OBVIOUS
  <2>1. m.from \in Invocations \ {i} /\ OfSender(m)  BY <1>1 DEF DecisionInv
  <2> QED  BY <2>1, <1>2 DEF OfSender
<1>4. OrdersTakeEffectOnce'
  <2> SUFFICES ASSUME NEW c \in carriedOut, NEW d \in carriedOut,
                      order'[c.from] = order'[d.from]
               PROVE  c = d
    BY DEF OrdersTakeEffectOnce
  <2>1. order'[c.from] = order[c.from] /\ order'[d.from] = order[d.from]  BY <1>1
  <2> QED  BY <2>1 DEF DecisionInv, OrdersTakeEffectOnce
<1>5. \A j \in Invocations : ViewStands(j)'
  BY DEF DecisionInv, ViewStands
<1>6. DecisionIsTrue'
  BY DEF DecisionInv, DecisionIsTrue
<1>7. \A c \in carriedOut' : IsPast(c)'
  BY DEF DecisionInv, IsPast, Decides, Committed
<1> QED  BY <1>3, <1>4, <1>5, <1>6, <1>7 DEF DecisionInv

\* The places of a command and its verdicts, by name.
Places == {"idle", "look", "judge", "look at run", "send", "sent", "done"}
Verdicts == {"none", "unconfirmed", "other write", "recovered", "different decision",
             "lost", "carried out", "conflict"}
Typed ==
  /\ order \in [Invocations -> Orders \cup {NoOrder}]
  /\ orderPc \in [Invocations -> Places] /\ verdict \in [Invocations -> Verdicts]
  /\ viewed \in [Invocations -> Views]
  /\ approval \in States /\ runSequence \in 1..MaxSequence

LEMMA TypedIsTypeOK == Typed <=> DecisionTypeOK /\ viewed \in [Invocations -> Views]
  BY DEF Typed, DecisionTypeOK, Places, Verdicts, States

\* Going on to a place, or ending there.
LEMMA CommandMoves ==
  ASSUME Typed, NEW i \in Invocations, NEW where \in Places, NEW how \in Verdicts,
         OrderAt(i, where) \/ OrderEnds(i, how)
  PROVE  orderPc' \in [Invocations -> Places] /\ verdict' \in [Invocations -> Verdicts]
<1>1. "done" \in Places  BY DEF Places
<1> QED  BY <1>1 DEF Typed, OrderAt, OrderEnds

\* Every step keeps the types.
LEMMA DecisionTypesKept ==
  ASSUME DecisionInv, [DecisionNext]_decisionVars
  PROVE  Typed'
<1>0. Typed  BY TypedIsTypeOK DEF DecisionInv
<1> DEFINE Moved == orderPc' \in [Invocations -> Places] /\ verdict' \in [Invocations -> Verdicts]
<1>a. "look" \in Places /\ "judge" \in Places /\ "look at run" \in Places
      /\ "send" \in Places /\ "sent" \in Places
  BY DEF Places
<1>b. "none" \in Verdicts /\ "unconfirmed" \in Verdicts /\ "other write" \in Verdicts
      /\ "recovered" \in Verdicts /\ "different decision" \in Verdicts
      /\ "lost" \in Verdicts /\ "carried out" \in Verdicts /\ "conflict" \in Verdicts
  BY DEF Verdicts
<1>1. ASSUME NEW i \in Invocations, GiveOrder(i)  PROVE Typed'
  <2>1. PICK o \in Orders :
          /\ order' = [order EXCEPT ![i] = o]
          /\ IF o.name = "example" THEN OrderAt(i, "look")
             ELSE OrderAt(i, "send") \/ OrderEnds(i, "unconfirmed")
    BY <1>1 DEF GiveOrder
  <2>2. Moved  BY <1>0, <1>a, <1>b, <2>1, CommandMoves
  <2>3. order' \in [Invocations -> Orders \cup {NoOrder}]  BY <1>0, <2>1 DEF Typed
  <2> QED  BY <1>0, <1>1, <2>2, <2>3 DEF Typed, GiveOrder
<1>2. ASSUME NEW i \in Invocations, LookAtApproval(i)  PROVE Typed'
  <2>1. Moved  BY <1>0, <1>2, <1>a, <1>b, CommandMoves DEF LookAtApproval
  <2>2. [viewed[i] EXCEPT !.state = approval] \in Views  BY <1>0 DEF Typed, Views
  <2>3. viewed' = [viewed EXCEPT ![i] = [viewed[i] EXCEPT !.state = approval]]
    BY <1>2 DEF LookAtApproval
  <2>4. viewed' \in [Invocations -> Views]  BY <1>0, <2>2, <2>3 DEF Typed
  <2> QED  BY <1>0, <1>2, <2>1, <2>4 DEF Typed, LookAtApproval
<1>3. ASSUME NEW i \in Invocations, JudgeApproval(i)  PROVE Typed'
  <2>1. Moved  BY <1>0, <1>3, <1>a, <1>b, CommandMoves DEF JudgeApproval
  <2> QED  BY <1>0, <1>3, <2>1 DEF Typed, JudgeApproval
<1>4. ASSUME NEW i \in Invocations, LookAtRun(i)  PROVE Typed'
  <2>1. Moved  BY <1>0, <1>4, <1>a, <1>b, CommandMoves DEF LookAtRun
  <2>2. [viewed[i] EXCEPT !.sequence = runSequence] \in Views  BY <1>0 DEF Typed, Views
  <2>3. viewed' = [viewed EXCEPT ![i] = [viewed[i] EXCEPT !.sequence = runSequence]]
    BY <1>4 DEF LookAtRun
  <2>4. viewed' \in [Invocations -> Views]  BY <1>0, <2>2, <2>3 DEF Typed
  <2> QED  BY <1>0, <1>4, <2>1, <2>4 DEF Typed, LookAtRun
<1>5. ASSUME NEW i \in Invocations, SendOrder(i)  PROVE Typed'
  <2>1. Moved  BY <1>0, <1>5, <1>a, <1>b, CommandMoves DEF SendOrder
  <2> QED  BY <1>0, <1>5, <2>1 DEF Typed, SendOrder
<1>6. ASSUME NEW i \in Invocations, LoseAnswer(i)  PROVE Typed'
  <2>1. Moved  BY <1>0, <1>6, <1>a, <1>b, CommandMoves DEF LoseAnswer
  <2> QED  BY <1>0, <1>6, <2>1 DEF Typed, LoseAnswer
<1>7. ASSUME NEW m \in wire, HandleOrder(m)  PROVE Typed'
  <2>1. m.from \in Invocations  BY DEF DecisionInv, OfSender
  <2>2. Moved
    <3>1. TellSender(m, "carried out") \/ TellSender(m, "conflict")
      BY <1>7 DEF HandleOrder
    <3> QED  BY <1>0, <1>a, <1>b, <2>1, <3>1, CommandMoves DEF TellSender, Typed
  <2>3. approval' = approval \/ approval' = Committed(m.decision)
    BY <1>7 DEF HandleOrder
  <2>4. Committed(m.decision) \in States  BY DEF Committed, States
  <2>5. runSequence' = runSequence \/ (runSequence < MaxSequence /\ runSequence' = runSequence + 1)
    BY <1>7 DEF HandleOrder
  <2>6. approval' \in States /\ runSequence' \in 1..MaxSequence
    BY <1>0, <2>3, <2>4, <2>5, SequenceAssumption DEF Typed
  <2> QED  BY <1>0, <1>7, <2>2, <2>6 DEF HandleOrder, Typed
<1>8. CASE RunGoesOn
  <2>1. runSequence' \in 1..MaxSequence
    BY <1>0, <1>8, SequenceAssumption DEF RunGoesOn, Typed
  <2>2. approval' \in States  BY <1>0, <1>8 DEF RunGoesOn, States, Typed
  <2> QED  BY <1>0, <1>8, <2>1, <2>2 DEF RunGoesOn, orderVars, Typed
<1>9. CASE UNCHANGED decisionVars  BY <1>0, <1>9 DEF decisionVars, orderVars, Typed
<1> QED  BY <1>1, <1>2, <1>3, <1>4, <1>5, <1>6, <1>7, <1>8, <1>9 DEF DecisionNext

-----------------------------------------------------------------------------
\* What was sent stays the sender's request while orders and views stand.
LEMMA MessagesStand ==
  ASSUME UNCHANGED <<order, viewed>>, NEW m, OfSender(m),
         \A i \in Invocations : orderPc'[i] = orderPc[i] \/ orderPc'[i] \in {"sent", "done"}
  PROVE  OfSender(m)'
<1>1. Message(m.from)' = Message(m.from)  BY DEF Message, OrderKey, Expected
<1> QED  BY <1>1 DEF OfSender, MayHaveSent

\* What a request says of its sender's order.
LEMMA MessageParts ==
  ASSUME NEW m, OfSender(m)
  PROVE  /\ m.from \in Invocations /\ m.key = OrderKey(m.from)
         /\ m.decision = order[m.from].decision /\ m.expected = Expected(m.from)
<1>1. PICK i \in Invocations : m.from = i /\ m = Message(i)  BY DEF OfSender
<1> QED  BY <1>1 DEF Message

\* If-Match is a sequence.
LEMMA ExpectedIsNat ==
  ASSUME Typed, NEW i \in Invocations
  PROVE  Expected(i) \in Nat
<1>1. viewed[i].sequence \in Nat  BY DEF Typed, Views
<1>2. order[i].expected \in Nat
  BY SequenceAssumption DEF Typed, Orders, NoOrder
<1> QED  BY <1>1, <1>2 DEF Expected

\* A step that carries nothing out, after which every verdict is earned.
LEMMA WithoutEffect ==
  ASSUME DecisionInv, Typed', UNCHANGED <<order, viewed, carriedOut>>,
         \A i \in Invocations : orderPc'[i] = orderPc[i] \/ orderPc'[i] \in {"sent", "done"},
         \A m \in wire' : m \in wire \/ OfSender(m)',
         runSequence' >= runSequence,
         approval # "requested" => approval' = approval,
         DecisionIsTrue'
  PROVE  DecisionInv'
<1>0. order' = order /\ viewed' = viewed /\ carriedOut' = carriedOut  OBVIOUS
<1>1. \A m \in wire' \cup carriedOut' : OfSender(m)'
  <2> SUFFICES ASSUME NEW m \in wire \cup carriedOut  PROVE OfSender(m)'
    BY <1>0
  <2>1. OfSender(m)  BY DEF DecisionInv
  <2> QED  BY <2>1, MessagesStand
<1>2. \A c \in carriedOut' : IsPast(c)'
  <2> SUFFICES ASSUME NEW c \in carriedOut  PROVE IsPast(c)'
    OBVIOUS
  <2>1. IsPast(c) /\ OfSender(c)  BY DEF DecisionInv
  <2>2. c.expected \in Nat
    BY <2>1, TypedIsTypeOK, ExpectedIsNat, MessageParts DEF DecisionInv
  <2>3. c.expected < runSequence'
    BY <2>1, <2>2, TypedIsTypeOK, SequenceAssumption DEF IsPast, DecisionInv, Typed
  <2>4. Decides(c) => approval' = Committed(c.decision)
    BY <2>1 DEF IsPast, Committed
  <2> QED  BY <2>3, <2>4 DEF IsPast, Decides
<1>3. OrdersTakeEffectOnce'  BY DEF DecisionInv, OrdersTakeEffectOnce
<1>4. ASSUME NEW i \in Invocations  PROVE ViewStands(i)'
  <2>1. ViewStands(i)  BY DEF DecisionInv
  <2>2. orderPc'[i] = "judge" => orderPc[i] = "judge"  OBVIOUS
  <2> QED  BY <1>0, <2>1, <2>2 DEF ViewStands
<1>5. DecisionTypeOK' /\ viewed' \in [Invocations -> Views]
  <2>1. DecisionTypeOK'  BY DEF Typed, DecisionTypeOK, Places, Verdicts, States
  <2> QED  BY <2>1 DEF Typed
<1> QED  BY <1>1, <1>2, <1>3, <1>4, <1>5 DEF DecisionInv

\* An answer tells its sender the truth when the approval says what it decided.
LEMMA TellsTheTruth ==
  ASSUME DecisionInv, Typed', UNCHANGED order, NEW m, OfSender(m),
         NEW how \in {"carried out", "conflict"}, TellSender(m, how),
         approval # "requested" => approval' = approval,
         how = "carried out" /\ Decides(m) => approval' = Committed(m.decision)
  PROVE  /\ DecisionIsTrue'
         /\ \A i \in Invocations : orderPc'[i] = orderPc[i] \/ orderPc'[i] \in {"sent", "done"}
<1>0. Typed  BY TypedIsTypeOK DEF DecisionInv
<1>1. \A i \in Invocations :
        \/ orderPc'[i] = orderPc[i] /\ verdict'[i] = verdict[i]
        \/ i = m.from /\ orderPc[i] = "sent" /\ orderPc'[i] = "done" /\ verdict'[i] = how
  <2>1. CASE UNCHANGED <<orderPc, verdict>>  BY <2>1
  <2>2. CASE orderPc[m.from] = "sent" /\ OrderEnds(m.from, how)
    BY <1>0, <2>2 DEF OrderEnds, Typed
  <2> QED  BY <2>1, <2>2 DEF TellSender
<1>2. m.decision = order[m.from].decision  BY MessageParts
<1>3. ASSUME NEW i \in Invocations,
             order[i].decision # "none", verdict'[i] \in {"carried out", "recovered"}
      PROVE  approval' = Committed(order[i].decision)
  <2>1. CASE verdict'[i] = verdict[i]
    BY <1>3, <2>1 DEF DecisionInv, DecisionIsTrue, Committed
  <2>2. CASE i = m.from /\ verdict'[i] = how
    BY <1>2, <1>3, <2>2 DEF Decides
  <2> QED  BY <1>1, <2>1, <2>2
<1>4. ASSUME NEW i \in Invocations, verdict'[i] = "different decision"
      PROVE  approval' \notin {"requested", Committed(order[i].decision)}
  BY <1>1, <1>4 DEF DecisionInv, DecisionIsTrue
<1>5. DecisionIsTrue'  BY <1>3, <1>4 DEF DecisionIsTrue
<1> QED  BY <1>1, <1>5

-----------------------------------------------------------------------------
\* A request that finds its key unknown and its version current takes effect for
\* the first time: had another of the same order, it would have used up the
\* sequence both name, or the key both carry.
LEMMA FirstEffect ==
  ASSUME DecisionInv, NEW m \in wire, NEW c \in carriedOut,
         m.expected = runSequence, \A d \in carriedOut : d.key # m.key
  PROVE  order[c.from] # order[m.from]
<1> SUFFICES ASSUME order[c.from] = order[m.from]  PROVE FALSE
  OBVIOUS
<1>1. OfSender(c) /\ OfSender(m) /\ IsPast(c)  BY DEF DecisionInv
<1>2. c.key = OrderKey(c.from) /\ m.key = OrderKey(m.from)  BY <1>1, MessageParts
<1>3. c.expected = Expected(c.from) /\ m.expected = Expected(m.from)
  BY <1>1, MessageParts
<1>4. CASE order[m.from].name \in {"example", "replay"}
  BY <1>2, <1>4 DEF OrderKey
<1>5. CASE order[m.from].name \notin {"example", "replay"}
  <2>1. c.expected = m.expected  BY <1>3, <1>5 DEF Expected
  <2>2. runSequence \in Nat  BY TypedIsTypeOK DEF DecisionInv, Typed
  <2> QED  BY <1>1, <2>1, <2>2 DEF IsPast
<1> QED  BY <1>4, <1>5

\* The cell handles a request.
LEMMA HandlingKeeps ==
  ASSUME DecisionInv, Typed', NEW m \in wire, HandleOrder(m)
  PROVE  DecisionInv'
<1>0. OfSender(m) /\ Typed  BY TypedIsTypeOK DEF DecisionInv
<1>a. runSequence \in Nat  BY <1>0, SequenceAssumption DEF Typed
<1>b. runSequence' >= runSequence
  <2>1. runSequence' = runSequence \/ runSequence' = runSequence + 1  BY DEF HandleOrder
  <2> QED  BY <1>a, <2>1
<1>1. UNCHANGED <<order, viewed>> /\ wire' \subseteq wire  BY DEF HandleOrder
<1>2. CASE \E d \in carriedOut : d.key = m.key
  <2>1. PICK d \in carriedOut :
          TellSender(m, IF <<d.name, d.decision, d.expected>>
                           = <<m.name, m.decision, m.expected>>
                        THEN "carried out" ELSE "conflict")
    BY <1>2 DEF HandleOrder
  <2>2. UNCHANGED <<approval, runSequence, carriedOut>>  BY <1>2 DEF HandleOrder
  <2>3. IsPast(d)  BY DEF DecisionInv
  <2>4. PICK how \in {"carried out", "conflict"} :
          TellSender(m, how) /\ (how = "carried out" => d.decision = m.decision)
    BY <2>1
  <2>5. how = "carried out" /\ Decides(m) => approval' = Committed(m.decision)
    BY <2>2, <2>3, <2>4 DEF IsPast, Decides
  <2>6. /\ DecisionIsTrue'
        /\ \A i \in Invocations : orderPc'[i] = orderPc[i] \/ orderPc'[i] \in {"sent", "done"}
    BY <1>0, <1>1, <2>2, <2>4, <2>5, TellsTheTruth
  <2> QED  BY <1>b, <1>1, <2>2, <2>6, WithoutEffect
<1>3. CASE /\ \A d \in carriedOut : d.key # m.key
           /\ m.expected # runSequence \/ (Decides(m) /\ approval # "requested")
  <2>1. TellSender(m, "conflict") /\ UNCHANGED <<approval, runSequence, carriedOut>>
    BY <1>3 DEF HandleOrder
  <2>2. /\ DecisionIsTrue'
        /\ \A i \in Invocations : orderPc'[i] = orderPc[i] \/ orderPc'[i] \in {"sent", "done"}
    BY <1>0, <1>1, <2>1, TellsTheTruth
  <2> QED  BY <1>b, <1>1, <2>1, <2>2, WithoutEffect
<1>4. CASE /\ \A d \in carriedOut : d.key # m.key
           /\ m.expected = runSequence /\ ~(Decides(m) /\ approval # "requested")
  <2>1. /\ runSequence' = runSequence + 1 /\ carriedOut' = carriedOut \cup {m}
        /\ approval' = IF Decides(m) THEN Committed(m.decision) ELSE approval
        /\ TellSender(m, "carried out")
    BY <1>4 DEF HandleOrder
  <2>2. approval # "requested" => approval' = approval  BY <1>4, <2>1
  <2>3. /\ DecisionIsTrue'
        /\ \A i \in Invocations : orderPc'[i] = orderPc[i] \/ orderPc'[i] \in {"sent", "done"}
    BY <1>0, <1>1, <2>1, <2>2, TellsTheTruth
  <2>4. ASSUME NEW u \in wire' \cup carriedOut'  PROVE OfSender(u)'
    <3>1. OfSender(u)  BY <1>0, <1>1, <2>1 DEF DecisionInv
    <3> QED  BY <1>1, <2>3, <3>1, MessagesStand
  <2>5. ASSUME NEW c \in carriedOut'  PROVE IsPast(c)'
    <3>1. runSequence' = runSequence + 1  BY <2>1
    <3>2. CASE c = m
      <4>0. c.expected = runSequence  BY <1>4, <3>2
      <4>1. c.expected < runSequence'  BY <1>a, <3>1, <4>0
      <4>2. c.decision # "none" => approval' = Committed(c.decision)
        BY <2>1, <3>2 DEF Decides
      <4> QED  BY <4>1, <4>2 DEF IsPast, Decides, Committed
    <3>3. CASE c \in carriedOut
      <4>1. OfSender(c) /\ IsPast(c)  BY <3>3 DEF DecisionInv
      <4>2. c.expected \in Nat  BY <1>0, <4>1, MessageParts, ExpectedIsNat
      <4>a. c.expected < runSequence  BY <4>1 DEF IsPast
      <4>3. c.expected < runSequence'  BY <1>a, <3>1, <4>2, <4>a
      <4>4. c.decision # "none" => approval' = Committed(c.decision)
        BY <2>2, <4>1 DEF IsPast, Committed, Decides
      <4> QED  BY <4>3, <4>4 DEF IsPast, Decides, Committed
    <3> QED  BY <2>1, <3>2, <3>3
  <2>6. OrdersTakeEffectOnce'
    <3>1. \A c \in carriedOut : order[c.from] # order[m.from]  BY <1>4, FirstEffect
    <3> QED  BY <1>1, <2>1, <3>1 DEF DecisionInv, OrdersTakeEffectOnce
  <2>7. ASSUME NEW i \in Invocations  PROVE ViewStands(i)'
    <3>1. ViewStands(i)  BY DEF DecisionInv
    <3>2. orderPc'[i] = "judge" => orderPc[i] = "judge"  BY <2>3
    <3> QED  BY <1>1, <2>2, <3>1, <3>2 DEF ViewStands
  <2>8. DecisionTypeOK' /\ viewed' \in [Invocations -> Views]
    <3>1. DecisionTypeOK'  BY DEF Typed, DecisionTypeOK, Places, Verdicts, States
    <3> QED  BY <3>1 DEF Typed
  <2> QED  BY <2>3, <2>4, <2>5, <2>6, <2>7, <2>8 DEF DecisionInv
<1> QED  BY <1>2, <1>3, <1>4

\* A request leaves: it says what its sender was told and has read.
LEMMA SendingKeeps ==
  ASSUME DecisionInv, Typed', NEW i \in Invocations, SendOrder(i)
  PROVE  DecisionInv'
<1>0. Typed  BY TypedIsTypeOK DEF DecisionInv
<1>1. /\ wire' = wire \cup {Message(i)} /\ UNCHANGED <<order, viewed, verdict>>
      /\ UNCHANGED <<approval, runSequence, carriedOut>>
  BY DEF SendOrder, Message, OrderAt
<1>2. orderPc' = [orderPc EXCEPT ![i] = "sent"]  BY DEF SendOrder, OrderAt
<1>3. \A j \in Invocations : orderPc'[j] = orderPc[j] \/ orderPc'[j] \in {"sent", "done"}
  BY <1>0, <1>2 DEF Typed
<1>4. Message(i)' = Message(i)  BY <1>1 DEF Message, OrderKey, Expected
<1>5. OfSender(Message(i))'
  <2>1. Message(i).from = i  BY DEF Message
  <2>2. orderPc'[i] = "sent"  BY <1>0, <1>2 DEF Typed
  <2> QED  BY <1>4, <2>1, <2>2 DEF OfSender, MayHaveSent
<1>6. \A m \in wire' : m \in wire \/ OfSender(m)'
  <2> SUFFICES ASSUME NEW m \in wire', m \notin wire  PROVE OfSender(m)'
    OBVIOUS
  <2>1. m = Message(i)  BY <1>1
  <2>2. m.from = i  BY <2>1 DEF Message
  <2>3. orderPc'[i] = "sent"  BY <1>0, <1>2 DEF Typed
  <2> QED  BY <1>4, <2>1, <2>2, <2>3 DEF OfSender, MayHaveSent
<1>7. DecisionIsTrue'  BY <1>1 DEF DecisionInv, DecisionIsTrue
<1>8. runSequence' >= runSequence
  <2>1. runSequence \in Nat  BY <1>0, SequenceAssumption DEF Typed
  <2>2. runSequence' = runSequence  BY <1>1
  <2> QED  BY <2>1, <2>2
<1> QED  BY <1>1, <1>3, <1>6, <1>7, <1>8, WithoutEffect

\* A command is interrupted: its request may still be on its way.
LEMMA LosingKeeps ==
  ASSUME DecisionInv, Typed', NEW i \in Invocations, LoseAnswer(i)
  PROVE  DecisionInv'
<1>0. Typed  BY TypedIsTypeOK DEF DecisionInv
<1>1. UNCHANGED <<order, viewed, wire, approval, runSequence, carriedOut>>
  BY DEF LoseAnswer
<1>2. /\ orderPc' = [orderPc EXCEPT ![i] = "done"]
      /\ verdict' = [verdict EXCEPT ![i] = "lost"]
  BY DEF LoseAnswer, OrderEnds
<1>3. \A j \in Invocations :
        /\ orderPc'[j] = orderPc[j] \/ orderPc'[j] \in {"sent", "done"}
        /\ verdict'[j] = verdict[j] \/ verdict'[j] = "lost"
  BY <1>0, <1>2 DEF Typed
<1>4. DecisionIsTrue'  BY <1>1, <1>3 DEF DecisionInv, DecisionIsTrue
<1>5. runSequence' >= runSequence
  <2>1. runSequence \in Nat  BY <1>0, SequenceAssumption DEF Typed
  <2>2. runSequence' = runSequence  BY <1>1
  <2> QED  BY <2>1, <2>2
<1> QED  BY <1>1, <1>3, <1>4, <1>5, WithoutEffect

\* The run goes on: only an open approval runs out.
LEMMA RunningKeeps ==
  ASSUME DecisionInv, Typed', RunGoesOn
  PROVE  DecisionInv'
<1>0. Typed  BY TypedIsTypeOK DEF DecisionInv
<1>1. UNCHANGED <<order, orderPc, viewed, verdict, wire, carriedOut>>
  BY DEF RunGoesOn, orderVars
<1>2. approval # "requested" => approval' = approval  BY DEF RunGoesOn
<1>3. DecisionIsTrue'  BY <1>1, <1>2 DEF DecisionInv, DecisionIsTrue, Committed
<1>4. runSequence' >= runSequence
  <2>1. runSequence \in Nat  BY <1>0, SequenceAssumption DEF Typed
  <2>2. runSequence' = runSequence + 1  BY DEF RunGoesOn
  <2> QED  BY <2>1, <2>2
<1> QED  BY <1>1, <1>2, <1>3, <1>4, WithoutEffect

\* A command has no verdict before its end.
VerdictsAtEnd == \A i \in Invocations : orderPc[i] # "done" => verdict[i] = "none"

\* Every step keeps that.
LEMMA VerdictsStayAtEnd ==
  ASSUME DecisionInv, VerdictsAtEnd, [DecisionNext]_decisionVars
  PROVE  VerdictsAtEnd'
<1>0. Typed  BY TypedIsTypeOK DEF DecisionInv
<1>1. ASSUME NEW i \in Invocations, NEW where, NEW how,
             orderPc[i] # "done", OrderAt(i, where) \/ OrderEnds(i, how)
      PROVE  VerdictsAtEnd'
  <2>1. CASE OrderAt(i, where)
    BY <1>0, <1>1, <2>1 DEF OrderAt, VerdictsAtEnd, Typed
  <2>2. CASE OrderEnds(i, how)
    BY <1>0, <2>2 DEF OrderEnds, VerdictsAtEnd, Typed
  <2> QED  BY <1>1, <2>1, <2>2
<1>2. CASE UNCHANGED <<orderPc, verdict>>  BY <1>2 DEF VerdictsAtEnd
<1>3. ASSUME NEW i \in Invocations,
             \/ GiveOrder(i) \/ LookAtApproval(i) \/ JudgeApproval(i) \/ LookAtRun(i)
             \/ SendOrder(i) \/ LoseAnswer(i)
      PROVE  VerdictsAtEnd'
  BY <1>1, <1>3 DEF GiveOrder, LookAtApproval, JudgeApproval, LookAtRun, SendOrder, LoseAnswer
<1>4. ASSUME NEW m \in wire, HandleOrder(m)  PROVE VerdictsAtEnd'
  <2>1. m.from \in Invocations  BY MessageParts DEF DecisionInv
  <2>2. PICK how : TellSender(m, how)  BY <1>4 DEF HandleOrder
  <2> QED  BY <1>1, <1>2, <2>1, <2>2 DEF TellSender
<1> QED
  BY <1>2, <1>3, <1>4 DEF DecisionNext, RunGoesOn, decisionVars, orderVars

\* The steps before the request leaves.
LEMMA PreparingKeeps ==
  ASSUME DecisionInv, VerdictsAtEnd, Typed', NEW i \in Invocations,
         GiveOrder(i) \/ LookAtApproval(i) \/ JudgeApproval(i) \/ LookAtRun(i)
  PROVE  DecisionInv'
<1>0. Typed /\ ViewStands(i)  BY TypedIsTypeOK DEF DecisionInv
<1>1. DecisionTypeOK' /\ viewed' \in [Invocations -> Views]
  <2>1. DecisionTypeOK'  BY DEF Typed, DecisionTypeOK, Places, Verdicts, States
  <2> QED  BY <2>1 DEF Typed
<1>2. ~MayHaveSent(i) /\ UNCHANGED <<wire, approval, runSequence, carriedOut>>
  BY DEF GiveOrder, LookAtApproval, JudgeApproval, LookAtRun, MayHaveSent
<1>3. ASSUME NEW j \in Invocations \ {i}
      PROVE  /\ order'[j] = order[j] /\ orderPc'[j] = orderPc[j]
             /\ viewed'[j] = viewed[j] /\ verdict'[j] = verdict[j]
  <2>1. order'[j] = order[j] /\ viewed'[j] = viewed[j]
    BY <1>0 DEF GiveOrder, LookAtApproval, JudgeApproval, LookAtRun, Typed
  <2>2. orderPc'[j] = orderPc[j] /\ verdict'[j] = verdict[j]
    BY <1>0 DEF GiveOrder, LookAtApproval, JudgeApproval, LookAtRun, OrderAt, OrderEnds, Typed
  <2> QED  BY <2>1, <2>2
<1>4. CASE GiveOrder(i)
  <2>1. ViewStands(i)'
    <3>1. orderPc'[i] # "judge" /\ viewed'[i] = viewed[i] /\ approval' = approval
      BY <1>0, <1>4 DEF GiveOrder, OrderAt, OrderEnds, Typed
    <3> QED  BY <1>0, <3>1 DEF ViewStands
  <2>2. verdict'[i] \in {"none", "unconfirmed"}
    BY <1>0, <1>4 DEF GiveOrder, OrderAt, OrderEnds, Typed, VerdictsAtEnd
  <2> QED  BY <1>1, <1>2, <1>3, <2>1, <2>2, BeforeRequest
<1>5. CASE LookAtApproval(i)
  <2>1. viewed'[i].state = approval /\ approval' = approval
    BY <1>0, <1>5 DEF LookAtApproval, Typed, Views
  <2>2. approval # "none"  BY <1>0 DEF Typed, States
  <2>3. ViewStands(i)'  BY <2>1, <2>2 DEF ViewStands
  <2>4. verdict'[i] \in {"none", "other write"}
    BY <1>0, <1>5 DEF LookAtApproval, OrderAt, OrderEnds, Typed, VerdictsAtEnd
  <2> QED  BY <1>1, <1>2, <1>3, <2>3, <2>4, BeforeRequest
<1>6. CASE JudgeApproval(i)
  <2>1. /\ orderPc[i] = "judge" /\ orderPc'[i] # "judge"
        /\ order' = order /\ viewed' = viewed /\ approval' = approval
    BY <1>0, <1>6 DEF JudgeApproval, OrderAt, OrderEnds, Typed
  <2>2. ViewStands(i)'  BY <1>0, <2>1 DEF ViewStands
  <2>3. viewed[i].state \in {"requested", approval}  BY <1>0, <2>1 DEF ViewStands
  <2>4. CASE Recovers(i)
    <3>1. verdict'[i] = "recovered"
      BY <1>0, <1>6, <2>4 DEF JudgeApproval, OrderEnds, Typed
    <3>2. approval = Committed(order[i].decision)
      BY <2>3, <2>4 DEF Recovers, Committed
    <3> QED  BY <1>1, <1>2, <1>3, <2>1, <2>2, <3>1, <3>2, BeforeRequest
  <2>5. CASE ~Recovers(i) /\ viewed[i].state # "requested"
    <3>1. verdict'[i] = "different decision"
      BY <1>0, <1>6, <2>5 DEF JudgeApproval, OrderEnds, Typed
    <3>2. approval \notin {"requested", Committed(order[i].decision)}
      BY <2>3, <2>5 DEF Recovers
    <3> QED  BY <1>1, <1>2, <1>3, <2>1, <2>2, <3>1, <3>2, BeforeRequest
  <2>6. CASE ~Recovers(i) /\ viewed[i].state = "requested"
    <3>1. verdict'[i] = "none"
      BY <1>0, <1>6, <2>1, <2>6 DEF JudgeApproval, OrderAt, VerdictsAtEnd
    <3> QED  BY <1>1, <1>2, <1>3, <2>2, <3>1, BeforeRequest
  <2> QED  BY <2>4, <2>5, <2>6
<1>7. CASE LookAtRun(i)
  <2>1. /\ viewed'[i].state = viewed[i].state /\ orderPc'[i] # "judge"
        /\ approval' = approval /\ verdict'[i] = "none"
    BY <1>0, <1>7 DEF LookAtRun, OrderAt, Typed, Views, VerdictsAtEnd
  <2>2. ViewStands(i)'  BY <1>0, <2>1 DEF ViewStands
  <2> QED  BY <1>1, <1>2, <1>3, <2>1, <2>2, BeforeRequest
<1> QED  BY <1>4, <1>5, <1>6, <1>7

\* Every step keeps the invariant.
LEMMA DecisionKeeps ==
  ASSUME DecisionInv, VerdictsAtEnd, [DecisionNext]_decisionVars
  PROVE  DecisionInv' /\ VerdictsAtEnd'
<1>0. Typed' /\ VerdictsAtEnd'  BY DecisionTypesKept, VerdictsStayAtEnd
<1>1. ASSUME NEW i \in Invocations,
             GiveOrder(i) \/ LookAtApproval(i) \/ JudgeApproval(i) \/ LookAtRun(i)
      PROVE  DecisionInv'
  BY <1>0, <1>1, PreparingKeeps
<1>2. ASSUME NEW i \in Invocations, SendOrder(i)  PROVE DecisionInv'
  BY <1>0, <1>2, SendingKeeps
<1>3. ASSUME NEW i \in Invocations, LoseAnswer(i)  PROVE DecisionInv'
  BY <1>0, <1>3, LosingKeeps
<1>4. ASSUME NEW m \in wire, HandleOrder(m)  PROVE DecisionInv'
  BY <1>0, <1>4, HandlingKeeps
<1>5. CASE RunGoesOn  BY <1>0, <1>5, RunningKeeps
<1>6. CASE UNCHANGED decisionVars
  <2>1. UNCHANGED <<order, orderPc, viewed, verdict, wire, approval, runSequence, carriedOut>>
    BY <1>6 DEF decisionVars, orderVars
  <2>2. Typed  BY TypedIsTypeOK DEF DecisionInv
  <2>3. runSequence \in Nat  BY <2>2, SequenceAssumption DEF Typed
  <2>4. runSequence' >= runSequence
    <3>1. runSequence' = runSequence  BY <2>1
    <3> QED  BY <2>3, <3>1
  <2>5. DecisionIsTrue'  BY <2>1 DEF DecisionInv, DecisionIsTrue
  <2> QED  BY <1>0, <2>1, <2>4, <2>5, WithoutEffect
<1> QED  BY <1>0, <1>1, <1>2, <1>3, <1>4, <1>5, <1>6 DEF DecisionNext

\* The invariant holds of every behaviour.
LEMMA DecisionInvariant == DecisionSpec => [](DecisionInv /\ VerdictsAtEnd)
<1>1. DecisionInit => DecisionInv /\ VerdictsAtEnd
  BY DecisionStarts DEF DecisionInit, VerdictsAtEnd
<1>2. (DecisionInv /\ VerdictsAtEnd) /\ [DecisionNext]_decisionVars
        => (DecisionInv /\ VerdictsAtEnd)'
  BY DecisionKeeps
<1> QED  BY <1>1, <1>2, PTL DEF DecisionSpec

\* However many commands are given, repeated under whatever keys, and however
\* late their requests arrive: no order takes effect twice.
THEOREM OrdersAlwaysOnce == DecisionSpec => []OrdersTakeEffectOnce
<1>1. DecisionInv => OrdersTakeEffectOnce  BY DEF DecisionInv
<1> QED  BY <1>1, DecisionInvariant, PTL

\* What a command reports about its decision is what the approval says from then on.
THEOREM DecisionsAlwaysTrue == DecisionSpec => []DecisionIsTrue
<1>1. DecisionInv => DecisionIsTrue  BY DEF DecisionInv
<1> QED  BY <1>1, DecisionInvariant, PTL

-----------------------------------------------------------------------------
(***************************************************************************)
(* Publishing                                                              *)
(***************************************************************************)

Uploads == [from : Publishers, digest : Archives \cup {Nothing},
            bytes : Archives \cup {Nothing}, bundle : Archives \cup {Nothing}]

\* The invocations whose request has left.
HasSent(p) == publishPc[p] \in {"sent", "lost", "published", "refused"}

\* An upload says what its sender was shown and has read, for good.
SpeaksForSender(u) ==
  /\ HasSent(u.from)
  /\ u.digest = inspected[u.from]
  /\ u.bundle = carried[u.from]

PublishingInv ==
  /\ PublishingTypeOK
  /\ posted \subseteq Uploads /\ accepted \subseteq Uploads
  /\ \A u \in posted \cup accepted : SpeaksForSender(u)
  /\ \A u \in accepted : u.bytes = u.digest /\ u.bundle = u.bytes
  /\ \A p \in Publishers :
       publishPc[p] = "published" => \E u \in accepted : u.bytes = inspected[p]

\* Nothing has been published at first.
LEMMA PublishingStarts == PublishingInit => PublishingInv
  BY DEF PublishingInit, PublishingInv, PublishingTypeOK

\* The steps of a publisher that neither send nor are answered: it has not sent,
\* so no upload speaks for it.
LEMMA BeforeUpload ==
  ASSUME PublishingInv, PublishingTypeOK', NEW p \in Publishers, ~HasSent(p),
         UNCHANGED <<posted, accepted>>,
         \A q \in Publishers \ {p} : /\ publishPc'[q] = publishPc[q]
                                     /\ inspected'[q] = inspected[q]
                                     /\ carried'[q] = carried[q],
         publishPc'[p] # "published"
  PROVE  PublishingInv'
<1>1. \A u \in posted \cup accepted : u.from \in Publishers \ {p}
  BY DEF PublishingInv, Uploads, SpeaksForSender
<1>2. \A u \in posted' \cup accepted' : SpeaksForSender(u)'
  BY <1>1 DEF PublishingInv, SpeaksForSender, HasSent
<1>3. \A q \in Publishers :
        publishPc'[q] = "published" => \E u \in accepted' : u.bytes = inspected'[q]
  BY DEF PublishingInv
<1> QED  BY <1>2, <1>3 DEF PublishingInv

\* Every step keeps the types.
LEMMA TypesKept ==
  ASSUME PublishingInv, [PublishingNext]_publishingVars
  PROVE  PublishingTypeOK'
<1> USE ArchivesAssumption DEF PublishingInv, PublishingTypeOK, PublishAt, diskVars, publishVars
<1>1. CASE Repack  BY <1>1 DEF Repack
<1>2. CASE InspectToSign \/ Sign  BY <1>2 DEF InspectToSign, Sign
<1>3. ASSUME NEW p \in Publishers, Inspect(p)  PROVE PublishingTypeOK'
  BY <1>3 DEF Inspect
<1>4. ASSUME NEW p \in Publishers, TakeDigest(p)  PROVE PublishingTypeOK'
  BY <1>4 DEF TakeDigest
<1>5. ASSUME NEW p \in Publishers, ReadManifest(p)  PROVE PublishingTypeOK'
  BY <1>5 DEF ReadManifest
<1>6. ASSUME NEW p \in Publishers, ConfirmUpload(p)  PROVE PublishingTypeOK'
  BY <1>6 DEF ConfirmUpload
<1>7. ASSUME NEW p \in Publishers, ReadBundle(p)  PROVE PublishingTypeOK'
  BY <1>7 DEF ReadBundle
<1>8. ASSUME NEW p \in Publishers, SendPackage(p)  PROVE PublishingTypeOK'
  BY <1>8 DEF SendPackage
<1>9. ASSUME NEW p \in Publishers, LosePublisher(p)  PROVE PublishingTypeOK'
  BY <1>9 DEF LosePublisher
<1>10. ASSUME NEW u \in posted, TakePackage(u)  PROVE PublishingTypeOK'
  BY <1>10 DEF TakePackage, Uploads
<1>11. CASE UNCHANGED publishingVars  BY <1>11 DEF publishingVars
<1> QED
  BY <1>1, <1>2, <1>3, <1>4, <1>5, <1>6, <1>7, <1>8, <1>9, <1>10, <1>11 DEF PublishingNext

\* The upload leaves with the digest the person was shown.
LEMMA SendKeeps ==
  ASSUME PublishingInv, PublishingTypeOK', NEW p \in Publishers, SendPackage(p)
  PROVE  PublishingInv'
<1>1. CASE archiveFile = Nothing
  BY <1>1, BeforeUpload DEF SendPackage, PublishAt, HasSent, diskVars, PublishingInv, PublishingTypeOK
<1>2. CASE archiveFile # Nothing
  <2> DEFINE new == [from |-> p, digest |-> UploadDigest(p), bytes |-> archiveFile,
                     bundle |-> carried[p]]
  <2>1. /\ posted' = posted \cup {new} /\ publishPc' = [publishPc EXCEPT ![p] = "sent"]
        /\ UNCHANGED <<inspected, carried, accepted>> /\ publishPc[p] = "send"
    BY <1>2 DEF SendPackage, PublishAt
  <2>2. new \in Uploads /\ new.from = p /\ new.digest = inspected[p] /\ new.bundle = carried[p]
    BY DEF PublishingInv, PublishingTypeOK, Uploads, UploadDigest
  <2>3. \A u \in posted \cup accepted : u.from \in Publishers \ {p}
    BY <2>1 DEF PublishingInv, Uploads, SpeaksForSender, HasSent
  <2>4. \A u \in posted' \cup accepted' : SpeaksForSender(u)'
    BY <2>1, <2>2, <2>3 DEF PublishingInv, PublishingTypeOK, SpeaksForSender, HasSent
  <2>5. \A q \in Publishers :
          publishPc'[q] = "published" => \E u \in accepted' : u.bytes = inspected'[q]
    BY <2>1 DEF PublishingInv, PublishingTypeOK
  <2> QED  BY <2>1, <2>2, <2>4, <2>5 DEF PublishingInv
<1> QED  BY <1>1, <1>2

\* The cell compares bytes, digest and bundle, or has done so before.
LEMMA TakeKeeps ==
  ASSUME PublishingInv, PublishingTypeOK', NEW u \in posted, TakePackage(u)
  PROVE  PublishingInv'
<1> DEFINE known == {a \in accepted : a.digest = u.digest}
           takes == IF known # {}
                    THEN \A a \in known : a.bytes = u.bytes /\ a.bundle = u.bundle
                    ELSE u.bytes = u.digest /\ u.bundle = u.bytes
<1>1. /\ u \in Uploads /\ SpeaksForSender(u) /\ u.from \in Publishers
      /\ accepted' = IF known = {} /\ takes THEN accepted \cup {u} ELSE accepted
      /\ posted' \subseteq posted /\ UNCHANGED <<inspected, carried>>
  BY DEF PublishingInv, TakePackage, Uploads
<1>2. accepted \subseteq accepted' /\ accepted' \subseteq accepted \cup {u}
  BY <1>1
<1>3. \A a \in accepted' : a.bytes = a.digest /\ a.bundle = a.bytes
  <2>1. CASE known = {} /\ takes  BY <2>1, <1>1 DEF PublishingInv
  <2>2. CASE ~(known = {} /\ takes)  BY <2>2, <1>1 DEF PublishingInv
  <2> QED  BY <2>1, <2>2
<1>4. takes => \E a \in accepted' : a.bytes = inspected[u.from]
  <2>1. CASE known # {}
    BY <2>1, <1>1, <1>2 DEF PublishingInv, SpeaksForSender
  <2>2. CASE known = {}
    BY <2>2, <1>1 DEF SpeaksForSender
  <2> QED  BY <2>1, <2>2
<1>5. CASE publishPc[u.from] = "sent"
  <2>1. publishPc' = [publishPc EXCEPT ![u.from] = IF takes THEN "published" ELSE "refused"]
    BY <1>5 DEF TakePackage, PublishAt
  <2>2. \A q \in Publishers : HasSent(q) => HasSent(q)'
    BY <2>1, <1>1 DEF HasSent, PublishingInv, PublishingTypeOK
  <2>3. \A a \in posted' \cup accepted' : SpeaksForSender(a)'
    BY <2>2, <1>1, <1>2 DEF PublishingInv, SpeaksForSender, Uploads
  <2>4. \A q \in Publishers :
          publishPc'[q] = "published" => \E a \in accepted' : a.bytes = inspected'[q]
    BY <2>1, <1>1, <1>2, <1>4 DEF PublishingInv, PublishingTypeOK
  <2> QED  BY <1>1, <1>2, <1>3, <2>3, <2>4 DEF PublishingInv
<1>6. CASE publishPc[u.from] # "sent"
  <2>1. UNCHANGED publishPc
    BY <1>6 DEF TakePackage
  <2>2. \A a \in posted' \cup accepted' : SpeaksForSender(a)'
    BY <2>1, <1>1, <1>2 DEF PublishingInv, SpeaksForSender, HasSent
  <2>3. \A q \in Publishers :
          publishPc'[q] = "published" => \E a \in accepted' : a.bytes = inspected'[q]
    BY <2>1, <1>1, <1>2 DEF PublishingInv
  <2> QED  BY <1>1, <1>2, <1>3, <2>2, <2>3 DEF PublishingInv
<1> QED  BY <1>5, <1>6

\* Every step keeps the invariant.
LEMMA PublishingKeeps ==
  PublishingInv /\ [PublishingNext]_publishingVars => PublishingInv'
<1> SUFFICES ASSUME PublishingInv, [PublishingNext]_publishingVars
             PROVE  PublishingInv'
  OBVIOUS
<1>0. PublishingTypeOK'
  BY TypesKept
<1>1. CASE UNCHANGED <<publishVars, posted, accepted>>
  BY <1>0, <1>1 DEF PublishingInv, SpeaksForSender, HasSent, publishVars
<1>2. ASSUME NEW p \in Publishers,
             Inspect(p) \/ TakeDigest(p) \/ ReadManifest(p) \/ ConfirmUpload(p) \/ ReadBundle(p)
      PROVE  PublishingInv'
  <2>1. ~HasSent(p) /\ UNCHANGED <<posted, accepted>>
    BY <1>2 DEF HasSent, Inspect, TakeDigest, ReadManifest, ConfirmUpload, ReadBundle
  <2>2. /\ publishPc'[p] # "published"
        /\ \A q \in Publishers \ {p} : publishPc'[q] = publishPc[q]
    BY <1>2 DEF Inspect, TakeDigest, ReadManifest, ConfirmUpload, ReadBundle, PublishAt,
                PublishingInv, PublishingTypeOK
  <2>3. \A q \in Publishers \ {p} : inspected'[q] = inspected[q] /\ carried'[q] = carried[q]
    BY <1>2 DEF Inspect, TakeDigest, ReadManifest, ConfirmUpload, ReadBundle,
                PublishingInv, PublishingTypeOK
  <2> QED  BY <1>0, <2>1, <2>2, <2>3, BeforeUpload
<1>3. ASSUME NEW p \in Publishers, LosePublisher(p)
      PROVE  PublishingInv'
  <2>1. /\ publishPc' = [publishPc EXCEPT ![p] = "lost"]
        /\ UNCHANGED <<inspected, carried, posted, accepted>>
    BY <1>3 DEF LosePublisher, PublishAt
  <2>2. \A q \in Publishers : HasSent(q) => HasSent(q)'
    BY <2>1 DEF HasSent, PublishingInv, PublishingTypeOK
  <2>3. \A u \in posted' \cup accepted' : SpeaksForSender(u)'
    BY <2>1, <2>2 DEF PublishingInv, SpeaksForSender, Uploads
  <2>4. \A q \in Publishers :
          publishPc'[q] = "published" => \E u \in accepted' : u.bytes = inspected'[q]
    BY <2>1 DEF PublishingInv, PublishingTypeOK
  <2> QED  BY <1>0, <2>1, <2>3, <2>4 DEF PublishingInv
<1> QED
  BY <1>0, <1>1, <1>2, <1>3, SendKeeps, TakeKeeps
  DEF PublishingNext, publishingVars, Repack, InspectToSign, Sign

\* Whatever the cell accepts, and whatever publish reports as published, is the
\* signed archive whose digest the person confirmed: for any number of
\* invocations, of archives and of replacements (__main__.py 463-482).
THEOREM AcceptedAlwaysConfirmed == PublishingSpec => []AcceptedIsConfirmed
<1>1. PublishingInv => AcceptedIsConfirmed
  BY DEF PublishingInv, AcceptedIsConfirmed, SpeaksForSender
<1> QED
  BY <1>1, PublishingStarts, PublishingKeeps, PTL DEF PublishingSpec

-----------------------------------------------------------------------------
(***************************************************************************)
(* Pagination                                                              *)
(***************************************************************************)

Given(e) == \E i \in DOMAIN yielded : yielded[i] = e
Rest     == page.data \ page.given

Numbers == 0..MaxEntries
Pages   == [data : SUBSET Numbers, given : SUBSET Numbers, next : Numbers]

\* What is read of the listing is within the listing.
ListingOK ==
  /\ page \in Pages /\ page.given \subseteq page.data
  /\ cursor \in Nat /\ cursor <= listing /\ listing \in Numbers /\ page.next <= listing
  /\ yielded \in Seq(1..MaxEntries) /\ 0 \notin page.data
  /\ \A e \in page.data : e <= listing
  /\ visible \subseteq 1..listing /\ throughout \subseteq visible
  /\ iterPc \in {"idle", "fetch", "yield", "returned", "failed", "left"}

GivenInOrder == \A i, j \in DOMAIN yielded : i < j => yielded[i] < yielded[j]

\* The cursor, while a page is to be fetched, and the page and its next_cursor,
\* while it is given out, split the listing into what the caller was given and
\* what is to come.
AtCursor ==
  /\ iterPc = "idle" => cursor = 0 /\ throughout = {}
  /\ iterPc \in {"idle", "fetch"} =>
    /\ \A i \in DOMAIN yielded : yielded[i] <= cursor
    /\ \A e \in throughout : e <= cursor => Given(e)
InPage ==
  iterPc = "yield" =>
    /\ \A i \in DOMAIN yielded : \A e \in Rest : yielded[i] < e
    /\ page.next # 0 =>
         /\ \A i \in DOMAIN yielded : yielded[i] <= page.next
         /\ \A e \in page.data : e <= page.next
    /\ \A e \in throughout : Given(e) \/ e \in Rest \/ (page.next # 0 /\ e > page.next)
AllGiven == iterPc = "returned" => \A e \in throughout : Given(e)

IterInv == ListingOK /\ GivenInOrder /\ AtCursor /\ InPage /\ AllGiven

LEMMA IterStarts == IterInit => IterInv
<1> SUFFICES ASSUME IterInit  PROVE IterInv
  OBVIOUS
<1>1. ListingOK
  BY PageAssumption DEF IterInit, ListingOK, Pages, Numbers, NoPage
<1>2. GivenInOrder /\ AtCursor /\ InPage /\ AllGiven
  BY DEF IterInit, GivenInOrder, AtCursor, InPage, AllGiven
<1> QED  BY <1>1, <1>2 DEF IterInv

\* A page holds what was visible between its cursor and its last entry.
LEMMA PageListed ==
  ASSUME IterInv, NEW p, p = ListPage(cursor)
  PROVE  /\ p \in Pages /\ p.given = {} /\ 0 \notin p.data /\ p.next <= listing
         /\ \A e \in p.data : cursor < e /\ e <= listing /\ e \in visible
         /\ p.next # 0 => cursor < p.next /\ \A e \in p.data : e <= p.next
         /\ \A e \in visible : cursor < e => e \in p.data \/ (p.next # 0 /\ e > p.next)
<1> DEFINE last == IF cursor + PageLimit < listing THEN cursor + PageLimit ELSE listing
<1>1. /\ p.data = {e \in visible : cursor < e /\ e <= last} /\ p.given = {}
      /\ p.next = IF last < listing THEN last ELSE 0
      /\ p = [data |-> p.data, given |-> {}, next |-> p.next]
  BY DEF ListPage
<1>2. /\ cursor \in Nat /\ listing \in Nat /\ listing \in Numbers /\ cursor <= listing
      /\ visible \subseteq 1..listing
  BY PageAssumption DEF IterInv, ListingOK, Numbers
<1>3. last \in Nat /\ last <= listing /\ (last < listing => cursor < last)
  BY <1>2, PageAssumption
<1>4. p.next \in Nat /\ p.next <= listing /\ p.next \in Numbers
  BY <1>1, <1>2, <1>3, PageAssumption DEF Numbers
<1> HIDE DEF last
<1>5. \A e \in p.data : e \in visible /\ e \in Nat /\ e > 0 /\ cursor < e /\ e <= last /\ e <= listing
  BY <1>1, <1>2, <1>3
<1>6. p.data \subseteq Numbers
  BY <1>2, <1>5, PageAssumption DEF Numbers
<1>7. p \in Pages
  BY <1>1, <1>4, <1>6 DEF Pages
<1>8. p.next # 0 => p.next = last /\ last < listing
  BY <1>1
<1>9. \A e \in visible : cursor < e => e \in p.data \/ (p.next # 0 /\ e > p.next)
  <2> SUFFICES ASSUME NEW e \in visible, cursor < e, e \notin p.data
               PROVE  p.next # 0 /\ e > p.next
    OBVIOUS
  <2>1. e > last /\ e <= listing /\ e \in Nat  BY <1>1, <1>2, <1>3
  <2>2. last < listing /\ last # 0  BY <1>2, <1>3, <2>1
  <2> QED  BY <1>1, <2>1, <2>2
<1> QED  BY <1>1, <1>3, <1>4, <1>5, <1>7, <1>8, <1>9

\* What one more entry makes of those given.
LEMMA OneMoreGiven ==
  ASSUME yielded \in Seq(1..MaxEntries), NEW e \in 1..MaxEntries, yielded' = Append(yielded, e)
  PROVE  /\ yielded' \in Seq(1..MaxEntries)
         /\ \E i \in DOMAIN yielded' : yielded'[i] = e
         /\ \A f : Given(f) => \E i \in DOMAIN yielded' : yielded'[i] = f
         /\ \A i \in DOMAIN yielded' :
              \/ i = Len(yielded) + 1 /\ yielded'[i] = e
              \/ i \in DOMAIN yielded /\ yielded'[i] = yielded[i]
         /\ DOMAIN yielded' = 1..(Len(yielded) + 1) /\ DOMAIN yielded = 1..Len(yielded)
<1>1. /\ yielded' \in Seq(1..MaxEntries) /\ Len(yielded') = Len(yielded) + 1
      /\ yielded'[Len(yielded) + 1] = e
      /\ \A i \in 1..Len(yielded) : yielded'[i] = yielded[i]
  OBVIOUS
<1>2. DOMAIN yielded' = 1..(Len(yielded) + 1) /\ DOMAIN yielded = 1..Len(yielded)
      /\ Len(yielded) \in Nat
  BY <1>1
<1> QED  BY <1>1, <1>2 DEF Given

\* A step that gives nothing and stays on its page keeps the order, and what the
\* cursor or the page splits, of the entries that are still visible throughout.
LEMMA NothingGiven ==
  ASSUME IterInv, UNCHANGED <<cursor, page, yielded>>, throughout' \subseteq throughout,
         iterPc' = iterPc \/ iterPc' \in {"failed", "left"}
  PROVE  GivenInOrder' /\ AtCursor' /\ InPage' /\ AllGiven'
  BY DEF IterInv, GivenInOrder, AtCursor, InPage, AllGiven, Given, Rest

LEMMA IterKeeps ==
  IterInv /\ [IterNext]_iterVars => IterInv'
<1> SUFFICES ASSUME IterInv, [IterNext]_iterVars  PROVE IterInv'
  OBVIOUS
<1>0. /\ ListingOK /\ GivenInOrder /\ AtCursor /\ InPage /\ AllGiven
      /\ cursor \in Nat /\ listing \in Nat /\ page.next \in Nat
      /\ page.data \subseteq Numbers /\ page.given \subseteq Numbers
      /\ \A i \in DOMAIN yielded : yielded[i] \in Nat
  <2>1. ListingOK /\ GivenInOrder /\ AtCursor /\ InPage /\ AllGiven  BY DEF IterInv
  <2>2. \A i \in DOMAIN yielded : yielded[i] \in 1..MaxEntries
    <3>1. PICK S : S = 1..MaxEntries  OBVIOUS
    <3>2. yielded \in Seq(S)  BY <2>1, <3>1 DEF ListingOK
    <3>3. \A i \in DOMAIN yielded : yielded[i] \in S  BY <3>2
    <3> QED  BY <3>1, <3>3
  <2> QED  BY <2>1, <2>2, PageAssumption DEF ListingOK, Pages, Numbers
<1>1. CASE BeginIteration
  <2>1. /\ iterPc = "idle" /\ iterPc' = "fetch" /\ throughout' = visible
        /\ UNCHANGED <<cursor, page, yielded, listing, visible>>
    BY <1>1 DEF BeginIteration
  <2>2. ListingOK'  BY <1>0, <2>1 DEF ListingOK
  <2>3. GivenInOrder' /\ InPage' /\ AllGiven'
    BY <1>0, <2>1 DEF GivenInOrder, InPage, AllGiven
  <2>4. AtCursor'
    BY <1>0, <2>1 DEF AtCursor, ListingOK
  <2> QED  BY <2>2, <2>3, <2>4 DEF IterInv
<1>2. CASE FetchListing
  <2>1. CASE iterPc' = "failed" /\ UNCHANGED page
    <3>1. UNCHANGED <<cursor, yielded, listing, visible, throughout>>
      BY <1>2 DEF FetchListing
    <3>2. ListingOK'  BY <1>0, <2>1, <3>1 DEF ListingOK
    <3> QED  BY <2>1, <3>1, <3>2, NothingGiven DEF IterInv
  <2>2. CASE iterPc' = "yield" /\ page' = ListPage(cursor)
    <3>1. PICK p : p = ListPage(cursor)  OBVIOUS
    <3>2. /\ iterPc = "fetch" /\ iterPc' = "yield" /\ page' = p
          /\ UNCHANGED <<cursor, yielded, listing, visible, throughout>>
      BY <1>2, <2>2, <3>1 DEF FetchListing
    <3>3. /\ p \in Pages /\ p.given = {} /\ 0 \notin p.data /\ p.next <= listing
          /\ \A e \in p.data : cursor < e /\ e <= listing /\ e \in visible
          /\ p.next # 0 => cursor < p.next /\ \A e \in p.data : e <= p.next
          /\ \A e \in visible : cursor < e => e \in p.data \/ (p.next # 0 /\ e > p.next)
      BY <3>1, PageListed
    <3>4. ListingOK'  BY <1>0, <3>2, <3>3 DEF ListingOK
    <3>5. GivenInOrder' /\ AtCursor' /\ AllGiven'
      BY <1>0, <3>2 DEF GivenInOrder, AtCursor, AllGiven
    <3>6. InPage'
      <4>1. /\ \A i \in DOMAIN yielded : yielded[i] <= cursor
            /\ \A e \in throughout : e <= cursor => Given(e)
            /\ \A e \in throughout : e \in visible /\ e \in Nat
        BY <1>0, <3>2 DEF AtCursor, ListingOK
      <4>2. p.next \in Nat /\ \A e \in p.data : e \in Nat
        BY <3>3, PageAssumption DEF Pages, Numbers
      <4>3. \A i \in DOMAIN yielded : \A e \in p.data : yielded[i] < e
        BY <1>0, <3>3, <4>1, <4>2
      <4>4. p.next # 0 => \A i \in DOMAIN yielded : yielded[i] <= p.next
        BY <1>0, <3>3, <4>1, <4>2
      <4>5. \A e \in throughout : Given(e) \/ e \in p.data \/ (p.next # 0 /\ e > p.next)
        BY <1>0, <3>3, <4>1
      <4>6. Rest' = p.data  BY <3>2, <3>3 DEF Rest
      <4> QED  BY <3>2, <3>3, <4>3, <4>4, <4>5, <4>6 DEF InPage, Given
    <3> QED  BY <3>4, <3>5, <3>6 DEF IterInv
  <2> QED  BY <1>2, <2>1, <2>2 DEF FetchListing
<1>3. CASE YieldListed
  <2>1. PICK e \in page.data \ page.given :
          /\ \A f \in page.data \ page.given : e <= f
          /\ yielded' = Append(yielded, e)
          /\ page' = [page EXCEPT !.given = @ \cup {e}]
    BY <1>3 DEF YieldListed
  <2>2. /\ iterPc = "yield" /\ UNCHANGED <<iterPc, cursor, listing, visible, throughout>>
    BY <1>3 DEF YieldListed
  <2>3. e \in 1..MaxEntries /\ e \in Nat /\ e \in Rest
    BY <1>0, <2>1, PageAssumption DEF ListingOK, Numbers, Rest
  <2>4. /\ page'.data = page.data /\ page'.given = page.given \cup {e} /\ page'.next = page.next
        /\ page' \in Pages
    BY <1>0, <2>1, <2>3 DEF ListingOK, Pages
  <2>5. yielded \in Seq(1..MaxEntries)  BY <1>0 DEF ListingOK
  <2>6. ListingOK'
    BY <1>0, <2>1, <2>2, <2>3, <2>4, <2>5, OneMoreGiven DEF ListingOK
  <2>7. \A i \in DOMAIN yielded : yielded[i] < e
    BY <1>0, <2>2, <2>3 DEF InPage
  <2>8. GivenInOrder'
    <3> SUFFICES ASSUME NEW i \in DOMAIN yielded', NEW j \in DOMAIN yielded', i < j
                 PROVE  yielded'[i] < yielded'[j]
      BY DEF GivenInOrder
    <3>1. i \in DOMAIN yielded /\ yielded'[i] = yielded[i]
      BY <2>1, <2>3, <2>5, OneMoreGiven
    <3>2. CASE j \in DOMAIN yielded
      <4>1. yielded'[j] = yielded[j]  BY <2>1, <2>3, <2>5, <3>2, OneMoreGiven
      <4> QED  BY <1>0, <3>1, <3>2, <4>1 DEF GivenInOrder
    <3>3. CASE j \notin DOMAIN yielded
      <4>1. yielded'[j] = e  BY <2>1, <2>3, <2>5, <3>3, OneMoreGiven
      <4> QED  BY <2>7, <3>1, <4>1
    <3> QED  BY <3>2, <3>3
  <2>9. InPage'
    <3>1. \A f \in Rest' : f \in Rest /\ e < f /\ f \in Nat
      BY <1>0, <2>1, <2>3, <2>4 DEF Rest, Numbers
    <3>2. ASSUME NEW i \in DOMAIN yielded'
          PROVE  yielded'[i] = e \/ (i \in DOMAIN yielded /\ yielded'[i] = yielded[i])
      BY <2>1, <2>3, <2>5, OneMoreGiven
    <3>3. ASSUME NEW i \in DOMAIN yielded', NEW f \in Rest'
          PROVE  yielded'[i] < f
      BY <1>0, <2>2, <3>1, <3>2 DEF InPage
    <3>4. ASSUME page.next # 0, NEW i \in DOMAIN yielded'
          PROVE  yielded'[i] <= page.next
      BY <1>0, <2>1, <2>2, <3>2, <3>4 DEF InPage
    <3>5. ASSUME NEW f \in throughout
          PROVE  \/ \E i \in DOMAIN yielded' : yielded'[i] = f
                 \/ f \in Rest'
                 \/ page.next # 0 /\ f > page.next
      <4>1. Given(f) \/ f \in Rest \/ (page.next # 0 /\ f > page.next)
        BY <1>0, <2>2 DEF InPage
      <4>2. f \in Rest => f = e \/ f \in Rest'
        BY <2>4 DEF Rest
      <4> QED  BY <2>1, <2>3, <2>5, <4>1, <4>2, OneMoreGiven
    <3>6. page.next # 0 => \A f \in page.data : f <= page.next
      BY <1>0, <2>2 DEF InPage
    <3> QED  BY <2>2, <2>4, <3>3, <3>4, <3>5, <3>6 DEF InPage, Given
  <2>10. AtCursor' /\ AllGiven'
    BY <2>2 DEF AtCursor, AllGiven
  <2> QED  BY <2>6, <2>8, <2>9, <2>10 DEF IterInv
<1>4. CASE TurnPage
  <2>1. /\ iterPc = "yield" /\ Rest = {} /\ UNCHANGED <<page, yielded, listing, visible, throughout>>
        /\ \/ page.next = 0 /\ iterPc' = "returned" /\ cursor' = cursor
           \/ page.next # 0 /\ iterPc' = "fetch" /\ cursor' = page.next
    BY <1>4 DEF TurnPage, IsLast, Rest
  <2>2. ListingOK'  BY <1>0, <2>1 DEF ListingOK
  <2>3. GivenInOrder' /\ InPage'  BY <1>0, <2>1 DEF GivenInOrder, InPage
  <2>4. \A e \in throughout : e \in Nat  BY <1>0 DEF ListingOK
  <2>5. AtCursor' /\ AllGiven'
    BY <1>0, <2>1, <2>4 DEF InPage, AtCursor, AllGiven, Given
  <2> QED  BY <2>2, <2>3, <2>5 DEF IterInv
<1>5. CASE LeaveLoop
  <2>1. /\ iterPc' = "left"
        /\ UNCHANGED <<cursor, page, yielded, listing, visible, throughout>>
    BY <1>5 DEF LeaveLoop
  <2>2. ListingOK'  BY <1>0, <2>1 DEF ListingOK
  <2> QED  BY <2>1, <2>2, NothingGiven DEF IterInv
<1>6. CASE EntryCreated
  <2>1. /\ listing < MaxEntries /\ listing' = listing + 1
        /\ visible' \in {visible, visible \cup {listing + 1}}
        /\ UNCHANGED <<iterPc, cursor, page, yielded, throughout>>
    BY <1>6 DEF EntryCreated
  <2>2. ListingOK'  BY <1>0, <2>1, PageAssumption DEF ListingOK, Numbers
  <2> QED  BY <2>1, <2>2, NothingGiven DEF IterInv
<1>7. CASE PermissionChanges
  <2>1. /\ \E e \in 1..listing :
             visible' = IF e \in visible THEN visible \ {e} ELSE visible \cup {e}
        /\ throughout' = throughout \cap visible'
        /\ UNCHANGED <<iterPc, cursor, page, yielded, listing>>
    BY <1>7 DEF PermissionChanges
  <2>2. ListingOK'  BY <1>0, <2>1 DEF ListingOK
  <2> QED  BY <2>1, <2>2, NothingGiven DEF IterInv
<1>8. CASE UNCHANGED iterVars
  <2>1. UNCHANGED <<iterPc, cursor, page, yielded, listing, visible, throughout>>
    BY <1>8 DEF iterVars
  <2>2. ListingOK'  BY <1>0, <2>1 DEF ListingOK
  <2> QED  BY <2>1, <2>2, NothingGiven DEF IterInv
<1> QED
  BY <1>1, <1>2, <1>3, <1>4, <1>5, <1>6, <1>7, <1>8 DEF IterNext

\* Whatever is created, hidden and shown meanwhile, an iterator gives nothing
\* twice and returns only when it has given all that was there and visible
\* throughout, over empty pages too: for any page limit and any listing
\* (client.py 205-213, 220-237, 507-514).
THEOREM ListedAlwaysOnce == IterSpec => []ListedOnce
<1>1. IterInv => ListedOnce
  BY DEF IterInv, GivenInOrder, AllGiven, Given, ListedOnce
<1> QED  BY <1>1, IterStarts, IterKeeps, PTL DEF IterSpec

-----------------------------------------------------------------------------
(***************************************************************************)
(* TaskWorkflow                                                            *)
(***************************************************************************)

Contents   == (Values \X Seq(AgentResults)) \cup (FlowKinds \X (1..3))
UploadRows == [key : Contents, content : Contents]
TaskBodies == [input : Nat, contract : Nat]
TaskRows   == [key : OperationIds \X (0..3), body : TaskBodies,
               state : {"running", "completed", "failed"}, result : AgentResults \cup {"none"}]

\* What the cell remembers, it remembers once, and an upload under its content.
KeysOnce(table) == \A i, j \in DOMAIN table : table[i].key = table[j].key => i = j
CellOK ==
  /\ uploads \in Seq(UploadRows) /\ KeysOnce(uploads)
  /\ \A i \in DOMAIN uploads : uploads[i].key = uploads[i].content
  /\ tasks \in Seq(TaskRows) /\ KeysOnce(tasks)
  /\ \A t \in DOMAIN tasks : tasks[t].state = "completed" => tasks[t].result \in AgentResults

StoredAt(r, content) == r \in DOMAIN uploads /\ uploads[r].content = content

\* The results rs of an operation are those of its tasks, each of which works on
\* the value and the results before its own.
Produced(op, value, rs) ==
  \A s \in DOMAIN rs :
    \E t \in DOMAIN tasks :
      /\ tasks[t].key = <<op, s>>
      /\ tasks[t].state = "completed" /\ tasks[t].result = rs[s]
      /\ StoredAt(tasks[t].body.input, <<value, SubSeq(rs, 1, s - 1)>>)

\* A task is a stage of a flow, as that flow's own results made it.
StageOf(row, f, st, rs) ==
  /\ row.key = <<f.operation, IF f.kind = "investigate" THEN st ELSE 0>>
  /\ Len(rs) = st - 1
  /\ StoredAt(row.body.input, <<f.value, rs>>)
  /\ StoredAt(row.body.contract, <<f.kind, st>>)
  /\ IF f.kind = "investigate" THEN Produced(f.operation, f.value, rs) ELSE st = 1

TasksOfFlows ==
  \A t \in DOMAIN tasks :
    \E q \in Workers, st \in 1..3, rs \in Seq(AgentResults) :
      flow[q].kind # "none" /\ StageOf(tasks[t], flow[q], st, rs)

FlowsOK ==
  /\ \A p \in Workers : flow[p] \in Flows \/ (flow[p].kind = "none" /\ flowPc[p] = "idle")
  /\ DOMAIN flow = Workers
  /\ flowPc \in [Workers -> {"idle", "upload", "create", "wait", "done"}]
  /\ stage \in [Workers -> 1..3] /\ refs \in [Workers -> Seq(Nat)]
  /\ results \in [Workers -> Seq(AgentResults)]
  /\ outcome \in [Workers -> {"none", "unsupported", "lost", "reused", "created",
                               "ended failed", "finished"}]

\* The references of the stage a program is in are those of its input and contract.
RefsOf(p) ==
  /\ flowPc[p] \in {"create", "wait"} => Len(refs[p]) = 2
  /\ flowPc[p] = "upload" => Len(refs[p]) \in {0, 1}
  /\ Len(refs[p]) \in {1, 2} => StoredAt(refs[p][1], Input(p))
  /\ Len(refs[p]) = 2 => StoredAt(refs[p][2], Contract(p))

\* A program at work: its results are those of the stages before, and the task
\* it waits for is the one it asked for.
AtWork(p) ==
  /\ stage[p] <= Stages(p) /\ Len(results[p]) = stage[p] - 1
  /\ RefsOf(p)
  /\ flowPc[p] = "wait" =>
       \E t \in DOMAIN tasks : tasks[t].key = TaskKey(p) /\ tasks[t].body = Body(p)

Program(p) ==
  /\ flowPc[p] = "idle" =>
       stage[p] = 1 /\ refs[p] = <<>> /\ results[p] = <<>> /\ flow[p].kind = "none"
  /\ flowPc[p] \in {"upload", "create", "wait"} => AtWork(p)
  /\ outcome[p] # "none" => flowPc[p] = "done"
  /\ outcome[p] = "finished" /\ flow[p].kind = "investigate" => Len(results[p]) = 3
  /\ flow[p].kind = "investigate" => Produced(flow[p].operation, flow[p].value, results[p])

WorkInv ==
  /\ CellOK /\ TasksOfFlows /\ FlowsOK /\ ResumesTasks
  /\ \A p \in Workers : Program(p)

LEMMA WorkStarts == WorkInit => WorkInv
<1> SUFFICES ASSUME WorkInit  PROVE WorkInv
  OBVIOUS
<1>1. CellOK  BY DEF WorkInit, CellOK, KeysOnce
<1>2. FlowsOK  BY DEF WorkInit, FlowsOK, NoFlow
<1>3. TasksOfFlows /\ ResumesTasks  BY DEF WorkInit, TasksOfFlows, ResumesTasks
<1>4. \A p \in Workers : Program(p)
  BY DEF WorkInit, Program, NoFlow
<1> QED  BY <1>1, <1>2, <1>3, <1>4 DEF WorkInv

\* A flow that has been started is one of Flows, and one that has not is not.
LEMMA FlowStarted ==
  ASSUME FlowsOK, NEW p \in Workers
  PROVE  /\ flow[p].kind # "none" <=> flow[p] \in Flows
         /\ flowPc[p] # "idle" => flow[p] \in Flows
<1>1. \A f \in Flows : f.kind # "none"
  BY DEF Flows, FlowKinds
<1> QED  BY <1>1 DEF FlowsOK

\* What the cell is sent fits what it holds.
LEMMA RequestsFit ==
  ASSUME FlowsOK, NEW p \in Workers, flow[p] \in Flows
  PROVE  /\ Input(p) \in Contents /\ Contract(p) \in Contents
         /\ TaskKey(p) \in OperationIds \X (0..3)
<1>1. /\ flow[p].kind \in FlowKinds /\ flow[p].operation \in OperationIds
      /\ flow[p].value \in Values /\ stage[p] \in 1..3 /\ results[p] \in Seq(AgentResults)
  BY DEF FlowsOK, Flows
<1>2. Input(p) \in Values \X Seq(AgentResults)  BY <1>1 DEF Input
<1>3. Contract(p) \in FlowKinds \X (1..3)  BY <1>1 DEF Contract
<1>4. (IF flow[p].kind = "investigate" THEN stage[p] ELSE 0) \in 0..3  BY <1>1
<1>5. TaskKey(p) \in OperationIds \X (0..3)  BY <1>1, <1>4 DEF TaskKey
<1> QED  BY <1>2, <1>3, <1>5 DEF Contents

\* The row a table remembers under a key, when it holds every key once.
LEMMA RememberedRow ==
  ASSUME NEW RowSet, NEW table \in Seq(RowSet), KeysOnce(table), NEW key
  PROVE  \/ Remembered(table, key) = 0 /\ \A i \in DOMAIN table : table[i].key # key
         \/ Remembered(table, key) \in DOMAIN table /\ table[Remembered(table, key)].key = key
<1> DEFINE I == {i \in 1..Len(table) : table[i].key = key}
<1>1. Remembered(table, key) = IF I # {} THEN Min(I) ELSE 0
  BY DEF Remembered, SelectInSeq
<1>2. DOMAIN table = 1..Len(table) /\ Len(table) \in Nat
  OBVIOUS
<1>3. CASE I = {}  BY <1>1, <1>2, <1>3
<1>4. CASE I # {}
  <2>1. PICK i \in I : TRUE  BY <1>4
  <2>2. I = {i}  BY <1>2, <2>1 DEF KeysOnce
  <2>3. i \in Nat  BY <1>2, <2>1
  <2>4. \E x \in I : \A y \in I : x <= y  BY <2>2, <2>3
  <2>5. Min(I) \in I  BY <2>4 DEF Min
  <2> QED  BY <1>1, <1>2, <1>4, <2>5
<1> QED  BY <1>3, <1>4

\* The cell forgets nothing: uploads stay, tasks keep what they are about, and a
\* task that has completed stays as it is.
Grown ==
  /\ DOMAIN uploads \subseteq DOMAIN uploads' /\ DOMAIN tasks \subseteq DOMAIN tasks'
  /\ \A i \in DOMAIN uploads : uploads'[i] = uploads[i]
  /\ \A t \in DOMAIN tasks :
       /\ tasks'[t].key = tasks[t].key /\ tasks'[t].body = tasks[t].body
       /\ tasks[t].state = "completed" => tasks'[t] = tasks[t]

LEMMA StoredStays ==
  ASSUME Grown, NEW r, NEW content, StoredAt(r, content)
  PROVE  StoredAt(r, content)'
  BY DEF Grown, StoredAt

LEMMA ProducedStays ==
  ASSUME Grown, NEW op, NEW value, NEW rs, Produced(op, value, rs)
  PROVE  Produced(op, value, rs)'
<1> SUFFICES ASSUME NEW s \in DOMAIN rs
             PROVE  \E t \in DOMAIN tasks' :
                      /\ tasks'[t].key = <<op, s>>
                      /\ tasks'[t].state = "completed" /\ tasks'[t].result = rs[s]
                      /\ StoredAt(tasks[t].body.input, <<value, SubSeq(rs, 1, s - 1)>>)'
  BY DEF Produced
<1>1. PICK t \in DOMAIN tasks :
        /\ tasks[t].key = <<op, s>>
        /\ tasks[t].state = "completed" /\ tasks[t].result = rs[s]
        /\ StoredAt(tasks[t].body.input, <<value, SubSeq(rs, 1, s - 1)>>)
  BY DEF Produced
<1>2. tasks'[t] = tasks[t] /\ t \in DOMAIN tasks'  BY <1>1 DEF Grown
<1>3. PICK r, content : r = tasks[t].body.input /\ content = <<value, SubSeq(rs, 1, s - 1)>>
  OBVIOUS
<1>4. StoredAt(r, content)'  BY <1>1, <1>3, StoredStays
<1>5. tasks'[t].body.input = r  BY <1>2, <1>3
<1> QED  BY <1>1, <1>2, <1>3, <1>4, <1>5 DEF StoredAt

LEMMA StageStays ==
  ASSUME Grown, NEW row, NEW grown, grown.key = row.key, grown.body = row.body,
         NEW f, NEW st, NEW rs, StageOf(row, f, st, rs)
  PROVE  StageOf(grown, f, st, rs)'
<1>1. PICK in, co, b : in = <<f.value, rs>> /\ co = <<f.kind, st>> /\ b = row.body
  OBVIOUS
<1>2. StoredAt(b.input, in)' /\ StoredAt(b.contract, co)'
  BY <1>1, StoredStays DEF StageOf
<1>3. f.kind = "investigate" => Produced(f.operation, f.value, rs)'
  BY ProducedStays DEF StageOf
<1> QED  BY <1>1, <1>2, <1>3 DEF StageOf

\* A program stays as it is while others work.
LEMMA ProgramStays ==
  ASSUME WorkInv, Grown, NEW p \in Workers,
         flow'[p] = flow[p], flowPc'[p] = flowPc[p], stage'[p] = stage[p],
         refs'[p] = refs[p], results'[p] = results[p], outcome'[p] = outcome[p]
  PROVE  Program(p)'
<1>1. /\ Input(p)' = Input(p) /\ Contract(p)' = Contract(p) /\ TaskKey(p)' = TaskKey(p)
      /\ Body(p)' = Body(p) /\ Stages(p)' = Stages(p)
  BY DEF Input, Contract, TaskKey, Body, Stages
<1>2. Program(p)  BY DEF WorkInv
<1>3. RefsOf(p) => RefsOf(p)'
  <2>1. PICK in, co, r1, r2 :
          in = Input(p) /\ co = Contract(p) /\ r1 = refs[p][1] /\ r2 = refs[p][2]
    OBVIOUS
  <2>2. StoredAt(r1, in) => StoredAt(r1, in)'  BY StoredStays
  <2>3. StoredAt(r2, co) => StoredAt(r2, co)'  BY StoredStays
  <2> QED  BY <1>1, <2>1, <2>2, <2>3 DEF RefsOf, StoredAt
<1>4. (\E t \in DOMAIN tasks : tasks[t].key = TaskKey(p) /\ tasks[t].body = Body(p))
        => (\E t \in DOMAIN tasks' : tasks'[t].key = TaskKey(p) /\ tasks'[t].body = Body(p))
  BY DEF Grown
<1>5. AtWork(p) => AtWork(p)'  BY <1>1, <1>3, <1>4 DEF AtWork
<1>6. Produced(flow[p].operation, flow[p].value, results[p])
        => Produced(flow[p].operation, flow[p].value, results[p])'
  <2>1. PICK o, v, rs : o = flow[p].operation /\ v = flow[p].value /\ rs = results[p]
    OBVIOUS
  <2>2. Produced(o, v, rs) => Produced(o, v, rs)'  BY ProducedStays
  <2> QED  BY <2>1, <2>2 DEF Produced
<1> QED  BY <1>2, <1>5, <1>6 DEF Program

\* A flow that is refused its key shares the operation with another one.
Clash(p, q) == flow[q].kind # "none" /\ flow[q].operation = flow[p].operation /\ flow[q] # flow[p]

\* A step of one program: what is left to show is about that program, and the
\* task it may have added.
LEMMA OneProgram ==
  ASSUME WorkInv, CellOK', FlowsOK', Grown, NEW p \in Workers,
         \A q \in Workers \ {p} :
           /\ flow'[q] = flow[q] /\ flowPc'[q] = flowPc[q] /\ stage'[q] = stage[q]
           /\ refs'[q] = refs[q] /\ results'[q] = results[q] /\ outcome'[q] = outcome[q],
         flow'[p] = flow[p] \/ flowPc[p] = "idle",
         Program(p)',
         outcome'[p] = "reused" => flow'[p] = flow[p] /\ \E q \in Workers : Clash(p, q),
         \A t \in DOMAIN tasks' \ DOMAIN tasks :
           \E q \in Workers, st \in 1..3, rs \in Seq(AgentResults) :
             flow'[q].kind # "none" /\ StageOf(tasks[t], flow[q], st, rs)'
  PROVE  WorkInv'
<1>1. \A q \in Workers : flow[q].kind # "none" => flow'[q] = flow[q]
  BY DEF WorkInv, Program
<1>2. \A q \in Workers : Program(q)'
  BY ProgramStays
<1>3. ASSUME NEW t \in DOMAIN tasks'
      PROVE  \E q \in Workers, st \in 1..3, rs \in Seq(AgentResults) :
               flow'[q].kind # "none" /\ StageOf(tasks[t], flow[q], st, rs)'
  <2>1. CASE t \in DOMAIN tasks
    <3>1. PICK q \in Workers, st \in 1..3, rs \in Seq(AgentResults) :
            flow[q].kind # "none" /\ StageOf(tasks[t], flow[q], st, rs)
      BY <2>1 DEF WorkInv, TasksOfFlows
    <3>2. PICK row, grown, f : row = tasks[t] /\ grown = tasks'[t] /\ f = flow[q]
      OBVIOUS
    <3>3. grown.key = row.key /\ grown.body = row.body  BY <2>1, <3>2 DEF Grown
    <3>4. StageOf(grown, f, st, rs)'  BY <3>1, <3>2, <3>3, StageStays
    <3>5. flow'[q] = f /\ f.kind # "none"  BY <1>1, <3>1, <3>2
    <3>6. StageOf(tasks[t], flow[q], st, rs)'
      BY <3>2, <3>4, <3>5 DEF StageOf
    <3> QED  BY <3>5, <3>6
  <2> QED  BY <1>3, <2>1
<1>4. TasksOfFlows'
  BY <1>3 DEF TasksOfFlows
<1>5. ASSUME NEW q \in Workers, outcome'[q] = "reused"
      PROVE  \E r \in Workers : /\ flow'[r].kind # "none"
                                /\ flow'[r].operation = flow'[q].operation /\ flow'[r] # flow'[q]
  <2>1. flow'[q] = flow[q]  BY <1>5
  <2>2. PICK r \in Workers : Clash(q, r)
    <3>1. CASE q = p  BY <1>5, <3>1
    <3>2. CASE q # p  BY <1>5, <3>2 DEF WorkInv, ResumesTasks, Clash
    <3> QED  BY <3>1, <3>2
  <2>3. flow'[r] = flow[r]  BY <1>1, <2>2 DEF Clash
  <2> QED  BY <2>1, <2>2, <2>3 DEF Clash
<1>6. ResumesTasks'
  BY <1>5 DEF ResumesTasks
<1> QED  BY <1>2, <1>4, <1>6 DEF WorkInv

LEMMA NothingForgotten ==
  ASSUME UNCHANGED cellVars
  PROVE  Grown /\ (CellOK => CellOK')
  BY DEF cellVars, Grown, CellOK, KeysOnce

\* What a program's results were produced by stays.
LEMMA StillProduced ==
  ASSUME WorkInv, Grown, NEW p \in Workers, flow'[p] = flow[p], results'[p] = results[p]
  PROVE  flow'[p].kind = "investigate" =>
           Produced(flow[p].operation, flow[p].value, results[p])'
<1>1. PICK o, v, rs : o = flow[p].operation /\ v = flow[p].value /\ rs = results[p]
  OBVIOUS
<1>2. flow[p].kind = "investigate" => Produced(o, v, rs)'
  <2>1. flow[p].kind = "investigate" => Produced(o, v, rs)  BY <1>1 DEF WorkInv, Program
  <2> QED  BY <2>1, ProducedStays
<1>3. flow'[p].operation = o /\ flow'[p].value = v /\ results'[p] = rs
      /\ flow'[p].kind = flow[p].kind
  BY <1>1
<1> QED  BY <1>2, <1>3 DEF Produced

\* A program that ends without a result keeps those it has.
LEMMA ProgramEnds ==
  ASSUME WorkInv, Grown, NEW p \in Workers, flow'[p] = flow[p], results'[p] = results[p],
         flowPc'[p] = "done", outcome'[p] # "finished"
  PROVE  Program(p)'
  BY StillProduced DEF Program

\* Where a program goes, and how it ends.
FlowPlaces == {"idle", "upload", "create", "wait", "done"}
FlowEndings == {"none", "unsupported", "lost", "reused", "created", "ended failed", "finished"}
LEMMA FlowMoves ==
  ASSUME FlowsOK, NEW p \in Workers, NEW where \in FlowPlaces, NEW how \in FlowEndings,
         FlowAt(p, where) \/ FlowEnds(p, how)
  PROVE  /\ flowPc' \in [Workers -> FlowPlaces] /\ outcome' \in [Workers -> FlowEndings]
         /\ \A q \in Workers \ {p} : flowPc'[q] = flowPc[q] /\ outcome'[q] = outcome[q]
         /\ FlowAt(p, where) => flowPc'[p] = where /\ outcome'[p] = outcome[p]
         /\ FlowEnds(p, how) => flowPc'[p] = "done" /\ outcome'[p] = how
<1>1. flowPc \in [Workers -> FlowPlaces] /\ outcome \in [Workers -> FlowEndings]
  BY DEF FlowsOK, FlowPlaces, FlowEndings
<1>2. "done" \in FlowPlaces  BY DEF FlowPlaces
<1> QED  BY <1>1, <1>2 DEF FlowAt, FlowEnds

LEMMA StartKeeps ==
  ASSUME WorkInv, NEW p \in Workers, StartProgram(p)
  PROVE  WorkInv'
<1>1. PICK f \in Flows :
        /\ flow' = [flow EXCEPT ![p] = f]
        /\ FlowAt(p, "upload") \/ FlowEnds(p, "unsupported")
  BY DEF StartProgram
<1>2. flowPc[p] = "idle" /\ UNCHANGED <<stage, refs, results, uploads, tasks>>
  BY DEF StartProgram, cellVars
<1>3. FlowsOK /\ Program(p) /\ CellOK  BY DEF WorkInv
<1>4. "upload" \in FlowPlaces /\ "unsupported" \in FlowEndings /\ "none" \in FlowEndings
  BY DEF FlowPlaces, FlowEndings
<1>5. /\ flowPc' \in [Workers -> FlowPlaces] /\ outcome' \in [Workers -> FlowEndings]
      /\ \A q \in Workers \ {p} : flowPc'[q] = flowPc[q] /\ outcome'[q] = outcome[q]
      /\ \/ flowPc'[p] = "upload" /\ outcome'[p] = outcome[p]
         \/ flowPc'[p] = "done" /\ outcome'[p] = "unsupported"
  BY <1>1, <1>3, <1>4, FlowMoves
<1>6. flow'[p] = f /\ \A q \in Workers \ {p} : flow'[q] = flow[q]
  BY <1>1, <1>3 DEF FlowsOK
<1>7. FlowsOK'
  <2>1. DOMAIN flow' = Workers  BY <1>1, <1>3 DEF FlowsOK
  <2>2. \A q \in Workers : flow'[q] \in Flows \/ (flow'[q].kind = "none" /\ flowPc'[q] = "idle")
    BY <1>3, <1>5, <1>6 DEF FlowsOK
  <2> QED  BY <1>2, <1>3, <1>5, <2>1, <2>2 DEF FlowsOK, FlowPlaces, FlowEndings
<1>8. Program(p)'
  <2>1. stage[p] = 1 /\ refs[p] = <<>> /\ results[p] = <<>>
    BY <1>2, <1>3 DEF Program
  <2>2. outcome[p] = "none"  BY <1>2, <1>3 DEF Program
  <2>3. AtWork(p)' \/ flowPc'[p] = "done"
    <3>1. Stages(p)' \in {1, 3}  BY DEF Stages
    <3>2. RefsOf(p)' \/ flowPc'[p] = "done"
      BY <1>2, <1>5, <2>1 DEF RefsOf
    <3> QED  BY <1>2, <1>5, <2>1, <3>1, <3>2 DEF AtWork
  <2>4. Produced(flow[p].operation, flow[p].value, results[p])'
    BY <1>2, <2>1 DEF Produced
  <2> QED  BY <1>5, <2>2, <2>3, <2>4 DEF Program
<1>9. outcome'[p] # "reused"
  BY <1>2, <1>3, <1>5 DEF Program
<1>10. Grown /\ CellOK'  BY <1>2, <1>3, NothingForgotten DEF cellVars
<1> QED  BY <1>2, <1>5, <1>6, <1>7, <1>8, <1>9, <1>10, OneProgram

LEMMA GiveUpKeeps ==
  ASSUME WorkInv, NEW p \in Workers, GiveUp(p)
  PROVE  WorkInv'
<1>1. /\ FlowEnds(p, "lost") /\ flowPc[p] # "idle"
      /\ UNCHANGED <<flow, stage, refs, results, uploads, tasks>>
  BY DEF GiveUp, cellVars
<1>2. FlowsOK /\ CellOK  BY DEF WorkInv
<1>3. "lost" \in FlowEndings /\ "idle" \in FlowPlaces  BY DEF FlowEndings, FlowPlaces
<1>4. /\ flowPc' \in [Workers -> FlowPlaces] /\ outcome' \in [Workers -> FlowEndings]
      /\ \A q \in Workers \ {p} : flowPc'[q] = flowPc[q] /\ outcome'[q] = outcome[q]
      /\ flowPc'[p] = "done" /\ outcome'[p] = "lost"
  BY <1>1, <1>2, <1>3, FlowMoves
<1>5. FlowsOK'
  BY <1>1, <1>2, <1>4 DEF FlowsOK, FlowPlaces, FlowEndings
<1>6. Grown /\ CellOK'  BY <1>1, <1>2, NothingForgotten DEF cellVars
<1>7. Program(p)'  BY <1>1, <1>4, <1>6, ProgramEnds
<1> QED  BY <1>1, <1>4, <1>5, <1>6, <1>7, OneProgram

\* What one more row makes of a table.
LEMMA OneMoreRow ==
  ASSUME NEW RowSet, NEW table \in Seq(RowSet), NEW row \in RowSet,
         NEW longer, longer = Append(table, row)
  PROVE  /\ longer \in Seq(RowSet) /\ Len(longer) = Len(table) + 1
         /\ DOMAIN table = 1..Len(table) /\ Len(table) \in Nat
         /\ DOMAIN longer = 1..(Len(table) + 1)
         /\ longer[Len(table) + 1] = row
         /\ \A i \in DOMAIN table : longer[i] = table[i]
  OBVIOUS

\* upload_input leaves the cell with the content under the reference it answers.
LEMMA UploadAnswered ==
  ASSUME CellOK, UNCHANGED tasks, NEW content \in Contents,
         NEW known, known = Remembered(uploads, content),
         \/ known # 0 /\ UNCHANGED uploads
         \/ known = 0 /\ uploads' = Append(uploads, [key |-> content, content |-> content]),
         NEW r, r = IF known # 0 THEN known ELSE Len(uploads')
  PROVE  CellOK' /\ Grown /\ r \in Nat /\ StoredAt(r, content)'
<1>0. uploads \in Seq(UploadRows) /\ KeysOnce(uploads) /\ DOMAIN uploads = 1..Len(uploads)
      /\ Len(uploads) \in Nat
  BY DEF CellOK
<1>1. \/ known = 0 /\ \A i \in DOMAIN uploads : uploads[i].key # content
      \/ known \in DOMAIN uploads /\ uploads[known].key = content
  BY <1>0, RememberedRow
<1>2. CASE known # 0
  <2>1. UNCHANGED cellVars  BY <1>2 DEF cellVars
  <2>2. CellOK' /\ Grown  BY <2>1, NothingForgotten
  <2>3. r = known /\ known \in DOMAIN uploads /\ uploads[known].key = content
    BY <1>1, <1>2
  <2>4. uploads[known].content = content  BY <2>3 DEF CellOK
  <2>5. uploads' = uploads  BY <1>2
  <2>6. StoredAt(r, content)'  BY <2>3, <2>4, <2>5 DEF StoredAt
  <2> QED  BY <1>0, <2>2, <2>3, <2>6
<1>3. CASE known = 0
  <2>1. PICK row : row = [key |-> content, content |-> content]  OBVIOUS
  <2>2. row \in UploadRows /\ row.key = content /\ row.content = content
    BY <2>1 DEF UploadRows
  <2>3. uploads' = Append(uploads, row) /\ tasks' = tasks  BY <1>3, <2>1
  <2>4. /\ uploads' \in Seq(UploadRows) /\ Len(uploads') = Len(uploads) + 1
        /\ DOMAIN uploads' = 1..(Len(uploads) + 1) /\ uploads'[Len(uploads) + 1] = row
        /\ \A i \in 1..Len(uploads) : uploads'[i] = uploads[i]
    <3>1. PICK longer : longer = uploads'  OBVIOUS
    <3>2. longer = Append(uploads, row)  BY <2>3, <3>1
    <3>3. /\ longer \in Seq(UploadRows) /\ Len(longer) = Len(uploads) + 1
          /\ DOMAIN longer = 1..(Len(uploads) + 1) /\ longer[Len(uploads) + 1] = row
          /\ \A i \in DOMAIN uploads : longer[i] = uploads[i]
      BY <1>0, <2>2, <3>2, OneMoreRow
    <3> QED  BY <1>0, <3>1, <3>3
  <2>5. KeysOnce(uploads)'
    BY <1>0, <1>1, <1>3, <2>2, <2>4 DEF KeysOnce
  <2>6. \A i \in DOMAIN uploads' : uploads'[i].key = uploads'[i].content
    BY <1>0, <2>2, <2>4 DEF CellOK
  <2>7. CellOK'
    BY <2>3, <2>4, <2>5, <2>6 DEF CellOK, KeysOnce
  <2>8. Grown
    <3>1. DOMAIN uploads \subseteq DOMAIN uploads'  BY <1>0, <2>4
    <3>2. \A i \in DOMAIN uploads : uploads'[i] = uploads[i]  BY <1>0, <2>4
    <3> QED  BY <2>3, <3>1, <3>2 DEF Grown
  <2>9. r = Len(uploads) + 1  BY <1>3, <2>4
  <2>10. r \in Nat /\ StoredAt(r, content)'
    BY <1>0, <2>2, <2>4, <2>9 DEF StoredAt
  <2> QED  BY <2>7, <2>8, <2>10
<1> QED  BY <1>2, <1>3

LEMMA UploadKeeps ==
  ASSUME WorkInv, NEW p \in Workers, Upload(p)
  PROVE  WorkInv'
<1>0. PICK content, known, r :
        /\ content = (IF refs[p] = <<>> THEN Input(p) ELSE Contract(p))
        /\ known = Remembered(uploads, content)
        /\ r = IF known # 0 THEN known ELSE Len(uploads')
  OBVIOUS
<1>1. /\ flowPc[p] = "upload" /\ UNCHANGED <<flow, stage, results, tasks>>
      /\ \/ known # 0 /\ UNCHANGED uploads
         \/ known = 0 /\ uploads' = Append(uploads, [key |-> content, content |-> content])
      /\ \/ /\ refs' = [refs EXCEPT ![p] = Append(refs[p], r)]
            /\ FlowAt(p, IF refs[p] = <<>> THEN "upload" ELSE "create")
         \/ FlowEnds(p, "lost") /\ UNCHANGED refs
  BY <1>0 DEF Upload, UploadKey
<1>2. FlowsOK /\ CellOK /\ Program(p) /\ AtWork(p) /\ RefsOf(p) /\ flow[p] \in Flows
  BY <1>1, FlowStarted DEF WorkInv, Program, AtWork
<1>3. content \in Contents  BY <1>0, <1>2, RequestsFit
<1>4. CellOK' /\ Grown /\ r \in Nat /\ StoredAt(r, content)'
  BY <1>0, <1>1, <1>2, <1>3, UploadAnswered
<1>5. "upload" \in FlowPlaces /\ "create" \in FlowPlaces /\ "lost" \in FlowEndings
  BY DEF FlowPlaces, FlowEndings
<1>6. outcome[p] = "none"  BY <1>1, <1>2 DEF Program
<1>7. CASE FlowEnds(p, "lost") /\ UNCHANGED refs
  <2>1. /\ flowPc' \in [Workers -> FlowPlaces] /\ outcome' \in [Workers -> FlowEndings]
        /\ \A q \in Workers \ {p} : flowPc'[q] = flowPc[q] /\ outcome'[q] = outcome[q]
        /\ flowPc'[p] = "done" /\ outcome'[p] = "lost"
    BY <1>2, <1>5, <1>7, FlowMoves
  <2>2. FlowsOK'
    BY <1>1, <1>2, <1>7, <2>1 DEF FlowsOK, FlowPlaces, FlowEndings
  <2>3. Program(p)'
    BY <1>1, <1>4, <2>1, ProgramEnds
  <2> QED  BY <1>1, <1>4, <1>7, <2>1, <2>2, <2>3, OneProgram
<1>8. CASE /\ refs' = [refs EXCEPT ![p] = Append(refs[p], r)]
           /\ FlowAt(p, IF refs[p] = <<>> THEN "upload" ELSE "create")
  <2>1. /\ flowPc' \in [Workers -> FlowPlaces] /\ outcome' \in [Workers -> FlowEndings]
        /\ \A q \in Workers \ {p} : flowPc'[q] = flowPc[q] /\ outcome'[q] = outcome[q]
        /\ flowPc'[p] = (IF refs[p] = <<>> THEN "upload" ELSE "create")
        /\ outcome'[p] = "none"
    BY <1>2, <1>5, <1>6, <1>8, FlowMoves
  <2>2. /\ refs' \in [Workers -> Seq(Nat)] /\ refs'[p] = Append(refs[p], r)
        /\ \A q \in Workers \ {p} : refs'[q] = refs[q]
        /\ refs[p] \in Seq(Nat)
    <3>1. refs \in [Workers -> Seq(Nat)] /\ refs[p] \in Seq(Nat)  BY <1>2 DEF FlowsOK
    <3>2. PICK more : more = Append(refs[p], r)  OBVIOUS
    <3>3. more \in Seq(Nat)  BY <1>4, <3>1, <3>2
    <3>4. refs' = [refs EXCEPT ![p] = more]  BY <1>8, <3>2
    <3> QED  BY <3>1, <3>2, <3>3, <3>4
  <2>3. FlowsOK'
    BY <1>1, <1>2, <2>1, <2>2 DEF FlowsOK, FlowPlaces, FlowEndings
  <2>4. Input(p)' = Input(p) /\ Contract(p)' = Contract(p) /\ Stages(p)' = Stages(p)
    BY <1>1 DEF Input, Contract, Stages
  <2>5. RefsOf(p)'
    <3>1. CASE refs[p] = <<>>
      <4>1. Len(refs'[p]) = 1 /\ refs'[p][1] = r  BY <1>4, <2>2, <3>1
      <4>2. content = Input(p)  BY <1>0, <3>1
      <4>3. StoredAt(refs[p][1], Input(p))'
        BY <1>4, <2>4, <4>1, <4>2 DEF StoredAt
      <4> QED  BY <2>1, <3>1, <4>1, <4>3 DEF RefsOf
    <3>2. CASE refs[p] # <<>>
      <4>1. Len(refs[p]) = 1  BY <1>1, <1>2, <2>2, <3>2 DEF RefsOf
      <4>2. Len(refs'[p]) = 2 /\ refs'[p][1] = refs[p][1] /\ refs'[p][2] = r
        <5>1. PICK few, more, N : few = refs[p] /\ more = refs'[p] /\ N = Nat  OBVIOUS
        <5>2. few \in Seq(N) /\ r \in N /\ more = Append(few, r) /\ Len(few) = 1
          BY <1>4, <2>2, <4>1, <5>1
        <5>3. /\ Len(more) = Len(few) + 1 /\ DOMAIN few = 1..Len(few)
              /\ more[Len(few) + 1] = r /\ \A i \in DOMAIN few : more[i] = few[i]
          BY <5>2, OneMoreRow
        <5>4. Len(few) + 1 = 2 /\ 1 \in DOMAIN few  BY <5>2, <5>3
        <5>5. Len(more) = 2 /\ more[1] = few[1] /\ more[2] = r  BY <5>3, <5>4
        <5> QED  BY <5>1, <5>5
      <4>3. content = Contract(p)  BY <1>0, <3>2
      <4>4. StoredAt(refs[p][2], Contract(p))'
        BY <1>4, <2>4, <4>2, <4>3 DEF StoredAt
      <4>5. PICK r1, in : r1 = refs[p][1] /\ in = Input(p)  OBVIOUS
      <4>6. StoredAt(r1, in)'  BY <1>2, <1>4, <4>1, <4>5, StoredStays DEF RefsOf
      <4>7. StoredAt(refs[p][1], Input(p))'
        BY <2>4, <4>2, <4>5, <4>6 DEF StoredAt
      <4> QED  BY <2>1, <3>2, <4>2, <4>4, <4>7 DEF RefsOf
    <3> QED  BY <3>1, <3>2
  <2>6. AtWork(p)'
    BY <1>1, <1>2, <2>1, <2>4, <2>5 DEF AtWork
  <2>7. Program(p)'
    BY <1>1, <1>2, <1>4, <2>1, <2>6, StillProduced DEF Program
  <2> QED  BY <1>1, <1>4, <2>1, <2>2, <2>3, <2>7, OneProgram
<1> QED  BY <1>1, <1>7, <1>8

\* The results of one operation, as far as its tasks go, are the same for all.
LEMMA ProducedSame ==
  ASSUME CellOK, NEW op, NEW v, NEW w,
         NEW rs \in Seq(AgentResults), NEW qs \in Seq(AgentResults), Len(rs) = Len(qs),
         Produced(op, v, rs), Produced(op, w, qs)
  PROVE  rs = qs
<1>1. DOMAIN rs = 1..Len(rs) /\ DOMAIN qs = 1..Len(qs) /\ Len(rs) \in Nat
  OBVIOUS
<1>2. ASSUME NEW s \in DOMAIN rs  PROVE rs[s] = qs[s]
  <2>1. PICK t \in DOMAIN tasks : tasks[t].key = <<op, s>> /\ tasks[t].result = rs[s]
    BY DEF Produced
  <2>2. s \in DOMAIN qs  BY <1>1
  <2>3. PICK u \in DOMAIN tasks : tasks[u].key = <<op, s>> /\ tasks[u].result = qs[s]
    BY <2>2 DEF Produced
  <2>4. t = u  BY <2>1, <2>3 DEF CellOK, KeysOnce
  <2> QED  BY <2>1, <2>3, <2>4
<1>3. DOMAIN rs = DOMAIN qs  BY <1>1
<1>4. rs = [s \in DOMAIN rs |-> rs[s]] /\ qs = [s \in DOMAIN qs |-> qs[s]]
  OBVIOUS
<1> QED  BY <1>2, <1>3, <1>4

\* A content is stored once.
LEMMA StoredOnce ==
  ASSUME CellOK, NEW content, NEW r, NEW s, StoredAt(r, content), StoredAt(s, content)
  PROVE  r = s
  BY DEF CellOK, KeysOnce, StoredAt

\* A task that works on something else under the key of a program's stage was
\* made by another flow of its operation: the program's own would be the same.
LEMMA RefusedByAnother ==
  ASSUME WorkInv, NEW p \in Workers, flowPc[p] = "create",
         NEW t \in DOMAIN tasks, tasks[t].key = TaskKey(p), tasks[t].body # Body(p)
  PROVE  \E q \in Workers : Clash(p, q)
<1>0. FlowsOK /\ CellOK /\ Program(p) /\ AtWork(p) /\ RefsOf(p) /\ Len(refs[p]) = 2
  BY DEF WorkInv, Program, AtWork, RefsOf
<1>1. PICK q \in Workers, st \in 1..3, rs \in Seq(AgentResults) :
        flow[q].kind # "none" /\ StageOf(tasks[t], flow[q], st, rs)
  BY DEF WorkInv, TasksOfFlows
<1>2. /\ tasks[t].key = <<flow[q].operation, IF flow[q].kind = "investigate" THEN st ELSE 0>>
      /\ Len(rs) = st - 1
      /\ StoredAt(tasks[t].body.input, <<flow[q].value, rs>>)
      /\ StoredAt(tasks[t].body.contract, <<flow[q].kind, st>>)
      /\ IF flow[q].kind = "investigate" THEN Produced(flow[q].operation, flow[q].value, rs)
         ELSE st = 1
  BY <1>1 DEF StageOf
<1>3. /\ flow[q].operation = flow[p].operation
      /\ (IF flow[q].kind = "investigate" THEN st ELSE 0)
           = (IF flow[p].kind = "investigate" THEN stage[p] ELSE 0)
  BY <1>2 DEF TaskKey
<1>4. SUFFICES ASSUME flow[q] = flow[p]  PROVE FALSE
  BY <1>1, <1>3 DEF Clash
<1>5. /\ stage[p] \in 1..3 /\ Len(results[p]) = stage[p] - 1 /\ results[p] \in Seq(AgentResults)
      /\ stage[p] <= Stages(p)
  BY <1>0 DEF AtWork, FlowsOK
<1>6. st = stage[p]
  <2>1. CASE flow[p].kind = "investigate"  BY <1>3, <1>4, <2>1
  <2>2. CASE flow[p].kind # "investigate"
    BY <1>2, <1>4, <1>5, <2>2 DEF Stages
  <2> QED  BY <2>1, <2>2
<1>7. rs = results[p]
  <2>1. CASE flow[p].kind = "investigate"
    <3>1. Produced(flow[p].operation, flow[p].value, results[p])
      BY <1>0, <2>1 DEF Program
    <3>2. Produced(flow[p].operation, flow[p].value, rs)  BY <1>2, <1>4, <2>1
    <3>3. Len(rs) = Len(results[p])  BY <1>2, <1>5, <1>6
    <3> QED  BY <1>0, <1>5, <3>1, <3>2, <3>3, ProducedSame
  <2>2. CASE flow[p].kind # "investigate"
    <3>1. Len(rs) = 0 /\ Len(results[p]) = 0  BY <1>2, <1>4, <1>5, <1>6, <2>2
    <3>2. rs = <<>> /\ results[p] = <<>>  BY <1>5, <3>1
    <3> QED  BY <3>2
  <2> QED  BY <2>1, <2>2
<1>8. Input(p) = <<flow[q].value, rs>> /\ Contract(p) = <<flow[q].kind, st>>
  BY <1>4, <1>6, <1>7 DEF Input, Contract
<1>9. tasks[t].body.input = refs[p][1]
  <2>1. PICK a, b, c : a = tasks[t].body.input /\ b = refs[p][1] /\ c = Input(p)  OBVIOUS
  <2>2. StoredAt(a, c) /\ StoredAt(b, c)  BY <1>0, <1>2, <1>8, <2>1 DEF RefsOf
  <2> QED  BY <1>0, <2>1, <2>2, StoredOnce
<1>10. tasks[t].body.contract = refs[p][2]
  <2>1. PICK a, b, c : a = tasks[t].body.contract /\ b = refs[p][2] /\ c = Contract(p)  OBVIOUS
  <2>2. StoredAt(a, c) /\ StoredAt(b, c)  BY <1>0, <1>2, <1>8, <2>1 DEF RefsOf
  <2> QED  BY <1>0, <2>1, <2>2, StoredOnce
<1>11. tasks[t].body \in TaskBodies
  <2>1. tasks[t] \in TaskRows  BY <1>0 DEF CellOK
  <2> QED  BY <2>1 DEF TaskRows
<1>12. tasks[t].body = [input |-> tasks[t].body.input, contract |-> tasks[t].body.contract]
  BY <1>11 DEF TaskBodies
<1>13. tasks[t].body = Body(p)  BY <1>9, <1>10, <1>12 DEF Body
<1> QED  BY <1>13

\* A task under a key that has none is one more row, and nothing else changes.
LEMMA TaskAdded ==
  ASSUME CellOK, UNCHANGED uploads, NEW row \in TaskRows, row.state = "running",
         \A t \in DOMAIN tasks : tasks[t].key # row.key, tasks' = Append(tasks, row)
  PROVE  /\ CellOK' /\ Grown
         /\ \E n \in DOMAIN tasks' : tasks'[n] = row /\ DOMAIN tasks' \ DOMAIN tasks = {n}
<1>0. tasks \in Seq(TaskRows) /\ KeysOnce(tasks)  BY DEF CellOK
<1>1. /\ tasks' \in Seq(TaskRows) /\ DOMAIN tasks = 1..Len(tasks) /\ Len(tasks) \in Nat
      /\ DOMAIN tasks' = 1..(Len(tasks) + 1) /\ tasks'[Len(tasks) + 1] = row
      /\ \A t \in DOMAIN tasks : tasks'[t] = tasks[t]
  <2>1. PICK longer : longer = tasks'  OBVIOUS
  <2>2. longer = Append(tasks, row)  BY <2>1
  <2>3. /\ longer \in Seq(TaskRows) /\ DOMAIN tasks = 1..Len(tasks) /\ Len(tasks) \in Nat
        /\ DOMAIN longer = 1..(Len(tasks) + 1) /\ longer[Len(tasks) + 1] = row
        /\ \A t \in DOMAIN tasks : longer[t] = tasks[t]
    BY <1>0, <2>2, OneMoreRow
  <2> QED  BY <2>1, <2>3
<1>2. Grown
  <2>1. DOMAIN tasks \subseteq DOMAIN tasks'  BY <1>1
  <2> QED  BY <1>1, <2>1 DEF Grown
<1>3. KeysOnce(tasks)'
  BY <1>0, <1>1 DEF KeysOnce
<1>4. \A t \in DOMAIN tasks' : tasks'[t].state = "completed" => tasks'[t].result \in AgentResults
  BY <1>1 DEF CellOK
<1>5. CellOK'
  BY <1>1, <1>3, <1>4 DEF CellOK, KeysOnce
<1>6. DOMAIN tasks' \ DOMAIN tasks = {Len(tasks) + 1}
  BY <1>1
<1>7. Len(tasks) + 1 \in DOMAIN tasks'  BY <1>1
<1> QED  BY <1>1, <1>2, <1>5, <1>6, <1>7

LEMMA CreateKeeps ==
  ASSUME WorkInv, NEW p \in Workers, CreateTask(p)
  PROVE  WorkInv'
<1>0. PICK known, key, body, row :
        /\ key = TaskKey(p) /\ body = Body(p) /\ known = Remembered(tasks, key)
        /\ row = [key |-> key, body |-> body, state |-> "running", result |-> "none"]
  OBVIOUS
<1>1. /\ flowPc[p] = "create" /\ UNCHANGED <<flow, stage, refs, results, uploads>>
      /\ IF known # 0 THEN UNCHANGED tasks ELSE tasks' = Append(tasks, row)
      /\ \/ known # 0 /\ tasks[known].body # body /\ FlowEnds(p, "reused")
         \/ /\ known # 0 => tasks[known].body = body
            /\ IF flow[p].kind = "create" THEN FlowEnds(p, "created") ELSE FlowAt(p, "wait")
         \/ FlowEnds(p, "lost")
  BY <1>0 DEF CreateTask
<1>2. /\ FlowsOK /\ CellOK /\ Program(p) /\ AtWork(p) /\ RefsOf(p) /\ flow[p] \in Flows
      /\ Len(refs[p]) = 2 /\ stage[p] \in 1..3 /\ refs[p] \in Seq(Nat)
      /\ results[p] \in Seq(AgentResults) /\ outcome[p] = "none"
  BY <1>1, FlowStarted DEF WorkInv, Program, AtWork, RefsOf, FlowsOK
<1>3. \/ known = 0 /\ \A t \in DOMAIN tasks : tasks[t].key # key
      \/ known \in DOMAIN tasks /\ tasks[known].key = key
  <2>1. tasks \in Seq(TaskRows) /\ KeysOnce(tasks)  BY <1>2 DEF CellOK
  <2> QED  BY <1>0, <2>1, RememberedRow
<1>4. row \in TaskRows /\ row.key = key /\ row.body = body /\ row.state = "running"
  <2>1. key \in OperationIds \X (0..3)  BY <1>0, <1>2, RequestsFit
  <2>2. refs[p][1] \in Nat /\ refs[p][2] \in Nat  BY <1>2
  <2>3. body \in TaskBodies  BY <1>0, <2>2 DEF Body, TaskBodies
  <2> QED  BY <1>0, <2>1, <2>3 DEF TaskRows
<1>5. /\ CellOK' /\ Grown
      /\ \A t \in DOMAIN tasks' \ DOMAIN tasks : tasks'[t] = row
      /\ known = 0 => \E t \in DOMAIN tasks' : tasks'[t] = row
  <2>1. CASE known # 0
    <3>1. UNCHANGED cellVars  BY <1>1, <2>1 DEF cellVars
    <3>2. DOMAIN tasks' = DOMAIN tasks  BY <1>1, <2>1
    <3> QED  BY <1>2, <2>1, <3>1, <3>2, NothingForgotten
  <2>2. CASE known = 0
    <3>1. tasks' = Append(tasks, row) /\ \A t \in DOMAIN tasks : tasks[t].key # row.key
      BY <1>1, <1>2, <1>3, <1>4, <2>2 DEF CellOK
    <3> QED  BY <1>1, <1>2, <1>4, <3>1, TaskAdded
  <2> QED  BY <2>1, <2>2
<1>6. {"reused", "created", "lost"} \subseteq FlowEndings /\ "wait" \in FlowPlaces
  BY DEF FlowEndings, FlowPlaces
<1>7. /\ flowPc' \in [Workers -> FlowPlaces] /\ outcome' \in [Workers -> FlowEndings]
      /\ \A q \in Workers \ {p} : flowPc'[q] = flowPc[q] /\ outcome'[q] = outcome[q]
      /\ \/ known # 0 /\ tasks[known].body # body /\ flowPc'[p] = "done" /\ outcome'[p] = "reused"
         \/ flowPc'[p] = "done" /\ outcome'[p] \in {"created", "lost"}
         \/ /\ known # 0 => tasks[known].body = body
            /\ flowPc'[p] = "wait" /\ outcome'[p] = "none"
  BY <1>1, <1>2, <1>6, FlowMoves
<1>8. FlowsOK'
  BY <1>1, <1>2, <1>7 DEF FlowsOK, FlowPlaces, FlowEndings
<1>9. Program(p)'
  <2>1. CASE flowPc'[p] = "done"
    <3>1. outcome'[p] # "finished"  BY <1>7, <2>1
    <3> QED  BY <1>1, <1>5, <2>1, <3>1, ProgramEnds
  <2>2. CASE flowPc'[p] # "done"
    <3>1. /\ flowPc'[p] = "wait" /\ outcome'[p] = "none"
          /\ known # 0 => tasks[known].body = body
      BY <1>7, <2>2
    <3>2. /\ Input(p)' = Input(p) /\ Contract(p)' = Contract(p) /\ Stages(p)' = Stages(p)
          /\ TaskKey(p)' = key /\ Body(p)' = body
      BY <1>0, <1>1 DEF Input, Contract, Stages, TaskKey, Body
    <3>3. \E t \in DOMAIN tasks' : tasks'[t].key = key /\ tasks'[t].body = body
      <4>1. CASE known = 0  BY <1>4, <1>5, <4>1
      <4>2. CASE known # 0
        <5>1. known \in DOMAIN tasks' /\ tasks'[known] = tasks[known]
          BY <1>1, <1>3, <4>2
        <5> QED  BY <1>3, <3>1, <4>2, <5>1
      <4> QED  BY <4>1, <4>2
    <3>4. RefsOf(p)'
      <4>1. StoredAt(refs[p][1], Input(p)) /\ StoredAt(refs[p][2], Contract(p))
        BY <1>2 DEF RefsOf
      <4>2. StoredAt(refs[p][1], Input(p))' /\ StoredAt(refs[p][2], Contract(p))'
        BY <1>1, <3>2, <4>1 DEF StoredAt
      <4> QED  BY <1>1, <1>2, <3>1, <4>2 DEF RefsOf
    <3>5. AtWork(p)'
      BY <1>1, <1>2, <3>1, <3>2, <3>3, <3>4 DEF AtWork
    <3> QED  BY <1>1, <1>5, <3>1, <3>5, StillProduced DEF Program
  <2> QED  BY <2>1, <2>2
<1>10. outcome'[p] = "reused" => \E q \in Workers : Clash(p, q)
  <2>1. outcome'[p] = "reused" => known # 0 /\ tasks[known].body # body
    BY <1>7
  <2> QED  BY <1>0, <1>1, <1>3, <2>1, RefusedByAnother
<1>11. ASSUME NEW t \in DOMAIN tasks' \ DOMAIN tasks
       PROVE  \E q \in Workers, st \in 1..3, rs \in Seq(AgentResults) :
                flow'[q].kind # "none" /\ StageOf(tasks[t], flow[q], st, rs)'
  <2>1. PICK f, st, rs : f = flow[p] /\ st = stage[p] /\ rs = results[p]  OBVIOUS
  <2>2. tasks'[t] = row /\ flow'[p] = f  BY <1>1, <1>5, <2>1
  <2>3. Len(rs) = st - 1 /\ st \in 1..3 /\ rs \in Seq(AgentResults) /\ f.kind # "none"
    BY <1>2, <2>1, FlowStarted DEF AtWork
  <2>4. /\ key = <<f.operation, IF f.kind = "investigate" THEN st ELSE 0>>
        /\ Input(p) = <<f.value, rs>> /\ Contract(p) = <<f.kind, st>>
        /\ body.input = refs[p][1] /\ body.contract = refs[p][2]
    BY <1>0, <2>1 DEF TaskKey, Input, Contract, Body
  <2>5. StoredAt(body.input, <<f.value, rs>>) /\ StoredAt(body.contract, <<f.kind, st>>)
    BY <1>2, <2>4 DEF RefsOf
  <2>6. IF f.kind = "investigate" THEN Produced(f.operation, f.value, rs) ELSE st = 1
    BY <1>2, <2>1 DEF Program, AtWork, Stages
  <2>7. StageOf(row, f, st, rs)
    BY <1>4, <2>3, <2>4, <2>5, <2>6 DEF StageOf
  <2>8. StageOf(row, f, st, rs)'  BY <1>5, <2>7, StageStays
  <2>9. StageOf(tasks[t], flow[p], st, rs)'  BY <2>2, <2>8 DEF StageOf
  <2> QED  BY <2>2, <2>3, <2>9
<1> QED  BY <1>1, <1>5, <1>7, <1>8, <1>9, <1>10, <1>11, OneProgram

\* The first results stay the first when one more comes.
LEMMA PrefixStays ==
  ASSUME NEW S, NEW s \in Seq(S), NEW e \in S, NEW n \in 0..Len(s)
  PROVE  SubSeq(Append(s, e), 1, n) = SubSeq(s, 1, n)
<1>1. PICK longer : longer = Append(s, e)
  OBVIOUS
<1>2. /\ n \in Int /\ 1 \in Int
      /\ \A i \in 1..n : s[i] \in S /\ longer[i] = s[i]
  BY <1>1
<1>3. PICK a, b : a = SubSeq(longer, 1, n) /\ b = SubSeq(s, 1, n)
  OBVIOUS
<1>4. \A i \in 1..n : longer[i] \in S  BY <1>2
<1>5. /\ a \in Seq(S) /\ Len(a) = (IF 1 <= n THEN n - 1 + 1 ELSE 0)
      /\ \A i \in 1..(n - 1 + 1) : a[i] = longer[1 + i - 1]
  BY <1>2, <1>3, <1>4, SubSeqProperties
<1>6. /\ b \in Seq(S) /\ Len(b) = (IF 1 <= n THEN n - 1 + 1 ELSE 0)
      /\ \A i \in 1..(n - 1 + 1) : b[i] = s[1 + i - 1]
  BY <1>2, <1>3, SubSeqProperties
<1>7. DOMAIN a = 1..n /\ DOMAIN b = 1..n  BY <1>5, <1>6
<1>8. \A i \in 1..n : a[i] = b[i]
  <2>1. \A i \in 1..n : i \in 1..(n - 1 + 1) /\ 1 + i - 1 = i  OBVIOUS
  <2> QED  BY <1>2, <1>5, <1>6, <2>1
<1>9. a = [i \in DOMAIN a |-> a[i]] /\ b = [i \in DOMAIN b |-> b[i]]
  BY <1>5, <1>6
<1> QED  BY <1>1, <1>3, <1>7, <1>8, <1>9

\* A completed task that works on the value and the results so far adds its own.
LEMMA ProducedExtends ==
  ASSUME NEW op, NEW value, NEW rs \in Seq(AgentResults), NEW r \in AgentResults,
         NEW longer, longer = Append(rs, r),
         Produced(op, value, rs), NEW t \in DOMAIN tasks,
         tasks[t].key = <<op, Len(rs) + 1>>,
         tasks[t].state = "completed", tasks[t].result = r,
         StoredAt(tasks[t].body.input, <<value, rs>>)
  PROVE  Produced(op, value, longer)
<1>1. /\ longer \in Seq(AgentResults) /\ DOMAIN rs = 1..Len(rs) /\ Len(rs) \in Nat
      /\ DOMAIN longer = 1..(Len(rs) + 1) /\ longer[Len(rs) + 1] = r
      /\ \A i \in DOMAIN rs : longer[i] = rs[i]
  BY OneMoreRow
<1>2. SUFFICES ASSUME NEW s \in DOMAIN longer
               PROVE  \E u \in DOMAIN tasks :
                        /\ tasks[u].key = <<op, s>>
                        /\ tasks[u].state = "completed" /\ tasks[u].result = longer[s]
                        /\ StoredAt(tasks[u].body.input, <<value, SubSeq(longer, 1, s - 1)>>)
  BY DEF Produced
<1>3. s - 1 \in 0..Len(rs)  BY <1>1
<1>4. SubSeq(longer, 1, s - 1) = SubSeq(rs, 1, s - 1)
  BY <1>3, PrefixStays
<1>5. CASE s = Len(rs) + 1
  <2>1. s - 1 = Len(rs)  BY <1>1, <1>5
  <2>2. SubSeq(rs, 1, s - 1) = rs  BY <2>1, SubSeqFull
  <2> QED  BY <1>1, <1>4, <1>5, <2>2
<1>6. CASE s # Len(rs) + 1
  <2>1. s \in DOMAIN rs  BY <1>1, <1>6
  <2>2. PICK u \in DOMAIN tasks :
          /\ tasks[u].key = <<op, s>>
          /\ tasks[u].state = "completed" /\ tasks[u].result = rs[s]
          /\ StoredAt(tasks[u].body.input, <<value, SubSeq(rs, 1, s - 1)>>)
    BY <2>1 DEF Produced
  <2> QED  BY <1>1, <1>4, <2>1, <2>2
<1> QED  BY <1>5, <1>6

\* The task a waiting program reads is the one it asked for.
LEMMA TaskAwaited ==
  ASSUME WorkInv, NEW p \in Workers, flowPc[p] = "wait"
  PROVE  /\ Remembered(tasks, TaskKey(p)) \in DOMAIN tasks
         /\ tasks[Remembered(tasks, TaskKey(p))].key = TaskKey(p)
         /\ tasks[Remembered(tasks, TaskKey(p))].body = Body(p)
<1>1. PICK key, known : key = TaskKey(p) /\ known = Remembered(tasks, key)
  OBVIOUS
<1>2. PICK t \in DOMAIN tasks : tasks[t].key = key /\ tasks[t].body = Body(p)
  BY <1>1 DEF WorkInv, Program, AtWork
<1>3. tasks \in Seq(TaskRows) /\ KeysOnce(tasks)  BY DEF WorkInv, CellOK
<1>4. known \in DOMAIN tasks /\ tasks[known].key = key
  BY <1>1, <1>2, <1>3, RememberedRow
<1>5. known = t  BY <1>2, <1>3, <1>4 DEF KeysOnce
<1> QED  BY <1>1, <1>2, <1>4, <1>5

LEMMA ResultKeeps ==
  ASSUME WorkInv, NEW p \in Workers, TakeResult(p)
  PROVE  WorkInv'
<1>0. PICK known : known = Remembered(tasks, TaskKey(p))
  OBVIOUS
<1> DEFINE Taken ==
             /\ tasks[known].state = "completed"
             /\ results' = [results EXCEPT ![p] = Append(@, tasks[known].result)]
             /\ refs' = [refs EXCEPT ![p] = <<>>]
             /\ \/ /\ stage[p] < Stages(p) /\ stage' = [stage EXCEPT ![p] = @ + 1]
                   /\ FlowAt(p, "upload")
                \/ ~(stage[p] < Stages(p)) /\ UNCHANGED stage /\ FlowEnds(p, "finished")
           Failed == FlowEnds(p, "ended failed") /\ UNCHANGED <<results, refs, stage>>
<1>1. flowPc[p] = "wait" /\ UNCHANGED <<flow, uploads, tasks>> /\ (Taken \/ Failed)
  BY <1>0 DEF TakeResult, cellVars
<1>2. /\ FlowsOK /\ CellOK /\ Program(p) /\ AtWork(p) /\ RefsOf(p) /\ flow[p] \in Flows
      /\ Len(refs[p]) = 2 /\ stage[p] \in 1..3 /\ refs \in [Workers -> Seq(Nat)]
      /\ results[p] \in Seq(AgentResults) /\ outcome[p] = "none"
  BY <1>1, FlowStarted DEF WorkInv, Program, AtWork, RefsOf, FlowsOK
<1>3. known \in DOMAIN tasks /\ tasks[known].key = TaskKey(p) /\ tasks[known].body = Body(p)
  BY <1>0, <1>1, TaskAwaited
<1>4. Grown /\ CellOK'  BY <1>1, <1>2, NothingForgotten DEF cellVars
<1>5. {"finished", "ended failed"} \subseteq FlowEndings /\ "upload" \in FlowPlaces
  BY DEF FlowEndings, FlowPlaces
<1>6. CASE Failed
  <2>1. /\ flowPc' \in [Workers -> FlowPlaces] /\ outcome' \in [Workers -> FlowEndings]
        /\ \A q \in Workers \ {p} : flowPc'[q] = flowPc[q] /\ outcome'[q] = outcome[q]
        /\ flowPc'[p] = "done" /\ outcome'[p] = "ended failed"
    BY <1>2, <1>5, <1>6, FlowMoves
  <2>2. FlowsOK'  BY <1>1, <1>2, <1>6, <2>1 DEF FlowsOK, FlowPlaces, FlowEndings
  <2>3. Program(p)'  BY <1>1, <1>4, <1>6, <2>1, ProgramEnds
  <2> QED  BY <1>1, <1>4, <1>6, <2>1, <2>2, <2>3, OneProgram
<1>7. CASE Taken
  <2>1. PICK r, rs, longer : r = tasks[known].result /\ rs = results[p] /\ longer = Append(rs, r)
    OBVIOUS
  <2>2. r \in AgentResults /\ rs \in Seq(AgentResults) /\ Len(rs) = stage[p] - 1
    BY <1>2, <1>3, <1>7, <2>1 DEF CellOK, AtWork
  <2>3. longer \in Seq(AgentResults) /\ Len(longer) = stage[p] /\ Len(rs) + 1 = stage[p]
    BY <1>2, <2>1, <2>2, OneMoreRow
  <2>4. /\ results'[p] = longer /\ refs'[p] = <<>>
        /\ results' \in [Workers -> Seq(AgentResults)] /\ refs' \in [Workers -> Seq(Nat)]
        /\ \A q \in Workers \ {p} : results'[q] = results[q] /\ refs'[q] = refs[q]
    <3>1. results \in [Workers -> Seq(AgentResults)]  BY <1>2 DEF FlowsOK
    <3>2. results' = [results EXCEPT ![p] = longer]  BY <1>7, <2>1
    <3>3. <<>> \in Seq(Nat)  OBVIOUS
    <3> QED  BY <1>2, <1>7, <2>3, <3>1, <3>2, <3>3
  <2>5. /\ flowPc' \in [Workers -> FlowPlaces] /\ outcome' \in [Workers -> FlowEndings]
        /\ \A q \in Workers \ {p} : flowPc'[q] = flowPc[q] /\ outcome'[q] = outcome[q]
        /\ \/ stage[p] < Stages(p) /\ flowPc'[p] = "upload" /\ outcome'[p] = "none"
           \/ ~(stage[p] < Stages(p)) /\ flowPc'[p] = "done" /\ outcome'[p] = "finished"
    BY <1>2, <1>5, <1>7, FlowMoves
  <2>6. Stages(p) \in {1, 3} /\ (flow[p].kind = "investigate" => Stages(p) = 3)
    BY DEF Stages
  <2>7. /\ stage' \in [Workers -> 1..3]
        /\ \A q \in Workers \ {p} : stage'[q] = stage[q]
        /\ stage[p] < Stages(p) => stage'[p] = stage[p] + 1
        /\ ~(stage[p] < Stages(p)) => stage'[p] = stage[p]
    <3>1. stage \in [Workers -> 1..3]  BY <1>2 DEF FlowsOK
    <3>2. stage[p] < Stages(p) => stage[p] + 1 \in 1..3  BY <1>2, <2>6
    <3> QED  BY <1>7, <3>1, <3>2
  <2>8. FlowsOK'
    <3>1. \A q \in Workers : flow'[q] \in Flows \/ (flow'[q].kind = "none" /\ flowPc'[q] = "idle")
      BY <1>1, <1>2, <2>5 DEF FlowsOK
    <3>2. DOMAIN flow' = Workers  BY <1>1, <1>2 DEF FlowsOK
    <3> QED  BY <2>4, <2>5, <2>7, <3>1, <3>2 DEF FlowsOK, FlowPlaces, FlowEndings
  <2>9. flow[p].kind = "investigate" => Produced(flow[p].operation, flow[p].value, results[p])'
    <3> SUFFICES ASSUME flow[p].kind = "investigate"
                 PROVE  Produced(flow[p].operation, flow[p].value, results[p])'
      OBVIOUS
    <3>1. PICK o, v : o = flow[p].operation /\ v = flow[p].value  OBVIOUS
    <3>2. Produced(o, v, rs)  BY <1>2, <2>1, <3>1 DEF Program
    <3>3. tasks[known].key = <<o, Len(rs) + 1>>
      BY <1>3, <2>3, <3>1 DEF TaskKey
    <3>4. StoredAt(tasks[known].body.input, <<v, rs>>)
      BY <1>2, <1>3, <2>1, <3>1 DEF RefsOf, Body, Input
    <3>5. Produced(o, v, longer)
      BY <1>3, <1>7, <2>1, <2>2, <3>2, <3>3, <3>4, ProducedExtends
    <3>6. Produced(o, v, longer)'  BY <1>4, <3>5, ProducedStays
    <3> QED  BY <1>1, <2>4, <3>1, <3>6 DEF Produced
  <2>10. Program(p)'
    <3>1. CASE stage[p] < Stages(p)
      <4>1. /\ flowPc'[p] = "upload" /\ outcome'[p] = "none" /\ stage'[p] = stage[p] + 1
            /\ Stages(p)' = Stages(p)
        BY <1>1, <2>5, <2>7, <3>1 DEF Stages
      <4>2. RefsOf(p)'  BY <2>4, <4>1 DEF RefsOf
      <4>3. stage'[p] <= Stages(p) /\ Len(results'[p]) = stage'[p] - 1
        BY <1>2, <2>3, <2>4, <2>6, <3>1, <4>1
      <4>4. AtWork(p)'  BY <4>1, <4>2, <4>3 DEF AtWork
      <4> QED  BY <1>1, <2>9, <4>1, <4>4 DEF Program
    <3>2. CASE ~(stage[p] < Stages(p))
      <4>1. flowPc'[p] = "done" /\ outcome'[p] = "finished"  BY <2>5, <3>2
      <4>2. flow[p].kind = "investigate" => Len(results'[p]) = 3
        <5>1. Len(results'[p]) = stage[p]  BY <2>3, <2>4
        <5>2. flow[p].kind = "investigate" => stage[p] = 3  BY <1>2, <2>6, <3>2
        <5> QED  BY <5>1, <5>2
      <4> QED  BY <1>1, <2>9, <4>1, <4>2 DEF Program
    <3> QED  BY <3>1, <3>2
  <2> QED  BY <1>1, <1>4, <2>4, <2>5, <2>7, <2>8, <2>10, OneProgram
<1> QED  BY <1>1, <1>6, <1>7

\* The tasks there are stay stages of the flows that asked for them.
LEMMA TasksStay ==
  ASSUME TasksOfFlows, Grown, UNCHANGED flow, DOMAIN tasks' = DOMAIN tasks
  PROVE  TasksOfFlows'
<1>1. ASSUME NEW u \in DOMAIN tasks'
      PROVE  \E q \in Workers, st \in 1..3, rs \in Seq(AgentResults) :
              flow'[q].kind # "none" /\ StageOf(tasks[u], flow[q], st, rs)'
  <2>1. PICK q \in Workers, st \in 1..3, rs \in Seq(AgentResults) :
          flow[q].kind # "none" /\ StageOf(tasks[u], flow[q], st, rs)
    BY DEF TasksOfFlows
  <2>2. PICK old, new, f : old = tasks[u] /\ new = tasks'[u] /\ f = flow[q]  OBVIOUS
  <2>3. new.key = old.key /\ new.body = old.body  BY <2>2 DEF Grown
  <2>4. StageOf(new, f, st, rs)'  BY <2>1, <2>2, <2>3, StageStays
  <2>5. flow'[q] = f /\ f.kind # "none"  BY <2>1, <2>2
  <2>6. StageOf(tasks[u], flow[q], st, rs)'
    BY <2>2, <2>4, <2>5 DEF StageOf
  <2> QED  BY <2>5, <2>6
<1> QED  BY <1>1 DEF TasksOfFlows

LEMMA AgentKeeps ==
  ASSUME WorkInv, AgentEnds
  PROVE  WorkInv'
<1>1. PICK t \in DOMAIN tasks, how \in {"completed", "failed"}, r \in AgentResults :
        /\ tasks[t].state = "running"
        /\ tasks' = [tasks EXCEPT ![t].state = how,
                                  ![t].result = IF how = "completed" THEN r ELSE "none"]
  BY DEF AgentEnds
<1>2. UNCHANGED <<flow, flowPc, stage, refs, results, outcome, uploads>>
  BY DEF AgentEnds, flowVars
<1>3. FlowsOK /\ CellOK /\ tasks \in Seq(TaskRows)  BY DEF WorkInv, CellOK
<1>4. PICK row, answered :
        /\ row = tasks[t]
        /\ answered = [row EXCEPT !.state = how,
                                  !.result = IF how = "completed" THEN r ELSE "none"]
  OBVIOUS
<1>5. /\ row \in TaskRows /\ answered \in TaskRows /\ row.state = "running"
      /\ answered.key = row.key /\ answered.body = row.body
      /\ answered.state = "completed" => answered.result \in AgentResults
  <2>1. row \in TaskRows  BY <1>3, <1>4
  <2> QED  BY <1>1, <1>4, <2>1 DEF TaskRows
<1>6. /\ tasks' \in Seq(TaskRows) /\ DOMAIN tasks' = DOMAIN tasks /\ tasks'[t] = answered
      /\ \A u \in DOMAIN tasks \ {t} : tasks'[u] = tasks[u]
  <2>1. tasks' = [tasks EXCEPT ![t] = answered]  BY <1>1, <1>4
  <2> QED  BY <1>3, <1>5, <2>1
<1>7. Grown
  <2>1. \A u \in DOMAIN tasks : /\ tasks'[u].key = tasks[u].key /\ tasks'[u].body = tasks[u].body
                                /\ tasks[u].state = "completed" => tasks'[u] = tasks[u]
    BY <1>4, <1>5, <1>6
  <2> QED  BY <1>2, <1>6, <2>1 DEF Grown
<1>8. CellOK'
  <2>1. \A i, j \in DOMAIN tasks' : tasks'[i].key = tasks'[j].key => i = j
    BY <1>3, <1>6, <1>7 DEF CellOK, KeysOnce, Grown
  <2>2. \A u \in DOMAIN tasks' : tasks'[u].state = "completed" => tasks'[u].result \in AgentResults
    BY <1>3, <1>5, <1>6 DEF CellOK
  <2> QED  BY <1>2, <1>3, <1>6, <2>1, <2>2 DEF CellOK, KeysOnce
<1>9. FlowsOK' /\ ResumesTasks'
  BY <1>2 DEF WorkInv, FlowsOK, ResumesTasks
<1>10. \A p \in Workers : Program(p)'
  BY <1>2, <1>7, ProgramStays
<1>11. TasksOfFlows'  BY <1>2, <1>6, <1>7, TasksStay DEF WorkInv
<1> QED  BY <1>8, <1>9, <1>10, <1>11 DEF WorkInv

LEMMA WorkKeeps == WorkInv /\ [WorkNext]_workVars => WorkInv'
<1> SUFFICES ASSUME WorkInv, [WorkNext]_workVars  PROVE WorkInv'
  OBVIOUS
<1>1. ASSUME NEW p \in Workers, StartProgram(p)  PROVE WorkInv'  BY <1>1, StartKeeps
<1>2. ASSUME NEW p \in Workers, Upload(p)        PROVE WorkInv'  BY <1>2, UploadKeeps
<1>3. ASSUME NEW p \in Workers, CreateTask(p)    PROVE WorkInv'  BY <1>3, CreateKeeps
<1>4. ASSUME NEW p \in Workers, TakeResult(p)    PROVE WorkInv'  BY <1>4, ResultKeeps
<1>5. ASSUME NEW p \in Workers, GiveUp(p)        PROVE WorkInv'  BY <1>5, GiveUpKeeps
<1>6. CASE AgentEnds  BY <1>6, AgentKeeps
<1>7. CASE UNCHANGED workVars
  <2>1. UNCHANGED <<flow, flowPc, stage, refs, results, outcome, uploads, tasks>>
    BY <1>7 DEF workVars, flowVars, cellVars
  <2>2. Grown /\ CellOK'  BY <2>1, NothingForgotten DEF cellVars, WorkInv
  <2>3. FlowsOK' /\ ResumesTasks'  BY <2>1 DEF WorkInv, FlowsOK, ResumesTasks
  <2>4. \A p \in Workers : Program(p)'  BY <2>1, <2>2, ProgramStays
  <2>5. TasksOfFlows'
    <3>1. DOMAIN tasks' = DOMAIN tasks  BY <2>1
    <3> QED  BY <2>1, <2>2, <3>1, TasksStay DEF WorkInv
  <2> QED  BY <2>2, <2>3, <2>4, <2>5 DEF WorkInv
<1> QED  BY <1>1, <1>2, <1>3, <1>4, <1>5, <1>6, <1>7 DEF WorkNext

LEMMA WorkInvariant == WorkSpec => []WorkInv
  BY WorkStarts, WorkKeeps, PTL DEF WorkSpec

\* A program that is refused because its key was used shares its operation with
\* one that ran something else: run again with the same inputs, submit
\* (examples/task_workflow.py) finds the uploads and the task it left.
THEOREM TasksAlwaysResumed == WorkSpec => []ResumesTasks
<1>1. WorkInv => ResumesTasks  BY DEF WorkInv
<1> QED  BY <1>1, WorkInvariant, PTL

\* What an investigation (examples/support_escalation.py) returns is of one
\* chain of tasks, each the only one of its stage and each working on what those
\* before it produced, however many run under its name and how often.
THEOREM ChainAlwaysOne == WorkSpec => []OneChain
<1>1. ASSUME WorkInv  PROVE OneChain
  <2> SUFFICES ASSUME NEW p \in Workers, outcome[p] = "finished", flow[p].kind = "investigate",
                      NEW s \in 1..3
               PROVE  \E t \in DOMAIN tasks :
                        /\ tasks[t].key = <<flow[p].operation, s>>
                        /\ tasks[t].result = results[p][s]
                        /\ uploads[tasks[t].body.input].content
                             = <<flow[p].value, SubSeq(results[p], 1, s - 1)>>
                        /\ \A u \in DOMAIN tasks : tasks[u].key = tasks[t].key => u = t
    BY DEF OneChain
  <2>1. Program(p) /\ CellOK /\ results[p] \in Seq(AgentResults)
    BY <1>1 DEF WorkInv, FlowsOK
  <2>2. s \in DOMAIN results[p]
    <3>1. Len(results[p]) = 3  BY <2>1 DEF Program
    <3> QED  BY <2>1, <3>1
  <2>3. Produced(flow[p].operation, flow[p].value, results[p])
    BY <2>1 DEF Program
  <2>4. PICK t \in DOMAIN tasks :
          /\ tasks[t].key = <<flow[p].operation, s>> /\ tasks[t].result = results[p][s]
          /\ StoredAt(tasks[t].body.input, <<flow[p].value, SubSeq(results[p], 1, s - 1)>>)
    BY <2>2, <2>3 DEF Produced
  <2>5. \A u \in DOMAIN tasks : tasks[u].key = tasks[t].key => u = t
    BY <2>1 DEF CellOK, KeysOnce
  <2> QED  BY <2>4, <2>5 DEF StoredAt
<1> QED  BY <1>1, WorkInvariant, PTL

-----------------------------------------------------------------------------
(***************************************************************************)
(* Packaging                                                               *)
(***************************************************************************)

PackInv ==
  /\ directory \in [Paths -> Entries] /\ checked \in [Paths -> Entries]
  /\ packPc \in {"open", "write"} => FilesAreSafe(checked)
  /\ packPc = "write" => ~ made
  /\ PackagesPassInspection

\* Only a file has a size.
LEMMA EntrySizes ==
  ASSUME NEW e \in Entries
  PROVE  e.size \in Nat /\ (e.type # "file" => e.size = 0)
  BY LimitsAssumption DEF Entries

\* What is packed of a directory that validates holds the bytes it held.
LEMMA ZippedPasses ==
  ASSUME NEW d \in [Paths -> Entries], FilesAreSafe(d)
  PROVE  Inspects(Zipped(d))
<1>1. ASSUME NEW n \in Paths  PROVE Zipped(d)[n].size = d[n].size
  <2>1. d[n] \in Entries /\ d[n].type \in {"none", "file", "directory"}
    BY DEF FilesAreSafe
  <2>2. Zipped(d)[n] = IF d[n].type \in {"file", "link"} THEN d[n] ELSE NoEntry
    BY DEF Zipped
  <2>3. d[n].type # "file" => d[n].size = 0  BY <2>1, EntrySizes
  <2> QED  BY <2>1, <2>2, <2>3 DEF NoEntry
<1>2. Bytes(Zipped(d)) = Bytes(d)  BY <1>1 DEF Bytes
<1> QED  BY <1>1, <1>2 DEF Inspects, Unpacked, FilesAreSafe

LEMMA DirectoryKept ==
  ASSUME directory \in [Paths -> Entries], Edit \/ UNCHANGED directory
  PROVE  directory' \in [Paths -> Entries]
  BY DEF Edit

LEMMA PackKeeps == PackInv /\ [PackagingNext]_packagingVars => PackInv'
<1> SUFFICES ASSUME PackInv, [PackagingNext]_packagingVars  PROVE PackInv'
  OBVIOUS
<1>1. CASE EditPackage
  <2>1. directory' \in [Paths -> Entries]  BY <1>1, DirectoryKept DEF EditPackage, PackInv
  <2> QED  BY <1>1, <2>1 DEF PackInv, EditPackage, packingVars, PackagesPassInspection,
                            FilesAreSafe, Inspects
<1>2. CASE Validate
  <2>1. UNCHANGED <<directory, archive, made>>  BY <1>2 DEF Validate, directoryVars
  <2>2. \/ FilesAreSafe(directory) /\ packPc' = "open" /\ checked' = directory
        \/ packPc' = "refused" /\ UNCHANGED checked
    BY <1>2 DEF Validate
  <2> QED  BY <2>1, <2>2 DEF PackInv, PackagesPassInspection, FilesAreSafe, Inspects
<1>3. CASE OpenArchive
  BY <1>3 DEF OpenArchive, directoryVars, PackInv, PackagesPassInspection, FilesAreSafe
<1>4. CASE WriteArchive
  <2>1. UNCHANGED <<directory, checked>> /\ packPc = "write"
    BY <1>4 DEF WriteArchive, directoryVars
  <2>2. CASE packPc' = "refused" /\ UNCHANGED made
    BY <2>1, <2>2 DEF PackInv, PackagesPassInspection
  <2>3. CASE /\ packPc' = "packed" /\ archive' = <<"whole", Zipped(directory)>>
             /\ made' = (directory = checked)
    <3>1. made' => Inspects(Zipped(directory))
      BY <2>1, <2>3, ZippedPasses DEF PackInv
    <3>2. archive'[2] = Zipped(directory)  BY <2>3
    <3>3. PackagesPassInspection'
      BY <3>1, <3>2 DEF PackagesPassInspection, Inspects
    <3> QED  BY <2>1, <2>3, <3>3 DEF PackInv
  <2> QED  BY <1>4, <2>2, <2>3 DEF WriteArchive
<1>5. CASE PackAgain
  BY <1>5 DEF PackAgain, directoryVars, PackInv, PackagesPassInspection, Inspects
<1>6. CASE UNCHANGED packagingVars
  BY <1>6 DEF packagingVars, packingVars, directoryVars, PackInv, PackagesPassInspection,
              FilesAreSafe, Inspects
<1> QED  BY <1>1, <1>2, <1>3, <1>4, <1>5, <1>6 DEF PackagingNext

LEMMA DirectoryStarts == DirectoryInit => directory \in [Paths -> Entries]
<1>1. NoEntry \in Entries  BY DEF NoEntry, Entries
<1> QED  BY <1>1 DEF DirectoryInit

\* A directory that validates and is left alone is packed into an archive that
\* inspect_archive of src/cli, before sign and publish, does not refuse for its
\* bounds, whatever they are and however sizes spread over the files.
THEOREM PackagesAlwaysPass == PackagingSpec => []PackagesPassInspection
<1>1. PackagingInit => PackInv
  BY DirectoryStarts DEF PackagingInit, PackInv, PackagesPassInspection
<1>2. PackInv => PackagesPassInspection  BY DEF PackInv
<1> QED  BY <1>1, <1>2, PackKeeps, PTL DEF PackagingSpec

-----------------------------------------------------------------------------
(***************************************************************************)
(* Snapshot                                                                *)
(***************************************************************************)

WalkPlaces == {"idle", "walk", "open", "read", "copied", "changed", "unsafe", "out of bounds"}
WalkTypes ==
  /\ directory \in [Paths -> Entries] /\ copied \in [Paths -> Entries]
  /\ listed \in Entries /\ opened \in Entries
  /\ snapPc \in WalkPlaces /\ unvisited \subseteq Paths /\ at \subseteq Paths
  /\ entries \in Nat /\ bytes \in Nat /\ was \in [Paths -> SUBSET Entries]

Visited == Paths \ unvisited

\* The counters of the walk are those of the copy, and within the bounds.
Counters ==
  /\ IsFiniteSet(Visited) /\ Cardinality(Visited) = entries /\ entries <= EntryLimit
  /\ IsFiniteSet(Bytes(copied)) /\ Unpacked(copied) = bytes /\ bytes <= TotalLimit

\* The path the walk is at has been visited, and nothing of it is copied yet.
AtOne ==
  \E n \in Visited :
    /\ at = {n} /\ copied[n] = NoEntry
    /\ snapPc = "open" => listed.type \in {"file", "directory"}
    /\ snapPc = "read" => opened \in was[n] /\ opened.type = "file"

\* What is copied of a path stood there; of one not visited, nothing is.
CopiesStood ==
  \A n \in Paths :
    /\ directory[n] \in was[n]
    /\ n \in unvisited => copied[n] = NoEntry
    /\ copied[n].type # "none" => copied[n] \in was[n] /\ copied[n].size <= FileLimit

SnapInv ==
  /\ WalkTypes
  /\ snapPc = "idle" =>
       entries = 0 /\ bytes = 0 /\ copied = [n \in Paths |-> NoEntry]
  /\ snapPc \in {"walk", "open", "read", "copied"} => Counters /\ CopiesStood
  /\ snapPc \in {"open", "read"} => AtOne

LEMMA SnapStarts == SnapshotInit => SnapInv
<1> SUFFICES ASSUME SnapshotInit  PROVE SnapInv
  OBVIOUS
<1>1. NoEntry \in Entries  BY DEF NoEntry, Entries
<1>2. WalkTypes  BY <1>1, DirectoryStarts DEF SnapshotInit, WalkTypes, WalkPlaces
<1> QED  BY <1>2 DEF SnapInv, SnapshotInit

\* An empty copy has no bytes.
LEMMA NothingCopied ==
  ASSUME NEW d, \A n \in Paths : d[n] = NoEntry
  PROVE  IsFiniteSet(Bytes(d)) /\ Unpacked(d) = 0
<1>1. \A n \in Paths : 1..d[n].size = {}  BY DEF NoEntry
<1>2. Bytes(d) = {}  BY <1>1 DEF Bytes
<1> QED  BY <1>2, FS_EmptySet DEF Unpacked

\* The bytes of one more entry come to those there are.
LEMMA OneMoreCopy ==
  ASSUME NEW d, NEW more, NEW n \in Paths, d[n] = NoEntry,
         \A m \in Paths \ {n} : more[m] = d[m],
         more[n].size \in Nat, IsFiniteSet(Bytes(d))
  PROVE  IsFiniteSet(Bytes(more)) /\ Unpacked(more) = Unpacked(d) + more[n].size
<1>1. PICK size, new : size = more[n].size /\ new = {n} \X (1..size)
  OBVIOUS
<1>2. IsFiniteSet(new) /\ Cardinality(new) = size
  <2>1. IsFiniteSet(1..size) /\ Cardinality(1..size) = size
    <3>1. size \in Nat /\ 1 \in Int /\ size \in Int  BY <1>1
    <3>2. /\ IsFiniteSet(1..size)
          /\ Cardinality(1..size) = IF 1 > size THEN 0 ELSE size - 1 + 1
      BY <3>1, FS_Interval
    <3> QED  BY <3>1, <3>2
  <2>2. IsFiniteSet({n}) /\ Cardinality({n}) = 1  BY FS_Singleton
  <2>3. IsFiniteSet(new) /\ Cardinality(new) = Cardinality({n}) * Cardinality(1..size)
    BY <1>1, <2>1, <2>2, FS_Product
  <2> QED  BY <1>1, <2>1, <2>2, <2>3
<1>3. 1..d[n].size = {}  BY DEF NoEntry
<1>4. Bytes(more) = Bytes(d) \cup new
  <2>1. ASSUME NEW b \in Bytes(more)  PROVE b \in Bytes(d) \cup new
    <3>1. PICK m \in Paths : b \in {m} \X (1..more[m].size)  BY <2>1 DEF Bytes
    <3>2. CASE m = n  BY <1>1, <3>1, <3>2
    <3>3. CASE m # n  BY <3>1, <3>3 DEF Bytes
    <3> QED  BY <3>2, <3>3
  <2>2. ASSUME NEW b \in Bytes(d)  PROVE b \in Bytes(more)
    <3>1. PICK m \in Paths : b \in {m} \X (1..d[m].size)  BY <2>2 DEF Bytes
    <3>2. m # n  BY <1>3, <3>1
    <3> QED  BY <3>1, <3>2 DEF Bytes
  <2>3. new \subseteq Bytes(more)  BY <1>1 DEF Bytes
  <2> QED  BY <2>1, <2>2, <2>3
<1>5. Bytes(d) \cap new = {}
  BY <1>1, <1>3 DEF Bytes
<1>6. Cardinality(Bytes(d) \cap new) = 0  BY <1>5, FS_EmptySet
<1>7. Cardinality(Bytes(d)) \in Nat  BY FS_CardinalityType
<1>8. /\ IsFiniteSet(Bytes(d) \cup new)
      /\ Cardinality(Bytes(d) \cup new)
           = Cardinality(Bytes(d)) + Cardinality(new) - Cardinality(Bytes(d) \cap new)
  BY <1>2, FS_Union
<1> QED  BY <1>1, <1>2, <1>4, <1>6, <1>7, <1>8 DEF Unpacked

LEMMA LookKeeps ==
  ASSUME SnapInv, Look
  PROVE  SnapInv'
<1>1. PICK n \in unvisited :
        /\ unvisited' = unvisited \ {n} /\ entries' = entries + 1
        /\ at' = {n} /\ listed' = directory[n]
        /\ snapPc' = IF entries' > EntryLimit THEN "out of bounds"
                     ELSE CASE directory[n].type = "none" -> "changed"
                            [] directory[n].type \in {"file", "directory"} -> "open"
                            [] OTHER -> "unsafe"
  BY DEF Look
<1>2. snapPc = "walk" /\ UNCHANGED <<directory, opened, copied, bytes, was>>
  BY DEF Look, directoryVars
<1>3. WalkTypes /\ Counters /\ CopiesStood  BY <1>2 DEF SnapInv
<1>4. /\ snapPc' \in {"out of bounds", "changed", "open", "unsafe"}
      /\ snapPc' = "open" => ~ (entries' > EntryLimit)
                             /\ directory[n].type \in {"file", "directory"}
  <2>1. CASE entries' > EntryLimit  BY <1>1, <2>1
  <2>2. CASE ~ (entries' > EntryLimit) /\ directory[n].type = "none"  BY <1>1, <2>2
  <2>3. CASE ~ (entries' > EntryLimit) /\ directory[n].type \in {"file", "directory"}
    BY <1>1, <2>3
  <2>4. CASE ~ (entries' > EntryLimit) /\ directory[n].type \notin {"none", "file", "directory"}
    BY <1>1, <2>4
  <2> QED  BY <2>1, <2>2, <2>3, <2>4
<1>5. WalkTypes'
  <2>1. snapPc' \in WalkPlaces  BY <1>4 DEF WalkPlaces
  <2>2. n \in Paths /\ entries + 1 \in Nat /\ directory[n] \in Entries
    BY <1>3 DEF WalkTypes
  <2> QED  BY <1>1, <1>2, <1>3, <2>1, <2>2 DEF WalkTypes
<1>6. CASE snapPc' # "open"
  BY <1>4, <1>5, <1>6 DEF SnapInv
<1>7. CASE snapPc' = "open"
  <2>1. n \in Paths /\ n \notin Visited /\ Visited' = Visited \cup {n}
    BY <1>1, <1>3 DEF Visited, WalkTypes
  <2>2. IsFiniteSet(Visited') /\ Cardinality(Visited') = entries'
    BY <1>1, <1>3, <2>1, FS_AddElement DEF Counters
  <2>3. entries' <= EntryLimit  BY <1>1, <1>3, <1>4, <1>7, LimitsAssumption DEF WalkTypes
  <2>4. Counters'  BY <1>2, <1>3, <2>2, <2>3 DEF Counters, Unpacked, Bytes
  <2>5. CopiesStood'  BY <1>1, <1>2, <1>3 DEF CopiesStood
  <2>6. AtOne'  BY <1>1, <1>2, <1>3, <1>4, <1>7, <2>1 DEF AtOne, CopiesStood
  <2> QED  BY <1>5, <1>7, <2>4, <2>5, <2>6 DEF SnapInv
<1> QED  BY <1>6, <1>7

\* A copied directory has no bytes; what is copied stood there.
LEMMA OpenKeeps ==
  ASSUME SnapInv, Open
  PROVE  SnapInv'
<1>1. PICK n \in at :
        /\ opened' = directory[n]
        /\ snapPc' = CASE ~ (directory[n].type = listed.type) -> "changed"
                       [] directory[n].type = listed.type /\ listed.type = "directory" -> "walk"
                       [] directory[n].type = listed.type /\ listed.type = "file" -> "read"
        /\ copied' = IF snapPc' = "walk" THEN [copied EXCEPT ![n] = directory[n]] ELSE copied
  BY DEF Open
<1>2. snapPc = "open" /\ UNCHANGED <<directory, unvisited, at, listed, entries, bytes, was>>
  BY DEF Open, directoryVars
<1>3. WalkTypes /\ Counters /\ CopiesStood /\ AtOne  BY <1>2 DEF SnapInv
<1>4. /\ n \in Visited /\ at = {n} /\ copied[n] = NoEntry
      /\ listed.type \in {"file", "directory"} /\ n \in Paths
  BY <1>1, <1>2, <1>3 DEF AtOne, WalkTypes
<1>5. \/ snapPc' = "changed" /\ copied' = copied
      \/ snapPc' = "walk" /\ directory[n].type = "directory"
         /\ copied' = [copied EXCEPT ![n] = directory[n]]
      \/ snapPc' = "read" /\ directory[n].type = "file" /\ copied' = copied
  BY <1>1, <1>4
<1>6. directory[n] \in Entries /\ directory[n] \in was[n]
  BY <1>3, <1>4 DEF WalkTypes, CopiesStood
<1>7. WalkTypes'
  BY <1>1, <1>2, <1>3, <1>5, <1>6 DEF WalkTypes, WalkPlaces
<1>8. CASE snapPc' = "changed"  BY <1>7, <1>8 DEF SnapInv
<1>9. CASE snapPc' = "read"
  <2>1. Counters' /\ CopiesStood'
    BY <1>2, <1>3, <1>5, <1>9 DEF Counters, CopiesStood, Unpacked, Bytes, Visited
  <2>2. AtOne'  BY <1>1, <1>2, <1>4, <1>5, <1>6, <1>9 DEF AtOne, Visited
  <2> QED  BY <1>7, <1>9, <2>1, <2>2 DEF SnapInv
<1>10. CASE snapPc' = "walk"
  <2>1. /\ directory[n].type = "directory" /\ directory[n].size = 0
        /\ copied' = [copied EXCEPT ![n] = directory[n]]
    BY <1>5, <1>6, <1>10, EntrySizes
  <2>2. copied'[n] = directory[n] /\ \A m \in Paths \ {n} : copied'[m] = copied[m]
    BY <1>3, <1>4, <2>1 DEF WalkTypes
  <2>3. IsFiniteSet(Bytes(copied')) /\ Unpacked(copied') = Unpacked(copied)
    <3>1. PICK more : more = copied'  OBVIOUS
    <3>2. /\ more[n].size = 0 /\ more[n].size \in Nat /\ IsFiniteSet(Bytes(copied)) /\ copied[n] = NoEntry
          /\ \A m \in Paths \ {n} : more[m] = copied[m]
      BY <1>3, <1>4, <2>1, <2>2, <3>1 DEF Counters
    <3>3. IsFiniteSet(Bytes(more)) /\ Unpacked(more) = Unpacked(copied) + more[n].size
      BY <1>4, <3>2, OneMoreCopy
    <3>4. Unpacked(copied) \in Nat  BY <1>3 DEF Counters, WalkTypes
    <3> QED  BY <3>1, <3>2, <3>3, <3>4
  <2>4. Counters'
    BY <1>2, <1>3, <2>3 DEF Counters, Unpacked, Bytes, Visited
  <2>5. CopiesStood'
    <3>1. directory[n].size <= FileLimit  BY <2>1, LimitsAssumption
    <3>2. n \notin unvisited'  BY <1>2, <1>4 DEF Visited
    <3> QED  BY <1>2, <1>3, <1>6, <2>2, <3>1, <3>2 DEF CopiesStood
  <2> QED  BY <1>7, <1>10, <2>4, <2>5 DEF SnapInv
<1> QED  BY <1>5, <1>8, <1>9, <1>10

\* What is read is counted, and within both bounds when it is copied.
LEMMA ReadKeeps ==
  ASSUME SnapInv, Read
  PROVE  SnapInv'
<1>1. PICK got : got = IF opened.size > FileLimit THEN FileLimit + 1 ELSE opened.size
  OBVIOUS
<1>2. /\ snapPc = "read" /\ bytes' = bytes + got
      /\ UNCHANGED <<directory, unvisited, at, listed, opened, entries, was>>
      /\ \/ snapPc' = "out of bounds" /\ UNCHANGED copied
         \/ /\ snapPc' = "walk" /\ ~ (got > FileLimit) /\ ~ (bytes' > TotalLimit)
            /\ copied' = [n \in Paths |-> IF n \in at THEN [type |-> "file", size |-> got]
                                          ELSE copied[n]]
  BY <1>1 DEF Read, Counted, directoryVars
<1>3. WalkTypes /\ Counters /\ CopiesStood /\ AtOne  BY <1>2 DEF SnapInv
<1>4. opened.size \in Nat /\ got \in Nat /\ bytes' \in Nat
  <2>1. opened.size \in Nat  BY <1>3, EntrySizes DEF WalkTypes
  <2>2. got \in Nat  BY <1>1, <2>1, LimitsAssumption
  <2>3. bytes \in Nat  BY <1>3 DEF WalkTypes
  <2>4. bytes + got \in Nat  BY <2>2, <2>3
  <2> QED  BY <1>2, <2>1, <2>2, <2>4
<1>5. CASE snapPc' = "out of bounds" /\ UNCHANGED copied
  <2>1. WalkTypes'  BY <1>2, <1>3, <1>4, <1>5 DEF WalkTypes, WalkPlaces
  <2> QED  BY <1>5, <2>1 DEF SnapInv
<1>6. CASE /\ snapPc' = "walk" /\ ~ (got > FileLimit) /\ ~ (bytes' > TotalLimit)
           /\ copied' = [n \in Paths |-> IF n \in at THEN [type |-> "file", size |-> got]
                                         ELSE copied[n]]
  <2>1. got <= FileLimit /\ bytes' <= TotalLimit /\ got = opened.size
    BY <1>1, <1>4, <1>6, LimitsAssumption
  <2>2. PICK n \in Visited :
          at = {n} /\ copied[n] = NoEntry /\ opened \in was[n] /\ opened.type = "file"
    BY <1>2, <1>3 DEF AtOne
  <2>3. n \in Paths /\ n \notin unvisited  BY <2>2 DEF Visited
  <2>4. opened = [type |-> "file", size |-> got] /\ opened \in Entries
    <3>1. opened \in Entries  BY <1>3 DEF WalkTypes
    <3>2. opened = [type |-> opened.type, size |-> opened.size]  BY <3>1 DEF Entries
    <3> QED  BY <2>1, <2>2, <3>1, <3>2
  <2>5. copied'[n] = opened /\ \A m \in Paths \ {n} : copied'[m] = copied[m]
    BY <1>6, <2>2, <2>3, <2>4
  <2>6. copied' \in [Paths -> Entries]
    <3>1. \A m \in Paths : copied'[m] \in Entries  BY <1>3, <2>4, <2>5 DEF WalkTypes
    <3> QED  BY <1>6, <3>1
  <2>7. WalkTypes'
    BY <1>2, <1>3, <1>4, <1>6, <2>6 DEF WalkTypes, WalkPlaces
  <2>8. IsFiniteSet(Bytes(copied')) /\ Unpacked(copied') = bytes'
    <3>1. PICK more : more = copied'  OBVIOUS
    <3>2. /\ more[n].size = got /\ more[n].size \in Nat /\ IsFiniteSet(Bytes(copied))
          /\ copied[n] = NoEntry /\ \A m \in Paths \ {n} : more[m] = copied[m]
      BY <1>3, <1>4, <2>1, <2>2, <2>5, <3>1 DEF Counters
    <3>3. IsFiniteSet(Bytes(more)) /\ Unpacked(more) = Unpacked(copied) + more[n].size
      BY <2>3, <3>2, OneMoreCopy
    <3>4. Unpacked(copied) = bytes  BY <1>3 DEF Counters
    <3> QED  BY <1>2, <3>1, <3>2, <3>3, <3>4
  <2>9. Counters'
    BY <1>2, <1>3, <2>1, <2>8 DEF Counters, Unpacked, Bytes, Visited
  <2>10. CopiesStood'
    BY <1>2, <1>3, <2>1, <2>2, <2>3, <2>5 DEF CopiesStood
  <2> QED  BY <1>6, <2>7, <2>9, <2>10 DEF SnapInv
<1> QED  BY <1>2, <1>5, <1>6

LEMMA BeginKeeps ==
  ASSUME SnapInv, BeginWalk
  PROVE  SnapInv'
<1>1. /\ snapPc = "idle" /\ snapPc' = "walk" /\ unvisited' = Paths
      /\ was' = [n \in Paths |-> {directory[n]}]
      /\ UNCHANGED <<directory, at, listed, opened, copied, entries, bytes>>
  BY DEF BeginWalk, directoryVars
<1>2. /\ WalkTypes /\ entries = 0 /\ bytes = 0 /\ copied = [n \in Paths |-> NoEntry]
  BY <1>1 DEF SnapInv
<1>3. WalkTypes'
  <2>1. was' \in [Paths -> SUBSET Entries]  BY <1>1, <1>2 DEF WalkTypes
  <2> QED  BY <1>1, <1>2, <2>1 DEF WalkTypes, WalkPlaces
<1>4. Counters'
  <2>1. Visited' = {}  BY <1>1 DEF Visited
  <2>2. IsFiniteSet(Bytes(copied)) /\ Unpacked(copied) = 0  BY <1>2, NothingCopied
  <2>3. IsFiniteSet(Visited') /\ Cardinality(Visited') = 0  BY <2>1, FS_EmptySet
  <2> QED  BY <1>1, <1>2, <2>2, <2>3, LimitsAssumption DEF Counters, Unpacked, Bytes
<1>5. CopiesStood'  BY <1>1, <1>2 DEF CopiesStood, NoEntry
<1> QED  BY <1>1, <1>3, <1>4, <1>5 DEF SnapInv

LEMMA MeanwhileKeeps ==
  ASSUME SnapInv, EditMeanwhile
  PROVE  SnapInv'
<1>1. /\ was' = IF snapPc = "idle" THEN was ELSE [n \in Paths |-> was[n] \cup {directory'[n]}]
      /\ opened' \in {opened} \cup
           IF snapPc # "read" THEN {}
           ELSE {directory'[n] : n \in {n \in at : /\ directory[n].type = "file"
                                                   /\ directory'[n].type = "file"
                                                   /\ directory'[n] # directory[n]}}
      /\ UNCHANGED <<snapPc, unvisited, at, listed, copied, entries, bytes>>
  BY DEF EditMeanwhile
<1>2. WalkTypes  BY DEF SnapInv
<1>3. directory' \in [Paths -> Entries]
  BY <1>2, DirectoryKept DEF EditMeanwhile, WalkTypes
<1>4. was' \in [Paths -> SUBSET Entries]
  <2>1. \A n \in Paths : was[n] \cup {directory'[n]} \in SUBSET Entries
    BY <1>2, <1>3 DEF WalkTypes
  <2> QED  BY <1>1, <1>2, <2>1 DEF WalkTypes
<1>5. opened' \in Entries  BY <1>1, <1>2, <1>3 DEF WalkTypes
<1>6. WalkTypes'  BY <1>1, <1>2, <1>3, <1>4, <1>5 DEF WalkTypes, WalkPlaces
<1>7. Counters => Counters'
  BY <1>1 DEF Counters, Unpacked, Bytes, Visited
<1>8. ASSUME snapPc # "idle", NEW n \in Paths
      PROVE  was'[n] = was[n] \cup {directory'[n]}
  BY <1>1, <1>8
<1>9. snapPc # "idle" /\ CopiesStood => CopiesStood'
  BY <1>1, <1>8 DEF CopiesStood
<1>10. snapPc \in {"open", "read"} /\ AtOne => AtOne'
  <2> SUFFICES ASSUME snapPc \in {"open", "read"}, AtOne  PROVE AtOne'
    OBVIOUS
  <2>1. PICK n \in Visited :
          /\ at = {n} /\ copied[n] = NoEntry
          /\ snapPc = "open" => listed.type \in {"file", "directory"}
          /\ snapPc = "read" => opened \in was[n] /\ opened.type = "file"
    BY DEF AtOne
  <2>2. n \in Paths /\ Visited' = Visited  BY <1>1, <2>1 DEF Visited
  <2>3. snapPc = "read" => opened' \in was'[n] /\ opened'.type = "file"
    BY <1>1, <1>8, <2>1, <2>2
  <2> QED  BY <1>1, <2>1, <2>2, <2>3 DEF AtOne
<1> QED  BY <1>1, <1>6, <1>7, <1>9, <1>10 DEF SnapInv

LEMMA SnapKeeps == SnapInv /\ [SnapshotNext]_snapshotVars => SnapInv'
<1> SUFFICES ASSUME SnapInv, [SnapshotNext]_snapshotVars  PROVE SnapInv'
  OBVIOUS
<1>1. CASE BeginWalk      BY <1>1, BeginKeeps
<1>2. CASE Look           BY <1>2, LookKeeps
<1>3. CASE Open           BY <1>3, OpenKeeps
<1>4. CASE Read           BY <1>4, ReadKeeps
<1>5. CASE EndWalk
  <2>1. /\ snapPc = "walk" /\ snapPc' = "copied"
        /\ UNCHANGED <<directory, unvisited, at, listed, opened, copied, entries, bytes, was>>
    BY <1>5 DEF EndWalk, directoryVars
  <2> QED  BY <2>1 DEF SnapInv, WalkTypes, WalkPlaces, Counters, CopiesStood, Unpacked, Bytes,
                       Visited
<1>6. CASE EditMeanwhile  BY <1>6, MeanwhileKeeps
<1>7. CASE UNCHANGED snapshotVars
  <2>1. UNCHANGED <<directory, snapPc, unvisited, at, listed, opened, copied, entries, bytes, was>>
    BY <1>7 DEF snapshotVars, directoryVars, walkVars
  <2> QED  BY <2>1 DEF SnapInv, WalkTypes, Counters, CopiesStood, AtOne, Unpacked, Bytes, Visited
<1> QED  BY <1>1, <1>2, <1>3, <1>4, <1>5, <1>6, <1>7 DEF SnapshotNext

\* What _snapshot of sandbox.py ends with is within the three bounds, whatever
\* they are, and each file of it is one that stood under its path while the
\* walk went on, whatever was done to the directory between its four looks.
THEOREM SnapshotAlwaysBounded == SnapshotSpec => []SnapshotIsBounded
<1>1. ASSUME SnapInv  PROVE SnapshotIsBounded
  <2> SUFFICES ASSUME snapPc = "copied"
               PROVE  /\ Cardinality(Present(copied)) <= EntryLimit
                      /\ Unpacked(copied) <= TotalLimit
                      /\ \A n \in Present(copied) : copied[n] \in was[n] /\ copied[n].size <= FileLimit
    BY DEF SnapshotIsBounded
  <2>1. Counters /\ CopiesStood /\ entries \in Nat  BY <1>1 DEF SnapInv, WalkTypes
  <2>2. Present(copied) \subseteq Visited
    BY <2>1 DEF Present, CopiesStood, NoEntry, Visited
  <2>3. /\ IsFiniteSet(Present(copied)) /\ Cardinality(Present(copied)) <= Cardinality(Visited)
    BY <2>1, <2>2, FS_Subset DEF Counters
  <2>4. Cardinality(Present(copied)) \in Nat  BY <2>3, FS_CardinalityType
  <2>5. Cardinality(Present(copied)) <= EntryLimit
    BY <2>1, <2>3, <2>4, LimitsAssumption DEF Counters
  <2>6. Unpacked(copied) <= TotalLimit  BY <2>1 DEF Counters
  <2>7. \A n \in Present(copied) : copied[n] \in was[n] /\ copied[n].size <= FileLimit
    BY <2>1 DEF CopiesStood, Present
  <2> QED  BY <2>5, <2>6, <2>7
<1> QED  BY <1>1, SnapStarts, SnapKeeps, PTL DEF SnapshotSpec

-----------------------------------------------------------------------------
(***************************************************************************)
(* Qualification                                                           *)
(***************************************************************************)

\* Induction over the naturals, as the least one with a property.
LEMMA LeastNatural ==
  ASSUME NEW S \in SUBSET Nat, S # {}
  PROVE  \E m \in S : \A n \in S : m <= n
<1>1. PICK below : below = {x \in Nat \X Nat : x[1] < x[2]}
  OBVIOUS
<1>2. IsWellFoundedOn(below, Nat)
  <2>1. PICK lt : lt = OpToRel(<, Nat)
    OBVIOUS
  <2>2. IsWellFoundedOn(lt, Nat)  BY <2>1, NatLessThanWellFounded
  <2>3. below = lt  BY <1>1, <2>1 DEF OpToRel
  <2> QED  BY <2>2, <2>3
<1>3. PICK m \in S : \A n \in S : ~ (<<n, m>> \in below)
  BY <1>2, WFMin
<1>4. ASSUME NEW n \in S  PROVE m <= n
  <2>1. <<n, m>> \in Nat \X Nat /\ <<n, m>>[1] = n /\ <<n, m>>[2] = m  OBVIOUS
  <2>2. ~ (n < m)  BY <1>1, <1>3, <2>1
  <2> QED  BY <2>2
<1> QED  BY <1>4

LEMMA MinIsLeast ==
  ASSUME NEW S \in SUBSET Nat, S # {}
  PROVE  Min(S) \in S /\ \A n \in S : Min(S) <= n
  BY LeastNatural DEF Min

IssuedReceipts ==
  [artifact : Artifacts, environment : Environments, layer : Layers,
   asserts : {{}} \cup {{<<c, m>>} : c \in Capabilities, m \in Modes},
   expires : Nat, flaw : Flaws \cup {"none"}]

\* Receipts that a row stands on: they outlast it, and are all it says.
StandsOn(row, held) ==
  /\ \A r \in held : r.artifact = row.artifact /\ r.flaw = "none" /\ row.expires <= r.expires
  /\ row.qualified => {r.layer : r \in held} = RequiredLayers(row.artifact)
  /\ row.capabilities = UNION {r.asserts : r \in held}
  /\ \A c \in Capabilities : ~ ({<<c, "native">>, <<c, "forbidden">>} \subseteq row.capabilities)

QualInv ==
  /\ day \in Nat /\ evidence \in Seq(IssuedReceipts)
  /\ \A row \in matrix :
       row.expires \in Nat /\ \E held \in SUBSET Range(evidence) : StandsOn(row, held)

LEMMA ReceiptsFit ==
  ASSUME NEW r \in SoundReceipts, NEW s \in {r} \cup Flawed(r)
  PROVE  s \in IssuedReceipts
<1>1. r \in IssuedReceipts
  <2>1. 1..MaxDay \subseteq Nat /\ "none" \in Flaws \cup {"none"}  BY LayersAssumption
  <2> QED  BY <2>1 DEF SoundReceipts, IssuedReceipts
<1>2. \A f \in Flaws : [r EXCEPT !.flaw = f] \in IssuedReceipts
  BY <1>1 DEF IssuedReceipts
<1> QED  BY <1>1, <1>2 DEF Flawed

\* A row of a coherent collection stands on the receipts of its artifact.
LEMMA RowStands ==
  ASSUME evidence \in Seq(IssuedReceipts), IsCoherent, NEW a \in Artifacts, Of(a) # {}
  PROVE  /\ Row(a).expires \in Nat
         /\ \E held \in SUBSET Range(evidence) : StandsOn(Row(a), held)
<1>1. PICK held : held = {evidence[i] : i \in Of(a)}
  OBVIOUS
<1>2. PICK ends : ends = {evidence[i].expires : i \in Of(a)}
  OBVIOUS
<1>3. PICK row : row = Row(a)
  OBVIOUS
<1>4. /\ row.artifact = a /\ row.capabilities = Assertions(a) /\ row.expires = Min(ends)
      /\ row.qualified <=> {evidence[i].layer : i \in Of(a)} = RequiredLayers(a)
  BY <1>2, <1>3 DEF Row, ExpiresAt
<1>5. \A i \in DOMAIN evidence : evidence[i] \in IssuedReceipts /\ evidence[i].expires \in Nat
  <2>1. \A i \in DOMAIN evidence : evidence[i] \in IssuedReceipts  OBVIOUS
  <2>2. \A r \in IssuedReceipts : r.expires \in Nat  BY DEF IssuedReceipts
  <2> QED  BY <2>1, <2>2
<1>6. ends \in SUBSET Nat /\ ends # {}  BY <1>2, <1>5 DEF Of
<1>7. row.expires \in Nat /\ \A e \in ends : row.expires <= e
  <2>1. Min(ends) \in ends /\ \A e \in ends : Min(ends) <= e  BY <1>6, MinIsLeast
  <2> QED  BY <1>4, <1>6, <2>1
<1>8. held \in SUBSET Range(evidence)  BY <1>1 DEF Of, Range
<1>9. ASSUME NEW r \in held
      PROVE  r.artifact = row.artifact /\ r.flaw = "none" /\ row.expires <= r.expires
  <2>1. PICK i \in Of(a) : r = evidence[i]  BY <1>1
  <2>2. r.artifact = a /\ r.expires \in ends  BY <1>2, <2>1 DEF Of
  <2>3. IsValid(r)  BY <1>8 DEF IsCoherent
  <2> QED  BY <1>4, <1>7, <2>2, <2>3 DEF IsValid
<1>10. row.qualified => {r.layer : r \in held} = RequiredLayers(row.artifact)
  <2>1. {r.layer : r \in held} = {evidence[i].layer : i \in Of(a)}  BY <1>1
  <2> QED  BY <1>4, <2>1
<1>11. row.capabilities = UNION {r.asserts : r \in held}
  <2>1. {r.asserts : r \in held} = {evidence[i].asserts : i \in Of(a)}  BY <1>1
  <2> QED  BY <1>4, <2>1 DEF Assertions
<1>12. \A c \in Capabilities : ~ ({<<c, "native">>, <<c, "forbidden">>} \subseteq row.capabilities)
  <2> SUFFICES ASSUME NEW c \in Capabilities, <<c, "native">> \in Assertions(a),
                      <<c, "forbidden">> \in Assertions(a)
               PROVE  FALSE
    BY <1>4
  <2>1. <<c, "native">>[1] = <<c, "forbidden">>[1] => <<c, "native">> = <<c, "forbidden">>
    BY DEF IsCoherent
  <2> QED  BY <2>1
<1> QED  BY <1>3, <1>7, <1>8, <1>9, <1>10, <1>11, <1>12 DEF StandsOn

LEMMA QualKeeps == QualInv /\ [QualificationNext]_qualificationVars => QualInv'
<1> SUFFICES ASSUME QualInv, [QualificationNext]_qualificationVars  PROVE QualInv'
  OBVIOUS
<1>1. CASE IssueReceipt
  <2>1. PICK s \in IssuedReceipts : evidence' = Append(evidence, s)
    BY <1>1, ReceiptsFit DEF IssueReceipt
  <2>2. UNCHANGED <<day, matrix>>  BY <1>1 DEF IssueReceipt
  <2>3. PICK longer : longer = evidence'  OBVIOUS
  <2>4. /\ longer \in Seq(IssuedReceipts)
        /\ DOMAIN evidence \subseteq DOMAIN longer
        /\ \A i \in DOMAIN evidence : longer[i] = evidence[i]
    <3>1. /\ longer \in Seq(IssuedReceipts)
          /\ DOMAIN evidence = 1..Len(evidence) /\ Len(evidence) \in Nat
          /\ DOMAIN longer = 1..(Len(evidence) + 1)
          /\ \A i \in DOMAIN evidence : longer[i] = evidence[i]
      BY <2>1, <2>3, OneMoreRow DEF QualInv
    <3> QED  BY <3>1
  <2>5. Range(evidence) \subseteq Range(longer)  BY <2>4 DEF Range
  <2>6. \A row \in matrix :
          row.expires \in Nat /\ \E held \in SUBSET Range(longer) : StandsOn(row, held)
    BY <2>5 DEF QualInv
  <2> QED  BY <2>2, <2>3, <2>4, <2>6 DEF QualInv, StandsOn
<1>2. CASE GenerateMatrix
  <2>1. /\ IsCoherent /\ UNCHANGED <<day, evidence>>
        /\ matrix' = {Row(a) : a \in {a \in Artifacts : Of(a) # {}}}
    BY <1>2 DEF GenerateMatrix
  <2>2. \A row \in matrix' :
          row.expires \in Nat /\ \E held \in SUBSET Range(evidence) : StandsOn(row, held)
    BY <2>1, RowStands DEF QualInv
  <2> QED  BY <2>1, <2>2 DEF QualInv, StandsOn
<1>3. CASE DayPasses
  <2>1. UNCHANGED <<evidence, matrix>> /\ day' \in Nat  BY <1>3 DEF DayPasses, QualInv
  <2> QED  BY <2>1 DEF QualInv, StandsOn
<1>4. CASE UNCHANGED qualificationVars
  BY <1>4 DEF qualificationVars, QualInv, StandsOn
<1> QED  BY <1>1, <1>2, <1>3, <1>4 DEF QualificationNext

\* A row of capability_matrix (conformance/qualification.py) that says
\* qualified and has not expired stands on receipts without a flaw, none of
\* them expired, one for each layer of its artifact and at odds over no
\* capability: however many there are, and whatever is issued after it.
THEOREM RowsAlwaysStand == QualificationSpec => []QualifiedRowsStand
<1>1. QualificationInit => QualInv
  BY DEF QualificationInit, QualInv
<1>2. ASSUME QualInv  PROVE QualifiedRowsStand
  <2> SUFFICES ASSUME NEW row \in matrix, row.qualified, day < row.expires
               PROVE  \E held \in SUBSET Range(evidence) :
                        /\ \A r \in held : /\ r.artifact = row.artifact
                                           /\ r.flaw = "none" /\ day < r.expires
                        /\ {r.layer : r \in held} = RequiredLayers(row.artifact)
                        /\ row.capabilities = UNION {r.asserts : r \in held}
                        /\ \A c \in Capabilities :
                             ~ ({<<c, "native">>, <<c, "forbidden">>} \subseteq row.capabilities)
    BY DEF QualifiedRowsStand
  <2>1. PICK held \in SUBSET Range(evidence) : StandsOn(row, held)
    BY <1>2 DEF QualInv
  <2>2. day \in Nat /\ row.expires \in Nat /\ \A r \in held : r.expires \in Nat
    <3>1. \A i \in DOMAIN evidence : evidence[i] \in IssuedReceipts  BY <1>2 DEF QualInv
    <3>2. \A r \in held : r \in IssuedReceipts  BY <3>1 DEF Range
    <3> QED  BY <1>2, <3>2 DEF QualInv, IssuedReceipts
  <2>3. \A r \in held : day < r.expires  BY <2>1, <2>2 DEF StandsOn
  <2> QED  BY <2>1, <2>3 DEF StandsOn
<1> QED  BY <1>1, <1>2, QualKeeps, PTL DEF QualificationSpec

-----------------------------------------------------------------------------
(***************************************************************************)
(* WorkingCommands: a behaviour of the whole is one of each of its parts   *)
(***************************************************************************)

\* Where nothing is copied, no copy has begun.
CopyAlone == work # "copy" => snapPc = "idle"

LEMMA AlwaysAlone == WorkingSpec => []CopyAlone
<1>1. WorkingInit => CopyAlone  BY DEF WorkingInit, SnapshotInit, CopyAlone
<1>2. CopyAlone /\ [WorkingNext]_allVars => CopyAlone'
  <2> SUFFICES ASSUME CopyAlone, [WorkingNext]_allVars  PROVE CopyAlone'
    OBVIOUS
  <2>1. UNCHANGED work  BY DEF WorkingNext, allVars
  <2>2. work = "copy" \/ snapPc' = snapPc
    BY DEF WorkingNext, allVars, copyVars, walkVars, ChangeTicket, HandOutWork, Decide, List,
           Publish, Package, Copy, Qualify
  <2> QED  BY <2>1, <2>2 DEF CopyAlone
<1> QED  BY <1>1, <1>2, PTL DEF WorkingSpec

\* A step of the whole is a step of each part, or leaves it alone; an edit of
\* the directory is one for both who read it.
LEMMA StepsOfParts ==
  ASSUME [WorkingNext]_allVars, CopyAlone
  PROVE  /\ [Next]_vars /\ [WorkNext]_workVars /\ [DecisionNext]_decisionVars
         /\ [IterNext]_iterVars /\ [PublishingNext]_publishingVars
         /\ [PackagingNext]_packagingVars /\ [SnapshotNext]_snapshotVars
         /\ [QualificationNext]_qualificationVars
<1>1. CASE ChangeTicket
  BY <1>1 DEF ChangeTicket, packagingVars, snapshotVars, copyVars
<1>2. CASE HandOutWork
  BY <1>2 DEF HandOutWork, packagingVars, snapshotVars, copyVars
<1>3. CASE Decide
  BY <1>3 DEF Decide, packagingVars, snapshotVars, copyVars
<1>4. CASE List
  BY <1>4 DEF List, packagingVars, snapshotVars, copyVars
<1>5. CASE Publish
  BY <1>5 DEF Publish, packagingVars, snapshotVars, copyVars
<1>6. CASE Package
  <2>1. /\ PackagingNext /\ UNCHANGED <<walkVars, was>> /\ snapPc = "idle"
        /\ UNCHANGED <<vars, workVars, decisionVars, iterVars, publishingVars, qualificationVars>>
    BY <1>6 DEF Package, copyVars, CopyAlone
  <2>2. [SnapshotNext]_snapshotVars
    <3>1. CASE Edit
      BY <2>1, <3>1 DEF SnapshotNext, EditMeanwhile, walkVars
    <3>2. CASE UNCHANGED directoryVars
      BY <2>1, <3>2 DEF snapshotVars
    <3> QED
      BY <2>1, <3>1, <3>2 DEF PackagingNext, EditPackage, Validate, OpenArchive, WriteArchive,
                              PackAgain
  <2> QED  BY <2>1, <2>2
<1>7. CASE Copy
  <2>1. /\ SnapshotNext /\ UNCHANGED packingVars
        /\ UNCHANGED <<vars, workVars, decisionVars, iterVars, publishingVars, qualificationVars>>
    BY <1>7 DEF Copy
  <2>2. [PackagingNext]_packagingVars
    <3>1. CASE Edit
      BY <2>1, <3>1 DEF PackagingNext, EditPackage
    <3>2. CASE UNCHANGED directoryVars
      BY <2>1, <3>2 DEF packagingVars
    <3> QED
      BY <2>1, <3>1, <3>2 DEF SnapshotNext, BeginWalk, Look, Open, Read, EndWalk, EditMeanwhile
  <2> QED  BY <2>1, <2>2
<1>8. CASE Qualify
  BY <1>8 DEF Qualify, packagingVars, snapshotVars, copyVars
<1>9. CASE UNCHANGED allVars
  BY <1>9 DEF allVars, packagingVars, snapshotVars, copyVars
<1> QED
  BY <1>1, <1>2, <1>3, <1>4, <1>5, <1>6, <1>7, <1>8, <1>9 DEF WorkingNext

LEMMA WorksAreRuns ==
  WorkingSpec => /\ Spec /\ WorkSpec /\ DecisionSpec /\ IterSpec /\ PublishingSpec
                 /\ PackagingSpec /\ SnapshotSpec /\ QualificationSpec
<1>1. WorkingInit => /\ Init /\ WorkInit /\ DecisionInit /\ IterInit /\ PublishingInit
                     /\ PackagingInit /\ SnapshotInit /\ QualificationInit
  BY DEF WorkingInit
<1> QED
  BY <1>1, AlwaysAlone, StepsOfParts, PTL
  DEF WorkingSpec, Spec, WorkSpec, DecisionSpec, IterSpec, PublishingSpec, PackagingSpec,
      SnapshotSpec, QualificationSpec

\* Whichever of these programs runs, and however often: its ticket answers are
\* history, its tasks are of one chain and resumed, its decision takes effect
\* once and is told truly, what it lists it lists once, what it publishes was
\* confirmed, what it packs passes, what it copies is bounded, and what it
\* qualifies stands.
THEOREM WorksAlwaysTrue ==
  WorkingSpec => [](/\ ReceiptsAreHistory /\ AnswersAreReceipts /\ ResumesTasks /\ OneChain
                    /\ DecisionIsTrue /\ OrdersTakeEffectOnce /\ ListedOnce
                    /\ AcceptedIsConfirmed /\ PackagesPassInspection /\ SnapshotIsBounded
                    /\ QualifiedRowsStand)
  BY WorksAreRuns, ReceiptsAlwaysHistory, AnswersAlwaysReceipts, TasksAlwaysResumed,
     ChainAlwaysOne, DecisionsAlwaysTrue, OrdersAlwaysOnce, ListedAlwaysOnce,
     AcceptedAlwaysConfirmed, PackagesAlwaysPass, SnapshotAlwaysBounded, RowsAlwaysStand, PTL

\* Whichever of these programs runs, the transactions of the record example
\* implement changes made and answered in one step (AtomicChanges).
THEOREM WorksAlwaysAtomic == WorkingSpec => ChangesAreAtomic
  BY WorksAreRuns, ChangesAlwaysAtomic, PTL
-----------------------------------------------------------------------------
(***************************************************************************)
(* The types of all of them                                                *)
(***************************************************************************)

\* TaskWorkflow: how much a program holds, and the cell.
Lengths ==
  /\ flow \in [Workers -> Flows \cup {NoFlow}]
  /\ \A p \in Workers : Len(refs[p]) <= 2 /\ Len(results[p]) <= 3
  /\ Len(uploads) <= MaxUploads

LEMMA LengthsKept ==
  ASSUME WorkInv, Lengths, [WorkNext]_workVars
  PROVE  Lengths'
<1>1. /\ flowPc \in [Workers -> {"idle", "upload", "create", "wait", "done"}]
      /\ stage \in [Workers -> 1..3] /\ refs \in [Workers -> Seq(Nat)]
      /\ results \in [Workers -> Seq(AgentResults)]
  BY DEF WorkInv, FlowsOK
<1>2. ASSUME NEW p \in Workers, StartProgram(p)  PROVE Lengths'
  BY <1>2 DEF StartProgram, cellVars, Lengths
<1>3. ASSUME NEW p \in Workers, Upload(p)  PROVE Lengths'
  <2>1. flowPc[p] = "upload" /\ UNCHANGED <<flow, results>>  BY <1>3 DEF Upload
  <2>2. Len(refs[p]) <= 1
    <3>1. Program(p)  BY DEF WorkInv
    <3>2. RefsOf(p)  BY <2>1, <3>1 DEF Program, AtWork
    <3>3. Len(refs[p]) \in {0, 1}  BY <2>1, <3>2 DEF RefsOf
    <3>4. PICK n : n = Len(refs[p])  OBVIOUS
    <3>5. n \in {0, 1}  BY <3>3, <3>4, Zenon
    <3>6. n <= 1  BY <3>5
    <3> QED  BY <3>4, <3>6, Zenon
  <2>3. Len(uploads') <= MaxUploads
    <3>1. \/ UNCHANGED uploads
          \/ Len(uploads) < MaxUploads /\ \E row : uploads' = Append(uploads, row)
      BY <1>3 DEF Upload
    <3>2. uploads \in Seq(UploadRows)  BY DEF WorkInv, CellOK
    <3>3. Len(uploads) \in Nat  BY <3>2
    <3>4. \A row : Len(Append(uploads, row)) = Len(uploads) + 1  BY <3>2
    <3> QED  BY <3>1, <3>3, <3>4, UploadsAssumption DEF Lengths
  <2>4. UNCHANGED refs \/ \E n : refs' = [refs EXCEPT ![p] = Append(@, n)]
    BY <1>3 DEF Upload
  <2>5. \A q \in Workers : Len(refs'[q]) <= 2
    <3> SUFFICES ASSUME NEW q \in Workers, NEW n, refs' = [refs EXCEPT ![p] = Append(@, n)]
                 PROVE  Len(refs'[q]) <= 2
      BY <2>4 DEF Lengths
    <3>1. refs[p] \in Seq(Nat)  BY <1>1
    <3>2. Len(Append(refs[p], n)) = Len(refs[p]) + 1 /\ Len(refs[p]) \in Nat  BY <3>1
    <3>3. CASE q = p  BY <1>1, <2>2, <3>2, <3>3
    <3>4. CASE q # p  BY <1>1, <3>4 DEF Lengths
    <3> QED  BY <3>3, <3>4
  <2> QED  BY <2>1, <2>3, <2>5 DEF Lengths
<1>4. ASSUME NEW p \in Workers, CreateTask(p) \/ GiveUp(p)  PROVE Lengths'
  <2>1. UNCHANGED <<flow, refs, results, uploads>>  BY <1>4 DEF CreateTask, GiveUp, cellVars
  <2> QED  BY <2>1 DEF Lengths
<1>5. ASSUME NEW p \in Workers, TakeResult(p)  PROVE Lengths'
  <2>1. flowPc[p] = "wait" /\ UNCHANGED <<flow, uploads>>  BY <1>5 DEF TakeResult, cellVars
  <2>2. \/ UNCHANGED <<refs, results>>
        \/ /\ refs' = [refs EXCEPT ![p] = <<>>]
           /\ \E r : results' = [results EXCEPT ![p] = Append(@, r)]
    BY <1>5 DEF TakeResult
  <2>3. Len(results[p]) <= 2 /\ results[p] \in Seq(AgentResults) /\ Len(results[p]) \in Nat
    <3>1. Len(results[p]) = stage[p] - 1  BY <2>1 DEF WorkInv, Program, AtWork
    <3>2. stage[p] \in 1..3 /\ results[p] \in Seq(AgentResults)  BY <1>1
    <3> QED  BY <3>1, <3>2
  <2>4. ASSUME NEW q \in Workers, NEW r, refs' = [refs EXCEPT ![p] = <<>>],
               results' = [results EXCEPT ![p] = Append(@, r)]
        PROVE  Len(refs'[q]) <= 2 /\ Len(results'[q]) <= 3
    <3>1. Len(Append(results[p], r)) = Len(results[p]) + 1  BY <2>3
    <3>2. CASE q = p  BY <1>1, <2>3, <2>4, <3>1, <3>2
    <3>3. CASE q # p  BY <1>1, <2>4, <3>3 DEF Lengths
    <3> QED  BY <3>2, <3>3
  <2> QED  BY <2>1, <2>2, <2>4 DEF Lengths
<1>6. CASE AgentEnds \/ UNCHANGED workVars
  <2>1. UNCHANGED <<flow, refs, results, uploads>>
    BY <1>6 DEF AgentEnds, workVars, flowVars, cellVars
  <2> QED  BY <2>1 DEF Lengths
<1> QED  BY <1>2, <1>3, <1>4, <1>5, <1>6 DEF WorkNext

LEMMA WorkTypesAlways == WorkSpec => []WorkTypeOK
<1>1. WorkInit => Lengths
  BY UploadsAssumption DEF WorkInit, Lengths
<1>2. ASSUME WorkInv, Lengths  PROVE WorkTypeOK
  <2>1. \A p \in Workers : Len(refs[p]) \in Nat /\ Len(results[p]) \in Nat
    <3>1. \A p \in Workers : refs[p] \in Seq(Nat) /\ results[p] \in Seq(AgentResults)
      BY <1>2 DEF WorkInv, FlowsOK
    <3> QED  BY <3>1
  <2>2. Len(uploads) \in Nat
    <3>1. uploads \in Seq(UploadRows)  BY <1>2 DEF WorkInv, CellOK
    <3> QED  BY <3>1
  <2>3. ASSUME NEW p \in Workers  PROVE Len(refs[p]) \in 0..2 /\ Len(results[p]) \in 0..3
    <3>1. Len(refs[p]) <= 2 /\ Len(results[p]) <= 3  BY <1>2 DEF Lengths
    <3>2. PICK n, m : n = Len(refs[p]) /\ m = Len(results[p])  OBVIOUS
    <3>3. n \in 0..2 /\ m \in 0..3
      <4>1. n \in Nat /\ m \in Nat /\ n <= 2 /\ m <= 3  BY <2>1, <3>1, <3>2, Zenon
      <4> QED  BY <4>1
    <3> QED  BY <3>2, <3>3, Zenon
  <2>4. Len(uploads) \in 0..MaxUploads  BY <1>2, <2>2, UploadsAssumption DEF Lengths
  <2>5. /\ flow \in [Workers -> Flows \cup {NoFlow}]
        /\ flowPc \in [Workers -> {"idle", "upload", "create", "wait", "done"}]
        /\ stage \in [Workers -> 1..3]
        /\ outcome \in [Workers -> {"none", "unsupported", "lost", "reused", "created",
                                     "ended failed", "finished"}]
    BY <1>2 DEF WorkInv, FlowsOK, Lengths
  <2> QED  BY <2>3, <2>4, <2>5 DEF WorkTypeOK
<1> QED  BY <1>1, <1>2, LengthsKept, WorkInvariant, PTL DEF WorkSpec

\* Packaging, Snapshot: the edits, and what the walk counts, wherever it ends.
EditsOK == edits \in 0..MaxEdits

LEMMA EditsKept == ASSUME EditsOK, Edit \/ UNCHANGED edits PROVE EditsOK'
  BY LimitsAssumption DEF EditsOK, Edit

PackTypes ==
  /\ EditsOK /\ packPc \in {"idle", "open", "write", "packed", "refused"}
  /\ made => archive # <<>> /\ archive[1] = "whole"

LEMMA PackTypesKept ==
  ASSUME PackInv, PackTypes, [PackagingNext]_packagingVars
  PROVE  PackTypes'
<1>1. EditsOK'
  <2>1. Edit \/ UNCHANGED edits
    BY DEF PackagingNext, EditPackage, Validate, OpenArchive, WriteArchive, PackAgain,
           directoryVars, packagingVars
  <2> QED  BY <2>1, EditsKept DEF PackTypes
<1>2. packPc' \in {"idle", "open", "write", "packed", "refused"}
  BY DEF PackTypes, PackagingNext, EditPackage, Validate, OpenArchive, WriteArchive, PackAgain,
         packingVars, packagingVars
<1>3. made' => archive' # <<>> /\ archive'[1] = "whole"
  <2>1. \/ UNCHANGED <<archive, made>> \/ ~ made'
        \/ archive' = <<"whole", Zipped(directory)>>
    BY DEF PackInv, PackagingNext, EditPackage, Validate, OpenArchive, WriteArchive, PackAgain,
           packingVars, packagingVars
  <2>2. \A z : <<"whole", z>> # <<>> /\ <<"whole", z>>[1] = "whole"  OBVIOUS
  <2> QED  BY <2>1, <2>2 DEF PackTypes
<1> QED  BY <1>1, <1>2, <1>3 DEF PackTypes

LEMMA PackagingTypesAlways == PackagingSpec => []PackagingTypeOK
<1>1. PackagingInit => PackInv /\ PackTypes
  BY DirectoryStarts, LimitsAssumption
  DEF PackagingInit, DirectoryInit, PackInv, PackagesPassInspection, PackTypes, EditsOK
<1>2. PackInv /\ PackTypes => PackagingTypeOK
  BY DEF PackInv, PackTypes, EditsOK, PackagingTypeOK
<1> QED  BY <1>1, <1>2, PackKeeps, PackTypesKept, PTL DEF PackagingSpec

WalkCounts ==
  /\ EditsOK
  /\ at = {} \/ \E n \in Paths : at = {n}
  /\ entries = IF snapPc = "idle" THEN 0 ELSE Cardinality(Visited)
  /\ bytes <= TotalLimit + FileLimit + 1

LEMMA WalkCountsKept ==
  ASSUME SnapInv, WalkCounts, [SnapshotNext]_snapshotVars
  PROVE  WalkCounts'
<1>1. EditsOK'
  <2>1. Edit \/ UNCHANGED edits
    BY DEF SnapshotNext, BeginWalk, Look, Open, Read, EndWalk, EditMeanwhile, directoryVars,
           snapshotVars
  <2> QED  BY <2>1, EditsKept DEF WalkCounts
<1>2. at' = {} \/ \E n \in Paths : at' = {n}
  BY DEF WalkCounts, SnapInv, WalkTypes, SnapshotNext, BeginWalk, Look, Open, Read, EndWalk,
         EditMeanwhile, walkVars, snapshotVars
<1>3. bytes' <= TotalLimit + FileLimit + 1
  <2>1. CASE Read
    <3>1. bytes <= TotalLimit /\ bytes \in Nat /\ opened.size \in Nat
      BY <2>1, EntrySizes DEF Read, SnapInv, WalkTypes, Counters
    <3>2. bytes' = bytes + IF opened.size > FileLimit THEN FileLimit + 1 ELSE opened.size
      BY <2>1 DEF Read, Counted
    <3> QED  BY <3>1, <3>2, LimitsAssumption
  <2>2. CASE UNCHANGED bytes  BY <2>2 DEF WalkCounts
  <2> QED
    BY <2>1, <2>2 DEF SnapshotNext, BeginWalk, Look, Open, EndWalk, EditMeanwhile, walkVars,
                      snapshotVars
<1>4. entries' = IF snapPc' = "idle" THEN 0 ELSE Cardinality(Visited)'
  <2>1. CASE BeginWalk
    <3>1. Visited' = {} /\ entries' = 0 /\ snapPc' = "walk"
      BY <2>1 DEF BeginWalk, Visited, WalkCounts
    <3> QED  BY <3>1, FS_EmptySet
  <2>2. CASE Look
    <3>1. PICK n \in unvisited : unvisited' = unvisited \ {n} /\ entries' = entries + 1
      BY <2>2 DEF Look
    <3>2. snapPc = "walk" /\ snapPc' # "idle"
      BY <2>2 DEF Look
    <3>3. Visited' = Visited \cup {n} /\ n \notin Visited
      BY <3>1 DEF Visited, SnapInv, WalkTypes
    <3>4. IsFiniteSet(Visited)  BY LimitsAssumption, FS_Subset DEF Visited
    <3>5. Cardinality(Visited') = Cardinality(Visited) + 1  BY <3>3, <3>4, FS_AddElement
    <3> QED  BY <3>1, <3>2, <3>5 DEF WalkCounts
  <2>3. CASE Open \/ Read \/ EndWalk
    <3>1. UNCHANGED <<unvisited, entries>> /\ snapPc # "idle" /\ snapPc' # "idle"
      <4>1. UNCHANGED <<unvisited, entries>> /\ snapPc # "idle"
        BY <2>3 DEF Open, Read, EndWalk
      <4>2. Read \/ EndWalk => snapPc' # "idle"  BY DEF Read, EndWalk
      <4>3. Open => snapPc' # "idle"
        <5> SUFFICES ASSUME Open  PROVE snapPc' # "idle"
          OBVIOUS
        <5>1. listed.type \in {"file", "directory"}  BY DEF Open, SnapInv, AtOne
        <5> QED  BY <5>1 DEF Open
      <4> QED  BY <2>3, <4>1, <4>2, <4>3
    <3> QED  BY <3>1 DEF WalkCounts, Visited
  <2>4. CASE EditMeanwhile \/ UNCHANGED snapshotVars
    BY <2>4 DEF EditMeanwhile, snapshotVars, walkVars, WalkCounts, Visited
  <2> QED  BY <2>1, <2>2, <2>3, <2>4 DEF SnapshotNext
<1> QED  BY <1>1, <1>2, <1>3, <1>4 DEF WalkCounts

LEMMA SnapshotTypesAlways == SnapshotSpec => []SnapshotTypeOK
<1>1. SnapshotInit => WalkCounts
  BY LimitsAssumption DEF SnapshotInit, DirectoryInit, WalkCounts, EditsOK
<1>2. ASSUME SnapInv, WalkCounts  PROVE SnapshotTypeOK
  <2>1. Cardinality(at) <= 1
    <3>1. CASE at = {}  BY <3>1, FS_EmptySet
    <3>2. CASE \E n \in Paths : at = {n}  BY <3>2, FS_Singleton
    <3> QED  BY <1>2, <3>1, <3>2 DEF WalkCounts
  <2>2. entries <= Cardinality(Paths) /\ Cardinality(Paths) \in Nat
    <3>1. Visited \subseteq Paths  BY DEF Visited
    <3>2. Cardinality(Visited) <= Cardinality(Paths) /\ Cardinality(Paths) \in Nat
      BY <3>1, LimitsAssumption, FS_Subset, FS_CardinalityType
    <3> QED  BY <1>2, <3>2 DEF WalkCounts
  <2>3. entries \in 0..Cardinality(Paths) /\ bytes \in 0..(TotalLimit + FileLimit + 1)
    BY <1>2, <2>2, LimitsAssumption DEF SnapInv, WalkTypes, WalkCounts
  <2> QED  BY <1>2, <2>1, <2>3 DEF SnapInv, WalkTypes, WalkPlaces, SnapshotTypeOK
<1> QED  BY <1>1, <1>2, SnapStarts, SnapKeeps, WalkCountsKept, PTL DEF SnapshotSpec

\* Qualification: receipts expire from the first day on, and so do rows.
EvidenceOK ==
  /\ day \in 0..MaxDay /\ Len(evidence) <= MaxReceipts
  /\ \A i \in DOMAIN evidence : evidence[i].expires \in 1..MaxDay
  /\ \A row \in matrix : row.artifact \in Artifacts /\ row.expires \in 1..MaxDay

LEMMA EvidenceKept ==
  ASSUME QualInv, EvidenceOK, [QualificationNext]_qualificationVars
  PROVE  EvidenceOK'
<1>1. CASE IssueReceipt
  <2>0. PICK r \in SoundReceipts : \E s \in {r} \cup Flawed(r) : evidence' = Append(evidence, s)
    BY <1>1 DEF IssueReceipt
  <2>1. PICK s \in {r} \cup Flawed(r) : evidence' = Append(evidence, s)
    BY <2>0
  <2>2. s \in IssuedReceipts  BY ReceiptsFit
  <2>3. s.expires \in 1..MaxDay  BY DEF Flawed, SoundReceipts
  <2>4. PICK longer : longer = evidence'  OBVIOUS
  <2>5. /\ DOMAIN evidence = 1..Len(evidence) /\ Len(evidence) \in Nat
        /\ Len(longer) = Len(evidence) + 1
        /\ DOMAIN longer = 1..(Len(evidence) + 1) /\ longer[Len(evidence) + 1] = s
        /\ \A i \in DOMAIN evidence : longer[i] = evidence[i]
    <3>1. evidence \in Seq(IssuedReceipts)  BY DEF QualInv
    <3>2. longer \in Seq(IssuedReceipts) /\ Len(longer) = Len(evidence) + 1
      BY <2>1, <2>2, <2>4, <3>1
    <3> QED  BY <2>1, <2>2, <2>4, <3>1, <3>2, OneMoreRow
  <2>6. \A i \in DOMAIN longer : longer[i].expires \in 1..MaxDay
    BY <2>3, <2>5 DEF EvidenceOK
  <2>7. Len(longer) <= MaxReceipts
    BY <1>1, <2>5, LayersAssumption DEF IssueReceipt
  <2>8. UNCHANGED <<day, matrix>>  BY <1>1 DEF IssueReceipt
  <2> QED  BY <2>4, <2>6, <2>7, <2>8 DEF EvidenceOK
<1>2. CASE GenerateMatrix
  <2>1. UNCHANGED <<day, evidence>>
        /\ matrix' = {Row(a) : a \in {a \in Artifacts : Of(a) # {}}}
    BY <1>2 DEF GenerateMatrix
  <2>2. ASSUME NEW a \in Artifacts, Of(a) # {}
        PROVE  Row(a).artifact \in Artifacts /\ Row(a).expires \in 1..MaxDay
    <3>1. PICK ends : ends = {evidence[i].expires : i \in Of(a)}
      OBVIOUS
    <3>2. ends \subseteq 1..MaxDay /\ ends # {}
      BY <2>2, <3>1 DEF Of, EvidenceOK
    <3>3. ends \in SUBSET Nat  BY <3>2
    <3>4. Min(ends) \in ends  BY <3>2, <3>3, MinIsLeast
    <3>5. Row(a).artifact = a /\ Row(a).expires = Min(ends)  BY <3>1 DEF Row, ExpiresAt
    <3> QED  BY <3>2, <3>4, <3>5
  <2> QED  BY <2>1, <2>2 DEF EvidenceOK
<1>3. CASE DayPasses
  BY <1>3, LayersAssumption DEF DayPasses, EvidenceOK
<1>4. CASE UNCHANGED qualificationVars
  BY <1>4 DEF qualificationVars, EvidenceOK
<1> QED  BY <1>1, <1>2, <1>3, <1>4 DEF QualificationNext

LEMMA QualificationTypesAlways == QualificationSpec => []QualificationTypeOK
<1>1. QualificationInit => QualInv /\ EvidenceOK
  BY LayersAssumption DEF QualificationInit, QualInv, EvidenceOK
<1>2. ASSUME QualInv, EvidenceOK  PROVE QualificationTypeOK
  <2>1. evidence \in Seq(IssuedReceipts)  BY <1>2 DEF QualInv
  <2>2. Len(evidence) \in Nat  BY <2>1
  <2>3. Len(evidence) \in 0..MaxReceipts  BY <1>2, <2>2, LayersAssumption DEF EvidenceOK
  <2> QED  BY <1>2, <2>3 DEF EvidenceOK, QualificationTypeOK
<1> QED  BY <1>1, <1>2, QualKeeps, EvidenceKept, PTL DEF QualificationSpec

\* Every variable of the working programs has its type, for any number of
\* programs, receipts and paths; in particular no count of the sandbox's copy
\* passes its limit by more than the byte it reads beyond (sandbox.py 64-131).
THEOREM WorkingTypesAlways == WorkingSpec => []WorkingTypeOK
<1>1. DecisionInv => DecisionTypeOK  BY DEF DecisionInv
<1>2. PublishingInv => PublishingTypeOK  BY DEF PublishingInv
<1>3. ASSUME IterInv  PROVE IterTypeOK
  <2>1. page.next \in 0..MaxEntries  BY <1>3 DEF IterInv, ListingOK, Pages, Numbers
  <2>2. cursor \in 0..MaxEntries  BY <1>3, PageAssumption DEF IterInv, ListingOK, Numbers
  <2> QED  BY <1>3, <2>1, <2>2 DEF IterInv, ListingOK, Numbers, IterTypeOK
<1>4. DecisionSpec => []DecisionTypeOK  BY <1>1, DecisionInvariant, PTL
<1>5. PublishingSpec => []PublishingTypeOK
  BY <1>2, PublishingStarts, PublishingKeeps, PTL DEF PublishingSpec
<1>6. IterSpec => []IterTypeOK
  BY <1>3, IterStarts, IterKeeps, PTL DEF IterSpec
<1> QED
  BY <1>4, <1>5, <1>6, WorksAreRuns, TicketTypesAlways, WorkTypesAlways, PackagingTypesAlways,
     SnapshotTypesAlways, QualificationTypesAlways, PTL DEF WorkingTypeOK
=============================================================================
