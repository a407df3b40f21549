--------------------------- MODULE EventStreamProofs ---------------------------
(***************************************************************************)
(* NoLostWakeup, InOrder and NoGaps for any number of writers and          *)
(* connections and any channel capacity.                                   *)
(*                                                                         *)
(* Inv, for NoLostWakeup, says of an event whose Publish is past the point *)
(* where it copied the channels: either its signal is still to be sent to  *)
(* the handler, or one is in the handler's channel, or the handler will    *)
(* list again, or it has already looked past the event.  It rests on two   *)
(* facts: a handler that may come to wait is subscribed (Subscribe         *)
(* precedes the first drain), and an event that is being published is no   *)
(* longer being inserted, so it cannot become visible behind the handler.  *)
(*                                                                         *)
(* ClientInv, for InOrder and NoGaps, says that the handler the client is  *)
(* connected to lists after what the client has, and that without          *)
(* overlapping INSERTs a row is added behind all that exist.  With two     *)
(* facts more the stream is seen to implement EventFeed.                   *)
(***************************************************************************)
EXTENDS EventStream, FiniteSetTheorems, SequenceTheorems, TLAPS

Types ==
    /\ rows \in SUBSET Nat
    /\ nextId \in Nat
    /\ wpc \in [Writers -> WriterPC]
    /\ wid \in [Writers -> Nat]
    /\ targets \in [Writers -> SUBSET Conns]
    /\ chan \in [Conns -> {"none", "open", "closed"}]
    /\ buf \in [Conns -> 0 .. Cap]
    /\ cpc \in [Conns -> StreamPC]
    /\ after \in [Conns -> Nat]
    /\ cur \in 0 .. MaxConns
    /\ lastEventId \in Nat
    /\ notified \in SUBSET Nat

\* An id under insertion is new: nobody else holds it, and it was not notified.
FreshIds ==
    /\ \A i \in notified : i < nextId
    /\ \A w \in Writers :
        /\ wid[w] < nextId
        /\ wpc[w] = "insert" =>
            /\ wid[w] \notin notified
            /\ \A v \in Writers : wpc[v] # "idle" /\ wid[v] = wid[w] => v = w

Subscribed ==
    \A c \in Conns : cpc[c] \in {"list", "check", "wait"} => chan[c] = "open"

Idling(c) == cpc[c] \in {"check", "wait"} /\ buf[c] = 0

Signalled ==
    \A c \in Conns : Idling(c) =>
        /\ \A i \in notified \intersect rows : i <= after[c]
        /\ \A w \in Writers :
            /\ wpc[w] = "send" /\ c \notin targets[w] /\ wid[w] \in rows
            => wid[w] <= after[c]

Inv == Types /\ FreshIds /\ Subscribed /\ Signalled

--------------------------------------------------------------------------------

LEMMA InitInv == Init => Inv
  BY WritersAssumption, StreamBoundsAssumption
  DEF Init, Inv, Types, FreshIds, Subscribed, Signalled, Idling, WriterPC,
      StreamPC, Conns, Writers, Publishers

LEMMA TypesStep == Types /\ [Next]_vars => Types'
<1> SUFFICES ASSUME Types, [Next]_vars PROVE Types'
    OBVIOUS
<1> USE StreamBoundsAssumption DEF Types, WriterPC, StreamPC, eventVars,
    writerVars, busVars, streamVars, clientVars
<1>1. ASSUME NEW w \in Writers, AppendEvent(w) PROVE Types'
    BY <1>1 DEF AppendEvent
<1>2. ASSUME NEW w \in Writers, Inserted(w) PROVE Types'
  <2>1. wpc' \in [Writers -> WriterPC] /\ wid' \in [Writers -> Nat]
    <3>1. CASE WillPublish(w) BY <3>1 DEF WillPublish
    <3>2. CASE Idle(w) BY <3>2 DEF Idle
    <3> QED BY <1>2, <3>1, <3>2 DEF Inserted
  <2>2. rows' = rows \union {wid[w]} \/ rows' = rows
    BY <1>2, Zenon DEF Inserted
  <2>3. UNCHANGED <<nextId, targets, notified, busVars, streamVars, clientVars>>
    BY <1>2 DEF Inserted
  <2> QED BY <2>1, <2>2, <2>3
<1>3. ASSUME NEW w \in Writers, CopyTargets(w) PROVE Types'
    BY <1>3 DEF CopyTargets
<1>4. ASSUME NEW w \in Writers, PublishReturns(w) PROVE Types'
    BY <1>4 DEF PublishReturns, Idle
<1>5. ASSUME NEW w \in Writers, NEW c \in Conns, Send(w, c) PROVE Types'
    BY <1>5 DEF Send
<1>6. ASSUME NEW w \in Writers, NEW c \in Conns, SendPanics(w, c) PROVE Types'
    BY <1>6 DEF SendPanics
<1>7. CASE StatusChanges BY <1>7 DEF StatusChanges
<1>8. CASE Connect BY <1>8, SMTT(30) DEF Connect, ResumeAfter, Conns
<1>9. CASE Disconnect BY <1>9 DEF Disconnect
<1>10. ASSUME NEW c \in Conns, Subscribe(c) PROVE Types'
    BY <1>10 DEF Subscribe
<1>11. ASSUME NEW c \in Conns, Deliver(c) PROVE Types'
    BY <1>11 DEF Deliver, ListEvents
<1>12. ASSUME NEW c \in Conns, CheckStatus(c) PROVE Types'
    BY <1>12 DEF CheckStatus
<1>13. ASSUME NEW c \in Conns, Wake(c) PROVE Types'
    BY <1>13 DEF Wake
<1>14. ASSUME NEW c \in Conns, Heartbeat(c) PROVE Types'
    BY <1>14 DEF Heartbeat
<1>15. ASSUME NEW c \in Conns, StreamFails(c) PROVE Types'
    BY <1>15 DEF StreamFails
<1>16. ASSUME NEW c \in Conns, Cancel(c) PROVE Types'
    BY <1>16 DEF Cancel
<1>17. CASE UNCHANGED vars BY <1>17 DEF vars
<1> QED
    BY <1>1, <1>2, <1>3, <1>4, <1>5, <1>6, <1>7, <1>8, <1>9, <1>10, <1>11,
       <1>12, <1>13, <1>14, <1>15, <1>16, <1>17
    DEF Next, WriterStep, StreamStep

LEMMA FreshIdsStep == Types /\ FreshIds /\ [Next]_vars => FreshIds'
<1> SUFFICES ASSUME Types, FreshIds, [Next]_vars PROVE FreshIds'
    OBVIOUS
<1> USE DEF Types, FreshIds, eventVars, writerVars
<1>1. ASSUME NEW w \in Writers, AppendEvent(w) PROVE FreshIds'
    BY <1>1 DEF AppendEvent
<1>2. ASSUME NEW w \in Writers, Inserted(w) PROVE FreshIds'
  <2>1. UNCHANGED <<nextId, notified>>
    BY <1>2 DEF Inserted
  <2>2. CASE WillPublish(w) BY <1>2, <2>1, <2>2 DEF WillPublish, Inserted
  <2>3. CASE Idle(w) BY <1>2, <2>1, <2>3 DEF Idle, Inserted
  <2> QED BY <1>2, <2>2, <2>3 DEF Inserted
<1>3. ASSUME NEW w \in Writers, CopyTargets(w) PROVE FreshIds'
    BY <1>3 DEF CopyTargets
<1>4. ASSUME NEW w \in Writers, PublishReturns(w) PROVE FreshIds'
    BY <1>4 DEF PublishReturns, Idle
<1>5. ASSUME NEW w \in Writers, NEW c \in Conns, Send(w, c) PROVE FreshIds'
    BY <1>5 DEF Send
<1>6. ASSUME NEW w \in Writers, NEW c \in Conns, SendPanics(w, c)
      PROVE FreshIds'
    BY <1>6 DEF SendPanics
<1>7. CASE UNCHANGED <<nextId, notified, wpc, wid>> BY <1>7
<1> QED
    BY <1>1, <1>2, <1>3, <1>4, <1>5, <1>6, <1>7
    DEF Next, WriterStep, StreamStep, StatusChanges, Connect, Disconnect,
        Subscribe, Deliver, CheckStatus, Wake, Heartbeat, StreamFails, Cancel, vars

LEMMA SubscribedStep == Types /\ Subscribed /\ [Next]_vars => Subscribed'
<1> SUFFICES ASSUME Types, Subscribed, [Next]_vars PROVE Subscribed'
    OBVIOUS
<1> USE DEF Types, Subscribed, busVars, streamVars
<1>1. CASE UNCHANGED <<cpc, chan>> BY <1>1
<1>2. ASSUME NEW w \in Writers, NEW c \in Conns, SendPanics(w, c)
      PROVE Subscribed'
    BY <1>2 DEF SendPanics
<1>3. CASE Connect BY <1>3 DEF Connect
<1>4. ASSUME NEW c \in Conns, StreamStep(c) PROVE Subscribed'
    BY <1>4 DEF StreamStep, Subscribe, Deliver, CheckStatus, Wake, Heartbeat,
                StreamFails, Cancel
<1> QED
    BY <1>1, <1>2, <1>3, <1>4
    DEF Next, WriterStep, StatusChanges, Disconnect, AppendEvent, Inserted,
        CopyTargets, Send, PublishReturns, vars

LEMMA SignalledStep == Inv /\ [Next]_vars => Signalled'
<1> SUFFICES ASSUME Inv, [Next]_vars PROVE Signalled'
    OBVIOUS
<1> USE DEF Inv, Types, Signalled, Idling, eventVars, writerVars, busVars,
            streamVars
<1>1. ASSUME NEW w \in Writers, AppendEvent(w) PROVE Signalled'
    BY <1>1 DEF AppendEvent
<1>2. ASSUME NEW w \in Writers, Inserted(w) PROVE Signalled'
  <2>1. wid[w] \notin notified
    BY <1>2 DEF Inserted, FreshIds
  <2>2. \A v \in Writers : wpc[v] = "send" /\ wid[v] = wid[w] => FALSE
    BY <1>2 DEF Inserted, FreshIds
  <2>3. rows' = rows \union {wid[w]} \/ rows' = rows
    BY <1>2, Zenon DEF Inserted
  <2>4. /\ wpc'[w] # "send"
        /\ \A v \in Writers \ {w} : wpc'[v] = wpc[v] /\ wid'[v] = wid[v]
    <3>1. CASE WillPublish(w) BY <3>1 DEF WillPublish
    <3>2. CASE Idle(w) BY <3>2 DEF Idle
    <3> QED BY <1>2, <3>1, <3>2 DEF Inserted
  <2>5. UNCHANGED <<cpc, buf, after, targets, notified>>
    BY <1>2 DEF Inserted
  <2> QED BY <2>1, <2>2, <2>3, <2>4, <2>5
<1>3. ASSUME NEW w \in Writers, CopyTargets(w) PROVE Signalled'
    BY <1>3 DEF CopyTargets, Subscribed
<1>4. ASSUME NEW w \in Writers, PublishReturns(w) PROVE Signalled'
    BY <1>4 DEF PublishReturns, Idle
<1>5. ASSUME NEW w \in Writers, NEW c \in Conns, Send(w, c) PROVE Signalled'
    BY <1>5, StreamBoundsAssumption DEF Send
<1>6. ASSUME NEW w \in Writers, NEW c \in Conns, SendPanics(w, c)
      PROVE Signalled'
    BY <1>6 DEF SendPanics
<1>7. CASE UNCHANGED <<rows, notified, wpc, wid, targets, cpc, buf, after>>
    BY <1>7
<1>8. CASE Connect BY <1>8 DEF Connect
<1>9. ASSUME NEW c \in Conns, Deliver(c) PROVE Signalled'
  <2>1. \A i \in rows : i <= after'[c]
    <3>1. PICK last \in ListEvents(c) \union {after[c]} :
            /\ \A i \in ListEvents(c) : i <= last
            /\ after' = [after EXCEPT ![c] = last]
      BY <1>9, Zenon DEF Deliver
    <3>2. last \in Nat /\ after[c] <= last
      BY <3>1 DEF ListEvents
    <3> QED BY <3>1, <3>2 DEF ListEvents
  <2> QED BY <1>9, <2>1 DEF Deliver
<1>10. ASSUME NEW c \in Conns,
              Subscribe(c) \/ CheckStatus(c) \/ Wake(c) \/ Heartbeat(c)
                \/ StreamFails(c) \/ Cancel(c)
       PROVE Signalled'
    BY <1>10, ZenonT(40) DEF Subscribe, CheckStatus, Wake, Heartbeat, StreamFails, Cancel
<1> QED
    BY <1>1, <1>2, <1>3, <1>4, <1>5, <1>6, <1>7, <1>8, <1>9, <1>10
    DEF Next, WriterStep, StreamStep, StatusChanges, Disconnect, vars, clientVars

\* A handler that waits with an empty channel has looked past every event whose
\* Publish has returned, whatever the number of writers, connections and
\* reconnections, and however small the channels are (Bus.Publish,
\* Bus.Subscribe, handleDeploymentEvents).
THEOREM NoLostWakeupAlways == Spec => []NoLostWakeup
<1>1. Init => Inv BY InitInv
<1>2. Inv /\ [Next]_vars => Inv'
    BY TypesStep, FreshIdsStep, SubscribedStep, SignalledStep DEF Inv
<1>3. Inv => NoLostWakeup
    BY DEF Inv, Signalled, Idling, NoLostWakeup
<1> QED
    BY <1>1, <1>2, <1>3, PTL DEF Spec

--------------------------------------------------------------------------------
(***************************************************************************)
(* What the client has received.  While it is connected, its handler is    *)
(* past exactly the event the client would resume after; what it has got   *)
(* lies at or before that one.                                             *)
(***************************************************************************)

\* Rows, and ids being inserted, come from the sequence, which starts at 1.
RowIds ==
    /\ IsFiniteSet(rows)
    /\ \A i \in rows : i # 0 /\ i < nextId
    /\ \A w \in Writers : wpc[w] = "insert" => wid[w] # 0
    /\ nextId # 0

\* The client's handler lists after what the client would resume after.
Position ==
    /\ online => cur \in Conns /\ after[cur] = lastEventId
    /\ lastEventId \in rows \union {0}

\* What the client has is in order and not beyond where it would resume.
Received ==
    /\ got \in Seq(Nat)
    /\ \A i \in 1 .. Len(got) : got[i] <= lastEventId
    /\ InOrder

\* Unless two INSERTs overlapped, the one under way has the highest id of all.
Serial ==
    ~raced =>
        \A w \in Writers : wpc[w] = "insert" =>
            /\ \A v \in Writers : wpc[v] = "insert" => v = w
            /\ \A i \in rows : i < wid[w]

RestOK ==
    /\ ended \in BOOLEAN /\ left \in [Writers -> Nat]
    /\ online \in BOOLEAN /\ done \in BOOLEAN /\ raced \in BOOLEAN /\ panicked \in BOOLEAN

ClientInv == RowIds /\ Position /\ Received /\ Serial /\ RestOK /\ NoGaps

LEMMA ClientInit == Init => ClientInv
<1> SUFFICES ASSUME Init PROVE ClientInv
    OBVIOUS
<1>1. RowIds
    BY FS_EmptySet DEF Init, RowIds
<1>2. Position /\ Received /\ Serial /\ NoGaps
    BY DEF Init, Position, Received, InOrder, Serial, NoGaps
<1>3. RestOK
    BY StreamBoundsAssumption DEF Init, RestOK
<1> QED
    BY <1>1, <1>2, <1>3 DEF ClientInv

LEMMA InsertedCases ==
    ASSUME Types, NEW w \in Writers, Inserted(w)
    PROVE  /\ wpc[w] = "insert" /\ wpc'[w] # "insert"
           /\ \A v \in Writers \ {w} : wpc'[v] = wpc[v] /\ wid'[v] = wid[v]
           /\ rows' = rows \union {wid[w]} \/ rows' = rows
<1>1. wpc'[w] # "insert" /\ \A v \in Writers \ {w} : wpc'[v] = wpc[v] /\ wid'[v] = wid[v]
    <2>1. CASE WillPublish(w) BY <2>1 DEF WillPublish, Types
    <2>2. CASE Idle(w) BY <2>2 DEF Idle, Types
    <2> QED BY <2>1, <2>2 DEF Inserted
<1>2. rows' = rows \union {wid[w]} \/ rows' = rows
    BY Zenon DEF Inserted
<1> QED
    BY <1>1, <1>2 DEF Inserted

\* Only a writer's step changes rows and ids, and none but AppendEvent begins an
\* INSERT.
LEMMA WriterKinds ==
    ASSUME Types, [Next]_vars
    PROVE  \/ \E w \in Writers : AppendEvent(w) \/ Inserted(w)
           \/ /\ UNCHANGED <<rows, nextId, raced>>
              /\ \A w \in Writers : wpc'[w] = "insert" => wpc[w] = "insert" /\ wid'[w] = wid[w]
<1> USE DEF Types, eventVars, writerVars
<1>1. ASSUME NEW w \in Writers, CopyTargets(w)
      PROVE  /\ UNCHANGED <<rows, nextId, raced>>
             /\ \A v \in Writers : wpc'[v] = "insert" => wpc[v] = "insert" /\ wid'[v] = wid[v]
    BY <1>1 DEF CopyTargets
<1>2. ASSUME NEW w \in Writers, PublishReturns(w)
      PROVE  /\ UNCHANGED <<rows, nextId, raced>>
             /\ \A v \in Writers : wpc'[v] = "insert" => wpc[v] = "insert" /\ wid'[v] = wid[v]
    BY <1>2 DEF PublishReturns, Idle
<1>3. ASSUME NEW w \in Writers, NEW c \in Conns, SendPanics(w, c)
      PROVE  /\ UNCHANGED <<rows, nextId, raced>>
             /\ \A v \in Writers : wpc'[v] = "insert" => wpc[v] = "insert" /\ wid'[v] = wid[v]
    BY <1>3 DEF SendPanics
<1>4. CASE UNCHANGED <<rows, nextId, raced, wpc, wid>>
    BY <1>4
<1> QED
    BY <1>1, <1>2, <1>3, <1>4
    DEF Next, WriterStep, StreamStep, StatusChanges, Connect, Disconnect, Send,
        Subscribe, Deliver, CheckStatus, Wake, Heartbeat, StreamFails, Cancel, vars

LEMMA RowIdsStep == Types /\ RowIds /\ FreshIds /\ [Next]_vars => RowIds'
<1> SUFFICES ASSUME Types, RowIds, FreshIds, [Next]_vars PROVE RowIds'
    OBVIOUS
<1>1. ASSUME NEW w \in Writers, AppendEvent(w) PROVE RowIds'
    BY <1>1 DEF AppendEvent, RowIds, Types
<1>2. ASSUME NEW w \in Writers, Inserted(w) PROVE RowIds'
    <2>1. IsFiniteSet(rows')
        BY <1>2, InsertedCases, FS_AddElement DEF RowIds
    <2>2. nextId' = nextId /\ wid[w] < nextId /\ wid[w] # 0
        BY <1>2 DEF Inserted, FreshIds, RowIds
    <2> QED
        BY <1>2, <2>1, <2>2, InsertedCases DEF RowIds
<1>3. CASE /\ UNCHANGED <<rows, nextId, raced>>
           /\ \A w \in Writers : wpc'[w] = "insert" => wpc[w] = "insert" /\ wid'[w] = wid[w]
    BY <1>3 DEF RowIds
<1> QED
    BY <1>1, <1>2, <1>3, WriterKinds

LEMMA SerialStep == Types /\ RowIds /\ Serial /\ [Next]_vars => Serial'
<1> SUFFICES ASSUME Types, RowIds, Serial, [Next]_vars PROVE Serial'
    OBVIOUS
<1>1. ASSUME NEW w \in Writers, AppendEvent(w) PROVE Serial'
    <2>1. /\ \A v \in Writers \ {w} : wpc'[v] = wpc[v] /\ wid'[v] = wid[v]
          /\ wpc'[w] = "insert" /\ wid'[w] = nextId /\ rows' = rows
          /\ ~raced' => \A v \in Writers : wpc[v] # "insert"
        BY <1>1 DEF AppendEvent, Types
    <2> QED
        BY <2>1 DEF Serial, RowIds
<1>2. ASSUME NEW w \in Writers, Inserted(w) PROVE Serial'
    <2>1. raced' = raced
        BY <1>2 DEF Inserted
    <2> QED
        BY <1>2, <2>1, InsertedCases DEF Serial
<1>3. CASE /\ UNCHANGED <<rows, nextId, raced>>
           /\ \A w \in Writers : wpc'[w] = "insert" => wpc[w] = "insert" /\ wid'[w] = wid[w]
    BY <1>3 DEF Serial
<1> QED
    BY <1>1, <1>2, <1>3, WriterKinds

LEMMA RestStep == Types /\ RestOK /\ [Next]_vars => RestOK'
<1> SUFFICES ASSUME Types, RestOK, [Next]_vars PROVE RestOK'
    OBVIOUS
<1> USE DEF RestOK, eventVars, writerVars, clientVars
<1>1. ASSUME NEW w \in Writers, WriterStep(w) PROVE RestOK'
    <2>1. CASE AppendEvent(w) BY <2>1 DEF AppendEvent
    <2>2. CASE Inserted(w) \/ CopyTargets(w) \/ PublishReturns(w)
        BY <2>2 DEF Inserted, CopyTargets, PublishReturns
    <2>3. CASE \E c \in Conns : Send(w, c) \/ SendPanics(w, c)
        BY <2>3 DEF Send, SendPanics
    <2> QED BY <1>1, <2>1, <2>2, <2>3 DEF WriterStep
<1>2. CASE StatusChanges \/ Connect \/ Disconnect
    BY <1>2 DEF StatusChanges, Connect, Disconnect
<1>3. ASSUME NEW c \in Conns, StreamStep(c) PROVE RestOK'
    BY <1>3 DEF StreamStep, Subscribe, Deliver, CheckStatus, Wake, Heartbeat, StreamFails, Cancel
<1>4. CASE UNCHANGED vars BY <1>4 DEF vars
<1> QED
    BY <1>1, <1>2, <1>3, <1>4 DEF Next

\* The rows a drain hands to the client.
Batch(c, upto) == {i \in ListEvents(c) : c = cur /\ online /\ i <= upto}

LEMMA DeliverCases ==
    ASSUME Types, RowIds, NEW c \in Conns, Deliver(c)
    PROVE  \E last, upto \in ListEvents(c) \union {after[c]} :
             \E n \in Nat : \E s \in [1 .. n -> Batch(c, upto)] :
               /\ n = Cardinality(Batch(c, upto))
               /\ \A i \in ListEvents(c) : i <= last
               /\ after' = [after EXCEPT ![c] = last]
               /\ upto # last => c = cur /\ online
               /\ online' = (online /\ upto = last)
               /\ InIdOrder(s, Batch(c, upto)) /\ got' = got \o s
               /\ lastEventId' = IF Batch(c, upto) = {} THEN lastEventId ELSE upto
               /\ UNCHANGED <<rows, nextId, raced, cur, wpc, wid>>
<1>1. ASSUME NEW upto PROVE Cardinality(Batch(c, upto)) \in Nat
    <2>1. Batch(c, upto) \subseteq rows
        BY DEF Batch, ListEvents
    <2> QED
        BY <2>1, FS_Subset, FS_CardinalityType DEF RowIds
<1> QED
    BY <1>1, Zenon DEF Deliver, Batch, eventVars, writerVars

LEMMA PositionStep == Types /\ RowIds /\ Position /\ [Next]_vars => Position'
<1> SUFFICES ASSUME Types, RowIds, Position, [Next]_vars PROVE Position'
    OBVIOUS
<1> USE DEF Types, eventVars, writerVars, busVars, streamVars, clientVars
<1>1. CASE UNCHANGED <<online, cur, after, lastEventId>> /\ rows \subseteq rows'
    BY <1>1 DEF Position
<1>2. ASSUME NEW w \in Writers, WriterStep(w) PROVE Position'
    <2>1. CASE Inserted(w)
        <3>1. rows \subseteq rows'
            BY <2>1, InsertedCases
        <3> QED
            BY <1>1, <2>1, <3>1 DEF Inserted
    <2>2. ASSUME NEW c \in Conns, SendPanics(w, c) PROVE Position'
        <3>1. CASE w \in Ticks
            BY <2>2, <3>1 DEF SendPanics, Position
        <3>2. CASE w \notin Ticks
            BY <1>1, <2>2, <3>2 DEF SendPanics
        <3> QED BY <3>1, <3>2
    <2> QED
        BY <1>1, <1>2, <2>1, <2>2 DEF WriterStep, AppendEvent, CopyTargets, PublishReturns, Send
<1>3. CASE Connect
    <2>1. cur' \in Conns /\ cur' = cur + 1 /\ after' = [after EXCEPT ![cur'] = lastEventId]
        BY <1>3, StreamBoundsAssumption DEF Connect, Conns, ResumeAfter
    <2>2. lastEventId' = lastEventId /\ rows' = rows
        BY <1>3 DEF Connect
    <2> QED
        BY <2>1, <2>2 DEF Position
<1>4. CASE Disconnect
    BY <1>4 DEF Disconnect, Position
<1>5. ASSUME NEW c \in Conns, Deliver(c) PROVE Position'
    <2>1. PICK last, upto \in ListEvents(c) \union {after[c]}, n \in Nat :
            /\ after' = [after EXCEPT ![c] = last]
            /\ upto # last => c = cur /\ online
            /\ online' = (online /\ upto = last)
            /\ \A i \in ListEvents(c) : i <= last
            /\ lastEventId' = IF Batch(c, upto) = {} THEN lastEventId ELSE upto
            /\ UNCHANGED <<rows, cur>>
        BY <1>5, DeliverCases
    <2>2. lastEventId' \in rows \union {0}
        BY <2>1 DEF Position, Batch, ListEvents
    <2>3. ASSUME online' PROVE cur \in Conns /\ after'[cur] = lastEventId'
        <3>1. CASE c # cur
            BY <2>1, <2>3, <3>1 DEF Position, Batch
        <3>2. CASE c = cur
            <4>1. after[c] = lastEventId /\ upto = last /\ after'[c] = last /\ online
                BY <2>1, <2>3, <3>2 DEF Position
            <4>2. CASE ListEvents(c) = {}
                BY <2>1, <4>1, <4>2, <3>2 DEF Batch
            <4>3. CASE ListEvents(c) # {}
                BY <2>1, <4>1, <4>3, <3>2 DEF Batch
            <4> QED
                BY <4>2, <4>3
        <3> QED BY <3>1, <3>2
    <2> QED
        BY <2>1, <2>2, <2>3 DEF Position
<1>6. ASSUME NEW c \in Conns, StreamFails(c) \/ Cancel(c) PROVE Position'
    <2>1. /\ online' => online /\ c # cur
          /\ UNCHANGED <<rows, lastEventId, cur>>
          /\ \A d \in Conns \ {c} : after'[d] = after[d]
        BY <1>6 DEF StreamFails, Cancel
    <2> QED
        BY <2>1 DEF Position
<1> QED
    BY <1>1, <1>2, <1>3, <1>4, <1>5, <1>6
    DEF Next, StreamStep, StatusChanges, Subscribe, CheckStatus, Wake, Heartbeat, vars

\* A function on 1..n is a sequence of length n.
LEMMA BatchIsSeq ==
    ASSUME NEW n \in Nat, NEW S, NEW s \in [1 .. n -> S]
    PROVE  s \in Seq(S) /\ Len(s) = n
<1>1. s \in Seq(S)
    BY SeqDef
<1>2. DOMAIN s = 1 .. n /\ DOMAIN s = 1 .. Len(s) /\ Len(s) \in Nat
    BY <1>1, LenProperties
<1>3. Len(s) = n
    <2>1. 1 .. n = 1 .. Len(s)
        BY <1>2
    <2>2. \A i \in Nat \ {0} : i <= n <=> i <= Len(s)
        BY <1>2, <2>1
    <2>3. ~(n < Len(s)) /\ ~(Len(s) < n)
        BY <1>2, <2>2
    <2> QED
        BY <1>2, <2>3
<1> QED
    BY <1>1, <1>3

\* The elements of g \o s, each where it comes from.
LEMMA ConcatElements ==
    ASSUME NEW g \in Seq(Nat), NEW n \in Nat, NEW S \in SUBSET Nat, NEW s \in [1 .. n -> S]
    PROVE  /\ Len(g) \in Nat
           /\ g \o s \in Seq(Nat)
           /\ Len(g \o s) = Len(g) + n
           /\ \A i \in 1 .. Len(g) : (g \o s)[i] = g[i] /\ g[i] \in Nat
           /\ \A i \in 1 .. n : (g \o s)[Len(g) + i] = s[i] /\ s[i] \in S
           /\ \A i \in 1 .. Len(g) + n :
                 i \in 1 .. Len(g) \/ (i - Len(g) \in 1 .. n /\ i = Len(g) + (i - Len(g)))
<1>1. Len(g) \in Nat /\ \A i \in 1 .. Len(g) : g[i] \in Nat
    BY LenProperties, ElementOfSeq
<1>2. s \in Seq(Nat) /\ Len(s) = n
    BY BatchIsSeq, SeqMonotonic
<1>3. /\ g \o s \in Seq(Nat)
      /\ Len(g \o s) = Len(g) + Len(s)
      /\ \A i \in 1 .. Len(g) + Len(s) :
            (g \o s)[i] = IF i <= Len(g) THEN g[i] ELSE s[i - Len(g)]
    BY <1>2, ConcatProperties, Zenon
<1> DEFINE b == g \o s
           l == Len(g)
<1>4. \A i \in 1 .. l + n : b[i] = IF i <= l THEN g[i] ELSE s[i - l]
    BY <1>2, <1>3, Zenon
<1>5. l \in Nat
    BY <1>1
<1>6. \A i \in 1 .. n : s[i] \in S
    OBVIOUS
<1> HIDE DEF b, l
<1>7. \A i \in 1 .. l : b[i] = g[i]
    BY <1>4, <1>5
<1>8. ASSUME NEW i \in 1 .. n PROVE b[l + i] = s[i]
    <2>1. l + i \in 1 .. l + n /\ ~(l + i <= l) /\ (l + i) - l = i
        BY <1>5
    <2>2. b[l + i] = s[(l + i) - l]
        BY <1>4, <2>1
    <2> QED
        BY <2>1, <2>2
<1>9. \A i \in 1 .. l + n : i \in 1 .. l \/ (i - l \in 1 .. n /\ i = l + (i - l))
    BY <1>5
<1> QED
    BY <1>1, <1>2, <1>3, <1>6, <1>7, <1>8, <1>9, Zenon DEF b, l

\* A batch in id order behind what was received.
LEMMA Appended ==
    ASSUME Received, NEW n \in Nat, NEW S \in SUBSET Nat, NEW s \in [1 .. n -> S],
           InIdOrder(s, S), NEW m \in Nat,
           \A i \in S : lastEventId < i /\ i <= m, lastEventId \in Nat, lastEventId <= m
    PROVE  /\ got \o s \in Seq(Nat)
           /\ \A i \in 1 .. Len(got \o s) : (got \o s)[i] <= m
           /\ \A i, j \in 1 .. Len(got \o s) : i < j => (got \o s)[i] < (got \o s)[j]
           /\ \A k : k \in ToSet(got \o s) <=> k \in ToSet(got) \/ k \in S
<1> DEFINE both == got \o s
           l == Len(got)
<1>1. /\ l \in Nat /\ both \in Seq(Nat) /\ Len(both) = l + n
      /\ \A i \in 1 .. l : both[i] = got[i] /\ got[i] \in Nat
      /\ \A i \in 1 .. n : both[l + i] = s[i] /\ s[i] \in S
      /\ \A i \in 1 .. l + n : i \in 1 .. l \/ (i - l \in 1 .. n /\ i = l + (i - l))
    BY ConcatElements DEF Received
<1>2. \A i \in 1 .. l : got[i] <= lastEventId
    BY DEF Received
<1>3. \A i, j \in 1 .. l : i < j => got[i] < got[j]
    BY DEF Received, InOrder
<1>4. \A i, j \in 1 .. n : i < j => s[i] < s[j]
    BY DEF InIdOrder
<1>5. DOMAIN got = 1 .. l /\ DOMAIN both = 1 .. l + n /\ DOMAIN s = 1 .. n
    BY <1>1, LenProperties DEF Received
<1>6. ToSet(got) = {got[i] : i \in 1 .. l} /\ ToSet(both) = {both[i] : i \in 1 .. l + n}
      /\ S = {s[i] : i \in 1 .. n}
    BY <1>5, Zenon DEF ToSet, InIdOrder
<1> HIDE DEF both, l
<1>7. ASSUME NEW i \in 1 .. l + n PROVE both[i] <= m
    <2>1. CASE i \in 1 .. l
        <3>1. both[i] = got[i] /\ got[i] \in Nat /\ got[i] <= lastEventId
            BY <1>1, <1>2, <2>1
        <3> QED
            BY <3>1
    <2>2. CASE i - l \in 1 .. n /\ i = l + (i - l)
        <3>1. both[i] = s[i - l] /\ s[i - l] \in S
            BY <1>1, <2>2
        <3> QED
            BY <3>1
    <2> QED
        BY <1>1, <2>1, <2>2
<1>8. ASSUME NEW i \in 1 .. l + n, NEW j \in 1 .. l + n, i < j
      PROVE  both[i] < both[j]
    <2>1. CASE i \in 1 .. l /\ j \in 1 .. l
        <3>1. both[i] = got[i] /\ both[j] = got[j]
            BY <1>1, <2>1
        <3> QED
            BY <1>3, <1>8, <2>1, <3>1
    <2>2. CASE i \in 1 .. l /\ j - l \in 1 .. n /\ j = l + (j - l)
        <3>1. both[i] = got[i] /\ got[i] \in Nat /\ both[j] = s[j - l] /\ s[j - l] \in S
            BY <1>1, <2>2
        <3>2. got[i] <= lastEventId /\ lastEventId < s[j - l] /\ s[j - l] \in Nat
            BY <1>2, <2>2, <3>1
        <3> QED
            BY <3>1, <3>2
    <2>3. CASE i \notin 1 .. l
        <3>1. /\ i - l \in 1 .. n /\ i = l + (i - l)
              /\ j - l \in 1 .. n /\ j = l + (j - l)
              /\ i - l < j - l
            BY <1>1, <1>8, <2>3
        <3>2. both[i] = s[i - l] /\ both[j] = s[j - l]
            BY <1>1, <3>1
        <3> QED
            BY <1>4, <3>1, <3>2
    <2> QED
        BY <1>1, <2>1, <2>2, <2>3
<1>9. ASSUME NEW k PROVE k \in ToSet(both) <=> k \in ToSet(got) \/ k \in S
    <2>1. ASSUME NEW i \in 1 .. l + n, k = both[i] PROVE k \in ToSet(got) \/ k \in S
        BY <1>1, <1>6, <2>1
    <2>2. ASSUME NEW i \in 1 .. l, k = got[i] PROVE k \in ToSet(both)
        <3>1. i \in 1 .. l + n /\ both[i] = k
            BY <1>1, <2>2
        <3> QED
            BY <1>6, <3>1
    <2>3. ASSUME NEW i \in 1 .. n, k = s[i] PROVE k \in ToSet(both)
        <3>1. l + i \in 1 .. l + n /\ both[l + i] = k
            BY <1>1, <2>3
        <3> QED
            BY <1>6, <3>1
    <2> QED
        BY <1>6, <2>1, <2>2, <2>3, Zenon
<1> QED
    BY <1>1, <1>7, <1>8, <1>9, Zenon DEF both

\* Only a drain gives the client anything, and only an INSERT adds a row.
LEMMA GotKinds ==
    ASSUME Types, [Next]_vars
    PROVE  \/ \E c \in Conns : Deliver(c)
           \/ UNCHANGED <<got, lastEventId>>
BY DEF Next, WriterStep, StreamStep, StatusChanges, Connect, Disconnect, Send, SendPanics,
       AppendEvent, Inserted, CopyTargets, PublishReturns,
       Subscribe, CheckStatus, Wake, Heartbeat, StreamFails, Cancel, vars, clientVars

LEMMA BatchBounds ==
    ASSUME Types, Position, NEW c \in Conns,
           NEW last \in ListEvents(c) \union {after[c]},
           NEW upto \in ListEvents(c) \union {after[c]}
    PROVE  /\ Batch(c, upto) \in SUBSET Nat /\ upto \in Nat /\ lastEventId \in Nat
           /\ \A i \in Batch(c, upto) : lastEventId < i /\ i <= upto
           /\ Batch(c, upto) # {} => lastEventId <= upto
           /\ Batch(c, upto) # {} =>
                 \A i \in rows : i <= upto => i <= lastEventId \/ i \in Batch(c, upto)
<1>1. Batch(c, upto) # {} => after[c] = lastEventId
    BY DEF Batch, Position
<1>2. Batch(c, upto) \in SUBSET Nat /\ upto \in Nat /\ lastEventId \in Nat
    BY DEF Batch, ListEvents, Types
<1>3. \A i \in Batch(c, upto) : lastEventId < i /\ i <= upto
    BY <1>1, <1>2 DEF Batch, ListEvents
<1>4. ASSUME Batch(c, upto) # {} PROVE lastEventId <= upto
    <2>1. PICK i \in Batch(c, upto) : TRUE
        BY <1>4
    <2> QED
        BY <1>2, <1>3, <2>1
<1>5. ASSUME Batch(c, upto) # {}, NEW i \in rows, i <= upto, ~(i <= lastEventId)
      PROVE  i \in Batch(c, upto)
    <2>1. c = cur /\ online
        BY <1>5 DEF Batch
    <2>2. i > after[c]
        BY <1>1, <1>2, <1>5 DEF Types
    <2> QED
        BY <1>5, <2>1, <2>2 DEF Batch, ListEvents
<1> QED
    BY <1>2, <1>3, <1>4, <1>5

\* What the client receives in one step: nothing, or the rows that follow.
LEMMA Receives ==
    ASSUME Types, RowIds, Position, [Next]_vars, Received
    PROVE  Received' /\ (rows' # rows \/ \A i \in rows :
                            i <= lastEventId' => i <= lastEventId \/ i \in ToSet(got'))
           /\ \A k \in ToSet(got) : k \in ToSet(got')
<1>1. CASE UNCHANGED <<got, lastEventId>>
    BY <1>1 DEF Received, InOrder
<1>2. ASSUME NEW c \in Conns, Deliver(c)
      PROVE  Received' /\ (\A i \in rows : i <= lastEventId' => i <= lastEventId \/ i \in ToSet(got'))
             /\ \A k \in ToSet(got) : k \in ToSet(got')
    <2>1. PICK last, upto \in ListEvents(c) \union {after[c]}, n \in Nat :
            \E s \in [1 .. n -> Batch(c, upto)] :
               /\ InIdOrder(s, Batch(c, upto)) /\ got' = got \o s
               /\ lastEventId' = IF Batch(c, upto) = {} THEN lastEventId ELSE upto
        BY <1>2, DeliverCases
    <2>2. PICK s \in [1 .. n -> Batch(c, upto)] :
               InIdOrder(s, Batch(c, upto)) /\ got' = got \o s
        BY <2>1
    <2> DEFINE B == Batch(c, upto)
    <2>3. lastEventId' \in Nat /\ lastEventId <= lastEventId'
          /\ \A i \in B : lastEventId < i /\ i <= lastEventId'
        BY <2>1, BatchBounds
    <2>4. B \in SUBSET Nat /\ lastEventId \in Nat
        BY BatchBounds
    <2>5. /\ got' \in Seq(Nat)
          /\ \A i \in 1 .. Len(got') : got'[i] <= lastEventId'
          /\ \A i, j \in 1 .. Len(got') : i < j => got'[i] < got'[j]
          /\ \A k : k \in ToSet(got') <=> k \in ToSet(got) \/ k \in B
        BY <2>2, <2>3, <2>4, Appended
    <2>6. \A i \in rows : i <= lastEventId' => i <= lastEventId \/ i \in B
        BY <2>1, BatchBounds
    <2> QED
        BY <2>5, <2>6 DEF Received, InOrder
<1> QED
    BY <1>1, <1>2, GotKinds

LEMMA NoGapsStep ==
    ASSUME Types, RowIds, Position, Received, Serial, NoGaps, [Next]_vars
    PROVE  NoGaps'
<1> SUFFICES ASSUME ~raced', NEW k \in rows', k <= lastEventId' PROVE k \in ToSet(got')
    BY DEF NoGaps
<1>1. \A i \in ToSet(got) : i \in ToSet(got')
    BY Receives
<1>2. ASSUME NEW w \in Writers, AppendEvent(w) \/ Inserted(w) PROVE k \in ToSet(got')
    <2>1. ~raced /\ lastEventId' = lastEventId
        <3>1. CASE AppendEvent(w)
            <4>1. raced' = (raced \/ \E v \in Writers : wpc[v] = "insert")
                BY <3>1 DEF AppendEvent
            <4> QED
                BY <3>1, <4>1 DEF AppendEvent, clientVars
        <3>2. CASE Inserted(w)
            BY <3>2 DEF Inserted, clientVars
        <3> QED
            BY <1>2, <3>1, <3>2
    <2>2. CASE k \in rows
        BY <1>1, <2>1, <2>2 DEF NoGaps
    <2>3. CASE k \notin rows
        <3>1. k = wid[w] /\ wpc[w] = "insert"
            BY <1>2, <2>3, InsertedCases DEF AppendEvent
        <3>2. lastEventId < wid[w]
            BY <2>1, <3>1 DEF Serial, Position, RowIds, Types
        <3> QED
            BY <2>1, <3>1, <3>2 DEF Types
    <2> QED
        BY <2>2, <2>3
<1>3. CASE UNCHANGED <<rows, nextId, raced>>
    BY <1>1, <1>3, Receives DEF NoGaps
<1> QED
    BY <1>2, <1>3, WriterKinds

LEMMA ClientAlways == Spec => [](Inv /\ ClientInv)
<1>1. Init => Inv /\ ClientInv
    BY InitInv, ClientInit
<1>2. Inv /\ ClientInv /\ [Next]_vars => (Inv /\ ClientInv)'
    BY TypesStep, FreshIdsStep, SubscribedStep, SignalledStep, RowIdsStep, SerialStep, RestStep,
       PositionStep, Receives, NoGapsStep DEF Inv, ClientInv
<1> QED
    BY <1>1, <1>2, PTL DEF Spec

\* Every reachable state of the stream has its types, for any number of writers and
\* connections; an id is never 0.
THEOREM StreamTypeCorrect == Spec => []TypeOK
<1>1. Inv /\ ClientInv => TypeOK
    BY DEF Inv, Types, ClientInv, RowIds, Received, RestOK, TypeOK
<1> QED
    BY <1>1, ClientAlways, PTL

\* The client never receives an event twice or out of order, over any number of
\* connections that break anywhere (ListEvents, Last-Event-ID).
THEOREM InOrderAlways == Spec => []InOrder
<1>1. ClientInv => InOrder
    BY DEF ClientInv, Received
<1> QED
    BY <1>1, ClientAlways, PTL

\* Unless two INSERTs overlapped, what the client has skipped does not exist.
THEOREM NoGapsAlways == Spec => []NoGaps
<1>1. ClientInv => NoGaps
    BY DEF ClientInv
<1> QED
    BY <1>1, ClientAlways, PTL

--------------------------------------------------------------------------------
(***************************************************************************)
(* The refinement of EventFeed.  It needs two facts more: the id the       *)
(* client would resume after is that of the last event it has, and a       *)
(* client that was told the end has no handler any more that lists.        *)
(***************************************************************************)

AtLast == lastEventId = Feed!Cursor

Ended == done => cur \in Conns /\ cpc[cur] \in {"closing", "off"}

LEMMA EndedStep ==
    ASSUME Types, RestOK, Position, Ended, [Next]_vars
    PROVE  Ended'
<1> USE DEF Types, RestOK, Ended, eventVars, writerVars, busVars, streamVars, clientVars
<1>1. CASE UNCHANGED <<done, cur, cpc>>
    BY <1>1
<1>2. ASSUME NEW w \in Writers, NEW c \in Conns, SendPanics(w, c) PROVE Ended'
    BY <1>2 DEF SendPanics
<1>3. CASE Connect
    BY <1>3 DEF Connect
<1>4. ASSUME NEW c \in Conns, CheckStatus(c) PROVE Ended'
    <2>1. /\ cpc[c] = "check" /\ cur' = cur
          /\ cpc' = [cpc EXCEPT ![c] = IF ended THEN "closing" ELSE "wait"]
          /\ done' = (done \/ (ended /\ c = cur /\ online))
        BY <1>4 DEF CheckStatus
    <2>2. CASE done
        BY <2>1, <2>2
    <2>3. CASE ~done
        BY <2>1, <2>3
    <2> QED
        BY <2>2, <2>3
<1>5. ASSUME NEW c \in Conns, Subscribe(c) \/ Wake(c) \/ Heartbeat(c) PROVE Ended'
    <2>1. /\ cpc[c] \in {"open", "wait"} /\ UNCHANGED <<done, cur>>
          /\ cpc' = [cpc EXCEPT ![c] = "list"]
        BY <1>5 DEF Subscribe, Wake, Heartbeat
    <2> QED
        BY <2>1
<1>6. ASSUME NEW c \in Conns, StreamFails(c) \/ Cancel(c) PROVE Ended'
    <2>1. /\ UNCHANGED <<done, cur>>
          /\ cpc' = [cpc EXCEPT ![c] = "closing"] \/ cpc' = [cpc EXCEPT ![c] = "off"]
        BY <1>6 DEF StreamFails, Cancel
    <2> QED
        BY <2>1
<1>7. ASSUME NEW c \in Conns, Deliver(c) PROVE Ended'
    <2>1. /\ cpc[c] = "list" /\ UNCHANGED <<done, cur>>
          /\ cpc' = [cpc EXCEPT ![c] = "check"]
        BY <1>7, Zenon DEF Deliver, clientVars
    <2> QED
        BY <2>1
<1> QED
    BY <1>1, <1>2, <1>3, <1>4, <1>5, <1>6, <1>7
    DEF Next, WriterStep, StreamStep, StatusChanges, Disconnect, AppendEvent, Inserted,
        CopyTargets, Send, PublishReturns, vars

\* An empty batch adds nothing.
LEMMA EmptyBatch ==
    ASSUME NEW g \in Seq(Nat), NEW n \in Nat, NEW s \in [1 .. n -> {}]
    PROVE  g \o s = g
<1>1. n = 0
    <2>1. ~(1 <= n)
        OBVIOUS
    <2> QED
        BY <2>1
<1>2. /\ g \o s \in Seq(Nat) /\ Len(g \o s) = Len(g) + n /\ Len(g) \in Nat
      /\ \A i \in 1 .. Len(g) : (g \o s)[i] = g[i]
    BY ConcatElements
<1>3. Len(g \o s) = Len(g)
    BY <1>1, <1>2
<1> QED
    BY <1>2, <1>3, SeqEqual, Zenon

\* Any other ends with its highest id.
LEMMA BatchEnd ==
    ASSUME NEW g \in Seq(Nat), NEW n \in Nat, NEW S \in SUBSET Nat, NEW s \in [1 .. n -> S],
           InIdOrder(s, S), NEW m \in Nat, \A i \in S : i <= m, m \in S
    PROVE  g \o s # <<>> /\ (g \o s)[Len(g \o s)] = m
<1>1. /\ Len(g) \in Nat /\ g \o s \in Seq(Nat) /\ Len(g \o s) = Len(g) + n
      /\ \A i \in 1 .. n : (g \o s)[Len(g) + i] = s[i] /\ s[i] \in S
    BY ConcatElements
<1>2. PICK k \in 1 .. n : s[k] = m
    BY DEF InIdOrder, ToSet
<1>3. n \in 1 .. n /\ k <= n
    BY <1>2
<1>4. s[n] \in Nat /\ s[n] <= m
    BY <1>3
<1>5. ~(k < n)
    <2>1. DOMAIN s = 1 .. n
        OBVIOUS
    <2>2. k < n => s[k] < s[n]
        BY <1>3, <2>1 DEF InIdOrder
    <2> QED
        BY <1>2, <1>4, <2>2
<1>6. s[n] = m
    BY <1>2, <1>3, <1>5
<1>7. (g \o s)[Len(g) + n] = m
    BY <1>1, <1>3, <1>6
<1>8. g \o s # <<>>
    BY <1>1, <1>3
<1> QED
    BY <1>1, <1>7, <1>8

\* The FiniteSets that EventFeed extends is the one used here.
LEMMA SameCardinality == ASSUME NEW S PROVE Feed!Cardinality(S) = Cardinality(S)
    BY DEF Feed!Cardinality, Cardinality

\* A drain is nothing to the client, or the next stretch of the log.
LEMMA DeliverRefines ==
    ASSUME Types, RowIds, RestOK, Position, Received, Ended, AtLast,
           NEW c \in Conns, Deliver(c)
    PROVE  AtLast' /\ (UNCHANGED <<rows, got, done>> \/ Feed!Receive)
<1>1. PICK last, upto \in ListEvents(c) \union {after[c]}, n \in Nat :
        \E s \in [1 .. n -> Batch(c, upto)] :
            /\ n = Cardinality(Batch(c, upto))
            /\ InIdOrder(s, Batch(c, upto)) /\ got' = got \o s
            /\ lastEventId' = IF Batch(c, upto) = {} THEN lastEventId ELSE upto
            /\ rows' = rows
    BY DeliverCases
<1> DEFINE B == Batch(c, upto)
<1>2. PICK s \in [1 .. n -> B] : InIdOrder(s, B) /\ got' = got \o s
    BY <1>1
<1>3. /\ B \in SUBSET Nat /\ upto \in Nat /\ got \in Seq(Nat)
      /\ \A i \in B : i <= upto
    BY BatchBounds DEF Received
<1>4. ASSUME B # {} PROVE upto \in B
    <2>1. PICK i \in B : i > after[c] /\ i <= upto /\ c = cur /\ online
        BY <1>4 DEF Batch, ListEvents
    <2>2. upto # after[c]
        BY <1>3, <2>1 DEF Types
    <2> QED
        BY <1>3, <2>1, <2>2 DEF Batch
<1>5. B = {} => got' = got
    BY <1>2, <1>3, EmptyBatch
<1>6. ASSUME B # {} PROVE got' # <<>> /\ got'[Len(got')] = upto
    <2>1. upto \in B
        BY <1>4, <1>6
    <2>2. got \o s # <<>> /\ (got \o s)[Len(got \o s)] = upto
        <3>1. InIdOrder(s, B) /\ s \in [1 .. n -> B]
            BY <1>2
        <3> HIDE DEF B
        <3> QED
            BY <1>3, <2>1, <3>1, BatchEnd
    <2> QED
        BY <1>2, <2>2, Zenon
<1>7. lastEventId' = (IF B = {} THEN lastEventId ELSE upto) /\ rows' = rows
    BY <1>1
<1>8. AtLast'
    BY <1>5, <1>6, <1>7 DEF AtLast, Feed!Cursor
<1>9. done' = done /\ cpc[c] = "list"
    BY Zenon DEF Deliver
<1>10. CASE B = {}
    BY <1>5, <1>7, <1>8, <1>9, <1>10
<1>11. CASE B # {}
    <2>1. c = cur /\ online /\ after[c] = Feed!Cursor /\ upto \in rows
        BY <1>4, <1>11 DEF Batch, ListEvents, Position, AtLast
    <2>2. ~done
        BY <1>9, <2>1 DEF Ended
    <2>3. B = Feed!Stretch(upto)
        <3>1. after[c] \in Nat /\ rows \subseteq Nat
            BY DEF Types
        <3> QED
            BY <2>1, <3>1 DEF Batch, ListEvents, Feed!Stretch
    <2>4. Feed!Ascending(s) /\ {s[i] : i \in DOMAIN s} = Feed!Stretch(upto)
        BY <1>2, <2>3, Zenon DEF InIdOrder, ToSet, Feed!Ascending
    <2>5. s \in [1 .. Feed!Cardinality(Feed!Stretch(upto)) -> Feed!Stretch(upto)]
        BY <1>1, <2>3, SameCardinality, Zenon
    <2>6. Feed!Receive
        <3>1. UNCHANGED <<rows, done>>
            BY <1>7, <1>9
        <3>2. got' = got \o s /\ upto \in rows
            BY <1>2, <2>1
        <3>3. \E t \in [1 .. Feed!Cardinality(Feed!Stretch(upto)) -> Feed!Stretch(upto)] :
                /\ Feed!Ascending(t) /\ {t[i] : i \in DOMAIN t} = Feed!Stretch(upto)
                /\ got' = got \o t
            BY <2>4, <2>5, <3>2
        <3> QED
            BY <2>2, <3>1, <3>2, <3>3 DEF Feed!Receive
    <2> QED
        BY <1>8, <2>6
<1> QED
    BY <1>10, <1>11

\* Every step is one of the feed, or is not seen by the client.
LEMMA FeedStep ==
    ASSUME Types, FreshIds, RowIds, RestOK, Position, Received, Ended, AtLast, [Next]_vars
    PROVE  AtLast' /\ [Feed!Next]_(Feed!feedVars)
<1> USE DEF eventVars, writerVars, busVars, streamVars, clientVars
<1>1. CASE UNCHANGED <<rows, got, done, lastEventId>>
    BY <1>1 DEF AtLast, Feed!Cursor, Feed!feedVars
<1>2. ASSUME NEW w \in Writers, Inserted(w) PROVE AtLast' /\ [Feed!Next]_(Feed!feedVars)
    <2>1. UNCHANGED <<got, done, lastEventId>>
        BY <1>2 DEF Inserted
    <2>2. CASE wid[w] \notin rows /\ rows' = rows \union {wid[w]}
        <3>1. wid[w] # 0
            BY <1>2 DEF Inserted, RowIds
        <3>2. Feed!Extend
            BY <2>1, <2>2, <3>1 DEF Feed!Extend
        <3> QED
            BY <2>1, <3>2 DEF AtLast, Feed!Cursor, Feed!Next
    <2>3. CASE rows' = rows
        BY <1>1, <2>1, <2>3
    <2>4. rows' = rows \union {wid[w]} \/ rows' = rows
        BY <1>2, InsertedCases
    <2> QED
        BY <2>2, <2>3, <2>4
<1>3. ASSUME NEW c \in Conns, Deliver(c) PROVE AtLast' /\ [Feed!Next]_(Feed!feedVars)
    BY <1>3, DeliverRefines DEF Feed!Next, Feed!feedVars
<1>4. ASSUME NEW c \in Conns, CheckStatus(c) PROVE AtLast' /\ [Feed!Next]_(Feed!feedVars)
    <2>1. UNCHANGED <<rows, got, lastEventId>> /\ (done' = done \/ (~done /\ done' = TRUE))
        BY <1>4 DEF CheckStatus, RestOK
    <2>2. CASE done' = done
        BY <1>1, <2>1, <2>2
    <2>3. CASE ~done /\ done' = TRUE
        BY <2>1, <2>3 DEF AtLast, Feed!Cursor, Feed!Next, Feed!Close
    <2> QED
        BY <2>1, <2>2, <2>3
<1> QED
    BY <1>1, <1>2, <1>3, <1>4
    DEF Next, WriterStep, StreamStep, StatusChanges, Connect, Disconnect, AppendEvent,
        CopyTargets, Send, SendPanics, PublishReturns, Subscribe, Wake, Heartbeat,
        StreamFails, Cancel, vars

\* The stream is a cursor over the log of events: whatever INSERTs overlap and
\* connections, handlers and processes break, each thing the client receives is the
\* whole next stretch of the committed rows, and nothing comes after "event: end".
THEOREM FeedRefined == Spec => FollowsFeed
<1>1. Init => Feed!Init /\ Ended /\ AtLast
    BY DEF Init, Feed!Init, Ended, AtLast, Feed!Cursor
<1>2. Inv /\ ClientInv /\ Ended /\ AtLast /\ [Next]_vars
      => Ended' /\ AtLast' /\ [Feed!Next]_(Feed!feedVars)
    BY EndedStep, FeedStep DEF Inv, ClientInv
<1> QED
    BY <1>1, <1>2, ClientAlways, PTL DEF Spec, FollowsFeed, Feed!Spec
================================================================================
