------------------------------- MODULE EventStream -------------------------------
(***************************************************************************)
(* The events of one deployment and the SSE stream that shows them:        *)
(* AppendEvent/ListEvents (store), the in-process Bus (events) and         *)
(* handleDeploymentEvents (api).                                           *)
(*                                                                         *)
(* Writers insert events.  Those of the control plane publish a wake-up on *)
(* the bus afterwards; the build service cannot, and its events are found  *)
(* by the 15 s heartbeat of a stream.  A client follows the deployment     *)
(* over successive connections, each served by a handler with a channel of *)
(* its own; a handler may outlive its connection for a while.              *)
(***************************************************************************)
EXTENDS Naturals, FiniteSets, Sequences, SequencesExt

CONSTANTS
    Ticks,        \* the reconciler goroutine, as a set
    Requests,     \* HTTP handlers that append and publish
    Builders,     \* goroutines of the build service: append only
    Cap,          \* capacity of a channel (16 in the code)
    Events,       \* bound: how many events each writer has
    MaxConns      \* bound: connections the client opens

Publishers == Ticks \union Requests
Writers    == Publishers \union Builders
Conns      == 1 .. MaxConns

ASSUME WritersAssumption ==
    /\ Ticks \intersect Requests = {}
    /\ Builders \intersect Publishers = {}
ASSUME StreamBoundsAssumption ==
    Cap \in Nat \ {0} /\ MaxConns \in Nat /\ Events \in [Writers -> Nat]

VARIABLES
    rows,      \* ids of the committed rows of deployment_events
    nextId,    \* the sequence behind bigserial
    ended,     \* deployments.status is running, failed or superseded
    wpc,       \* where each writer is
    wid,       \* the id it is inserting or publishing
    left,      \* events it still has to write
    targets,   \* channels it copied in Publish and has not served yet
    chan,      \* state of the channel of each connection
    buf,       \* wake-ups in that channel
    cpc,       \* where the handler of each connection is
    after,     \* its afterID
    cur,       \* the client's latest connection; 0: none yet
    online,    \* that connection is up
    done,      \* the client has seen "event: end"
    lastEventId,   \* the id it would resume after
    got,       \* ids received by the client, over all connections
    raced,     \* history: two INSERTs were under way at the same time
    notified,  \* history: ids whose Publish has returned
    panicked   \* history: a publisher sent on a closed channel

eventVars  == <<rows, nextId, raced>>
writerVars == <<wpc, wid, left, targets, notified>>
busVars    == <<chan, buf>>
streamVars == <<cpc, after>>
clientVars == <<cur, online, done, lastEventId, got>>
vars == <<eventVars, ended, writerVars, busVars, streamVars, clientVars, panicked>>

WriterPC == {"idle", "insert", "publish", "send"}
StreamPC == {"off", "open", "list", "check", "wait", "closing"}

TypeOK ==
    /\ rows \in SUBSET (Nat \ {0})
    /\ nextId \in Nat \ {0}
    /\ ended \in BOOLEAN
    /\ wpc \in [Writers -> WriterPC]
    /\ wid \in [Writers -> Nat]
    /\ left \in [Writers -> Nat]
    /\ targets \in [Writers -> SUBSET Conns]
    /\ chan \in [Conns -> {"none", "open", "closed"}]
    /\ buf \in [Conns -> 0 .. Cap]
    /\ cpc \in [Conns -> StreamPC]
    /\ after \in [Conns -> Nat]
    /\ cur \in 0 .. MaxConns
    /\ online \in BOOLEAN
    /\ done \in BOOLEAN
    /\ lastEventId \in Nat
    /\ got \in Seq(Nat)
    /\ raced \in BOOLEAN
    /\ notified \in SUBSET Nat
    /\ panicked \in BOOLEAN

Init ==
    /\ rows = {}
    /\ nextId = 1
    /\ ended = FALSE
    /\ wpc = [w \in Writers |-> "idle"]
    /\ wid = [w \in Writers |-> 0]
    /\ left = Events
    /\ targets = [w \in Writers |-> {}]
    /\ chan = [c \in Conns |-> "none"]
    /\ buf = [c \in Conns |-> 0]
    /\ cpc = [c \in Conns |-> "off"]
    /\ after = [c \in Conns |-> 0]
    /\ cur = 0
    /\ online = FALSE
    /\ done = FALSE
    /\ lastEventId = 0
    /\ got = <<>>
    /\ raced = FALSE
    /\ notified = {}
    /\ panicked = FALSE

--------------------------------------------------------------------------------
(***************************************************************************)
(* Writers.  AppendEvent draws its id from the sequence and becomes        *)
(* visible when the statement commits.                                     *)
(***************************************************************************)

AppendEvent(w) ==
    /\ wpc[w] = "idle" /\ left[w] > 0
    /\ wpc' = [wpc EXCEPT ![w] = "insert"]
    /\ wid' = [wid EXCEPT ![w] = nextId]
    /\ left' = [left EXCEPT ![w] = @ - 1]
    /\ nextId' = nextId + 1
    /\ raced' = (raced \/ \E v \in Writers : wpc[v] = "insert")
    /\ UNCHANGED <<rows, targets, notified, ended, busVars, streamVars,
                   clientVars, panicked>>

Idle(w) == wpc' = [wpc EXCEPT ![w] = "idle"] /\ wid' = [wid EXCEPT ![w] = 0]

WillPublish(w) == wpc' = [wpc EXCEPT ![w] = "publish"] /\ UNCHANGED wid

\* The INSERT commits, or fails and burns its id.  The reconciler drops that
\* error and publishes; handleDeploymentUploaded answers 500 instead.
Inserted(w) ==
    /\ wpc[w] = "insert"
    /\ \/ /\ rows' = rows \union {wid[w]}
          /\ IF w \in Publishers THEN WillPublish(w) ELSE Idle(w)
       \/ /\ rows' = rows
          /\ IF w \in Ticks THEN WillPublish(w) ELSE Idle(w)
    /\ UNCHANGED <<nextId, raced, ended, left, targets, notified, busVars,
                   streamVars, clientVars, panicked>>

\* Publish: copy the channels under the lock ...
CopyTargets(w) ==
    /\ wpc[w] = "publish"
    /\ wpc' = [wpc EXCEPT ![w] = "send"]
    /\ targets' = [targets EXCEPT ![w] = {c \in Conns : chan[c] = "open"}]
    /\ UNCHANGED <<eventVars, ended, wid, left, notified, busVars, streamVars,
                   clientVars, panicked>>

\* Sensitivity variant: a channel that is never full.
SendUnbounded(w, c) ==
    /\ wpc[w] = "send" /\ c \in targets[w]
    /\ chan[c] = "open"
    /\ buf' = [buf EXCEPT ![c] = @ + 1]
    /\ targets' = [targets EXCEPT ![w] = @ \ {c}]
    /\ UNCHANGED <<eventVars, ended, wpc, wid, left, notified, chan, streamVars,
                   clientVars, panicked>>

\* ... and send to each of them without it, dropping what does not fit.
Send(w, c) ==
    /\ wpc[w] = "send" /\ c \in targets[w]
    /\ chan[c] = "open"
    /\ buf' = [buf EXCEPT ![c] = IF @ < Cap THEN @ + 1 ELSE @]
    /\ targets' = [targets EXCEPT ![w] = @ \ {c}]
    /\ UNCHANGED <<eventVars, ended, wpc, wid, left, notified, chan, streamVars,
                   clientVars, panicked>>

\* A send on a closed channel panics even under select with default.  In a
\* request chi's Recoverer catches it; in the reconciler's goroutine it ends
\* the process, and with it every handler and the bus.
SendPanics(w, c) ==
    /\ wpc[w] = "send" /\ c \in targets[w]
    /\ chan[c] = "closed"
    /\ panicked' = TRUE
    /\ LET gone == IF w \in Ticks THEN Publishers ELSE {w}
       IN  /\ wpc' = [v \in Writers |-> IF v \in gone THEN "idle" ELSE wpc[v]]
           /\ wid' = [v \in Writers |-> IF v \in gone THEN 0 ELSE wid[v]]
           /\ targets' = [v \in Writers |-> IF v \in gone THEN {} ELSE targets[v]]
    /\ IF w \in Ticks
       THEN /\ cpc' = [d \in Conns |-> "off"]
            /\ chan' = [d \in Conns |-> IF chan[d] = "open" THEN "closed" ELSE chan[d]]
            /\ buf' = [d \in Conns |-> 0]
            /\ after' = [d \in Conns |-> 0]
            /\ online' = FALSE
       ELSE UNCHANGED <<streamVars, busVars, online>>
    /\ UNCHANGED <<eventVars, ended, left, notified, cur, done, lastEventId, got>>

PublishReturns(w) ==
    /\ wpc[w] = "send" /\ targets[w] = {}
    /\ Idle(w)
    /\ notified' = notified \union {wid[w]}
    /\ UNCHANGED <<eventVars, ended, left, targets, busVars, streamVars,
                   clientVars, panicked>>

\* The status is written by the pipeline, before or after the events about it,
\* and may leave a terminal value again (MarkDeploymentQueued, handle).
StatusChanges ==
    /\ ended' = ~ended
    /\ UNCHANGED <<eventVars, writerVars, busVars, streamVars, clientVars, panicked>>

WriterStep(w) ==
    \/ AppendEvent(w) \/ Inserted(w) \/ CopyTargets(w) \/ PublishReturns(w)
    \/ \E c \in Conns : Send(w, c) \/ SendPanics(w, c)

--------------------------------------------------------------------------------
(***************************************************************************)
(* Streams.                                                                *)
(***************************************************************************)

\* Sensitivity variant: a reconnecting client starts at the newest event.
ResumeAtTail == nextId - 1

\* Last-Event-ID (or ?after=) of the client.
ResumeAfter == lastEventId

\* Sensitivity variant: a client that does not abort on "event: end" and
\* connects again.
ConnectAfterEnd ==
    /\ ~online /\ cur < MaxConns
    /\ cur' = cur + 1
    /\ online' = TRUE
    /\ cpc' = [cpc EXCEPT ![cur + 1] = "open"]
    /\ after' = [after EXCEPT ![cur + 1] = ResumeAfter]
    /\ UNCHANGED <<eventVars, ended, writerVars, busVars, done,
                   lastEventId, got, panicked>>

Connect ==
    /\ ~online /\ ~done /\ cur < MaxConns
    /\ cur' = cur + 1
    /\ online' = TRUE
    /\ cpc' = [cpc EXCEPT ![cur + 1] = "open"]
    /\ after' = [after EXCEPT ![cur + 1] = ResumeAfter]
    /\ UNCHANGED <<eventVars, ended, writerVars, busVars, done,
                   lastEventId, got, panicked>>

\* The network or the client goes away; the handler learns of it later.
Disconnect ==
    /\ online
    /\ online' = FALSE
    /\ UNCHANGED <<eventVars, ended, writerVars, busVars, streamVars, cur, done,
                   lastEventId, got, panicked>>

Subscribe(c) ==
    /\ cpc[c] = "open"
    /\ chan' = [chan EXCEPT ![c] = "open"]
    /\ cpc' = [cpc EXCEPT ![c] = "list"]
    /\ UNCHANGED <<eventVars, ended, writerVars, buf, after, clientVars, panicked>>

\* Sensitivity variant: id >= $2.
ListedFrom(c) == {i \in rows : i >= after[c]}

ListEvents(c) == {i \in rows : i > after[c]}

\* s is the result set with the rows S.
InIdOrder(s, S) ==
    ToSet(s) = S /\ \A i, j \in DOMAIN s : i < j => s[i] < s[j]

\* streamEvents, first half: the new rows in id order, up to "last".  When the
\* connection breaks meanwhile the client receives them only up to "upto".
Deliver(c) ==
    /\ cpc[c] = "list"
    /\ \E last, upto \in ListEvents(c) \union {after[c]} :
        /\ \A i \in ListEvents(c) : i <= last
        /\ after' = [after EXCEPT ![c] = last]
        /\ upto # last => c = cur /\ online
        /\ online' = (online /\ upto = last)
        /\ LET received == {i \in ListEvents(c) : c = cur /\ online /\ i <= upto}
           IN  /\ \E s \in [1 .. Cardinality(received) -> received] :
                     InIdOrder(s, received) /\ got' = got \o s
               /\ lastEventId' = IF received = {} THEN lastEventId ELSE upto
    /\ cpc' = [cpc EXCEPT ![c] = "check"]
    /\ UNCHANGED <<eventVars, ended, writerVars, busVars, cur, done, panicked>>

\* Sensitivity variant: signals that arrived meanwhile are taken as served.
CheckCoalescing(c) ==
    /\ cpc[c] = "check"
    /\ cpc' = [cpc EXCEPT ![c] = IF ended THEN "closing" ELSE "wait"]
    /\ done' = (done \/ (ended /\ c = cur /\ online))
    /\ buf' = [buf EXCEPT ![c] = 0]
    /\ UNCHANGED <<eventVars, ended, writerVars, chan, after, cur, online,
                   lastEventId, got, panicked>>

\* streamEvents, second half: read the status, and say "end" if it is terminal.
CheckStatus(c) ==
    /\ cpc[c] = "check"
    /\ cpc' = [cpc EXCEPT ![c] = IF ended THEN "closing" ELSE "wait"]
    /\ done' = (done \/ (ended /\ c = cur /\ online))
    /\ UNCHANGED <<eventVars, ended, writerVars, busVars, after, cur, online,
                   lastEventId, got, panicked>>

Wake(c) ==
    /\ cpc[c] = "wait" /\ buf[c] > 0
    /\ buf' = [buf EXCEPT ![c] = @ - 1]
    /\ cpc' = [cpc EXCEPT ![c] = "list"]
    /\ UNCHANGED <<eventVars, ended, writerVars, chan, after, clientVars, panicked>>

\* Sensitivity variant: the heartbeat only pings.
HeartbeatPings(c) == FALSE /\ UNCHANGED vars

\* The 15 s ticker: a ping, and a poll for events of other processes.
Heartbeat(c) ==
    /\ cpc[c] = "wait"
    /\ cpc' = [cpc EXCEPT ![c] = "list"]
    /\ UNCHANGED <<eventVars, ended, writerVars, busVars, after, clientVars, panicked>>

\* The request context is cancelled, or a query fails: the handler returns.
StreamFails(c) ==
    /\ cpc[c] \in {"list", "check", "wait"}
    /\ cpc' = [cpc EXCEPT ![c] = "closing"]
    /\ online' = (online /\ c # cur)
    /\ UNCHANGED <<eventVars, ended, writerVars, busVars, after, cur, done, lastEventId,
                   got, panicked>>

\* The deferred cancel(): unregister and close, under the lock.
Cancel(c) ==
    /\ cpc[c] = "closing"
    /\ cpc' = [cpc EXCEPT ![c] = "off"]
    /\ chan' = [chan EXCEPT ![c] = "closed"]
    /\ buf' = [buf EXCEPT ![c] = 0]
    /\ after' = [after EXCEPT ![c] = 0]
    /\ online' = (online /\ c # cur)
    /\ UNCHANGED <<eventVars, ended, writerVars, cur, done,
                   lastEventId, got, panicked>>

StreamStep(c) ==
    \/ Subscribe(c) \/ Deliver(c) \/ CheckStatus(c) \/ Wake(c) \/ Heartbeat(c)
    \/ StreamFails(c) \/ Cancel(c)

Next ==
    \/ \E w \in Writers : WriterStep(w)
    \/ StatusChanges
    \/ Connect \/ Disconnect
    \/ \E c \in Conns : StreamStep(c)

Spec == Init /\ [][Next]_vars

--------------------------------------------------------------------------------
(***************************************************************************)
(* Safety.                                                                 *)
(***************************************************************************)

\* The client never receives an event twice or out of order, over all its
\* connections (ListEvents' bound and order, Last-Event-ID).
InOrder ==
    \A i, j \in 1 .. Len(got) : i < j => got[i] < got[j]

\* What the client has skipped does not exist: unless two INSERTs overlapped,
\* every row up to the last one received was received, also across
\* reconnections and broken batches.
NoGaps ==
    ~raced => \A i \in rows : i <= lastEventId => i \in ToSet(got)

\* A handler that waits with an empty channel has looked past every event whose
\* Publish has returned: subscribing before the first drain, and dropping
\* signals when the channel is full, lose nothing.
NoLostWakeup ==
    \A c \in Conns :
        cpc[c] = "wait" /\ buf[c] = 0 =>
            \A i \in notified \intersect rows : i <= after[c]

\* The stream implements a cursor over the log (EventFeed), whatever INSERTs
\* overlap, connections break, handlers fail or processes end.
Feed == INSTANCE EventFeed WITH log <- rows, got <- got, closed <- done

FollowsFeed == Feed!Spec

(***************************************************************************)
(* Liveness.  Writers go on, and a handler takes the branch of its select  *)
(* that is due; a handler whose client is gone notices.                    *)
(***************************************************************************)

HandlerGoesOn(c) ==
    Subscribe(c) \/ Deliver(c) \/ CheckStatus(c) \/ Wake(c) \/ Heartbeat(c) \/ Cancel(c)

Orphaned(c) == StreamFails(c) /\ (c # cur \/ ~online)

FairSpec ==
    /\ Spec
    /\ \A w \in Writers : WF_vars(WriterStep(w))
    /\ \A c \in Conns : WF_vars(HandlerGoesOn(c)) /\ SF_vars(Orphaned(c))

\* A client that stays connected while the deployment is under way receives
\* every event, also those of the build service, which no publish announces.
EventuallyDelivered ==
    [](raced = FALSE) /\ <>[](online /\ ~ended) =>
        \A i \in 1 .. SumFunction(Events) :
            i \in rows ~> i \in ToSet(got)

\* Once the deployment stays terminal, every stream ends: no handler and no
\* channel is left behind (the heartbeat sees statuses nobody announces).
StreamsEnd ==
    <>[]ended => <>[](\A c \in Conns : cpc[c] = "off" /\ chan[c] # "open")

(***************************************************************************)
(* What the code says and does not do.                                     *)
(***************************************************************************)

\* events/bus.go: a signal that cannot be delivered is a "drop".  Publish sends
\* to channels that cancel may have closed since they were copied.
PublishNeverPanics == ~panicked
================================================================================
