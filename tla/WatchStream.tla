----------------------------- MODULE WatchStream -----------------------------
(***************************************************************************)
(* How the Firestore SDK of one phone answers getDocuments calls on the one  *)
(* query the app uses: each call registers a listener on the worker queue,    *)
(* the first listener makes RemoteStore watch the query, snapshots and the    *)
(* online state decide when a listener raises its event, and the callback     *)
(* runs on the main queue, where it removes the listener again.              *)
(*                                                                         *)
(* A watch request carries a number, the count of watch requests on its       *)
(* call, and the backend's replies name it: the SDK does not see the number   *)
(* and counts replies instead.  A call that ends delivers nothing more.  The  *)
(* backend refuses no query, and tokens are always given.                    *)
(***************************************************************************)
EXTENDS Stream, Sequences, FiniteSets

CONSTANTS
    MaxCalls,   \* bound: getDocuments calls the app makes
    MaxEvents   \* bound: events on the main queue when a call breaks

ASSUME CallsAssumption == MaxCalls \in Nat /\ MaxEvents \in Nat

VARIABLES
    made,       \* getDocuments calls the app made
    tasks,      \* the app's tasks on the worker queue
    query,      \* the query's listeners, as the event manager keeps them
    events,     \* the calls whose events wait on the main queue
    muted,      \* the calls whose listener was removed by its callback
    completed,  \* completed[c]: how often c's completion ran
    tracker,    \* the online state, its failures and its timer
    watchStream, \* the watch stream
    pending,    \* outstanding_responses_ of the query's target
    listens,    \* watch requests sent on this call
    requests,   \* requests on this call the backend has not read
    replies,    \* replies on this call the phone has not read
    serving,    \* the listen the backend serves, and whether it is current
    untimed     \* history: the last listener left a stream that was started and
                \* not open, and the online state was not decided since

watchCallVars == <<requests, replies, serving>>
trackVars == <<tracker, untimed>>
watchVars == <<made, tasks, query, events, muted, completed,
          trackVars, watchStream, pending, listens, watchCallVars>>

Calls == 1..MaxCalls
Tasks == [kind : {"add", "remove"}, call : Calls]
Requests == [kind : {"watch"}, listen : Nat] \cup [kind : {"unwatch"}]
Replies == [kind : {"added", "current"}, listen : Nat] \cup [kind : {"removed"}]

Elements(s) == {s[i] : i \in DOMAIN s}

WatchTypeOK ==
    /\ made \in 0..MaxCalls
    /\ tasks \in Seq(Tasks)
    /\ query \in [listeners : Seq(Calls), raised : SUBSET Calls,
                  snapshot : {"none", "cache", "synced"}]
    /\ query.raised \subseteq Elements(query.listeners)
    /\ query.snapshot = "none" <=> query.listeners = <<>>
    /\ events \in Seq(Calls) /\ muted \subseteq Calls
    /\ completed \in [Calls -> Nat]
    /\ tracker \in [online : {"unknown", "online", "offline"},
                    failed : BOOLEAN, timer : BOOLEAN]
    /\ untimed \in BOOLEAN
    /\ watchStream \in Streams
    /\ pending \in Nat /\ listens \in Nat
    /\ requests \in Seq(Requests) /\ replies \in Seq(Replies)
    /\ serving \in [listen : Nat, current : BOOLEAN]

NoCall == [listen |-> 0, current |-> FALSE]

WatchInit ==
    /\ made = 0 /\ tasks = <<>>
    /\ query = [listeners |-> <<>>, raised |-> {}, snapshot |-> "none"]
    /\ events = <<>> /\ muted = {}
    /\ completed = [c \in Calls |-> 0]
    /\ tracker = [online |-> "unknown", failed |-> FALSE, timer |-> FALSE]
    /\ untimed = FALSE
    /\ watchStream = NewStream
    /\ pending = 0 /\ listens = 0
    /\ requests = <<>> /\ replies = <<>> /\ serving = NoCall

-----------------------------------------------------------------------------
(* OnlineStateTracker.  One failure is enough for Offline, so the count is    *)
(* kept as whether there was one.                                            *)

\* Mutant of HandleWatchStreamStart: no timer is started.
StartUntimed(t) == IF t.failed THEN t ELSE [t EXCEPT !.online = "unknown"]

HandleWatchStreamStart(t) ==
    IF t.failed THEN t ELSE [t EXCEPT !.online = "unknown", !.timer = TRUE]

HandleWatchStreamFailure(t) ==
    IF t.online = "online"
    THEN [t EXCEPT !.online = "unknown"]
    ELSE [online |-> "offline", failed |-> TRUE, timer |-> FALSE]

UpdateState(state) == [online |-> state, failed |-> FALSE, timer |-> FALSE]

-----------------------------------------------------------------------------
(* Listeners and snapshots.                                                  *)

Listening(q) == q.listeners # <<>>

\* ShouldRaiseInitialEvent: a call waits for a synced snapshot unless offline.
RaisesFor(snapshot, online) == snapshot = "synced" \/ online = "offline"

\* The listeners that have raised no event are the last ones, see RaisedFirst.
Waiting(q) == SubSeq(q.listeners, Cardinality(q.raised) + 1, Len(q.listeners))

\* Going offline a synced view is so no longer, which is an event for every
\* listener; the listeners that waited raise what the cache has.
OfflineEvents == IF query.snapshot = "synced" THEN query.listeners ELSE Waiting(query)

\* The tracker changes to t; listeners hear when that means offline.
Track(t) ==
    /\ tracker' = t
    /\ untimed' = FALSE
    /\ IF t.online = "offline" /\ tracker.online # "offline" /\ Listening(query)
       THEN /\ query' = [query EXCEPT !.raised = Elements(query.listeners),
                                      !.snapshot = "cache"]
            /\ events' = events \o OfflineEvents
       ELSE UNCHANGED <<query, events>>

\* A listener joins those of the query and is shown the snapshot there is.
Joins(c, q) ==
    [q EXCEPT !.listeners = Append(@, c),
              !.raised = IF RaisesFor(q.snapshot, tracker.online)
                         THEN @ \cup {c} ELSE @]

\* The first listener is shown what the local store has.
FirstListener(c) == Joins(c, [query EXCEPT !.snapshot = "cache"])

\* SendWatchRequest: one more reply to wait for.
Watch == [kind |-> "watch", listen |-> listens + 1]

StartWatchStream(s, t) ==
    /\ watchStream' = Start(s)
    /\ tracker' = HandleWatchStreamStart(t)
    /\ untimed' = FALSE
    /\ UNCHANGED <<pending, listens, requests>>

\* Listen: the stream starts, or an open one is sent the request.
Listen ==
    IF ~IsStarted(watchStream) THEN StartWatchStream(watchStream, tracker)
    ELSE IF IsOpen(watchStream)
    THEN /\ pending' = pending + 1
         /\ listens' = listens + 1
         /\ requests' = Append(requests, Watch)
         /\ watchStream' = CancelIdleCheck(watchStream)
         /\ UNCHANGED trackVars
    ELSE UNCHANGED <<pending, listens, requests, watchStream, trackVars>>

\* addListener, on the worker queue.
AddListener ==
    /\ tasks # <<>> /\ Head(tasks).kind = "add"
    /\ tasks' = Tail(tasks)
    /\ LET c == Head(tasks).call
           q == IF Listening(query) THEN Joins(c, query) ELSE FirstListener(c)
       IN  /\ query' = q
           /\ events' = IF c \in q.raised THEN Append(events, c) ELSE events
    /\ IF Listening(query)
       THEN UNCHANGED <<pending, listens, requests, watchStream, trackVars>>
       ELSE Listen
    /\ UNCHANGED <<made, muted, completed, replies, serving>>

\* SendUnwatchRequest: one more reply to wait for.
Unwatch == pending + 1

\* StopListening: an open stream is told and becomes idle; without one the
\* online state is unknown again.
StopListening ==
    IF IsOpen(watchStream)
    THEN /\ pending' = Unwatch
         /\ requests' = Append(requests, [kind |-> "unwatch"])
         /\ watchStream' = MarkIdle(CancelIdleCheck(watchStream))
         /\ UNCHANGED trackVars
    ELSE /\ tracker' = UpdateState("unknown")
         /\ untimed' = IsStarted(watchStream)
         /\ UNCHANGED <<pending, requests, watchStream>>

\* Mutant of Others: the last listener takes the place of the one erased.
LastInPlace(s, c) ==
    IF c \notin Elements(s) THEN s
    ELSE SubSeq([i \in DOMAIN s |-> IF s[i] = c THEN s[Len(s)] ELSE s[i]], 1, Len(s) - 1)

\* The listeners s but for the one of call c.
Others(s, c) ==
    IF c \notin Elements(s) THEN s
    ELSE LET at == CHOOSE i \in DOMAIN s : s[i] = c
         IN  SubSeq(s, 1, at - 1) \o SubSeq(s, at + 1, Len(s))

\* removeListener, on the worker queue.
RemoveListener ==
    /\ tasks # <<>> /\ Head(tasks).kind = "remove"
    /\ tasks' = Tail(tasks)
    /\ LET c == Head(tasks).call
           left == Others(query.listeners, c)
       IN  /\ query' = [listeners |-> left, raised |-> query.raised \ {c},
                        snapshot |-> IF left = <<>> THEN "none" ELSE query.snapshot]
           /\ IF left = <<>> THEN StopListening
              ELSE UNCHANGED <<pending, requests, watchStream, trackVars>>
    /\ UNCHANGED <<made, events, muted, completed, listens, replies, serving>>

-----------------------------------------------------------------------------
(* The app's side, on the main queue.                                        *)

GetDocuments ==
    /\ made < MaxCalls
    /\ made' = made + 1
    /\ tasks' = Append(tasks, [kind |-> "add", call |-> made + 1])
    /\ UNCHANGED <<query, events, muted, completed, trackVars, watchStream, pending,
                   listens, watchCallVars>>

\* An event reaches its listener unless that is muted: the listener is muted
\* and its removal queued before the completion runs.
RunEvent ==
    /\ events # <<>>
    /\ events' = Tail(events)
    /\ LET c == Head(events)
       IN  IF c \in muted THEN UNCHANGED <<muted, tasks, completed>>
           ELSE /\ muted' = muted \cup {c}
                /\ tasks' = Append(tasks, [kind |-> "remove", call |-> c])
                /\ completed' = [completed EXCEPT ![c] = @ + 1]
    /\ UNCHANGED <<made, query, trackVars, watchStream, pending, listens, watchCallVars>>

-----------------------------------------------------------------------------
(* The stream.                                                               *)

\* The stream opens: the query, if it is still listened to, is watched.
OnWatchStreamOpen ==
    /\ watchStream.state = "starting"
    /\ watchStream' = OnStreamStart(watchStream)
    /\ IF Listening(query)
       THEN pending' = pending + 1 /\ listens' = listens + 1 /\ requests' = <<Watch>>
       ELSE UNCHANGED <<pending, listens, requests>>
    /\ UNCHANGED <<made, tasks, query, events, muted, completed, trackVars, replies,
                   serving>>

WatchBackoffElapses ==
    /\ watchStream.state = "backoff"
    /\ watchStream' = Restart(watchStream)
    /\ UNCHANGED <<made, tasks, query, events, muted, completed, trackVars, pending,
                   listens, watchCallVars>>

WatchCallIsOver ==
    /\ pending' = 0 /\ listens' = 0
    /\ requests' = <<>> /\ replies' = <<>> /\ serving' = NoCall

\* Mutant of OnWatchStreamBroken: the connection is not retried.
BrokenGivesUp(status) ==
    /\ IsOpen(watchStream) /\ Len(events) <= MaxEvents
    /\ WatchCallIsOver
    /\ watchStream' = Close(watchStream, status)
    /\ Track(UpdateState("unknown"))
    /\ UNCHANGED <<made, tasks, muted, completed>>

\* The call fails: while the query is listened to the connection is retried.
OnWatchStreamBroken(status) ==
    /\ IsOpen(watchStream) /\ Len(events) <= MaxEvents
    /\ WatchCallIsOver
    /\ IF Listening(query)
       THEN /\ watchStream' = Start(Close(watchStream, status))
            /\ Track(HandleWatchStreamStart(HandleWatchStreamFailure(tracker)))
       ELSE /\ watchStream' = Close(watchStream, status)
            /\ Track(UpdateState("unknown"))
    /\ UNCHANGED <<made, tasks, muted, completed>>

\* The idleness timer fires.
WatchIdleTimeout ==
    /\ watchStream.idle
    /\ WatchCallIsOver
    /\ watchStream' = Close(watchStream, "ok")
    /\ Track(UpdateState("unknown"))
    /\ UNCHANGED <<made, tasks, muted, completed>>

\* The backend was not heard of in time.
OnlineStateTimeout ==
    /\ tracker.timer
    /\ Track([tracker EXCEPT !.timer = FALSE, !.online = "offline"])
    /\ UNCHANGED <<made, tasks, muted, completed, watchStream, pending, listens,
                   watchCallVars>>

\* The replies counted are those to the requests sent.
AwaitsFewer(reply) == IF reply.kind = "current" THEN pending ELSE pending - 1

\* Mutant of IsActive: replies to earlier requests are not waited for.
IsActiveAtOnce == TRUE

\* IsActiveTarget: no reply to a request of the query's target is outstanding.
IsActive == pending = 0

\* A reply: the stream is healthy and the phone online.  What it says of the
\* query counts when no reply to an earlier request is outstanding; being
\* current comes with a snapshot, which is an event for every listener if the
\* view was not synced before.
OnWatchStreamChange ==
    /\ IsOpen(watchStream) /\ replies # <<>>
    /\ replies' = Tail(replies)
    /\ watchStream' = ResetBackoff(watchStream)
    /\ tracker' = UpdateState("online")
    /\ untimed' = FALSE
    /\ pending' = AwaitsFewer(Head(replies))
    /\ IF Head(replies).kind = "current" /\ IsActive /\ query.snapshot = "cache"
       THEN /\ query' = [query EXCEPT !.raised = Elements(query.listeners),
                                      !.snapshot = "synced"]
            /\ events' = events \o query.listeners
       ELSE UNCHANGED <<query, events>>
    /\ UNCHANGED <<made, tasks, muted, completed, listens, requests, serving>>

-----------------------------------------------------------------------------
(* The backend answers requests in order; a listen becomes current once.     *)

BackendReads ==
    /\ requests # <<>>
    /\ requests' = Tail(requests)
    /\ IF Head(requests).kind = "watch"
       THEN /\ serving' = [listen |-> Head(requests).listen, current |-> FALSE]
            /\ replies' = Append(replies,
                   [kind |-> "added", listen |-> Head(requests).listen])
       ELSE /\ serving' = NoCall
            /\ replies' = Append(replies, [kind |-> "removed"])
    /\ UNCHANGED <<made, tasks, query, events, muted, completed, trackVars, watchStream,
                   pending, listens>>

BackendCatchesUp ==
    /\ serving.listen # 0 /\ ~serving.current
    /\ serving' = [serving EXCEPT !.current = TRUE]
    /\ replies' = Append(replies, [kind |-> "current", listen |-> serving.listen])
    /\ UNCHANGED <<made, tasks, query, events, muted, completed, trackVars, watchStream,
                   pending, listens, requests>>

AppNext == GetDocuments \/ RunEvent \/ AddListener \/ RemoveListener

StreamNext ==
    \/ OnWatchStreamOpen \/ WatchBackoffElapses \/ WatchIdleTimeout \/ OnlineStateTimeout

NetworkNext ==
    \/ OnWatchStreamChange \/ BackendReads \/ BackendCatchesUp
    \/ \E status \in Failures : OnWatchStreamBroken(status)

WatchNext == AppNext \/ StreamNext \/ NetworkNext

WatchSpec == WatchInit /\ [][WatchNext]_watchVars

\* The phone's queues and timers run, and it reads what has arrived.
PhoneFairness ==
    /\ WF_watchVars(RunEvent) /\ WF_watchVars(AddListener) /\ WF_watchVars(RemoveListener)
    /\ WF_watchVars(OnWatchStreamOpen) /\ WF_watchVars(WatchBackoffElapses)
    /\ WF_watchVars(OnlineStateTimeout) /\ WF_watchVars(OnWatchStreamChange)

\* The network goes on too: what is sent arrives or the call breaks, and a phone
\* that is online is not cut off again and again.
NetworkFairness ==
    /\ WF_watchVars(NetworkNext)
    /\ <>[][tracker.online = "online" => tracker'.online = "online"]_watchVars

WatchLiveSpec == WatchSpec /\ PhoneFairness /\ NetworkFairness

-----------------------------------------------------------------------------
(* The completion of a getDocuments call never runs twice, though its         *)
(* listener may have raised several events before it is removed.             *)
AnsweredOnce == \A c \in Calls : completed[c] <= 1

(* The timer runs only while the state is unknown, no attempt failed and the  *)
(* stream is started: the tracker asserts as much when it starts the timer,   *)
(* when the timer fires and when a stream that was online fails.             *)
TimerIsSound ==
    tracker.timer =>
        tracker.online = "unknown" /\ ~tracker.failed /\ IsStarted(watchStream)

(* The idleness timer is set only while the query is not listened to:         *)
(* OnWatchStreamClose asserts that a stream stopped gracefully is not needed. *)
IdleIsUnwatched == watchStream.idle => ~Listening(query)

(* Once the view is synced, or the phone offline, no listener is left waiting.*)
NoneLeftWaiting ==
    RaisesFor(query.snapshot, tracker.online) =>
        Elements(query.listeners) \subseteq query.raised

(* The view becomes synced only by what the backend says of the newest        *)
(* listen: a reply to a listen since ended is never taken for one to the new. *)
SyncedByNewestListen ==
    [][query.snapshot = "cache" /\ query'.snapshot = "synced" =>
           Head(replies).listen = listens]_watchVars

(* A listener raises its event no later than those that joined after it, and   *)
(* is listed once.                                                           *)
RaisedFirst ==
    \A i, j \in DOMAIN query.listeners : i < j =>
        /\ query.listeners[i] # query.listeners[j]
        /\ query.listeners[j] \in query.raised => query.listeners[i] \in query.raised

(* The promise kept: calls are answered oldest first and called back once, in   *)
(* their order.  Those answered have raised their event, or did before their    *)
(* callback removed them.                                                    *)
Promise == INSTANCE ReadCalls WITH answered <- Cardinality(query.raised \cup muted)

ImplementsReadCalls == Promise!ReadCallsSpec

(* Every getDocuments call is answered in the end if the network goes on.     *)
EveryCallAnswered == \A c \in Calls : made >= c ~> completed[c] > 0

(* A call never waits in the unknown state with no timer to end it, unless the *)
(* listeners before it stopped during an attempt to connect: StopListening then *)
(* clears the timer, and the next Listen finds the stream started.             *)
UnknownHasTimer ==
    Listening(query) /\ tracker.online = "unknown" => tracker.timer \/ untimed

(* What holds of the read side in every state: nobody is called back twice, the *)
(* timers of the online state and of idleness fit what is being waited for, and *)
(* whoever could be answered has been.                                       *)
WatchStreamInv ==
    /\ WatchTypeOK
    /\ AnsweredOnce
    /\ TimerIsSound
    /\ UnknownHasTimer
    /\ IdleIsUnwatched
    /\ NoneLeftWaiting
    /\ RaisedFirst

=============================================================================
