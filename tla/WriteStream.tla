----------------------------- MODULE WriteStream -----------------------------
(***************************************************************************)
(* How the Firestore SDK of one phone brings the app's updateData calls to   *)
(* the backend: the mutation queue on disk, the write pipeline of           *)
(* RemoteStore (the first batches of the queue), the write stream with its   *)
(* handshake, and the messages on the call.                                 *)
(*                                                                         *)
(* A batch is a number, in the order the batches were written; every batch   *)
(* sets the same field.  A call that ends delivers nothing more in either     *)
(* direction.  The app never disables the network and never signs in, so a    *)
(* token is always given and the streams are never rebuilt for a new user.     *)
(***************************************************************************)
EXTENDS Stream, Sequences, FiniteSets

CONSTANTS
    MaxBatches, \* bound: batches the app writes
    MaxPending, \* kMaxPendingWrites: the longest pipeline
    Refused     \* the batches the backend refuses for good

ASSUME WriteAssumption ==
    /\ MaxBatches \in Nat
    /\ MaxPending \in Nat \ {0}
    /\ Refused \subseteq 1..MaxBatches

VARIABLES
    written,    \* how many batches the app wrote
    queue,      \* the mutation queue, on disk
    pipeline,   \* write_pipeline_: batches the stream is to send
    stream,     \* the write stream
    shaken,     \* handshake_complete_
    up,         \* what the phone sent on this call and the backend has not read
    down,       \* replies on this call the phone has not read
    ended,      \* the backend ended this call with a refusal
    held,       \* the batch the field has its value from
    takenEver,  \* history: batches the backend took
    refusals,   \* history: batches the backend refused
    fails       \* history: failures in a row, see Failed

phoneVars == <<written, queue, pipeline, stream, shaken>>
callVars == <<up, down, ended>>
backendVars == <<held, takenEver, refusals>>
vars == <<phoneVars, callVars, backendVars, fails>>

Batches == 1..MaxBatches
Hello == 0      \* the handshake and its reply

TypeOK ==
    /\ written \in 0..MaxBatches
    /\ queue \in Seq(Batches) /\ pipeline \in Seq(Batches)
    /\ Len(pipeline) <= MaxPending
    /\ stream \in Streams
    /\ shaken \in BOOLEAN /\ ended \in BOOLEAN
    /\ up \in Seq({Hello} \cup Batches) /\ down \in Seq({Hello} \cup Batches)
    /\ held \in {Hello} \cup Batches
    /\ takenEver \subseteq Batches /\ refusals \subseteq Batches
    /\ fails \in 0..(MaxLevel + 1)

Init ==
    /\ written = 0
    /\ queue = <<>> /\ pipeline = <<>>
    /\ stream = NewStream /\ shaken = FALSE
    /\ up = <<>> /\ down = <<>> /\ ended = FALSE
    /\ held = 0 /\ takenEver = {} /\ refusals = {}
    /\ fails = 0

-----------------------------------------------------------------------------
Last(s) == IF s = <<>> THEN 0 ELSE s[Len(s)]

\* The batches FillWritePipeline adds: those after the pipeline's last, in the
\* order of their numbers, while there is room.
Following(q, line) ==
    LET seen == Cardinality({i \in DOMAIN q : q[i] <= Last(line)})
        end == seen + MaxPending - Len(line)
    IN  SubSeq(q, seen + 1, IF end < Len(q) THEN end ELSE Len(q))

\* Mutant of CanSend: the handshake is not waited for.
CanSendOpen(s) == IsOpen(s)

\* AddToWritePipeline sends a batch when the stream is ready for it.
CanSend(s) == IsOpen(s) /\ shaken

\* FillWritePipeline, from queue q, pipeline line and stream s, with what is on
\* the call: an empty pipeline makes the stream idle, a batch needs it started,
\* and sending one stops the idleness timer.
FillWritePipeline(q, line, s, call) ==
    LET more == Following(q, line)
        full == line \o more
    IN  /\ queue' = q
        /\ pipeline' = full
        /\ up' = IF CanSend(s) THEN call \o more ELSE call
        /\ stream' =
              IF full = <<>> THEN MarkIdle(s)
              ELSE IF ~IsStarted(s) THEN Start(s)
              ELSE IF CanSend(s) /\ more # <<>> THEN CancelIdleCheck(s)
              ELSE s

\* updateData: the batch is on disk, then the pipeline is filled.
WriteMutations ==
    /\ written < MaxBatches
    /\ written' = written + 1
    /\ FillWritePipeline(Append(queue, written + 1), pipeline, stream, up)
    /\ UNCHANGED <<shaken, down, ended, backendVars, fails>>

\* The stream opens and sends its handshake.
OnWriteStreamOpen ==
    /\ stream.state = "starting"
    /\ stream' = CancelIdleCheck(OnStreamStart(stream))
    /\ up' = <<Hello>>
    /\ UNCHANGED <<written, queue, pipeline, shaken, down, ended, backendVars, fails>>

BackoffElapses ==
    /\ stream.state = "backoff"
    /\ stream' = Restart(stream)
    /\ UNCHANGED <<written, queue, pipeline, shaken, callVars, backendVars, fails>>

\* Mutant of OnHandshakeComplete: the handshake counts as a healthy stream.
HandshakeHealthy ==
    /\ down # <<>> /\ ~shaken
    /\ down' = Tail(down)
    /\ shaken' = TRUE
    /\ up' = up \o pipeline
    /\ stream' = ResetBackoff(CancelIdleCheck(stream))
    /\ UNCHANGED <<written, queue, pipeline, ended, backendVars, fails>>

\* The first reply: all of the pipeline is sent.
OnHandshakeComplete ==
    /\ down # <<>> /\ ~shaken
    /\ down' = Tail(down)
    /\ shaken' = TRUE
    /\ up' = up \o pipeline
    /\ stream' = IF pipeline = <<>> THEN stream ELSE CancelIdleCheck(stream)
    /\ UNCHANGED <<written, queue, pipeline, ended, backendVars, fails>>

\* RemoveMutationBatch, wherever the batch is in the queue.
Without(q, b) ==
    IF \A i \in DOMAIN q : q[i] # b THEN q
    ELSE LET at == CHOOSE i \in DOMAIN q : q[i] = b
         IN  SubSeq(q, 1, at - 1) \o SubSeq(q, at + 1, Len(q))

\* Mutant of OnMutationResult: the newest batch of the pipeline is settled.
ResultOfNewest ==
    /\ down # <<>> /\ shaken /\ pipeline # <<>>
    /\ down' = Tail(down)
    /\ FillWritePipeline(Without(queue, Last(pipeline)),
                         SubSeq(pipeline, 1, Len(pipeline) - 1),
                         ResetBackoff(stream), up)
    /\ fails' = 0
    /\ UNCHANGED <<written, shaken, ended, backendVars>>

\* Every other reply is taken to be the result of the pipeline's first batch:
\* it leaves the pipeline and the queue.
OnMutationResult ==
    /\ down # <<>> /\ shaken /\ pipeline # <<>>
    /\ down' = Tail(down)
    /\ FillWritePipeline(Without(queue, Head(pipeline)), Tail(pipeline),
                         ResetBackoff(stream), up)
    /\ fails' = 0
    /\ UNCHANGED <<written, shaken, ended, backendVars>>

-----------------------------------------------------------------------------
\* Mutant of StartIfNeeded: a closed stream waits for the next write.
StaysClosed(s) == s

\* After a close the stream starts again if there is anything to send.
StartIfNeeded(s) == IF pipeline # <<>> /\ ~IsStarted(s) THEN Start(s) ELSE s

CallIsOver == up' = <<>> /\ down' = <<>> /\ ended' = FALSE

\* The idleness timer fires: the stream stops.
IdleTimeout ==
    /\ stream.idle
    /\ stream' = StartIfNeeded(Close(stream, "ok"))
    /\ shaken' = FALSE
    /\ CallIsOver
    /\ fails' = 0
    /\ UNCHANGED <<written, queue, pipeline, backendVars>>

\* The history counts failures up to the longest delay; an exhausted backend
\* asks for the longest delay at once.
Failed(status) == IF status = "exhausted" \/ fails = MaxLevel + 1
                  THEN MaxLevel + 1 ELSE fails + 1

\* Mutant of OnStreamBroken: replies of the old call are still read.
BrokenKeepsReplies(status) ==
    /\ IsOpen(stream)
    /\ stream' = StartIfNeeded(Close(stream, status))
    /\ shaken' = FALSE
    /\ up' = <<>> /\ ended' = FALSE
    /\ fails' = Failed(status)
    /\ UNCHANGED <<written, queue, pipeline, down, backendVars>>

\* The call fails with an error that says nothing of the writes: nothing
\* leaves the pipeline.
OnStreamBroken(status) ==
    /\ IsOpen(stream)
    /\ stream' = StartIfNeeded(Close(stream, status))
    /\ shaken' = FALSE
    /\ CallIsOver
    /\ fails' = Failed(status)
    /\ UNCHANGED <<written, queue, pipeline, backendVars>>

\* The call ends with the backend's refusal.  Replies sent before it are read
\* first, except that a write of the phone still under way fails at once and
\* the replies not yet read are dropped.  The pipeline's first batch is taken
\* to be the one refused.
HandleWriteError ==
    /\ IsOpen(stream) /\ ended /\ pipeline # <<>>
    /\ down = <<>> \/ Len(up) > 1
    /\ FillWritePipeline(Without(queue, Head(pipeline)), Tail(pipeline),
                         InhibitBackoff(Close(stream, "refused")), <<>>)
    /\ shaken' = FALSE
    /\ down' = <<>> /\ ended' = FALSE
    /\ fails' = 0
    /\ UNCHANGED <<written, backendVars>>

\* The process ends and the app is started again: the queue is on disk.
Relaunch ==
    /\ FillWritePipeline(queue, <<>>, NewStream, <<>>)
    /\ shaken' = FALSE
    /\ down' = <<>> /\ ended' = FALSE
    /\ fails' = 0
    /\ UNCHANGED <<written, backendVars>>

-----------------------------------------------------------------------------
(* The backend reads one message after the other.                            *)

BackendGreets ==
    /\ up # <<>> /\ ~ended /\ Head(up) = Hello
    /\ up' = Tail(up)
    /\ down' = Append(down, Hello)
    /\ UNCHANGED <<phoneVars, ended, backendVars, fails>>

BackendTakes ==
    /\ up # <<>> /\ ~ended /\ Head(up) \in Batches \ Refused
    /\ held' = Head(up)
    /\ takenEver' = takenEver \cup {Head(up)}
    /\ up' = Tail(up)
    /\ down' = Append(down, Head(up))
    /\ UNCHANGED <<phoneVars, ended, refusals, fails>>

\* The batch stays in the picture until the phone hears of its refusal.
BackendRefuses ==
    /\ up # <<>> /\ ~ended /\ Head(up) \in Refused
    /\ refusals' = refusals \cup {Head(up)}
    /\ ended' = TRUE
    /\ UNCHANGED <<phoneVars, up, down, held, takenEver, fails>>

Next ==
    \/ WriteMutations \/ OnWriteStreamOpen \/ BackoffElapses
    \/ OnHandshakeComplete \/ OnMutationResult
    \/ IdleTimeout \/ HandleWriteError \/ Relaunch
    \/ \E status \in Failures : OnStreamBroken(status)
    \/ BackendGreets \/ BackendTakes \/ BackendRefuses

Spec == Init /\ [][Next]_vars

\* The phone's own steps are taken when they can be.  A call may break at any
\* time, and the process may end, but again and again a call lives long enough
\* for its next step.
Fairness ==
    /\ WF_vars(BackoffElapses)
    /\ SF_vars(OnWriteStreamOpen)
    /\ SF_vars(BackendGreets) /\ SF_vars(OnHandshakeComplete)
    /\ SF_vars(BackendTakes) /\ SF_vars(BackendRefuses)
    /\ SF_vars(OnMutationResult) /\ SF_vars(HandleWriteError)

LiveSpec == Spec /\ Fairness

-----------------------------------------------------------------------------
(* While a handshaken stream is open, the call carries the pipeline exactly   *)
(* once and in order: replies not yet read, then what the backend has not     *)
(* read.  OnMutationResult names no batch and relies on this.                *)
WireCarriesPipeline ==
    IsOpen(stream) /\ shaken =>
        down \o up = pipeline

(* A batch leaves the disk only when the backend took it or refused it, also  *)
(* across broken calls, restarts and a refusal laid at the wrong batch.      *)
NothingLost ==
    \A b \in 1..written :
        b \in takenEver \cup refusals \/ \E i \in DOMAIN queue : queue[i] = b

(* With nothing queued the field holds the newest batch that was not refused, *)
(* however often batches were sent again.                                    *)
RestsAtNewest ==
    queue = <<>> =>
        \A b \in (1..written) \ Refused : b <= held

(* The idleness timer is set only while there is nothing to send:             *)
(* OnWriteStreamClose asserts that a stream stopped gracefully is not needed. *)
IdleIsUnneeded == stream.idle => pipeline = <<>> /\ queue = <<>> /\ up = <<>>

(* A stream that failed n times in a row, with no write acknowledged between, *)
(* waits n - 1 levels or the longest delay before the next attempt.          *)
Paced == stream.state = "backoff" =>
             stream.delay >= (IF fails > MaxLevel THEN MaxLevel ELSE fails - 1)

(* Every batch is settled in the end.                                        *)
WritesSettle ==
    \A b \in Batches :
        written >= b ~> \A i \in DOMAIN queue : queue[i] # b

-----------------------------------------------------------------------------
(* FirestoreClient's pipeline as this module's: one phone, one document, the  *)
(* calls still to be made as callbacks in store, and the replies under way    *)
(* after the handshake as the writes taken.                                   *)
Client == INSTANCE FirestoreClient WITH
    Phones <- {1}, Docs <- {1}, Values <- 0..MaxBatches, Screens <- {},
    MaxCalls <- MaxBatches, MaxWrites <- MaxBatches,
    server <- [d \in {1} |-> held],
    view <- [p \in {1} |-> [d \in {1} |-> written]],
    asked <- [p \in {1} |-> <<>>],
    answered <- [p \in {1} |->
        [i \in 1..(MaxBatches - written) |->
            [req |-> [kind |-> "update", doc |-> 1, value |-> written + i],
             snapshot |-> [d \in {1} |-> 0]]]],
    writes <- [p \in {1} |->
        [i \in DOMAIN queue |-> [doc |-> 1, value |-> queue[i]]]],
    taken <- [p \in {1} |-> IF shaken THEN Len(down) ELSE 0]

(* Every step of the stream is a step of the client the app's models are      *)
(* built on, or none, but the one the client does not have: hearing of a       *)
(* refusal.                                                                  *)
ImplementsClient ==
    [][\/ Client!UpdateCallback(1) \/ Client!Commit(1)
       \/ Client!Acknowledge(1) \/ Client!Reconnect(1)
       \/ HandleWriteError]_(Client!clientVars)

(* What holds of the write side in every state: every batch made is on disk,   *)
(* taken or refused, and once all are settled the newest has stayed.          *)
WriteStreamInv ==
    /\ TypeOK
    /\ NothingLost
    /\ RestsAtNewest

=============================================================================
