--------------------------- MODULE FirestoreClient ---------------------------
(***************************************************************************)
(* One field of the documents of the collection "Yaks" (likes, or comments) *)
(* as the phones see it through the Firestore SDK the app is built with.   *)
(*                                                                         *)
(*  - getDocuments is one call with two halves: the SDK takes a snapshot    *)
(*    when the backend (or, offline, the local cache) answers, and the      *)
(*    callback runs later on the main queue.  Calls of one phone on one     *)
(*    query are answered and called back in the order they were made.       *)
(*  - updateData is applied to the phone's own view at once and reaches     *)
(*    the backend later, through a first-in first-out pipeline that is kept *)
(*    on disk.  A write leaves the pipeline when it is acknowledged.  When   *)
(*    the stream breaks before, all of the pipeline is sent again: the      *)
(*    backend may take a write more than once.  WriteStream models the      *)
(*    code of the SDK behind this.                                          *)
(***************************************************************************)
EXTENDS Integers, Sequences, FiniteSets

CONSTANTS
    Phones,     \* the installations of the app
    Docs,       \* the documents, one per image_url
    Values,     \* the values the field may take
    Screens,    \* the view controllers that keep fetched yaks
    MaxCalls,   \* bound: getDocuments calls of a phone not yet called back
    MaxWrites   \* bound: updateData writes of a phone not yet committed

ASSUME BoundsAssumption == MaxCalls \in Nat /\ MaxWrites \in Nat

VARIABLES
    server,     \* server[d]: the field as the backend stores it
    view,       \* view[p][d]: the field as p's local store would answer it
    asked,      \* asked[p]: getDocuments calls the SDK has not answered
    answered,   \* answered[p]: calls with their snapshot, callback not yet run
    writes,     \* writes[p]: updateData writes not yet acknowledged
    taken       \* taken[p]: how many of them the backend took on this stream

clientVars == <<server, view, asked, answered, writes, taken>>

Snapshots == [Docs -> Values]

\* What the callback of a call will do with the snapshot it is given: hand it
\* to a screen, or write v into document d.
Fetch(s) == [kind |-> "fetch", screen |-> s]
Update(d, v) == [kind |-> "update", doc |-> d, value |-> v]

Requests == [kind : {"fetch"}, screen : Screens]
                \cup [kind : {"update"}, doc : Docs, value : Values]

Answers == [req : Requests, snapshot : Snapshots]

Writes == [doc : Docs, value : Values]

ClientTypeOK ==
    /\ server \in Snapshots
    /\ view \in [Phones -> Snapshots]
    /\ asked \in [Phones -> Seq(Requests)]
    /\ answered \in [Phones -> Seq(Answers)]
    /\ writes \in [Phones -> Seq(Writes)]
    /\ taken \in [Phones -> Nat]
    /\ \A p \in Phones : taken[p] <= Len(writes[p])

\* Every phone has synchronised once and nothing is under way.
ClientInit(initial) ==
    /\ server = initial
    /\ view = [p \in Phones |-> initial]
    /\ asked = [p \in Phones |-> <<>>]
    /\ answered = [p \in Phones |-> <<>>]
    /\ writes = [p \in Phones |-> <<>>]
    /\ taken = [p \in Phones |-> 0]

-----------------------------------------------------------------------------
\* A call of getDocuments.
GetDocuments(p, req) ==
    /\ Len(asked[p]) + Len(answered[p]) < MaxCalls
    /\ asked' = [asked EXCEPT ![p] = Append(@, req)]
    /\ UNCHANGED <<server, view, answered, writes, taken>>

Pending(p) == {writes[p][i].doc : i \in DOMAIN writes[p]}

\* Mutant of Synced: the backend's answer is not overlaid with pending writes.
SyncedUnderWrites(p) == server

\* The local store after a synchronisation: what the backend says, with the
\* phone's own pending writes laid over it.
Synced(p) == [d \in Docs |-> IF d \in Pending(p) THEN view[p][d] ELSE server[d]]

\* The oldest call gets its snapshot: of the synchronised store when the phone
\* is online, of the store as it is when the phone is offline.
Answer(p) ==
    /\ asked[p] # <<>>
    /\ \E snapshot \in {view[p], Synced(p)} :
          /\ view' = [view EXCEPT ![p] = snapshot]
          /\ answered' = [answered EXCEPT ![p] =
                 Append(@, [req |-> Head(asked[p]), snapshot |-> snapshot])]
    /\ asked' = [asked EXCEPT ![p] = Tail(@)]
    /\ UNCHANGED <<server, writes, taken>>

\* The query fails: every call waiting for it is called back with an error,
\* which the app only prints.
FailCalls(p) ==
    /\ asked[p] # <<>>
    /\ asked' = [asked EXCEPT ![p] = <<>>]
    /\ UNCHANGED <<server, view, answered, writes, taken>>

\* The callback of the oldest answered call runs, and the call is done.  The
\* callback of a fetch leaves the store alone.
FetchCallback(p) ==
    /\ answered[p] # <<>>
    /\ Head(answered[p]).req.kind = "fetch"
    /\ answered' = [answered EXCEPT ![p] = Tail(@)]
    /\ UNCHANGED <<server, view, asked, writes, taken>>

\* Mutant of UpdateCallback: the write is shown and never sent.
UpdateShownOnly(p) ==
    /\ answered[p] # <<>>
    /\ Head(answered[p]).req.kind = "update"
    /\ LET req == Head(answered[p]).req
       IN  view' = [view EXCEPT ![p][req.doc] = req.value]
    /\ answered' = [answered EXCEPT ![p] = Tail(@)]
    /\ UNCHANGED <<server, asked, writes, taken>>

\* The callback of an update calls updateData on the document it found: from
\* here on the local store holds the new value.
UpdateCallback(p) ==
    /\ answered[p] # <<>>
    /\ Head(answered[p]).req.kind = "update"
    /\ Len(writes[p]) < MaxWrites
    /\ LET req == Head(answered[p]).req
       IN  /\ writes' = [writes EXCEPT ![p] =
                  Append(@, [doc |-> req.doc, value |-> req.value])]
           /\ view' = [view EXCEPT ![p][req.doc] = req.value]
    /\ answered' = [answered EXCEPT ![p] = Tail(@)]
    /\ UNCHANGED <<server, asked, taken>>

\* The backend takes the next write of the pipeline.
Commit(p) ==
    /\ taken[p] < Len(writes[p])
    /\ LET next == writes[p][taken[p] + 1]
       IN  server' = [server EXCEPT ![next.doc] = next.value]
    /\ taken' = [taken EXCEPT ![p] = @ + 1]
    /\ UNCHANGED <<view, asked, answered, writes>>

\* Mutant of Acknowledge: a write is done with when it is sent.
AcknowledgeSent(p) ==
    /\ writes[p] # <<>>
    /\ writes' = [writes EXCEPT ![p] = Tail(@)]
    /\ taken' = [taken EXCEPT ![p] = IF @ = 0 THEN 0 ELSE @ - 1]
    /\ UNCHANGED <<server, view, asked, answered>>

\* The phone hears that its oldest write was taken and removes it.
Acknowledge(p) ==
    /\ taken[p] > 0
    /\ writes' = [writes EXCEPT ![p] = Tail(@)]
    /\ taken' = [taken EXCEPT ![p] = @ - 1]
    /\ UNCHANGED <<server, view, asked, answered>>

\* The stream breaks: acknowledgements under way are lost, and the next stream
\* is sent the pipeline from its beginning.
Reconnect(p) ==
    /\ taken[p] > 0
    /\ taken' = [taken EXCEPT ![p] = 0]
    /\ UNCHANGED <<server, view, asked, answered, writes>>

\* The process ends: calls and the stream are gone, the store and the pipeline
\* are on disk.
EndProcess(p) ==
    /\ asked' = [asked EXCEPT ![p] = <<>>]
    /\ answered' = [answered EXCEPT ![p] = <<>>]
    /\ taken' = [taken EXCEPT ![p] = 0]
    /\ UNCHANGED <<server, view, writes>>

-----------------------------------------------------------------------------
(* Updates under way: where a phone's updates of a document stand.           *)

IsUpdate(req, d) == req.kind = "update" /\ req.doc = d

AskedFor(p, d) == {i \in DOMAIN asked[p] : IsUpdate(asked[p][i], d)}
AnsweredFor(p, d) == {i \in DOMAIN answered[p] : IsUpdate(answered[p][i].req, d)}
WritesFor(p, d) == {i \in DOMAIN writes[p] : writes[p][i].doc = d}

InFlight(p, d) ==
    AskedFor(p, d) # {} \/ AnsweredFor(p, d) # {} \/ WritesFor(p, d) # {}

Newest(S, i) == \A j \in S : j <= i

\* If updates of d by p are under way, the newest one carries v.
NewestCarries(p, d, v) ==
    /\ \A i \in AskedFor(p, d) : Newest(AskedFor(p, d), i) => asked[p][i].value = v
    /\ AskedFor(p, d) = {} =>
          \A i \in AnsweredFor(p, d) :
              Newest(AnsweredFor(p, d), i) => answered[p][i].req.value = v
    /\ AskedFor(p, d) = {} /\ AnsweredFor(p, d) = {} =>
          \A i \in WritesFor(p, d) :
              Newest(WritesFor(p, d), i) => writes[p][i].value = v

\* The newest update of d by p, once the backend took it, is what it holds.
NewestTaken(p, d) == \A i \in WritesFor(p, d) :
    Newest(WritesFor(p, d), i) /\ i <= taken[p] => server[d] = writes[p][i].value

\* d holds v, or will once all that is under way has arrived: no two phones'
\* updates race, the newest one carries v, and without any the backend has v.
ComesToRestAt(d, v) ==
    /\ \A p, q \in Phones : InFlight(p, d) /\ InFlight(q, d) => p = q
    /\ \A p \in Phones : NewestCarries(p, d, v) /\ NewestTaken(p, d)
    /\ (\A p \in Phones : ~InFlight(p, d)) => server[d] = v

\* All values of d that the backend, the stores and the queues hold are in S.
Carries(req, d, S) == IsUpdate(req, d) => req.value \in S

HoldsOnly(d, S) ==
    /\ server[d] \in S
    /\ \A p \in Phones :
          /\ view[p][d] \in S
          /\ \A i \in DOMAIN asked[p] : Carries(asked[p][i], d, S)
          /\ \A i \in DOMAIN answered[p] :
                Carries(answered[p][i].req, d, S) /\ answered[p][i].snapshot[d] \in S
          /\ \A i \in DOMAIN writes[p] : (writes[p][i].doc = d => writes[p][i].value \in S)

-----------------------------------------------------------------------------
(* The latency compensation the app relies on when it redraws after a write: *)
(* whatever the backend holds, a phone's local store shows its own newest    *)
(* write to a document until that write is acknowledged.                     *)
OwnWritesShown ==
    \A p \in Phones : \A i \in DOMAIN writes[p] :
        (\A j \in DOMAIN writes[p] :
            writes[p][j].doc = writes[p][i].doc => j <= i)
        => view[p][writes[p][i].doc] = writes[p][i].value

=============================================================================
