# SnapYak: a TLA+ development

SnapYak is an iOS app ("Snapchat + Yikyak"): users post pictures ("yaks") at
the place where they are, and everybody near sees them in a list and on a map,
votes them up or down and comments on them. The app is Swift on top of Firebase:
documents live in the Firestore collection `Yaks`, pictures in Firebase Storage.
There is no server code; every rule about votes, comments and uploads is kept,
or broken, by the phones.

File names below are relative to `src/SnapYak/SnapYak/`; those of the Firestore
SDK to `src/SnapYak/Pods/FirebaseFirestore/Firestore/`.

## 1. Inventory

| Component | State | Operations | Hard behaviour | What makes it correct |
|---|---|---|---|---|
| **Database** (`FirebaseModel.swift`, `Yak.swift`) | none of its own; the Firestore SDK keeps a local store, a queue of reads and a pipeline of writes on disk | `fetchYaks`, `updateYakVote`, `updateComments`, `uploadYak`, `fetchImage` | every operation is a call and a later callback; votes and comments are *read the collection, then overwrite a field*; errors are printed and the completion is never called | a phone sees its own writes; totals and arrays overwrite only what they include |
| **List** (`MessagesListViewController.swift`) | `messages`, `imageCache`, `radius`, sort segment, refresher | refresh, appear, location update, select a row, up/down vote, sort | a fetch replaces `messages` while votes on the old ones are under way; the copy selected waits for its image | a vote counts once; rows keep radius and order; the spinner turns for a reason |
| **Message** (`MessageViewController.swift`) | its own copy `yak`, the image | up/down vote, close, open comments | the copy ages apart from the list's and the map's | same as the list; never shown without its image |
| **Votes remembered** (`UserDefaults` `upvoted`, `downvoted`) | two arrays of image names | rewritten by the four vote handlers | two sets per handler, stored later, and the app may end between them | never both; equal to what the taps add up to; mended by the next tap |
| **Map** (`MapViewController.swift`, annotations) | `messages`, `imageCache`, `radius`, pins | appear, select a pin | drops its messages, not its pins, when it appears without a location; reads the radius once | a pin opens the yak it was drawn for |
| **Comments** (`CommentsViewController.swift`) | its own copy `yak` | reply, close | whole arrays are stored; the message below is not told | comments in the order they were said, none lost or doubled |
| **Upload** (`MessageUploadViewController.swift`) | `currentLocation`, Send enabled, the put under way | open, go back, location arrives or fails, send, put completes | the editor is dismissed when the put starts and its completion adds the document later, with the location of then | no document without picture, no picture twice, a location at the completion |
| **Editor** (same file, `DrawView.swift`, `TextView.swift`) | text fields, drawing mode, strokes, keyboard offset | add text, draw, colours, keyboard shows/hides | the field lifted for the keyboard is the one touched last by the gesture, not the one edited | what was written is on the picture, in its place; buttons fit the mode |
| **Camera** (`CameraController.swift`, `CameraViewController.swift`) | capture session, inputs, position, one completion slot | prepare, preview, switch, capture, focus | prepared on another queue; configuration brackets left open on errors; the slot is overwritten | the camera in use is the one the position names; pictures mirrored accordingly; no exception |
| **Settings** (`SettingsViewController.swift`) | `radius` in the defaults | save | stale in the map; 0 means "never saved" | list and map follow it as each says |
| **Permission prompt** (`ModalViewController.swift`, the delegates of list and editor) | location authorization | told, shown, completed | granted while an editor is open, revoked on another tab | no list without permission, except for a cause |
| **Firestore SDK** (`Pods/FirebaseFirestore`) | mutation queue, write pipeline, two streams with backoff, listeners, online state | `updateData`, `getDocuments` | streams break, back off, go idle; replies name no batch; a listener waits for backend or timer | nothing lost, newest write stays, every call answered once |
| **Shell** (`AppDelegate.swift`, cells, `ViewController.swift`) | none | launch | - | - |

How they interact: the list and the map call `Database` and each keep the yaks
of their last fetch; both hand a **copy** (a Swift struct) to the message, which
hands a copy to the comments; message and comments write through `Database`.
Nothing is handed back: a copy below learns of a write only from the next fetch.
The camera hands a picture to the upload view. Settings, list and map share the
radius through the defaults. `Database` is the SDK's only user, with one query.
`FirebaseViewController.swift` is not in the build target. `Pods/` is vendored;
only the part of Firestore the calls above rely on is modelled, from the sources
of the pod.

The hazards, each at its line, are in `PROJECT.json`.

## 2. Modules

| Module | What it is |
|---|---|
| `FirestoreClient` | one field of the documents, as the backend stores it and as each phone's SDK sees it |
| `YakScreens` | extends it with the copies: tabs, rows, message, image downloads and caches |
| `VoteLedger` | abstract: what the arrows promise |
| `Voting` | extends `YakScreens`: the vote handlers, the defaults, `updateYakVote`; implements `VoteLedger` |
| `VoteDefaults` | the two arrays of the defaults at the grain of their sets, with ends of the app in between |
| `Comments` | extends `YakScreens`: the comments view, `updateComments` |
| `Upload` | the upload view, Storage and the documents added |
| `Editor` | the upload view as an editor: text fields, keyboard, drawing mode |
| `Feed` | the rows of the list on one phone: radius, place, order, spinner; with Settings |
| `MapPins` | the map's messages against its pins; the radius of list and map |
| `Camera` | the capture session on three threads, photos and editors |
| `Permission` | the location permission, the prompt, the requests of list and editor |
| `UploadView` | composes `Permission` and `Editor`: one screen, whose texts die with it while the permission lives on |
| `Stream` | operators on a stream of the SDK: states, backoff, idleness |
| `WriteStream` | the SDK's way from `updateData` to the backend; implements the pipeline of `FirestoreClient` |
| `ReadCalls` | abstract: what `getDocuments` promises |
| `WatchStream` | the SDK's way from `getDocuments` to its completion; implements `ReadCalls` |
| `YakScreensProofs` | lemmas about each operation of `FirestoreClient` and `YakScreens`, for any `Values` |
| `VotingProofs` | the theorems about `Voting` and `VoteDefaults` |
| `CaptureProofs` | the theorems about `Camera`, `Permission` and `UploadView` |
| `StreamProofs` | the theorems about `WriteStream` and `WatchStream` |
| `CommentsProofs`, `UploadProofs`, `FeedProofs`, `MapPinsProofs` | the theorems about the module of that name |
| `MC...` | instances for TLC; a `.cfg` per run |

### FirestoreClient

The values are abstract: likes for `Voting`, arrays for `Comments`.

| Definition | Code |
|---|---|
| `GetDocuments` | the call of `getDocuments`; what its callback will do is the request: hand the yaks to a screen, or write a value computed **at the call** into one document |
| `Answer` | the SDK's snapshot for the oldest call: of the synchronised store online, of the store as it is offline |
| `Synced` | a snapshot lays the phone's pending writes over what the backend says |
| `FetchCallback`, `UpdateCallback` | the callback, later, on the main queue; the update is in the local store at once and joins the pipeline |
| `Commit` | the backend takes the next write of the pipeline; its acknowledgement is under way (`taken`) |
| `Acknowledge` | the acknowledgement is read: the write leaves the pipeline |
| `Reconnect` | the stream breaks first: the whole pipeline will be sent, and taken, again |
| `FailCalls` | an error fails every listener of the query; the app prints it |
| `EndProcess` | the process ends: store and pipeline are on disk, calls are not |

Delivery is at least once: the backend may take a write twice, with the write
of another phone in between. `WriteStream` shows that this is what the SDK does.

All calls of the app are the same query (the whole collection), so those of one
phone are answered and called back in order. Documents are identified with
their `image_url`, as `updateYakVote` finds them; that no two documents share
one is `OneYakPerImage` of `Upload`.

`InFlight`, `NewestCarries`, `NewestTaken` and `ComesToRestAt(d, v)` say where
updates of a document stand; `ComesToRestAt` is the shape of the two main
invariants: *no two phones' updates of d race, the newest one under way carries
v, and without any that is still to be taken the backend holds v*.

### YakScreens

`rows[p]["list"]` and `rows[p]["map"]` are `messages` of the two controllers,
one field each; `DeliverFetch` replaces them by any subset of the documents (the
radius filter and the phone's place are a free choice). `SelectYak` is
`didSelectRowAt` and `calloutAccessoryControlTapped`: the copy is taken then;
`ImageArrives` presents it later, unless something is presented already or the
controller is not the one showing, in which case UIKit refuses to present.
Every screen change ends in a `viewDidAppear`, hence `Appear` inside
`SwitchTab` and `CloseMessage`. Camera and Settings are not tabs of the model:
they touch none of its variables, so a visit is leaving and coming back.

### Voting and VoteDefaults

`UpVote` and `DownVote` are the two branches of each handler, which list and
message share word for word; `ListTap` and `MessageTap` add what differs.
Nothing increments: `likes` is computed from the copy on the screen and that
total is stored. So the interesting question is when this is right.

Two history variables make the question precise. `tally[d]` is the starting
count plus every vote that the phones remember; `spoiled` collects the documents
for which the app has given up exactness: a tap was made on a copy that was not
fresh (it did not show the tally, or another phone's vote was under way), or
calls with a vote were lost to an error or a relaunch. Both only watch; no guard
reads them.

`Voting` takes the sets of one handler as one step that a relaunch cannot undo.
`VoteDefaults` looks at that step alone (`TapSets`): a set is seen at once and
stored later, in order (`Store`, the preferences daemon), and the app may `End`
with any of them not stored. `meant` is the history of the taps; `cut` holds the
yaks with a tap that an end cut short, `dangling` those of them not tapped
since.

### Comments

`thread[p]` is the copy of the comments view. `said[d]` and `spoiled` are the
corresponding history. Reopening the comments of a message that is still up
takes the message's copy, without the reply just made: the model shows (and the
invariant accounts for) one's own replies being overwritten that way.

### Upload

`puts[e]` follows the put of editor `e`. The editor stays alive while its put's
completion is due and keeps receiving the location requested at Send, so the
document is posted at the location known when the completion runs. A put can be
refused with or without the picture having been stored. `adds` is the pipeline of
`addDocument`, on disk.

### Editor

| Definition | Code |
|---|---|
| `CreateText`, `CreateTextMessage` | `createTextAcction`: a new field, or, with the keyboard up, the end of editing |
| `TouchField` | a touch on a field: the gesture (`tapped`) may set `activeTextField`, and the system may bring up the keyboard or turn it, in any order of the two |
| `KeyboardWillShow`, `KeyboardWillHide` | the notifications, with everything they do to fields and buttons |
| `Type`, `Return`, `DragField`, `CreateDrawing` | typing, the return key, `dragged`, `createDrawingAction` |

A field is a record: filled, hidden, and its height (`middle`, where it was
created; `above` the keyboard; `dragged`). `active` and `editing` are separate:
`keyboardWillShow` turns the keyboard to the active field whichever was touched,
and with the keyboard up a touch may part the two. `strays`, `unseen` and
`slipped` are history, and name the ways in which the text stays lifted, is typed
where nobody sees it, or the mode loses its colours.

### Feed

One phone and one launch of the list. A fetch carries the radius and the place
it was made with (`asked`, `answered`, as in `FirestoreClient`); its callback
filters by them, then `HandleSort` orders by the segment and the place of the
callback, in any order among equals (Swift's `sorted` promises none).
`checkForNewYaks` (pull, appear) and `didUpdateLocations` differ in one thing:
only the former's callback stops the spinner (`ends`). A vote changes a row in
place and re-sorts nothing. The likes a fetch brings are arbitrary; which
documents it brings comes from the collection or the local store.

The location can go (`Move`): it comes from a manager whose permission the user
may take away in the same launch (see `Permission`). Without it `viewDidAppear`
still reads the radius, but `checkForNewYaks` fetches nothing, and `handleSort`
by distance leaves the rows as they came. So after a new radius is saved the
list can show rows of the old one with nothing under way: `missed` records it, and
`RowsFollowRadius` admits this and a lost fetch, and nothing else.

`basis`, `order`, `lost`, `missed` and `stuck` are history: the fetch the rows
come from, what they were sorted by, whether a radius was read without a location,
and whether a fetch was lost. The spinner of a lost fetch turns
until the next one comes back: `SpinnerHasCause` and `SpinnerEnds` say that
nothing else keeps it turning.

### MapPins

`LoadMap` is `viewDidLoad` followed by `viewDidAppear` (two fetches, the radius
read and a 0 replaced), `AppearMap` every later appearance. Without a location
an appearance empties `messages` and leaves the pins, whose `index` is then out
of range: touching one ends the app (`crashed`). `DeliverFetch` replaces both.
`dropped` and `resaved` are history.

### Camera

| Definition | Code |
|---|---|
| `FindDevices`, `AddInputs`, `AddOutput`, `StartRunning` | the steps of `prepare`, on its own queue, each with the errors it can throw or pass over |
| `PrepareEnds` | the completion, on the main queue: `displayPreview` |
| `SwitchCameras` | `switchCameras` with `switchToFrontCamera` and `switchToRearCamera`; an error leaves `beginConfiguration` without its commit (`depth`) |
| `CapturePhoto`, `SetCompletion` | `captureImage`, split between asking the output and setting the slot |
| `PhotoOutput(i)` | the delegate, on its queue: the slot's closure mirrors by the position of now and presents an editor |
| `ToCamera`, `LeaveCamera`, `CloseEditor`, `Focus` | the tab, its bar, the editor's dismissal, tap to focus |
| `Interrupt`, `Resume` | the system takes the camera away and gives it back |

What is assumed of AVFoundation and UIKit: changes of a configuration take
effect at the outermost commit, and brackets nest; `capturePhoto` without a
video connection raises; the delegate is called on another queue, once for each
photo, in any order; a second presentation is refused. A photo carries two facts
of its history, `switched` and `spoiled`, which `MirroredIfFront` reads.

### Permission

One launch, from the system's alert on. `told` is the callback
`didChangeAuthorization` still to run; it presents the prompt only if the list is
in front. The list requests a location at launch and never again; the editor
when it is opened. `missed`, `failed` and `deaf` are history: each names a way
in which somebody is left without the permission or the location.

### UploadView

`Editor` says what is written on the picture, `Permission` whether it may be
sent, and both are the state of `MessageUploadViewController`. `UploadView` puts
them together: touches and keys (`Edit`) reach the view only while it is in front
and no alert is over it; every opening is a new controller, so that closing takes
the texts, the keyboard and the drawing mode along (`TextsGone`), while status,
location and prompt go on; the system may change the permission at any moment of
an edit (`Around`).

### Stream, WriteStream, WatchStream

`Stream` has no variables: a stream is a record (state, idleness timer, current
base of the backoff, delay of the last backoff) and the operators are the
methods of `Stream` and `ExponentialBackoff` (`core/src/firebase/firestore/remote/stream.mm`,
`exponential_backoff.cc`). Delays are levels, 0 (none) to `MaxLevel` (the
longest); jitter and the time since the last attempt are left out.

`WriteStream` is `RemoteStore`'s write side. A batch is a number; every batch
sets the same field. `FillWritePipeline` is the one operator behind a new batch,
a result, a refusal and a restart, as it is one method in the code. On the call,
`up` and `down` are what is sent and not read in either direction; the SDK
matches the reply to the pipeline's first batch, and `WireCarriesPipeline` is why
this is right. The handshake carries no stream token (`write_stream.mm:64`), so
after a break everything in the pipeline is sent again. A refusal is laid at the
pipeline's first batch; it may hit one the backend took (a write under way fails
before the replies are read) but loses nothing.

`ImplementsClient` maps it to `FirestoreClient` for one phone and one document:
the queue is `writes`, the replies under way after the handshake are `taken`, the batches
still to be written are callbacks in store. A break or a restart with
replies under way is `Reconnect`, without them a stutter. `HandleWriteError`,
a refusal, is the one step that `FirestoreClient` does not have: the app never
deletes documents, so an update is refused only by rules that are not in the
repository.

`WatchStream` is the read side. `GetDocuments` queues a listener, the first of
which makes `RemoteStore` watch the query; `Joins` and `RaisesFor` are
`QueryListener`'s decision whether a listener may raise its first event;
`tracker` is `OnlineStateTracker`; `pending` counts the target's outstanding
replies; `untimed` is history: the last listener left a stream that was still
being opened, and nothing has measured a wait since. `RunEvent` is the app's
callback on the main queue, which mutes its listener, queues its removal and
runs the completion. A listener that has raised no event is `Waiting`; as
listeners join at the end, these are the last ones (`RaisedFirst`). Watch
requests are numbered so that `SyncedByNewestListen` can tell replies apart
which the SDK only counts.

`ReadCalls` is what all this comes to: a queue of calls, answered oldest first,
several at a time if need be (`Answer`), and called back once and in order
(`CallBack`). `ImplementsReadCalls` maps it: answered are the calls whose
listener has raised an event or was removed by its callback; a snapshot, going
offline and joining a synced view are `Answer` or a stutter, an event for a muted
listener is a stutter. `FirestoreClient` takes its queues `asked` and `answered`
to be such a queue; it answers one call per step, so a snapshot for several
listeners is several of its steps, and these queues also hold calls that fail.

Assumed of both: a call that ends delivers nothing more; a token is always given
(nobody signs in); the network is never disabled by the app; the backend answers
requests in order, sends a snapshot only with CURRENT, and refuses no query.
The error path of a query is `FailCalls` of `FirestoreClient`.

## 3. Runs

| Run | Shows |
|---|---|
| `voting_one` | one phone, list and map, image downloads across the tabs, likes 0..2: `OwnWritesShown`, `CountKept`, `MessageHasImage`, `ImplementsLedger` |
| `voting_two` | two phones racing on one yak: `QuietVotesSettle` |
| `voting_row` | **violation**: the comment in the message's `upVote` about replacing the yak in the array is not what the code does |
| `vote_defaults` | two yaks, six sets under way: `ArraysFollowTaps`, and `DefaultsInv`: `DefaultsTypeOK`, `OneVoteAfterNextTap`, `StoredIsShown` |
| `comments` | two phones, reopened comments, two replies: `CommentsInOrder`, `RepliesKept` |
| `feed` | two yaks, a radius between them, two fetches: `RowsFollowRadius`, `RowsInOrder`, `YaksStay`, `SpinnerEnds` |
| `map_pins` | two yaks, two fetches, two messages waiting, a location that comes and goes: `PinOpensItsYak`, `IndexOutOfRangeHasCause`, `RadiiAgree` |
| `upload` | three editors, two places: `YakHasImage`, `OneYakPerImage`, `SentWithLocation`, `SentIsPosted` |
| `upload_view` | two text fields under every change of the permission: `PromptGuardsList`, `ColorsFitMode`, `EditorComesToSend`, `ListFetches`, and `ViewInv`: `ViewTypeOK`, `EditorWaitsForCause`, `TextComesBack`, `TextIsShown`, `EmptyFieldGoes` |
| `camera` | every set of cameras, three photos, three failed switches: `LiveIsPosition`, `CrashHasCause`, `MirroredIfFront`, `EditorKeepsPicture`, `PreviewFollows` |
| `write_stream` | six batches, a pipeline of three, two refused: `WireCarriesPipeline`, `IdleIsUnneeded`, `Paced`, `ImplementsClient`, `WritesSettle`, and `WriteStreamInv`: `TypeOK`, `NothingLost`, `RestsAtNewest` |
| `watch_stream` | four calls: `ImplementsReadCalls`, `SyncedByNewestListen`, `EveryCallAnswered`, and `WatchStreamInv`: `WatchTypeOK`, `AnsweredOnce`, `TimerIsSound`, `UnknownHasTimer`, `IdleIsUnwatched`, `NoneLeftWaiting`, `RaisedFirst` |

The remaining invariants of the modules with theorems (`TypeOK`, `VotesExclusive`,
`SpinnerHasCause`, `BarFitsTab`, `FrozenByFailure`) are proved for every value of
the constants, so that no run spends its states on them.

**Bounds.** One yak is enough for votes and comments: no operation relates two
documents except through the queues, and the proofs do not bound them. In the
voting runs a phone has one call and one write under way, so that a total still
in its call waits behind one in the pipeline, and a fetch is answered between the
two; in `comments` it has two writes. Larger queues are the business of the
theorems. Likes are a short interval; a tap that would leave it is not followed,
so a bound cuts behaviours and adds none: 0..2 leaves room for a change of mind.
Two phones are enough for one to overwrite the other. `MaxOpening` bounds the
image downloads of a phone; downloads of the same copy for the same screen are
one.
In `feed` one yak is inside the small radius and one outside, and their likes may
be equal or not; two fetches are one to overtake and one to be overtaken. The
phone's location comes and goes, but when there is one it is always the same
place: that rows are
sorted for the place of the callback and filtered for that of the call, with any
number of places, is in the theorems.
Three editors give puts that overlap with each other and with a fourth step.
In `camera`, three photos are one in the editor, one that arrives meanwhile and
one asked for between them; three failed switches open three brackets, and any
later one adds nothing new. In `upload_view` two text fields are the one active
and the one touched, or the one active and the last created. `vote_defaults` lets
three taps of two sets wait. `write_stream` fills its pipeline twice over, so that
batches wait outside it, and refuses one inside and one at its end; three levels
of delay are one step, a second and the longest. `watch_stream` has calls that
come before, during and after others are answered; `MaxEvents` stops a call from
breaking while more events than that wait on the main queue, as the main queue
runs far more often than calls break.

Deadlock is checked, except where the system may stop: in `watch_stream` (all
calls made and answered) and in `camera` and `map_pins` (an exception ends the
app).

**Fairness.** `Voting!Fairness`: the SDK answers and commits as long as it has
something to (it retries with backoff until the backend responds), and the main
queue runs the callbacks handed to it. An acknowledgement is strongly fair: calls
may break again and again, but not for ever each time before one is read.
Nobody is obliged to tap, to close a message or to see an image arrive.
`Feed!Fairness` is the same without writes.
`Upload!Fairness`: a put ends (Storage gives up after its retry time), its
completion runs, and added documents are committed.
`Camera!Fairness`: the queue of `prepare` runs, and the main queue reaches its
completion, however many touches come in between.
`UploadView!ViewFairness`: `requestLocation` ends in a location or an error, as its
documentation promises, however busy the editor is. `WriteStream!Fairness`: backoff timers fire, and again and
again a call lives long enough for its next step. `WatchStream`: queues and timers
of the phone run (`PhoneFairness`), and the network goes on
(`NetworkFairness`: what is sent arrives or the call breaks), and a phone that is online is not cut
off again and again for ever. The last is needed: each cut turns the state from
online to unknown and starts the wait anew.
Failures and relaunches are always allowed, never fair.

**Findings.** `voting_row`: a comment of the message's `upVote` that its code
does not keep; a vote in the message leaves the row below as it was. Two more
remarks in the sources are narrower than the code, and the invariants say by how
much: a fetch sorts by distance (`MessagesListViewController.swift:72`) only with
the segment at distance, which `RowsInOrder` states for either segment; and a
state Unknown has its timer (`online_state_tracker.cc:43`) after a start of the
stream, but not when the listeners before have stopped during an attempt to
connect and a new one finds the stream started: `UnknownHasTimer` says that this
is the only way, and `EveryCallAnswered` that such a call is answered.

## 4. What is proved

All with `tlapm`, for every value of the constants, under the assumptions named
in the modules (`BoundsAssumption`, `ScreensAssumption`, `VotingAssumption`,
`CommentsAssumption`, `UploadAssumption`, `FeedAssumption`, `CameraAssumption`,
`MapAssumption`, `LevelAssumption`, `WriteAssumption`, `CallsAssumption`: the
bounds are naturals, the longest delay and the longest pipeline are not zero,
`Absent` and its like are not values, likes are integers, threads are sequences
of texts, sets of yaks are finite, distances are naturals).

* **`Voting`**: `TypeOK`, `VotesExclusive`, `ImplementsLedger`, `CountKept`,
  `MessageHasImage`, `OwnWritesShown`.
* **`Comments`**: `TypeOK`, `RepliesKept`, `CommentsInOrder`.
* **`Upload`**: `TypeOK`, `YakHasImage`, `OneYakPerImage`, `SentWithLocation`.
* **`Feed`**: `TypeOK`, `RowsFollowRadius`, `RowsInOrder`, `SpinnerHasCause`,
  `YaksStay`.
* **`Camera`**: `TypeOK`, `LiveIsPosition`, `CrashHasCause`, `MirroredIfFront`,
  `BarFitsTab`, `FrozenByFailure`, `EditorKeepsPicture`.
* **`MapPins`**: `TypeOK`, `PinOpensItsYak`, `IndexOutOfRangeHasCause`,
  `RadiiAgree`.
* **`WriteStream`**: `WriteStreamInv`, `WireCarriesPipeline`, `IdleIsUnneeded`,
  `Paced`, `ImplementsClient`.
* **`VoteDefaults`**: `DefaultsInv`, `ArraysFollowTaps`.
* **`UploadView`**, with `Permission` and `Editor`: `ViewInv`, `ColorsFitMode`,
  `PromptGuardsList`.
* **`WatchStream`**: `WatchStreamInv` (its part `AnsweredOnce` also by itself),
  `SyncedByNewestListen`, `ImplementsReadCalls`.

So every safety property that a run checks is a theorem.

The argument for `CountKept`: the invariant is inductive together with the
types. `YakScreensProofs` proves, for each operation of the client, that
`ComesToRestAt(d, v)` is preserved (an answer moves a call from one queue to the
next and keeps it behind the older ones; a commit takes the next write; a
callback turns the oldest answered call into the newest write; a reconnection
makes every write one that is still to be taken), and that an update of a
fresh copy turns `ComesToRestAt(d, v)` into `ComesToRestAt(d, v')`. At-least-once
delivery is why the conjunct `NewestTaken` is there: once the newest write to d
has been taken, and only then, the backend holds its value although the write is
still in the pipeline. A vote on a copy that is not fresh, a failed call and a
relaunch put `d` into `spoiled`. What remains for `Voting` is that a fresh tap's
total is the new tally, which needs `VotesExclusive`. `RepliesKept` follows the
same lemmas with arrays for totals.
`CommentsInOrder` is inductive as "everything held about d is in S" (`HoldsOnly`,
`ShowsOnly`), where S is the set of subsequences of `said[d]`; a reply keeps it
because appending the same text to a subsequence and to the whole gives a
subsequence again.

`ImplementsLedger` is proved with `VotesExclusive`: a handler's first branch
requires the vote present, so `Vote` moves exactly as `Press` says.

`Upload`'s inductive invariant adds what the properties rest on: an editor may
send only with a location, an accepted put has stored its picture, and the
picture of a document belongs to a put that is over.

`Feed`: `RadiusInv` adds that the newest fetch, wherever it has got to, carries
the radius last read, unless it was lost or that radius was read without a
location, and that rows lie within the radius of the fetch they come from;
`ViewsInv`, for `YaksStay`,
that answers under way only grow and contain what is shown, within the local
store.

`Camera`: `SessionInv` is `Untouched` (before its step of `prepare` has run, a
part of the session is as at the start) and `Wired` (an open bracket or a
refusal aside, a session that runs has output, the one input of its position,
and that input in effect); `LiveIsPosition` and `CrashHasCause` follow.
`PhotosInv` adds that a photo under way whose cameras were neither switched nor
spoiled was taken by the camera of the position, and that an editor is open only
on the camera tab.

`WriteStream`: none of its properties is inductive alone. `QueueInv` says that the
queue is a window of the batches (the newest ones, without a gap) and the
pipeline a front part of it; `CallInv` that a call carries nothing before it is
open, then the handshake or its reply, then exactly the pipeline, and that the
backend ends it with a refusal only at the first batch not yet read; `TakenInv`
that the replies under way are of batches the backend took, the last of them the
one that gave the field its value, and that every batch before the window is
settled. The step that settles the pipeline's first batch needs all three: a reply
names no batch, and it is right only because the call, the pipeline and the window
agree on which one is first. A refusal is laid at that batch too, which may be a
batch that was taken while its reply was dropped; `TakenInv` covers both.
`PaceInv` relates what the next attempt is to wait to the failures in a row, in
every state of the stream. `ImplementsClient` maps the replies after the handshake
to the client's `taken`.

`MapPins`: `PinsInv` says that messages and pins are equal, or the messages are
empty and `dropped` says so; `RadiusInv` that the list in front has the radius
saved.

`VoteDefaults`: what the next launch reads says nothing directly of what the app
reads now, as every set waiting holds the votes on all yaks at the time of its
tap. `StoreInv` relates them for one yak y and one array: what is stored, and
every set waiting that is followed by no set of that array made by a tap on y,
or after one (`Lasting`), says of y what the app reads. A tap on y leaves older
sets to last only in an array whose word on y it does not change; a tap on
another yak copies what is read of y; storing the first set keeps what lasts. An
end then changes only yaks some of whose sets were waiting, and those are cut
short. With no set waiting what is stored lasts, which is `StoredIsShown`.

`UploadView`: `ViewIInv` is `PermissionInv` and `TextsInv`. `PermissionInv` is
`PromptGuardsList` for every screen: who leaves the list without a prompt has
the permission or is about to be told. `TextsInv` says that a lifted text is
that of the active field under the keyboard, or a stray (`LiftedIsActive`); that
the field under the keyboard exists, and is in `unseen` if it is hidden; and
that the modes exclude each other. A field leaves the active place by a touch,
by a new field or by a view that closes, and each step is followed to what
becomes of the field's height. `PermissionStep` and `EditKeepsTexts` are proved
apart, because neither side's steps touch the other's variables except where the
view closes.

`WatchStream`: `ListenersInv` adds to `RaisedFirst` and `NoneLeftWaiting` that
calls yet to be added are new (`AddersAreFresh`), so that listeners are listed
once, and that a completion has run exactly for the muted calls, whence
`AnsweredOnce`. `TrackerInv` ties timers and stream to the listeners.
`WatchCallInv` is the counting argument behind `SyncedByNewestListen`: `pending`
is the number of requests not read and of replies that answer one; the newest
listen is the last watch request not read or, with none left, the one served
unless it has ended; and the replies after the last that answers a request speak
of the listen served. So with `pending` at zero nothing is left but replies
about the newest listen.

`ImplementsReadCalls` needs the order of the calls, `OrderInv`. Every call made is
muted, a listener or a task yet to add it, and whoever is yet to be added comes
after all the others, in the order of the tasks (`AddedInOrder`); so the
listeners are in the order of their calls, before and after one is removed. A
listener's event waits on the main queue until it was called back, behind those of
all earlier calls not called back (`EventsInOrder`): when a listener raises its
event, everyone before it has (`RaisedFirst`), or does so in the same step. Then
the calls answered are the numbers from 1 to their count (`OldestAnswered`), the
step that answers more moves that count forward, and the event run next is that of
the oldest call not called back, or of one that was.

## 5. Only model-checked

* Liveness (`QuietVotesSettle`, `SentIsPosted`, `SpinnerEnds`, `PreviewFollows`,
  `EditorComesToSend`, `ListFetches`, `WritesSettle`, `EveryCallAnswered`), which
  this prover does not reach, and the violation run.

No other property of a run is left unproved. No module declares a RECURSIVE operator.

## 6. Not modelled, and simplifications

* In the models of the app, writes the backend **rejects**: the app never
  deletes documents, and the rules of the Firebase project, which are not in the
  repository, are taken to allow what it does. `write_stream` shows what the SDK
  makes of a refusal.
* The storyboard gives the editor's × button, besides `goBack`, a "show" segue to
  a new camera controller (`MessageUpload.storyboard:135`). That controller, its
  `CameraController` and the second capture session on the same cameras are not
  modelled: `Camera` has one session, and closing the editor returns to it.
* First launch with an empty cache: every phone has synchronised once.
* Double taps while a view is being dismissed: UIKit ignores touches during the
  transition.
* A put that succeeded when the app ends before the completion: `Upload` reaches
  it (`puts[e] = "lost"` with `e` in `bucket`), the code has nothing to clean up.
* `fetchImage` of an http address (`FirebaseModel.swift:48`) presents a view from
  a session queue: no yak the app writes has one, and UIKit leaves calls off the
  main thread undefined.
* The editor's colours of texts, and strokes: a stroke is a list of
  segments that only grows, each with the colour of its time; nothing reads it
  but `draw`. The rendering of the three layers into one picture.
* The wording and layout of cells, buttons and prompts, the keyboard's layout
  constraints, the URL of the system's settings.
* `FirebaseViewController.swift`, which is not in the build target.
* Of Firestore: the tables of the local store and LevelDB, limbo documents and
  existence filters (they concern queries with filters and documents removed),
  credential changes, `disableNetwork`, transactions (the app uses none), and gRPC
  below the messages of a call. One document is one field and one batch one
  update, as in the app.
* The other pods (gRPC, BoringSSL, LevelDB, Protobuf, nanopb, the Firebase
  components around Firestore, Storage), which make up almost all lines of the
  repository, are third-party libraries; Storage, AVFoundation, CoreLocation and
  UIKit are modelled from how the app calls them.

## 7. Plan

Done: the app's own components, each with its module; below them the streams of
the SDK, with the refinements of the write side to `FirestoreClient` and of the read
side to `ReadCalls`; and a theorem for every safety property of the runs.

Worth doing next, in this order:

1. A refinement of `Comments` to an append-only log, for the yaks not spoiled.
2. `FirestoreClient`'s queues `asked` and `answered` tied to `ReadCalls`, so that
   both sides of the SDK are refinements of one client.
