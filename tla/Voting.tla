------------------------------- MODULE Voting -------------------------------
(***************************************************************************)
(* Votes: the list of yaks, the full-screen message and the map, each with  *)
(* its own copy of a yak's likes; the votes a phone remembers in            *)
(* UserDefaults; and updateYakVote, which writes the number on the screen   *)
(* over the number in the database.                                        *)
(*                                                                         *)
(* likes is never incremented in the database.  A tap computes a new total  *)
(* from the copy it was made on, and that total is what gets stored.        *)
(***************************************************************************)
EXTENDS YakScreens

Likes == Values

ASSUME VotingAssumption == Likes \subseteq Int     \* bound: the likes followed

VARIABLES
    upvoted,    \* upvoted[p]: the defaults of p, as sets of documents
    downvoted,
    tally,      \* history: what d should count, all votes of all phones
    spoiled     \* history: documents whose count may have gone wrong

voteVars == <<upvoted, downvoted, tally>>
vars == <<clientVars, screenVars, voteVars, spoiled>>

TypeOK ==
    /\ ClientTypeOK
    /\ ScreensTypeOK
    /\ upvoted \in [Phones -> SUBSET Docs]
    /\ downvoted \in [Phones -> SUBSET Docs]
    /\ tally \in [Docs -> Int]
    /\ spoiled \in SUBSET Docs

Init ==
    /\ \E initial \in Snapshots : ClientInit(initial)
    /\ ScreensInit
    /\ upvoted = [p \in Phones |-> {}]
    /\ downvoted = [p \in Phones |-> {}]
    /\ tally = server
    /\ spoiled = {}

-----------------------------------------------------------------------------
\* What a phone has voted.
Vote(p, d) == IF d \in upvoted[p] THEN 1 ELSE IF d \in downvoted[p] THEN -1 ELSE 0

\* A tap is made on a fresh copy when the copy shows the true count and no
\* other phone's vote is under way.
Fresh(p, d, shown) ==
    /\ shown = tally[d]
    /\ \A q \in Phones \ {p} : ~InFlight(q, d)

-----------------------------------------------------------------------------
(* The tap on an arrow, the same in the list and in the message: shown is    *)
(* the likes of the copy tapped on, likes what becomes of it.                *)

UndoUpVote(p, d, shown, likes) ==
    /\ d \in upvoted[p]
    /\ likes = shown - 1
    /\ upvoted' = [upvoted EXCEPT ![p] = @ \ {d}]
    /\ UNCHANGED downvoted

CastUpVote(p, d, shown, likes) ==
    /\ d \notin upvoted[p]
    /\ likes = shown + (IF d \in downvoted[p] THEN 2 ELSE 1)
    /\ upvoted' = [upvoted EXCEPT ![p] = @ \cup {d}]
    /\ downvoted' = [downvoted EXCEPT ![p] = @ \ {d}]

UndoDownVote(p, d, shown, likes) ==
    /\ d \in downvoted[p]
    /\ likes = shown + 1
    /\ downvoted' = [downvoted EXCEPT ![p] = @ \ {d}]
    /\ UNCHANGED upvoted

\* Mutant of CastDownVote: a change of mind counts as one vote.
SwitchByOne(p, d, shown, likes) ==
    /\ d \notin downvoted[p]
    /\ likes = shown - 1
    /\ downvoted' = [downvoted EXCEPT ![p] = @ \cup {d}]
    /\ upvoted' = [upvoted EXCEPT ![p] = @ \ {d}]

CastDownVote(p, d, shown, likes) ==
    /\ d \notin downvoted[p]
    /\ likes = shown - (IF d \in upvoted[p] THEN 2 ELSE 1)
    /\ downvoted' = [downvoted EXCEPT ![p] = @ \cup {d}]
    /\ upvoted' = [upvoted EXCEPT ![p] = @ \ {d}]

UpVote(p, d, shown, likes) ==
    UndoUpVote(p, d, shown, likes) \/ CastUpVote(p, d, shown, likes)

DownVote(p, d, shown, likes) ==
    UndoDownVote(p, d, shown, likes) \/ CastDownVote(p, d, shown, likes)

\* updateYakVote, first half: read the collection to find the document again.
UpdateYakVote(p, d, likes) == GetDocuments(p, Update(d, likes))

\* History: the tally moves with the vote; a tap on a copy that is not fresh
\* spoils the document.
Account(p, d, shown) ==
    /\ tally' = [tally EXCEPT ![d] = @ + Vote(p, d)' - Vote(p, d)]
    /\ spoiled' = IF Fresh(p, d, shown) THEN spoiled ELSE spoiled \cup {d}

-----------------------------------------------------------------------------
(* Taps.                                                                     *)

\* The row of d can be touched while the list shows and no message covers it.
RowTouchable(p, d) ==
    /\ tab[p] = "list"
    /\ message[p] = Absent
    /\ rows[p]["list"][d] # Absent

ListTap(p, d, likes) ==
    /\ rows' = [rows EXCEPT ![p]["list"][d] = likes]
    /\ UpdateYakVote(p, d, likes)
    /\ Account(p, d, rows[p]["list"][d])
    /\ UNCHANGED <<tab, message, opening, imageCache>>

ListUpVote(p, d) == \E likes \in Likes :
    /\ RowTouchable(p, d)
    /\ UpVote(p, d, rows[p]["list"][d], likes)
    /\ ListTap(p, d, likes)

ListDownVote(p, d) == \E likes \in Likes :
    /\ RowTouchable(p, d)
    /\ DownVote(p, d, rows[p]["list"][d], likes)
    /\ ListTap(p, d, likes)

\* The message votes on its own copy; the arrays of the screens keep theirs.
MessageTap(p, likes) ==
    /\ message' = [message EXCEPT ![p].value = likes]
    /\ UpdateYakVote(p, message[p].doc, likes)
    /\ Account(p, message[p].doc, message[p].value)
    /\ UNCHANGED <<tab, rows, opening, imageCache>>

MessageUpVote(p) == \E likes \in Likes :
    /\ message[p] # Absent
    /\ UpVote(p, message[p].doc, message[p].value, likes)
    /\ MessageTap(p, likes)

MessageDownVote(p) == \E likes \in Likes :
    /\ message[p] # Absent
    /\ DownVote(p, message[p].doc, message[p].value, likes)
    /\ MessageTap(p, likes)

-----------------------------------------------------------------------------
(* Callbacks of getDocuments.                                                *)

\* updateYakVote, second half: the document is found, and the likes computed
\* at the tap are stored over whatever the snapshot holds.
DeliverVote(p) ==
    /\ UpdateCallback(p)
    /\ UNCHANGED <<screenVars, voteVars, spoiled>>

\* An error of getDocuments is printed; the votes that waited for it are lost
\* although the defaults hold them.
LoseCalls(p) ==
    /\ FailCalls(p)
    /\ spoiled' = spoiled \cup {d \in Docs : AskedFor(p, d) # {}}
    /\ UNCHANGED <<screenVars, voteVars>>

\* Mutant of Relaunch: the votes are kept in memory only.
RelaunchForgets(p) ==
    /\ RestartScreens(p)
    /\ upvoted' = [upvoted EXCEPT ![p] = {}]
    /\ downvoted' = [downvoted EXCEPT ![p] = {}]
    /\ spoiled' = spoiled \cup
           {d \in Docs : AskedFor(p, d) # {} \/ AnsweredFor(p, d) # {}}
    /\ UNCHANGED tally

\* The app is terminated and started again: the defaults, the local store and
\* its pipeline are kept, votes that waited for a call are lost.
Relaunch(p) ==
    /\ RestartScreens(p)
    /\ spoiled' = spoiled \cup
           {d \in Docs : AskedFor(p, d) # {} \/ AnsweredFor(p, d) # {}}
    /\ UNCHANGED voteVars

-----------------------------------------------------------------------------
Tap(p) ==
    \/ \E d \in Docs : ListUpVote(p, d) \/ ListDownVote(p, d)
    \/ MessageUpVote(p) \/ MessageDownVote(p)

\* Fetching, opening, closing and the answers of the SDK touch no vote.
Look(p) ==
    /\ ScreenStep(p) \/ NavigationStep(p) \/ StoreStep(p)
    /\ UNCHANGED <<voteVars, spoiled>>

Next == \E p \in Phones :
    \/ Tap(p)
    \/ Look(p)
    \/ DeliverVote(p)
    \/ LoseCalls(p)
    \/ Relaunch(p)

Spec == Init /\ [][Next]_vars

\* The SDK retries until the backend has answered and committed, and the main
\* queue runs every callback it is given; nobody is obliged to touch the phone.
Fairness == \A p \in Phones :
    /\ WF_vars(Answer(p) /\ UNCHANGED <<screenVars, voteVars, spoiled>>)
    /\ WF_vars(Commit(p) /\ UNCHANGED <<screenVars, voteVars, spoiled>>)
    /\ SF_vars(Acknowledge(p) /\ UNCHANGED <<screenVars, voteVars, spoiled>>)
    /\ WF_vars(DeliverVote(p) \/ (DeliverFetch(p) /\ UNCHANGED <<voteVars, spoiled>>))

LiveSpec == Spec /\ Fairness

-----------------------------------------------------------------------------
(* Properties.                                                               *)

\* No phone remembers both an up and a down vote for a yak, although each
\* handler rewrites two arrays of the defaults and one branch rewrites one.
VotesExclusive == \A p \in Phones : upvoted[p] \cap downvoted[p] = {}

\* Storing totals instead of increments is harmless unless a tap was made on
\* a copy that was not fresh or a call was lost: whatever mixture of
\* up, down, undo and change of mind, in the list and in the message, the
\* total that ends up in the database is the one all votes add up to.
CountKept == \A d \in Docs \ spoiled : ComesToRestAt(d, tally[d])

\* Once nobody taps any more, every vote reaches the database: each count that
\* was not spoiled comes to rest at the true total.
QuietVotesSettle ==
    <>[][~ \E p \in Phones : Tap(p)]_vars
    => <>[](\A d \in Docs \ spoiled : server[d] = tally[d])

\* Whatever the copies, calls and writes do, the votes of the phones and the
\* totals they add up to move as the ledger says: one press, one step.
Ledger == INSTANCE VoteLedger WITH
    vote <- [p \in Phones |-> [d \in Docs |-> Vote(p, d)]],
    count <- tally

ImplementsLedger == Ledger!LedgerSpec

\* "otherwise the original in the array wont update": a vote made in the
\* message also shows in the row the message was opened from.
MessageVoteUpdatesRow == [][\A p \in Phones :
    MessageUpVote(p) /\ rows[p]["list"][message[p].doc] # Absent
    => rows'[p]["list"][message[p].doc] = message'[p].value]_vars

=============================================================================
