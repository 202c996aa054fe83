------------------------------ MODULE Comments ------------------------------
(***************************************************************************)
(* Comments: CommentsViewController works on the copy of a yak the message  *)
(* hands it when it opens, appends each reply to that copy, and             *)
(* updateComments writes the copy's whole array over the one in the         *)
(* database.                                                               *)
(*                                                                         *)
(* The message keeps its own copy, without the replies: opening the         *)
(* comments a second time starts from before the first.                    *)
(***************************************************************************)
EXTENDS YakScreens

CONSTANTS
    Texts,      \* what may be typed
    MaxReplies  \* bound: the comments of a yak, those it had included

ASSUME CommentsAssumption ==
    /\ Values \subseteq Seq(Texts)   \* bound: the arrays the model follows
    /\ MaxReplies \in Nat

VARIABLES
    thread,     \* thread[p]: the comments in the copy of the comments view of p
    said,       \* history: all that was replied to d, in the order it was
    spoiled     \* history: documents that may have lost a comment

vars == <<clientVars, screenVars, thread, said, spoiled>>

TypeOK ==
    /\ ClientTypeOK
    /\ ScreensTypeOK
    /\ thread \in [Phones -> Values \cup {Absent}]
    /\ said \in [Docs -> Seq(Texts)]
    /\ spoiled \in SUBSET Docs

Init ==
    /\ \E initial \in Snapshots : ClientInit(initial)
    /\ ScreensInit
    /\ thread = [p \in Phones |-> Absent]
    /\ said = server
    /\ spoiled = {}

-----------------------------------------------------------------------------
\* The comments view is up, over the message and with the message's document.
ThreadOpen(p) == message[p] # Absent /\ thread[p] # Absent

OpenComments(p) ==
    /\ message[p] # Absent
    /\ thread[p] = Absent
    /\ thread' = [thread EXCEPT ![p] = message[p].value]
    /\ UNCHANGED <<clientVars, screenVars, said, spoiled>>

\* The message below is not told: overFullScreen never took it off the screen.
CloseComments(p) ==
    /\ ThreadOpen(p)
    /\ thread' = [thread EXCEPT ![p] = Absent]
    /\ UNCHANGED <<clientVars, screenVars, said, spoiled>>

\* updateComments, first half: read the collection to find the document again.
UpdateComments(p, d, comments) == GetDocuments(p, Update(d, comments))

\* A reply is made on a fresh copy when the copy shows all that was said and no
\* other phone's reply is under way.
Fresh(p, d) ==
    /\ thread[p] = said[d]
    /\ \A q \in Phones \ {p} : ~InFlight(q, d)

\* Mutant of Reply: the return key ends the editing and replies twice.
ReplyTwice(p) == \E text \in Texts, comments \in Values :
    /\ ThreadOpen(p)
    /\ Len(said[message[p].doc]) < MaxReplies
    /\ comments = thread[p] \o <<text, text>>
    /\ thread' = [thread EXCEPT ![p] = comments]
    /\ UpdateComments(p, message[p].doc, comments)
    /\ said' = [said EXCEPT ![message[p].doc] = Append(@, text)]
    /\ spoiled' = IF Fresh(p, message[p].doc) THEN spoiled
                  ELSE spoiled \cup {message[p].doc}
    /\ UNCHANGED screenVars

\* reply: the text is appended to the view's own copy, which is then stored.
Reply(p) == \E text \in Texts, comments \in Values :
    /\ ThreadOpen(p)
    /\ Len(said[message[p].doc]) < MaxReplies
    /\ comments = Append(thread[p], text)
    /\ thread' = [thread EXCEPT ![p] = comments]
    /\ UpdateComments(p, message[p].doc, comments)
    /\ said' = [said EXCEPT ![message[p].doc] = Append(@, text)]
    /\ spoiled' = IF Fresh(p, message[p].doc) THEN spoiled
                  ELSE spoiled \cup {message[p].doc}
    /\ UNCHANGED screenVars

-----------------------------------------------------------------------------
\* updateComments, second half: the array computed at the reply is stored over
\* whatever the snapshot holds.
DeliverComments(p) ==
    /\ UpdateCallback(p)
    /\ UNCHANGED <<screenVars, thread, said, spoiled>>

\* An error of getDocuments is printed, and the replies that waited are lost.
LoseCalls(p) ==
    /\ FailCalls(p)
    /\ spoiled' = spoiled \cup {d \in Docs : AskedFor(p, d) # {}}
    /\ UNCHANGED <<screenVars, thread, said>>

\* The app is terminated and started again.
Relaunch(p) ==
    /\ RestartScreens(p)
    /\ thread' = [thread EXCEPT ![p] = Absent]
    /\ spoiled' = spoiled \cup
           {d \in Docs : AskedFor(p, d) # {} \/ AnsweredFor(p, d) # {}}
    /\ UNCHANGED said

-----------------------------------------------------------------------------
\* Nothing below the comments view can be touched; what was started goes on.
Look(p) ==
    /\ ScreenStep(p) \/ StoreStep(p) \/ (thread[p] = Absent /\ NavigationStep(p))
    /\ UNCHANGED <<thread, said, spoiled>>

Next == \E p \in Phones :
    \/ OpenComments(p)
    \/ CloseComments(p)
    \/ Reply(p)
    \/ Look(p)
    \/ DeliverComments(p)
    \/ LoseCalls(p)
    \/ Relaunch(p)

Spec == Init /\ [][Next]_vars

-----------------------------------------------------------------------------
(* Properties.                                                               *)

\* s is t with some of its elements left out.
Subsequence(s, t) == \E f \in [1..Len(s) -> 1..Len(t)] :
    /\ \A i, j \in 1..Len(s) : i < j => f[i] < f[j]
    /\ \A i \in 1..Len(s) : s[i] = t[f[i]]

\* Replies may be overwritten, and are; but no interleaving of replies, late
\* writes, refreshes and reopened comment views ever duplicates a comment,
\* changes the order of two, or shows one nobody wrote.
CommentsInOrder == \A d \in Docs :
    LET ordered == {comments \in Values : Subsequence(comments, said[d])}
    IN  /\ HoldsOnly(d, ordered)
        /\ ShowsOnly(d, ordered)
        /\ \A p \in Phones : ThreadOpen(p) /\ message[p].doc = d => thread[p] \in ordered

\* Storing whole arrays loses nothing unless a reply was made on a copy that
\* was not fresh or a call was lost: every reply is then in the database, or in
\* the newest update on its way there.
RepliesKept == \A d \in Docs \ spoiled : ComesToRestAt(d, said[d])

=============================================================================
