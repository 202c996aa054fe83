---------------------------- MODULE VotingProofs ----------------------------
(***************************************************************************)
(* Proofs about Voting, for any set of phones, yaks and likes and any       *)
(* bounds on calls and writes, and about VoteDefaults, for any set of yaks   *)
(* and any bound on sets: the tallies and the arrays the votes are kept in.  *)
(***************************************************************************)
EXTENDS Voting, VoteDefaults, YakScreensProofs

-----------------------------------------------------------------------------
(* Type correctness.                                                         *)

\* A vote moves one phone's defaults within the documents.
LEMMA VoteTypes ==
    ASSUME TypeOK, NEW p \in Phones, NEW d \in Docs, NEW shown, NEW likes,
           UpVote(p, d, shown, likes) \/ DownVote(p, d, shown, likes)
    PROVE  /\ upvoted' \in [Phones -> SUBSET Docs]
           /\ downvoted' \in [Phones -> SUBSET Docs]
<1> USE DEF TypeOK
<1>1. CASE UndoUpVote(p, d, shown, likes)
  BY <1>1 DEF UndoUpVote
<1>2. CASE CastUpVote(p, d, shown, likes)
  BY <1>2 DEF CastUpVote
<1>3. CASE UndoDownVote(p, d, shown, likes)
  BY <1>3 DEF UndoDownVote
<1>4. CASE CastDownVote(p, d, shown, likes)
  BY <1>4 DEF CastDownVote
<1> QED
  BY <1>1, <1>2, <1>3, <1>4 DEF UpVote, DownVote

LEMMA VoteInt == \A p, d : Vote(p, d) \in Int
BY DEF Vote

LEMMA AccountType ==
    ASSUME TypeOK, NEW p \in Phones, NEW d \in Docs, NEW shown, Account(p, d, shown)
    PROVE  tally' \in [Docs -> Int] /\ spoiled' \in SUBSET Docs
<1>1. Vote(p, d) \in Int /\ Vote(p, d)' \in Int
  BY DEF Vote
<1> QED
  BY <1>1 DEF TypeOK, Account

LEMMA UpdateYakVoteType ==
    ASSUME TypeOK, NEW p \in Phones, NEW d \in Docs, NEW likes \in Likes,
           UpdateYakVote(p, d, likes)
    PROVE  ClientTypeOK'
<1>1. Update(d, likes) \in Requests
  BY RequestTypes DEF Likes
<1> QED
  BY <1>1, GetDocumentsType DEF TypeOK, UpdateYakVote

\* A touched row or message holds likes, and its document is a document.
LEMMA ListTapType ==
    ASSUME TypeOK, NEW p \in Phones, NEW d \in Docs, NEW likes \in Likes,
           ListTap(p, d, likes)
    PROVE  /\ ClientTypeOK'
           /\ rows' \in [Phones -> [Screens -> [Docs -> Likes \cup {Absent}]]]
           /\ tally' \in [Docs -> Int] /\ spoiled' \in SUBSET Docs
<1>1. ClientTypeOK'
  BY UpdateYakVoteType DEF ListTap
<1>2. rows' \in [Phones -> [Screens -> [Docs -> Likes \cup {Absent}]]]
  BY ScreensAssumption DEF TypeOK, ScreensTypeOK, ListTap, Likes
<1>3. tally' \in [Docs -> Int] /\ spoiled' \in SUBSET Docs
  BY AccountType DEF ListTap
<1> QED
  BY <1>1, <1>2, <1>3

LEMMA MessageTapType ==
    ASSUME TypeOK, NEW p \in Phones, NEW likes \in Likes,
           message[p] # Absent, MessageTap(p, likes)
    PROVE  /\ ClientTypeOK'
           /\ message' \in [Phones -> Copies \cup {Absent}]
           /\ tally' \in [Docs -> Int] /\ spoiled' \in SUBSET Docs
<1>1. message[p] \in Copies
  BY DEF TypeOK, ScreensTypeOK
<1>2. message[p].doc \in Docs
  BY <1>1 DEF Copies
<1>3. ClientTypeOK'
  BY <1>2, UpdateYakVoteType DEF MessageTap
<1>4. message' \in [Phones -> Copies \cup {Absent}]
  BY <1>1 DEF TypeOK, ScreensTypeOK, MessageTap, Copies, Likes
<1>5. tally' \in [Docs -> Int] /\ spoiled' \in SUBSET Docs
  BY <1>2, AccountType DEF MessageTap
<1> QED
  BY <1>3, <1>4, <1>5

\* A tap, in the list or in the message, keeps every variable in its type.
LEMMA TapType ==
    ASSUME TypeOK, NEW p \in Phones, Tap(p)
    PROVE  TypeOK'
<1>1. ASSUME NEW d \in Docs, ListUpVote(p, d) \/ ListDownVote(p, d)
      PROVE  TypeOK'
  <2>1. PICK likes \in Likes :
          /\ ListTap(p, d, likes)
          /\ \/ UpVote(p, d, rows[p]["list"][d], likes)
             \/ DownVote(p, d, rows[p]["list"][d], likes)
    BY <1>1 DEF ListUpVote, ListDownVote
  <2>2. upvoted' \in [Phones -> SUBSET Docs] /\ downvoted' \in [Phones -> SUBSET Docs]
    BY <2>1, VoteTypes
  <2>3. UNCHANGED <<tab, message, opening, imageCache>>
    BY <2>1 DEF ListTap
  <2> QED
    BY <2>1, <2>2, <2>3, ListTapType DEF TypeOK, ScreensTypeOK, Likes
<1>2. ASSUME MessageUpVote(p) \/ MessageDownVote(p)
      PROVE  TypeOK'
  <2>1. PICK likes \in Likes :
          /\ message[p] # Absent
          /\ MessageTap(p, likes)
          /\ \/ UpVote(p, message[p].doc, message[p].value, likes)
             \/ DownVote(p, message[p].doc, message[p].value, likes)
    BY <1>2 DEF MessageUpVote, MessageDownVote
  <2>2. message[p].doc \in Docs
    BY <2>1 DEF TypeOK, ScreensTypeOK, Copies
  <2>3. upvoted' \in [Phones -> SUBSET Docs] /\ downvoted' \in [Phones -> SUBSET Docs]
    BY <2>1, <2>2, VoteTypes
  <2>4. UNCHANGED <<tab, rows, opening, imageCache>>
    BY <2>1 DEF MessageTap
  <2> QED
    BY <2>1, <2>3, <2>4, MessageTapType DEF TypeOK, ScreensTypeOK
<1> QED
  BY <1>1, <1>2 DEF Tap

\* TypeOK is inductive.
LEMMA TypeStep == TypeOK /\ [Next]_vars => TypeOK'
<1> SUFFICES ASSUME TypeOK, [Next]_vars PROVE TypeOK'
  OBVIOUS
<1>1. CASE UNCHANGED vars
  BY <1>1 DEF TypeOK, ClientTypeOK, ScreensTypeOK, vars, clientVars, screenVars, voteVars
<1>2. ASSUME NEW p \in Phones, Tap(p) PROVE TypeOK'
  BY <1>2, TapType
<1>3. ASSUME NEW p \in Phones, Look(p) PROVE TypeOK'
  BY <1>3, LookType DEF Look, LookStep, TypeOK, voteVars
<1>4. ASSUME NEW p \in Phones, DeliverVote(p) PROVE TypeOK'
  BY <1>4, UpdateCallbackType DEF DeliverVote, TypeOK, ScreensTypeOK, screenVars, voteVars
<1>5. ASSUME NEW p \in Phones, LoseCalls(p) PROVE TypeOK'
  BY <1>5, LossType DEF LoseCalls, TypeOK, ScreensTypeOK, screenVars, voteVars
<1>6. ASSUME NEW p \in Phones, Relaunch(p) PROVE TypeOK'
  BY <1>6, RestartType DEF Relaunch, TypeOK, voteVars
<1> QED
  BY <1>1, <1>2, <1>3, <1>4, <1>5, <1>6 DEF Next

LEMMA TypeInit == Init => TypeOK
<1> SUFFICES ASSUME Init PROVE TypeOK
  OBVIOUS
<1>1. ClientTypeOK /\ ScreensTypeOK
  BY ScreensInitType DEF Init
<1>2. tally \in [Docs -> Int]
  BY <1>1, VotingAssumption DEF Init, ClientTypeOK, Snapshots, Likes
<1> QED
  BY <1>1, <1>2 DEF Init, TypeOK

\* Every variable of the vote model stays in its type: in particular the number
\* a tap computes, stores in a row and sends is always a number of likes.
THEOREM TypeCorrect == Spec => []TypeOK
BY TypeInit, TypeStep, PTL DEF Spec

-----------------------------------------------------------------------------
(* Votes are exclusive.                                                      *)

\* A tap leaves at most one of the two votes.
LEMMA TapExclusive ==
    ASSUME TypeOK, VotesExclusive, NEW p \in Phones, NEW d \in Docs, NEW shown, NEW likes,
           UpVote(p, d, shown, likes) \/ DownVote(p, d, shown, likes)
    PROVE  VotesExclusive'
<1> USE DEF TypeOK, VotesExclusive
<1>1. CASE UndoUpVote(p, d, shown, likes)
  BY <1>1 DEF UndoUpVote
<1>2. CASE CastUpVote(p, d, shown, likes)
  BY <1>2 DEF CastUpVote
<1>3. CASE UndoDownVote(p, d, shown, likes)
  BY <1>3 DEF UndoDownVote
<1>4. CASE CastDownVote(p, d, shown, likes)
  BY <1>4 DEF CastDownVote
<1> QED
  BY <1>1, <1>2, <1>3, <1>4 DEF UpVote, DownVote

\* What a tap is, wherever it was made: a vote on some copy, its new total sent
\* through updateYakVote and accounted for.
LEMMA TapIsVote ==
    ASSUME TypeOK, NEW p \in Phones, Tap(p)
    PROVE  \E d \in Docs, shown \in Likes, likes \in Likes :
              /\ UpVote(p, d, shown, likes) \/ DownVote(p, d, shown, likes)
              /\ UpdateYakVote(p, d, likes)
              /\ Account(p, d, shown)
<1>1. ASSUME NEW d \in Docs, ListUpVote(p, d) \/ ListDownVote(p, d)
      PROVE  rows[p]["list"][d] \in Likes
  BY <1>1, ScreensAssumption DEF ListUpVote, ListDownVote, RowTouchable, TypeOK, ScreensTypeOK,
                                 Likes
<1>2. ASSUME MessageUpVote(p) \/ MessageDownVote(p)
      PROVE  message[p].doc \in Docs /\ message[p].value \in Likes
  BY <1>2 DEF MessageUpVote, MessageDownVote, TypeOK, ScreensTypeOK, Copies, Likes
<1>3. ASSUME NEW d \in Docs, ListUpVote(p, d) \/ ListDownVote(p, d)
      PROVE  \E likes \in Likes :
                /\ \/ UpVote(p, d, rows[p]["list"][d], likes)
                   \/ DownVote(p, d, rows[p]["list"][d], likes)
                /\ UpdateYakVote(p, d, likes)
                /\ Account(p, d, rows[p]["list"][d])
  BY <1>3 DEF ListUpVote, ListDownVote, ListTap
<1>4. ASSUME MessageUpVote(p) \/ MessageDownVote(p)
      PROVE  \E likes \in Likes :
                /\ \/ UpVote(p, message[p].doc, message[p].value, likes)
                   \/ DownVote(p, message[p].doc, message[p].value, likes)
                /\ UpdateYakVote(p, message[p].doc, likes)
                /\ Account(p, message[p].doc, message[p].value)
  BY <1>4 DEF MessageUpVote, MessageDownVote, MessageTap
<1> QED
  BY <1>1, <1>2, <1>3, <1>4 DEF Tap

\* Only taps touch the defaults and the tally.
LEMMA OnlyTapsVote ==
    ASSUME [Next]_vars, \A p \in Phones : ~Tap(p)
    PROVE  UNCHANGED voteVars
BY DEF Next, vars, voteVars, Look, DeliverVote, LoseCalls, Relaunch

LEMMA ExclusiveStep == TypeOK /\ VotesExclusive /\ [Next]_vars => VotesExclusive'
<1> SUFFICES ASSUME TypeOK, VotesExclusive, [Next]_vars PROVE VotesExclusive'
  OBVIOUS
<1>1. ASSUME NEW p \in Phones, Tap(p) PROVE VotesExclusive'
  BY <1>1, TapIsVote, TapExclusive
<1>2. CASE \A p \in Phones : ~Tap(p)
  BY <1>2, OnlyTapsVote DEF voteVars, VotesExclusive
<1> QED
  BY <1>1, <1>2

\* On every phone, whatever the order of taps in the list and in the message,
\* and across relaunches, no yak is remembered as both upvoted and downvoted.
THEOREM AlwaysExclusive == Spec => []VotesExclusive
<1>1. Init => VotesExclusive
  BY DEF Init, VotesExclusive
<1> QED
  BY <1>1, TypeInit, TypeStep, ExclusiveStep, PTL DEF Spec

-----------------------------------------------------------------------------
(* The votes and their totals move as the ledger says.                       *)

\* The difference a tap makes to the number on the screen is the difference it
\* makes to the phone's vote, and the vote turns as the arrow says.
LEMMA TapTurnsVote ==
    ASSUME TypeOK, VotesExclusive, NEW p \in Phones, NEW d \in Docs,
           NEW shown \in Int, NEW likes \in Int
    PROVE  /\ UpVote(p, d, shown, likes) =>
                 /\ Vote(p, d)' = IF Vote(p, d) = 1 THEN 0 ELSE 1
                 /\ likes = shown + Vote(p, d)' - Vote(p, d)
           /\ DownVote(p, d, shown, likes) =>
                 /\ Vote(p, d)' = IF Vote(p, d) = -1 THEN 0 ELSE -1
                 /\ likes = shown + Vote(p, d)' - Vote(p, d)
<1>1. ~(d \in upvoted[p] /\ d \in downvoted[p])
  BY DEF VotesExclusive
<1> USE DEF TypeOK, Vote
<1>2. ASSUME UndoUpVote(p, d, shown, likes)
      PROVE  Vote(p, d) = 1 /\ Vote(p, d)' = 0 /\ likes = shown - 1
  BY <1>1, <1>2 DEF UndoUpVote
<1>3. ASSUME CastUpVote(p, d, shown, likes)
      PROVE  Vote(p, d) # 1 /\ Vote(p, d)' = 1 /\ likes = shown + 1 - Vote(p, d)
  BY <1>1, <1>3 DEF CastUpVote
<1>4. ASSUME UndoDownVote(p, d, shown, likes)
      PROVE  Vote(p, d) = -1 /\ Vote(p, d)' = 0 /\ likes = shown + 1
  BY <1>1, <1>4 DEF UndoDownVote
<1>5. ASSUME CastDownVote(p, d, shown, likes)
      PROVE  Vote(p, d) # -1 /\ Vote(p, d)' = -1 /\ likes = shown - 1 - Vote(p, d)
  BY <1>1, <1>5 DEF CastDownVote
<1>6. Vote(p, d) \in Int
  OBVIOUS
<1> HIDE DEF TypeOK, Vote
<1> QED
  BY <1>2, <1>3, <1>4, <1>5, <1>6 DEF UpVote, DownVote

\* A tap touches the vote of one phone on one yak.
LEMMA TapKeepsOthers ==
    ASSUME TypeOK, NEW p \in Phones, NEW d \in Docs, NEW shown, NEW likes,
           UpVote(p, d, shown, likes) \/ DownVote(p, d, shown, likes),
           NEW q \in Phones, NEW e \in Docs, q # p \/ e # d
    PROVE  Vote(q, e)' = Vote(q, e)
<1> USE DEF TypeOK, Vote
<1>1. CASE UndoUpVote(p, d, shown, likes)
  BY <1>1 DEF UndoUpVote
<1>2. CASE CastUpVote(p, d, shown, likes)
  BY <1>2 DEF CastUpVote
<1>3. CASE UndoDownVote(p, d, shown, likes)
  BY <1>3 DEF UndoDownVote
<1>4. CASE CastDownVote(p, d, shown, likes)
  BY <1>4 DEF CastDownVote
<1> QED
  BY <1>1, <1>2, <1>3, <1>4 DEF UpVote, DownVote

VoteMap == [p \in Phones |-> [d \in Docs |-> Vote(p, d)]]

LEMMA LedgerStep ==
    TypeOK /\ VotesExclusive /\ [Next]_vars => [Ledger!LedgerNext]_(Ledger!ledgerVars)
<1> SUFFICES ASSUME TypeOK, VotesExclusive, [Next]_vars
             PROVE  [Ledger!LedgerNext]_(Ledger!ledgerVars)
  OBVIOUS
<1>1. ASSUME NEW p \in Phones, Tap(p) PROVE Ledger!LedgerNext
  <2>1. PICK d \in Docs, shown \in Likes, likes \in Likes :
          /\ UpVote(p, d, shown, likes) \/ DownVote(p, d, shown, likes)
          /\ Account(p, d, shown)
    BY <1>1, TapIsVote
  <2>2. shown \in Int /\ likes \in Int
    BY VotingAssumption
  <2>3. \/ Vote(p, d)' = IF Vote(p, d) = 1 THEN 0 ELSE 1
        \/ Vote(p, d)' = IF Vote(p, d) = -1 THEN 0 ELSE -1
    BY <2>1, <2>2, TapTurnsVote
  <2>4. VoteMap' = [VoteMap EXCEPT ![p][d] = Vote(p, d)']
    BY <2>1, TapKeepsOthers DEF VoteMap
  <2>5. VoteMap[p][d] = Vote(p, d)
    BY DEF VoteMap
  <2>6. tally' = [tally EXCEPT ![d] = @ + Vote(p, d)' - VoteMap[p][d]]
    BY <2>1, <2>5 DEF Account
  <2>7. \/ VoteMap' = [VoteMap EXCEPT ![p][d] = IF VoteMap[p][d] = 1 THEN 0 ELSE 1]
           /\ tally' = [tally EXCEPT ![d] =
                 @ + (IF VoteMap[p][d] = 1 THEN 0 ELSE 1) - VoteMap[p][d]]
        \/ VoteMap' = [VoteMap EXCEPT ![p][d] = IF VoteMap[p][d] = -1 THEN 0 ELSE -1]
           /\ tally' = [tally EXCEPT ![d] =
                 @ + (IF VoteMap[p][d] = -1 THEN 0 ELSE -1) - VoteMap[p][d]]
    BY <2>3, <2>4, <2>5, <2>6
  <2>8. Ledger!Press(p, d, 1) \/ Ledger!Press(p, d, -1)
    BY <2>7 DEF Ledger!Press, VoteMap
  <2> QED
    BY <2>8 DEF Ledger!LedgerNext
<1>2. CASE \A p \in Phones : ~Tap(p)
  BY <1>2, OnlyTapsVote DEF voteVars, Vote, Ledger!ledgerVars
<1> QED
  BY <1>1, <1>2

\* Pressing arrows, on whichever screen, is exactly what the ledger describes:
\* one press turns one phone's vote, and the totals follow.
THEOREM VotingImplementsLedger == Spec => ImplementsLedger
<1>1. Init => VotesExclusive
  BY DEF Init, VotesExclusive
<1>2. Init => Ledger!LedgerInit
  BY TypeInit DEF Init, TypeOK, Vote, Ledger!LedgerInit
<1> QED
  BY <1>1, <1>2, TypeInit, TypeStep, ExclusiveStep, LedgerStep, PTL
  DEF Spec, ImplementsLedger, Ledger!LedgerSpec

-----------------------------------------------------------------------------
(* Counts are kept.                                                          *)

\* A tap on a fresh copy makes the new count the resting point of its yak.
LEMMA TapKeepsCount ==
    ASSUME TypeOK, VotesExclusive, CountKept, NEW p \in Phones, Tap(p)
    PROVE  CountKept'
<1>1. PICK d \in Docs, shown \in Likes, likes \in Likes :
        /\ UpVote(p, d, shown, likes) \/ DownVote(p, d, shown, likes)
        /\ UpdateYakVote(p, d, likes)
        /\ Account(p, d, shown)
  BY TapIsVote
<1> SUFFICES ASSUME NEW e \in Docs, e \notin spoiled'
             PROVE  ComesToRestAt(e, tally[e])'
  BY DEF CountKept
<1>2. e \notin spoiled /\ (e = d => Fresh(p, d, shown))
  BY <1>1 DEF Account
<1>3. Update(d, likes) \in Requests /\ (IsUpdate(Update(d, likes), e) => e = d)
  BY RequestTypes DEF Update, IsUpdate, Likes
<1>4. CASE e # d
  <2>1. PICK v : v = tally[e]
    OBVIOUS
  <2>2. ComesToRestAt(e, v)
    BY <1>2, <2>1 DEF CountKept
  <2>3. ComesToRestAt(e, v)'
    BY <1>1, <1>3, <1>4, <2>2, AskKeepsRest DEF UpdateYakVote, TypeOK
  <2>4. tally[e]' = v
    BY <1>1, <1>4, <2>1 DEF Account, TypeOK
  <2> QED
    BY <2>3, <2>4
<1>5. CASE e = d
  <2>1. shown = tally[d] /\ \A q \in Phones \ {p} : ~InFlight(q, d)
    BY <1>2, <1>5 DEF Fresh
  <2>2. likes = tally[d]'
    <3>1. shown \in Int /\ likes \in Int
      BY VotingAssumption
    <3>2. likes = shown + Vote(p, d)' - Vote(p, d)
      BY <1>1, <3>1, TapTurnsVote
    <3> QED
      BY <1>1, <2>1, <3>2 DEF Account, TypeOK
  <2>3. ComesToRestAt(d, likes)'
    <3>1. NewestTaken(p, d)
      BY <1>2, <1>5 DEF CountKept, ComesToRestAt
    <3> QED
      BY <1>1, <2>1, <3>1, AskSetsRest DEF UpdateYakVote, TypeOK, Likes
  <2> QED
    BY <1>5, <2>2, <2>3
<1> QED
  BY <1>4, <1>5

\* Every other step leaves the tally, and the resting point of each yak that is
\* not spoiled after it.
LEMMA StepKeepsRest ==
    ASSUME TypeOK, [Next]_vars, \A p \in Phones : ~Tap(p),
           NEW e \in Docs, e \notin spoiled', NEW v, ComesToRestAt(e, v)
    PROVE  ComesToRestAt(e, v)'
<1>0. ClientTypeOK /\ ScreensTypeOK
  BY DEF TypeOK
<1>1. CASE UNCHANGED vars
  BY <1>1, IdleKeepsRest DEF vars, clientVars
<1>2. ASSUME NEW p \in Phones, Look(p) PROVE ComesToRestAt(e, v)'
  BY <1>0, <1>2, LookKeepsRest DEF Look, LookStep
<1>3. ASSUME NEW p \in Phones, DeliverVote(p) PROVE ComesToRestAt(e, v)'
  BY <1>0, <1>3, UpdateCallbackKeepsRest DEF DeliverVote
<1>4. ASSUME NEW p \in Phones, LoseCalls(p) PROVE ComesToRestAt(e, v)'
  BY <1>0, <1>4, LossKeepsRest DEF LoseCalls
<1>5. ASSUME NEW p \in Phones, Relaunch(p) PROVE ComesToRestAt(e, v)'
  BY <1>0, <1>5, LossKeepsRest DEF Relaunch, RestartScreens
<1> QED
  BY <1>1, <1>2, <1>3, <1>4, <1>5 DEF Next

\* Nothing heals a spoiled document.
LEMMA SpoiledGrows ==
    ASSUME [Next]_vars
    PROVE  spoiled \subseteq spoiled'
BY DEF Next, vars, Tap, ListUpVote, ListDownVote, MessageUpVote, MessageDownVote, ListTap,
       MessageTap, Account, Look, DeliverVote, LoseCalls, Relaunch

LEMMA CountStep == TypeOK /\ VotesExclusive /\ CountKept /\ [Next]_vars => CountKept'
<1> SUFFICES ASSUME TypeOK, VotesExclusive, CountKept, [Next]_vars PROVE CountKept'
  OBVIOUS
<1>1. ASSUME NEW p \in Phones, Tap(p) PROVE CountKept'
  BY <1>1, TapKeepsCount
<1>2. CASE \A p \in Phones : ~Tap(p)
  <2> SUFFICES ASSUME NEW e \in Docs, e \notin spoiled'
               PROVE  ComesToRestAt(e, tally[e])'
    BY DEF CountKept
  <2>1. PICK v : v = tally[e]
    OBVIOUS
  <2>2. ComesToRestAt(e, v)
    BY <2>1, SpoiledGrows DEF CountKept
  <2>3. ComesToRestAt(e, v)'
    BY <1>2, <2>2, StepKeepsRest
  <2>4. tally[e]' = v
    BY <1>2, <2>1, OnlyTapsVote DEF voteVars
  <2> QED
    BY <2>3, <2>4
<1> QED
  BY <1>1, <1>2

\* Whatever number of phones vote on whatever number of yaks, over and over and
\* on every screen: as long as no tap on a yak was made on a copy that was out
\* of date and no call with a vote for it was lost, the total of its votes is
\* what the newest vote on its way carries, and what the database holds when
\* none is on its way.
THEOREM CountsAreKept == Spec => []CountKept
<1>1. Init => VotesExclusive
  BY DEF Init, VotesExclusive
<1>2. Init => CountKept
  BY DEF Init, ClientInit, CountKept, ComesToRestAt, NewestCarries, NewestTaken, InFlight,
         AskedFor, AnsweredFor, WritesFor
<1> QED
  BY <1>1, <1>2, TypeInit, TypeStep, ExclusiveStep, CountStep, PTL DEF Spec

-----------------------------------------------------------------------------
(* A presented message has its image.                                        *)

LEMMA ImageStep == TypeOK /\ MessageHasImage /\ [Next]_vars => MessageHasImage'
<1> SUFFICES ASSUME TypeOK, MessageHasImage, [Next]_vars PROVE MessageHasImage'
  OBVIOUS
<1>0. ScreensTypeOK
  BY DEF TypeOK
<1>1. ASSUME NEW p \in Phones, Tap(p) PROVE MessageHasImage'
  <2>1. CASE \E d \in Docs, likes \in Likes : ListTap(p, d, likes)
    BY <2>1 DEF ListTap, MessageHasImage
  <2>2. CASE \E likes \in Likes : message[p] # Absent /\ MessageTap(p, likes)
    <3>1. message[p] \in Copies
      BY <1>0, <2>2 DEF ScreensTypeOK
    <3>2. PICK likes \in Likes : MessageTap(p, likes)
      BY <2>2
    <3>3. UNCHANGED <<tab, imageCache>>
      BY <3>2 DEF MessageTap
    <3>4. \A q \in Phones : message[q] = Absent <=> message'[q] = Absent
      <4>1. message'[p] \in Copies
        BY <1>0, <3>1, <3>2 DEF MessageTap, Copies, Likes, ScreensTypeOK
      <4> QED
        BY <1>0, <2>2, <3>2, <4>1, ScreensAssumption DEF MessageTap, ScreensTypeOK
    <3>5. \A q \in Phones : message[q] # Absent => message'[q].doc = message[q].doc
      BY <1>0, <3>1, <3>2 DEF MessageTap, Copies, ScreensTypeOK
    <3> QED
      BY <3>3, <3>4, <3>5 DEF MessageHasImage
  <2> QED
    BY <1>1, <2>1, <2>2 DEF Tap, ListUpVote, ListDownVote, MessageUpVote, MessageDownVote
<1>2. ASSUME NEW p \in Phones, Look(p) PROVE MessageHasImage'
  BY <1>0, <1>2, LookKeepsImage DEF Look, LookStep
<1>3. ASSUME NEW p \in Phones, Relaunch(p) PROVE MessageHasImage'
  BY <1>0, <1>3, RestartKeepsImage DEF Relaunch
<1>4. ASSUME UNCHANGED screenVars PROVE MessageHasImage'
  BY <1>4 DEF screenVars, MessageHasImage
<1> QED
  BY <1>1, <1>2, <1>3, <1>4 DEF Next, vars, DeliverVote, LoseCalls

\* However late images arrive, and for whichever screen and yak they were asked
\* for, a message is on the screen only with its image in the cache beneath it.
THEOREM ImagesArePresent == Spec => []MessageHasImage
<1>1. Init => MessageHasImage
  BY DEF Init, ScreensInit, MessageHasImage
<1> QED
  BY <1>1, TypeInit, TypeStep, ImageStep, PTL DEF Spec

-----------------------------------------------------------------------------
(* A phone shows its own votes.                                              *)

LEMMA OwnWritesStep == TypeOK /\ OwnWritesShown /\ [Next]_vars => OwnWritesShown'
<1> SUFFICES ASSUME TypeOK, OwnWritesShown, [Next]_vars PROVE OwnWritesShown'
  OBVIOUS
<1>0. ClientTypeOK
  BY DEF TypeOK
<1>1. CASE UNCHANGED clientVars
  BY <1>1, IdleShowsOwn DEF clientVars
<1>2. ASSUME NEW p \in Phones, NEW req, GetDocuments(p, req) PROVE OwnWritesShown'
  BY <1>2, IdleShowsOwn DEF GetDocuments
<1>3. ASSUME NEW p \in Phones, Tap(p) PROVE OwnWritesShown'
  BY <1>2, <1>3, TapIsVote DEF UpdateYakVote
<1>4. ASSUME NEW p \in Phones, ScreenStep(p) PROVE OwnWritesShown'
  BY <1>1, <1>2, <1>4, IdleShowsOwn
  DEF ScreenStep, ListRefresh, FetchYaks, ImageArrives, ImageFails, DeliverFetch, FetchCallback
<1>5. ASSUME NEW p \in Phones, NavigationStep(p) PROVE OwnWritesShown'
  BY <1>1, <1>2, <1>5
  DEF NavigationStep, SwitchTab, SelectYak, CloseMessage, Appear, FetchYaks
<1>6. ASSUME NEW p \in Phones, StoreStep(p) PROVE OwnWritesShown'
  BY <1>0, <1>6, AnswerShowsOwn, AcknowledgeShowsOwn, IdleShowsOwn
     DEF StoreStep, Commit, Reconnect
<1>7. ASSUME NEW p \in Phones, DeliverVote(p) PROVE OwnWritesShown'
  BY <1>0, <1>7, UpdateShowsOwn DEF DeliverVote
<1>8. ASSUME NEW p \in Phones, LoseCalls(p) \/ Relaunch(p) PROVE OwnWritesShown'
  BY <1>8, IdleShowsOwn DEF LoseCalls, FailCalls, Relaunch, RestartScreens, EndProcess
<1> QED
  BY <1>1, <1>3, <1>4, <1>5, <1>6, <1>7, <1>8 DEF Next, vars, Look

\* Until the backend has acknowledged it, the newest of a phone's writes to a yak
\* is what that phone's next fetch shows, however many others are queued and
\* whatever other phones have stored meanwhile.
THEOREM OwnWritesAreShown == Spec => []OwnWritesShown
<1>1. Init => OwnWritesShown
  BY DEF Init, ClientInit, OwnWritesShown
<1> QED
  BY <1>1, TypeInit, TypeStep, OwnWritesStep, PTL DEF Spec

-----------------------------------------------------------------------------
(* The arrays a phone keeps its votes in (VoteDefaults).                      *)

\* Of the sets not yet stored those after the i-th leave y in the array a as the
\* i-th leaves it: from the first that writes a on, none is by a tap on y.
Lasting(a, y, i) == \A j, k \in DOMAIN sets :
    i < j /\ j <= k /\ sets[j].key = a => sets[k].by # y

\* What lasts is what the app reads, stored or on its way.
Agree(a, y) ==
    /\ Lasting(a, y, 0) => (y \in stored[a] <=> y \in defaults[a])
    /\ \A i \in DOMAIN sets :
           sets[i].key = a /\ Lasting(a, y, i) => (y \in sets[i].value <=> y \in defaults[a])

StoreInv == \A a \in Arrows, y \in Yaks : Agree(a, y)

\* The keys a tap on an arrow sets.
KeysOf(arrow) == {<<arrow>>, <<"up", "down">>}

LEMMA FunctionIsSequence ==
    ASSUME NEW S, NEW n \in Nat, NEW f \in [1..n -> S]
    PROVE  f \in Seq(S) /\ Len(f) = n
OBVIOUS

LEMMA KeysTypes ==
    ASSUME NEW arrow \in Arrows, NEW keys \in KeysOf(arrow)
    PROVE  keys \in Seq(Arrows)
<1>1. <<arrow>> \in Seq(Arrows)
  OBVIOUS
<1>2. "up" \in Arrows /\ "down" \in Arrows
  BY DEF Arrows
<1>3. <<"up", "down">> \in Seq(Arrows)
  BY <1>2
<1> QED
  BY <1>1, <1>3 DEF KeysOf

\* The sets of a tap are sets.
LEMMA SetArraysTypes ==
    ASSUME DefaultsTypeOK, NEW arrays \in Arrays, NEW arrow \in Arrows,
           NEW keys \in KeysOf(arrow), NEW y \in Yaks, SetArrays(arrays, keys, y)
    PROVE  /\ [i \in DOMAIN keys |-> Set(arrays, keys[i], y)]
                  \in Seq([key : Arrows, value : SUBSET Yaks, by : Yaks])
           /\ defaults' \in Arrays /\ stored' \in Arrays
           /\ sets' \in Seq([key : Arrows, value : SUBSET Yaks, by : Yaks])
           /\ cut' \in SUBSET Yaks
           /\ dangling' \in SUBSET cut'
<1> DEFINE S == [key : Arrows, value : SUBSET Yaks, by : Yaks]
           new == [i \in DOMAIN keys |-> Set(arrays, keys[i], y)]
<1>1. keys \in Seq(Arrows)
  BY KeysTypes
<1>2. \A i \in DOMAIN keys : Set(arrays, keys[i], y) \in S
  BY <1>1 DEF Set, Arrays
<1>3. new \in Seq(S)
  <2>1. DOMAIN keys = 1..Len(keys) /\ Len(keys) \in Nat
    BY <1>1
  <2>2. new \in [1..Len(keys) -> S]
    BY <1>2, <2>1
  <2> QED
    BY <2>1, <2>2, FunctionIsSequence
<1>4. sets' \in Seq(S)
  BY <1>3 DEF SetArrays, DefaultsTypeOK
<1> QED
  BY <1>3, <1>4 DEF SetArrays, DefaultsTypeOK

\* A tap on y leaves the votes on other yaks, and turns y's: at most one array it
\* sets has y.
LEMMA TapArrays ==
    ASSUME DefaultsTypeOK, NEW arrow \in Arrows, NEW y \in Yaks,
           Withdraw(arrow, y) \/ Cast(arrow, y)
    PROVE  \E keys \in KeysOf(arrow), arrays \in Arrays :
               /\ SetArrays(arrays, keys, y)
               /\ \A a \in Arrows, z \in Yaks :
                      z # y \/ (keys = <<arrow>> /\ a = Other(arrow)) =>
                          (z \in arrays[a] <=> z \in defaults[a])
               /\ y \in arrays[arrow] <=> y \notin defaults[arrow]
               /\ y \in arrays[Other(arrow)] => y \in defaults[arrow] /\ y \in defaults[Other(arrow)]
<1> USE DEF DefaultsTypeOK
<1>0. Other(arrow) \in Arrows /\ Other(arrow) # arrow
  BY DEF Arrows, Other
<1>1. CASE Withdraw(arrow, y)
  <2> DEFINE arrays == [defaults EXCEPT ![arrow] = @ \ {y}]
  <2>1. arrays \in Arrays /\ SetArrays(arrays, <<arrow>>, y) /\ y \in defaults[arrow]
    BY <1>1 DEF Withdraw, Arrays
  <2>2. <<arrow>> \in KeysOf(arrow)
    BY DEF KeysOf
  <2>3. /\ \A a \in Arrows, z \in Yaks :
               z # y \/ a = Other(arrow) => (z \in arrays[a] <=> z \in defaults[a])
        /\ y \notin arrays[arrow]
    BY <1>0 DEF Arrays
  <2>4. y \in arrays[Other(arrow)] => y \in defaults[Other(arrow)]
    BY <1>0, <2>3
  <2> HIDE DEF arrays
  <2> QED
    BY <2>1, <2>2, <2>3, <2>4
<1>2. CASE Cast(arrow, y)
  <2> DEFINE arrays == [defaults EXCEPT ![arrow] = @ \cup {y}, ![Other(arrow)] = @ \ {y}]
  <2>1. arrays \in Arrays /\ SetArrays(arrays, <<"up", "down">>, y) /\ y \notin defaults[arrow]
    BY <1>2, <1>0 DEF Cast, Arrays
  <2>2. <<"up", "down">> \in KeysOf(arrow)
    BY DEF KeysOf
  <2>3. Len(<<"up", "down">>) = 2 /\ Len(<<arrow>>) = 1
    OBVIOUS
  <2>4. <<"up", "down">> # <<arrow>>
    BY <2>3
  <2>5. /\ \A a \in Arrows, z \in Yaks : z # y => (z \in arrays[a] <=> z \in defaults[a])
        /\ y \in arrays[arrow]
        /\ y \notin arrays[Other(arrow)]
    BY <1>0 DEF Arrays
  <2> HIDE DEF arrays
  <2> QED
    BY <2>1, <2>2, <2>4, <2>5
<1> QED
  BY <1>1, <1>2

\* The sets of a tap on y0 agree with what it leaves in the app, and no earlier set
\* of their arrays lasts for y0.
LEMMA StoreInvAfterTap ==
    ASSUME DefaultsTypeOK, StoreInv, NEW arrow \in Arrows, NEW y0 \in Yaks,
           Withdraw(arrow, y0) \/ Cast(arrow, y0)
    PROVE  StoreInv'
<1>1. PICK keys \in KeysOf(arrow), arrays \in Arrays :
               /\ SetArrays(arrays, keys, y0)
               /\ \A a \in Arrows, z \in Yaks :
                      z # y0 \/ (keys = <<arrow>> /\ a = Other(arrow)) =>
                          (z \in arrays[a] <=> z \in defaults[a])
  <2> HIDE DEF DefaultsTypeOK
  <2> QED
    BY TapArrays
<1> DEFINE S == [key : Arrows, value : SUBSET Yaks, by : Yaks]
           new == [i \in DOMAIN keys |-> Set(arrays, keys[i], y0)]
           n == Len(sets)
<1>2. /\ sets \in Seq(S) /\ new \in Seq(S) /\ sets' = sets \o new /\ keys \in Seq(Arrows)
      /\ stored' = stored /\ defaults' = arrays
  <2>1. new \in Seq(S)
    BY <1>1, SetArraysTypes
  <2>2. keys \in Seq(Arrows)
    BY KeysTypes
  <2> QED
    BY <1>1, <2>1, <2>2 DEF SetArrays, DefaultsTypeOK
<1>3. /\ n \in Nat /\ DOMAIN sets = 1..n /\ DOMAIN sets' = 1..(n + Len(keys))
      /\ DOMAIN keys = 1..Len(keys) /\ Len(keys) \in Nat /\ Len(new) = Len(keys)
  <2>1. /\ n \in Nat /\ DOMAIN sets = 1..n
        /\ Len(keys) \in Nat /\ DOMAIN keys = 1..Len(keys)
    BY <1>2
  <2>2. DOMAIN new = DOMAIN keys
    OBVIOUS
  <2>3. Len(new) \in Nat /\ DOMAIN new = 1..Len(new)
    BY <1>2, LenProperties
  <2> HIDE DEF new
  <2>4. Len(new) = Len(keys)
    BY <2>1, <2>2, <2>3
  <2>5. sets' \in Seq(S) /\ Len(sets') = Len(sets) + Len(new)
    BY <1>2, ConcatProperties
  <2> QED
    BY <2>1, <2>4, <2>5, LenProperties
<1>4. \A i \in DOMAIN sets : i \in DOMAIN sets' /\ sets'[i] = sets[i]
  BY <1>2, <1>3
<1>5. \A i \in DOMAIN sets' \ DOMAIN sets :
          i - n \in DOMAIN keys /\ sets'[i] = Set(arrays, keys[i - n], y0)
  <2> SUFFICES ASSUME NEW i \in DOMAIN sets' \ DOMAIN sets
               PROVE  i - n \in DOMAIN keys /\ sets'[i] = Set(arrays, keys[i - n], y0)
    OBVIOUS
  <2>1. i \in Nat /\ i > n /\ i - n \in DOMAIN keys
    BY <1>3
  <2>2. sets'[i] = new[i - n]
    BY <1>2, <1>3, <2>1
  <2> QED
    BY <2>1, <2>2
<1>6. ASSUME NEW a \in Arrows, a \in {keys[k] : k \in DOMAIN keys}
      PROVE  \E j \in DOMAIN sets' \ DOMAIN sets : sets'[j].key = a /\ sets'[j].by = y0
  <2>1. PICK k \in DOMAIN keys : keys[k] = a
    BY <1>6
  <2>2. n + k \in DOMAIN sets' \ DOMAIN sets
    BY <1>3
  <2>3. sets'[n + k] = Set(arrays, a, y0)
    BY <1>3, <1>5, <2>1, <2>2
  <2> QED
    BY <2>2, <2>3 DEF Set
<1>7. SUFFICES ASSUME NEW a \in Arrows, NEW y \in Yaks
               PROVE  Agree(a, y)'
  BY DEF StoreInv
<1>8. CASE y = y0 /\ a \in {keys[k] : k \in DOMAIN keys}
  <2>1. PICK j \in DOMAIN sets' \ DOMAIN sets : sets'[j].key = a /\ sets'[j].by = y0
    BY <1>6, <1>8
  <2>2. j > n /\ j \in Nat
    BY <1>3
  <2>3. \A i \in 0..n : ~Lasting(a, y, i)'
    BY <1>8, <2>1, <2>2, <1>3 DEF Lasting
  <2>4. \A i \in DOMAIN sets' \ DOMAIN sets :
            sets'[i].key = a => sets'[i].value = defaults'[a]
    BY <1>2, <1>5 DEF Set
  <2> QED
    BY <1>3, <2>3, <2>4 DEF Agree
<1>9. CASE ~(y = y0 /\ a \in {keys[k] : k \in DOMAIN keys})
  <2>1. y \in defaults'[a] <=> y \in defaults[a]
    <3>1. CASE y # y0
      BY <3>1, <1>1, <1>2
    <3>2. CASE a \notin {keys[k] : k \in DOMAIN keys}
      <4>1. keys # <<"up", "down">>
        <5> SUFFICES ASSUME keys = <<"up", "down">> PROVE FALSE
          OBVIOUS
        <5>1. keys[1] = "up" /\ keys[2] = "down" /\ DOMAIN keys = 1..2
          OBVIOUS
        <5> QED
          BY <3>2, <5>1 DEF Arrows
      <4>2. keys = <<arrow>> /\ a # arrow
        BY <3>2, <4>1 DEF KeysOf
      <4>3. a = Other(arrow)
        BY <4>2 DEF Arrows, Other
      <4> QED
        BY <1>1, <1>2, <4>2, <4>3
    <3> QED
      BY <1>9, <3>1, <3>2
  <2>2. \A i \in 0..n : Lasting(a, y, i)' => Lasting(a, y, i)
    BY <1>4 DEF Lasting
  <2>3. \A i \in DOMAIN sets' \ DOMAIN sets :
            sets'[i].key = a => sets'[i].value = defaults'[a]
    BY <1>2, <1>5 DEF Set
  <2>4. Agree(a, y)
    BY DEF StoreInv
  <2>5. Lasting(a, y, 0)' => (y \in stored'[a] <=> y \in defaults'[a])
    BY <1>2, <1>3, <2>1, <2>2, <2>4 DEF Agree
  <2>6. \A i \in DOMAIN sets :
            sets'[i].key = a /\ Lasting(a, y, i)' => (y \in sets'[i].value <=> y \in defaults'[a])
    BY <1>3, <1>4, <2>1, <2>2, <2>4 DEF Agree
  <2> QED
    BY <2>3, <2>5, <2>6 DEF Agree
<1> QED
  BY <1>8, <1>9

\* Storing the oldest set makes the next one the oldest.
LEMMA StoreInvAfterStore ==
    ASSUME DefaultsTypeOK, StoreInv, Store
    PROVE  StoreInv'
<1> DEFINE S == [key : Arrows, value : SUBSET Yaks, by : Yaks]
           n == Len(sets)
<1>1. /\ sets \in Seq(S) /\ sets # <<>> /\ sets' = Tail(sets) /\ defaults' = defaults
      /\ stored' = [stored EXCEPT ![sets[1].key] = sets[1].value]
  <2>1. sets \in Seq(S) /\ sets # <<>>
    BY DEF Store, DefaultsTypeOK
  <2>2. Head(sets) = sets[1]
    BY <2>1
  <2> QED
    BY <2>1, <2>2 DEF Store
<1>2. /\ n \in Nat /\ n > 0 /\ DOMAIN sets = 1..n /\ DOMAIN sets' = 1..(n - 1)
      /\ \A i \in 1..(n - 1) : sets'[i] = sets[i + 1]
  BY <1>1
<1>3. sets[1] \in S
  <2> HIDE DEF S
  <2>1. sets \in Seq(S) /\ 1 \in 1..Len(sets)
    BY <1>1, <1>2
  <2> QED
    BY <2>1, ElementOfSeq
<1>4. SUFFICES ASSUME NEW a \in Arrows, NEW y \in Yaks
               PROVE  Agree(a, y)'
  BY DEF StoreInv
<1>5. Agree(a, y)
  BY DEF StoreInv
<1>6. ASSUME NEW i \in 0..(n - 1), Lasting(a, y, i)'
      PROVE  Lasting(a, y, i + 1)
  <2> SUFFICES ASSUME NEW j \in 1..n, NEW k \in 1..n, i + 1 < j, j <= k, sets[j].key = a
               PROVE  sets[k].by # y
    BY <1>2 DEF Lasting
  <2>1. j - 1 \in DOMAIN sets' /\ k - 1 \in DOMAIN sets' /\ i < j - 1 /\ j - 1 <= k - 1
    BY <1>2
  <2>2. sets'[j - 1] = sets[j] /\ sets'[k - 1] = sets[k]
    BY <1>2, <2>1
  <2> QED
    BY <1>6, <2>1, <2>2 DEF Lasting
<1>7. ASSUME Lasting(a, y, 0)' PROVE y \in stored'[a] <=> y \in defaults'[a]
  <2>1. Lasting(a, y, 1)
    BY <1>2, <1>6, <1>7
  <2>2. CASE sets[1].key = a
    <3>1. stored'[a] = sets[1].value
      BY <1>1, <1>3, <2>2 DEF DefaultsTypeOK, Arrays
    <3> QED
      BY <1>1, <1>2, <1>5, <2>1, <2>2, <3>1 DEF Agree
  <2>3. CASE sets[1].key # a
    <3>1. Lasting(a, y, 0)
      BY <1>2, <2>1, <2>3 DEF Lasting
    <3>2. stored'[a] = stored[a]
      BY <1>1, <1>3, <2>3 DEF DefaultsTypeOK, Arrays
    <3> QED
      BY <1>1, <1>5, <3>1, <3>2 DEF Agree
  <2> QED
    BY <2>2, <2>3
<1>8. ASSUME NEW i \in DOMAIN sets', sets'[i].key = a, Lasting(a, y, i)'
      PROVE  y \in sets'[i].value <=> y \in defaults'[a]
  <2>1. i + 1 \in DOMAIN sets /\ sets'[i] = sets[i + 1] /\ Lasting(a, y, i + 1)
    BY <1>2, <1>6, <1>8
  <2> QED
    BY <1>1, <1>5, <1>8, <2>1 DEF Agree
<1> QED
  BY <1>7, <1>8 DEF Agree

\* Nothing of a yak is lost by an end if no set by a tap on it waits.
LEMMA NothingLost ==
    ASSUME StoreInv, NEW y \in Yaks, \A i \in DOMAIN sets : sets[i].by # y, NEW a \in Arrows
    PROVE  y \in stored[a] <=> y \in defaults[a]
<1>1. Lasting(a, y, 0)
  BY DEF Lasting
<1> QED
  BY <1>1 DEF StoreInv, Agree

\* What is inductive: the ends of the app need to know what is on its way.
DefaultsIInv == DefaultsTypeOK /\ StoreInv /\ ArraysFollowTaps /\ OneVoteAfterNextTap

LEMMA TapSetsKeeps ==
    ASSUME DefaultsIInv, NEW arrow \in Arrows, NEW y0 \in Yaks, TapSets(arrow, y0)
    PROVE  DefaultsIInv'
<1> USE DEF DefaultsIInv
<1>1. PICK keys \in KeysOf(arrow), arrays \in Arrays :
               /\ SetArrays(arrays, keys, y0)
               /\ \A a \in Arrows, z \in Yaks :
                      z # y0 \/ (keys = <<arrow>> /\ a = Other(arrow)) =>
                          (z \in arrays[a] <=> z \in defaults[a])
               /\ y0 \in arrays[arrow] <=> y0 \notin defaults[arrow]
               /\ y0 \in arrays[Other(arrow)] => y0 \in defaults[arrow] /\ y0 \in defaults[Other(arrow)]
  BY TapArrays DEF TapSets
<1>2. meant' \in [Yaks -> Arrows \cup {"none"}]
  BY DEF TapSets, DefaultsTypeOK
<1>3. DefaultsTypeOK'
  BY <1>1, <1>2, SetArraysTypes DEF DefaultsTypeOK
<1>4. StoreInv'
  BY StoreInvAfterTap DEF TapSets
<1>5. Other(arrow) \in Arrows /\ Other(arrow) # arrow /\ Arrows = {arrow, Other(arrow)}
  BY DEF Arrows, Other
<1>6. \A y \in Yaks : y # y0 => Votes(defaults', y) = Votes(defaults, y) /\ meant'[y] = meant[y]
  BY <1>1 DEF Votes, SetArrays, TapSets, DefaultsTypeOK
<1>7. ArraysFollowTaps'
  <2> SUFFICES ASSUME NEW y \in Yaks, y \notin cut
               PROVE  Votes(defaults', y) = {meant'[y]} \cap Arrows
    BY <1>1 DEF ArraysFollowTaps, SetArrays
  <2>1. Votes(defaults, y) = {meant[y]} \cap Arrows
    BY DEF ArraysFollowTaps
  <2>2. CASE y # y0
    BY <1>6, <2>1, <2>2
  <2>3. CASE y = y0
    <3>1. meant[y] \in Arrows \cup {"none"} /\ "none" \notin Arrows
      BY DEF DefaultsTypeOK, Arrows
    <3>2. meant'[y] = IF meant[y] = arrow THEN "none" ELSE arrow
      BY <2>3 DEF TapSets, DefaultsTypeOK
    <3>3. y \in defaults[arrow] <=> meant[y] = arrow
      BY <2>1 DEF Votes
    <3>4. y \in defaults[Other(arrow)] <=> meant[y] = Other(arrow)
      BY <2>1, <1>5 DEF Votes
    <3>5. defaults' = arrays
      BY <1>1 DEF SetArrays
    <3>6. CASE meant[y] = arrow
      <4>1. y \notin defaults'[arrow] /\ y \notin defaults'[Other(arrow)]
        BY <1>1, <1>5, <2>3, <3>3, <3>4, <3>5, <3>6
      <4> QED
        BY <1>5, <3>1, <3>2, <3>6, <4>1 DEF Votes
    <3>7. CASE meant[y] # arrow
      <4>1. y \in defaults'[arrow] /\ y \notin defaults'[Other(arrow)]
        BY <1>1, <1>5, <2>3, <3>3, <3>4, <3>5, <3>7
      <4> QED
        BY <1>5, <3>1, <3>2, <3>7, <4>1 DEF Votes
    <3> QED
      BY <3>6, <3>7
  <2> QED
    BY <2>2, <2>3
<1>8. OneVoteAfterNextTap'
  <2> SUFFICES ASSUME NEW y \in Yaks, y \notin dangling'
               PROVE  Votes(defaults', y) # Arrows
    BY DEF OneVoteAfterNextTap
  <2>1. CASE y # y0
    BY <1>1, <1>6, <2>1 DEF OneVoteAfterNextTap, SetArrays
  <2>2. CASE y = y0
    <3>1. ~(y \in defaults'[arrow] /\ y \in defaults'[Other(arrow)])
      BY <1>1, <2>2 DEF SetArrays
    <3> QED
      BY <1>5, <3>1 DEF Votes
  <2> QED
    BY <2>1, <2>2
<1> QED
  BY <1>3, <1>4, <1>7, <1>8

LEMMA StoreKeeps ==
    ASSUME DefaultsIInv, Store
    PROVE  DefaultsIInv'
<1> USE DEF DefaultsIInv
<1>1. DefaultsTypeOK'
  <2> DEFINE S == [key : Arrows, value : SUBSET Yaks, by : Yaks]
  <2>1. sets \in Seq(S) /\ sets # <<>>
    BY DEF Store, DefaultsTypeOK
  <2>2. sets' \in Seq(S) /\ Head(sets) \in S
    BY <2>1, HeadTailProperties DEF Store
  <2>3. stored' \in Arrays
    BY <2>2 DEF Store, DefaultsTypeOK, Arrays
  <2> QED
    BY <2>2, <2>3 DEF Store, DefaultsTypeOK
<1>2. StoreInv'
  BY StoreInvAfterStore
<1>3. ArraysFollowTaps'
  BY DEF Store, ArraysFollowTaps
<1>4. OneVoteAfterNextTap'
  BY DEF Store, OneVoteAfterNextTap
<1> QED
  BY <1>1, <1>2, <1>3, <1>4

LEMMA EndKeeps ==
    ASSUME DefaultsIInv, End
    PROVE  DefaultsIInv'
<1> USE DEF DefaultsIInv
<1> DEFINE lost == {sets[i].by : i \in DOMAIN sets}
           S == [key : Arrows, value : SUBSET Yaks, by : Yaks]
<1>1. lost \in SUBSET Yaks
  <2>1. sets \in Seq(S)
    BY DEF DefaultsTypeOK
  <2> HIDE DEF S
  <2>2. \A i \in DOMAIN sets : sets[i] \in S
    BY <2>1, ElementOfSeq, LenProperties
  <2> QED
    BY <2>2 DEF S
<1>2. DefaultsTypeOK'
  <2>1. <<>> \in Seq(S)
    OBVIOUS
  <2> QED
    BY <1>1, <2>1 DEF End, DefaultsTypeOK
<1>3. StoreInv'
  <2>1. DOMAIN sets' = {}
    BY DEF End
  <2> QED
    BY <2>1 DEF End, StoreInv, Agree
<1>4. \A y \in Yaks \ lost : Votes(defaults', y) = Votes(defaults, y)
  BY NothingLost DEF End, Votes
<1>5. ArraysFollowTaps'
  BY <1>4 DEF End, ArraysFollowTaps
<1>6. OneVoteAfterNextTap'
  BY <1>4 DEF End, OneVoteAfterNextTap
<1> QED
  BY <1>2, <1>3, <1>5, <1>6

LEMMA DefaultsStart ==
    ASSUME DefaultsInit
    PROVE  DefaultsIInv
<1>1. DefaultsTypeOK
  <2>1. <<>> \in Seq([key : Arrows, value : SUBSET Yaks, by : Yaks])
    OBVIOUS
  <2> QED
    BY <2>1 DEF DefaultsInit, DefaultsTypeOK, Arrays
<1>2. StoreInv
  <2>1. DOMAIN sets = {}
    BY DEF DefaultsInit
  <2> QED
    BY <2>1 DEF DefaultsInit, StoreInv, Agree
<1>3. ArraysFollowTaps
  BY DEF DefaultsInit, ArraysFollowTaps, Votes, Arrows
<1>4. OneVoteAfterNextTap
  BY DEF DefaultsInit, OneVoteAfterNextTap, Votes, Arrows
<1> QED
  BY <1>1, <1>2, <1>3, <1>4 DEF DefaultsIInv

LEMMA DefaultsStep ==
    ASSUME DefaultsIInv, [DefaultsNext]_defaultsVars
    PROVE  DefaultsIInv'
<1>1. CASE UNCHANGED defaultsVars
  BY <1>1 DEF defaultsVars, DefaultsIInv, DefaultsTypeOK, StoreInv, Agree, Lasting,
              ArraysFollowTaps, OneVoteAfterNextTap
<1> QED
  BY <1>1, TapSetsKeeps, StoreKeeps, EndKeeps DEF DefaultsNext

LEMMA DefaultsAlways == DefaultsSpec => []DefaultsIInv
<1> QED
  BY DefaultsStart, DefaultsStep, PTL DEF DefaultsSpec

\* Wherever between its sets the app ends, a yak can stand in both arrays only until
\* it is tapped again, and what is stored is what is on the screen once no set
\* waits.
THEOREM WhatAnEndLeaves == DefaultsSpec => []DefaultsInv
<1>1. DefaultsIInv => DefaultsInv
  <2> SUFFICES ASSUME DefaultsIInv
               PROVE  StoredIsShown
    BY DEF DefaultsIInv, DefaultsInv
  <2> SUFFICES ASSUME sets = <<>>
               PROVE  stored = defaults
    BY DEF StoredIsShown
  <2>1. DOMAIN sets = {}
    OBVIOUS
  <2>2. \A a \in Arrows, y \in Yaks : y \in stored[a] <=> y \in defaults[a]
    BY <2>1, NothingLost DEF DefaultsIInv
  <2>3. \A a \in Arrows : stored[a] \subseteq Yaks /\ defaults[a] \subseteq Yaks
    BY DEF DefaultsIInv, DefaultsTypeOK, Arrays
  <2>4. \A a \in Arrows : stored[a] = defaults[a]
    BY <2>2, <2>3
  <2> QED
    BY <2>4 DEF DefaultsIInv, DefaultsTypeOK, Arrays
<1> QED
  BY <1>1, DefaultsAlways, PTL

\* The arrays say of a yak what the taps on it add up to, however many ends cut
\* short the taps on others, unless one cut short a tap on this very yak.
THEOREM TapsSurviveOtherTaps == DefaultsSpec => []ArraysFollowTaps
<1>1. DefaultsIInv => ArraysFollowTaps
  BY DEF DefaultsIInv
<1> QED
  BY <1>1, DefaultsAlways, PTL

=============================================================================
