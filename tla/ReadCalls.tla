------------------------------ MODULE ReadCalls ------------------------------
(***************************************************************************)
(* What getDocuments promises one phone, without listeners, streams or      *)
(* timers: calls of the one query the app uses are answered oldest first,   *)
(* several at a time if need be, and the completion of each runs once, in   *)
(* the order of the calls.  FirestoreClient takes its queues asked and      *)
(* answered to be such.                                                    *)
(***************************************************************************)
EXTENDS Naturals

CONSTANT MaxCalls

VARIABLES
    made,       \* calls made
    answered,   \* calls answered: the oldest ones
    completed   \* completed[c]: how often the completion of c ran

readCallsVars == <<made, answered, completed>>

ReadCallsInit ==
    /\ made = 0 /\ answered = 0
    /\ completed = [c \in 1..MaxCalls |-> 0]

Call ==
    /\ made < MaxCalls
    /\ made' = made + 1
    /\ UNCHANGED <<answered, completed>>

Answer ==
    /\ answered' \in (answered + 1)..made
    /\ UNCHANGED <<made, completed>>

\* The oldest call not called back is, if it was answered.
CallBack(c) ==
    /\ c <= answered
    /\ completed[c] = 0 /\ \A b \in 1..(c - 1) : completed[b] = 1
    /\ completed' = [completed EXCEPT ![c] = 1]
    /\ UNCHANGED <<made, answered>>

ReadCallsNext == Call \/ Answer \/ \E c \in 1..MaxCalls : CallBack(c)

ReadCallsSpec == ReadCallsInit /\ [][ReadCallsNext]_readCallsVars

=============================================================================
