------------------------------- MODULE Stream -------------------------------
(***************************************************************************)
(* A stream of the Firestore SDK: the state every stream keeps (Stream and  *)
(* its ExponentialBackoff) and the operations its users call.  The module    *)
(* has no variables: WriteStream and WatchStream keep one stream each and    *)
(* change it with these operators.                                           *)
(*                                                                           *)
(* Delays are counted in levels: level 0 is no delay, level 1 the initial    *)
(* delay, each following level the delay times the backoff factor, and       *)
(* MaxLevel the longest delay.  The jitter, and the time already gone since   *)
(* the last attempt, are left out.                                            *)
(***************************************************************************)
EXTENDS Integers

CONSTANT MaxLevel   \* the level of the longest delay

ASSUME LevelAssumption == MaxLevel \in Nat \ {0}

Levels == 0..MaxLevel

Streams == [state : {"initial", "starting", "open", "error", "backoff"},
            idle  : BOOLEAN,   \* the idleness timer is set
            base  : Levels,    \* current_base_: what the next backoff waits
            delay : Levels]    \* what the last backoff was told to wait

NewStream == [state |-> "initial", idle |-> FALSE, base |-> 0, delay |-> 0]

IsOpen(s) == s.state = "open"

IsStarted(s) == s.state \in {"starting", "backoff", "open"}

\* The factor is applied after the delay is chosen, within the bounds.
NextBase(level) == IF level < MaxLevel THEN level + 1 ELSE MaxLevel

BackoffAndTryRestarting(s) ==
    [s EXCEPT !.state = "backoff", !.delay = s.base, !.base = NextBase(s.base)]

\* A stream that failed backs off first; one that never ran, or was stopped,
\* asks for a token at once.
Start(s) ==
    IF s.state = "error"
    THEN BackoffAndTryRestarting(s)
    ELSE [s EXCEPT !.state = "starting"]

\* The delay is over: the stream starts from its initial state.
Restart(s) == Start([s EXCEPT !.state = "initial"])

\* The token is there, the call is made, and the stream counts as open.
OnStreamStart(s) == [s EXCEPT !.state = "open"]

MarkIdle(s) == IF IsOpen(s) THEN [s EXCEPT !.idle = TRUE] ELSE s

\* Mutant of CancelIdleCheck: the timer goes on.
LeaveIdleCheck(s) == s

CancelIdleCheck(s) == [s EXCEPT !.idle = FALSE]

\* A message shows that the stream is healthy.
ResetBackoff(s) == [s EXCEPT !.base = 0]

\* The reasons a stream closes for: "ok" is Stop or the idleness timer.
Failures == {"unavailable", "exhausted"}

Close(s, status) ==
    [s EXCEPT !.state = IF status = "ok" THEN "initial" ELSE "error",
              !.idle  = FALSE,
              !.base  = CASE status = "ok"        -> 0
                          [] status = "exhausted" -> MaxLevel
                          [] OTHER                -> @]

\* A failure that was not the connection's: the next start does not wait.
InhibitBackoff(s) == ResetBackoff([s EXCEPT !.state = "initial"])

=============================================================================
