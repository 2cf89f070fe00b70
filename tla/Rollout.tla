------------------------------- MODULE Rollout -------------------------------
(***************************************************************************)
(* What an update promises the clients of the service, without slots,      *)
(* units, proxies or scripts (README.md, "keeps planned dataset updates    *)
(* available"): releases are brought up beside the one that answers,       *)
(* traffic moves from one running release to another, forwards unless an   *)
(* update has failed, and only what does not answer is taken down.         *)
(* BlueGreenUpdate implements this specification.                          *)
(***************************************************************************)
EXTENDS Naturals

VARIABLES
  promise,   \* how much of this the deployment can expect, for good
  newest,    \* the newest release published
  running,   \* the releases that could answer
  answering, \* the one that does, 0 for none
  failed     \* the update under way has failed

vars == <<promise, newest, running, answering, failed>>

\* "seamless" where nothing kills an update, "available" where it may be
\* killed and the next one cleans up, "none" where hosts reboot, processes die
\* or the service is stopped to replace its dataset.
Promises == {"seamless", "available", "none"}

Init ==
  /\ promise \in Promises
  /\ newest = 1
  /\ running = {1}
  /\ answering \in {0, 1}
  /\ promise # "none" => answering = 1
  /\ failed = FALSE

Publish ==
  /\ newest' = newest + 1
  /\ UNCHANGED <<promise, running, answering, failed>>

BringUp(r) ==
  /\ r \in 1 .. newest
  /\ running' = running \cup {r}
  /\ UNCHANGED <<promise, newest, answering, failed>>

TakeDown ==
  /\ \E r \in running \ {answering} : running' = running \ {r}
  /\ UNCHANGED <<promise, newest, answering, failed>>

MoveForward(r) ==
  /\ r \in running /\ r > answering
  /\ answering' = r
  /\ UNCHANGED <<promise, newest, running, failed>>

\* The update found out too late: the old release answers again.
MoveBack(r) ==
  /\ failed
  /\ r \in running /\ r < answering
  /\ answering' = r
  /\ UNCHANGED <<promise, newest, running, failed>>

Fail ==
  /\ failed' = ~ failed
  /\ UNCHANGED <<promise, newest, running, answering>>

\* What the update after a killed one may do to clients: another release
\* answers, possibly an older one or one that has not been checked, but one
\* always does.
CleanUp ==
  /\ promise = "available"
  /\ running' \in SUBSET (1 .. newest)
  /\ answering' \in running'
  /\ failed' \in BOOLEAN
  /\ UNCHANGED <<promise, newest>>

\* Nothing is promised but that what answers runs and was published.
Outage ==
  /\ promise = "none"
  /\ running' \in SUBSET (1 .. newest)
  /\ answering' \in running' \cup {0}
  /\ failed' \in BOOLEAN
  /\ UNCHANGED <<promise, newest>>

Next ==
  \/ Publish
  \/ \E r \in 1 .. newest : BringUp(r) \/ MoveForward(r) \/ MoveBack(r)
  \/ TakeDown \/ Fail \/ CleanUp \/ Outage

Spec == Init /\ [][Next]_vars
==============================================================================
