------------------------- MODULE StagedWarmupProofs -------------------------
(* Safety of the staging of sync-bbolt.sh and of the processes it signals    *)
(* and starts, for any number of runs and faults, any operator settings and  *)
(* any combination of faults that may occur together.                        *)
EXTENDS StagedWarmup, TLAPS

TypedProc(p) == /\ p \in ProcessType
                /\ p.open => p.life \in {"notify", "up"}

\* A warmup does the work of the cache plan.
WarmerOK(p) == /\ p.warmer = "copying" => strategy = "balanced"
               /\ p.warmer = "reading" => strategy = "full"

Loaded(p) == /\ strategy = "balanced" => p.selectors
             /\ strategy = "full" => p.dataset

\* A process that starts with the settings the script has written: its warmer
\* runs in main and nowhere else, and nobody signals it.
StagedProc(p) ==
  /\ ~ p.defer /\ p.block
  /\ p.queue = << >> /\ p.loop = "wait"
  /\ p.life \in {"exec", "warming", "announce", "notify", "up"}
  /\ p.life = "warming" <=> p.warmer # "idle"
  /\ p.warmer = "finishing" => Loaded(p)
  /\ p.life \in {"announce", "notify", "up"} => Loaded(p)

\* Settled, whatever its warmup does in the meantime.
QuietProc(p) ==
  /\ p.life = "up" /\ p.open
  /\ p.queue = << >> /\ p.loop = "wait"
  /\ p.warmer # "begun"

\* A process on its way from SIGUSR2 to having released its caches: a warmup
\* that was under way may finish, none begins.
ReleasedProc(p) ==
  /\ p.life = "up" /\ p.control
  /\ p.warmer # "begun"
  /\ \/ p.queue = <<"USR2">> /\ p.loop = "wait"
     \/ p.queue = << >> /\ p.loop = "drop"
     \/ /\ p.queue = << >> /\ p.loop = "clear"
        /\ ~ p.selectors /\ p.warmer # "copying"
     \/ /\ p.queue = << >> /\ p.loop = "wait"
        /\ ~ p.selectors /\ ~ p.caching /\ p.warmer # "copying"

-----------------------------------------------------------------------------
(* The inductive invariant *)

WarmersInv == \A s \in Slots : WarmerOK(proc[s])

\* What SetDefer and SetBlock have written when the target is to start.
WrittenInv ==
  /\ step \in {"setBlock", "start"} => ~ env[Target].defer
  /\ step = "start" => env[Target].block

AcceptedInv ==
  Without({"die", "warm"}) =>
    \A s \in Slots : /\ proc[s].life # "failing"
                     /\ proc[s].life = "exec" => ~ (proc[s].defer /\ proc[s].block)

StagedInv ==
  Without({"die", "warm"}) =>
    /\ step \in {"resetDefer", "resetBlock", "health", "switch"} => StagedProc(proc[Target])
    /\ step = "switch" => proc[Target].open
    /\ step = "drain" => StagedProc(proc[active]) /\ proc[active].open

\* Where the two settings of the operator are: in the env file, or saved.
DeferHome(s) == env[s].defer = operator[s].defer
BlockHome(s) == env[s].block = operator[s].block
Saved(s) == /\ before.defer = operator[s].defer
            /\ before.block = operator[s].block

SettingsInv ==
  Without({"kill"}) =>
    /\ DeferHome(active) /\ BlockHome(active)
    /\ step \in {"setDefer", "setBlock", "start", "resetDefer", "resetBlock",
                 "undoDefer", "undoBlock"} => Saved(Target)
    /\ step \notin {"setBlock", "start", "resetDefer", "undoDefer"} => DeferHome(Target)
    /\ step \notin {"start", "resetDefer", "resetBlock", "undoDefer", "undoBlock"}
         => BlockHome(Target)

ReleaseInv ==
  Without({"die"}) =>
    /\ step = "release" => QuietProc(proc[active]) /\ ~ released
    /\ released /\ step \notin {"idle", "drain"} => ReleasedProc(proc[active])

WInv == /\ TypeOK
        /\ WarmersInv
        /\ WrittenInv
        /\ AcceptedInv
        /\ StagedInv
        /\ SettingsInv
        /\ ReleaseInv

-----------------------------------------------------------------------------
(* The two slots *)

\* There is one other slot.
LEMMA TheOtherSlot ==
  ASSUME active \in Slots
  PROVE  Target \in Slots /\ Target # active /\ Slots = {active, Target}
<1>1. \E s \in Slots : s # active
  BY StagingAssumption
<1>2. Target \in Slots /\ Target # active
  BY <1>1 DEF Target
<1>3. QED
  BY <1>2, StagingAssumption

\* The target changes with the active slot only, and then they change places.
LEMMA TargetFollows ==
  /\ active' = active => Target' = Target
  /\ active \in Slots /\ active' = Target => Target' = active
<1>1. active' = active => Target' = Target
  BY DEF Target
<1>2. ASSUME active \in Slots, active' = Target PROVE Target' = active
  <2>1. active' \in Slots /\ active # active' /\ Slots = {active, active'}
    BY <1>2, TheOtherSlot
  <2>2. \E s \in Slots : s # active'
    BY <2>1, <1>2
  <2>3. Target' \in Slots /\ Target' # active'
    BY <2>2 DEF Target
  <2>4. QED
    BY <2>1, <2>3
<1>3. QED
  BY <1>1, <1>2

-----------------------------------------------------------------------------
(* What the steps of a process do to it *)

\* The type of a process, with the type of its queue left folded.
Queues == UNION {[1 .. n -> {"USR1", "USR2"}] : n \in 0 .. QueueSize}

ProcessShape ==
  [life : {"down", "failing", "exec", "warming", "announce", "notify", "up"},
   open : BOOLEAN, defer : BOOLEAN, block : BOOLEAN, control : BOOLEAN,
   selectors : BOOLEAN, dataset : BOOLEAN, caching : BOOLEAN,
   warmer : {"idle", "begun", "copying", "reading", "finishing"},
   queue : Queues,
   loop : {"wait", "start", "drop", "clear"}]

\* Folding the type of the queue changes nothing.
LEMMA ProcessShapeIsType == ProcessType = ProcessShape
BY DEF ProcessType, ProcessShape, Queues

\* A queue is a short sequence of signals.
LEMMA QueueType ==
  \A q : q \in Queues <=> q \in Seq({"USR1", "USR2"}) /\ Len(q) <= QueueSize
<1> USE ProcessAssumption DEF Queues
<1>1. ASSUME NEW q, q \in Queues
      PROVE  q \in Seq({"USR1", "USR2"}) /\ Len(q) <= QueueSize
  <2>1. PICK n \in 0 .. QueueSize : q \in [1 .. n -> {"USR1", "USR2"}]
    BY <1>1
  <2>2. q \in Seq({"USR1", "USR2"}) /\ Len(q) = n
    BY <2>1, SMTT(30), ZenonT(30)
  <2>3. QED
    BY <2>2
<1>2. ASSUME NEW q, q \in Seq({"USR1", "USR2"}), Len(q) <= QueueSize
      PROVE  q \in Queues
  <2>1. Len(q) \in 0 .. QueueSize /\ q \in [1 .. Len(q) -> {"USR1", "USR2"}]
    BY <1>2
  <2>2. QED
    BY <2>1
<1>3. QED
  BY <1>1, <1>2

\* A process that has just been started or stopped.
LEMMA FreshTyped ==
  /\ TypedProc(Fresh("down")) /\ TypedProc(Fresh("failing"))
  /\ WarmerOK(Fresh("down")) /\ WarmerOK(Fresh("failing"))
  /\ \A s \in Slots : env[s] \in Settings =>
       TypedProc(Launched(s)) /\ WarmerOK(Launched(s))
<1>1. << >> \in Seq({"USR1", "USR2"}) /\ Len(<< >>) <= QueueSize
  BY ProcessAssumption
<1>2. QED
  BY <1>1, QueueType, ProcessShapeIsType
     DEF TypedProc, WarmerOK, Fresh, Launched, Settings, ProcessShape

\* A step of a process: it keeps its type, and is refused, staged, quiet or
\* releasing as before.
Moves(s, p, q) ==
  /\ proc' = [proc EXCEPT ![s] = q]
  /\ UNCHANGED <<env, strategy>>
  /\ TypedProc(q)
  /\ WarmerOK(q)
  /\ p.life # "failing" /\ (p.life = "exec" => ~ (p.defer /\ p.block))
       => q.life \notin {"failing", "exec"} \/ (q.life = "exec" /\ ~ (q.defer /\ q.block))
  /\ StagedProc(p) => StagedProc(q) /\ (p.open => q.open)
  /\ QuietProc(p) => QuietProc(q)
  /\ ReleasedProc(p) => ReleasedProc(q)

\* cmd/bgp-api/main.go: what main does to its process.
LEMMA MainMoves ==
  ASSUME NEW s \in Slots, TypedProc(proc[s]), WarmerOK(proc[s]), Main(s)
  PROVE  \E q : Moves(s, proc[s], q)
<1> DEFINE p == proc[s]
<1> USE ProcessShapeIsType DEF TypedProc, WarmerOK, ProcessShape, Becomes
<1>1. CASE Exec(s)
  <2>1. CASE p.defer /\ p.block
    <3>1. Moves(s, p, Fresh("failing"))
      BY <1>1, <2>1, FreshTyped
         DEF Exec, Moves, StagedProc, QuietProc, ReleasedProc, Fresh
    <3>2. QED
      BY <3>1
  <2>2. CASE ~ (p.defer /\ p.block)
    <3> DEFINE q == [p EXCEPT !.life = IF p.block THEN "warming" ELSE "announce",
                              !.warmer = IF p.block THEN "begun" ELSE "idle"]
    <3>1. Moves(s, p, q)
      BY <1>1, <2>2, ZenonT(30) DEF Exec, Moves, StagedProc, QuietProc, ReleasedProc, Loaded
    <3>2. QED
      BY <3>1
  <2>3. QED
    BY <2>1, <2>2
<1>2. CASE Announce(s)
  <2> DEFINE q == [p EXCEPT !.life = "notify",
                     !.warmer = IF p.defer \/ p.block THEN @ ELSE "begun"]
  <2>1. Moves(s, p, q)
    BY <1>2, ZenonT(30) DEF Announce, Moves, StagedProc, QuietProc, ReleasedProc, Loaded
  <2>2. QED
    BY <2>1
<1>3. CASE Open(s)
  <2>1. Moves(s, p, [p EXCEPT !.open = TRUE])
    BY <1>3, ZenonT(30) DEF Open, Moves, StagedProc, QuietProc, ReleasedProc, Loaded
  <2>2. QED
    BY <2>1
<1>4. CASE Notify(s)
  <2>1. Moves(s, p, [p EXCEPT !.life = "up"])
    BY <1>4, ZenonT(30) DEF Notify, Moves, StagedProc, QuietProc, ReleasedProc, Loaded
  <2>2. QED
    BY <2>1
<1>5. QED
  BY <1>1, <1>2, <1>3, <1>4 DEF Main

\* What a warmup does.
LEMMA WarmerMoves ==
  ASSUME NEW s \in Slots, TypedProc(proc[s]), WarmerOK(proc[s]), Warmer(s)
  PROVE  \E q : Moves(s, proc[s], q)
<1> DEFINE p == proc[s]
<1> USE ProcessShapeIsType DEF TypedProc, WarmerOK, ProcessShape, Becomes
<1>1. CASE WarmStart(s)
  <2> DEFINE q == [p EXCEPT !.warmer =
                     IF strategy = "balanced" /\ ~ p.selectors THEN "copying"
                     ELSE IF strategy = "full" /\ ~ p.dataset THEN "reading"
                     ELSE "finishing"]
  <2>1. Moves(s, p, q)
    BY <1>1, ZenonT(30) DEF WarmStart, Moves, StagedProc, QuietProc, ReleasedProc, Loaded
  <2>2. QED
    BY <2>1
<1>2. CASE WarmWork(s)
  <2>1. CASE p.warmer = "copying"
    <3>1. Moves(s, p, [p EXCEPT !.selectors = TRUE, !.warmer = "finishing"])
      BY <1>2, <2>1, ZenonT(30)
         DEF WarmWork, Moves, StagedProc, QuietProc, ReleasedProc, Loaded
    <3>2. QED
      BY <3>1
  <2>2. CASE p.warmer = "reading"
    <3>1. Moves(s, p, [p EXCEPT !.dataset = TRUE, !.warmer = "finishing"])
      BY <1>2, <2>2, ZenonT(30)
         DEF WarmWork, Moves, StagedProc, QuietProc, ReleasedProc, Loaded
    <3>2. QED
      BY <3>1
  <2>3. QED
    BY <1>2, <2>1, <2>2 DEF WarmWork
<1>3. CASE WarmFinish(s)
  <2> DEFINE q == [p EXCEPT !.warmer = "idle",
                            !.life = IF @ = "warming" THEN "announce" ELSE @]
  <2>1. Moves(s, p, q)
    BY <1>3, ZenonT(30) DEF WarmFinish, Moves, StagedProc, QuietProc, ReleasedProc, Loaded
  <2>2. QED
    BY <2>1
<1>4. QED
  BY <1>1, <1>2, <1>3 DEF Warmer

\* Taking a signal shortens the queue.
LEMMA TailTyped ==
  ASSUME NEW p, TypedProc(p), p.queue # << >>
  PROVE  /\ TypedProc([p EXCEPT !.queue = Tail(@)])
         /\ Head(p.queue) \in {"USR1", "USR2"}
         /\ p.queue = <<"USR2">> => Head(p.queue) = "USR2" /\ Tail(p.queue) = << >>
<1>1. p.queue \in Seq({"USR1", "USR2"}) /\ Len(p.queue) <= QueueSize
  BY QueueType, ProcessShapeIsType DEF TypedProc, ProcessShape
<1>2. /\ Tail(p.queue) \in Seq({"USR1", "USR2"}) /\ Len(Tail(p.queue)) <= QueueSize
      /\ Head(p.queue) \in {"USR1", "USR2"}
  BY <1>1, ProcessAssumption
<1>3. p.queue = <<"USR2">> => Head(p.queue) = "USR2" /\ Tail(p.queue) = << >>
  OBVIOUS
<1>4. Tail(p.queue) \in Queues
  BY <1>2, QueueType
<1>5. QED
  BY <1>2, <1>3, <1>4, ProcessShapeIsType DEF TypedProc, ProcessShape

\* What the signal loop does.
LEMMA SignalLoopMoves ==
  ASSUME NEW s \in Slots, TypedProc(proc[s]), WarmerOK(proc[s]), SignalLoop(s)
  PROVE  \E q : Moves(s, proc[s], q)
<1> DEFINE p == proc[s]
<1> USE ProcessShapeIsType DEF TypedProc, WarmerOK, ProcessShape, Becomes
<1>1. CASE Take(s)
  <2> DEFINE r == [p EXCEPT !.queue = Tail(@)]
             q == IF Head(p.queue) = "USR1" THEN [r EXCEPT !.caching = TRUE, !.loop = "start"]
                  ELSE IF p.control THEN [r EXCEPT !.loop = "drop"] ELSE r
  <2>1. p.queue # << >> /\ p.loop = "wait" /\ Becomes(s, q)
    BY <1>1 DEF Take
  <2>2. /\ TypedProc(r)
        /\ p.queue = <<"USR2">> => Head(p.queue) = "USR2" /\ Tail(p.queue) = << >>
    BY <2>1, TailTyped
  <2>3. TypedProc(q) /\ WarmerOK(q)
    <3>1. r.warmer = p.warmer /\ r \in ProcessShape
      BY <2>2
    <3>2. r.open => r.life \in {"notify", "up"}
      BY <2>2
    <3> HIDE DEF r
    <3>3. TypedProc([r EXCEPT !.caching = TRUE, !.loop = "start"])
      BY <3>1, <3>2
    <3>4. TypedProc([r EXCEPT !.loop = "drop"])
      BY <3>1, <3>2
    <3>5. TypedProc(q)
      BY <2>2, <3>3, <3>4
    <3>6. q.warmer = r.warmer
      BY <3>1
    <3>7. QED
      BY <3>1, <3>5, <3>6
  <2>4. q.life = p.life /\ q.defer = p.defer /\ q.block = p.block
    OBVIOUS
  <2>5. ~ StagedProc(p) /\ ~ QuietProc(p)
    BY <2>1 DEF StagedProc, QuietProc
  <2>6. ReleasedProc(p) => ReleasedProc(q)
    <3> SUFFICES ASSUME ReleasedProc(p) PROVE ReleasedProc(q)
      OBVIOUS
    <3>1. p.queue = <<"USR2">>
      BY <2>1 DEF ReleasedProc
    <3>2. Head(p.queue) = "USR2" /\ Tail(p.queue) = << >>
      BY <3>1
    <3>3. q = [r EXCEPT !.loop = "drop"] /\ r.queue = << >>
      BY <3>2 DEF ReleasedProc
    <3>4. QED
      BY <3>3 DEF ReleasedProc
  <2>7. Moves(s, p, q)
    BY <2>1, <2>3, <2>4, <2>5, <2>6 DEF Moves
  <2>8. QED
    BY <2>7
<1>2. CASE RestartWarmer(s)
  <2> DEFINE q == [p EXCEPT !.loop = "wait",
                            !.warmer = IF @ = "idle" THEN "begun" ELSE @]
  <2>1. Moves(s, p, q)
    BY <1>2, ZenonT(30) DEF RestartWarmer, Moves, StagedProc, QuietProc, ReleasedProc
  <2>2. QED
    BY <2>1
<1>3. CASE DropSelectors(s)
  <2>1. Moves(s, p, [p EXCEPT !.selectors = FALSE, !.loop = "clear"])
    BY <1>3, ZenonT(30) DEF DropSelectors, Moves, StagedProc, QuietProc, ReleasedProc
  <2>2. QED
    BY <2>1
<1>4. CASE DisableCaches(s)
  <2>1. Moves(s, p, [p EXCEPT !.caching = FALSE, !.loop = "wait"])
    BY <1>4, ZenonT(30) DEF DisableCaches, Moves, StagedProc, QuietProc, ReleasedProc
  <2>2. QED
    BY <2>1
<1>5. QED
  BY <1>1, <1>2, <1>3, <1>4 DEF SignalLoop

\* A process that is signalled keeps its type; a quiet one that handles the
\* signal is on its way to release its caches.
LEMMA SignalledMoves ==
  ASSUME NEW s \in Slots, TypedProc(proc[s]), WarmerOK(proc[s]),
         NEW sig \in {"USR1", "USR2"}
  PROVE  /\ TypedProc(Signalled(s, sig)) /\ WarmerOK(Signalled(s, sig))
         /\ Signalled(s, sig).life = proc[s].life
         /\ Signalled(s, sig).defer = proc[s].defer
         /\ Signalled(s, sig).block = proc[s].block
         /\ QuietProc(proc[s]) /\ proc[s].control /\ sig = "USR2"
              => ReleasedProc(Signalled(s, sig))
<1> DEFINE p == proc[s]
<1>1. p.queue \in Seq({"USR1", "USR2"}) /\ Len(p.queue) <= QueueSize
  BY QueueType, ProcessShapeIsType DEF TypedProc, ProcessShape
<1>2. CASE p.life = "up" /\ Len(p.queue) < QueueSize
  <2>1. Signalled(s, sig) = [p EXCEPT !.queue = Append(@, sig)]
    BY <1>2 DEF Signalled
  <2>2. /\ Append(p.queue, sig) \in Seq({"USR1", "USR2"})
        /\ Len(Append(p.queue, sig)) <= QueueSize
    BY <1>1, <1>2, ProcessAssumption
  <2>3. Append(p.queue, sig) \in Queues
    BY <2>2, QueueType
  <2>4. p.queue = << >> /\ sig = "USR2" => Append(p.queue, sig) = <<"USR2">>
    OBVIOUS
  <2>5. QED
    BY <2>1, <2>3, <2>4, ProcessShapeIsType
       DEF TypedProc, WarmerOK, ProcessShape, QuietProc, ReleasedProc
<1>3. CASE ~ (p.life = "up" /\ Len(p.queue) < QueueSize)
  <2>1. Signalled(s, sig) = p
    BY <1>3 DEF Signalled
  <2>2. ~ QuietProc(p)
    BY <1>3, ProcessAssumption DEF QuietProc
  <2>3. QED
    BY <2>1, <2>2
<1>4. QED
  BY <1>2, <1>3

\* Any step of the system changes one process at most, to one of its type.
LEMMA ProcStep ==
  ASSUME TypeOK, WarmersInv, [Next]_vars
  PROVE  /\ strategy' = strategy
         /\ \/ proc' = proc
            \/ \E s \in Slots : \E q : /\ proc' = [proc EXCEPT ![s] = q]
                                       /\ TypedProc(q) /\ WarmerOK(q)
<1> DEFINE OneMoves == \/ proc' = proc
                       \/ \E s \in Slots : \E q : /\ proc' = [proc EXCEPT ![s] = q]
                                                  /\ TypedProc(q) /\ WarmerOK(q)
<1>typ. /\ \A s \in Slots : TypedProc(proc[s]) /\ WarmerOK(proc[s])
        /\ \A s \in Slots : env[s] \in Settings
        /\ active \in Slots /\ Target \in Slots
  BY TheOtherSlot DEF TypeOK, WarmersInv, TypedProc
<1>1. CASE Begin
  BY <1>1, <1>typ, FreshTyped DEF Begin
<1>2. CASE Release
  BY <1>2, <1>typ, SignalledMoves DEF Release
<1>3. CASE Start
  BY <1>3, <1>typ, FreshTyped DEF Start
<1>4. ASSUME NEW a, NEW b, StopTarget(a, b) PROVE strategy' = strategy /\ OneMoves
  BY <1>4, <1>typ, FreshTyped DEF StopTarget
<1>5. CASE GiveBack
  <2>1. strategy' = strategy
    BY <1>5 DEF GiveBack
  <2>2. proc' = [proc EXCEPT ![active] = Signalled(active, "USR1")] \/ proc' = proc
    BY <1>5 DEF GiveBack
  <2>3. QED
    BY <2>1, <2>2, <1>typ, SignalledMoves
<1>6. ASSUME \/ Save
             \/ \E a, v, b : SetDefer(a, v, b) \/ SetBlock(a, v, b)
             \/ HealthCheck \/ Switch \/ Kill \/ UNCHANGED vars
      PROVE  strategy' = strategy /\ proc' = proc
  BY <1>6 DEF Save, SetDefer, SetBlock, HealthCheck, Switch, Kill, vars, procVars
<1>7. ASSUME NEW s \in Slots, Process(s) PROVE strategy' = strategy /\ OneMoves
  <2>1. \E q : Moves(s, proc[s], q)
    BY <1>7, <1>typ, MainMoves, WarmerMoves, SignalLoopMoves DEF Process
  <2>2. QED
    BY <2>1 DEF Moves
<1>8. ASSUME NEW s \in Slots, WarmFails(s) PROVE strategy' = strategy /\ OneMoves
  <2> DEFINE q == [proc[s] EXCEPT !.warmer = "finishing"]
  <2>1. TypedProc(q) /\ WarmerOK(q)
    BY <1>typ, ProcessShapeIsType DEF TypedProc, WarmerOK, ProcessShape
  <2>2. QED
    BY <1>8, <2>1, FreshTyped DEF WarmFails, WarmError, Becomes
<1>9. ASSUME NEW s \in Slots, Die(s) \/ Retry(s) PROVE strategy' = strategy /\ OneMoves
  BY <1>9, <1>typ, FreshTyped DEF Die, Retry, Becomes
<1>10. QED
  BY <1>1, <1>2, <1>3, <1>4, <1>5, <1>6, <1>7, <1>8, <1>9 DEF Next, Script

\* Types are kept, in the processes, the env files and the script.
LEMMA TypeStep ==
  ASSUME TypeOK, WarmersInv, [Next]_vars PROVE TypeOK' /\ WarmersInv'
<1>typ. active \in Slots /\ Target \in Slots
  BY TheOtherSlot DEF TypeOK
<1>1. strategy' = strategy
  BY ProcStep
<1>2. /\ proc' \in [Slots -> ProcessType]
      /\ \A s \in Slots : TypedProc(proc'[s]) /\ WarmerOK(proc'[s])
  <2>1. /\ proc \in [Slots -> ProcessType]
        /\ \A s \in Slots : TypedProc(proc[s]) /\ WarmerOK(proc[s])
    BY DEF TypeOK, TypedProc, WarmersInv
  <2>2. ASSUME NEW s \in Slots, NEW q, proc' = [proc EXCEPT ![s] = q],
               TypedProc(q), WarmerOK(q)
        PROVE  /\ proc' \in [Slots -> ProcessType]
               /\ \A u \in Slots : TypedProc(proc'[u]) /\ WarmerOK(proc'[u])
    <3>1. q \in ProcessType
      BY <2>2 DEF TypedProc
    <3>2. QED
      BY <2>1, <2>2, <3>1
  <2>3. QED
    BY <2>1, <2>2, ProcStep
<1>3. WarmersInv'
  BY <1>1, <1>2 DEF WarmersInv, WarmerOK
<1>4. /\ \A s \in Slots : proc'[s].open => proc'[s].life \in {"notify", "up"}
  BY <1>2, SMTT(30), ZenonT(30) DEF TypedProc
<1>5. env' \in [Slots -> Settings]
  <2>1. env \in [Slots -> Settings] /\ before \in [defer : BOOLEAN, block : BOOLEAN]
    BY DEF TypeOK
  <2>2. CASE env' = env
    BY <2>1, <2>2
  <2>3. CASE Save
    BY <2>1, <2>3, <1>typ DEF Save, Settings
  <2>4. ASSUME NEW here, NEW value \in BOOLEAN, NEW next,
               SetDefer(here, value, next) \/ SetBlock(here, value, next)
        PROVE  env' \in [Slots -> Settings]
    BY <2>1, <2>4, <1>typ DEF SetDefer, SetBlock, Settings
  <2>5. QED
    BY <2>1, <2>2, <2>3, <2>4 DEF Next, Script, Begin, Release, Start, HealthCheck,
       Switch, StopTarget, GiveBack, Kill, Process, WarmFails, WarmError, Die, Retry,
       Becomes, Main, Warmer, SignalLoop, Exec, Announce, Open, Notify, WarmStart,
       WarmWork, WarmFinish, Take, RestartWarmer, DropSelectors, DisableCaches,
       vars, procVars
<1>6. /\ step' \in Steps /\ active' \in Slots /\ released' \in BOOLEAN
      /\ runs' \in 0 .. MaxRuns
  <2>ok. step \in Steps /\ released \in BOOLEAN /\ runs \in 0 .. MaxRuns
    BY DEF TypeOK
  <2> USE DEF Steps, scriptVars
  <2>1. CASE Begin
    <3>1. runs < MaxRuns /\ runs' = runs + 1 /\ MaxRuns \in Nat
      BY <2>1, StagingAssumption DEF Begin
    <3>2. runs' \in 0 .. MaxRuns
      BY <3>1, <2>ok
    <3>3. QED
      BY <2>1, <3>2, <1>typ DEF Begin, Goto
  <2>2. CASE Script
    <3>1. UNCHANGED runs /\ step' \in Steps
      BY <2>2 DEF Script, Goto, Release, Save, SetDefer, SetBlock, Start,
         HealthCheck, Switch, StopTarget, GiveBack
    <3>2. active' \in {active, Target} /\ released' \in {released, TRUE, FALSE}
      BY <2>2 DEF Script, Release, Save, SetDefer, SetBlock, Start,
         HealthCheck, Switch, StopTarget, GiveBack
    <3>3. QED
      BY <3>1, <3>2, <1>typ, <2>ok
  <2>3. CASE Kill
    BY <2>3, <2>ok, <1>typ DEF Kill
  <2>4. ASSUME UNCHANGED scriptVars
        PROVE  /\ step' \in Steps /\ active' \in Slots /\ released' \in BOOLEAN
               /\ runs' \in 0 .. MaxRuns
    BY <2>4, <2>ok, <1>typ
  <2>5. QED
    BY <2>1, <2>2, <2>3, <2>4 DEF Next, Process, WarmFails, Die, Retry, vars
<1>7. before' \in [defer : BOOLEAN, block : BOOLEAN]
  <2>1. CASE Save
    BY <2>1, <1>typ DEF TypeOK, Save, Settings
  <2>2. CASE before' = before
    BY <2>2 DEF TypeOK
  <2>3. QED
    BY <2>1, <2>2 DEF Next, Script, Begin, Release, SetDefer, SetBlock, Start,
       HealthCheck, Switch, StopTarget, GiveBack, Kill, Process, WarmFails, Die,
       Retry, scriptVars, vars
<1>8. faults' \in 0 .. MaxFaults /\ kinds' = kinds /\ operator' = operator
  <2>1. ASSUME NEW kind, Fault(kind)
        PROVE  faults' \in 0 .. MaxFaults /\ kinds' = kinds /\ operator' = operator
    BY <2>1, StagingAssumption DEF Fault, TypeOK
  <2>2. CASE UNCHANGED faultVars
    BY <2>2 DEF faultVars, TypeOK
  <2>3. QED
    BY <2>1, <2>2 DEF Next, Script, Begin, Release, Save, SetDefer, SetBlock, Start,
       HealthCheck, Switch, StopTarget, GiveBack, Kill, Process, WarmFails, Die,
       Retry, NoFault, vars
<1>9. QED
  BY <1>1, <1>2, <1>3, <1>4, <1>5, <1>6, <1>7, <1>8 DEF TypeOK

-----------------------------------------------------------------------------
(* The steps of the system, as the other invariants see them *)

\* What can go wrong in a behaviour is decided at its start.
LEMMA KindsFixed ==
  [Next]_vars => /\ kinds' = kinds /\ operator' = operator
                 /\ Kill => "kill" \in kinds
                 /\ \A s : /\ WarmFails(s) => "warm" \in kinds
                           /\ Die(s) => "die" \in kinds
<1>1. \A k : Fault(k) => k \in kinds /\ kinds' = kinds /\ operator' = operator
  BY DEF Fault
<1>2. UNCHANGED faultVars => kinds' = kinds /\ operator' = operator
  BY DEF faultVars
<1>3. [Next]_vars => UNCHANGED faultVars \/ \E k : Fault(k)
  BY DEF Next, Script, Begin, Release, Save, SetDefer, SetBlock, Start,
     HealthCheck, Switch, StopTarget, GiveBack, Kill, Process, WarmFails, Die,
     Retry, NoFault, vars
<1>4. QED
  BY <1>1, <1>2, <1>3 DEF Kill, WarmFails, Die

\* Processes run beside the script; they never write an env file.
LEMMA ProcessesAside ==
  ASSUME NEW s, Process(s) \/ WarmFails(s) \/ Die(s) \/ Retry(s)
  PROVE  UNCHANGED <<scriptVars, env, strategy>>
BY DEF Process, WarmFails, WarmError, Die, Retry, Becomes, Main, Warmer, SignalLoop,
       Exec, Announce, Open, Notify, WarmStart, WarmWork, WarmFinish, Take,
       RestartWarmer, DropSelectors, DisableCaches

\* The script writes the env file of the slot it stages in, and nobody else does.
LEMMA WrittenStep ==
  ASSUME TypeOK, WrittenInv, [Next]_vars PROVE WrittenInv'
<1>typ. active \in Slots /\ Target \in Slots /\ env \in [Slots -> Settings]
  BY TheOtherSlot DEF TypeOK
<1>1. CASE step' \notin {"setBlock", "start"}
  BY <1>1 DEF WrittenInv
<1>2. CASE SetDefer("setDefer", FALSE, "setBlock")
  <2>1. Target' = Target /\ ~ env'[Target].defer /\ step' = "setBlock"
    BY <1>2, <1>typ, TargetFollows DEF SetDefer, Goto, Settings
  <2>2. QED
    BY <2>1 DEF WrittenInv
<1>3. CASE SetBlock("setBlock", TRUE, "start")
  <2>1. Target' = Target /\ env'[Target].block /\ env'[Target].defer = env[Target].defer
    BY <1>3, <1>typ, TargetFollows DEF SetBlock, Settings
  <2>2. QED
    BY <1>3, <2>1 DEF WrittenInv, SetBlock, Goto
<1>4. ASSUME UNCHANGED <<step, active, env>> PROVE WrittenInv'
  BY <1>4, TargetFollows DEF WrittenInv
<1>5. ASSUME NEW s \in Slots, Process(s) \/ WarmFails(s) \/ Die(s) \/ Retry(s)
      PROVE  WrittenInv'
  BY <1>5, <1>4, ProcessesAside DEF scriptVars
<1>6. CASE UNCHANGED vars
  BY <1>6, <1>4 DEF vars, procVars, scriptVars
<1>7. CASE Script
  BY <1>7, <1>1, <1>2, <1>3
     DEF Script, Release, Save, SetDefer, SetBlock, Start, HealthCheck, Switch,
         StopTarget, GiveBack, Goto
<1>8. CASE Begin \/ Kill
  BY <1>8, <1>1 DEF Begin, Kill, Goto
<1>9. QED
  BY <1>5, <1>6, <1>7, <1>8 DEF Next

\* A process that is launched with settings that go together is not refused,
\* and without dying or failing processes nothing else launches one.
LEMMA AcceptedStep ==
  ASSUME TypeOK, WarmersInv, WrittenInv, AcceptedInv, [Next]_vars
  PROVE  AcceptedInv'
<1> DEFINE Refused(p) == p.life = "failing" \/ (p.life = "exec" /\ p.defer /\ p.block)
<1>typ. /\ \A s \in Slots : TypedProc(proc[s]) /\ WarmerOK(proc[s])
        /\ active \in Slots /\ Target \in Slots /\ proc \in [Slots -> ProcessType]
        /\ env \in [Slots -> Settings]
  BY TheOtherSlot DEF TypeOK, WarmersInv, TypedProc
<1> SUFFICES ASSUME Without({"die", "warm"})
             PROVE  \A s \in Slots : ~ Refused(proc'[s])
  <2>1. Without({"die", "warm"})' => Without({"die", "warm"})
    BY KindsFixed DEF Without
  <2>2. QED
    BY <2>1 DEF AcceptedInv
<1>ok. \A s \in Slots : ~ Refused(proc[s])
  BY DEF AcceptedInv
<1>1. ASSUME NEW s \in Slots, NEW q, proc' = [proc EXCEPT ![s] = q], ~ Refused(q)
      PROVE  \A u \in Slots : ~ Refused(proc'[u])
  BY <1>1, <1>ok, <1>typ
<1>2. CASE proc' = proc
  BY <1>2, <1>ok
<1>3. CASE Begin \/ \E a, b : StopTarget(a, b)
  <2>1. proc' = [proc EXCEPT ![Target] = Fresh("down")]
    BY <1>3 DEF Begin, StopTarget
  <2>2. ~ Refused(Fresh("down"))
    BY DEF Fresh
  <2>3. QED
    BY <2>1, <2>2, <1>1, <1>typ
<1>4. CASE Release \/ GiveBack
  <2>1. PICK sig \in {"USR1", "USR2"} :
          proc' = [proc EXCEPT ![active] = Signalled(active, sig)] \/ proc' = proc
    BY <1>4 DEF Release, GiveBack
  <2>2. ~ Refused(Signalled(active, sig))
    BY <1>ok, <1>typ, SignalledMoves
  <2>3. QED
    BY <2>1, <2>2, <1>1, <1>2, <1>typ
<1>5. CASE Start
  <2>1. \/ proc' = [proc EXCEPT ![Target] = Launched(Target)] /\ step = "start"
        \/ proc' = proc
    BY <1>5 DEF Start, Goto
  <2>2. step = "start" => ~ Refused(Launched(Target))
    BY DEF WrittenInv, Launched, Fresh
  <2>3. QED
    BY <2>1, <2>2, <1>1, <1>2, <1>typ
<1>6. ASSUME NEW s \in Slots, Process(s) PROVE \A u \in Slots : ~ Refused(proc'[u])
  <2>1. PICK q : Moves(s, proc[s], q)
    BY <1>6, <1>typ, MainMoves, WarmerMoves, SignalLoopMoves DEF Process
  <2>2. ~ Refused(q) /\ proc' = [proc EXCEPT ![s] = q]
    BY <2>1, <1>ok DEF Moves
  <2>3. QED
    BY <2>2, <1>1
<1>7. ASSUME NEW s \in Slots, WarmFails(s) \/ Die(s) PROVE FALSE
  BY <1>7, KindsFixed DEF Without, WarmFails, Die, Fault
<1>8. ASSUME NEW s \in Slots, Retry(s) PROVE FALSE
  BY <1>8, <1>ok DEF Retry
<1>9. CASE UNCHANGED vars
  BY <1>9, <1>2 DEF vars, procVars
<1>10. CASE Script
  BY <1>10, <1>2, <1>3, <1>4, <1>5
     DEF Script, Save, SetDefer, SetBlock, HealthCheck, Switch, procVars
<1>11. CASE Kill
  BY <1>11, <1>2 DEF Kill, procVars
<1>12. QED
  BY <1>3, <1>6, <1>7, <1>8, <1>9, <1>10, <1>11 DEF Next

\* The process staged in the idle slot runs as the script started it until
\* the old slot has been drained: the script signals the active slot only.
LEMMA StagedStep ==
  ASSUME TypeOK, WarmersInv, WrittenInv, AcceptedInv, StagedInv, [Next]_vars
  PROVE  StagedInv'
<1>typ. /\ \A s \in Slots : TypedProc(proc[s]) /\ WarmerOK(proc[s])
        /\ active \in Slots /\ Target \in Slots /\ Target # active
        /\ proc \in [Slots -> ProcessType] /\ env \in [Slots -> Settings]
  BY TheOtherSlot DEF TypeOK, WarmersInv, TypedProc
<1>str. strategy' = strategy
  BY ProcStep
<1> SUFFICES ASSUME Without({"die", "warm"})
             PROVE  StagedInv'
  BY KindsFixed DEF Without, StagedInv
<1> DEFINE Before == {"resetDefer", "resetBlock", "health", "switch"}
<1>ok. /\ step \in Before => StagedProc(proc[Target])
       /\ step = "switch" => proc[Target].open
       /\ step = "drain" => StagedProc(proc[active]) /\ proc[active].open
       /\ \A s \in Slots : proc[s].life # "failing"
  BY DEF StagedInv, AcceptedInv
<1>0. CASE step' \notin Before \cup {"drain"}
  BY <1>0 DEF StagedInv
<1>1. CASE Start
  <2>1. CASE step' = "resetDefer"
    <3>1. proc' = [proc EXCEPT ![Target] = Launched(Target)] /\ step = "start"
      BY <1>1, <2>1 DEF Start, Goto
    <3>2. ~ env[Target].defer /\ env[Target].block
      BY <3>1 DEF WrittenInv
    <3>3. StagedProc(Launched(Target))
      BY <3>2 DEF StagedProc, Launched, Fresh
    <3>4. Target' = Target
      BY <1>1, TargetFollows DEF Start
    <3>5. StagedProc(proc[Target])'
      BY <3>1, <3>3, <3>4, <1>typ, <1>str DEF StagedProc, Loaded
    <3>6. QED
      BY <2>1, <3>5 DEF StagedInv
  <2>2. QED
    BY <1>0, <1>1, <2>1 DEF Start, Goto
<1>2. ASSUME \/ SetDefer("resetDefer", before.defer, "resetBlock")
             \/ SetBlock("resetBlock", before.block, "health")
             \/ HealthCheck
             \/ UNCHANGED vars
      PROVE  StagedInv'
  <2>1. Target' = Target /\ active' = active /\ proc' = proc
    BY <1>2, TargetFollows DEF SetDefer, SetBlock, HealthCheck, procVars, vars, scriptVars
  <2>2. /\ step' \in Before => step \in Before
        /\ step' = "switch" => proc[Target].open
        /\ step' = "drain" => step = "drain"
    BY <1>2, <1>ok DEF SetDefer, SetBlock, HealthCheck, Goto, vars, scriptVars
  <2>3. QED
    BY <2>1, <2>2, <1>ok, <1>str DEF StagedInv, StagedProc, Loaded
<1>3. CASE Switch
  <2>1. CASE step' = "drain"
    <3>1. active' = Target /\ proc' = proc /\ step = "switch"
      BY <1>3, <2>1 DEF Switch, Goto, procVars
    <3>2. QED
      BY <2>1, <3>1, <1>ok, <1>str DEF StagedInv, StagedProc, Loaded
  <2>2. QED
    BY <1>0, <1>3, <2>1 DEF Switch, Goto
<1>4. ASSUME NEW s \in Slots, Process(s) PROVE StagedInv'
  <2>1. PICK q : Moves(s, proc[s], q)
    BY <1>4, <1>typ, MainMoves, WarmerMoves, SignalLoopMoves DEF Process
  <2>2. /\ proc' = [proc EXCEPT ![s] = q]
        /\ StagedProc(proc[s]) => StagedProc(q) /\ (proc[s].open => q.open)
    BY <2>1 DEF Moves
  <2>3. step' = step /\ Target' = Target /\ active' = active
    BY <1>4, ProcessesAside, TargetFollows DEF scriptVars
  <2>4. ASSUME NEW u \in Slots, StagedProc(proc[u])
        PROVE  StagedProc(proc[u])' /\ (proc[u].open => proc'[u].open)
    <3>1. StagedProc(proc'[u]) /\ (proc[u].open => proc'[u].open)
      BY <2>2, <2>4, <1>typ
    <3>2. QED
      BY <3>1, <1>str DEF StagedProc, Loaded
  <2>5. QED
    BY <2>3, <2>4, <1>ok, <1>typ DEF StagedInv
<1>5. ASSUME NEW s \in Slots, WarmFails(s) \/ Die(s) \/ Retry(s) PROVE FALSE
  BY <1>5, <1>ok, KindsFixed DEF Without, WarmFails, Die, Fault, Retry
<1>6. CASE Begin \/ Kill
  BY <1>0, <1>6 DEF Begin, Kill, Goto
<1>7. CASE Script
  BY <1>0, <1>1, <1>2, <1>3, <1>7
     DEF Script, Release, Save, SetDefer, SetBlock, StopTarget, GiveBack, Goto
<1>8. QED
  BY <1>2, <1>4, <1>5, <1>6, <1>7 DEF Next

\* The two settings are saved before they are replaced and put back before the
\* slots change places, on every way through the script.
LEMMA SettingsStep ==
  ASSUME TypeOK, SettingsInv, [Next]_vars PROVE SettingsInv'
<1>typ. /\ active \in Slots /\ Target \in Slots /\ Target # active
        /\ env \in [Slots -> Settings]
  BY TheOtherSlot DEF TypeOK
<1>fix. operator' = operator
  BY KindsFixed
<1> SUFFICES ASSUME Without({"kill"}) PROVE SettingsInv'
  BY KindsFixed DEF Without, SettingsInv
<1> USE DEF DeferHome, BlockHome, Saved
<1>1. ASSUME UNCHANGED <<step, active, env, before>> PROVE SettingsInv'
  BY <1>1, <1>fix, TargetFollows DEF SettingsInv
<1>2. ASSUME NEW s \in Slots, Process(s) \/ WarmFails(s) \/ Die(s) \/ Retry(s)
      PROVE  SettingsInv'
  BY <1>2, <1>1, ProcessesAside DEF scriptVars
<1>3. CASE UNCHANGED vars
  BY <1>3, <1>1 DEF vars, procVars, scriptVars
<1>4. ASSUME UNCHANGED <<env, active, before>>,
             \/ Begin \/ Release \/ HealthCheck \/ StopTarget("drain", "idle")
             \/ StopTarget("stopTarget", "giveBack") \/ GiveBack \/ Start
      PROVE  SettingsInv'
  BY <1>4, <1>fix, TargetFollows
     DEF SettingsInv, Begin, Release, HealthCheck, StopTarget, GiveBack, Start, Goto
<1>5. CASE Save
  <2>1. /\ step = "save" /\ step' = "setDefer" /\ Target' = Target /\ active' = active
        /\ before' = [defer |-> env[Target].defer, block |-> env[Target].block]
        /\ env' = [env EXCEPT ![Target].control = TRUE]
    BY <1>5, TargetFollows DEF Save, Goto
  <2>2. \A s \in Slots : env'[s].defer = env[s].defer /\ env'[s].block = env[s].block
    BY <2>1, <1>typ DEF Settings
  <2>3. QED
    BY <2>1, <2>2, <1>fix, <1>typ DEF SettingsInv
<1>6. ASSUME NEW here, NEW value, NEW next, SetDefer(here, value, next)
      PROVE  /\ step = here /\ step' = next
             /\ Target' = Target /\ active' = active /\ before' = before
             /\ env'[active] = env[active]
             /\ env'[Target].defer = value /\ env'[Target].block = env[Target].block
  BY <1>6, <1>typ, TargetFollows DEF SetDefer, Goto, Settings
<1>7. ASSUME NEW here, NEW value, NEW next, SetBlock(here, value, next)
      PROVE  /\ step = here /\ step' = next
             /\ Target' = Target /\ active' = active /\ before' = before
             /\ env'[active] = env[active]
             /\ env'[Target].block = value /\ env'[Target].defer = env[Target].defer
  BY <1>7, <1>typ, TargetFollows DEF SetBlock, Goto, Settings
<1>8. CASE \/ SetDefer("setDefer", FALSE, "setBlock")
           \/ SetDefer("resetDefer", before.defer, "resetBlock")
           \/ SetDefer("undoDefer", before.defer, "undoBlock")
  <2>1. ASSUME SetDefer("setDefer", FALSE, "setBlock") PROVE SettingsInv'
    <3>1. /\ step = "setDefer" /\ step' = "setBlock"
          /\ Target' = Target /\ active' = active /\ before' = before
          /\ env'[active] = env[active]
          /\ env'[Target].defer = FALSE
          /\ env'[Target].block = env[Target].block
      BY <2>1, <1>6
    <3>2. QED
      BY <3>1, <1>fix DEF SettingsInv
  <2>2. ASSUME SetDefer("resetDefer", before.defer, "resetBlock") PROVE SettingsInv'
    <3>1. /\ step = "resetDefer" /\ step' = "resetBlock"
          /\ Target' = Target /\ active' = active /\ before' = before
          /\ env'[active] = env[active]
          /\ env'[Target].defer = before.defer
          /\ env'[Target].block = env[Target].block
      BY <2>2, <1>6
    <3>2. QED
      BY <3>1, <1>fix DEF SettingsInv
  <2>3. ASSUME SetDefer("undoDefer", before.defer, "undoBlock") PROVE SettingsInv'
    <3>1. /\ step = "undoDefer" /\ step' = "undoBlock"
          /\ Target' = Target /\ active' = active /\ before' = before
          /\ env'[active] = env[active]
          /\ env'[Target].defer = before.defer
          /\ env'[Target].block = env[Target].block
      BY <2>3, <1>6
    <3>2. QED
      BY <3>1, <1>fix DEF SettingsInv
  <2>4. QED
    BY <1>8, <2>1, <2>2, <2>3
<1>9. CASE \/ SetBlock("setBlock", TRUE, "start")
           \/ SetBlock("resetBlock", before.block, "health")
           \/ SetBlock("undoBlock", before.block, "giveBack")
  <2>1. ASSUME SetBlock("setBlock", TRUE, "start") PROVE SettingsInv'
    <3>1. /\ step = "setBlock" /\ step' = "start"
          /\ Target' = Target /\ active' = active /\ before' = before
          /\ env'[active] = env[active]
          /\ env'[Target].block = TRUE
          /\ env'[Target].defer = env[Target].defer
      BY <2>1, <1>7
    <3>2. QED
      BY <3>1, <1>fix DEF SettingsInv
  <2>2. ASSUME SetBlock("resetBlock", before.block, "health") PROVE SettingsInv'
    <3>1. /\ step = "resetBlock" /\ step' = "health"
          /\ Target' = Target /\ active' = active /\ before' = before
          /\ env'[active] = env[active]
          /\ env'[Target].block = before.block
          /\ env'[Target].defer = env[Target].defer
      BY <2>2, <1>7
    <3>2. QED
      BY <3>1, <1>fix DEF SettingsInv
  <2>3. ASSUME SetBlock("undoBlock", before.block, "giveBack") PROVE SettingsInv'
    <3>1. /\ step = "undoBlock" /\ step' = "giveBack"
          /\ Target' = Target /\ active' = active /\ before' = before
          /\ env'[active] = env[active]
          /\ env'[Target].block = before.block
          /\ env'[Target].defer = env[Target].defer
      BY <2>3, <1>7
    <3>2. QED
      BY <3>1, <1>fix DEF SettingsInv
  <2>4. QED
    BY <1>9, <2>1, <2>2, <2>3
<1>10. CASE Switch
  <2>1. /\ step = "switch" /\ step' \in {"drain", "stopTarget"}
        /\ UNCHANGED <<env, before>>
        /\ \/ active' = active /\ Target' = Target
           \/ active' = Target /\ Target' = active
    <3>1. /\ step = "switch" /\ step' \in {"drain", "stopTarget"}
          /\ UNCHANGED <<env, before>> /\ active' \in {active, Target}
      BY <1>10 DEF Switch, Goto, procVars
    <3>2. active' = active => Target' = Target
      BY TargetFollows
    <3>3. active' = Target => Target' = active
      BY <1>typ, TargetFollows
    <3>5. CASE active' = active
      BY <3>1, <3>2, <3>5
    <3>6. CASE active' = Target
      BY <3>1, <3>3, <3>6
    <3>7. QED
      BY <3>1, <3>5, <3>6
  <2>2. QED
    BY <2>1, <1>fix DEF SettingsInv
<1>11. CASE Kill
  BY <1>11, KindsFixed DEF Without
<1>12. CASE Begin
  BY <1>12, <1>4 DEF Begin
<1>13. CASE Script
  BY <1>4, <1>5, <1>8, <1>9, <1>10, <1>13
     DEF Script, Release, HealthCheck, StopTarget, GiveBack, Start, procVars
<1>14. QED
  BY <1>2, <1>3, <1>11, <1>12, <1>13 DEF Next

\* Between the release and giving it back nothing but its own warmup touches
\* the active process.
LEMMA ReleaseStep ==
  ASSUME TypeOK, WarmersInv, ReleaseInv, [Next]_vars PROVE ReleaseInv'
<1>typ. /\ \A s \in Slots : TypedProc(proc[s]) /\ WarmerOK(proc[s])
        /\ active \in Slots /\ Target \in Slots /\ Target # active
        /\ proc \in [Slots -> ProcessType]
  BY TheOtherSlot DEF TypeOK, WarmersInv, TypedProc
<1> SUFFICES ASSUME Without({"die"}) PROVE ReleaseInv'
  BY KindsFixed DEF Without, ReleaseInv
<1>0. CASE step' \in {"idle", "drain"}
  BY <1>0 DEF ReleaseInv
<1>1. CASE Begin
  <2>1. active' = active /\ ~ released' /\ proc'[active] = proc[active]
    BY <1>1, <1>typ DEF Begin
  <2>2. QuietProc(proc[active])
    BY <1>1 DEF Begin, Settled, QuietProc
  <2>3. QED
    BY <2>1, <2>2 DEF ReleaseInv, QuietProc
<1>2. CASE Release
  <2>1. step = "release" /\ step' = "save" /\ active' = active
    BY <1>2 DEF Release, Goto
  <2>2. QuietProc(proc[active]) /\ ~ released
    BY <2>1 DEF ReleaseInv
  <2>3. released' => ReleasedProc(proc'[active])
    <3>1. ASSUME released'
          PROVE  /\ proc[active].control
                 /\ proc' = [proc EXCEPT ![active] = Signalled(active, "USR2")]
      BY <1>2, <2>2, <3>1 DEF Release
    <3>2. QED
      BY <2>2, <3>1, <1>typ, SignalledMoves
  <2>4. QED
    BY <2>1, <2>3 DEF ReleaseInv, ReleasedProc
<1>3. ASSUME step \notin {"idle", "release", "drain"}, step' # "release",
             UNCHANGED <<active, released>>, proc'[active] = proc[active]
      PROVE  ReleaseInv'
  BY <1>3 DEF ReleaseInv, ReleasedProc
<1>4. ASSUME NEW s \in Slots, NEW q, proc' = [proc EXCEPT ![s] = q],
             UNCHANGED <<step, active, released>>,
             QuietProc(proc[s]) => QuietProc(q),
             ReleasedProc(proc[s]) => ReleasedProc(q)
      PROVE  ReleaseInv'
  <2>1. /\ QuietProc(proc[active]) => QuietProc(proc'[active])
        /\ ReleasedProc(proc[active]) => ReleasedProc(proc'[active])
    BY <1>4, <1>typ
  <2>2. QED
    BY <1>4, <2>1 DEF ReleaseInv, QuietProc, ReleasedProc
<1>5. ASSUME NEW s \in Slots, Process(s) PROVE ReleaseInv'
  <2>1. PICK q : Moves(s, proc[s], q)
    BY <1>5, <1>typ, MainMoves, WarmerMoves, SignalLoopMoves DEF Process
  <2>2. QED
    BY <1>4, <1>5, <2>1, ProcessesAside DEF Moves, scriptVars
<1>6. ASSUME NEW s \in Slots, WarmFails(s) PROVE ReleaseInv'
  <2> DEFINE q == IF proc[s].life = "warming" THEN Fresh("failing")
                  ELSE [proc[s] EXCEPT !.warmer = "finishing"]
  <2>1. proc' = [proc EXCEPT ![s] = q]
    BY <1>6 DEF WarmFails, WarmError, Becomes
  <2>2. QuietProc(proc[s]) => QuietProc(q)
    BY <1>typ, ProcessShapeIsType DEF QuietProc, TypedProc, ProcessShape
  <2>3. ReleasedProc(proc[s]) => ReleasedProc(q)
    BY <1>typ, ProcessShapeIsType DEF ReleasedProc, TypedProc, ProcessShape
  <2>4. UNCHANGED <<step, active, released>>
    BY <1>6, ProcessesAside DEF scriptVars
  <2> HIDE DEF q
  <2>5. QED
    BY <1>4, <2>1, <2>2, <2>3, <2>4
<1>7. ASSUME NEW s \in Slots, Die(s) PROVE FALSE
  BY <1>7, KindsFixed DEF Without
<1>8. ASSUME NEW s \in Slots, Retry(s) PROVE ReleaseInv'
  <2>1. proc' = [proc EXCEPT ![s] = Launched(s)] /\ proc[s].life = "failing"
    BY <1>8 DEF Retry, Becomes
  <2>2. ~ QuietProc(proc[s]) /\ ~ ReleasedProc(proc[s])
    BY <2>1 DEF QuietProc, ReleasedProc
  <2>3. QED
    BY <1>4, <1>8, <2>1, <2>2, ProcessesAside DEF scriptVars
<1>9. CASE Start \/ StopTarget("stopTarget", "giveBack")
  <2>1. /\ proc' = proc \/ \E q : proc' = [proc EXCEPT ![Target] = q]
        /\ step \notin {"idle", "release", "drain"} /\ step' # "release"
        /\ UNCHANGED <<active, released>>
    BY <1>9 DEF Start, StopTarget, Goto
  <2>2. proc'[active] = proc[active]
    BY <2>1, <1>typ
  <2>3. QED
    BY <1>3, <2>1, <2>2
<1>10. CASE \/ Save \/ HealthCheck
            \/ SetDefer("setDefer", FALSE, "setBlock")
            \/ SetBlock("setBlock", TRUE, "start")
            \/ SetDefer("resetDefer", before.defer, "resetBlock")
            \/ SetBlock("resetBlock", before.block, "health")
            \/ SetDefer("undoDefer", before.defer, "undoBlock")
            \/ SetBlock("undoBlock", before.block, "giveBack")
  BY <1>3, <1>10 DEF Save, HealthCheck, SetDefer, SetBlock, Goto, procVars
<1>11. CASE Switch
  BY <1>0, <1>3, <1>11 DEF Switch, Goto, procVars
<1>12. CASE StopTarget("drain", "idle") \/ GiveBack \/ Kill
  BY <1>0, <1>12 DEF StopTarget, GiveBack, Kill, Goto
<1>13. CASE UNCHANGED vars
  BY <1>13 DEF ReleaseInv, QuietProc, ReleasedProc, vars, procVars, scriptVars
<1>14. CASE Script
  BY <1>2, <1>9, <1>10, <1>11, <1>12, <1>14 DEF Script
<1>15. QED
  BY <1>1, <1>5, <1>6, <1>7, <1>8, <1>12, <1>13, <1>14 DEF Next

-----------------------------------------------------------------------------
(* Theorems *)

\* One slot is about to start, with the settings of the operator.
LEMMA WarmupInit == Init => WInv
<1> SUFFICES ASSUME Init PROVE WInv
  OBVIOUS
<1>1. /\ env \in [Slots -> Settings] /\ operator \in [Slots -> Operator] /\ env = operator
      /\ \A s \in Slots : ~ (env[s].defer /\ env[s].block)
  BY StagingAssumption DEF Init
<1>2. \A s \in Slots : /\ TypedProc(proc[s]) /\ WarmerOK(proc[s])
                       /\ proc[s].life \in {"exec", "down"}
                       /\ proc[s].defer => ~ proc[s].block
  <2>1. \A s \in Slots : proc[s] = IF s = Primary THEN Launched(s) ELSE Fresh("down")
    BY DEF Init
  <2>2. \A s \in Slots : /\ Launched(s).life = "exec" /\ Launched(s).defer = env[s].defer
                         /\ Launched(s).block = env[s].block
    BY DEF Launched, Fresh
  <2>3. Fresh("down").life = "down" /\ ~ Fresh("down").defer
    BY DEF Fresh
  <2>4. QED
    BY <1>1, <2>1, <2>2, <2>3, FreshTyped
<1>3. TypeOK
  <2>1. proc \in [Slots -> ProcessType]
    BY <1>2 DEF Init, TypedProc
  <2>2. \A s \in Slots : proc[s].open => proc[s].life \in {"notify", "up"}
    BY <1>2 DEF TypedProc
  <2>3. runs \in 0 .. MaxRuns /\ faults \in 0 .. MaxFaults
    BY StagingAssumption DEF Init
  <2>4. QED
    BY <1>1, <2>1, <2>2, <2>3, StagingAssumption
       DEF Init, TypeOK, Steps, NothingSaved
<1>4. active \in Slots /\ Target \in Slots
  BY <1>3, TheOtherSlot DEF TypeOK
<1>5. WarmersInv /\ WrittenInv /\ AcceptedInv /\ StagedInv /\ ReleaseInv
  BY <1>2 DEF Init, WarmersInv, WrittenInv, AcceptedInv, StagedInv, ReleaseInv
<1>6. SettingsInv
  BY <1>1, <1>4 DEF Init, SettingsInv, DeferHome, BlockHome
<1>7. QED
  BY <1>3, <1>5, <1>6 DEF WInv

\* The invariant behind the properties of the staging, in every reachable
\* state.
THEOREM WarmupInvariance == Spec => []WInv
<1>1. WInv /\ [Next]_vars => WInv'
  BY TypeStep, WrittenStep, AcceptedStep, StagedStep, SettingsStep, ReleaseStep
     DEF WInv
<1>2. QED
  BY WarmupInit, <1>1, PTL DEF Spec

\* Types of processes, env files and shell variables; a process listens only
\* once main has reached its listener, which is after a blocking warmup.
THEOREM StagingTyped == Spec => []TypeOK
<1>1. WInv => TypeOK
  BY DEF WInv
<1>2. QED
  BY <1>1, WarmupInvariance, PTL

\* main.go refuses deferred and blocking warmup together; no start the script
\* asks for meets that, whatever the operator wrote and wherever a run ended.
THEOREM StartsAreAccepted == Spec => []StartAccepted
<1>1. WInv => StartAccepted
  BY DEF WInv, AcceptedInv, StartAccepted
<1>2. QED
  BY <1>1, WarmupInvariance, PTL

\* README "Fully warm the inactive slot before it opens its listener": the
\* slot that Caddy is switched to has loaded what its cache plan loads.
THEOREM SwitchedSlotIsWarm == Spec => []FirstStartWarm
<1>1. WInv => FirstStartWarm
  <2> SUFFICES ASSUME WInv, Without({"die", "warm"}) PROVE StagedSlotWarm
    BY DEF FirstStartWarm
  <2>1. /\ step = "switch" => StagedProc(proc[Target]) /\ proc[Target].open
        /\ step = "drain" => StagedProc(proc[active]) /\ proc[active].open
    BY DEF WInv, StagedInv
  <2>2. \A s \in Slots : proc[s].open => proc[s].life \in {"notify", "up"}
    BY DEF WInv, TypeOK
  <2>3. active \in Slots /\ Target \in Slots
    BY TheOtherSlot DEF WInv, TypeOK
  <2>4. QED
    BY <2>1, <2>2, <2>3 DEF StagedProc, Loaded, StagedSlotWarm, Warm
<1>2. QED
  BY <1>1, WarmupInvariance, PTL

\* sync-bbolt.sh, "restoring them after start affects only a later process
\* restart": between two runs every slot has the operator's settings.
THEOREM SettingsComeBack == Spec => []SettingsRestored
<1>1. WInv => SettingsRestored
  BY TheOtherSlot
     DEF WInv, TypeOK, SettingsInv, SettingsRestored, DeferHome, BlockHome
<1>2. QED
  BY <1>1, WarmupInvariance, PTL

\* sync-bbolt.sh, "This creates room for the staged process": no warmup that
\* was under way brings back what the active process has released.
THEOREM ReleaseHolds == Spec => []ReleaseLasts
<1>1. WInv => ReleaseLasts
  <2> SUFFICES ASSUME WInv, Without({"die", "kill"}), released,
                      step \in {"save", "start", "health", "switch", "stopTarget"},
                      proc[active].queue = << >>, proc[active].loop = "wait"
               PROVE  ~ proc[active].selectors /\ ~ proc[active].caching
    BY DEF ReleaseLasts
  <2>1. ReleasedProc(proc[active])
    BY DEF WInv, ReleaseInv, Without
  <2>2. QED
    BY <2>1 DEF ReleasedProc
<1>2. QED
  BY <1>1, WarmupInvariance, PTL
=============================================================================
