------------------------ MODULE EmailSequencesProofs ------------------------
(***************************************************************************)
(* Proofs about EmailSequences, for any number of servers, connections,    *)
(* leads and steps.                                                        *)
(*                                                                         *)
(* Mutual exclusion follows from Holds: a run that is going belongs to the *)
(* server whose session has the lock, and the lock has been taken at least *)
(* once for each such run, so that no unlock frees it under a run.         *)
(* SentOnce follows from mutual exclusion and Accounted: without overlap   *)
(* and faults a delivered message is in the logs or about to be.           *)
(***************************************************************************)
EXTENDS EmailSequences, TLAPS

\* The types the arguments below rest on.
RunRecord ==
    [ at : {"idle", "lock", "page", "next", "send", "log", "unlock"}, day : Int,
      page : SUBSET Item, todo : SUBSET Item, item : Item \cup {NoItem}, aborted : BOOLEAN ]

LockRecord == {Free} \cup [session : Session, count : Nat \ {0}]

Types ==
    /\ run \in [Slot -> RunRecord]
    /\ lock \in LockRecord
    /\ logs \subseteq Item
    /\ sends \in [Item -> Nat]
    /\ overlap \in BOOLEAN
    /\ hour \in Int
    /\ \A r \in Slot : run[r].at \in {"send", "log"} => run[r].item \in Item

Holds ==
    /\ \A r \in Slot : Going(r) => lock.session \in {r[1]} \X Conn /\ lock.count >= 1
    /\ \A q, r \in Slot : q # r /\ Going(q) /\ Going(r) => lock.count >= 2

MutexInv == Types /\ (Connected => Holds)

RunTypes ==
    /\ run \in [Slot -> RunRecord]
    /\ \A r \in Slot : run[r].at \in {"send", "log"} => run[r].item \in Item

\* A step of one run that writes a well-formed record keeps the runs well-formed.
LEMMA RunStep ==
    ASSUME RunTypes, NEW r \in Slot, NEW v \in RunRecord,
           run' = [run EXCEPT ![r] = v],
           v.at \in {"send", "log"} => v.item \in Item
    PROVE  RunTypes'
BY DEF RunTypes

LEMMA NoSessionIsNone == ASSUME NEW S PROVE NoSession \notin S \X Conn
BY DEF NoSession

LEMMA IdleRecord == Idle \in RunRecord /\ Idle.at = "idle"
BY DEF Idle, RunRecord, NoItem

LEMMA InitTypes == Init => Types
<1> SUFFICES ASSUME Init PROVE Types
  OBVIOUS
<1>1. run \in [Slot -> RunRecord] /\ \A r \in Slot : run[r].at = "idle"
  BY IdleRecord DEF Init
<1>2. lock \in LockRecord
  BY DEF Init, LockRecord
<1>3. logs \subseteq Item /\ sends \in [Item -> Nat] /\ hour \in Int
  BY DEF Init
<1>4. overlap \in BOOLEAN
  BY DEF Init
<1> QED
  BY <1>1, <1>2, <1>3, <1>4 DEF Types

\* One step per action; a run's record is changed in at most three fields.
LEMMA TypesStep == Types /\ [Next]_vars => Types'
<1> SUFFICES ASSUME Types, [Next]_vars PROVE Types'
  OBVIOUS
<1>a. RunTypes
  BY DEF Types, RunTypes
<1>b. ASSUME RunTypes', lock' = lock, logs' = logs, sends' = sends, overlap' = overlap, hour' = hour
      PROVE  Types'
  BY <1>b DEF Types, RunTypes
<1>1. ASSUME NEW r \in Slot, Tick(r) PROVE Types'
  <2> DEFINE v == [Idle EXCEPT !.at = "lock", !.day = hour \div HoursPerDay]
  <2>1. hour \div HoursPerDay \in Int
    BY SequencesAssumption DEF Types
  <2>2. v \in RunRecord /\ v.at = "lock"
    BY <2>1 DEF Idle, RunRecord, NoItem
  <2>3. run' = [run EXCEPT ![r] = v]
    BY <1>1 DEF Tick
  <2>4. RunTypes'
    BY <1>a, <2>2, <2>3, RunStep
  <2> QED
    BY <1>1, <1>b, <2>4 DEF Tick
<1>2. ASSUME NEW r \in Slot, NEW c \in Conn, TryLock(r, c) PROVE Types'
  <2>1. <<r[1], c>> \in Session
    BY DEF Slot, Session
  <2>2. CASE MayTake(<<r[1], c>>)
    <3> DEFINE v == [run[r] EXCEPT !.at = "page"]
    <3>1. v \in RunRecord /\ v.at = "page"
      BY <1>a DEF RunTypes, RunRecord
    <3>2. run' = [run EXCEPT ![r] = v]
      BY <1>2, <2>2, <1>a DEF TryLock, RunTypes, RunRecord
    <3>3. RunTypes'
      BY <1>a, <3>1, <3>2, RunStep
    <3>4. lock' = [session |-> <<r[1], c>>, count |-> lock.count + 1] /\ overlap' \in BOOLEAN
      BY <1>2, <2>2 DEF TryLock, Types
    <3>5. lock.count \in Nat
      BY DEF Types, LockRecord, Free
    <3>6. lock' \in LockRecord
      BY <2>1, <3>4, <3>5 DEF LockRecord
    <3> QED
      BY <1>2, <3>3, <3>4, <3>6 DEF TryLock, Types, RunTypes
  <2>3. CASE ~MayTake(<<r[1], c>>)
    <3>1. run' = [run EXCEPT ![r] = Idle] /\ lock' = lock /\ overlap' = overlap
      BY <1>2, <2>3 DEF TryLock
    <3>2. RunTypes'
      BY <1>a, <3>1, IdleRecord, RunStep
    <3> QED
      BY <1>2, <1>b, <3>1, <3>2 DEF TryLock
  <2> QED
    BY <2>2, <2>3
<1>3. ASSUME NEW r \in Slot, ReadPage(r) PROVE Types'
  <2>1. PICK items \in SUBSET Item :
             run' = [run EXCEPT ![r].at = "next", ![r].page = items, ![r].todo = items]
    BY <1>3 DEF ReadPage
  <2> DEFINE v == [run[r] EXCEPT !.at = "next", !.page = items, !.todo = items]
  <2>2. v \in RunRecord /\ v.at = "next"
    BY <1>a DEF RunTypes, RunRecord
  <2>3. run' = [run EXCEPT ![r] = v]
    BY <2>1, <1>a DEF RunTypes, RunRecord
  <2>4. RunTypes'
    BY <1>a, <2>2, <2>3, RunStep
  <2> QED
    BY <1>3, <1>b, <2>4 DEF ReadPage
<1>4. ASSUME NEW r \in Slot, NEW x \in Item, Check(r, x) PROVE Types'
  <2> DEFINE skip == [run[r] EXCEPT !.todo = @ \ {x}]
             take == [run[r] EXCEPT !.at = IF x[1] \in Unreachable THEN "log" ELSE "send", !.item = x]
  <2>1. skip \in RunRecord /\ skip.at = "next" /\ take \in RunRecord /\ take.item = x
    BY <1>4, <1>a DEF Check, RunTypes, RunRecord
  <2>2. run' = [run EXCEPT ![r] = skip] \/ run' = [run EXCEPT ![r] = take]
    BY <1>4, <1>a DEF Check, Continue, RunTypes, RunRecord
  <2> HIDE DEF skip, take
  <2>3. RunTypes'
    BY <1>a, <2>1, <2>2, RunStep
  <2> QED
    BY <1>4, <1>b, <2>3 DEF Check
<1>5. ASSUME NEW r \in Slot, Send(r) PROVE Types'
  <2> DEFINE v == [run[r] EXCEPT !.at = "log"]
  <2>1. v \in RunRecord /\ v.item = run[r].item /\ run[r].item \in Item
    BY <1>5, <1>a DEF Send, RunTypes, RunRecord
  <2>2. run' = [run EXCEPT ![r] = v]
    BY <1>5, <1>a DEF Send, RunTypes, RunRecord
  <2>3. RunTypes'
    BY <1>a, <2>1, <2>2, RunStep
  <2>4. sends' \in [Item -> Nat]
    BY <1>5 DEF Send, Types
  <2> QED
    BY <1>5, <2>3, <2>4 DEF Send, Types, RunTypes
<1>6. ASSUME NEW r \in Slot, InsertLog(r) PROVE Types'
  <2> DEFINE next == [run[r] EXCEPT !.at = "next", !.todo = @ \ {run[r].item}, !.item = NoItem]
             stop == [run[r] EXCEPT !.at = "unlock", !.aborted = TRUE]
  <2>1. next \in RunRecord /\ next.at = "next" /\ stop \in RunRecord /\ stop.at = "unlock"
    BY <1>a DEF RunTypes, RunRecord
  <2>2. run' = [run EXCEPT ![r] = next] \/ run' = [run EXCEPT ![r] = stop]
    BY <1>6, <1>a DEF InsertLog, Abort, RunTypes, RunRecord
  <2>3. RunTypes'
    BY <1>a, <2>1, <2>2, RunStep
  <2>4. logs' \subseteq Item
    BY <1>6 DEF InsertLog, Types
  <2> QED
    BY <1>6, <2>3, <2>4 DEF InsertLog, Types, RunTypes
<1>12. ASSUME NEW r \in Slot, QueryFails(r) PROVE Types'
  <2> DEFINE stop == [run[r] EXCEPT !.at = "unlock", !.aborted = TRUE]
  <2>1. stop \in RunRecord /\ stop.at = "unlock"
    BY <1>a DEF RunTypes, RunRecord
  <2>2. run' = [run EXCEPT ![r] = stop]
    BY <1>12, <1>a DEF QueryFails, Abort, RunTypes, RunRecord
  <2>3. RunTypes'
    BY <1>a, <2>1, <2>2, RunStep
  <2> QED
    BY <1>12, <1>b, <2>3 DEF QueryFails
<1>7. ASSUME NEW r \in Slot, EndRun(r) PROVE Types'
  <2> DEFINE v == [run[r] EXCEPT !.at = "unlock"]
  <2>1. v \in RunRecord /\ v.at = "unlock"
    BY <1>a DEF RunTypes, RunRecord
  <2>2. run' = [run EXCEPT ![r] = v]
    BY <1>7, <1>a DEF EndRun, RunTypes, RunRecord
  <2>3. RunTypes'
    BY <1>a, <2>1, <2>2, RunStep
  <2> QED
    BY <1>7, <1>b, <2>3 DEF EndRun
<1>8. ASSUME NEW r \in Slot, NEW c \in Conn, Unlock(r, c) PROVE Types'
  <2>1. RunTypes'
    BY <1>8, <1>a, IdleRecord, RunStep DEF Unlock
  <2>2. lock' \in LockRecord
    <3>1. CASE lock.session # <<r[1], c>>
      BY <1>8, <3>1 DEF Unlock, Types
    <3>2. CASE lock.session = <<r[1], c>> /\ lock.count = 1
      BY <1>8, <3>2 DEF Unlock, LockRecord
    <3>3. CASE lock.session = <<r[1], c>> /\ lock.count # 1
      <4>1. lock' = [lock EXCEPT !.count = @ - 1]
        BY <1>8, <3>3 DEF Unlock
      <4>2. lock \in [session : Session, count : Nat \ {0}]
        BY <3>3 DEF Types, LockRecord, Free, NoSession
      <4> QED
        BY <3>3, <4>1, <4>2 DEF LockRecord
    <3> QED
      BY <3>1, <3>2, <3>3
  <2> QED
    BY <1>8, <2>1, <2>2 DEF Unlock, Types, RunTypes
<1>9. ASSUME NEW p \in Server, Crash(p) PROVE Types'
  <2>1. RunTypes'
    BY <1>9, <1>a, IdleRecord DEF Crash, RunTypes
  <2>2. lock' \in LockRecord
    BY <1>9 DEF Crash, LockAfter, LockRecord, Types
  <2> QED
    BY <1>9, <2>1, <2>2 DEF Crash, Types, RunTypes
<1>10. CASE Hour \/ (\E p \in Server : Boot(p)) \/ UNCHANGED vars
  BY <1>10 DEF Hour, Boot, vars, Types
<1>11. CASE Disconnect
  BY <1>11 DEF Disconnect, Types, LockRecord
<1> QED
  BY <1>1, <1>2, <1>3, <1>4, <1>5, <1>6, <1>7, <1>8, <1>9, <1>10, <1>11, <1>12 DEF Next, Job

\* A broken connection stays in the history.
LEMMA ConnectedStep == [Next]_vars /\ Connected' => Connected /\ ~Disconnect
<1> SUFFICES ASSUME [Next]_vars, Connected' PROVE Connected /\ ~Disconnect
  OBVIOUS
<1>1. \/ faults' = faults \/ \E f \in FaultKind : Happens(f)
  BY DEF Next, Job, vars, Tick, TryLock, ReadPage, Check, Send, InsertLog, QueryFails, EndRun, Unlock, Hour,
         Crash, Boot, Disconnect, FaultKind
<1>2. Connected
  BY <1>1 DEF Connected, Happens
<1>3. ~Disconnect
  BY DEF Disconnect, Connected, Happens
<1> QED
  BY <1>2, <1>3

\* One run going at most per session of the lock: what the lock is for.
LEMMA HoldsStep == Types /\ Holds /\ [Next]_vars /\ ~Disconnect => Holds'
<1> SUFFICES ASSUME Types, Holds, [Next]_vars, ~Disconnect PROVE Holds'
  OBVIOUS
<1>a. run \in [Slot -> RunRecord] /\ lock.count \in Nat
  BY DEF Types, LockRecord, Free
<1>b. ASSUME lock' = lock, \A q \in Slot : Going(q)' => Going(q) PROVE Holds'
  BY <1>b DEF Holds
<1>1. ASSUME NEW r \in Slot, Tick(r) \/ ReadPage(r) \/ Send(r) \/ InsertLog(r) \/ QueryFails(r) \/ EndRun(r)
                             \/ \E x \in Item : Check(r, x)
      PROVE  Holds'
  <2>1. lock' = lock /\ (Going(r)' => Going(r))
    <3>1. CASE Tick(r)
      BY <1>a, <3>1 DEF Tick, Idle, Going
    <3>2. CASE ~Tick(r)
      BY <1>1, <3>2 DEF ReadPage, Send, InsertLog, QueryFails, EndRun, Check, Going
    <3> QED
      BY <3>1, <3>2
  <2>2. \A q \in Slot \ {r} : run'[q] = run[q]
    BY <1>1, <1>a DEF Tick, ReadPage, Send, InsertLog, QueryFails, EndRun, Check, Continue, Abort
  <2> QED
    BY <1>b, <2>1, <2>2 DEF Going
<1>2. ASSUME NEW r \in Slot, NEW c \in Conn, TryLock(r, c) PROVE Holds'
  <2>1. CASE ~MayTake(<<r[1], c>>)
    BY <1>2, <1>a, <1>b, <2>1 DEF TryLock, Going, Idle
  <2>2. CASE MayTake(<<r[1], c>>)
    <3>1. /\ lock' = [session |-> <<r[1], c>>, count |-> lock.count + 1]
          /\ \A q \in Slot \ {r} : run'[q] = run[q]
      BY <1>2, <1>a, <2>2 DEF TryLock
    <3>2. \A q \in Slot : Going(q) => q[1] = r[1] /\ lock.count >= 1
      <4> SUFFICES ASSUME NEW q \in Slot, Going(q) PROVE q[1] = r[1] /\ lock.count >= 1
        OBVIOUS
      <4>1. lock.session \in {q[1]} \X Conn /\ lock.count >= 1
        BY DEF Holds
      <4>2. lock.session = <<r[1], c>>
        <5>1. lock.session # NoSession
          BY <4>1, NoSessionIsNone
        <5> QED
          BY <2>2, <5>1 DEF MayTake
      <4> QED
        BY <4>1, <4>2
    <3>3. \A q \in Slot : Going(q)' => q = r \/ Going(q)
      BY <3>1 DEF Going
    <3>4. lock'.session = <<r[1], c>> /\ lock'.count = lock.count + 1
      BY <3>1
    <3>5. \A q \in Slot : Going(q)' => q[1] = r[1]
      BY <3>2, <3>3
    <3>6. \A p, q \in Slot : p # q /\ Going(p)' /\ Going(q)' => lock'.count >= 2
      BY <1>a, <3>2, <3>3, <3>4
    <3> QED
      BY <1>a, <3>4, <3>5, <3>6 DEF Holds
  <2> QED
    BY <2>1, <2>2
<1>3. ASSUME NEW r \in Slot, NEW c \in Conn, Unlock(r, c) PROVE Holds'
  <2>1. run[r].at = "unlock" /\ run'[r].at = "idle" /\ \A q \in Slot \ {r} : run'[q] = run[q]
    BY <1>3, <1>a, IdleRecord DEF Unlock
  <2>2. Going(r) /\ \A q \in Slot : Going(q)' => q # r /\ Going(q)
    BY <2>1 DEF Going
  <2>3. CASE lock' = lock
    BY <1>b, <2>2, <2>3
  <2>4. CASE lock' # lock
    <3>1. \A q \in Slot : Going(q)' => lock.count >= 2 /\ q[1] = r[1]
      <4> SUFFICES ASSUME NEW q \in Slot, Going(q)' PROVE lock.count >= 2 /\ q[1] = r[1]
        OBVIOUS
      <4>1. q # r /\ Going(q)
        BY <2>2
      <4>2. lock.session \in {q[1]} \X Conn /\ lock.session \in {r[1]} \X Conn
        BY <2>2, <4>1 DEF Holds
      <4> QED
        BY <2>2, <4>1, <4>2 DEF Holds
    <3>2. \A p, q \in Slot : Going(p)' /\ Going(q)' => p = q
      <4> SUFFICES ASSUME NEW p \in Slot, NEW q \in Slot, Going(p)', Going(q)' PROVE p = q
        OBVIOUS
      <4>1. p # r /\ q # r /\ p[1] = r[1] /\ q[1] = r[1]
        BY <2>2, <3>1
      <4> QED
        BY <4>1 DEF Slot
    <3>3. lock.count >= 2 => lock' = [lock EXCEPT !.count = lock.count - 1]
      BY <1>3, <1>a, <2>4 DEF Unlock
    <3>4. lock.count >= 2 => lock'.session = lock.session /\ lock'.count = lock.count - 1
      BY <3>3 DEF Types, LockRecord, Free
    <3>5. \A q \in Slot : Going(q)' => lock.session \in {q[1]} \X Conn
      BY <2>2 DEF Holds
    <3> QED
      BY <1>a, <3>1, <3>2, <3>4, <3>5 DEF Holds
  <2> QED
    BY <2>3, <2>4
<1>4. ASSUME NEW p \in Server, Crash(p) PROVE Holds'
  <2>1. \A q \in Slot : Going(q)' => q[1] # p /\ Going(q)
    BY <1>4, <1>a, IdleRecord DEF Crash, Going
  <2>2. ASSUME NEW q \in Slot, Going(q)' PROVE lock' = lock
    <3>1. lock.session \in {q[1]} \X Conn /\ q[1] # p
      BY <2>1, <2>2 DEF Holds
    <3>2. lock.session \notin {p} \X Conn
      BY <3>1
    <3> QED
      BY <1>4, <3>2 DEF Crash, LockAfter
  <2> QED
    BY <2>1, <2>2 DEF Holds
<1>5. CASE Hour \/ (\E p \in Server : Boot(p)) \/ UNCHANGED vars
  BY <1>5, <1>b DEF Hour, Boot, vars, Going
<1> QED
  BY <1>1, <1>2, <1>3, <1>4, <1>5 DEF Next, Job

LEMMA MutexInvHolds == Spec => []MutexInv
<1>1. Init => MutexInv
  <2>1. Init => \A r \in Slot : ~Going(r)
    BY IdleRecord DEF Init, Going
  <2> QED
    BY <2>1, InitTypes DEF MutexInv, Holds
<1>2. MutexInv /\ [Next]_vars => MutexInv'
  BY TypesStep, HoldsStep, ConnectedStep DEF MutexInv
<1> QED
  BY <1>1, <1>2, PTL DEF Spec

\* The advisory lock excludes two servers from working at the same time, for
\* any number of servers, pool connections, leads and steps, and although runs
\* overlap and leave the lock behind: runEmailSequenceJob's try-lock and unlock.
\* Only the end of the connection that took the lock can break this.
THEOREM Mutex == Spec => []OneServerAtATime
<1>1. MutexInv => OneServerAtATime
  <2> SUFFICES ASSUME MutexInv, NEW q \in Slot, NEW r \in Slot, Connected, Going(q), Going(r)
               PROVE  q[1] = r[1]
    BY DEF OneServerAtATime
  <2>1. lock.session \in {q[1]} \X Conn /\ lock.session \in {r[1]} \X Conn
    BY DEF MutexInv, Holds
  <2> QED
    BY <2>1
<1> QED
  BY <1>1, MutexInvHolds, PTL

----------------------------------------------------------------------------
\* What Types leaves open: the clock and the days it gives to runs are bounded,
\* and only servers that run have a run, a timer to answer or the lock.
Working ==
    /\ hour \in 0..MaxHour
    /\ up \subseteq Server /\ due \subseteq up
    /\ \A r \in Slot : run[r].day \in 0..MaxHour /\ (run[r].at # "idle" => r[1] \in up)
    /\ lock # Free => lock.session[1] \in up
    /\ faults.count \in 0..MaxFaults /\ faults.kinds \subseteq FaultKind

\* daysSinceCreation never exceeds the hours.
LEMMA DayBounded == ASSUME NEW h \in 0..MaxHour PROVE h \div HoursPerDay \in 0..MaxHour
<1>1. HoursPerDay \in Nat /\ HoursPerDay >= 1 /\ h \in Nat /\ h <= MaxHour /\ MaxHour \in Nat
  BY SequencesAssumption
<1>2. h \div HoursPerDay \in Int /\ h \div HoursPerDay <= h /\ h \div HoursPerDay >= 0
  BY <1>1, SMTT(30)
<1> QED
  BY <1>1, <1>2

\* A fault is counted, and is of a known kind.
LEMMA HappensBounded ==
    ASSUME Working, NEW f \in FaultKind, Happens(f)
    PROVE  faults'.count \in 0..MaxFaults /\ faults'.kinds \subseteq FaultKind
BY SequencesAssumption DEF Working, Happens

\* Only Tick begins a run, on a server that runs, and only Crash stops a server,
\* with its runs and the lock its sessions had.
LEMMA WorkingStep == Types /\ Working /\ [Next]_vars => Working'
<1> SUFFICES ASSUME Types, Working, [Next]_vars PROVE Working'
  OBVIOUS
<1>a. run \in [Slot -> RunRecord] /\ lock \in LockRecord
  BY DEF Types
<1>b. Idle.at = "idle" /\ Idle.day \in 0..MaxHour
  BY SequencesAssumption DEF Idle
<1>c. ASSUME UNCHANGED <<hour, up, due, lock>>, faults' = faults \/ (\E f \in FaultKind : Happens(f)),
             NEW r \in Slot, run[r].at # "idle", \A q \in Slot \ {r} : run'[q] = run[q],
             run'[r].day \in 0..MaxHour
      PROVE  Working'
  <2>1. /\ faults'.count \in 0..MaxFaults
        /\ faults'.kinds \subseteq FaultKind
    BY <1>c, HappensBounded DEF Working
  <2> QED
    BY <1>c, <2>1 DEF Working
<1>1. ASSUME NEW r \in Slot, Tick(r) PROVE Working'
  <2>1. r[1] \in up
    BY <1>1 DEF Tick, Working
  <2>2. run'[r].day = hour \div HoursPerDay /\ \A q \in Slot \ {r} : run'[q] = run[q]
    BY <1>1, <1>a DEF Tick, Idle
  <2>3. run'[r].day \in 0..MaxHour
    BY <2>2, DayBounded DEF Working
  <2> QED
    BY <1>1, <2>1, <2>2, <2>3 DEF Tick, Working
<1>2. ASSUME NEW r \in Slot, NEW c \in Conn, TryLock(r, c) PROVE Working'
  <2>1. r[1] \in up /\ run[r].day \in 0..MaxHour
    BY <1>2 DEF TryLock, Working
  <2>2. run'[r].day \in 0..MaxHour /\ \A q \in Slot \ {r} : run'[q] = run[q]
    <3>1. CASE MayTake(<<r[1], c>>)
      BY <1>2, <1>a, <2>1, <3>1 DEF TryLock, RunRecord
    <3>2. CASE ~MayTake(<<r[1], c>>)
      BY <1>2, <1>a, <1>b, <3>2 DEF TryLock
    <3> QED
      BY <3>1, <3>2
  <2>3. lock' # Free => lock'.session[1] \in up
    BY <1>2, <2>1 DEF TryLock, Working
  <2> QED
    BY <1>2, <2>1, <2>2, <2>3 DEF TryLock, Working
<1>3. ASSUME NEW r \in Slot, ReadPage(r) \/ Send(r) \/ InsertLog(r) \/ QueryFails(r) \/ EndRun(r)
                             \/ \E x \in Item : Check(r, x)
      PROVE  Working'
  <2>1. run[r].at # "idle" /\ UNCHANGED <<hour, up, due, lock>> /\ (faults' = faults \/ (\E f \in FaultKind : Happens(f)))
    BY <1>3 DEF ReadPage, Send, InsertLog, QueryFails, EndRun, Check, FaultKind
  <2>2. \A q \in Slot \ {r} : run'[q] = run[q]
    BY <1>3, <1>a DEF ReadPage, Send, InsertLog, QueryFails, EndRun, Check, Continue, Abort
  <2>3. run'[r].day = run[r].day
    <3>1. CASE ReadPage(r)
      <4>1. PICK items \in SUBSET Item :
                 run' = [run EXCEPT ![r].at = "next", ![r].page = items, ![r].todo = items]
        BY <3>1 DEF ReadPage
      <4> QED
        BY <4>1, <1>a DEF RunRecord
    <3>2. CASE Send(r) \/ EndRun(r)
      BY <3>2, <1>a DEF Send, EndRun, RunRecord
    <3>3. CASE InsertLog(r)
      BY <3>3, <1>a DEF InsertLog, Abort, RunRecord
    <3>4. ASSUME NEW x \in Item, Check(r, x) PROVE run'[r].day = run[r].day
      BY <3>4, <1>a DEF Check, Continue, RunRecord
    <3>5. CASE QueryFails(r)
      BY <3>5, <1>a DEF QueryFails, Abort, RunRecord
    <3> QED
      BY <1>3, <3>1, <3>2, <3>3, <3>4, <3>5
  <2> QED
    BY <1>c, <2>1, <2>2, <2>3 DEF Working
<1>4. ASSUME NEW r \in Slot, NEW c \in Conn, Unlock(r, c) PROVE Working'
  <2>1. lock' # Free => lock' = lock \/ (lock # Free /\ lock'.session = lock.session)
    <3>1. CASE lock.session # <<r[1], c>>
      BY <1>4, <3>1 DEF Unlock
    <3>2. CASE lock.session = <<r[1], c>>
      <4>1. lock # Free /\ lock \in [session : Session, count : Nat \ {0}]
        BY <1>a, <3>2 DEF LockRecord, Free, NoSession
      <4> QED
        BY <1>4, <3>2, <4>1 DEF Unlock
    <3> QED
      BY <3>1, <3>2
  <2>2. lock' # Free => lock'.session[1] \in up
    BY <2>1 DEF Working
  <2> QED
    BY <1>4, <1>a, <1>b, <2>2 DEF Unlock, Working
<1>5. ASSUME NEW p \in Server, Crash(p) PROVE Working'
  <2>1. lock' # Free => lock' = lock /\ lock.session[1] \in up'
    <3> SUFFICES ASSUME lock' # Free PROVE lock' = lock /\ lock.session[1] \in up'
      OBVIOUS
    <3>1. lock' = lock /\ lock # Free /\ lock.session \notin {p} \X Conn
      BY <1>5 DEF Crash, LockAfter
    <3>2. lock.session \in Server \X Conn
      BY <1>a, <3>1 DEF LockRecord, Session
    <3>3. lock.session[1] # p
      BY <3>1, <3>2
    <3> QED
      BY <1>5, <3>1, <3>3 DEF Crash, Working
  <2>2. \A r \in Slot : run'[r].day \in 0..MaxHour /\ (run'[r].at # "idle" => r[1] \in up')
    BY <1>5, <1>b DEF Crash, Working
  <2>3. faults'.count \in 0..MaxFaults /\ faults'.kinds \subseteq FaultKind
    BY <1>5, HappensBounded DEF Crash, FaultKind
  <2> QED
    BY <1>5, <2>1, <2>2, <2>3 DEF Crash, Working
<1>6. ASSUME NEW p \in Server, Boot(p) PROVE Working'
  BY <1>6 DEF Boot, Working
<1>7. CASE Hour
  <2>1. hour' \in 0..MaxHour
    BY <1>7, SequencesAssumption DEF Hour, Working
  <2> QED
    BY <1>7, <2>1 DEF Hour, Working
<1>8. CASE Disconnect
  <2>1. faults'.count \in 0..MaxFaults /\ faults'.kinds \subseteq FaultKind
    BY <1>8, HappensBounded DEF Disconnect, FaultKind
  <2> QED
    BY <1>8, <2>1 DEF Disconnect, Working
<1>9. CASE UNCHANGED vars
  BY <1>9 DEF vars, Working
<1> QED
  BY <1>1, <1>2, <1>3, <1>4, <1>5, <1>6, <1>7, <1>8, <1>9 DEF Next, Job

\* TypeOK of the sequences job: among others, no lock outlives the process whose
\* session took it.
THEOREM SequencesTyped == Spec => []TypeOK
<1>1. Init => Working
  <2> SUFFICES ASSUME Init PROVE Working
    OBVIOUS
  <2>1. \A r \in Slot : run[r] = Idle
    BY DEF Init
  <2> QED
    BY <2>1, SequencesAssumption DEF Init, Working, Idle
<1>2. MutexInv => Types
  BY DEF MutexInv
<1>3. Types /\ Working => TypeOK
  <2> SUFFICES ASSUME Types, Working PROVE TypeOK
    OBVIOUS
  <2>1. \A r \in Slot : run[r] \in
          [ at : {"idle", "lock", "page", "next", "send", "log", "unlock"}, day : 0..MaxHour,
            page : SUBSET Item, todo : SUBSET Item, item : Item \cup {NoItem}, aborted : BOOLEAN ]
    BY DEF Types, Working, RunRecord
  <2>2. lock = Free \/ (lock.session \in {s \in Session : s[1] \in up} /\ lock.count > 0)
    BY DEF Types, Working, LockRecord
  <2> QED
    BY <2>1, <2>2 DEF Types, Working, TypeOK
<1> QED
  BY <1>1, <1>2, <1>3, WorkingStep, MutexInvHolds, PTL DEF Spec

----------------------------------------------------------------------------
\* While no overlap and no fault has happened: at most one run is going; what
\* it is about to send or to log has no log; and a step was delivered at most
\* once, and then it has a log or is about to get it.
Single == ~overlap => \A q, r \in Slot : Going(q) /\ Going(r) => q = r

Quiet == ~overlap /\ faults.kinds \subseteq {"query"}

Unlogged == \A r \in Slot : run[r].at \in {"send", "log"} => run[r].item \notin logs

Accounted ==
    \A x \in Item :
        /\ sends[x] <= 1
        /\ sends[x] = 1 => x \in logs \/ \E r \in Slot : run[r].at = "log" /\ run[r].item = x

SentInv == (Connected => Single) /\ (Quiet => Unlogged /\ Accounted)

LEMMA SingleStep == Types /\ Holds /\ Single /\ [Next]_vars /\ ~Disconnect => Single'
<1> SUFFICES ASSUME Types, Holds, Single, [Next]_vars, ~Disconnect PROVE Single'
  OBVIOUS
<1>a. run \in [Slot -> RunRecord] /\ overlap \in BOOLEAN
  BY DEF Types
<1>b. ASSUME overlap' = overlap, \A q \in Slot : Going(q)' => Going(q) PROVE Single'
  BY <1>b DEF Single
<1>1. ASSUME NEW r \in Slot, Tick(r) \/ ReadPage(r) \/ Send(r) \/ InsertLog(r) \/ QueryFails(r) \/ EndRun(r)
                             \/ \E x \in Item : Check(r, x)
      PROVE  Single'
  <2>1. overlap' = overlap /\ (Going(r)' => Going(r))
    <3>1. CASE Tick(r)
      BY <1>a, <3>1 DEF Tick, Idle, Going
    <3>2. CASE ~Tick(r)
      BY <1>1, <3>2 DEF ReadPage, Send, InsertLog, QueryFails, EndRun, Check, Going
    <3> QED
      BY <3>1, <3>2
  <2>2. \A q \in Slot \ {r} : run'[q] = run[q]
    BY <1>1, <1>a DEF Tick, ReadPage, Send, InsertLog, QueryFails, EndRun, Check, Continue, Abort
  <2> QED
    BY <1>b, <2>1, <2>2 DEF Going
<1>2. ASSUME NEW r \in Slot, NEW c \in Conn, TryLock(r, c) PROVE Single'
  <2>1. CASE ~MayTake(<<r[1], c>>)
    BY <1>2, <1>a, <1>b, <2>1, IdleRecord DEF TryLock, Going
  <2>2. CASE MayTake(<<r[1], c>>)
    <3> SUFFICES ASSUME ~overlap' PROVE \A q \in Slot : Going(q)' => q = r
      BY DEF Single
    <3>1. \A q \in Slot : q[1] = r[1] => ~Going(q)
      BY <1>2, <2>2 DEF TryLock
    <3>2. \A q \in Slot : Going(q) => q[1] = r[1]
      <4> SUFFICES ASSUME NEW q \in Slot, Going(q) PROVE q[1] = r[1]
        OBVIOUS
      <4>1. lock.session \in {q[1]} \X Conn
        BY DEF Holds
      <4>2. lock.session = <<r[1], c>>
        BY <2>2, <4>1, NoSessionIsNone DEF MayTake
      <4> QED
        BY <4>1, <4>2
    <3>3. \A q \in Slot \ {r} : run'[q] = run[q]
      BY <1>2, <1>a, <2>2 DEF TryLock
    <3> QED
      BY <3>1, <3>2, <3>3 DEF Going
  <2> QED
    BY <2>1, <2>2
<1>3. ASSUME NEW r \in Slot, NEW c \in Conn, Unlock(r, c) PROVE Single'
  BY <1>3, <1>a, <1>b, IdleRecord DEF Unlock, Going
<1>4. ASSUME NEW p \in Server, Crash(p) PROVE Single'
  BY <1>4, <1>a, <1>b, IdleRecord DEF Crash, Going
<1>5. CASE Hour \/ (\E p \in Server : Boot(p)) \/ UNCHANGED vars
  BY <1>5, <1>b DEF Hour, Boot, vars, Going
<1> QED
  BY <1>1, <1>2, <1>3, <1>4, <1>5 DEF Next, Job

LEMMA AccountedStep ==
    MutexInv /\ SentInv /\ [Next]_vars /\ Quiet' => Quiet /\ Unlogged' /\ Accounted'
<1> SUFFICES ASSUME MutexInv, SentInv, [Next]_vars, Quiet' PROVE Quiet /\ Unlogged' /\ Accounted'
  OBVIOUS
<1>a. /\ run \in [Slot -> RunRecord] /\ sends \in [Item -> Nat] /\ overlap \in BOOLEAN
      /\ \A r \in Slot : run[r].at \in {"send", "log"} => run[r].item \in Item
  BY DEF MutexInv, Types
<1>b. ASSUME Quiet, UNCHANGED <<logs, sends>>, \A q \in Slot : run'[q] = run[q] \/
                (run[q].at # "log" /\ run'[q].at \notin {"send", "log"})
      PROVE  Unlogged' /\ Accounted'
  <2>1. Unlogged /\ Accounted
    BY <1>b DEF SentInv
  <2>2. Unlogged'
    BY <1>b, <2>1 DEF Unlogged
  <2>3. \A x \in Item : (\E r \in Slot : run[r].at = "log" /\ run[r].item = x)
                           => \E r \in Slot : run'[r].at = "log" /\ run'[r].item = x
    BY <1>b
  <2> QED
    BY <1>b, <2>1, <2>2, <2>3 DEF Accounted
<1>1. ASSUME NEW r \in Slot, Tick(r) PROVE Quiet /\ Unlogged' /\ Accounted'
  BY <1>1, <1>a, <1>b DEF Tick, Idle, Quiet
<1>2. ASSUME NEW r \in Slot, NEW c \in Conn, TryLock(r, c) PROVE Quiet /\ Unlogged' /\ Accounted'
  <2>1. Quiet /\ UNCHANGED <<logs, sends>>
    BY <1>2, <1>a DEF TryLock, Quiet
  <2>2. run[r].at = "lock"
    BY <1>2 DEF TryLock
  <2>3. run'[r].at \in {"page", "idle"} /\ \A q \in Slot \ {r} : run'[q] = run[q]
    <3>1. CASE MayTake(<<r[1], c>>)
      <4>1. run' = [run EXCEPT ![r].at = "page"]
        BY <1>2, <3>1 DEF TryLock
      <4> QED
        BY <4>1, <1>a DEF RunRecord
    <3>2. CASE ~MayTake(<<r[1], c>>)
      <4>1. run' = [run EXCEPT ![r] = Idle]
        BY <1>2, <3>2 DEF TryLock
      <4> QED
        BY <4>1, <1>a, IdleRecord
    <3> QED
      BY <3>1, <3>2
  <2>4. \A q \in Slot : run'[q] = run[q] \/ (run[q].at # "log" /\ run'[q].at \notin {"send", "log"})
    BY <2>2, <2>3
  <2> QED
    BY <1>b, <2>1, <2>4
<1>3. ASSUME NEW r \in Slot, ReadPage(r) \/ EndRun(r) PROVE Quiet /\ Unlogged' /\ Accounted'
  <2>1. Quiet /\ UNCHANGED <<logs, sends>>
    BY <1>3, <1>a DEF ReadPage, EndRun, Quiet
  <2>2. run[r].at \in {"page", "next"}
    BY <1>3 DEF ReadPage, EndRun
  <2>3. run'[r].at \in {"next", "unlock"} /\ \A q \in Slot \ {r} : run'[q] = run[q]
    <3>1. CASE ReadPage(r)
      <4>1. PICK items \in SUBSET Item :
                 run' = [run EXCEPT ![r].at = "next", ![r].page = items, ![r].todo = items]
        BY <3>1 DEF ReadPage
      <4> QED
        BY <4>1, <1>a DEF RunRecord
    <3>2. CASE EndRun(r)
      BY <3>2, <1>a DEF EndRun, RunRecord
    <3> QED
      BY <1>3, <3>1, <3>2
  <2>4. \A q \in Slot : run'[q] = run[q] \/ (run[q].at # "log" /\ run'[q].at \notin {"send", "log"})
    BY <2>2, <2>3
  <2> QED
    BY <1>b, <2>1, <2>4
<1>4. ASSUME NEW r \in Slot, NEW x \in Item, Check(r, x) PROVE Quiet /\ Unlogged' /\ Accounted'
  <2>1. Quiet /\ Unlogged /\ Accounted /\ UNCHANGED <<logs, sends>>
    BY <1>4 DEF Check, Quiet, SentInv
  <2>2. run[r].at = "next" /\ \A q \in Slot \ {r} : run'[q] = run[q]
    BY <1>4, <1>a DEF Check, Continue
  <2>3. run'[r].at = "next" \/ (run'[r].at \in {"send", "log"} /\ run'[r].item = x /\ x \notin logs)
    BY <1>4, <1>a DEF Check, Continue, Logged, RunRecord
  <2>4. Unlogged'
    BY <2>1, <2>2, <2>3 DEF Unlogged
  <2>5. \A y \in Item : (\E q \in Slot : run[q].at = "log" /\ run[q].item = y)
                           => \E q \in Slot : run'[q].at = "log" /\ run'[q].item = y
    BY <2>2
  <2> QED
    BY <2>1, <2>4, <2>5 DEF Accounted
<1>5. ASSUME NEW r \in Slot, Send(r) PROVE Quiet /\ Unlogged' /\ Accounted'
  <2> DEFINE x == run[r].item
  <2>1. Quiet /\ Unlogged /\ Accounted /\ logs' = logs
    BY <1>5 DEF Send, Quiet, SentInv
  <2>2. run[r].at = "send" /\ x \in Item /\ x \notin logs
    BY <1>5, <1>a, <2>1 DEF Send, Unlogged
  <2>3. run'[r].at = "log" /\ run'[r].item = x /\ \A q \in Slot \ {r} : run'[q] = run[q]
    BY <1>5, <1>a DEF Send, RunRecord
  <2>4. \A q \in Slot : run[q].at # "log"
    <3>1. \A q \in Slot : Going(q) => q = r
      BY <2>1, <2>2 DEF SentInv, Single, Quiet, Connected, Going
    <3> QED
      BY <2>2, <3>1 DEF Going
  <2>5. sends[x] = 0
    BY <1>a, <2>1, <2>2, <2>4 DEF Accounted
  <2>6. sends'[x] \in {0, 1} /\ \A y \in Item \ {x} : sends'[y] = sends[y]
    BY <1>5, <1>a, <2>2, <2>5 DEF Send
  <2>7. Unlogged'
    BY <2>1, <2>2, <2>3 DEF Unlogged
  <2>8. Accounted'
    BY <1>a, <2>1, <2>3, <2>4, <2>6 DEF Accounted
  <2> QED
    BY <2>1, <2>7, <2>8
<1>6. ASSUME NEW r \in Slot, InsertLog(r) PROVE Quiet /\ Unlogged' /\ Accounted'
  <2> DEFINE x == run[r].item
  <2>1. faults' = faults /\ overlap' = overlap /\ sends' = sends /\ run[r].at = "log"
    BY <1>6 DEF InsertLog, Happens, Quiet
  <2>2. Quiet /\ Unlogged /\ Accounted /\ x \notin logs /\ x \in Item
    BY <1>a, <2>1 DEF Quiet, SentInv, Unlogged
  <2>3. logs' = logs \cup {x} /\ run' = [run EXCEPT ![r].at = "next", ![r].todo = @ \ {x}, ![r].item = NoItem]
    BY <1>6, <2>1, <2>2 DEF InsertLog, Happens, Quiet
  <2>4. run'[r].at = "next" /\ \A q \in Slot \ {r} : run'[q] = run[q]
    BY <1>a, <2>3 DEF RunRecord
  <2>5. \A q \in Slot : Going(q) => q = r
    BY <2>1, <2>2 DEF SentInv, Single, Quiet, Connected, Going
  <2>6. Unlogged'
    BY <2>4, <2>5 DEF Unlogged, Going
  <2>7. \A q \in Slot : run[q].at = "log" => q = r
    BY <2>5 DEF Going
  <2>8. Accounted'
    BY <2>1, <2>2, <2>3, <2>7 DEF Accounted
  <2> QED
    BY <2>2, <2>6, <2>8
<1>11. ASSUME NEW r \in Slot, QueryFails(r) PROVE Quiet /\ Unlogged' /\ Accounted'
  <2>1. Quiet /\ run[r].at # "log" /\ UNCHANGED <<logs, sends>>
    BY <1>11 DEF QueryFails, Happens, Quiet
  <2>2. run'[r].at = "unlock" /\ \A q \in Slot \ {r} : run'[q] = run[q]
    BY <1>11, <1>a DEF QueryFails, Abort, RunRecord
  <2>3. \A q \in Slot : run'[q] = run[q] \/ (run[q].at # "log" /\ run'[q].at \notin {"send", "log"})
    BY <2>1, <2>2
  <2> QED
    BY <1>b, <2>1, <2>3
<1>7. ASSUME NEW r \in Slot, NEW c \in Conn, Unlock(r, c) PROVE Quiet /\ Unlogged' /\ Accounted'
  BY <1>7, <1>a, <1>b, IdleRecord DEF Unlock, Quiet
<1>8. ASSUME NEW p \in Server, Crash(p) PROVE FALSE
  BY <1>8 DEF Crash, Happens, Quiet
<1>9. CASE Hour \/ (\E p \in Server : Boot(p)) \/ UNCHANGED vars
  BY <1>9, <1>b DEF Hour, Boot, vars, Quiet
<1>10. CASE Disconnect
  BY <1>10 DEF Disconnect, Happens, Quiet
<1> QED
  BY <1>1, <1>2, <1>3, <1>4, <1>5, <1>6, <1>7, <1>8, <1>9, <1>10, <1>11 DEF Next, Job

\* Nobody gets a step of a sequence twice unless a server died, its connection broke, a log could
\* not be inserted or a run met the next one of its own server: what the check of
\* crm_sequence_logs, the advisory lock and the unique index achieve together.
THEOREM NoDoubleSends == Spec => []SentOnce
<1>1. Init => SentInv
  <2>1. Init => \A r \in Slot : run[r].at = "idle"
    BY IdleRecord DEF Init
  <2>2. Init => Single /\ Unlogged
    BY <2>1 DEF Single, Unlogged, Going
  <2>3. Init => Accounted
    BY DEF Init, Accounted
  <2> QED
    BY <2>2, <2>3 DEF SentInv
<1>2. MutexInv /\ SentInv /\ [Next]_vars => SentInv'
  <2> SUFFICES ASSUME MutexInv, SentInv, [Next]_vars PROVE SentInv'
    OBVIOUS
  <2>1. Connected' => Single'
    BY SingleStep, ConnectedStep DEF SentInv, MutexInv
  <2>2. Quiet' => Unlogged' /\ Accounted'
    BY AccountedStep
  <2> QED
    BY <2>1, <2>2 DEF SentInv
<1>3. MutexInv /\ SentInv => SentOnce
  <2> SUFFICES ASSUME MutexInv, SentInv, NEW x \in Item, sends[x] > 1, faults.kinds \ {"query"} = {} PROVE overlap
    BY DEF SentOnce
  <2>1. overlap \in BOOLEAN /\ sends[x] \in Nat
    BY DEF MutexInv, Types
  <2> QED
    BY <2>1 DEF SentInv, Quiet, Accounted
<1> QED
  BY <1>1, <1>2, <1>3, MutexInvHolds, PTL DEF Spec

-----------------------------------------------------------------------------
\* Whatever a run has taken off its list has a log, or nothing it can be sent to.
Covered(q, S) == \A x \in q.page : x \in q.todo \/ x \in S \/ x[1] \in Unreachable

CoverInv ==
    \A r \in Slot : /\ run[r].at \in {"next", "send", "log"} => Covered(run[r], logs)
                    /\ run[r].at = "unlock" /\ ~run[r].aborted => Covered(run[r], logs) /\ run[r].todo = {}

\* Logs are only added, so what other runs do takes nothing away from a run.
LEMMA OthersCovered ==
    ASSUME CoverInv, NEW r \in Slot, \A q \in Slot \ {r} : run'[q] = run[q], logs \subseteq logs',
           /\ run'[r].at \in {"next", "send", "log"} => Covered(run'[r], logs')
           /\ run'[r].at = "unlock" /\ ~run'[r].aborted => Covered(run'[r], logs') /\ run'[r].todo = {}
    PROVE  CoverInv'
BY DEF CoverInv, Covered

\* Only a log, or finding a lead that cannot be reached or has its log, takes an
\* item off the list; an error of a query marks the run as aborted.
LEMMA CoverStep == Types /\ CoverInv /\ [Next]_vars => CoverInv'
<1> SUFFICES ASSUME Types, CoverInv, [Next]_vars PROVE CoverInv'
  OBVIOUS
<1>a. run \in [Slot -> RunRecord]
  BY DEF Types
<1>1. ASSUME NEW r \in Slot, Tick(r) PROVE CoverInv'
  <2>1. /\ run' = [run EXCEPT ![r] = [Idle EXCEPT !.at = "lock", !.day = hour \div HoursPerDay]]
        /\ logs' = logs
    BY <1>1 DEF Tick
  <2>2. run'[r].at = "lock"
    BY <1>a, <2>1 DEF Idle
  <2> QED
    BY <1>a, <2>1, <2>2, OthersCovered
<1>2. ASSUME NEW r \in Slot, NEW c \in Conn, TryLock(r, c) PROVE CoverInv'
  <2>1. logs' = logs /\ \A q \in Slot \ {r} : run'[q] = run[q]
    BY <1>a, <1>2 DEF TryLock
  <2>2. run'[r].at \in {"page", "idle"}
    BY <1>a, <1>2 DEF TryLock, Idle, RunRecord
  <2> QED
    BY <2>1, <2>2, OthersCovered
<1>3. ASSUME NEW r \in Slot, ReadPage(r) PROVE CoverInv'
  <2>1. PICK items \in SUBSET Item :
             run' = [run EXCEPT ![r].at = "next", ![r].page = items, ![r].todo = items]
    BY <1>3 DEF ReadPage
  <2>2. run'[r].at = "next" /\ run'[r].page = items /\ run'[r].todo = items
    BY <1>a, <2>1 DEF RunRecord
  <2>3. logs' = logs /\ \A q \in Slot \ {r} : run'[q] = run[q]
    BY <1>a, <1>3, <2>1 DEF ReadPage
  <2> QED
    BY <2>2, <2>3, OthersCovered DEF Covered
<1>4. ASSUME NEW r \in Slot, NEW x \in Item, Check(r, x) PROVE CoverInv'
  <2>1. /\ run[r].at = "next" /\ logs' = logs
        /\ \A q \in Slot \ {r} : run'[q] = run[q]
    BY <1>a, <1>4 DEF Check, Continue
  <2>2. run'[r].at \in {"next", "send", "log"} /\ run'[r].page = run[r].page
    BY <1>a, <1>4 DEF Check, Continue, RunRecord
  <2>3. \A y \in run[r].todo : y \in run'[r].todo \/ y \in logs \/ y[1] \in Unreachable
    BY <1>a, <1>4 DEF Check, Continue, Logged, RunRecord
  <2>4. Covered(run[r], logs)
    BY <2>1 DEF CoverInv
  <2>5. Covered(run'[r], logs')
    BY <2>1, <2>2, <2>3, <2>4 DEF Covered
  <2> QED
    BY <2>1, <2>2, <2>5, OthersCovered
<1>5. ASSUME NEW r \in Slot, Send(r) PROVE CoverInv'
  <2>1. run' = [run EXCEPT ![r].at = "log"] /\ run[r].at = "send" /\ logs' = logs
    BY <1>5 DEF Send
  <2>2. run'[r].at = "log" /\ run'[r].page = run[r].page /\ run'[r].todo = run[r].todo
    BY <1>a, <2>1 DEF RunRecord
  <2>3. Covered(run[r], logs)
    BY <2>1 DEF CoverInv
  <2>4. Covered(run'[r], logs')
    BY <2>1, <2>2, <2>3 DEF Covered
  <2> QED
    BY <1>a, <2>1, <2>2, <2>4, OthersCovered
<1>6. ASSUME NEW r \in Slot, InsertLog(r) PROVE CoverInv'
  <2>1. run[r].at = "log"
    BY <1>6 DEF InsertLog
  <2>2. CASE Abort(r) /\ logs' = logs
    <3>1. run'[r].at = "unlock" /\ run'[r].aborted /\ \A q \in Slot \ {r} : run'[q] = run[q]
      BY <1>a, <2>2 DEF Abort, RunRecord
    <3> QED
      BY <2>2, <3>1, OthersCovered
  <2>3. CASE /\ logs' = logs \cup {run[r].item}
             /\ run' = [run EXCEPT ![r].at = "next", ![r].todo = @ \ {run[r].item}, ![r].item = NoItem]
    <3>1. /\ run'[r].at = "next" /\ run'[r].page = run[r].page
          /\ run'[r].todo = run[r].todo \ {run[r].item}
      BY <1>a, <2>3 DEF RunRecord
    <3>2. Covered(run[r], logs)
      BY <2>1 DEF CoverInv
    <3>3. Covered(run'[r], logs')
      BY <2>3, <3>1, <3>2 DEF Covered
    <3> QED
      BY <1>a, <2>3, <3>1, <3>3, OthersCovered
  <2> QED
    BY <1>6, <2>2, <2>3 DEF InsertLog
<1>7. ASSUME NEW r \in Slot, EndRun(r) PROVE CoverInv'
  <2>1. run[r].at = "next" /\ run[r].todo = {} /\ run' = [run EXCEPT ![r].at = "unlock"] /\ logs' = logs
    BY <1>7 DEF EndRun
  <2>2. run'[r].at = "unlock" /\ run'[r].page = run[r].page /\ run'[r].todo = {}
    BY <1>a, <2>1 DEF RunRecord
  <2>3. Covered(run[r], logs)
    BY <2>1 DEF CoverInv
  <2>4. Covered(run'[r], logs')
    BY <2>1, <2>2, <2>3 DEF Covered
  <2> QED
    BY <1>a, <2>1, <2>2, <2>4, OthersCovered
<1>8. ASSUME NEW r \in Slot, NEW c \in Conn, Unlock(r, c) PROVE CoverInv'
  <2>1. run' = [run EXCEPT ![r] = Idle] /\ logs' = logs
    BY <1>8 DEF Unlock
  <2>2. run'[r].at = "idle"
    BY <1>a, <2>1, IdleRecord
  <2> QED
    BY <1>a, <2>1, <2>2, OthersCovered
<1>9. ASSUME NEW p \in Server, Crash(p) PROVE CoverInv'
  <2>1. logs' = logs /\ \A r \in Slot : run'[r] = run[r] \/ run'[r].at = "idle"
    BY <1>9, IdleRecord DEF Crash
  <2> QED
    BY <2>1 DEF CoverInv, Covered
<1>10. CASE UNCHANGED <<run, logs>>
  BY <1>10 DEF CoverInv, Covered
<1>11. ASSUME NEW r \in Slot, QueryFails(r) PROVE CoverInv'
  <2>1. run'[r].at = "unlock" /\ run'[r].aborted /\ logs' = logs
    BY <1>11, <1>a DEF QueryFails, Abort, RunRecord
  <2>2. \A q \in Slot \ {r} : run'[q] = run[q]
    BY <1>11, <1>a DEF QueryFails, Abort
  <2> QED
    BY <2>1, <2>2, OthersCovered
<1> QED
  BY <1>1, <1>2, <1>3, <1>4, <1>5, <1>6, <1>7, <1>8, <1>9, <1>10, <1>11
  DEF Next, Job, Hour, Disconnect, Boot, vars

\* A run that comes to its end without an error has logged every reachable lead of
\* its page, for any page and whatever other runs, users and faults do meanwhile.
THEOREM PageLogged == Spec => []RunLogsAll
<1>1. Init => CoverInv
  <2>1. Init => \A r \in Slot : run[r].at = "idle"
    BY IdleRecord DEF Init
  <2> QED
    BY <2>1 DEF CoverInv
<1>2. CoverInv => RunLogsAll
  BY DEF CoverInv, Covered, RunLogsAll
<1>3. MutexInv => Types
  BY DEF MutexInv
<1> QED
  BY <1>1, <1>2, <1>3, CoverStep, MutexInvHolds, PTL DEF Spec
=============================================================================
