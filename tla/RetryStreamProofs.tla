-------------------------- MODULE RetryStreamProofs ---------------------------
(* What holds of the retry queue on a Redis stream, for any number of        *)
(* retries, containers, attempts and faults.                                 *)
(*                                                                           *)
(* A message is handed out once because the group's cursor moves past what   *)
(* is read: OneHolder follows from that and from TypeInv. For the rest a     *)
(* retry is looked at by its places: with a container that has yet to send   *)
(* it, waiting in the stream, or in the hands of a container whose run has   *)
(* returned and whose outcome is still to be noted. Every step has one of a  *)
(* few effects on the places of one retry, and a lost XACK is the one fault  *)
(* that lets a retry be in two. What the policy sees of a retry (EntryOf) is *)
(* read off its place, so each effect becomes a step of the policy or one it *)
(* does not see.                                                             *)
EXTENDS RetryStream, SequenceTheorems, WellFoundedInduction, FiniteSetTheorems, TLAPS

(* The run of a message has returned, and its outcome is still to be noted.  *)
Handed(w) == worker[w].at \in {"success", "again"}

Working(w) == worker[w].at \in {"next", "run", "success", "again"}

(* What the record of a container says of its place: whether it has work     *)
(* left, what of it is pending for the container, and that what it holds was *)
(* due when the drain began.                                                 *)
Shape(w) ==
    /\ worker[w].todo \subseteq 1..cursor
    /\ worker[w].at \in {"down", "gone"} => sending[w] = {}
    /\ worker[w].at = "down" => pel[w] = {}
    /\ Working(w) => worker[w].todo # {}
    /\ worker[w].at \in {"block", "next", "run"} => worker[w].todo \subseteq pel[w]
    /\ Handed(w) => worker[w].todo \ {Current(w)} \subseteq pel[w]
    /\ Held(w) => Current(w) \in worker[w].now

(* Every message is of an accepted retry.                                    *)
Named == \A i \in Id : stream[i].ticket \in accepted

(* The types, and the shape of the containers.                               *)
TypeInv ==
    /\ TypeOK
    /\ Named
    /\ \A w \in Worker : Shape(w)

(* The order of the stream has a first id.                                   *)
LEMMA MinOf ==
  ASSUME NEW S \in SUBSET Nat, S # {}
  PROVE  Min(S) \in S /\ \A i \in S : Min(S) <= i
<1>1. PICK i \in S : \A j \in S : ~(j < i)
  <2>1. IsWellFoundedOn(OpToRel(<, Nat), Nat)
    BY NatLessThanWellFounded
  <2>2. PICK i \in S : \A j \in S : ~(<<j, i>> \in OpToRel(<, Nat))
    BY <2>1, WFMin
  <2> QED
    BY <2>2 DEF OpToRel
<1>2. \E m \in S : \A j \in S : m <= j
  BY <1>1
<1> QED
  BY <1>2 DEF Min

(* The message a container works on is one of its todo, and of the stream.   *)
LEMMA CurrentIn ==
  ASSUME TypeInv, NEW w \in Worker, worker[w].todo # {}
  PROVE  Current(w) \in worker[w].todo /\ Current(w) \in 1..cursor /\ Current(w) \in Id
<1>1. worker[w].todo \subseteq 1..cursor /\ 1..cursor \subseteq Nat /\ 1..cursor \subseteq Id
  BY DEF TypeInv, Shape, TypeOK, Id
<1> QED
  BY <1>1, MinOf DEF Current

(* What XREADGROUP with ">" hands over is what it moves the group past.      *)
LEMMA NewBatch ==
  ASSUME TypeInv, cursor < Len(stream)
  PROVE  /\ Batch(cursor+1..Len(stream)) = cursor+1..Delivered
         /\ Delivered \in cursor+1..Len(stream)
<1>1. cursor \in Nat /\ Len(stream) \in Nat /\ BatchSize \in Nat \ {0}
  BY StreamAssumption DEF TypeInv, TypeOK
<1>2. Delivered \in cursor+1..Len(stream)
  BY <1>1 DEF Delivered
<1>3. ASSUME NEW i \in cursor+1..Len(stream)
      PROVE  Cardinality({j \in cursor+1..Len(stream) : j < i}) < BatchSize <=> i <= Delivered
  <2> DEFINE B == {j \in cursor+1..Len(stream) : j < i}
  <2>1. B = (cursor+1)..(i-1)
    BY <1>1
  <2>2. Cardinality((cursor+1)..(i-1)) = IF cursor+1 > i-1 THEN 0 ELSE (i-1)-(cursor+1)+1
    BY <1>1, FS_Interval
  <2> HIDE DEF B
  <2>3. Cardinality(B) = i - (cursor+1)
    BY <1>1, <2>1, <2>2
  <2>4. i - (cursor+1) < BatchSize <=> i <= Delivered
    BY <1>1 DEF Delivered
  <2> QED
    BY <2>3, <2>4 DEF B
<1> QED
  BY <1>1, <1>2, <1>3 DEF Batch

(* The types hold at the start.                                              *)
LEMMA TypeInit == Init => TypeInv
  BY DEF Init, TypeInv, Shape, Named, TypeOK, Id, Down, Asleep, Working, Handed, Held, Fault

(* What every step of a container leaves as it is.                           *)
StreamGrows ==
    \/ stream' = stream
    \/ \E t \in Ticket, n \in 0..MaxAttempts-1 :
          stream' = Append(stream, [ticket |-> t, attempt |-> n])

(* Positions of the stream keep their messages, and what waited there is     *)
(* still known.                                                              *)
LEMMA Grown ==
  ASSUME TypeInv, StreamGrows
  PROVE  /\ stream' \in Seq(Message)
         /\ Id \subseteq Id' /\ \A i \in Id : stream'[i] = stream[i]
         /\ Len(stream) <= Len(stream')
<1>1. stream \in Seq(Message)
  BY DEF TypeInv, TypeOK
<1>2. ASSUME NEW t \in Ticket, NEW n \in 0..MaxAttempts-1,
             stream' = Append(stream, [ticket |-> t, attempt |-> n])
      PROVE  /\ stream' \in Seq(Message) /\ Len(stream') = Len(stream) + 1
             /\ \A i \in Id : stream'[i] = stream[i]
  <2>1. [ticket |-> t, attempt |-> n] \in Message
    BY DEF Message
  <2> QED
    BY <1>1, <1>2, <2>1 DEF Id
<1> QED
  <2>1. CASE stream' = stream
    BY <1>1, <2>1 DEF Id
  <2>2. ASSUME NEW t \in Ticket, NEW n \in 0..MaxAttempts-1,
               stream' = Append(stream, [ticket |-> t, attempt |-> n])
        PROVE  /\ stream' \in Seq(Message) /\ Id \subseteq Id'
               /\ Len(stream) <= Len(stream')
    BY <1>1, <1>2, <2>2 DEF Id
  <2> QED
    BY <1>2, <2>1, <2>2 DEF StreamGrows

(* The current message of a container that goes on.                          *)
LEMMA OnwardType ==
  ASSUME TypeInv, NEW w \in Worker, Working(w), Onward(w)
  PROVE  /\ worker' \in [Worker ->
            [at   : {"down", "gone", "poll", "block", "next", "run", "success", "again"},
                                    todo : SUBSET Id, now : SUBSET due]]
         /\ \A v \in Worker \ {w} : worker'[v] = worker[v]
         /\ worker'[w].todo = worker[w].todo \ {Current(w)}
         /\ \/ worker'[w].at = "poll"
            \/ worker'[w].at = "next" /\ worker'[w].todo # {} /\ worker'[w].now = worker[w].now
<1>1. worker \in [Worker -> [at : {"down", "gone", "poll", "block", "next", "run", "success", "again"},
                             todo : SUBSET Id, now : SUBSET due]]
  BY DEF TypeInv, TypeOK
<1>2. Current(w) \in worker[w].todo
  BY CurrentIn DEF TypeInv, Shape
<1> DEFINE rest == worker[w].todo \ {Current(w)}
<1>3. worker' = [worker EXCEPT ![w] =
          IF rest = {} THEN Asleep ELSE [at |-> "next", todo |-> rest, now |-> worker[w].now]]
  BY DEF Onward
<1>4. rest \subseteq Id
  BY <1>1
<1> HIDE DEF rest
<1>5. worker'[w] = IF rest = {} THEN Asleep ELSE [at |-> "next", todo |-> rest, now |-> worker[w].now]
  BY <1>1, <1>3
<1>6. \A v \in Worker \ {w} : worker'[v] = worker[v]
  BY <1>1, <1>3
<1>7. CASE rest = {}
  BY <1>1, <1>3, <1>5, <1>6, <1>7 DEF rest, Asleep
<1>8. CASE rest # {}
  BY <1>1, <1>3, <1>4, <1>5, <1>6, <1>8 DEF rest
<1> QED
  BY <1>7, <1>8

(* A step of one container that adds nothing to the stream and moves on no   *)
(* position of it: what has to be said of that container only.               *)
LEMMA StreamDef ==
  ASSUME TypeInv
  PROVE  /\ stream \in Seq(Message) /\ Id = 1..Len(stream) /\ Len(stream) \in Nat
         /\ cursor \in 0..Len(stream) /\ due \subseteq Id
         /\ pel \in [Worker -> SUBSET (1..cursor)]
         /\ worker \in [Worker ->
               [at   : {"down", "gone", "poll", "block", "next", "run", "success", "again"},
                                   todo : SUBSET Id, now : SUBSET due]]
         /\ sending \in [Worker -> SUBSET accepted]
         /\ accepted \subseteq Ticket /\ ran \subseteq accepted
         /\ succeeded \cup exhausted \subseteq accepted /\ faults \subseteq Fault
  BY DEF TypeInv, TypeOK, Id

(* The ticket of the message in hand is an accepted one.                     *)
LEMMA TicketType ==
  ASSUME TypeInv, NEW w \in Worker, Working(w)
  PROVE  /\ Current(w) \in worker[w].todo /\ Current(w) \in 1..cursor /\ Current(w) \in Id
         /\ TicketOf(w) \in accepted /\ TicketOf(w) \in Ticket
         /\ stream[Current(w)].attempt \in 0..MaxAttempts-1
<1>1. Current(w) \in worker[w].todo /\ Current(w) \in 1..cursor /\ Current(w) \in Id
  BY CurrentIn DEF TypeInv, Shape
<1>2. stream[Current(w)] \in Message
  BY <1>1, StreamDef
<1> QED
  BY <1>1, <1>2, StreamDef DEF TypeInv, TicketOf, Message, Named

(* XADD adds one message at the end and touches nothing else.                *)
LEMMA AddGrows ==
  ASSUME TypeInv, NEW t \in Ticket, NEW n \in 0..MaxAttempts-1, Add(t, n),
         accepted' = accepted, t \in accepted
  PROVE  StreamGrows /\ Named' /\ faults' \subseteq Fault
<1>1. StreamGrows
  BY DEF Add, StreamGrows
<1>2. faults' \subseteq Fault
  BY DEF Add, Happens, Fault, TypeInv, TypeOK
<1>3. ASSUME stream' = Append(stream, [ticket |-> t, attempt |-> n]) PROVE Named'
  BY <1>3, StreamDef DEF TypeInv, Named, Id
<1>4. ASSUME stream' = stream PROVE Named'
  BY <1>4 DEF TypeInv, Named, Id
<1> QED
  BY <1>1, <1>2, <1>3, <1>4 DEF Add

(* A container that goes on, to the next message of its batch or back to the *)
(* poll, keeps its shape.                                                    *)
LEMMA OnwardShape ==
  ASSUME TypeInv, NEW w \in Worker, Working(w), Onward(w), StreamGrows,
         UNCHANGED <<cursor, pel, sending>>
  PROVE  \A v \in Worker : Shape(v)'
<1>1. \A v \in Worker : Shape(v)
  BY DEF TypeInv
<1>2. worker[w].todo \ {Current(w)} \subseteq pel[w]
  BY <1>1 DEF Shape, Working, Handed
<1>3. Shape(w)'
  BY <1>1, <1>2, OnwardType DEF Shape, Working, Handed, Held, Current
<1>4. ASSUME NEW v \in Worker \ {w} PROVE Shape(v)'
  <2>1. worker'[v] = worker[v]
    BY OnwardType
  <2> QED
    BY <1>1, <2>1 DEF Shape, Working, Handed, Held, Current
<1> QED
  BY <1>3, <1>4

(* One step per action: the types are kept.                                  *)
LEMMA TypeStep == TypeInv /\ [Next]_vars => TypeInv'
<1> SUFFICES ASSUME TypeInv, [Next]_vars PROVE TypeInv'
  OBVIOUS
<1> USE DEF Id, Working, Handed, Held, Shape, Named
<1>1. CASE UNCHANGED vars
  BY <1>1 DEF vars, TypeInv, TypeOK, Current
<1>2. ASSUME NEW w \in Worker, Start(w) PROVE TypeInv'
  BY <1>2 DEF Start, TypeInv, TypeOK, Down, Asleep, Current
<1>3. ASSUME NEW w \in Worker, Crash(w) PROVE TypeInv'
  BY <1>3 DEF Crash, Happens, Up, Fault, TypeInv, TypeOK, Down, Gone, Asleep, Current
<1>4. ASSUME NEW w \in Worker, NEW t \in Ticket, Enqueue(w, t) PROVE TypeInv'
  BY <1>4 DEF Enqueue, Up, TypeInv, TypeOK, Current
<1>5. ASSUME NEW w \in Worker, NEW t \in Ticket, AsyncEnqueue(w, t) PROVE TypeInv'
  <2>0. t \in accepted /\ 0 \in 0..MaxAttempts-1
    BY <1>5, StreamDef, StreamAssumption DEF AsyncEnqueue
  <2>1. StreamGrows /\ Named' /\ faults' \subseteq Fault
    BY <1>5, <2>0, AddGrows DEF AsyncEnqueue
  <2>2. /\ sending' = [sending EXCEPT ![w] = @ \ {t}] /\ faults' \subseteq Fault
        /\ UNCHANGED <<cursor, pel, due, worker, accepted, ran, succeeded, exhausted>>
    BY <1>5, <2>1 DEF AsyncEnqueue
  <2> HIDE DEF Id, Shape, Named
  <2>3. TypeOK'
    BY <2>1, <2>2, Grown, StreamDef DEF TypeOK
  <2>4. \A v \in Worker : Shape(v)'
    BY <2>2, StreamDef DEF TypeInv, Shape, Current
  <2> QED
    BY <2>1, <2>2, <2>3, <2>4 DEF TypeInv
<1>6. ASSUME NEW i \in Id, Elapse(i) PROVE TypeInv'
  BY <1>6 DEF Elapse, TypeInv, TypeOK, Current
<1>7. ASSUME NEW w \in Worker, ReadPending(w) PROVE TypeInv'
  BY <1>7 DEF ReadPending, Batch, TypeInv, TypeOK, Current
<1>8. ASSUME NEW w \in Worker, ReadNew(w) PROVE TypeInv'
  <2>1. /\ worker' = [worker EXCEPT ![w].at = "next", ![w].todo = @ \cup (cursor+1..Delivered)]
        /\ pel' = [pel EXCEPT ![w] = @ \cup (cursor+1..Delivered)]
        /\ cursor' = Delivered /\ worker[w].at = "block"
        /\ Delivered \in cursor+1..Len(stream)
        /\ UNCHANGED <<stream, due, sending, accepted, ran, succeeded, exhausted, faults>>
    BY <1>8, NewBatch DEF ReadNew
  <2>2. cursor \in Nat /\ cursor < Delivered /\ Delivered <= Len(stream) /\ Len(stream) \in Nat
    BY <2>1, StreamDef
  <2> HIDE DEF Id, Shape, Named
  <2>a. cursor' \in 0..Len(stream) /\ cursor+1..Delivered \subseteq Id /\ 1..cursor \subseteq 1..cursor'
    BY <2>1, <2>2, StreamDef
  <2>b. pel' \in [Worker -> SUBSET (1..cursor')]
    BY <2>1, <2>2, StreamDef
  <2>c. worker' \in [Worker -> [at   : {"down", "gone", "poll", "block", "next", "run", "success", "again"},
                               todo : SUBSET Id, now : SUBSET due]]
    BY <2>1, <2>a, StreamDef
  <2>d. UNCHANGED <<stream, due, sending, accepted, ran, succeeded, exhausted, faults>> /\ TypeOK
    BY <2>1 DEF TypeInv
  <2>3. TypeOK'
    BY <2>a, <2>b, <2>c, <2>d DEF TypeOK, Id
  <2>4. Shape(w)'
    BY <2>1, <2>2, StreamDef DEF TypeInv, Shape, Current
  <2>5. ASSUME NEW v \in Worker \ {w} PROVE Shape(v)'
    BY <2>1, <2>2, <2>5, StreamDef DEF TypeInv, Shape, Current
  <2> QED
    BY <2>1, <2>3, <2>4, <2>5 DEF TypeInv, Id, Named
<1>9. ASSUME NEW w \in Worker, ReadFails(w) PROVE TypeInv'
  BY <1>9 DEF ReadFails, Happens, Fault, Asleep, TypeInv, TypeOK, Current
<1>10. ASSUME NEW w \in Worker, Skip(w) PROVE TypeInv'
  BY <1>10, OnwardType, OnwardShape DEF Skip, StreamGrows, TypeInv, TypeOK
<1>11. ASSUME NEW w \in Worker, Run(w) PROVE TypeInv'
  BY <1>11, TicketType DEF Run, Due, TypeInv, TypeOK, Current
<1>12. ASSUME NEW w \in Worker, Return(w) PROVE TypeInv'
  <2>1. /\ \E next \in {"success", "again"} : worker' = [worker EXCEPT ![w].at = next]
        /\ pel' \in {pel, Acked(w)} /\ faults' \subseteq Fault
        /\ worker[w].at = "run"
        /\ UNCHANGED <<stream, cursor, due, sending, accepted, ran, succeeded, exhausted>>
    BY <1>12, StreamDef DEF Return, Happens, Fault
  <2> HIDE DEF Id, Shape, Named
  <2>2. /\ pel' \in [Worker -> SUBSET (1..cursor)]
        /\ worker' \in [Worker ->
              [at   : {"down", "gone", "poll", "block", "next", "run", "success", "again"},
                                   todo : SUBSET Id, now : SUBSET due]]
    BY <2>1, StreamDef DEF Acked
  <2>a. /\ UNCHANGED <<stream, cursor, due, sending, accepted, ran, succeeded, exhausted>>
        /\ faults' \subseteq Fault /\ TypeOK
    BY <2>1 DEF TypeInv
  <2>3. TypeOK'
    BY <2>2, <2>a DEF TypeOK, Id
  <2>4. Shape(w)'
    BY <2>1, StreamDef DEF TypeInv, Shape, Current, Acked
  <2>5. ASSUME NEW v \in Worker \ {w} PROVE Shape(v)'
    BY <2>1, <2>5, StreamDef DEF TypeInv, Shape, Current, Acked
  <2> QED
    BY <2>1, <2>3, <2>4, <2>5 DEF TypeInv, Id, Named
<1>13. ASSUME NEW w \in Worker, Succeed(w) PROVE TypeInv'
  <2>1. CASE succeeded' = succeeded \cup {TicketOf(w)} /\ Onward(w) /\ UNCHANGED <<pel, faults>>
    BY <1>13, <2>1, TicketType, OnwardType, OnwardShape DEF Succeed, StreamGrows, TypeInv, TypeOK
  <2>2. CASE /\ worker' = [worker EXCEPT ![w].at = "again"]
             /\ pel' \in {pel, Acked(w)} /\ UNCHANGED succeeded /\ Happens("callback")
    <3>1. faults' \subseteq Fault /\ worker[w].at = "success"
      BY <1>13, <2>2, StreamDef DEF Happens, Fault, Succeed
    <3>2. UNCHANGED <<stream, cursor, due, sending, accepted, ran, exhausted, succeeded>>
      BY <1>13, <2>2 DEF Succeed
    <3> HIDE DEF Id, Shape, Named
    <3>3. TypeOK'
      BY <2>2, <3>1, <3>2, StreamDef DEF TypeOK, Id, Acked
    <3>4. Shape(w)'
      BY <2>2, <3>1, <3>2, StreamDef DEF TypeInv, Shape, Current, Acked
    <3>5. ASSUME NEW v \in Worker \ {w} PROVE Shape(v)'
      BY <2>2, <3>2, <3>5, StreamDef DEF TypeInv, Shape, Current, Acked
    <3> QED
      BY <3>2, <3>3, <3>4, <3>5 DEF TypeInv, Id, Named
  <2> QED
    BY <1>13, <2>1, <2>2 DEF Succeed
<1>14. ASSUME NEW w \in Worker, Again(w) PROVE TypeInv'
  <2>1. Working(w) /\ TicketOf(w) \in accepted \cap Ticket /\ NextAttempt(w) \in 0..MaxAttempts-1
    BY <1>14, TicketType, StreamAssumption DEF Again, Exhausted, NextAttempt
  <2>2. StreamGrows /\ Named' /\ faults' \subseteq Fault
    BY <1>14, <2>1, AddGrows DEF Again
  <2>3. Onward(w) /\ UNCHANGED <<cursor, pel, due, sending, accepted, ran, succeeded, exhausted>>
    BY <1>14 DEF Again
  <2> HIDE DEF Id, Shape, Named
  <2>4. TypeOK'
    BY <2>1, <2>2, <2>3, Grown, OnwardType, StreamDef DEF TypeOK
  <2>5. \A v \in Worker : Shape(v)'
    BY <2>1, <2>2, <2>3, OnwardShape
  <2> QED
    BY <2>2, <2>4, <2>5 DEF TypeInv
<1>15. ASSUME NEW w \in Worker, Exhaust(w) PROVE TypeInv'
  <2>1. CASE exhausted' = exhausted \cup {TicketOf(w)} /\ Onward(w) /\ UNCHANGED faults
    BY <1>15, <2>1, TicketType, OnwardType, OnwardShape DEF Exhaust, StreamGrows, TypeInv, TypeOK
  <2>2. CASE Happens("callback") /\ worker' = [worker EXCEPT ![w] = Asleep] /\ UNCHANGED exhausted
    BY <1>15, <2>2 DEF Exhaust, Happens, Fault, Asleep, TypeInv, TypeOK, Current
  <2> QED
    BY <1>15, <2>1, <2>2 DEF Exhaust
<1> QED
  BY <1>1, <1>2, <1>3, <1>4, <1>5, <1>6, <1>7, <1>8, <1>9, <1>10, <1>11, <1>12,
     <1>13, <1>14, <1>15 DEF Next, Drain

(* The types hold in every state.                                            *)
LEMMA TypeInvariant == Spec => []TypeInv
  BY TypeInit, TypeStep, PTL DEF Spec

(* TypeOK of the stream queue: the stream, the group's cursor, the pending   *)
(* lists and the containers keep their shape, for any number of tickets,     *)
(* containers and attempts.                                                  *)
THEOREM StreamTypeCorrect == Spec => []TypeOK
  BY TypeInvariant, PTL DEF TypeInv

----------------------------------------------------------------------------
(* Who holds a message *)

(* Nothing is pending and nothing held at the start.                         *)
LEMMA HolderInit == Init => OneHolder
  BY DEF Init, OneHolder, Held, Down, Asleep

(* Only XREADGROUP with ">" adds to what is pending, and it hands over what  *)
(* lies behind the cursor, which nobody had; what is held was due when the   *)
(* drain began, and stays so.                                                *)
LEMMA HolderStep == TypeInv /\ OneHolder /\ [Next]_vars => OneHolder'
<1> SUFFICES ASSUME TypeInv, TypeInv', OneHolder, [Next]_vars PROVE OneHolder'
  BY TypeStep
<1>1. \A w \in Worker : Held(w)' => Current(w)' \in due'
  BY StreamDef DEF TypeInv, TypeOK, Shape
<1>2. \/ \A w \in Worker : pel'[w] \subseteq pel[w]
      \/ \E w \in Worker : ReadNew(w)
  BY StreamDef DEF Next, vars, Drain, Start, Crash, Enqueue, AsyncEnqueue, Elapse, ReadPending, ReadFails,
       Skip, Run, Return, Succeed, Again, Exhaust, Acked
<1>3. ASSUME \A w \in Worker : pel'[w] \subseteq pel[w] PROVE OneHolder'
  BY <1>1, <1>3 DEF OneHolder
<1>4. ASSUME NEW w \in Worker, ReadNew(w) PROVE OneHolder'
  <2>1. pel' = [pel EXCEPT ![w] = @ \cup (cursor+1..Delivered)]
    BY <1>4, NewBatch DEF ReadNew
  <2>2. \A v \in Worker : pel[v] \subseteq 1..cursor
    BY StreamDef
  <2>3. cursor \in Nat
    BY StreamDef
  <2> QED
    BY <1>1, <2>1, <2>2, <2>3, StreamDef DEF OneHolder
<1> QED
  BY <1>2, <1>3, <1>4

(* OneHolder: no message is pending for two containers, and one that is run  *)
(* is past its backoff, although pending lists are read again and several    *)
(* containers read the same group.                                           *)
THEOREM OneHolderCorrect == Spec => []OneHolder
  BY TypeInvariant, HolderInit, HolderStep, PTL DEF Spec

----------------------------------------------------------------------------
(* Where a retry is *)

(* The three places a retry can be in: with a container that has yet to send *)
(* it; in the stream, not delivered yet or pending for a container that is   *)
(* up; and in the hands of a container whose run has returned.               *)
Sends(t) == {w \in Worker : t \in sending[w]}
Hands(t) == {w \in Worker : Handed(w) /\ TicketOf(w) = t}

Places(t) == ({"sent"} \X Sends(t)) \cup ({"waits"} \X Live(t)) \cup ({"handed"} \X Hands(t))

Settled == succeeded \cup exhausted

(* A retry is in one place at most, and in none once it is settled.          *)
Apart ==
    \A t \in Ticket : /\ \A p, q \in Places(t) : p = q
                      /\ t \in Settled => Places(t) = {}

(* An accepted retry that is not settled is in some place.                   *)
Kept == \A t \in accepted : t \in Settled \/ Places(t) # {}

(* Apart needs acknowledgements that get through; Kept needs that no fault   *)
(* happened at all.                                                          *)
PlaceInv == "xack" \notin faults => Apart
KeptInv  == faults = {} => Kept

(* The three places change apart.                                            *)
LEMMA HandsOthers ==
  ASSUME TypeInv, StreamGrows, NEW w \in Worker, \A v \in Worker \ {w} : worker'[v] = worker[v], NEW t
  PROVE  Hands(t)' \ {w} = Hands(t) \ {w}
<1>1. ASSUME NEW v \in Worker \ {w}, Handed(v) PROVE TicketOf(v)' = TicketOf(v)
  <2>1. Current(v)' = Current(v)
    BY DEF Current
  <2>2. Current(v) \in Id
    BY <1>1, TicketType DEF Handed, Working
  <2> QED
    BY <2>1, <2>2, Grown DEF TicketOf
<1>2. \A v \in Worker \ {w} : Handed(v)' <=> Handed(v)
  BY DEF Handed
<1> QED
  BY <1>1, <1>2 DEF Hands

(* Who has a retry in hand does not change while no container moves.         *)
LEMMA HandsSame ==
  ASSUME TypeInv, StreamGrows, worker' = worker, NEW t
  PROVE  Hands(t)' = Hands(t)
<1>1. ASSUME NEW v \in Worker, Handed(v) PROVE TicketOf(v)' = TicketOf(v)
  <2>1. Current(v)' = Current(v)
    BY DEF Current
  <2>2. Current(v) \in Id
    BY <1>1, TicketType DEF Handed, Working
  <2> QED
    BY <2>1, <2>2, Grown DEF TicketOf
<1>2. \A v \in Worker : Handed(v)' <=> Handed(v)
  BY DEF Handed
<1> QED
  BY <1>1, <1>2 DEF Hands

(* What waits in the stream depends on the stream, the cursor, the pending   *)
(* lists and who is up.                                                      *)
LEMMA LiveSame ==
  ASSUME UNCHANGED <<stream, cursor, pel>>, \A v \in Worker : Up(v)' <=> Up(v), NEW t
  PROVE  Live(t)' = Live(t)
  BY DEF Live, Id

(* A message that is added waits, and is the only one that begins to.        *)
LEMMA LiveAdd ==
  ASSUME TypeInv, UNCHANGED <<cursor, pel>>, \A v \in Worker : Up(v)' <=> Up(v),
         NEW t \in Ticket, NEW n \in 0..MaxAttempts-1, Add(t, n)
  PROVE  \/ /\ Live(t)' = Live(t) \cup {Len(stream)+1}
            /\ \A u \in Ticket \ {t} : Live(u)' = Live(u)
            /\ faults' = faults /\ StreamGrows
            /\ stream'[Len(stream)+1] = [ticket |-> t, attempt |-> n]
         \/ /\ \A u \in Ticket : Live(u)' = Live(u)
            /\ faults' # {} /\ StreamGrows /\ stream' = stream
<1>1. CASE stream' = Append(stream, [ticket |-> t, attempt |-> n]) /\ UNCHANGED faults
  <2>1. Id' = Id \cup {Len(stream)+1} /\ Len(stream)+1 > cursor
    BY <1>1, StreamDef DEF Id
  <2>2. stream'[Len(stream)+1] = [ticket |-> t, attempt |-> n] /\ \A i \in Id : stream'[i] = stream[i]
    BY <1>1, StreamDef DEF Id
  <2>3. \A u : Live(u)' = {i \in Id : i \in Live(u)} \cup {i \in {Len(stream)+1} : u = t}
    BY <2>1, <2>2 DEF Live
  <2>4. \A u : {i \in Id : i \in Live(u)} = Live(u)
    BY DEF Live
  <2> QED
    BY <1>1, <2>2, <2>3, <2>4 DEF StreamGrows
<1>2. CASE Happens("xadd") /\ UNCHANGED stream
  BY <1>2 DEF Happens, StreamGrows, Live, Id
<1> QED
  BY <1>1, <1>2 DEF Add

(* A place of a retry is one of the three kinds.                             *)
LEMMA PlacesHave ==
  ASSUME NEW t
  PROVE  /\ \A w : w \in Sends(t) <=> <<"sent", w>> \in Places(t)
         /\ \A i : i \in Live(t) <=> <<"waits", i>> \in Places(t)
         /\ \A w : w \in Hands(t) <=> <<"handed", w>> \in Places(t)
  BY DEF Places

(* What being in one place means.                                            *)
LEMMA Alone ==
  ASSUME Apart, NEW t \in Ticket
  PROVE  /\ \A v, w \in Sends(t) : v = w
         /\ \A i, j \in Live(t) : i = j
         /\ \A v, w \in Hands(t) : v = w
         /\ Sends(t) # {} => Live(t) = {} /\ Hands(t) = {}
         /\ Live(t) # {} => Hands(t) = {}
         /\ t \in Settled => Sends(t) = {} /\ Live(t) = {} /\ Hands(t) = {}
<1>1. \A p, q \in Places(t) : p = q
  BY DEF Apart
<1>2. t \in Settled => Places(t) = {}
  BY DEF Apart
<1>3. \A v, w \in Sends(t) : v = w
  <2> SUFFICES ASSUME NEW v \in Sends(t), NEW w \in Sends(t) PROVE v = w
    OBVIOUS
  <2>1. <<"sent", v>> = <<"sent", w>>
    BY <1>1, PlacesHave
  <2> QED
    BY <2>1
<1>4. \A i, j \in Live(t) : i = j
  <2> SUFFICES ASSUME NEW v \in Live(t), NEW w \in Live(t) PROVE v = w
    OBVIOUS
  <2>1. <<"waits", v>> = <<"waits", w>>
    BY <1>1, PlacesHave
  <2> QED
    BY <2>1
<1>5. \A v, w \in Hands(t) : v = w
  <2> SUFFICES ASSUME NEW v \in Hands(t), NEW w \in Hands(t) PROVE v = w
    OBVIOUS
  <2>1. <<"handed", v>> = <<"handed", w>>
    BY <1>1, PlacesHave
  <2> QED
    BY <2>1
<1>6. ASSUME NEW v \in Sends(t), NEW w \in Live(t) PROVE FALSE
  <2>1. <<"sent", v>> = <<"waits", w>>
    BY <1>1, PlacesHave
  <2> QED
    BY <2>1
<1>7. ASSUME NEW v \in Sends(t), NEW w \in Hands(t) PROVE FALSE
  <2>1. <<"sent", v>> = <<"handed", w>>
    BY <1>1, PlacesHave
  <2> QED
    BY <2>1
<1>8. ASSUME NEW v \in Live(t), NEW w \in Hands(t) PROVE FALSE
  <2>1. <<"waits", v>> = <<"handed", w>>
    BY <1>1, PlacesHave
  <2> QED
    BY <2>1
<1> QED
  BY <1>2, <1>3, <1>4, <1>5, <1>6, <1>7, <1>8, PlacesHave

(* The same of the next state.                                               *)
LEMMA PlacesHaveNext ==
  ASSUME NEW t
  PROVE  /\ \A w : w \in Sends(t)' <=> <<"sent", w>> \in Places(t)'
         /\ \A i : i \in Live(t)' <=> <<"waits", i>> \in Places(t)'
         /\ \A w : w \in Hands(t)' <=> <<"handed", w>> \in Places(t)'
  BY DEF Places

(* A retry keeps its places if each of the three stays as it is.             *)
LEMMA PlacesSame ==
  ASSUME NEW t, Places(t)' = Places(t)
  PROVE  Sends(t)' = Sends(t) /\ Live(t)' = Live(t) /\ Hands(t)' = Hands(t)
<1>1. /\ \A w : w \in Sends(t)' <=> w \in Sends(t)
      /\ \A i : i \in Live(t)' <=> i \in Live(t)
      /\ \A w : w \in Hands(t)' <=> w \in Hands(t)
  BY PlacesHave, PlacesHaveNext
<1>2. Sends(t)' = Sends(t)
  BY <1>1
<1>3. Live(t)' = Live(t)
  BY <1>1
<1>4. Hands(t)' = Hands(t)
  BY <1>1
<1> QED
  BY <1>2, <1>3, <1>4

Runs(t) == {w \in Worker : worker[w].at = "run" /\ TicketOf(w) = t}

(* What a step can do to a retry: nothing, or what the policy knows of, as   *)
(* long as acknowledgements get through.                                     *)
Stays(u)   == /\ Places(u)' = Places(u) /\ Runs(u)' = Runs(u)
              /\ \A w \in Runs(u) \cup Hands(u) : Current(w)' = Current(w)
StayApart(t) == \A u \in Ticket \ {t} : Stays(u)
Statuses   == <<accepted, succeeded, exhausted>>

Rests      == UNCHANGED Statuses /\ \A u \in Ticket : Stays(u)
Appears(t) == /\ \E p \in {"sent"} \X Worker : Places(t)' = Places(t) \cup {p}
              /\ t \notin accepted /\ accepted' = accepted \cup {t}
              /\ UNCHANGED <<succeeded, exhausted>> /\ StayApart(t)
Begins(t)  == /\ Places(t)' = Places(t) /\ Runs(t)' # {}
              /\ \A w \in Runs(t)' : Current(w)' \in Live(t)
              /\ UNCHANGED <<stream, accepted, succeeded, exhausted>> /\ StayApart(t)
Moves(t)   == /\ \E p \in Places(t) : \E q : Places(t)' = (Places(t) \ {p}) \cup {q}
              /\ UNCHANGED Statuses /\ StayApart(t)
Settles(t) == /\ \E p \in Places(t) : Places(t)' = Places(t) \ {p}
              /\ succeeded' \cup exhausted' = Settled \cup {t}
              /\ accepted' = accepted /\ StayApart(t)
Loses      == /\ UNCHANGED Statuses /\ faults' # {}
              /\ \A u \in Ticket : Places(u)' \subseteq Places(u) /\ (Places(u)' = Places(u) => Stays(u))

(* What runs waits in the stream still: it is acknowledged after its run.    *)
LEMMA RunsLive ==
  ASSUME TypeInv, NEW t, NEW w \in Runs(t)
  PROVE  Current(w) \in Live(t) /\ Current(w) \in pel[w] /\ w \in Worker
  BY TicketType DEF Runs, TypeInv, Shape, Working, Up, Live, TicketOf

(* A step of one container that adds no message leaves alone every retry     *)
(* that this container does not work on.                                     *)
LEMMA Untouched ==
  ASSUME TypeInv, StreamGrows, NEW w \in Worker, \A v \in Worker \ {w} : worker'[v] = worker[v],
         NEW u, Sends(u)' = Sends(u), Live(u)' = Live(u),
         w \notin Runs(u) \cup Hands(u), w \notin Runs(u)' \cup Hands(u)'
  PROVE  Stays(u)
<1>1. ASSUME NEW v \in Worker \ {w}, Held(v) PROVE TicketOf(v)' = TicketOf(v) /\ Current(v)' = Current(v)
  <2>1. Current(v)' = Current(v)
    BY DEF Current
  <2>2. Current(v) \in Id
    BY <1>1, TicketType DEF Held, Working
  <2> QED
    BY <2>1, <2>2, Grown DEF TicketOf
<1>2. Hands(u)' = Hands(u)
  BY HandsOthers
<1>3. Runs(u)' = Runs(u)
  BY <1>1 DEF Runs, Held
<1>4. \A v \in Runs(u) \cup Hands(u) : Current(v)' = Current(v)
  BY <1>1 DEF Runs, Hands, Held, Handed
<1> QED
  BY <1>2, <1>3, <1>4 DEF Stays, Places

(* A step that neither adds a message nor moves a container leaves every     *)
(* retry alone.                                                              *)
LEMMA UntouchedAll ==
  ASSUME TypeInv, StreamGrows, worker' = worker, NEW u, Sends(u)' = Sends(u), Live(u)' = Live(u)
  PROVE  Stays(u)
<1>1. ASSUME NEW v \in Worker, Held(v) PROVE TicketOf(v)' = TicketOf(v) /\ Current(v)' = Current(v)
  <2>1. Current(v)' = Current(v)
    BY DEF Current
  <2>2. Current(v) \in Id
    BY <1>1, TicketType DEF Held, Working
  <2> QED
    BY <2>1, <2>2, Grown DEF TicketOf
<1>2. Hands(u)' = Hands(u)
  BY HandsSame
<1>3. Runs(u)' = Runs(u)
  BY <1>1 DEF Runs, Held
<1>4. \A v \in Runs(u) \cup Hands(u) : Current(v)' = Current(v)
  BY <1>1 DEF Runs, Hands, Held, Handed
<1> QED
  BY <1>2, <1>3, <1>4 DEF Stays, Places

(* A container that is done with its message no longer has it in hand.       *)
LEMMA HandsOnward ==
  ASSUME TypeInv, StreamGrows, NEW w \in Worker, Working(w), Onward(w)
  PROVE  /\ \A u \in Ticket : Hands(u)' = Hands(u) \ {w}
         /\ \A u : w \notin Runs(u)' \cup Hands(u)'
         /\ \A v \in Worker : Up(v)' <=> Up(v)
         /\ \A v \in Worker \ {w} : worker'[v] = worker[v]
<1>1. worker'[w].at \in {"poll", "next"} /\ \A v \in Worker \ {w} : worker'[v] = worker[v]
  BY OnwardType
<1>2. \A u : w \notin Runs(u)' \cup Hands(u)'
  BY <1>1 DEF Hands, Handed, Runs
<1> QED
  BY <1>1, <1>2, HandsOthers DEF Up, Working

(* Nothing happens.                                                          *)
LEMMA Stutter == ASSUME TypeInv, UNCHANGED vars PROVE Rests
<1>1. \A u : Sends(u)' = Sends(u) /\ Live(u)' = Live(u)
  BY LiveSame DEF vars, Up, Sends
<1> QED
  BY <1>1, UntouchedAll DEF vars, Rests, Statuses, StreamGrows

(* A container starts.                                                       *)
LEMMA StartRests == ASSUME TypeInv, NEW w \in Worker, Start(w) PROVE Rests
<1>1. pel[w] = {} /\ worker[w].at = "down" /\ worker'[w].at = "poll" /\ StreamGrows
  BY StreamDef DEF Start, Down, Asleep, TypeInv, Shape, StreamGrows
<1>2. \A v \in Worker \ {w} : worker'[v] = worker[v]
  BY StreamDef DEF Start
<1>3. \A u : Live(u)' = Live(u) /\ Sends(u)' = Sends(u)
  BY <1>1, <1>2 DEF Start, Live, Id, Up, Sends
<1>4. \A u : w \notin Runs(u) \cup Hands(u) /\ w \notin Runs(u)' \cup Hands(u)'
  BY <1>1 DEF Runs, Hands, Handed
<1> QED
  BY <1>1, <1>2, <1>3, <1>4, Untouched DEF Start, Rests, Statuses

(* A message becomes due.                                                    *)
LEMMA ElapseRests == ASSUME TypeInv, NEW i \in Id, Elapse(i) PROVE Rests
<1>1. \A u : Sends(u)' = Sends(u) /\ Live(u)' = Live(u)
  BY LiveSame DEF Elapse, Up, Sends
<1> QED
  BY <1>1, UntouchedAll DEF Elapse, Rests, Statuses, StreamGrows

(* A container reads the messages it left pending: they wait where they      *)
(* waited.                                                                   *)
LEMMA ReadPendingRests == ASSUME TypeInv, NEW w \in Worker, ReadPending(w) PROVE Rests
<1>1. worker[w].at = "poll" /\ worker'[w].at = "block" /\ \A v \in Worker \ {w} : worker'[v] = worker[v]
  BY StreamDef DEF ReadPending
<1>2. \A u : Live(u)' = Live(u) /\ Sends(u)' = Sends(u)
  BY <1>1, LiveSame DEF ReadPending, Up, Sends
<1>3. \A u : w \notin Runs(u) \cup Hands(u) /\ w \notin Runs(u)' \cup Hands(u)'
  BY <1>1 DEF Runs, Hands, Handed
<1> QED
  BY <1>1, <1>2, <1>3, Untouched DEF ReadPending, Rests, Statuses, StreamGrows

(* A container reads new messages: they wait where they waited.              *)
LEMMA ReadNewRests == ASSUME TypeInv, NEW w \in Worker, ReadNew(w) PROVE Rests
<1>1. worker[w].at = "block" /\ worker'[w].at = "next" /\ \A v \in Worker \ {w} : worker'[v] = worker[v]
  BY StreamDef DEF ReadNew
<1>2. UNCHANGED <<stream, sending, accepted, succeeded, exhausted>>
  BY DEF ReadNew
<1>3. /\ pel' = [pel EXCEPT ![w] = @ \cup (cursor+1..Delivered)]
      /\ cursor' = Delivered /\ Delivered \in cursor+1..Len(stream)
  BY NewBatch DEF ReadNew
<1>4. Up(w) /\ \A v \in Worker : Up(v)' <=> Up(v)
  BY <1>1 DEF Up
<1>5. ASSUME NEW i \in Id
      PROVE  i > cursor' \/ (\E v \in Worker : Up(v)' /\ i \in pel'[v])
             <=> i > cursor \/ (\E v \in Worker : Up(v) /\ i \in pel[v])
  <2>1. \A v \in Worker : i \in pel'[v] <=> i \in pel[v] \/ (v = w /\ i \in cursor+1..Delivered)
    BY <1>3, StreamDef
  <2>2. i \in cursor+1..Delivered <=> i > cursor /\ ~(i > cursor')
    BY <1>3, StreamDef
  <2>3. i > cursor' => i > cursor
    BY <1>3, StreamDef
  <2> QED
    BY <1>4, <2>1, <2>2, <2>3
<1>6. \A u : Live(u)' = Live(u) /\ Sends(u)' = Sends(u)
  BY <1>2, <1>5 DEF Live, Id, Sends
<1>7. \A u : w \notin Runs(u) \cup Hands(u) /\ w \notin Runs(u)' \cup Hands(u)'
  BY <1>1 DEF Runs, Hands, Handed
<1> QED
  BY <1>1, <1>2, <1>6, <1>7, Untouched DEF Rests, Statuses, StreamGrows

(* XREADGROUP fails.                                                         *)
LEMMA ReadFailsRests == ASSUME TypeInv, NEW w \in Worker, ReadFails(w) PROVE Rests
<1>1. worker[w].at = "block" /\ worker'[w].at = "poll" /\ \A v \in Worker \ {w} : worker'[v] = worker[v]
  BY StreamDef DEF ReadFails, Asleep
<1>2. \A u : Live(u)' = Live(u) /\ Sends(u)' = Sends(u)
  BY <1>1, LiveSame DEF ReadFails, Up, Sends
<1>3. \A u : w \notin Runs(u) \cup Hands(u) /\ w \notin Runs(u)' \cup Hands(u)'
  BY <1>1 DEF Runs, Hands, Handed
<1> QED
  BY <1>1, <1>2, <1>3, Untouched DEF ReadFails, Rests, Statuses, StreamGrows

(* A message that is not due is left pending.                                *)
LEMMA SkipRests == ASSUME TypeInv, NEW w \in Worker, Skip(w) PROVE Rests
<1>1. worker[w].at = "next" /\ Working(w) /\ StreamGrows /\ Onward(w)
  BY DEF Skip, StreamGrows, Working
<1>2. \A u : Live(u)' = Live(u) /\ Sends(u)' = Sends(u)
  BY <1>1, HandsOnward, LiveSame DEF Skip, Sends
<1>3. \A u : w \notin Runs(u) \cup Hands(u)
  BY <1>1 DEF Runs, Hands, Handed
<1> QED
  BY <1>1, <1>2, <1>3, HandsOnward, Untouched DEF Skip, Rests, Statuses

(* A run begins with a message that waits.                                   *)
LEMMA RunBegins == ASSUME TypeInv, NEW w \in Worker, Run(w), NEW t, t = TicketOf(w) PROVE Begins(t)
<1>1. /\ worker[w].at = "next" /\ worker'[w].at = "run" /\ worker'[w].todo = worker[w].todo
      /\ \A v \in Worker \ {w} : worker'[v] = worker[v]
      /\ UNCHANGED <<stream, cursor, pel, sending, accepted, succeeded, exhausted>>
  BY StreamDef DEF Run
<1>2. \A u : Live(u)' = Live(u) /\ Sends(u)' = Sends(u)
  BY <1>1, LiveSame DEF Up, Sends
<1>3. \A u : w \notin Runs(u) \cup Hands(u)
  BY <1>1 DEF Runs, Hands, Handed
<1>4. Current(w)' = Current(w) /\ TicketOf(w)' = t
  BY <1>1 DEF Current, TicketOf
<1>5. \A u \in Ticket \ {t} : w \notin Runs(u)' \cup Hands(u)'
  BY <1>1, <1>4 DEF Runs, Hands, Handed
<1>6. StayApart(t)
  BY <1>1, <1>2, <1>3, <1>5, Untouched DEF StayApart, StreamGrows
<1>7. Hands(t)' = Hands(t)
  BY <1>1, <1>3, HandsOthers DEF Hands, Handed, StreamGrows
<1>8. w \in Runs(t)'
  BY <1>1, <1>4 DEF Runs
<1>9. \A v \in Runs(t)' : Current(v)' \in Live(t)
  <2>1. Current(w) \in Live(t)
    BY <1>1, TicketType DEF Working, TypeInv, Shape, Up, Live, TicketOf
  <2>2. ASSUME NEW v \in Worker \ {w}, v \in Runs(t)' PROVE Current(v)' \in Live(t)
    <3>1. v \in Runs(t) /\ Current(v)' = Current(v)
      BY <1>1, <2>2 DEF Runs, TicketOf, Current
    <3> QED
      BY <3>1, RunsLive
  <2> QED
    BY <1>4, <2>1, <2>2 DEF Runs
<1> QED
  BY <1>1, <1>2, <1>6, <1>7, <1>8, <1>9 DEF Begins, Places

(* A new retry is with the container that accepted it.                       *)
LEMMA EnqueueAppears == ASSUME TypeInv, NEW w \in Worker, NEW t \in Ticket, Enqueue(w, t) PROVE Appears(t)
<1>1. \A u : Live(u)' = Live(u) /\ Hands(u)' = Hands(u)
  BY LiveSame, HandsSame DEF Enqueue, Up, StreamGrows
<1>2. Sends(t)' = Sends(t) \cup {w} /\ \A u \in Ticket \ {t} : Sends(u)' = Sends(u)
  BY StreamDef DEF Enqueue, Sends
<1>3. Places(t)' = Places(t) \cup {<<"sent", w>>}
  BY <1>1, <1>2 DEF Places
<1>4. <<"sent", w>> \in {"sent"} \X Worker
  OBVIOUS
<1>5. StayApart(t)
  BY <1>1, <1>2, UntouchedAll DEF StayApart, Enqueue, StreamGrows
<1> QED
  BY <1>3, <1>4, <1>5 DEF Appears, Enqueue

(* What was with a container waits in the stream, or its XADD fails and      *)
(* loses it.                                                                 *)
LEMMA SendMoves ==
  ASSUME TypeInv, NEW w \in Worker, NEW t \in Ticket, AsyncEnqueue(w, t)
  PROVE  \/ /\ Moves(t) /\ w \in Sends(t) /\ Len(stream)+1 \in Live(t)'
            /\ stream'[Len(stream)+1].attempt = 0
         \/ Loses
<1>1. /\ t \in sending[w] /\ Add(t, 0) /\ 0 \in 0..MaxAttempts-1
      /\ sending' = [sending EXCEPT ![w] = @ \ {t}]
      /\ UNCHANGED <<cursor, pel, due, worker, accepted, ran, succeeded, exhausted>>
  BY StreamAssumption DEF AsyncEnqueue
<1>2. Sends(t)' = Sends(t) \ {w} /\ w \in Sends(t) /\ \A u \in Ticket \ {t} : Sends(u)' = Sends(u)
  BY <1>1, StreamDef DEF Sends
<1>3. \A v \in Worker : Up(v)' <=> Up(v)
  BY <1>1 DEF Up
<1>4. StreamGrows
  BY <1>1 DEF Add, StreamGrows
<1>5. \A u : Hands(u)' = Hands(u)
  BY <1>1, <1>4, HandsSame
<1>6. ASSUME \A u \in Ticket \ {t} : Live(u)' = Live(u) PROVE StayApart(t)
  BY <1>1, <1>2, <1>4, <1>6, UntouchedAll DEF StayApart
<1>7. CASE /\ Live(t)' = Live(t) \cup {Len(stream)+1}
           /\ \A u \in Ticket \ {t} : Live(u)' = Live(u)
           /\ stream'[Len(stream)+1] = [ticket |-> t, attempt |-> 0]
  <2>1. /\ <<"sent", w>> \in Places(t)
        /\ Places(t)' = (Places(t) \ {<<"sent", w>>}) \cup {<<"waits", Len(stream)+1>>}
    BY <1>2, <1>5, <1>7 DEF Places
  <2>2. \E p \in Places(t) : \E q : Places(t)' = (Places(t) \ {p}) \cup {q}
    BY <2>1
  <2>3. StayApart(t)
    BY <1>6, <1>7
  <2>4. Moves(t)
    BY <1>1, <2>2, <2>3 DEF Moves, Statuses
  <2>5. Len(stream)+1 \in Live(t)' /\ stream'[Len(stream)+1].attempt = 0
    BY <1>7
  <2> QED
    BY <1>2, <2>4, <2>5
<1>8. CASE (\A u \in Ticket : Live(u)' = Live(u)) /\ faults' # {}
  <2>1. Places(t)' \subseteq Places(t) /\ Places(t)' # Places(t)
    <3>1. <<"sent", w>> \in Places(t) /\ <<"sent", w>> \notin Places(t)'
      BY <1>2 DEF Places
    <3>2. Places(t)' \subseteq Places(t)
      BY <1>2, <1>5, <1>8 DEF Places
    <3> QED
      BY <3>1, <3>2
  <2>2. \A u \in Ticket \ {t} : Places(u)' \subseteq Places(u) /\ Stays(u)
    BY <1>6, <1>8 DEF StayApart, Stays
  <2> QED
    BY <1>1, <1>8, <2>1, <2>2 DEF Loses, Statuses
<1> QED
  BY <1>1, <1>3, <1>7, <1>8, LiveAdd

(* With a container goes what it had yet to send, what it had in hand and    *)
(* what was pending for it: nobody else reads its list.                      *)
LEMMA CrashLoses == ASSUME TypeInv, OneHolder, NEW w \in Worker, Crash(w) PROVE Loses
<1>1. \A v \in Worker \ {w} : worker'[v] = worker[v] /\ sending'[v] = sending[v]
  BY StreamDef DEF Crash
<1>2. worker'[w].at = "gone" /\ sending'[w] = {} /\ StreamGrows /\ faults' # {}
  BY StreamDef DEF Crash, Gone, Asleep, StreamGrows, Happens
<1>3. \A u : Live(u)' \subseteq Live(u)
  BY <1>1, <1>2 DEF Crash, Live, Id, Up
<1>4. \A u : Hands(u)' \subseteq Hands(u) /\ Sends(u)' \subseteq Sends(u)
  BY <1>1, <1>2, HandsOthers DEF Hands, Handed, Sends
<1>5. ASSUME NEW u \in Ticket, Places(u)' = Places(u) PROVE Stays(u)
  <2>1. Sends(u)' = Sends(u) /\ Live(u)' = Live(u) /\ Hands(u)' = Hands(u)
    BY <1>5, PlacesHave, PlacesHaveNext, PlacesSame
  <2>2. w \notin Runs(u)' \cup Hands(u)'
    BY <1>2 DEF Runs, Hands, Handed
  <2>3. w \notin Hands(u)
    BY <2>1, <2>2
  <2>4. w \notin Runs(u)
    <3> SUFFICES ASSUME w \in Runs(u) PROVE FALSE
      OBVIOUS
    <3>1. PICK i : i = Current(w)
      OBVIOUS
    <3>2. i \in Live(u)' /\ i \in pel[w] /\ i <= cursor
      BY <2>1, <3>1, RunsLive, StreamDef
    <3>3. \A v \in Worker \ {w} : i \notin pel'[v]
      BY <3>2 DEF Crash, OneHolder
    <3>4. ~Up(w)' /\ ~(i > cursor')
      BY <1>2, <3>2, StreamDef DEF Up, Crash
    <3> QED
      BY <3>2, <3>3, <3>4 DEF Live
  <2> QED
    BY <1>1, <1>2, <2>1, <2>2, <2>3, <2>4, Untouched
<1>6. \A u : Places(u)' \subseteq Places(u)
  BY <1>3, <1>4 DEF Places
<1> QED
  BY <1>2, <1>5, <1>6 DEF Loses, Statuses, Crash

(* An XACK that gets through takes the message from the stream into the      *)
(* hands of its container.                                                   *)
LEMMA ReturnMoves ==
  ASSUME TypeInv, OneHolder, "xack" \notin faults', NEW w \in Worker, Return(w), NEW t, t = TicketOf(w)
  PROVE  Moves(t) /\ t \in Ticket /\ w \in Runs(t)
         /\ w \in Hands(t)' /\ Current(w)' = Current(w) /\ stream' = stream
<1>1. /\ worker[w].at = "run" /\ worker'[w].at \in {"success", "again"} /\ worker'[w].todo = worker[w].todo
      /\ \A v \in Worker \ {w} : worker'[v] = worker[v]
  BY StreamDef DEF Return
<1>2. pel' = Acked(w) /\ UNCHANGED <<stream, cursor, sending, accepted, succeeded, exhausted>>
  BY DEF Return, Happens
<1>3. PICK i : i = Current(w)
  OBVIOUS
<1>4. i \in Id /\ t \in Ticket /\ i <= cursor /\ i \in pel[w] /\ stream[i].ticket = t
  BY <1>1, <1>3, TicketType, StreamDef DEF Working, TypeInv, Shape, TicketOf
<1>5. Handed(w)' /\ ~Handed(w) /\ TicketOf(w)' = t /\ Current(w)' = Current(w) /\ StreamGrows
  BY <1>1, <1>2 DEF Handed, TicketOf, Current, StreamGrows
<1>6. \A v \in Worker : Up(v)' <=> Up(v)
  BY <1>1 DEF Up
<1>7. \A v \in Worker : pel'[v] = pel[v] \ {j \in {i} : v = w}
  BY <1>2, <1>3, StreamDef DEF Acked
<1>8. \A v \in Worker \ {w} : i \notin pel[v]
  BY <1>4 DEF OneHolder
<1>9. i \in Live(t) /\ Live(t)' = Live(t) \ {i} /\ \A u \in Ticket \ {t} : Live(u)' = Live(u)
  <2>1. Up(w) /\ Id' = Id /\ stream' = stream /\ cursor' = cursor
    BY <1>1, <1>2 DEF Up, Id
  <2>2. \A u : i \notin Live(u)'
    BY <1>2, <1>4, <1>7, <1>8, StreamDef DEF Live
  <2>3. \A u, j : j # i => (j \in Live(u)' <=> j \in Live(u))
    BY <1>6, <1>7, <2>1 DEF Live
  <2>4. \A u \in Ticket : i \in Live(u) <=> u = t
    BY <1>4, <2>1 DEF Live
  <2>5. Live(t)' = Live(t) \ {i}
    BY <2>2, <2>3
  <2>6. ASSUME NEW u \in Ticket \ {t} PROVE Live(u)' = Live(u)
    BY <2>2, <2>3, <2>4
  <2> QED
    BY <1>4, <2>4, <2>5, <2>6
<1>10. Hands(t)' = Hands(t) \cup {w} /\ w \notin Hands(t)
  BY <1>1, <1>5, HandsOthers DEF Hands
<1>11. \A u : Sends(u)' = Sends(u)
  BY <1>2 DEF Sends
<1>12. /\ <<"waits", i>> \in Places(t)
       /\ Places(t)' = (Places(t) \ {<<"waits", i>>}) \cup {<<"handed", w>>}
  BY <1>9, <1>10, <1>11 DEF Places
<1>13. \A u \in Ticket \ {t} : w \notin Runs(u) \cup Hands(u) /\ w \notin Runs(u)' \cup Hands(u)'
  BY <1>5 DEF Runs, Hands
<1>14. StayApart(t)
  BY <1>1, <1>5, <1>9, <1>11, <1>13, Untouched DEF StayApart
<1> QED
  BY <1>1, <1>2, <1>4, <1>5, <1>10, <1>12, <1>14 DEF Moves, Statuses, Runs

(* What a container has acknowledged does not wait, and goes from its hand.  *)
LEMMA HandedOnce ==
  ASSUME TypeInv, Apart, NEW w \in Worker, Handed(w), NEW t, t = TicketOf(w)
  PROVE  /\ t \in Ticket /\ w \in Hands(t) /\ Up(w)
         /\ \A u \in Ticket \ {t} : w \notin Hands(u)
         /\ \A u : w \notin Runs(u)
         /\ Current(w) \notin pel[w]
<1>1. /\ t \in Ticket /\ w \in Hands(t) /\ Up(w) /\ Current(w) \in Id
      /\ \A u \in Ticket \ {t} : w \notin Hands(u)
      /\ \A u : w \notin Runs(u)
  BY TicketType DEF Working, Handed, Hands, Up, Runs
<1>2. SUFFICES ASSUME Current(w) \in pel[w] PROVE FALSE
  BY <1>1
<1>3. Current(w) \in Live(t)
  BY <1>1, <1>2 DEF Live, TicketOf
<1> QED
  BY <1>1, <1>3, Alone

(* The outcome of a run takes its retry from the hands of its container, and *)
(* nothing else.                                                             *)
LEMMA HandedDone ==
  ASSUME TypeInv, Apart, NEW w \in Worker, Handed(w), NEW t, t = TicketOf(w),
         Onward(w), UNCHANGED <<stream, cursor, pel, sending>>
  PROVE  /\ <<"handed", w>> \in Places(t)
         /\ Places(t)' = Places(t) \ {<<"handed", w>>}
         /\ StayApart(t)
<1>1. Working(w) /\ StreamGrows /\ t \in Ticket /\ w \in Hands(t)
  BY HandedOnce DEF Handed, Working, StreamGrows
<1>2. \A u : Live(u)' = Live(u) /\ Sends(u)' = Sends(u)
  BY <1>1, HandsOnward, LiveSame DEF Sends
<1>3. Hands(t)' = Hands(t) \ {w}
  BY <1>1, HandsOnward
<1>4. StayApart(t)
  BY <1>1, <1>2, HandedOnce, HandsOnward, Untouched DEF StayApart
<1> QED
  BY <1>1, <1>2, <1>3, <1>4 DEF Places

(* A success settles the retry; if its callback raises, the retry stays in   *)
(* hand and counts as failed.                                                *)
LEMMA SucceedSettles ==
  ASSUME TypeInv, Apart, "xack" \notin faults, NEW w \in Worker, Succeed(w), NEW t, t = TicketOf(w)
  PROVE  /\ t \in Ticket /\ w \in Hands(t)
         /\ \/ Settles(t) /\ succeeded' = succeeded \cup {t} /\ exhausted' = exhausted
            \/ Rests
<1>1. Handed(w) /\ UNCHANGED <<stream, cursor, sending, accepted, exhausted>>
  BY DEF Succeed, Handed
<1>2. CASE succeeded' = succeeded \cup {t} /\ Onward(w) /\ pel' = pel
  BY <1>1, <1>2, HandedOnce, HandedDone DEF Settles, Settled
<1>3. CASE worker' = [worker EXCEPT ![w].at = "again"] /\ pel' = Acked(w) /\ succeeded' = succeeded
  <2>1. pel' = pel
    BY <1>1, <1>3, HandedOnce, StreamDef DEF Acked
  <2>2. /\ \A v \in Worker \ {w} : worker'[v] = worker[v]
        /\ worker'[w].at = "again" /\ worker'[w].todo = worker[w].todo
    BY <1>3, StreamDef
  <2>3. \A v \in Worker : Up(v)' <=> Up(v)
    BY <1>1, <2>2 DEF Up, Handed
  <2>4. \A u : Live(u)' = Live(u) /\ Sends(u)' = Sends(u)
    BY <1>1, <2>1, <2>3, LiveSame DEF Sends
  <2>5. Handed(w)' /\ TicketOf(w)' = TicketOf(w) /\ Current(w)' = Current(w) /\ StreamGrows
    BY <1>1, <2>2 DEF Handed, TicketOf, Current, StreamGrows
  <2>6. \A u \in Ticket \ {t} : w \notin Runs(u) \cup Hands(u) /\ w \notin Runs(u)' \cup Hands(u)'
    BY <1>1, <2>2, <2>5 DEF Runs, Hands, Handed
  <2>7. \A u \in Ticket \ {t} : Stays(u)
    BY <2>2, <2>4, <2>5, <2>6, Untouched
  <2>8. Hands(t)' = Hands(t) /\ Runs(t)' = Runs(t)
    <3>1. Hands(t)' = Hands(t)
      BY <1>1, <2>2, <2>5, HandsOthers DEF Hands
    <3>2. ASSUME NEW v \in Worker \ {w} PROVE v \in Runs(t)' <=> v \in Runs(t)
      BY <1>1, <2>2, <3>2 DEF Runs, TicketOf, Current
    <3>3. w \notin Runs(t) /\ w \notin Runs(t)'
      BY <1>1, <2>2 DEF Runs, Handed
    <3>4. Runs(t)' \subseteq Worker /\ Runs(t) \subseteq Worker
      BY DEF Runs
    <3> QED
      BY <3>1, <3>2, <3>3, <3>4
  <2>9. \A v \in Runs(t) \cup Hands(t) : Current(v)' = Current(v)
    BY <2>2, <2>5 DEF Runs, Hands, Current
  <2>10. Stays(t)
    BY <2>4, <2>8, <2>9 DEF Stays, Places
  <2> QED
    BY <1>1, <1>3, <2>7, <2>10, HandedOnce DEF Rests, Statuses
<1> QED
  BY <1>1, <1>2, <1>3, HandedOnce DEF Succeed

(* The XADD of the next attempt brings a retry back to the stream, or fails  *)
(* and loses it.                                                             *)
LEMMA AgainMoves ==
  ASSUME TypeInv, Apart, NEW w \in Worker, Again(w), NEW t, t = TicketOf(w)
  PROVE  /\ t \in Ticket /\ w \in Hands(t)
         /\ \/ /\ Moves(t) /\ Len(stream)+1 \in Live(t)'
               /\ stream'[Len(stream)+1].attempt = NextAttempt(w)
            \/ Loses
<1>1. Handed(w) /\ Working(w) /\ t \in Ticket /\ NextAttempt(w) \in 0..MaxAttempts-1
  BY TicketType, StreamAssumption DEF Again, Exhausted, NextAttempt, Working, Handed
<1>2. /\ Add(t, NextAttempt(w)) /\ Onward(w)
      /\ UNCHANGED <<cursor, pel, due, sending, accepted, ran, succeeded, exhausted>>
  BY DEF Again
<1>3. StreamGrows
  BY <1>1, <1>2 DEF Add, StreamGrows
<1>4. /\ \A v \in Worker : Up(v)' <=> Up(v)
      /\ \A v \in Worker \ {w} : worker'[v] = worker[v]
      /\ \A u : w \notin Runs(u)' \cup Hands(u)'
      /\ Hands(t)' = Hands(t) \ {w} /\ w \in Hands(t)
  BY <1>1, <1>2, <1>3, HandsOnward, HandedOnce
<1>5. \A u : Sends(u)' = Sends(u)
  BY <1>2 DEF Sends
<1>6. ASSUME \A u \in Ticket \ {t} : Live(u)' = Live(u) PROVE StayApart(t)
  BY <1>1, <1>3, <1>4, <1>5, <1>6, HandedOnce, Untouched DEF StayApart
<1>7. PICK n \in 0..MaxAttempts-1 : n = NextAttempt(w)
  BY <1>1
<1>8. CASE /\ Live(t)' = Live(t) \cup {Len(stream)+1}
           /\ \A u \in Ticket \ {t} : Live(u)' = Live(u)
           /\ stream'[Len(stream)+1] = [ticket |-> t, attempt |-> n]
  <2>1. /\ <<"handed", w>> \in Places(t)
        /\ Places(t)' = (Places(t) \ {<<"handed", w>>}) \cup {<<"waits", Len(stream)+1>>}
    BY <1>4, <1>5, <1>8 DEF Places
  <2>2. \E p \in Places(t) : \E q : Places(t)' = (Places(t) \ {p}) \cup {q}
    BY <2>1
  <2>3. StayApart(t)
    BY <1>6, <1>8
  <2>4. Moves(t)
    BY <1>2, <2>2, <2>3 DEF Moves, Statuses
  <2>5. Len(stream)+1 \in Live(t)' /\ stream'[Len(stream)+1].attempt = NextAttempt(w)
    BY <1>7, <1>8
  <2> QED
    BY <1>1, <1>4, <2>4, <2>5
<1>9. CASE (\A u \in Ticket : Live(u)' = Live(u)) /\ faults' # {}
  <2>1. <<"handed", w>> \in Places(t) /\ <<"handed", w>> \notin Places(t)'
    BY <1>4 DEF Places
  <2>2. Places(t)' \subseteq Places(t)
    BY <1>1, <1>4, <1>5, <1>9 DEF Places
  <2>3. \A u \in Ticket \ {t} : Places(u)' \subseteq Places(u) /\ Stays(u)
    BY <1>6, <1>9 DEF StayApart, Stays
  <2>4. Loses
    BY <1>1, <1>2, <1>9, <2>1, <2>2, <2>3 DEF Loses, Statuses
  <2> QED
    BY <1>1, <1>4, <2>4
<1> QED
  BY <1>1, <1>2, <1>4, <1>7, <1>8, <1>9, LiveAdd

(* The last failure settles the retry, or its callback raises and it is      *)
(* lost.                                                                     *)
LEMMA ExhaustSettles ==
  ASSUME TypeInv, Apart, NEW w \in Worker, Exhaust(w), NEW t, t = TicketOf(w)
  PROVE  /\ t \in Ticket /\ w \in Hands(t)
         /\ \/ Settles(t) /\ exhausted' = exhausted \cup {t} /\ succeeded' = succeeded
            \/ Loses
<1>1. Handed(w) /\ UNCHANGED <<stream, cursor, pel, sending, accepted, succeeded>>
  BY DEF Exhaust, Handed
<1>2. CASE exhausted' = exhausted \cup {t} /\ Onward(w)
  BY <1>1, <1>2, HandedOnce, HandedDone DEF Settles, Settled
<1>3. CASE Happens("callback") /\ worker' = [worker EXCEPT ![w] = Asleep] /\ exhausted' = exhausted
  <2>1. /\ \A v \in Worker \ {w} : worker'[v] = worker[v]
        /\ worker'[w].at = "poll"
    BY <1>3, StreamDef DEF Asleep
  <2>2. \A v \in Worker : Up(v)' <=> Up(v)
    BY <1>1, <2>1 DEF Up, Handed
  <2>3. \A u : Live(u)' = Live(u) /\ Sends(u)' = Sends(u)
    BY <1>1, <2>2, LiveSame DEF Sends
  <2>4. \A u : w \notin Runs(u)' \cup Hands(u)'
    BY <2>1 DEF Hands, Handed, Runs
  <2>5. Hands(t)' = Hands(t) \ {w}
    BY <1>1, <2>1, <2>4, HandsOthers DEF StreamGrows
  <2>6. \A u \in Ticket \ {t} : Stays(u)
    BY <1>1, <2>1, <2>3, <2>4, HandedOnce, Untouched DEF StreamGrows
  <2>7. <<"handed", w>> \in Places(t) /\ <<"handed", w>> \notin Places(t)'
    BY <1>1, <2>5, HandedOnce DEF Places
  <2>8. Places(t)' \subseteq Places(t)
    BY <2>3, <2>5 DEF Places
  <2>9. Loses
    BY <1>1, <1>3, <2>6, <2>7, <2>8, HandedOnce DEF Loses, Statuses, Stays, Happens
  <2> QED
    BY <1>1, <2>9, HandedOnce
<1> QED
  BY <1>1, <1>2, <1>3, HandedOnce DEF Exhaust

(* A fault that happened stays in the history.                               *)
LEMMA NoXack == ASSUME [Next]_vars PROVE "xack" \in faults => "xack" \in faults'
  BY DEF vars, Next, Drain, Start, Crash, Enqueue, AsyncEnqueue, Add, Elapse, ReadPending, ReadNew, ReadFails,
       Skip, Run, Return, Succeed, Again, Exhaust, Happens

(* Every step has one of the effects above, while acknowledgements get       *)
(* through.                                                                  *)
LEMMA Effects ==
  ASSUME TypeInv, OneHolder, Apart, [Next]_vars, "xack" \notin faults'
  PROVE  \/ Rests \/ Loses
         \/ \E t \in Ticket : Appears(t) \/ Begins(t) \/ Moves(t) \/ Settles(t)
<1>1. "xack" \notin faults
  BY NoXack
<1>2. ASSUME NEW w \in Worker, Run(w) PROVE \E t \in Ticket : Begins(t)
  <2>1. TicketOf(w) \in Ticket
    BY <1>2, TicketType DEF Run, Working
  <2> QED
    BY <1>2, <2>1, RunBegins
<1>3. ASSUME NEW w \in Worker, Return(w) PROVE \E t \in Ticket : Moves(t)
  BY <1>3, ReturnMoves
<1>4. ASSUME NEW w \in Worker, Succeed(w) PROVE Rests \/ \E t \in Ticket : Settles(t)
  BY <1>1, <1>4, SucceedSettles
<1>5. ASSUME NEW w \in Worker, Again(w) PROVE Loses \/ \E t \in Ticket : Moves(t)
  BY <1>5, AgainMoves
<1>6. ASSUME NEW w \in Worker, Exhaust(w) PROVE Loses \/ \E t \in Ticket : Settles(t)
  BY <1>6, ExhaustSettles
<1>7. ASSUME NEW w \in Worker, NEW t \in Ticket, Enqueue(w, t) \/ AsyncEnqueue(w, t)
      PROVE  Loses \/ Appears(t) \/ Moves(t)
  BY <1>7, EnqueueAppears, SendMoves
<1> QED
  BY <1>2, <1>3, <1>4, <1>5, <1>6, <1>7, Stutter, StartRests, CrashLoses, ElapseRests, ReadPendingRests,
     ReadNewRests, ReadFailsRests, SkipRests DEF Next, Drain

(* Nothing was accepted at the start.                                        *)
LEMMA PlaceInit == Init => PlaceInv /\ KeptInv
<1> SUFFICES ASSUME Init PROVE PlaceInv /\ KeptInv
  OBVIOUS
<1>1. \A t : Sends(t) = {} /\ Live(t) = {} /\ Hands(t) = {}
  BY DEF Init, Sends, Live, Hands, Id, Handed, Down, Asleep
<1> QED
  BY <1>1 DEF Init, PlaceInv, KeptInv, Apart, Kept, Places, Settled

\* No place without an accepted retry.
LEMMA PlacesAccepted ==
  ASSUME TypeInv, NEW t, t \notin accepted
  PROVE  Places(t) = {}
<1>1. Sends(t) = {}
  BY StreamDef DEF Sends
<1>2. Live(t) = {}
  BY DEF Live, TypeInv, Named
<1>3. Hands(t) = {}
  BY TicketType DEF Hands, Handed, Working
<1> QED
  BY <1>1, <1>2, <1>3 DEF Places

(* Each effect keeps a retry in its one place, and only a fault takes it     *)
(* from there.                                                               *)
LEMMA PlaceStep ==
  ASSUME TypeInv, OneHolder, PlaceInv, KeptInv, [Next]_vars
  PROVE  PlaceInv' /\ KeptInv'
<1>1. CASE "xack" \in faults'
  BY <1>1 DEF PlaceInv, KeptInv
<1>2. CASE "xack" \notin faults'
  <2>1. "xack" \notin faults /\ (faults' = {} => faults = {})
    BY <1>2 DEF vars, Next, Drain, Start, Crash, Enqueue, AsyncEnqueue, Add, Elapse,
       ReadPending, ReadNew, ReadFails,
         Skip, Run, Return, Succeed, Again, Exhaust, Happens
  <2>2. accepted \subseteq Ticket /\ Settled \subseteq accepted
    BY StreamDef DEF Settled
  <2>3. Apart /\ (faults' = {} => Kept)
    BY <2>1 DEF PlaceInv, KeptInv
  <2>4. ASSUME Rests PROVE Apart' /\ (Kept => Kept')
    BY <2>2, <2>3, <2>4 DEF Rests, Statuses, Stays, Apart, Kept, Settled
  <2>5. ASSUME NEW t \in Ticket, Appears(t) PROVE Apart' /\ (Kept => Kept')
    BY <2>2, <2>3, <2>5, PlacesAccepted DEF Appears, StayApart, Stays, Apart, Kept, Settled
  <2>6. ASSUME NEW t \in Ticket, Begins(t) PROVE Apart' /\ (Kept => Kept')
    BY <2>2, <2>3, <2>6 DEF Begins, StayApart, Stays, Apart, Kept, Settled
  <2>7. ASSUME NEW t \in Ticket, Moves(t) PROVE Apart' /\ (Kept => Kept')
    BY <2>2, <2>3, <2>7 DEF Moves, Statuses, StayApart, Stays, Apart, Kept, Settled
  <2>8. ASSUME NEW t \in Ticket, Settles(t) PROVE Apart' /\ (Kept => Kept')
    BY <2>2, <2>3, <2>8 DEF Settles, StayApart, Stays, Apart, Kept, Settled
  <2>9. ASSUME Loses PROVE Apart' /\ faults' # {}
    BY <2>2, <2>3, <2>9 DEF Loses, Statuses, Apart, Settled
  <2> QED
    BY <1>2, <2>3, <2>4, <2>5, <2>6, <2>7, <2>8, <2>9, Effects DEF PlaceInv, KeptInv
<1> QED
  BY <1>1, <1>2

(* The three invariants hold together in every state.                        *)
LEMMA PlaceInvariant == Spec => [](TypeInv /\ OneHolder /\ PlaceInv /\ KeptInv)
<1>1. TypeInv /\ OneHolder /\ PlaceInv /\ KeptInv /\ [Next]_vars => (PlaceInv /\ KeptInv)'
  BY PlaceStep
<1> QED
  BY <1>1, TypeInvariant, OneHolderCorrect, PlaceInit, PTL DEF Spec

(* NothingLost: without a fault, an accepted retry is settled, on its way to *)
(* Redis, waiting there in exactly one message, or in the hands of a         *)
(* container.                                                                *)
THEOREM NothingLostCorrect == Spec => []NothingLost
<1>1. TypeInv /\ PlaceInv /\ KeptInv => NothingLost
  <2> SUFFICES ASSUME TypeInv, PlaceInv, KeptInv, faults = {}, NEW t \in accepted
               PROVE  \/ t \in succeeded \cup exhausted /\ Live(t) = {}
                      \/ Sending(t) /\ Live(t) = {}
                      \/ Cardinality(Live(t)) = 1
                      \/ InHand(t) /\ Live(t) = {}
    BY DEF NothingLost
  <2>1. t \in Ticket /\ Apart /\ Kept
    BY StreamDef DEF PlaceInv, KeptInv
  <2>2. CASE t \in Settled
    BY <2>1, <2>2, Alone DEF Settled
  <2>3. ASSUME NEW w \in Sends(t) PROVE Sending(t) /\ Live(t) = {}
    BY <2>1, Alone DEF Sends, Sending
  <2>4. ASSUME NEW i \in Live(t) PROVE Cardinality(Live(t)) = 1
    <3>1. Live(t) = {i}
      BY <2>1, Alone
    <3> QED
      BY <3>1, FS_Singleton
  <2>5. ASSUME NEW w \in Hands(t) PROVE InHand(t) /\ Live(t) = {}
    BY <2>1, Alone DEF Hands, Handed, Held, InHand
  <2>6. CASE Places(t) # {}
    BY <2>3, <2>4, <2>5, <2>6 DEF Places
  <2> QED
    BY <2>1, <2>2, <2>6 DEF Kept
<1> QED
  BY <1>1, PlaceInvariant, PTL

----------------------------------------------------------------------------
(* What the policy sees of a retry *)

(* EntryOf asks the same as Handed.                                          *)
LEMMA HeldIs ==
  ASSUME NEW t
  PROVE  \A w \in Worker : Held(w) /\ TicketOf(w) = t <=> w \in Runs(t) \cup Hands(t)
  BY DEF Held, Runs, Hands, Handed

(* Of a retry that is in one place at most, one container has it in hand.    *)
LEMMA OneHand ==
  ASSUME TypeInv, OneHolder, Apart, NEW t \in Ticket,
         NEW v \in Runs(t) \cup Hands(t), NEW w \in Runs(t) \cup Hands(t)
  PROVE  v = w
<1>1. CASE v \in Runs(t) /\ w \in Runs(t)
  BY <1>1, Alone, RunsLive DEF OneHolder
<1>2. CASE v \in Hands(t) /\ w \in Hands(t)
  BY <1>2, Alone
<1>3. Hands(t) = {} \/ Runs(t) = {}
  BY Alone, RunsLive
<1> QED
  BY <1>1, <1>2, <1>3

(* How a retry that runs looks to the policy.                                *)
LEMMA EntryRuns ==
  ASSUME TypeInv, OneHolder, Apart, NEW t \in Ticket, NEW w \in Runs(t) \cup Hands(t)
  PROVE  EntryOf(t) = [phase |-> "running", attempt |-> stream[Current(w)].attempt]
<1>1. w \in Worker /\ Held(w) /\ TicketOf(w) = t /\ InHand(t)
  BY HeldIs DEF Runs, Hands, InHand
<1>2. w = CHOOSE v \in Worker : Held(v) /\ TicketOf(v) = t
  BY <1>1, HeldIs, OneHand
<1>3. t \in accepted
  BY <1>1, TicketType DEF Held, Working
<1> QED
  BY <1>1, <1>2, <1>3 DEF EntryOf, AttemptOf

(* How a retry that waits in the stream looks.                               *)
LEMMA EntryWaits ==
  ASSUME TypeInv, OneHolder, Apart, NEW t \in Ticket, NEW i \in Live(t), Runs(t) = {}
  PROVE  EntryOf(t) = [phase |-> "waiting", attempt |-> stream[i].attempt]
<1>1. i = CHOOSE j \in Live(t) : TRUE
  BY Alone
<1>4. ~InHand(t)
  BY Alone, HeldIs DEF InHand
<1>5. t \in accepted
  BY DEF Live, TypeInv, Named
<1> QED
  BY <1>1, <1>4, <1>5 DEF EntryOf, AttemptOf

(* How a retry looks that its container has yet to send.                     *)
LEMMA EntrySent ==
  ASSUME TypeInv, OneHolder, Apart, NEW t \in Ticket, NEW w \in Sends(t)
  PROVE  EntryOf(t) = [phase |-> "waiting", attempt |-> 0] /\ Live(t) = {} /\ Runs(t) = {}
<1>3. Live(t) = {} /\ Hands(t) = {} /\ Runs(t) = {}
  BY Alone, RunsLive
<1>4. ~InHand(t)
  BY <1>3, HeldIs DEF InHand
<1>5. t \in accepted /\ Sending(t)
  BY StreamDef DEF Sends, Sending
<1> QED
  BY <1>3, <1>4, <1>5 DEF EntryOf, AttemptOf

(* How a retry looks that is in none of the places.                          *)
LEMMA EntryOver ==
  ASSUME TypeInv, NEW t \in Ticket, Places(t) = {}
  PROVE  EntryOf(t) = [phase |-> IF t \notin accepted THEN "none"
                                 ELSE IF t \in succeeded THEN "succeeded"
                                 ELSE IF t \in exhausted THEN "exhausted"
                                 ELSE "dropped",
                       attempt |-> 0]
<1>1. Live(t) = {} /\ Hands(t) = {} /\ Sends(t) = {}
  BY PlacesHave
<1>2. ~InHand(t) /\ ~Sending(t)
  BY <1>1, RunsLive, HeldIs DEF InHand, Sending, Sends
<1> QED
  BY <1>1, <1>2 DEF EntryOf, AttemptOf

(* EntryOf, read off the place of a retry.                                   *)
Described ==
    TypeInv /\ OneHolder /\ Apart =>
      \A t \in Ticket :
        /\ \A w \in Runs(t) \cup Hands(t) :
              EntryOf(t) = [phase |-> "running", attempt |-> stream[Current(w)].attempt]
        /\ Runs(t) = {} => \A i \in Live(t) :
              EntryOf(t) = [phase |-> "waiting", attempt |-> stream[i].attempt]
        /\ \A w \in Sends(t) : /\ EntryOf(t) = [phase |-> "waiting", attempt |-> 0]
                               /\ Live(t) = {} /\ Runs(t) = {}
        /\ Places(t) = {} =>
              EntryOf(t) = [phase |-> IF t \notin accepted THEN "none"
                                      ELSE IF t \in succeeded THEN "succeeded"
                                      ELSE IF t \in exhausted THEN "exhausted"
                                      ELSE "dropped",
                            attempt |-> 0]

(* The four cases together.                                                  *)
LEMMA EntryDescribed == Described
  BY EntryRuns, EntryWaits, EntrySent, EntryOver DEF Described

(* The same of the next state.                                               *)
LEMMA EntryDescribedNext == Described'
  BY EntryDescribed, PTL

(* A retry that stays where it is looks the same.                            *)
LEMMA EntryKept ==
  ASSUME TypeInv, TypeInv', OneHolder, OneHolder', Apart, Apart', StreamGrows,
         NEW t \in Ticket, Stays(t),
         t \in accepted' <=> t \in accepted,
         t \in succeeded' <=> t \in succeeded, t \in exhausted' <=> t \in exhausted
  PROVE  EntryOf(t)' = EntryOf(t)
<1>1. Sends(t)' = Sends(t) /\ Live(t)' = Live(t) /\ Hands(t)' = Hands(t)
  BY PlacesSame DEF Stays
<1>2. CASE Runs(t) \cup Hands(t) # {}
  <2>1. PICK w \in Runs(t) \cup Hands(t) : TRUE
    BY <1>2
  <2>2. EntryOf(t) = [phase |-> "running", attempt |-> stream[Current(w)].attempt]
    BY EntryDescribed DEF Described
  <2>3. EntryOf(t)' = [phase |-> "running", attempt |-> stream'[Current(w)'].attempt]
    BY <1>1, <2>1, EntryDescribedNext DEF Described, Stays
  <2>4. Current(w) \in Id
    BY <2>1, TicketType DEF Runs, Hands, Handed, Working
  <2> QED
    BY <2>1, <2>2, <2>3, <2>4, Grown DEF Stays
<1>3. CASE Runs(t) = {} /\ Live(t) # {}
  <2>1. PICK i \in Live(t) : TRUE
    BY <1>3
  <2>2. EntryOf(t) = [phase |-> "waiting", attempt |-> stream[i].attempt]
    BY <1>3, EntryDescribed DEF Described
  <2>3. EntryOf(t)' = [phase |-> "waiting", attempt |-> stream'[i].attempt]
    BY <1>1, <1>3, <2>1, EntryDescribedNext DEF Described, Stays
  <2>4. i \in Id
    BY DEF Live
  <2> QED
    BY <2>1, <2>2, <2>3, <2>4, Grown
<1>4. CASE Sends(t) # {}
  BY <1>1, <1>4, EntryDescribed, EntryDescribedNext DEF Described
<1>5. CASE Places(t) = {}
  BY <1>5, EntryDescribed, EntryDescribedNext DEF Described, Stays
<1> QED
  BY <1>2, <1>3, <1>4, <1>5 DEF Places

(* What the three invariants say together while acknowledgements get through. *)
Sound == TypeInv /\ OneHolder /\ Apart

(* Every step leaves the stream as it is or adds one message.                *)
LEMMA Growing == ASSUME TypeInv, [Next]_vars PROVE StreamGrows
<1>1. ASSUME NEW w \in Worker, Again(w) PROVE StreamGrows
  <2>1. TicketOf(w) \in Ticket /\ NextAttempt(w) \in 0..MaxAttempts-1 /\ Add(TicketOf(w), NextAttempt(w))
    BY <1>1, TicketType, StreamAssumption DEF Again, Exhausted, NextAttempt, Working
  <2> QED
    BY <2>1 DEF Add, StreamGrows
<1>2. ASSUME NEW w \in Worker, NEW t \in Ticket, AsyncEnqueue(w, t) PROVE StreamGrows
  BY <1>2, StreamAssumption DEF AsyncEnqueue, Add, StreamGrows
<1> QED
  BY <1>1, <1>2 DEF StreamGrows, vars, Next, Drain, Start, Crash, Enqueue, Elapse,
     ReadPending, ReadNew, ReadFails,
     Skip, Run, Return, Succeed, Exhaust

(* If every retry stays where it is, the policy sees nothing.                *)
LEMMA EntriesSame ==
  ASSUME Sound, Sound', StreamGrows, Rests
  PROVE  Entries' = Entries
<1>1. ASSUME NEW u \in Ticket PROVE EntryOf(u)' = EntryOf(u)
  BY EntryKept DEF Sound, Rests, Statuses
<1> QED
  BY <1>1 DEF Entries

(* If one retry moves, the policy sees a change of that one.                 *)
LEMMA EntriesChange ==
  ASSUME Sound, Sound', StreamGrows, NEW t \in Ticket, StayApart(t),
         \A u \in Ticket \ {t} : /\ u \in accepted' <=> u \in accepted
                                 /\ u \in succeeded' <=> u \in succeeded
                                 /\ u \in exhausted' <=> u \in exhausted
  PROVE  Entries' = [Entries EXCEPT ![t] = EntryOf(t)']
<1>1. ASSUME NEW u \in Ticket \ {t} PROVE EntryOf(u)' = EntryOf(u)
  BY EntryKept DEF Sound, StayApart
<1>2. \A u \in Ticket : EntryOf(u)' = IF u = t THEN EntryOf(t)' ELSE EntryOf(u)
  BY <1>1
<1> QED
  BY <1>2 DEF Entries

(* A message at the end of the stream is one that waits.                     *)
RunDelivered == TypeInv => \A t \in Ticket : \A w \in Runs(t) : Current(w) \in Live(t) /\ Current(w) <= cursor

(* A run works on a message the group's cursor has passed.                   *)
LEMMA RunsDelivered == RunDelivered
<1> SUFFICES ASSUME TypeInv, NEW t \in Ticket, NEW w \in Runs(t)
             PROVE  Current(w) \in Live(t) /\ Current(w) <= cursor
  BY DEF RunDelivered
<1> QED
  BY RunsLive, StreamDef

(* The same of the next state.                                               *)
LEMMA RunsDeliveredNext == RunDelivered'
  BY RunsDelivered, PTL

(* What the policy sees of a retry whose message was just added.             *)
LEMMA LastWaits ==
  ASSUME TypeInv, Sound', NEW t \in Ticket, cursor' = cursor, Len(stream)+1 \in Live(t)'
  PROVE  EntryOf(t)' = [phase |-> "waiting", attempt |-> stream'[Len(stream)+1].attempt]
<1>1. Runs(t)' = {}
  <2> SUFFICES ASSUME NEW w \in Runs(t)' PROVE FALSE
    OBVIOUS
  <2>1. PICK i : i = Current(w)'
    OBVIOUS
  <2>2. i \in Live(t)' /\ i <= cursor
    BY <2>1, RunsDeliveredNext DEF RunDelivered, Sound
  <2>3. \A j, k \in Live(t)' : j = k
    <3>1. \A p, q \in Places(t)' : p = q
      BY DEF Sound, Apart
    <3> SUFFICES ASSUME NEW j \in Live(t)', NEW k \in Live(t)' PROVE j = k
      OBVIOUS
    <3>2. <<"waits", j>> = <<"waits", k>>
      BY <3>1, PlacesHaveNext
    <3> QED
      BY <3>2
  <2>4. i = Len(stream)+1
    BY <2>2, <2>3
  <2> QED
    BY <2>2, <2>4, StreamDef
<1> QED
  BY <1>1, EntryDescribedNext DEF Described, Sound

----------------------------------------------------------------------------
(* Each step is one of the policy *)

(* The run of a message is the policy's Start of its retry.                  *)
LEMMA RunIsStart ==
  ASSUME Sound, Sound', NEW w \in Worker, Run(w)
  PROVE  \E t \in Ticket : Policy!Start(t)
<1>1. PICK t \in Ticket : t = TicketOf(w)
  BY TicketType DEF Run, Working, Sound
<1>2. Begins(t) /\ StreamGrows
  BY <1>1, RunBegins DEF Sound, Begins, StreamGrows
<1>3. /\ worker[w].at = "next" /\ worker'[w].at = "run" /\ worker'[w].todo = worker[w].todo
      /\ UNCHANGED <<stream, cursor, pel>>
  BY StreamDef DEF Run, Sound
<1>4. PICK i : i = Current(w)
  OBVIOUS
<1>5. i \in pel[w] /\ i \in Id /\ stream[i].ticket = t
  BY <1>1, <1>3, <1>4, TicketType DEF Sound, TypeInv, Shape, Working, TicketOf
<1>6. i \in Live(t)
  BY <1>3, <1>5 DEF Live, Up
<1>7. Current(w)' = i /\ w \in Runs(t)'
  BY <1>1, <1>3, <1>4, <1>5 DEF Current, Runs, TicketOf
<1>8. Runs(t) = {}
  <2> SUFFICES ASSUME NEW v \in Runs(t) PROVE FALSE
    OBVIOUS
  <2>1. v \in Worker /\ Current(v) = i /\ Current(v) \in pel[v]
    BY <1>6, RunsLive, Alone DEF Sound
  <2>2. v = w
    BY <1>5, <2>1 DEF Sound, OneHolder
  <2> QED
    BY <1>3, <2>2 DEF Runs
<1>9. EntryOf(t) = [phase |-> "waiting", attempt |-> stream[i].attempt]
  BY <1>6, <1>8, EntryWaits DEF Sound
<1>10. EntryOf(t)' = [phase |-> "running", attempt |-> stream[i].attempt]
  BY <1>3, <1>7, EntryDescribedNext DEF Described, Sound
<1>11. Entries' = [Entries EXCEPT ![t] = EntryOf(t)']
  BY <1>2, EntriesChange DEF Begins
<1>12. Entries[t] = EntryOf(t)
  BY DEF Entries
<1>13. PICK e, f : e = Entries[t] /\ f = EntryOf(t)'
  OBVIOUS
<1>14. [e EXCEPT !.phase = "running"] = f
  BY <1>9, <1>10, <1>12, <1>13
<1>15. [Entries EXCEPT ![t].phase = "running"] = [Entries EXCEPT ![t] = f]
  BY <1>13, <1>14
<1>16. Policy!Start(t)
  BY <1>9, <1>11, <1>12, <1>13, <1>15 DEF Policy!Start
<1> QED
  BY <1>16

(* Accepting a retry is the policy's Accept.                                 *)
LEMMA EnqueueIsAccept ==
  ASSUME Sound, Sound', NEW w \in Worker, NEW t \in Ticket, Enqueue(w, t)
  PROVE  Policy!Accept(t)
<1>1. Appears(t) /\ StreamGrows /\ w \in Sends(t)'
  BY EnqueueAppears, StreamDef DEF Sound, StreamGrows, Enqueue, Sends
<1>2. Places(t) = {} /\ t \notin accepted
  BY <1>1, PlacesAccepted DEF Sound, Appears
<1>3. EntryOf(t) = [phase |-> "none", attempt |-> 0]
  BY <1>2, EntryOver DEF Sound
<1>4. EntryOf(t)' = [phase |-> "waiting", attempt |-> 0]
  BY <1>1, EntryDescribedNext DEF Described, Sound
<1>5. Entries' = [Entries EXCEPT ![t] = EntryOf(t)']
  BY <1>1, EntriesChange DEF Appears
<1>6. Entries[t] = EntryOf(t)
  BY DEF Entries
<1> QED
  BY <1>3, <1>4, <1>5, <1>6 DEF Policy!Accept, Policy!In

(* What a fault takes from the queue is dropped, all at once.                *)
LEMMA LossIsDrop ==
  ASSUME Sound, Sound', StreamGrows, Loses
  PROVE  Entries' = Entries \/ \E S \in SUBSET Ticket : Policy!Drop(S)
<1> DEFINE S == {u \in Ticket : Places(u)' # Places(u)}
<1>1. ASSUME NEW u \in Ticket, u \notin S PROVE EntryOf(u)' = EntryOf(u)
  BY <1>1, EntryKept DEF Loses, Statuses, Sound
<1>2. ASSUME NEW u \in S
      PROVE  EntryOf(u)' = [phase |-> "dropped", attempt |-> 0] /\ EntryOf(u).phase \in {"waiting", "running"}
  <2>1. u \in Ticket /\ Places(u)' = {} /\ Places(u) # {}
    BY DEF Loses, Sound, Apart
  <2>2. u \in accepted /\ u \notin Settled
    BY <2>1, PlacesAccepted DEF Sound, Apart
  <2>3. u \in accepted' /\ u \notin succeeded' /\ u \notin exhausted'
    BY <2>2 DEF Loses, Statuses, Settled
  <2>4. EntryOf(u)' = [phase |-> "dropped", attempt |-> 0]
    BY <2>1, <2>3, EntryDescribedNext DEF Described, Sound
  <2>5. Runs(u) \cup Hands(u) # {} \/ Live(u) # {} \/ Sends(u) # {}
    BY <2>1 DEF Places
  <2>6. EntryOf(u).phase \in {"waiting", "running"}
    BY <2>1, <2>5, EntryDescribed DEF Described, Sound
  <2> QED
    BY <2>4, <2>6
<1> HIDE DEF S
<1>3. CASE S = {}
  BY <1>1, <1>3 DEF Entries
<1>4. CASE S # {}
  <2>1. S \in SUBSET Ticket
    BY DEF S
  <2>2. \A u \in S : Policy!Alive(u)
    BY <1>2, <2>1 DEF Policy!Alive, Entries
  <2>3. \A u \in Ticket : EntryOf(u)' = IF u \in S THEN [phase |-> "dropped", attempt |-> 0] ELSE Entries[u]
    BY <1>1, <1>2 DEF Entries
  <2>4. Entries' = [u \in Ticket |-> IF u \in S THEN [phase |-> "dropped", attempt |-> 0] ELSE Entries[u]]
    BY <2>3 DEF Entries
  <2>5. Policy!Drop(S)
    BY <1>4, <2>2, <2>4 DEF Policy!Drop, Policy!In
  <2> QED
    BY <2>1, <2>5
<1> QED
  BY <1>3, <1>4

(* The policy does not see a retry on its way to the stream.                 *)
LEMMA SendIsHidden ==
  ASSUME Sound, Sound', NEW w \in Worker, NEW t \in Ticket, AsyncEnqueue(w, t)
  PROVE  Entries' = Entries \/ Loses
<1>1. /\ cursor' = cursor /\ StreamGrows
      /\ UNCHANGED <<accepted, succeeded, exhausted>>
  BY StreamAssumption DEF AsyncEnqueue, Add, StreamGrows
<1>2. CASE /\ Moves(t) /\ w \in Sends(t) /\ Len(stream)+1 \in Live(t)'
           /\ stream'[Len(stream)+1].attempt = 0
  <2>1. EntryOf(t) = [phase |-> "waiting", attempt |-> 0]
    BY <1>2, EntrySent DEF Sound
  <2>2. EntryOf(t)' = [phase |-> "waiting", attempt |-> 0]
    BY <1>1, <1>2, LastWaits DEF Sound
  <2>3. Entries' = [Entries EXCEPT ![t] = EntryOf(t)']
    BY <1>1, <1>2, EntriesChange DEF Moves
  <2> QED
    BY <2>1, <2>2, <2>3 DEF Entries
<1> QED
  BY <1>2, SendMoves DEF Sound

(* The policy does not see the XACK of a run.                                *)
LEMMA ReturnIsHidden ==
  ASSUME Sound, Sound', "xack" \notin faults', NEW w \in Worker, Return(w)
  PROVE  Entries' = Entries
<1>1. PICK t : t = TicketOf(w)
  OBVIOUS
<1>2. /\ Moves(t) /\ t \in Ticket /\ w \in Runs(t) /\ w \in Hands(t)'
      /\ Current(w)' = Current(w) /\ stream' = stream
  BY <1>1, ReturnMoves DEF Sound
<1>3. EntryOf(t) = [phase |-> "running", attempt |-> stream[Current(w)].attempt]
  BY <1>2, EntryRuns DEF Sound
<1>4. EntryOf(t)' = [phase |-> "running", attempt |-> stream'[Current(w)'].attempt]
  BY <1>2, EntryDescribedNext DEF Described, Sound
<1>5. Entries' = [Entries EXCEPT ![t] = EntryOf(t)']
  BY <1>2, EntriesChange DEF Moves, Statuses, StreamGrows
<1> QED
  BY <1>2, <1>3, <1>4, <1>5 DEF Entries

(* A success is the policy's Succeed.                                        *)
LEMMA SucceedIsSucceed ==
  ASSUME Sound, Sound', "xack" \notin faults, NEW w \in Worker, Succeed(w)
  PROVE  Entries' = Entries \/ \E t \in Ticket : Policy!Succeed(t)
<1>1. PICK t : t = TicketOf(w)
  OBVIOUS
<1>2. t \in Ticket /\ w \in Hands(t) /\ StreamGrows
  BY <1>1, SucceedSettles DEF Sound, Succeed, StreamGrows
<1>3. CASE Settles(t) /\ succeeded' = succeeded \cup {t} /\ exhausted' = exhausted
  <2>1. Places(t)' = {} /\ t \in accepted /\ t \in succeeded'
    BY <1>2, <1>3, PlacesAccepted DEF Settles, Sound, Apart
  <2>2. EntryOf(t)' = [phase |-> "succeeded", attempt |-> 0]
    BY <1>2, <1>3, <2>1, EntryDescribedNext DEF Described, Sound, Settles
  <2>3. EntryOf(t).phase = "running"
    BY <1>2, EntryRuns DEF Sound
  <2>4. Entries' = [Entries EXCEPT ![t] = EntryOf(t)']
    BY <1>2, <1>3, EntriesChange DEF Settles
  <2>5. Entries[t] = EntryOf(t)
    BY <1>2 DEF Entries
  <2>6. Policy!Succeed(t)
    BY <2>2, <2>3, <2>4, <2>5 DEF Policy!Succeed, Policy!In
  <2> QED
    BY <1>2, <2>6
<1>4. CASE Rests
  BY <1>2, <1>4, EntriesSame
<1> QED
  BY <1>1, <1>3, <1>4, SucceedSettles DEF Sound

(* A further attempt is the policy's Again: one more than the last.          *)
LEMMA AgainIsAgain ==
  ASSUME Sound, Sound', NEW w \in Worker, Again(w)
  PROVE  Loses \/ \E t \in Ticket : Policy!Again(t)
<1>1. PICK t : t = TicketOf(w)
  OBVIOUS
<1>2. t \in Ticket /\ w \in Hands(t) /\ cursor' = cursor
  BY <1>1, AgainMoves DEF Sound, Again
<1>3. PICK a \in 0..MaxAttempts-1 : a = stream[Current(w)].attempt
  BY TicketType DEF Again, Working, Sound
<1>4. a + 1 < MaxAttempts
  BY <1>3, StreamAssumption DEF Again, Exhausted, NextAttempt
<1>5. CASE /\ Moves(t) /\ Len(stream)+1 \in Live(t)'
           /\ stream'[Len(stream)+1].attempt = NextAttempt(w)
  <2>1. EntryOf(t) = [phase |-> "running", attempt |-> a]
    BY <1>2, <1>3, EntryRuns DEF Sound
  <2>2. EntryOf(t)' = [phase |-> "waiting", attempt |-> a + 1]
    BY <1>2, <1>3, <1>5, LastWaits DEF Sound, NextAttempt
  <2>3. StreamGrows
    BY Growing DEF Sound, Next, Drain
  <2>4. Entries' = [Entries EXCEPT ![t] = EntryOf(t)']
    BY <1>2, <1>5, <2>3, EntriesChange DEF Moves, Statuses
  <2>5. Entries[t] = EntryOf(t)
    BY <1>2 DEF Entries
  <2>6. Policy!Again(t)
    BY <1>4, <2>1, <2>2, <2>4, <2>5 DEF Policy!Again
  <2> QED
    BY <1>2, <2>6
<1> QED
  BY <1>1, <1>5, AgainMoves DEF Sound

(* The last failure is the policy's Exhaust.                                 *)
LEMMA ExhaustIsExhaust ==
  ASSUME Sound, Sound', NEW w \in Worker, Exhaust(w)
  PROVE  Loses \/ \E t \in Ticket : Policy!Exhaust(t)
<1>1. PICK t : t = TicketOf(w)
  OBVIOUS
<1>2. t \in Ticket /\ w \in Hands(t) /\ StreamGrows
  BY <1>1, ExhaustSettles DEF Sound, Exhaust, StreamGrows
<1>3. PICK a \in 0..MaxAttempts-1 : a = stream[Current(w)].attempt
  BY TicketType DEF Exhaust, Working, Sound
<1>4. a + 1 = MaxAttempts
  BY <1>3, StreamAssumption DEF Exhaust, Exhausted, NextAttempt
<1>5. CASE Settles(t) /\ exhausted' = exhausted \cup {t} /\ succeeded' = succeeded
  <2>1. Places(t)' = {} /\ Places(t) # {}
    BY <1>2, <1>5 DEF Settles, Sound, Apart
  <2>2. t \in accepted' /\ t \in exhausted' /\ t \notin succeeded'
    BY <1>2, <1>5, <2>1, PlacesAccepted DEF Settles, Sound, Apart, Settled
  <2>3. EntryOf(t)' = [phase |-> "exhausted", attempt |-> 0]
    BY <1>2, <2>1, <2>2, EntryDescribedNext DEF Described, Sound
  <2>4. EntryOf(t) = [phase |-> "running", attempt |-> a]
    BY <1>2, <1>3, EntryRuns DEF Sound
  <2>5. Entries' = [Entries EXCEPT ![t] = EntryOf(t)']
    BY <1>2, <1>5, EntriesChange DEF Settles
  <2>6. Entries[t] = EntryOf(t)
    BY <1>2 DEF Entries
  <2>7. Policy!Exhaust(t)
    BY <1>4, <2>3, <2>4, <2>5, <2>6 DEF Policy!Exhaust, Policy!In
  <2> QED
    BY <1>2, <2>7
<1> QED
  BY <1>1, <1>5, ExhaustSettles DEF Sound

(* Every step is one of the policy, or one it does not see.                  *)
LEMMA StreamStep ==
  ASSUME Sound, Sound', [Next]_vars, "xack" \notin faults'
  PROVE  Policy!Next \/ Entries' = Entries
<1>1. StreamGrows /\ "xack" \notin faults
  BY Growing, NoXack DEF Sound
<1>2. CASE Rests
  BY <1>1, <1>2, EntriesSame
<1>3. CASE Loses
  BY <1>1, <1>3, LossIsDrop DEF Policy!Next
<1>4. ASSUME NEW w \in Worker, NEW t \in Ticket, Enqueue(w, t) \/ AsyncEnqueue(w, t)
      PROVE  Policy!Next \/ Entries' = Entries \/ Loses
  BY <1>4, EnqueueIsAccept, SendIsHidden DEF Policy!Next
<1>5. ASSUME NEW w \in Worker, Run(w) \/ Return(w)
      PROVE  Policy!Next \/ Entries' = Entries
  BY <1>5, RunIsStart, ReturnIsHidden DEF Policy!Next
<1>6. ASSUME NEW w \in Worker, Succeed(w) \/ Again(w) \/ Exhaust(w)
      PROVE  Policy!Next \/ Entries' = Entries \/ Loses
  BY <1>1, <1>6, SucceedIsSucceed, AgainIsAgain, ExhaustIsExhaust DEF Policy!Next
<1>7. TypeInv /\ OneHolder
  BY DEF Sound
<1> QED
  BY <1>2, <1>3, <1>4, <1>5, <1>6, <1>7, Stutter, StartRests, CrashLoses, ElapseRests, ReadPendingRests,
     ReadNewRests, ReadFailsRests, SkipRests DEF Next, Drain

(* The queue starts as the policy does.                                      *)
LEMMA StreamInit == Init => Policy!Init
<1> SUFFICES ASSUME Init PROVE Policy!Init
  OBVIOUS
<1>1. \A t \in Ticket : EntryOf(t) = [phase |-> "none", attempt |-> 0]
  BY DEF Init, EntryOf, AttemptOf, InHand, Held, Live, Id, Down, Asleep
<1> QED
  BY <1>1 DEF Policy!Init, Policy!In, Entries

(* RefinesPolicy: as long as every XACK gets through, the stream queue does  *)
(* to each retry what RetryPolicy allows: attempts one by one, no run after  *)
(* the end, no more runs than attempts.                                      *)
THEOREM StreamRefinesPolicy == Spec => RefinesPolicy
<1> DEFINE Inv == TypeInv /\ OneHolder /\ PlaceInv
<1>1. Inv /\ Inv' /\ [Next]_vars => [Policy!Next \/ "xack" \in faults']_Entries
  <2> SUFFICES ASSUME Inv, Inv', [Next]_vars, "xack" \notin faults' PROVE Policy!Next \/ Entries' = Entries
    OBVIOUS
  <2>1. Sound /\ Sound'
    BY NoXack DEF Sound, PlaceInv
  <2> QED
    BY <2>1, StreamStep
<1>2. Spec => []Inv
  BY PlaceInvariant, PTL
<1> HIDE DEF Inv
<1> QED
  BY <1>1, <1>2, StreamInit, PTL DEF Spec, RefinesPolicy
=============================================================================
