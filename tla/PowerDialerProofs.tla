------------------------- MODULE PowerDialerProofs -------------------------
(***************************************************************************)
(* What PowerDialer guarantees for every queue, number of lines, set of    *)
(* calls and bound.                                                        *)
(***************************************************************************)
EXTENDS PowerDialer, FiniteSetTheorems, WellFoundedInduction, TLAPS

----------------------------------------------------------------------------
(* The operators on payloads *)

LEMMA InitPayloadType == InitPayload \in Payload /\ ~Exhausted(InitPayload)
<1>1. << >> \in Seq(Record)
  OBVIOUS
<1>2. Len(Queue) \in Nat
  BY QueueAssumption
<1> QED
  BY <1>1, <1>2, QueueAssumption DEF InitPayload, Payload, Exhausted, Counter

LEMMA BumpType ==
  ASSUME NEW p \in Payload, NEW k \in Counter
  PROVE  /\ Bump(p, k) \in Payload
         /\ Bump(p, k).index = p.index /\ Bump(p, k).batch = p.batch
         /\ Bump(p, k).active = p.active /\ Bump(p, k).cur = p.cur
         /\ Bump(p, k).dispositions = p.dispositions
         /\ Bump(p, k).stats = [p.stats EXCEPT ![k] = @ + 1]
<1>1. [p.stats EXCEPT ![k] = @ + 1] \in [Counter -> Nat]
  BY DEF Payload
<1>2. Bump(p, k) = [p EXCEPT !.stats = [p.stats EXCEPT ![k] = @ + 1]]
  BY DEF Bump, Payload
<1> HIDE DEF Bump
<1> DEFINE t == [p.stats EXCEPT ![k] = @ + 1]
<1> HIDE DEF t
<1>3. t \in [Counter -> Nat] /\ Bump(p, k) = [p EXCEPT !.stats = t]
  BY <1>1, <1>2 DEF t
<1>4. Bump(p, k) \in Payload
  BY <1>3 DEF Payload
<1>5. Bump(p, k).stats = t
  BY <1>3 DEF Payload
<1> QED
  BY <1>3, <1>4, <1>5 DEF Payload, t

LEMMA StatOfType ==
  \A d \in ValidDisposition \ {"skip"} : StatOf[d] \in Counter
  BY DEF StatOf, Counter, ValidDisposition

LEMMA CurrentLeadType ==
  ASSUME NEW p \in Payload, ~Exhausted(p)
  PROVE  CurrentLead(p) \in Lead
<1>1. p.index \in Nat /\ Len(Queue) \in Nat /\ Queue \in [1..Len(Queue) -> Lead]
  BY QueueAssumption DEF Payload
<1> QED
  BY <1>1 DEF Exhausted, CurrentLead

\* Recording a result touches counters and records only.
LEMMA RecordedType ==
  ASSUME NEW p \in Payload, ~Exhausted(p), NEW d \in ValidDisposition
  PROVE  /\ Recorded(p, d) \in Payload
         /\ Recorded(p, d).index = p.index /\ Recorded(p, d).batch = p.batch
         /\ Recorded(p, d).active = p.active /\ Recorded(p, d).cur = p.cur
         /\ d = "skip" => Recorded(p, d) = p
         /\ d # "skip" =>
              /\ Recorded(p, d).dispositions = Append(p.dispositions, RecordOf(p, d))
              /\ Recorded(p, d).stats = [p.stats EXCEPT ![StatOf[d]] = @ + 1]
<1>1. CASE d = "skip"
  BY <1>1 DEF Recorded
<1>2. CASE d # "skip"
  <2>1. StatOf[d] \in Counter
    BY <1>2, StatOfType
  <2>2. RecordOf(p, d) \in Record
    BY CurrentLeadType DEF RecordOf, Record, Payload
  <2> DEFINE q == Bump(p, StatOf[d])
  <2>3. /\ q \in Payload /\ q.index = p.index /\ q.batch = p.batch
        /\ q.active = p.active /\ q.cur = p.cur /\ q.dispositions = p.dispositions
        /\ q.stats = [p.stats EXCEPT ![StatOf[d]] = @ + 1]
    BY <2>1, BumpType
  <2>4. Append(q.dispositions, RecordOf(p, d)) \in Seq(Record)
    BY <2>2, <2>3 DEF Payload
  <2>5. Recorded(p, d) = [q EXCEPT !.dispositions = Append(@, RecordOf(p, d))]
    BY <1>2 DEF Recorded
  <2> HIDE DEF q
  <2> QED
    BY <1>2, <2>3, <2>4, <2>5 DEF Payload
<1> QED
  BY <1>1, <1>2

\* The queue always moves on by at least one lead.
LEMMA BatchAdvanceType ==
  ASSUME NEW p \in Payload
  PROVE  BatchAdvance(p) \in Nat /\ BatchAdvance(p) >= 1
<1>1. IsFiniteSet(p.batch)
  BY SetsAssumption, FS_Subset DEF Payload
<1> QED
  BY <1>1, FS_CardinalityType, FS_EmptySet DEF BatchAdvance

LEMMA AdvanceType ==
  ASSUME NEW p \in Payload
  PROVE  /\ Advance(p) \in Payload
         /\ Advance(p).index >= p.index /\ Advance(p).active = p.active
         /\ Advance(p).stats = p.stats /\ Advance(p).dispositions = p.dispositions
<1> DEFINE n == p.index + BatchAdvance(p)
<1>1. n \in Nat /\ n >= p.index
  BY BatchAdvanceType DEF Payload
<1>2. Advance(p) = [p EXCEPT !.index = n, !.cur = NoCall, !.batch = {}]
  BY DEF Advance
<1> HIDE DEF n
<1> QED
  BY <1>1, <1>2 DEF Payload

LEMMA DisposedType ==
  ASSUME NEW p \in Payload, ~Exhausted(p), NEW d \in ValidDisposition
  PROVE  /\ Disposed(p, d) \in Payload
         /\ Disposed(p, d).index >= p.index /\ Disposed(p, d).active = p.active
         /\ Disposed(p, d).stats = Recorded(p, d).stats
         /\ Disposed(p, d).dispositions = Recorded(p, d).dispositions
<1>1. Recorded(p, d) \in Payload /\ Recorded(p, d).index = p.index
      /\ Recorded(p, d).active = p.active
  BY RecordedType
<1> QED
  BY <1>1, AdvanceType DEF Disposed

\* Adding entries to activeCalls, and the fields POST /call records.
LEMMA RecordCallType ==
  ASSUME NEW p \in Payload, NEW a \in [Call -> Lead \cup {NoLead}],
         NEW u \in Call \cup {NoCall}, NEW b \in SUBSET Lead, NEW n \in Nat
  PROVE  LET q == [p EXCEPT !.active = a, !.cur = u, !.batch = b, !.stats["called"] = @ + n]
         IN  /\ q \in Payload /\ q.index = p.index /\ q.active = a
             /\ q.dispositions = p.dispositions
             /\ q.stats = [p.stats EXCEPT !["called"] = @ + n]
<1> DEFINE t == [p.stats EXCEPT !["called"] = @ + n]
           q == [p EXCEPT !.active = a, !.cur = u, !.batch = b, !.stats["called"] = @ + n]
<1>1. t \in [Counter -> Nat]
  BY DEF Payload, Counter
<1>2. q = [p EXCEPT !.active = a, !.cur = u, !.batch = b, !.stats = t]
  BY DEF Payload
<1> HIDE DEF t, q
<1>3. /\ q \in Payload /\ q.index = p.index /\ q.active = a
      /\ q.dispositions = p.dispositions /\ q.stats = t
  BY <1>1, <1>2 DEF Payload
<1> QED
  BY <1>3 DEF t, q

----------------------------------------------------------------------------
(* The request slots *)

\* A nonempty set of natural numbers has a least element.
LEMMA LeastElement ==
  ASSUME NEW S \in SUBSET Nat, S # {}
  PROVE  \E m \in S : \A k \in S : m <= k
<1> DEFINE T == {1..m : m \in S}
<1>1. \A m \in S : IsFiniteSet(1..m)
  BY FS_Interval
<1>2. T \subseteq FiniteSubsetsOf(Nat) /\ T # {}
  <2>1. \A m \in S : 1..m \in SUBSET Nat
    OBVIOUS
  <2> QED
    BY <1>1, <2>1 DEF FiniteSubsetsOf
<1>3. IsWellFoundedOn(StrictSubsetOrdering(Nat), FiniteSubsetsOf(Nat))
  BY FS_StrictSubsetOrderingWellFounded
<1>4. PICK x \in T : \A y \in T : ~ (<<y, x>> \in StrictSubsetOrdering(Nat))
  BY <1>2, <1>3, WFMin
<1>5. PICK m \in S : x = 1..m
  BY <1>4
<1>6. ASSUME NEW k \in S, k < m
      PROVE  FALSE
  <2>1. 1..k \in T /\ 1..k \subseteq 1..m /\ 1..k \subseteq Nat /\ 1..m \subseteq Nat
    BY <1>6
  <2>2. m \in 1..m /\ m \notin 1..k
    BY <1>6
  <2>3. <<1..k, 1..m>> \in StrictSubsetOrdering(Nat)
    BY <2>1, <2>2 DEF StrictSubsetOrdering
  <2> QED
    BY <1>4, <1>5, <2>1, <2>3
<1> QED
  BY <1>6

\* While the calls of a request wait to be recorded and logged, sids tells for
\* every lead of the batch whether it was called, and at least one was.
DialOK ==
    dial.at \in {"record", "log"} =>
        /\ DOMAIN dial.sids = DOMAIN dial.leads
        /\ Created(dial.sids) # {}

\* The handlers go on only with payloads that have a current lead.
SlotsOK ==
    /\ ~Exhausted(dispo.p)
    /\ \A c \in Call : ~Exhausted(cb[c].p)

TypeInv == TypeOK /\ DialOK /\ SlotsOK

LEMMA RankType ==
  ASSUME NEW sids \in Seq(Call \cup {NoCall}), NEW i \in DOMAIN sids, sids[i] # NoCall
  PROVE  Rank(sids, i) \in 1..i
<1> DEFINE R == {j \in 1..i : sids[j] # NoCall}
<1>1. i \in Nat /\ i >= 1
  OBVIOUS
<1>2. IsFiniteSet(1..i) /\ Cardinality(1..i) = i
  BY <1>1, FS_Interval
<1>3. R \in SUBSET (1..i) /\ i \in R
  BY <1>1
<1>4. IsFiniteSet(R) /\ Cardinality(R) <= i /\ Cardinality(R) \in Nat
  BY <1>2, <1>3, FS_Subset, FS_CardinalityType
<1>5. Cardinality(R) # 0
  BY <1>3, <1>4, FS_EmptySet
<1> QED
  BY <1>1, <1>4, <1>5 DEF Rank

\* What a call is paired with is a lead of the batch.
LEMMA PairedLeadType ==
  ASSUME TypeInv, dial.at \in {"record", "log"}, NEW c \in Created(dial.sids)
  PROVE  c \in Call /\ PairedLead(c) \in Lead
<1> DEFINE i == CHOOSE i \in DOMAIN dial.sids : dial.sids[i] = c
<1>1. dial.sids \in Seq(Call \cup {NoCall}) /\ dial.leads \in Seq(Lead)
  BY DEF TypeInv, TypeOK
<1>2. DOMAIN dial.sids = DOMAIN dial.leads
  BY DEF TypeInv, DialOK
<1>3. i \in DOMAIN dial.sids /\ dial.sids[i] = c /\ c # NoCall /\ c \in Call
  BY <1>1 DEF Created
<1>4. Rank(dial.sids, i) \in 1..i
  BY <1>1, <1>3, RankType
<1> HIDE DEF i
<1>5. Rank(dial.sids, i) \in DOMAIN dial.leads
  BY <1>1, <1>2, <1>3, <1>4
<1>6. dial.leads[Rank(dial.sids, i)] \in Lead
  BY <1>1, <1>5
<1> QED
  BY <1>3, <1>6 DEF PairedLead, i

LEMMA FirstCallType ==
  ASSUME TypeInv, dial.at = "record"
  PROVE  FirstCall \in Call
<1> DEFINE S == {i \in DOMAIN dial.sids : dial.sids[i] # NoCall}
           Q(i) == dial.sids[i] # NoCall /\ \A j \in 1..(i-1) : dial.sids[j] = NoCall
<1>1. dial.sids \in Seq(Call \cup {NoCall})
  BY DEF TypeInv, TypeOK
<1>2. S \in SUBSET Nat /\ S # {}
  BY <1>1 DEF TypeInv, DialOK, Created
<1>3. PICK m \in S : \A k \in S : m <= k
  BY <1>2, LeastElement
<1>4. m \in DOMAIN dial.sids /\ Q(m)
  BY <1>1, <1>3
<1>5. \E i : i \in DOMAIN dial.sids /\ Q(i)
  BY <1>4
<1> DEFINE first == CHOOSE i \in DOMAIN dial.sids : Q(i)
<1>6. first \in DOMAIN dial.sids /\ dial.sids[first] # NoCall
  BY <1>5
<1>7. FirstCall = dial.sids[first]
  BY DEF FirstCall
<1> HIDE DEF first
<1> QED
  BY <1>1, <1>6, <1>7

\* The number of calls a request created.
LEMMA CreatedFinite ==
  ASSUME NEW sids \in Seq(Call \cup {NoCall})
  PROVE  /\ Created(sids) \subseteq Call
         /\ IsFiniteSet(Created(sids)) /\ Cardinality(Created(sids)) \in Nat
<1>1. Created(sids) \subseteq Call
  BY DEF Created
<1> QED
  BY <1>1, SetsAssumption, FS_Subset, FS_CardinalityType

----------------------------------------------------------------------------
(* Type correctness *)

LEMMA SpendType ==
  ASSUME TypeOK, NEW k \in DOMAIN Bounds, Spend(k)
  PROVE  left' \in [DOMAIN Bounds -> Nat]
  BY DEF TypeOK, Spend

LEMMA BoundsType == DOMAIN Bounds = {"dials", "dispositions", "faults", "late"}
  BY DEF Bounds

LEMMA FaultType ==
  ASSUME TypeOK, Fault
  PROVE  left' \in [DOMAIN Bounds -> Nat]
  BY BoundsType, SpendType DEF Fault

\* What the two handlers that write a payload back leave behind.
LEMMA WriteBackType ==
  ASSUME TypeOK, NEW p \in Payload, ~Exhausted(p), NEW d \in ValidDisposition, WriteBack(p, d)
  PROVE  /\ payload' = Disposed(p, d) /\ payload' \in Payload
         /\ status' \in {status, "done"}
         /\ Exhausted(payload') => status' = "done"
         /\ ~Exhausted(payload') => status' = status
         /\ lost' \in BOOLEAN /\ lost' = (lost \/ payload # p)
  BY DisposedType DEF WriteBack, TypeOK

LEMMA LogCallType ==
  ASSUME TypeOK, NEW p \in Payload, NEW d \in ValidDisposition, LogCall(p, d)
  PROVE  /\ callLog' \in [Call -> [lead : Lead \cup {NoLead},
                                   disposition : ValidDisposition \cup {"none", "power_dial"}]]
         /\ \A c \in Call : callLog'[c].lead = callLog[c].lead
<1>1. CASE p.cur # NoCall /\ callLog[p.cur].lead # NoLead
  <2>1. p.cur \in Call
    BY <1>1 DEF Payload
  <2> QED
    BY <1>1, <2>1 DEF LogCall, TypeOK
<1>2. CASE ~(p.cur # NoCall /\ callLog[p.cur].lead # NoLead)
  BY <1>2 DEF LogCall, TypeOK
<1> QED
  BY <1>1, <1>2

LEMMA CallUpdateType ==
  ASSUME NEW r \in CallState, NEW x \in {"none", "human", "machine"},
         NEW s \in {"none", "live", "bridged", "ended"},
         NEW h \in {"no", "asked", "tried"}, NEW w \in BOOLEAN
  PROVE  /\ [r EXCEPT !.amd = x] \in CallState
         /\ [r EXCEPT !.state = s] \in CallState
         /\ [r EXCEPT !.hangup = h] \in CallState
         /\ [r EXCEPT !.hangup = h, !.state = s] \in CallState
         /\ [r EXCEPT !.amd = x, !.won = w, !.state = s] \in CallState
  BY DEF CallState

LEMMA TypeInit == Init => TypeInv
<1> SUFFICES ASSUME Init PROVE TypeInv
  OBVIOUS
<1>1. InitPayload \in Payload /\ ~Exhausted(InitPayload)
  BY InitPayloadType
<1>2. IdleDial \in [at : {"idle", "place", "record", "log"}, leads : Seq(Lead),
                    sids : Seq(Call \cup {NoCall})]
  BY DEF IdleDial
<1>3. NotPlaced \in CallState
  BY DEF NotPlaced, CallState
<1>4. "skip" \in ValidDisposition
  BY DEF ValidDisposition
<1>5. Bounds \in [DOMAIN Bounds -> Nat]
  BY BoundsAssumption DEF Bounds
<1>6. TypeOK
  BY <1>1, <1>2, <1>3, <1>4, <1>5 DEF Init, TypeOK, IdleDispo, IdleStatus
<1>7. DialOK
  BY DEF Init, DialOK, IdleDial
<1>8. SlotsOK
  BY <1>1 DEF Init, SlotsOK, IdleDispo, IdleStatus
<1> QED
  BY <1>6, <1>7, <1>8 DEF TypeInv

LEMMA TypeCall ==
  ASSUME TypeInv, CallRead \/ CallPlace \/ CallRecord \/ CallLog \/ CallAborts
  PROVE  TypeInv'
<1> USE DEF TypeInv
<1>1. CASE CallRead
  <2>1. PICK s \in Orders(Dialable(payload)) :
             dial' = [at |-> "place", leads |-> s, sids |-> << >>]
    BY <1>1 DEF CallRead
  <2>2. Dialable(payload) \subseteq Lead
    BY SetsAssumption DEF Dialable
  <2>3. Cardinality(Dialable(payload)) \in Nat
    BY <2>2, SetsAssumption, FS_Subset, FS_CardinalityType
  <2>4. s \in Seq(Lead)
    BY <2>2, <2>3 DEF Orders
  <2>5. left' \in [DOMAIN Bounds -> Nat]
    BY <1>1, BoundsType, SpendType DEF CallRead
  <2> QED
    BY <1>1, <2>1, <2>4, <2>5 DEF CallRead, TypeOK, DialOK, SlotsOK
<1>2. CASE CallPlace
  <2>1. PICK sids \in Creations(dial.leads) :
          /\ call' = [c \in Call |->
                IF c \notin Created(sids) THEN call[c]
                ELSE [NotPlaced EXCEPT
                        !.lead  = dial.leads[CHOOSE i \in DOMAIN sids : sids[i] = c],
                        !.batch = Created(sids),
                        !.full  = \A i \in DOMAIN sids : sids[i] # NoCall,
                        !.state = "live"]]
          /\ dial' = IF Created(sids) = {} THEN IdleDial
                     ELSE [dial EXCEPT !.at = "record", !.sids = sids]
          /\ IF \E i \in DOMAIN sids : sids[i] = NoCall THEN Fault ELSE UNCHANGED left
    BY <1>2 DEF CallPlace
  <2>2. dial.leads \in Seq(Lead) /\ dial.at = "place"
    BY <1>2 DEF CallPlace, TypeOK
  <2>3. sids \in Seq(Call \cup {NoCall}) /\ DOMAIN sids = DOMAIN dial.leads
    BY <2>2 DEF Creations
  <2>4. Created(sids) \subseteq Call
    BY <2>3, CreatedFinite
  <2>5. \A c \in Created(sids) :
            dial.leads[CHOOSE i \in DOMAIN sids : sids[i] = c] \in Lead
    BY <2>2, <2>3 DEF Created
  <2>6. call' \in [Call -> CallState]
    BY <2>1, <2>4, <2>5 DEF TypeOK, CallState, NotPlaced
  <2>7. /\ dial' \in [at : {"idle", "place", "record", "log"}, leads : Seq(Lead),
                      sids : Seq(Call \cup {NoCall})]
        /\ DialOK'
    <3>1. CASE Created(sids) = {}
      BY <2>1, <3>1 DEF IdleDial, DialOK
    <3>2. CASE Created(sids) # {}
      <4>1. dial' = [dial EXCEPT !.at = "record", !.sids = sids]
        BY <2>1, <3>2
      <4>2. dial'.sids = sids /\ dial'.leads = dial.leads
        BY <4>1 DEF TypeOK
      <4>3. DialOK'
        BY <2>3, <3>2, <4>2 DEF DialOK
      <4> QED
        BY <2>3, <4>1, <4>3 DEF TypeOK
    <3> QED
      BY <3>1, <3>2
  <2>8. left' \in [DOMAIN Bounds -> Nat]
    BY <2>1, FaultType DEF TypeOK
  <2> QED
    BY <1>2, <2>6, <2>7, <2>8 DEF CallPlace, TypeOK, SlotsOK
<1>3. CASE CallRecord
  <2> DEFINE a == [c \in Call |-> IF c \in Created(dial.sids) THEN PairedLead(c)
                                  ELSE payload.active[c]]
             b == {dial.leads[i] : i \in DOMAIN dial.leads}
             n == Cardinality(Created(dial.sids))
  <2>1. a \in [Call -> Lead \cup {NoLead}]
    BY <1>3, PairedLeadType DEF CallRecord, TypeOK, Payload
  <2>2. FirstCall \in Call \cup {NoCall}
    BY <1>3, FirstCallType DEF CallRecord
  <2>3. b \in SUBSET Lead
    BY DEF TypeOK
  <2>4. n \in Nat
    BY CreatedFinite DEF TypeOK
  <2>5. payload' = [payload EXCEPT !.active = a, !.cur = FirstCall, !.batch = b,
                                   !.stats["called"] = @ + n]
    BY <1>3 DEF CallRecord
  <2>6. payload' \in Payload
    <3> HIDE DEF a, b, n
    <3> QED
      BY <2>1, <2>2, <2>3, <2>4, <2>5, RecordCallType DEF TypeOK
  <2> QED
    BY <1>3, <2>6 DEF CallRecord, TypeOK, DialOK, SlotsOK
<1>4. CASE CallLog
  <2>1. callLog' \in [Call -> [lead : Lead \cup {NoLead},
                               disposition : ValidDisposition \cup {"none", "power_dial"}]]
    BY <1>4, PairedLeadType DEF CallLog, TypeOK
  <2> QED
    BY <1>4, <2>1 DEF CallLog, TypeOK, DialOK, SlotsOK, IdleDial
<1>5. CASE CallAborts
  BY <1>5, FaultType DEF CallAborts, TypeOK, DialOK, SlotsOK, IdleDial
<1> QED
  BY <1>1, <1>2, <1>3, <1>4, <1>5

LEMMA TypeDispo ==
  ASSUME TypeInv, DispoRead \/ DispoLog \/ DispoDnc \/ DispoWrite \/ DispoAborts
  PROVE  TypeInv'
<1> USE DEF TypeInv
<1>1. CASE DispoRead
  <2>1. left' \in [DOMAIN Bounds -> Nat]
    BY <1>1, BoundsType, SpendType DEF DispoRead
  <2> QED
    BY <1>1, <2>1, SetsAssumption DEF DispoRead, TypeOK, DialOK, SlotsOK
<1>2. CASE DispoLog
  <2>1. callLog' \in [Call -> [lead : Lead \cup {NoLead},
                               disposition : ValidDisposition \cup {"none", "power_dial"}]]
    BY <1>2, LogCallType DEF DispoLog, TypeOK
  <2> QED
    BY <1>2, <2>1 DEF DispoLog, TypeOK, DialOK, SlotsOK
<1>3. CASE DispoDnc
  <2>1. CurrentLead(dispo.p) \in Lead
    BY CurrentLeadType DEF TypeOK, SlotsOK
  <2> QED
    BY <1>3, <2>1 DEF DispoDnc, TypeOK, DialOK, SlotsOK
<1>4. CASE DispoWrite
  <2>1. payload' \in Payload /\ status' \in {status, "done"} /\ lost' \in BOOLEAN
    BY <1>4, WriteBackType DEF DispoWrite, TypeOK, SlotsOK
  <2> QED
    BY <1>4, <2>1, InitPayloadType
    DEF DispoWrite, TypeOK, DialOK, SlotsOK, IdleDispo, ValidDisposition
<1>5. CASE DispoAborts
  BY <1>5, FaultType, InitPayloadType
  DEF DispoAborts, TypeOK, DialOK, SlotsOK, IdleDispo, ValidDisposition
<1> QED
  BY <1>1, <1>2, <1>3, <1>4, <1>5

LEMMA TypeStatus ==
  ASSUME TypeInv, NEW c \in Call,
         StatusRead(c) \/ StatusLog(c) \/ StatusWrite(c) \/ StatusAborts(c)
  PROVE  TypeInv'
<1> USE DEF TypeInv
<1>1. CASE StatusRead(c)
  <2>1. CASE StatusIgnored(c)
    BY <1>1, <2>1, InitPayloadType
    DEF StatusRead, TypeOK, DialOK, SlotsOK, IdleStatus, ValidDisposition
  <2>2. CASE ~StatusIgnored(c)
    <3>1. cb' = [cb EXCEPT ![c] = [cb[c] EXCEPT !.at = "log", !.p = payload]]
      BY <1>1, <2>2 DEF StatusRead
    <3>2. ~Exhausted(payload)
      BY <2>2 DEF StatusIgnored
    <3>3. cb' \in [Call -> [at : {"idle", "due", "log", "write"}, p : Payload,
                            d : ValidDisposition]]
      BY <3>1 DEF TypeOK
    <3>4. SlotsOK'
      <4>1. \A e \in Call : cb'[e].p \in {cb[e].p, payload}
        BY <3>1 DEF TypeOK
      <4>2. dispo' = dispo
        BY <1>1 DEF StatusRead
      <4> QED
        BY <3>2, <4>1, <4>2 DEF SlotsOK, Exhausted
    <3> QED
      BY <1>1, <3>3, <3>4 DEF StatusRead, TypeOK, DialOK
  <2> QED
    BY <2>1, <2>2
<1>2. CASE StatusLog(c)
  <2>1. callLog' \in [Call -> [lead : Lead \cup {NoLead},
                               disposition : ValidDisposition \cup {"none", "power_dial"}]]
    BY <1>2, LogCallType DEF StatusLog, TypeOK
  <2> QED
    BY <1>2, <2>1 DEF StatusLog, TypeOK, DialOK, SlotsOK
<1>3. CASE StatusWrite(c)
  <2>1. payload' \in Payload /\ status' \in {status, "done"} /\ lost' \in BOOLEAN
    BY <1>3, WriteBackType DEF StatusWrite, TypeOK, SlotsOK
  <2> QED
    BY <1>3, <2>1, InitPayloadType
    DEF StatusWrite, TypeOK, DialOK, SlotsOK, IdleStatus, ValidDisposition
<1>4. CASE StatusAborts(c)
  BY <1>4, FaultType, InitPayloadType
  DEF StatusAborts, TypeOK, DialOK, SlotsOK, IdleStatus, ValidDisposition
<1> QED
  BY <1>1, <1>2, <1>3, <1>4

LEMMA EndedType ==
  ASSUME TypeInv, NEW c \in Call, Ended(c)
  PROVE  call' \in [Call -> CallState]
<1>1. call' = [call EXCEPT ![c] = [call[c] EXCEPT !.state = "ended"]]
  BY DEF Ended
<1> QED
  BY <1>1, CallUpdateType DEF TypeInv, TypeOK

(* An AMD answer uses up one of the late ones, or none; the call is up, or over. *)
LEMMA UnheardType ==
  ASSUME TypeOK, NEW c \in Call, Unheard(c)
  PROVE  /\ left' \in [DOMAIN Bounds -> Nat] /\ call[c].amd = "none"
         /\ call[c].state # "none" /\ Bridged(c) \in {"bridged", "ended"}
<1>1. left' \in [DOMAIN Bounds -> Nat]
  BY BoundsType, SpendType DEF Unheard, TypeOK
<1> QED
  BY <1>1 DEF Unheard, Bridged

LEMMA TypeTwilio ==
  ASSUME TypeInv, NEW c \in Call,
         AmdMachine(c) \/ AmdHuman(c) \/ CancelSister(c) \/ CallEnds(c) \/ CallCompletes(c)
  PROVE  TypeInv'
<1> USE DEF TypeInv
<1>1. CASE AmdMachine(c)
  <2>1. Bump(payload, "voicemail") \in Payload
    BY BumpType DEF TypeOK, Counter
  <2>2. payload' \in Payload
    BY <1>1, <2>1 DEF AmdMachine, Payload
  <2>3. call' \in [Call -> CallState]
    <3>1. call' = [call EXCEPT ![c] = [call[c] EXCEPT !.amd = "machine"]]
      BY <1>1 DEF AmdMachine
    <3> QED
      BY <3>1, CallUpdateType DEF TypeOK
  <2>4. left' \in [DOMAIN Bounds -> Nat]
    BY <1>1, UnheardType DEF AmdMachine
  <2> QED
    BY <1>1, <2>2, <2>3, <2>4 DEF AmdMachine, TypeOK, DialOK, SlotsOK
<1>2. CASE AmdHuman(c)
  <2>1. Bump(payload, "answered") \in Payload
    BY BumpType DEF TypeOK, Counter
  <2>2. payload' \in Payload
    BY <1>2, <2>1 DEF AmdHuman, Cleared, Payload
  <2>3. call' \in [Call -> CallState]
    <3>1. [call[c] EXCEPT !.amd = "human", !.won = payload.active[c] # NoLead,
                          !.state = Bridged(c)] \in CallState
      BY <1>2, UnheardType, CallUpdateType DEF TypeOK, AmdHuman
    <3>2. \A s \in Call : [call[s] EXCEPT !.hangup = "asked"] \in CallState
      BY CallUpdateType DEF TypeOK
    <3> QED
      BY <1>2, <3>1, <3>2 DEF AmdHuman, TypeOK
  <2>4. left' \in [DOMAIN Bounds -> Nat]
    BY <1>2, UnheardType DEF AmdHuman
  <2> QED
    BY <1>2, <2>2, <2>3, <2>4 DEF AmdHuman, TypeOK, DialOK, SlotsOK
<1>3. CASE CancelSister(c)
  <2>1. call' \in [Call -> CallState]
    <3>1. PICK ends \in BOOLEAN :
               call' = [call EXCEPT ![c].hangup = "tried",
                                    ![c].state = IF ends THEN "ended" ELSE @]
      BY <1>3 DEF CancelSister
    <3>2. call[c].state \in {"none", "live", "bridged", "ended"}
      BY DEF TypeOK, CallState
    <3>3. CASE ends
      BY <3>1, <3>3, CallUpdateType DEF TypeOK
    <3>4. CASE ~ends
      BY <3>1, <3>2, <3>4, CallUpdateType DEF TypeOK
    <3> QED
      BY <3>3, <3>4
  <2>2. left' \in [DOMAIN Bounds -> Nat]
    BY <1>3, FaultType DEF CancelSister, TypeOK
  <2> QED
    BY <1>3, <2>1, <2>2 DEF CancelSister, TypeOK, DialOK, SlotsOK
<1>4. CASE CallEnds(c)
  <2>1. call' \in [Call -> CallState]
    BY <1>4, EndedType DEF CallEnds
  <2> QED
    BY <1>4, <2>1 DEF CallEnds, TypeOK, DialOK, SlotsOK
<1>5. CASE CallCompletes(c)
  <2>1. call' \in [Call -> CallState]
    BY <1>5, EndedType DEF CallCompletes
  <2>2. PICK d \in Inferred :
             cb' = [cb EXCEPT ![c] = [IdleStatus EXCEPT !.at = "due", !.d = d]]
    BY <1>5 DEF CallCompletes
  <2>3. d \in ValidDisposition
    BY SetsAssumption DEF ValidDisposition
  <2> QED
    BY <1>5, <2>1, <2>2, <2>3, InitPayloadType
    DEF CallCompletes, TypeOK, DialOK, SlotsOK, IdleStatus
<1> QED
  BY <1>1, <1>2, <1>3, <1>4, <1>5

LEMMA TypeStep == TypeInv /\ [Next]_vars => TypeInv'
<1> SUFFICES ASSUME TypeInv, [Next]_vars PROVE TypeInv'
  OBVIOUS
<1>1. CASE StartSession
  BY <1>1, FaultType DEF StartSession, TypeInv, TypeOK, DialOK, SlotsOK
<1>2. CASE Delete
  BY <1>2 DEF Delete, TypeInv, TypeOK, DialOK, SlotsOK
<1>3. CASE UNCHANGED vars
  BY <1>3 DEF vars, TypeInv, TypeOK, DialOK, SlotsOK
<1> QED
  BY <1>1, <1>2, <1>3, TypeCall, TypeDispo, TypeStatus, TypeTwilio
  DEF Next, Server, Telephony

\* The row, the slots, the calls and the logs keep their shape in every
\* behavior, and the handlers go on only with payloads that have a lead.
THEOREM TypeCorrect == Spec => []TypeInv
  BY TypeInit, TypeStep, PTL DEF Spec

\* The type invariant the runs check.
THEOREM TypeOKCorrect == Spec => []TypeOK
<1>1. TypeInv => TypeOK
  BY DEF TypeInv
<1> QED
  BY <1>1, TypeCorrect, PTL

----------------------------------------------------------------------------
(* The session's status and its queue *)

\* Every step writes the row in one of three ways: from a payload that was
\* read, under the row lock without touching the index, or not at all.
LEMMA RowStep ==
  ASSUME TypeInv, Next
  PROVE  \/ \E p \in Payload, d \in ValidDisposition :
               ~Exhausted(p) /\ WriteBack(p, d) /\ UNCHANGED open
               /\ (p = dispo.p \/ \E c \in Call : p = cb[c].p)
         \/ /\ payload'.index = payload.index /\ lost' = lost
            /\ status' = status \/ (open /\ status' = "cancelled")
            /\ UNCHANGED open
         \/ ~open /\ status' \in {status, "running"} /\ UNCHANGED <<payload, lost>>
<1> USE DEF TypeInv, TypeOK, SlotsOK
<1>1. CASE StartSession
  BY <1>1 DEF StartSession
<1>2. CASE CallRead \/ CallPlace \/ CallLog \/ CallAborts \/ DispoRead \/ DispoLog
             \/ DispoDnc \/ DispoAborts \/ Delete
  BY <1>2 DEF CallRead, CallPlace, CallLog, CallAborts, DispoRead, DispoLog, DispoDnc,
              DispoAborts, Delete
<1>3. CASE CallRecord
  BY <1>3 DEF CallRecord, Payload
<1>4. CASE DispoWrite
  BY <1>4 DEF DispoWrite
<1>5. ASSUME NEW c \in Call, StatusRead(c) \/ StatusLog(c) \/ StatusAborts(c)
                             \/ CancelSister(c) \/ CallEnds(c) \/ CallCompletes(c)
      PROVE  payload' = payload /\ lost' = lost /\ status' = status /\ UNCHANGED open
  BY <1>5 DEF StatusRead, StatusLog, StatusAborts, CancelSister, CallEnds, CallCompletes
<1>6. ASSUME NEW c \in Call, StatusWrite(c)
      PROVE  ~Exhausted(cb[c].p) /\ WriteBack(cb[c].p, cb[c].d) /\ UNCHANGED open
             /\ cb[c].p \in Payload /\ cb[c].d \in ValidDisposition
  BY <1>6 DEF StatusWrite
<1>7. ASSUME NEW c \in Call, AmdMachine(c) \/ AmdHuman(c)
      PROVE  payload'.index = payload.index /\ lost' = lost /\ status' = status
             /\ UNCHANGED open
  BY <1>7 DEF AmdMachine, AmdHuman, Bump, Payload
<1> QED
  BY <1>1, <1>2, <1>3, <1>4, <1>5, <1>6, <1>7 DEF Next, Server, Telephony

\* A session that stopped running never runs again.
THEOREM NeverReopenedCorrect == Spec => NeverReopened
<1>1. TypeInv /\ [Next]_vars => [open /\ status # "running" => status' # "running"]_vars
  <2> SUFFICES ASSUME TypeInv, Next, open, status # "running"
               PROVE  status' # "running"
    BY DEF vars
  <2> QED
    BY RowStep, WriteBackType DEF TypeInv
<1> QED
  BY <1>1, TypeCorrect, PTL DEF Spec, NeverReopened

\* The queue moves forward only, unless a lost update moves it back.
THEOREM IndexForwardCorrect == Spec => IndexForwardUnlessLost
<1>1. TypeInv /\ [Next]_vars => [~lost' => payload'.index >= payload.index]_vars
  <2> SUFFICES ASSUME TypeInv, Next, ~lost'
               PROVE  payload'.index >= payload.index
    BY DEF vars
  <2>1. payload.index \in Nat
    BY DEF TypeInv, TypeOK, Payload
  <2>2. ASSUME NEW p \in Payload, NEW d \in ValidDisposition, ~Exhausted(p), WriteBack(p, d)
        PROVE  payload'.index >= payload.index
    BY <2>2, WriteBackType, DisposedType DEF TypeInv
  <2> QED
    BY <2>1, <2>2, RowStep
<1> QED
  BY <1>1, TypeCorrect, PTL DEF Spec, IndexForwardUnlessLost

\* Before the client holds the session nothing is under way.
NotStarted ==
    ~open => /\ ~Exhausted(payload) /\ dispo.at = "idle" /\ dial.at = "idle"
             /\ \A c \in Call : cb[c].at = "idle" /\ call[c] = NotPlaced

QueueInv == NotStarted /\ ClosedWithItsQueue

LEMMA QueueInit == Init => QueueInv
<1> SUFFICES ASSUME Init PROVE QueueInv
  OBVIOUS
<1>1. ~Exhausted(payload) /\ status = "queued"
  BY InitPayloadType DEF Init
<1> QED
  BY <1>1 DEF Init, QueueInv, NotStarted, ClosedWithItsQueue, IdleDispo, IdleDial, IdleStatus

LEMMA NotStartedStep == NotStarted /\ [Next]_vars => NotStarted'
<1> SUFFICES ASSUME NotStarted, [Next]_vars, ~open' PROVE NotStarted'
  BY DEF NotStarted
<1>1. CASE UNCHANGED vars
  BY <1>1 DEF vars, NotStarted, Exhausted
<1>3. CASE StartSession \/ CallRead \/ DispoRead \/ Delete
  BY <1>3 DEF StartSession, CallRead, DispoRead, Delete
<1>4. CASE CallPlace \/ CallRecord \/ CallLog \/ CallAborts
  BY <1>4 DEF CallPlace, CallRecord, CallLog, CallAborts, NotStarted
<1>5. CASE DispoLog \/ DispoDnc \/ DispoWrite \/ DispoAborts
  BY <1>5 DEF DispoLog, DispoDnc, DispoWrite, DispoAborts, NotStarted
<1>6. ASSUME NEW c \in Call,
             StatusRead(c) \/ StatusLog(c) \/ StatusWrite(c) \/ StatusAborts(c)
      PROVE  FALSE
  BY <1>6 DEF StatusRead, StatusLog, StatusWrite, StatusAborts, NotStarted
<1>7. ASSUME NEW c \in Call,
             AmdMachine(c) \/ AmdHuman(c) \/ CancelSister(c) \/ CallEnds(c) \/ CallCompletes(c)
      PROVE  FALSE
  <2>1. ~open
    BY <1>7 DEF AmdMachine, AmdHuman, CancelSister, CallEnds, CallCompletes
  <2>2. call[c].state = "none" /\ call[c].hangup = "no"
    BY <2>1 DEF NotStarted, NotPlaced
  <2> QED
    BY <1>7, <2>2 DEF AmdMachine, AmdHuman, CancelSister, CallEnds, CallCompletes, Ended, Unheard
<1> QED
  BY <1>1, <1>3, <1>4, <1>5, <1>6, <1>7 DEF Next, Server, Telephony

LEMMA QueueStep == TypeInv /\ QueueInv /\ [Next]_vars => QueueInv'
<1> SUFFICES ASSUME TypeInv, QueueInv, [Next]_vars PROVE ClosedWithItsQueue'
  BY NotStartedStep DEF QueueInv
<1> USE DEF QueueInv
<1>1. CASE UNCHANGED vars
  BY <1>1 DEF vars, ClosedWithItsQueue, Exhausted
<1>2. ASSUME NEW p \in Payload, NEW d \in ValidDisposition, ~Exhausted(p), WriteBack(p, d)
      PROVE  ClosedWithItsQueue'
  \* a payload that was not done before the write and is not lost is the one read
  <2>1. /\ Exhausted(payload') => status' = "done"
        /\ ~Exhausted(payload') => status' = status
        /\ lost' = (lost \/ payload # p)
    BY <1>2, WriteBackType DEF TypeInv
  <2>2. Exhausted(payload)' <=> Exhausted(payload')
    BY DEF Exhausted
  <2> QED
    BY <1>2, <2>1, <2>2 DEF ClosedWithItsQueue
<1>3. CASE /\ payload'.index = payload.index /\ lost' = lost
           /\ status' = status \/ (open /\ status' = "cancelled")
  BY <1>3 DEF ClosedWithItsQueue, Exhausted
<1>4. CASE ~open /\ status' \in {status, "running"} /\ UNCHANGED <<payload, lost>>
  BY <1>4 DEF ClosedWithItsQueue, NotStarted, Exhausted
<1> QED
  BY <1>1, <1>2, <1>3, <1>4, RowStep

\* An exhausted session is closed, and a session declared done is exhausted
\* unless a lost update has moved its index back.
THEOREM ClosedWithItsQueueCorrect == Spec => []ClosedWithItsQueue
<1>1. QueueInv => ClosedWithItsQueue
  BY DEF QueueInv
<1> QED
  BY <1>1, QueueInit, QueueStep, TypeCorrect, PTL DEF Spec

----------------------------------------------------------------------------
(* Do-not-call results *)

\* Every do-not-call result in p is that of a lead marked so.
Marked(p) == \A i \in DOMAIN p.dispositions :
                p.dispositions[i].disposition = "dnc" => p.dispositions[i].lead \in dnc

\* The payloads in the handlers' hands are as good as the row, and the handler
\* about to write a do-not-call result has marked its lead.
DncInv ==
    /\ Marked(payload) /\ Marked(dispo.p) /\ \A c \in Call : Marked(cb[c].p)
    /\ dispo.at = "write" /\ dispo.d = "dnc" => CurrentLead(dispo.p) \in dnc
    /\ \A c \in Call : cb[c].d # "dnc"

LEMMA DncInit == Init => DncInv
  BY DEF Init, DncInv, Marked, InitPayload, IdleDispo, IdleStatus

\* Logging d keeps a payload marked if a do-not-call result's lead is.
LEMMA MarkedDisposed ==
  ASSUME NEW p \in Payload, ~Exhausted(p), NEW d \in ValidDisposition, Marked(p),
         d = "dnc" => CurrentLead(p) \in dnc
  PROVE  Marked(Disposed(p, d))
<1>1. Disposed(p, d).dispositions = Recorded(p, d).dispositions
  BY DisposedType
<1>2. CASE d = "skip"
  BY <1>1, <1>2 DEF Recorded, Marked
<1>3. CASE d # "skip"
  <2>1. Recorded(p, d).dispositions = Append(p.dispositions, RecordOf(p, d))
    BY <1>3, RecordedType
  <2>2. RecordOf(p, d).disposition = d /\ RecordOf(p, d).lead = CurrentLead(p)
    BY DEF RecordOf
  <2>3. p.dispositions \in Seq(Record)
    BY DEF Payload
  <2>4. \A i \in DOMAIN Append(p.dispositions, RecordOf(p, d)) :
           \/ i \in DOMAIN p.dispositions
              /\ Append(p.dispositions, RecordOf(p, d))[i] = p.dispositions[i]
           \/ Append(p.dispositions, RecordOf(p, d))[i] = RecordOf(p, d)
    BY <2>3
  <2> QED
    BY <1>1, <2>1, <2>2, <2>4 DEF Marked
<1> QED
  BY <1>2, <1>3

LEMMA DncStep == TypeInv /\ DncInv /\ [Next]_vars => DncInv'
<1> SUFFICES ASSUME TypeInv, DncInv, [Next]_vars PROVE DncInv'
  OBVIOUS
<1> USE DEF TypeInv, TypeOK, SlotsOK
<1>0. Marked(InitPayload)
  BY DEF Marked, InitPayload
<1>1. CASE UNCHANGED vars
  BY <1>1 DEF vars, DncInv, Marked, CurrentLead
<1>2. CASE StartSession \/ Delete \/ CallRead \/ CallPlace \/ CallLog \/ CallAborts
  BY <1>2 DEF StartSession, Delete, CallRead, CallPlace, CallLog, CallAborts, DncInv, Marked,
              CurrentLead
<1>3. CASE CallRecord
  <2>1. payload'.dispositions = payload.dispositions
    BY <1>3 DEF CallRecord, Payload
  <2> QED
    BY <1>3, <2>1 DEF CallRecord, DncInv, Marked, CurrentLead
<1>4. CASE DispoRead
  BY <1>4 DEF DispoRead, DncInv, Marked, CurrentLead
<1>5. CASE DispoLog
  BY <1>5 DEF DispoLog, DncInv, Marked, CurrentLead
<1>6. CASE DispoDnc
  BY <1>6 DEF DispoDnc, DncInv, Marked, CurrentLead
<1>7. CASE DispoWrite
  <2>1. payload' = Disposed(dispo.p, dispo.d) /\ dnc' = dnc
    BY <1>7 DEF DispoWrite, WriteBack
  <2>2. Marked(Disposed(dispo.p, dispo.d))
    BY <1>7, MarkedDisposed DEF DispoWrite, DncInv
  <2> QED
    BY <1>0, <1>7, <2>1, <2>2 DEF DispoWrite, DncInv, Marked, IdleDispo
<1>8. CASE DispoAborts
  BY <1>0, <1>8 DEF DispoAborts, DncInv, Marked, IdleDispo
<1>9. ASSUME NEW c \in Call, StatusRead(c) \/ StatusLog(c) \/ StatusAborts(c)
      PROVE  DncInv'
  <2>1. \A e \in Call : cb'[e].p \in {cb[e].p, payload, InitPayload}
                        /\ cb'[e].d \in {cb[e].d, "skip"}
    <3>1. CASE StatusRead(c) /\ StatusIgnored(c)
      BY <3>1 DEF StatusRead, IdleStatus
    <3>2. CASE StatusRead(c) /\ ~StatusIgnored(c)
      <4>1. cb' = [cb EXCEPT ![c] = [cb[c] EXCEPT !.at = "log", !.p = payload]]
        BY <3>2 DEF StatusRead
      <4> QED
        BY <4>1
    <3>3. CASE StatusLog(c)
      BY <3>3 DEF StatusLog
    <3>4. CASE StatusAborts(c)
      BY <3>4 DEF StatusAborts, IdleStatus
    <3> QED
      BY <1>9, <3>1, <3>2, <3>3, <3>4
  <2>2. UNCHANGED <<payload, dispo, dnc>>
    BY <1>9 DEF StatusRead, StatusLog, StatusAborts
  <2> QED
    BY <1>0, <2>1, <2>2 DEF DncInv, Marked, CurrentLead
<1>10. ASSUME NEW c \in Call, StatusWrite(c)
       PROVE  DncInv'
  <2>1. payload' = Disposed(cb[c].p, cb[c].d) /\ UNCHANGED <<dispo, dnc>>
    BY <1>10 DEF StatusWrite, WriteBack
  <2>2. Marked(Disposed(cb[c].p, cb[c].d))
    BY MarkedDisposed DEF DncInv
  <2>3. \A e \in Call : cb'[e].p \in {cb[e].p, InitPayload} /\ cb'[e].d \in {cb[e].d, "skip"}
    BY <1>10 DEF StatusWrite, IdleStatus
  <2> QED
    BY <1>0, <2>1, <2>2, <2>3 DEF DncInv, Marked, CurrentLead
<1>11. ASSUME NEW c \in Call, AmdMachine(c) \/ AmdHuman(c)
       PROVE  DncInv'
  <2>1. payload'.dispositions = payload.dispositions /\ UNCHANGED <<dispo, cb, dnc>>
    BY <1>11 DEF AmdMachine, AmdHuman, Bump, Payload
  <2> QED
    BY <2>1 DEF DncInv, Marked, CurrentLead
<1>12. ASSUME NEW c \in Call, CancelSister(c) \/ CallEnds(c)
       PROVE  DncInv'
  BY <1>12 DEF CancelSister, CallEnds, DncInv, Marked, CurrentLead
<1>13. ASSUME NEW c \in Call, CallCompletes(c)
       PROVE  DncInv'
  <2>1. UNCHANGED <<payload, dispo, dnc>>
    BY <1>13 DEF CallCompletes
  <2>2. \A e \in Call : cb'[e].p \in {cb[e].p, InitPayload}
                        /\ cb'[e].d \in {cb[e].d} \cup Inferred
    BY <1>13 DEF CallCompletes, IdleStatus
  <2> QED
    BY <1>0, <2>1, <2>2, SetsAssumption DEF DncInv, Marked, CurrentLead
<1> QED
  BY <1>1, <1>2, <1>3, <1>4, <1>5, <1>6, <1>7, <1>8, <1>9, <1>10, <1>11, <1>12, <1>13
  DEF Next, Server, Telephony

\* A do-not-call result is on record only for a lead that is marked so.
THEOREM DncMarkedFirstCorrect == Spec => []DncMarkedFirst
<1>1. DncInv => DncMarkedFirst
  BY DEF DncInv, Marked, DncMarkedFirst
<1> QED
  BY <1>1, DncInit, DncStep, TypeCorrect, PTL DEF Spec

----------------------------------------------------------------------------
(* The calls of a request, and what the session knows of them *)

\* The row's payload and those in the handlers' hands.
Copies == {payload, dispo.p} \cup {cb[c].p : c \in Call}

LEMMA CopiesType == ASSUME TypeInv PROVE Copies \subseteq Payload /\ payload \in Copies
  BY DEF TypeInv, TypeOK, Copies

\* A handler takes the row's payload, or drops its own.
LEMMA CopiesStep ==
  ASSUME TypeInv, [Next]_vars
  PROVE  \A q \in Copies' : q \in Copies \/ q \in {InitPayload, payload'}
<1> SUFFICES ASSUME NEW q \in Copies' PROVE q \in Copies \/ q \in {InitPayload, payload'}
  OBVIOUS
<1> USE DEF TypeInv, TypeOK
<1>1. dispo'.p \in {dispo.p, InitPayload, payload}
  <2>1. CASE UNCHANGED dispo
    BY <2>1
  <2>2. CASE DispoRead \/ DispoLog \/ DispoDnc \/ DispoWrite \/ DispoAborts
    BY <2>2 DEF DispoRead, DispoLog, DispoDnc, DispoWrite, DispoAborts, IdleDispo
  <2>3. ASSUME NEW c \in Call, Telephony(c) PROVE UNCHANGED dispo
    BY <2>3 DEF Telephony, StatusRead, StatusLog, StatusWrite, StatusAborts, AmdMachine, AmdHuman,
                CancelSister, CallEnds, CallCompletes
  <2> QED
    BY <2>1, <2>2, <2>3
    DEF Next, Server, StartSession, Delete, CallRead, CallPlace, CallRecord, CallLog, CallAborts, vars
<1>2. ASSUME NEW c \in Call PROVE cb'[c].p \in {cb[c].p, InitPayload, payload}
  <2>1. CASE UNCHANGED cb
    BY <2>1
  <2>2. ASSUME NEW e \in Call, StatusRead(e) PROVE cb'[c].p \in {cb[c].p, InitPayload, payload}
    <3>1. CASE StatusIgnored(e)
      BY <2>2, <3>1 DEF StatusRead, IdleStatus
    <3>2. CASE ~StatusIgnored(e)
      <4>1. cb' = [cb EXCEPT ![e] = [cb[e] EXCEPT !.at = "log", !.p = payload]]
        BY <2>2, <3>2 DEF StatusRead
      <4> QED
        BY <4>1
    <3> QED
      BY <3>1, <3>2
  <2>3. ASSUME NEW e \in Call, StatusLog(e) \/ StatusWrite(e) \/ StatusAborts(e)
        PROVE  cb'[c].p \in {cb[c].p, InitPayload, payload}
    <3>1. CASE StatusLog(e)
      BY <3>1 DEF StatusLog
    <3>2. CASE StatusWrite(e) \/ StatusAborts(e)
      BY <3>2 DEF StatusWrite, StatusAborts, IdleStatus
    <3> QED
      BY <2>3, <3>1, <3>2
  <2>5. ASSUME NEW e \in Call, CallCompletes(e) PROVE cb'[c].p \in {cb[c].p, InitPayload, payload}
    BY <2>5 DEF CallCompletes, IdleStatus
  <2>4. ASSUME NEW e \in Call, AmdMachine(e) \/ AmdHuman(e) \/ CancelSister(e) \/ CallEnds(e) PROVE UNCHANGED cb
    BY <2>4 DEF AmdMachine, AmdHuman, CancelSister, CallEnds
  <2> QED
    BY <2>1, <2>2, <2>3, <2>4, <2>5
    DEF Next, Server, Telephony, StartSession, Delete, CallRead, CallPlace, CallRecord, CallLog, CallAborts,
        DispoRead, DispoLog, DispoDnc, DispoWrite, DispoAborts, vars
<1>3. payload \in Copies /\ dispo.p \in Copies /\ \A c \in Call : cb[c].p \in Copies
  BY DEF Copies
<1>4. q = payload' \/ q = dispo'.p \/ \E c \in Call : q = cb'[c].p
  BY DEF Copies
<1>5. CASE q = dispo'.p
  BY <1>1, <1>3, <1>5
<1>6. ASSUME NEW c \in Call, q = cb'[c].p PROVE q \in Copies \/ q = InitPayload
  BY <1>2, <1>3, <1>6
<1> QED
  BY <1>4, <1>5, <1>6

\* A handler writes back what it read.
Writes == \E p \in Copies, d \in ValidDisposition :
              p \in Payload /\ ~Exhausted(p) /\ WriteBack(p, d) /\ UNCHANGED <<call, dial, callLog>>

\* Twilio's part of a call: the AMD result, a hang-up, the end.
Heard(c) == /\ UNCHANGED <<dial, callLog, lost>>
            /\ AmdMachine(c) \/ AmdHuman(c) \/ ((CancelSister(c) \/ Ended(c)) /\ UNCHANGED payload)

Quiet == /\ UNCHANGED <<payload, call, lost>>
         /\ dial' = dial \/ dial'.at \in {"idle", "place"}
         /\ \A c \in Call : callLog'[c].lead = callLog[c].lead

\* What a step does to the payload, the calls and their log.
LEMMA StepKinds ==
  ASSUME TypeInv, [Next]_vars
  PROVE  Quiet \/ CallPlace \/ CallRecord \/ CallLog \/ Writes \/ \E c \in Call : Heard(c)
<1> USE DEF TypeInv, TypeOK, SlotsOK
<1>1. CASE UNCHANGED vars \/ StartSession \/ Delete \/ CallRead \/ CallAborts \/ DispoRead \/ DispoDnc \/ DispoAborts
  BY <1>1 DEF vars, StartSession, Delete, CallRead, CallAborts, DispoRead, DispoDnc, DispoAborts, Quiet, IdleDial
<1>2. CASE DispoLog
  BY <1>2, LogCallType DEF DispoLog, Quiet
<1>3. CASE DispoWrite
  <2>1. dispo.p \in Copies
    BY DEF Copies
  <2> QED
    BY <1>3, <2>1 DEF DispoWrite, Writes
<1>4. ASSUME NEW c \in Call, StatusRead(c) \/ StatusAborts(c) PROVE Quiet
  BY <1>4 DEF StatusRead, StatusAborts, Quiet
<1>5. ASSUME NEW c \in Call, StatusLog(c) PROVE Quiet
  <2>1. cb[c].p \in Payload /\ cb[c].d \in ValidDisposition
    OBVIOUS
  <2> QED
    BY <1>5, <2>1, LogCallType DEF StatusLog, Quiet
<1>6. ASSUME NEW c \in Call, StatusWrite(c) PROVE Writes
  <2>1. cb[c].p \in Copies /\ cb[c].p \in Payload /\ ~Exhausted(cb[c].p) /\ cb[c].d \in ValidDisposition
    BY DEF Copies
  <2> QED
    BY <1>6, <2>1 DEF StatusWrite, Writes
<1>7. ASSUME NEW c \in Call, AmdMachine(c) \/ AmdHuman(c) \/ CancelSister(c) \/ CallEnds(c) \/ CallCompletes(c)
      PROVE  Heard(c)
  BY <1>7 DEF AmdMachine, AmdHuman, CancelSister, CallEnds, CallCompletes, Heard
<1> QED
  BY <1>1, <1>2, <1>3, <1>4, <1>5, <1>6, <1>7 DEF Next, Server, Telephony

\* Twilio's handing out of a call is the first anyone hears of it.
Unplaced ==
  \A c \in Call : call[c].state = "none" =>
      call[c] = NotPlaced /\ callLog[c].lead = NoLead /\ \A p \in Copies : p.active[c] = NoLead

\* What becomes of the calls there are.
LEMMA HeardCalls ==
  ASSUME TypeInv, Unplaced, NEW c \in Call, Heard(c), NEW e \in Call
  PROVE  /\ call'[e].lead = call[e].lead /\ call'[e].batch = call[e].batch /\ call'[e].full = call[e].full
         /\ IF call[e].state = "none" THEN call'[e] = call[e] ELSE call'[e].state # "none"
         /\ payload'.active[e] \in {payload.active[e], NoLead}
         /\ call'[e].won =>
               \/ call[e].won
               \/ e = c /\ payload.active[e] # NoLead /\ \A s \in Call : payload'.active[s] = NoLead
         /\ call'[e].hangup # "no" =>
               \/ call[e].hangup # "no"
               \/ e # c /\ payload.active[e] # NoLead /\ payload'.active[e] = NoLead
<1> USE DEF TypeInv, TypeOK
<1>0. payload \in Payload /\ payload.active \in [Call -> Lead \cup {NoLead}] /\ call[e] \in CallState /\ call[c] \in CallState
  BY DEF Payload
<1>a. call[e].state = "none" => call[e].hangup = "no" /\ payload.active[e] = NoLead
  BY DEF Unplaced, NotPlaced, Copies
<1>1. CASE AmdMachine(c)
  <2>1. payload'.active = [payload.active EXCEPT ![c] = NoLead]
    <3>1. Bump(payload, "voicemail") \in Payload /\ Bump(payload, "voicemail").active = payload.active
      BY BumpType DEF Counter
    <3> QED
      BY <1>1, <3>1 DEF AmdMachine, Payload
  <2>2. call' = [call EXCEPT ![c].amd = "machine"] /\ call[c].state # "none"
    BY <1>1, UnheardType DEF AmdMachine
  <2> QED
    BY <1>0, <2>1, <2>2 DEF CallState
<1>2. CASE AmdHuman(c)
  <2>1. payload'.active = [s \in Call |-> NoLead]
    <3>1. Bump(payload, "answered") \in Payload
      BY BumpType DEF Counter
    <3> QED
      BY <1>2, <3>1 DEF AmdHuman, Payload, Cleared
  <2>2. /\ call[c].state # "none" /\ Bridged(c) \in {"bridged", "ended"}
        /\ call' = [s \in Call |->
              IF s = c THEN [call[c] EXCEPT !.amd = "human", !.won = payload.active[c] # NoLead, !.state = Bridged(c)]
              ELSE IF s \in Sisters(c) /\ call[s].hangup = "no" THEN [call[s] EXCEPT !.hangup = "asked"]
              ELSE call[s]]
    BY <1>2, UnheardType DEF AmdHuman
  <2>3. CASE e = c
    <3>1. call'[e] = [call[e] EXCEPT !.amd = "human", !.won = payload.active[e] # NoLead, !.state = Bridged(c)]
      BY <2>2, <2>3
    <3> DEFINE w == payload.active[e] # NoLead
    <3>2. call'[e] = [call[e] EXCEPT !.amd = "human", !.won = w, !.state = Bridged(c)] /\ w \in BOOLEAN
      BY <3>1
    <3> HIDE DEF w
    <3>3. call'[e].won = w
      BY <1>0, <3>2 DEF CallState
    <3>4. /\ call'[e].lead = call[e].lead /\ call'[e].batch = call[e].batch /\ call'[e].full = call[e].full
          /\ call'[e].state = Bridged(c) /\ call'[e].hangup = call[e].hangup
      BY <1>0, <3>2 DEF CallState
    <3>5. w => payload.active[e] # NoLead
      BY DEF w
    <3> QED
      BY <2>1, <2>2, <2>3, <3>3, <3>4, <3>5
  <2>4. CASE e # c
    <3>1. call'[e] = call[e] \/ (call'[e] = [call[e] EXCEPT !.hangup = "asked"] /\ payload.active[e] # NoLead)
      BY <2>2, <2>4 DEF Sisters
    <3> QED
      BY <1>0, <1>a, <2>1, <2>4, <3>1 DEF CallState
  <2> QED
    BY <2>3, <2>4
<1>3. CASE CancelSister(c) /\ UNCHANGED payload
  <2>1. PICK ends \in BOOLEAN : call' = [call EXCEPT ![c].hangup = "tried", ![c].state = IF ends THEN "ended" ELSE @]
    BY <1>3 DEF CancelSister
  <2>2. call[c].hangup = "asked"
    BY <1>3 DEF CancelSister
  <2>3. CASE e = c
    <3>1. call'[e] = [call[e] EXCEPT !.hangup = "tried", !.state = IF ends THEN "ended" ELSE @]
      BY <2>1, <2>3
    <3> QED
      BY <1>0, <1>3, <1>a, <2>2, <2>3, <3>1 DEF CallState
  <2>4. CASE e # c
    BY <1>0, <1>3, <2>1, <2>4
  <2> QED
    BY <2>3, <2>4
<1>4. CASE Ended(c) /\ UNCHANGED payload
  BY <1>0, <1>4 DEF Ended, CallState
<1> QED
  BY <1>1, <1>2, <1>3, <1>4 DEF Heard

----------------------------------------------------------------------------
(* The calls of one request *)

\* Calls created by a request that has yet to record them, or to log them.
Pending == IF dial.at = "record" THEN Created(dial.sids) ELSE {}
Made    == IF dial.at \in {"record", "log"} THEN Created(dial.sids) ELSE {}

\* The calls of one request name each other; until they are recorded nobody
\* can win or be hung up.
BatchInv ==
  /\ Unplaced
  /\ \A c \in Call : call[c].state # "none" => c \in call[c].batch
  /\ \A c \in Call : \A e \in call[c].batch : call[e].state # "none" /\ call[e].batch = call[c].batch
  /\ \A c \in Made : call[c].state # "none"
  /\ \A c \in Pending :
        /\ call[c].batch = Pending /\ ~call[c].won /\ call[c].hangup = "no"
        /\ \A p \in Copies : p.active[c] = NoLead

\* What Twilio creates.
Creates(sids) ==
  /\ sids \in Seq(Call \cup {NoCall}) /\ DOMAIN sids = DOMAIN dial.leads
  /\ Created(sids) \subseteq Call
  /\ Pending = {} /\ Pending' = Created(sids) /\ Made' = Created(sids)
  /\ Created(sids) # {} => dial'.sids = sids /\ dial'.leads = dial.leads
  /\ \A c \in Created(sids) :
        /\ call[c].state = "none"
        /\ call'[c].batch = Created(sids) /\ call'[c].state = "live"
        /\ ~call'[c].won /\ call'[c].hangup = "no" /\ call'[c].amd = "none"
        /\ call'[c].full => \A i \in DOMAIN sids : sids[i] # NoCall
        /\ call'[c].lead = dial.leads[CHOOSE i \in DOMAIN sids : sids[i] = c]
  /\ \A c \in Call \ Created(sids) : call'[c] = call[c]
  /\ UNCHANGED <<payload, lost, callLog, dispo, cb>>

LEMMA PlaceStep ==
  ASSUME TypeInv, CallPlace
  PROVE  \E sids : Creates(sids)
<1>1. PICK sids \in Creations(dial.leads) :
        /\ call' = [c \in Call |->
              IF c \notin Created(sids) THEN call[c]
              ELSE [NotPlaced EXCEPT
                      !.lead  = dial.leads[CHOOSE i \in DOMAIN sids : sids[i] = c],
                      !.batch = Created(sids),
                      !.full  = \A i \in DOMAIN sids : sids[i] # NoCall,
                      !.state = "live"]]
        /\ dial' = IF Created(sids) = {} THEN IdleDial
                   ELSE [dial EXCEPT !.at = "record", !.sids = sids]
  BY DEF CallPlace
<1>2. dial.leads \in Seq(Lead) /\ dial.at = "place"
  BY DEF CallPlace, TypeInv, TypeOK
<1>3. sids \in Seq(Call \cup {NoCall}) /\ DOMAIN sids = DOMAIN dial.leads
  BY <1>2 DEF Creations
<1>4. Created(sids) \subseteq Call /\ \A c \in Created(sids) : call[c].state = "none"
  BY <1>3 DEF Created, Creations
<1>5. Pending = {}
  BY <1>2 DEF Pending
<1>6. /\ Created(sids) # {} => dial'.sids = sids /\ dial'.leads = dial.leads /\ dial'.at = "record"
      /\ Created(sids) = {} => dial'.at = "idle"
  BY <1>1 DEF TypeInv, TypeOK, IdleDial
<1>7. Pending' = Created(sids) /\ Made' = Created(sids)
  BY <1>6 DEF Pending, Made
<1>8. ASSUME NEW c \in Created(sids)
      PROVE  /\ call'[c].batch = Created(sids) /\ call'[c].state = "live"
             /\ ~call'[c].won /\ call'[c].hangup = "no" /\ call'[c].amd = "none"
             /\ call'[c].full => \A i \in DOMAIN sids : sids[i] # NoCall
             /\ call'[c].lead = dial.leads[CHOOSE i \in DOMAIN sids : sids[i] = c]
  <2> DEFINE f == \A i \in DOMAIN sids : sids[i] # NoCall
             l == dial.leads[CHOOSE i \in DOMAIN sids : sids[i] = c]
             B == Created(sids)
  <2>1. call'[c] = [NotPlaced EXCEPT !.lead = l, !.batch = B, !.full = f, !.state = "live"] /\ f \in BOOLEAN
    BY <1>1, <1>4
  <2> HIDE DEF f, l, B
  <2>2. /\ call'[c].batch = B /\ call'[c].state = "live" /\ call'[c].won = FALSE
        /\ call'[c].hangup = "no" /\ call'[c].amd = "none" /\ call'[c].full = f /\ call'[c].lead = l
    BY <2>1 DEF NotPlaced
  <2> QED
    BY <2>2 DEF f, l, B
<1>9. \A c \in Call \ Created(sids) : call'[c] = call[c]
  BY <1>1
<1>10. UNCHANGED <<payload, lost, callLog, dispo, cb>>
  BY DEF CallPlace
<1>11. Creates(sids)
  BY <1>3, <1>4, <1>5, <1>6, <1>7, <1>8, <1>9, <1>10 DEF Creates
<1> QED
  BY <1>11

\* What the request records.
LEMMA RecordStep ==
  ASSUME TypeInv, CallRecord
  PROVE  /\ \A c \in Call : payload'.active[c] = IF c \in Pending THEN PairedLead(c) ELSE payload.active[c]
         /\ payload'.stats = [payload.stats EXCEPT !["called"] = @ + Cardinality(Pending)]
         /\ payload'.dispositions = payload.dispositions
         /\ Pending' = {} /\ Made = Pending /\ Made' = Made
         /\ dial'.sids = dial.sids /\ dial'.leads = dial.leads /\ dial.at = "record"
         /\ UNCHANGED <<call, callLog, lost, dispo, cb>>
<1>1. dial.at = "record" /\ Pending = Created(dial.sids) /\ Made = Created(dial.sids)
  BY DEF CallRecord, Pending, Made
<1>2. dial'.sids = dial.sids /\ dial'.leads = dial.leads /\ dial'.at = "log"
  BY DEF CallRecord, TypeInv, TypeOK
<1>3. Pending' = {} /\ Made' = Made
  BY <1>1, <1>2 DEF Pending, Made
<1> DEFINE a == [c \in Call |-> IF c \in Created(dial.sids) THEN PairedLead(c) ELSE payload.active[c]]
           b == {dial.leads[i] : i \in DOMAIN dial.leads}
           n == Cardinality(Created(dial.sids))
           u == FirstCall
<1>4. payload' = [payload EXCEPT !.active = a, !.cur = u, !.batch = b, !.stats["called"] = @ + n]
  BY DEF CallRecord, TypeInv, TypeOK, Payload
<1>5. a \in [Call -> Lead \cup {NoLead}] /\ u \in Call \cup {NoCall} /\ b \in SUBSET Lead /\ n \in Nat
  <2>1. a \in [Call -> Lead \cup {NoLead}]
    BY <1>1, PairedLeadType DEF TypeInv, TypeOK, Payload
  <2>2. u \in Call
    BY <1>1, FirstCallType
  <2>3. b \in SUBSET Lead
    BY DEF TypeInv, TypeOK
  <2>4. n \in Nat
    BY CreatedFinite DEF TypeInv, TypeOK
  <2> QED
    BY <2>1, <2>2, <2>3, <2>4
<1> HIDE DEF a, b, n, u
<1>6. /\ payload'.active = a /\ payload'.dispositions = payload.dispositions
      /\ payload'.stats = [payload.stats EXCEPT !["called"] = @ + n]
  <2>1. payload \in Payload
    BY DEF TypeInv, TypeOK
  <2> DEFINE t == [payload.stats EXCEPT !["called"] = @ + n]
  <2>2. payload' = [payload EXCEPT !.active = a, !.cur = u, !.batch = b, !.stats = t]
    BY <1>4, <2>1 DEF Payload
  <2> HIDE DEF t
  <2>3. payload'.active = a /\ payload'.dispositions = payload.dispositions /\ payload'.stats = t
    BY <2>1, <2>2 DEF Payload
  <2> QED
    BY <2>3 DEF t
<1>7. \A c \in Call : a[c] = IF c \in Created(dial.sids) THEN PairedLead(c) ELSE payload.active[c]
  BY DEF a
<1>8. UNCHANGED <<call, callLog, lost, dispo, cb>>
  BY DEF CallRecord
<1> QED
  BY <1>1, <1>2, <1>3, <1>6, <1>7, <1>8 DEF n

LEMMA BatchInit == Init => BatchInv
<1> SUFFICES ASSUME Init PROVE BatchInv
  OBVIOUS
<1>1. \A p \in Copies : p = InitPayload
  BY DEF Init, Copies, IdleDispo, IdleStatus
<1>2. \A c \in Call : InitPayload.active[c] = NoLead /\ call[c] = NotPlaced /\ callLog[c].lead = NoLead
  BY DEF Init, InitPayload
<1>3. Pending = {} /\ Made = {} /\ NotPlaced.state = "none" /\ NotPlaced.batch = {}
  BY DEF Init, Pending, Made, IdleDial, NotPlaced
<1> QED
  BY <1>1, <1>2, <1>3 DEF BatchInv, Unplaced

\* A call that no payload knew stays unknown, unless this step records it.
LEMMA UnknownStays ==
  ASSUME TypeInv, [Next]_vars, NEW c \in Call, \A p \in Copies : p.active[c] = NoLead,
         payload'.active[c] = NoLead
  PROVE  \A p \in Copies' : p.active[c] = NoLead
<1>1. InitPayload.active[c] = NoLead
  BY DEF InitPayload
<1> QED
  BY <1>1, CopiesStep

\* A payload written back knows what the one that was read knew.
LEMMA WritesActive ==
  ASSUME TypeInv, Writes
  PROVE  \E p \in Copies : payload'.active = p.active /\ (~lost' => ~lost /\ p = payload)
<1>1. PICK p \in Copies, d \in ValidDisposition : p \in Payload /\ ~Exhausted(p) /\ WriteBack(p, d)
  BY DEF Writes
<1>2. payload' = Disposed(p, d) /\ lost' = (lost \/ payload # p)
  BY <1>1 DEF WriteBack
<1>3. payload'.active = p.active
  BY <1>1, <1>2, DisposedType
<1> QED
  BY <1>2, <1>3

LEMMA BatchStep == TypeInv /\ BatchInv /\ [Next]_vars => BatchInv'
<1> SUFFICES ASSUME TypeInv, BatchInv, [Next]_vars PROVE BatchInv'
  OBVIOUS
<1>a. call \in [Call -> CallState] /\ payload \in Copies /\ \A c \in Call : call[c].batch \subseteq Call
  BY CopiesType DEF TypeInv, TypeOK, CallState
<1>b. Pending \subseteq Call
  BY CreatedFinite DEF Pending, TypeInv, TypeOK
<1>1. CASE CallPlace
  <2>1. PICK sids : Creates(sids)
    BY <1>1, PlaceStep
  <2> DEFINE C == Created(sids)
  <2> HIDE DEF C
  <2>2. /\ C \subseteq Call /\ Pending' = C /\ Made' = C
        /\ \A c \in C : /\ call[c].state = "none" /\ call'[c].batch = C /\ call'[c].state = "live"
                        /\ ~call'[c].won /\ call'[c].hangup = "no"
        /\ \A c \in Call \ C : call'[c] = call[c]
        /\ UNCHANGED <<payload, callLog, dispo, cb>>
    BY <2>1 DEF C, Creates
  <2>3. Copies' = Copies
    BY <2>2 DEF Copies
  <2>4. Unplaced'
    BY <2>2, <2>3 DEF BatchInv, Unplaced
  <2>5. \A c \in Call : call'[c].state # "none" => c \in call'[c].batch
    BY <2>2 DEF BatchInv
  <2>6. \A c \in Call : \A e \in call'[c].batch : call'[e].state # "none" /\ call'[e].batch = call'[c].batch
    BY <1>a, <2>2 DEF BatchInv
  <2>7. \A c \in Pending' : \A p \in Copies' : p.active[c] = NoLead
    BY <2>2, <2>3 DEF BatchInv, Unplaced
  <2> QED
    BY <2>2, <2>4, <2>5, <2>6, <2>7 DEF BatchInv
<1>2. CASE ~CallPlace
  <2>1. Pending' \in {Pending, {}} /\ Made' \in {Made, {}} /\ (CallRecord => Pending' = {})
    BY <1>2, StepKinds, RecordStep DEF Quiet, CallLog, IdleDial, Writes, Heard, Pending, Made
  <2>2. ASSUME NEW c \in Call
        PROVE  /\ call'[c].batch = call[c].batch
               /\ call[c].state = "none" => call'[c] = call[c]
               /\ call[c].state # "none" => call'[c].state # "none"
               /\ c \in Pending => ~call'[c].won /\ call'[c].hangup = "no"
    <3>a. c \in Pending => payload.active[c] = NoLead /\ call[c].hangup = "no" /\ ~call[c].won
      BY <1>a DEF BatchInv
    <3>1. CASE call' = call
      BY <3>1, <3>a
    <3>2. ASSUME NEW e \in Call, Heard(e)
          PROVE  /\ call'[c].batch = call[c].batch
                 /\ call[c].state = "none" => call'[c] = call[c]
                 /\ call[c].state # "none" => call'[c].state # "none"
                 /\ c \in Pending => ~call'[c].won /\ call'[c].hangup = "no"
      <4>1. Unplaced
        BY DEF BatchInv
      <4> QED
        BY <3>2, <3>a, <4>1, HeardCalls
    <3> QED
      BY <1>2, <3>1, <3>2, StepKinds, RecordStep DEF Quiet, CallLog, Writes
  <2>3. ASSUME NEW c \in Call, \A p \in Copies : p.active[c] = NoLead, ~CallRecord \/ c \notin Pending
        PROVE  \A p \in Copies' : p.active[c] = NoLead
    <3>1. payload.active[c] = NoLead
      BY <1>a, <2>3
    <3>2. payload'.active[c] = NoLead
      <4>1. ASSUME NEW e \in Call, Heard(e) PROVE payload'.active[c] = NoLead
        <5>1. Unplaced
          BY DEF BatchInv
        <5> QED
          BY <3>1, <4>1, <5>1, HeardCalls
      <4>2. CASE Writes
        BY <2>3, <4>2, WritesActive
      <4>3. CASE CallRecord
        BY <2>3, <3>1, <4>3, RecordStep
      <4>4. CASE Quiet \/ CallLog
        BY <3>1, <4>4 DEF Quiet, CallLog
      <4> QED
        BY <1>2, <4>1, <4>2, <4>3, <4>4, StepKinds
    <3> QED
      BY <2>3, <3>2, UnknownStays
  <2>4. ASSUME NEW c \in Call, call[c].state = "none" PROVE callLog'[c].lead = NoLead
    <3>1. callLog[c].lead = NoLead /\ c \notin Made
      BY <2>4 DEF BatchInv, Unplaced
    <3>2. CASE CallLog
      BY <3>1, <3>2 DEF CallLog, Made
    <3> QED
      BY <1>2, <3>1, <3>2, StepKinds, RecordStep DEF Quiet, Writes, Heard
  <2>5. Unplaced'
    <3>1. \A c \in Call : call[c].state = "none" => c \notin Pending
      BY <1>b DEF BatchInv
    <3> QED
      BY <2>2, <2>3, <2>4, <3>1 DEF BatchInv, Unplaced
  <2>6. \A c \in Call : /\ call'[c].state # "none" => c \in call'[c].batch
                        /\ \A e \in call'[c].batch : call'[e].state # "none" /\ call'[e].batch = call'[c].batch
    BY <1>a, <2>2 DEF BatchInv
  <2>7. Made \subseteq Call
    BY CreatedFinite DEF Made, TypeInv, TypeOK
  <2>8. \A c \in Made' : call'[c].state # "none"
    BY <2>1, <2>2, <2>7 DEF BatchInv
  <2>9. \A c \in Pending' : /\ call'[c].batch = Pending' /\ ~call'[c].won /\ call'[c].hangup = "no"
                            /\ \A p \in Copies' : p.active[c] = NoLead
    BY <1>b, <2>1, <2>2, <2>3 DEF BatchInv
  <2> QED
    BY <2>5, <2>6, <2>8, <2>9 DEF BatchInv
<1> QED
  BY <1>1, <1>2

----------------------------------------------------------------------------
(* Winners *)

\* A winner and the calls placed with it are out of activeCalls, and so is a
\* call that is hung up: no later answer finds them there.
WinInv ==
  ~lost => \A c \in Call :
     /\ call[c].won => call[c].hangup = "no" /\ \A e \in call[c].batch : payload.active[e] = NoLead
     /\ call[c].hangup # "no" => payload.active[c] = NoLead
     /\ \A e \in call[c].batch : call[c].won /\ call[e].won => c = e

LEMMA WinInit == Init => WinInv
  BY DEF Init, WinInv, NotPlaced

LEMMA WinStep == TypeInv /\ BatchInv /\ WinInv /\ [Next]_vars => WinInv'
<1> SUFFICES ASSUME TypeInv, BatchInv, WinInv, [Next]_vars, ~lost' PROVE WinInv'
  BY DEF WinInv
<1>a. call \in [Call -> CallState] /\ \A c \in Call : call[c].batch \subseteq Call
  BY DEF TypeInv, TypeOK, CallState
<1>b. Pending \subseteq Call
  BY CreatedFinite DEF Pending, TypeInv, TypeOK
<1>c. Unplaced
  BY DEF BatchInv
<1>d. \A c \in Call : call[c].won \/ call[c].batch # {} => c \in call[c].batch
  BY <1>c DEF BatchInv, Unplaced, NotPlaced
<1>e. \A c \in Call : \A e \in call[c].batch : c \in call[e].batch /\ call[e].batch = call[c].batch
  BY <1>d DEF BatchInv
<1>1. CASE Quiet \/ CallLog
  BY <1>1 DEF Quiet, CallLog, WinInv
<1>2. CASE Writes
  <2>1. ~lost /\ payload'.active = payload.active /\ call' = call
    BY <1>2, WritesActive DEF Writes
  <2> QED
    BY <2>1 DEF WinInv
<1>3. CASE CallRecord
  <2>1. /\ call' = call /\ ~lost
        /\ \A c \in Call : c \notin Pending => payload'.active[c] = payload.active[c]
    BY <1>3, RecordStep
  <2>2. \A c \in Pending : ~call[c].won /\ call[c].hangup = "no" /\ call[c].batch = Pending
    BY DEF BatchInv
  <2>3. \A c \in Call : call[c].won => \A e \in call[c].batch : e \notin Pending
    BY <1>a, <1>b, <1>e, <2>2
  <2> QED
    BY <1>a, <2>1, <2>2, <2>3 DEF WinInv
<1>4. CASE CallPlace
  <2>1. PICK sids : Creates(sids)
    BY <1>4, PlaceStep
  <2> DEFINE C == Created(sids)
  <2> HIDE DEF C
  <2>2. /\ C \subseteq Call /\ payload' = payload /\ ~lost
        /\ \A c \in C : call[c].state = "none" /\ ~call'[c].won /\ call'[c].hangup = "no"
        /\ \A c \in Call \ C : call'[c] = call[c]
    BY <2>1 DEF C, Creates
  <2>3. \A c \in Call \ C : \A e \in call[c].batch : e \in Call \ C
    BY <1>a, <2>2 DEF BatchInv
  <2> QED
    BY <1>a, <2>2, <2>3 DEF WinInv
<1>5. ASSUME NEW h \in Call, Heard(h) PROVE WinInv'
  <2>1. ~lost
    BY <1>5 DEF Heard
  <2>2. \A e \in Call :
         /\ call'[e].batch = call[e].batch
         /\ payload'.active[e] \in {payload.active[e], NoLead}
         /\ call'[e].won =>
               \/ call[e].won
               \/ e = h /\ payload.active[e] # NoLead /\ \A s \in Call : payload'.active[s] = NoLead
         /\ call'[e].hangup # "no" =>
               \/ call[e].hangup # "no"
               \/ e # h /\ payload.active[e] # NoLead /\ payload'.active[e] = NoLead
    BY <1>5, <1>c, HeardCalls
  <2>3. \A c \in Call : call[c].won => payload.active[c] = NoLead
    BY <1>d, <2>1 DEF WinInv
  <2>4. ASSUME NEW c \in Call, call'[c].won
        PROVE  call'[c].hangup = "no" /\ \A e \in call'[c].batch : payload'.active[e] = NoLead
    <3>1. CASE call[c].won
      BY <1>a, <2>1, <2>2, <2>3, <3>1 DEF WinInv
    <3>2. CASE c = h /\ payload.active[c] # NoLead /\ \A s \in Call : payload'.active[s] = NoLead
      BY <1>a, <2>1, <2>2, <3>2 DEF WinInv
    <3> QED
      BY <2>2, <2>4, <3>1, <3>2
  <2>5. ASSUME NEW c \in Call, call'[c].hangup # "no" PROVE payload'.active[c] = NoLead
    BY <2>1, <2>2, <2>5 DEF WinInv
  <2>6. ASSUME NEW c \in Call, NEW e \in call'[c].batch, call'[c].won, call'[e].won PROVE c = e
    <3>1. e \in Call /\ e \in call[c].batch /\ c \in call[e].batch
      BY <1>a, <1>e, <2>2, <2>6
    <3>2. \A s, t \in Call : s \in call[t].batch /\ call[t].won => payload.active[s] = NoLead
      BY <2>1 DEF WinInv
    <3>3. CASE call[c].won /\ call[e].won
      BY <2>1, <3>1, <3>3 DEF WinInv
    <3> QED
      BY <2>2, <2>6, <3>1, <3>2, <3>3
  <2> QED
    BY <2>4, <2>5, <2>6 DEF WinInv
<1> QED
  BY <1>1, <1>2, <1>3, <1>4, <1>5, StepKinds

\* BatchInv and WinInv in every behavior.
LEMMA Winners == Spec => [](TypeInv /\ BatchInv /\ WinInv)
  BY TypeInit, TypeStep, BatchInit, BatchStep, WinInit, WinStep, PTL DEF Spec

\* A call that reached a human while it stood in activeCalls is not hung up.
THEOREM WinnerNotHungUpCorrect == Spec => []WinnerNotHungUp
<1>1. WinInv => WinnerNotHungUp
  BY DEF WinInv, WinnerNotHungUp
<1> QED
  BY <1>1, Winners, PTL

\* The calls one request placed have one winner.
THEOREM OneWinnerPerBatchCorrect == Spec => []OneWinnerPerBatch
<1>1. WinInv => OneWinnerPerBatch
  BY DEF WinInv, OneWinnerPerBatch
<1> QED
  BY <1>1, Winners, PTL

----------------------------------------------------------------------------
(* Attribution *)

LEMMA FullRank ==
  ASSUME NEW sids \in Seq(Call \cup {NoCall}), NEW i \in DOMAIN sids, \A j \in DOMAIN sids : sids[j] # NoCall
  PROVE  Rank(sids, i) = i
<1>1. i \in Nat /\ 1..i \subseteq DOMAIN sids
  OBVIOUS
<1>2. {j \in 1..i : sids[j] # NoCall} = 1..i
  BY <1>1
<1>3. Cardinality(1..i) = i
  BY <1>1, FS_Interval
<1> QED
  BY <1>2, <1>3 DEF Rank

\* Leads shift only after a failed creation: a call of a full batch is paired
\* with the lead that was dialed, until it is recorded and logged.
AttrInv ==
  \A c \in Call : call[c].full =>
     /\ \A p \in Copies : p.active[c] \in {call[c].lead, NoLead}
     /\ callLog[c].lead \in {call[c].lead, NoLead}
     /\ c \in Made => PairedLead(c) = call[c].lead

LEMMA AttrInit == Init => AttrInv
  BY DEF Init, AttrInv, NotPlaced

LEMMA AttrStep == TypeInv /\ BatchInv /\ AttrInv /\ [Next]_vars => AttrInv'
<1> SUFFICES ASSUME TypeInv, BatchInv, AttrInv, [Next]_vars PROVE AttrInv'
  OBVIOUS
<1>c. Unplaced /\ payload \in Copies
  BY DEF BatchInv, Copies
<1>1. CASE CallPlace
  <2>1. PICK sids : Creates(sids)
    BY <1>1, PlaceStep
  <2>2. Copies' = Copies
    BY <2>1 DEF Creates, Copies
  <2>3. ASSUME NEW c \in Created(sids), call'[c].full
        PROVE  /\ \A p \in Copies' : p.active[c] = NoLead
               /\ callLog'[c].lead = NoLead
               /\ PairedLead(c)' = call'[c].lead
    <3>1. c \in Call /\ call[c].state = "none" /\ callLog' = callLog
      BY <2>1, <2>3 DEF Creates
    <3>2. sids \in Seq(Call \cup {NoCall}) /\ \A i \in DOMAIN sids : sids[i] # NoCall
      BY <2>1, <2>3 DEF Creates
    <3>3. dial'.sids = sids /\ dial'.leads = dial.leads
      BY <2>1, <2>3 DEF Creates
    <3> DEFINE i == CHOOSE i \in DOMAIN sids : sids[i] = c
    <3>4. i \in DOMAIN sids
      BY <2>3, <3>2 DEF Created
    <3>5. Rank(sids, i) = i
      BY <3>2, <3>4, FullRank
    <3>6. PairedLead(c)' = dial.leads[Rank(sids, i)]
      BY <3>3 DEF PairedLead, Rank
    <3>7. call'[c].lead = dial.leads[i]
      BY <2>1, <2>3 DEF Creates
    <3> HIDE DEF i
    <3> QED
      BY <1>c, <2>2, <3>1, <3>5, <3>6, <3>7 DEF Unplaced
  <2>4. ASSUME NEW c \in Call \ Created(sids)
        PROVE  call'[c] = call[c] /\ callLog' = callLog /\ c \notin Made'
    BY <2>1, <2>4 DEF Creates
  <2> QED
    BY <2>2, <2>3, <2>4 DEF AttrInv
<1>2. CASE ~CallPlace
  <2>1. ASSUME NEW c \in Call PROVE call'[c].full = call[c].full /\ call'[c].lead = call[c].lead
    <3>1. ASSUME NEW e \in Call, Heard(e) PROVE call'[c].full = call[c].full /\ call'[c].lead = call[c].lead
      BY <3>1, <1>c, HeardCalls
    <3> QED
      BY <1>2, <3>1, StepKinds, RecordStep DEF Quiet, CallLog, Writes
  <2>2. ASSUME NEW c \in Call, c \in Made' PROVE c \in Made /\ PairedLead(c)' = PairedLead(c)
    <3>1. dial'.sids = dial.sids /\ dial'.leads = dial.leads /\ Made' = Made
      <4>1. CASE CallRecord
        BY <4>1, RecordStep
      <4>2. CASE dial' = dial
        BY <4>2 DEF Made
      <4>3. dial'.at \in {"record", "log"}
        BY <2>2 DEF Made
      <4> QED
        BY <1>2, <4>1, <4>2, <4>3, StepKinds DEF Quiet, CallLog, IdleDial, Writes, Heard
    <3> QED
      BY <2>2, <3>1 DEF PairedLead, Rank
  <2>3. ASSUME NEW c \in Call, call[c].full PROVE payload'.active[c] \in {call[c].lead, NoLead}
    <3>1. ASSUME NEW e \in Call, Heard(e) PROVE payload'.active[c] \in {payload.active[c], NoLead}
      BY <3>1, <1>c, HeardCalls
    <3>2. CASE Writes
      BY <2>3, <3>2, WritesActive DEF AttrInv
    <3>3. CASE CallRecord
      BY <1>c, <2>3, <3>3, RecordStep DEF AttrInv
    <3> QED
      BY <1>2, <1>c, <2>3, <3>1, <3>2, <3>3, StepKinds DEF Quiet, CallLog, AttrInv
  <2>4. ASSUME NEW c \in Call, call[c].full PROVE callLog'[c].lead \in {call[c].lead, NoLead}
    <3>1. CASE CallLog
      BY <2>4, <3>1 DEF CallLog, Made, AttrInv
    <3> QED
      BY <1>2, <2>4, <3>1, StepKinds, RecordStep DEF Quiet, Writes, Heard, AttrInv
  <2>5. ASSUME NEW c \in Call, call[c].full, NEW q \in Copies' PROVE q.active[c] \in {call[c].lead, NoLead}
    BY <2>3, <2>5, CopiesStep DEF AttrInv, InitPayload
  <2> QED
    BY <2>1, <2>2, <2>4, <2>5 DEF AttrInv
<1> QED
  BY <1>1, <1>2

\* When every creation of a request succeeded, the session and the call log
\* know each of its calls by the lead that was dialed.
THEOREM FullBatchAttributedCorrect == Spec => []FullBatchAttributed
<1>1. AttrInv => FullBatchAttributed
  BY DEF AttrInv, FullBatchAttributed, Copies
<1> QED
  BY <1>1, Winners, AttrInit, AttrStep, PTL DEF Spec

----------------------------------------------------------------------------
(* Counters *)

LEMMA LoggedType == ASSUME NEW p \in Payload, NEW d PROVE Logged(p, d) \in Nat
<1>1. IsFiniteSet(1..Len(p.dispositions)) /\ DOMAIN p.dispositions = 1..Len(p.dispositions)
  BY FS_Interval DEF Payload
<1>2. {i \in DOMAIN p.dispositions : p.dispositions[i].disposition = d} \subseteq 1..Len(p.dispositions)
  BY <1>1
<1> QED
  BY <1>1, <1>2, FS_Subset, FS_CardinalityType DEF Logged

LEMMA LoggedSame ==
  ASSUME NEW p, NEW q, p.dispositions = q.dispositions, NEW d
  PROVE  Logged(p, d) = Logged(q, d)
  BY DEF Logged

\* Writing a payload back counts its result once, and records it once.
LEMMA DisposedCounts ==
  ASSUME NEW p \in Payload, ~Exhausted(p), NEW d \in ValidDisposition
  PROVE  /\ \A e \in ValidDisposition \ {"skip"} :
               Logged(Disposed(p, d), e) = IF d = e THEN Logged(p, e) + 1 ELSE Logged(p, e)
         /\ \A k \in Counter :
               Disposed(p, d).stats[k] = IF d # "skip" /\ k = StatOf[d] THEN p.stats[k] + 1 ELSE p.stats[k]
<1> DEFINE q == Disposed(p, d)
<1>1. /\ q \in Payload /\ q.stats = Recorded(p, d).stats /\ q.dispositions = Recorded(p, d).dispositions
  BY DisposedType
<1> HIDE DEF q
<1>2. CASE d = "skip"
  <2>1. q.stats = p.stats /\ q.dispositions = p.dispositions
    BY <1>1, <1>2, RecordedType
  <2>2. \A e : Logged(q, e) = Logged(p, e)
    BY <2>1, LoggedSame
  <2> QED
    BY <1>2, <2>1, <2>2 DEF q
<1>3. CASE d # "skip"
  <2>1. /\ q.dispositions = Append(p.dispositions, RecordOf(p, d))
        /\ q.stats = [p.stats EXCEPT ![StatOf[d]] = @ + 1]
    BY <1>1, <1>3, RecordedType
  <2>2. p.dispositions \in Seq(Record) /\ RecordOf(p, d).disposition = d
    BY DEF Payload, RecordOf
  <2> DEFINE s == p.dispositions
             n == Len(s) + 1
  <2>3. n \in Nat /\ DOMAIN q.dispositions = 1..n /\ DOMAIN s = 1..(n - 1)
    BY <2>1, <2>2
  <2>4. q.dispositions[n].disposition = d /\ \A i \in DOMAIN s : q.dispositions[i] = s[i]
    BY <2>1, <2>2
  <2>8. n >= 1
    BY <2>2
  <2> HIDE DEF s, n
  <2>5. ASSUME NEW e \in ValidDisposition \ {"skip"}
        PROVE  Logged(q, e) = IF d = e THEN Logged(p, e) + 1 ELSE Logged(p, e)
    <3> DEFINE P == {i \in DOMAIN p.dispositions : p.dispositions[i].disposition = e}
               Q == {i \in DOMAIN q.dispositions : q.dispositions[i].disposition = e}
    <3>1. Q = IF d = e THEN P \cup {n} ELSE P
      <4>1. \A i : i \in 1..n <=> i \in 1..(n - 1) \/ i = n
        BY <2>3, <2>8
      <4>2. \A i : i \in Q <=> i \in P \/ (i = n /\ d = e)
        BY <2>3, <2>4, <4>1 DEF s
      <4> HIDE DEF P, Q
      <4>3. CASE d = e
        BY <4>2, <4>3
      <4>4. CASE d # e
        BY <4>2, <4>4
      <4> QED
        BY <4>3, <4>4
    <3>2. n \notin P
      BY <2>3 DEF s
    <3>3. IsFiniteSet(P)
      <4>1. P \subseteq 1..(n - 1) /\ IsFiniteSet(1..(n - 1))
        BY <2>3, FS_Interval DEF s
      <4> QED
        BY <4>1, FS_Subset
    <3>4. Logged(q, e) = Cardinality(Q) /\ Logged(p, e) = Cardinality(P)
      BY DEF Logged
    <3> HIDE DEF P, Q
    <3> QED
      BY <3>1, <3>2, <3>3, <3>4, FS_AddElement
  <2>6. p.stats \in [Counter -> Nat] /\ StatOf[d] \in Counter
    BY <1>3, StatOfType DEF Payload
  <2>7. \A k \in Counter : q.stats[k] = IF k = StatOf[d] THEN p.stats[k] + 1 ELSE p.stats[k]
    BY <2>1, <2>6
  <2> QED
    BY <1>3, <2>5, <2>7 DEF q
<1> QED
  BY <1>2, <1>3

\* What the AMD handler counts and Twilio's view of the calls.
LEMMA HeardCounts ==
  ASSUME TypeInv, NEW c \in Call, Heard(c)
  PROVE  /\ payload'.dispositions = payload.dispositions
         /\ \/ payload'.stats = payload.stats /\ \A e \in Call : call'[e].amd = call[e].amd
            \/ \E r \in {"human", "machine"} :
                  /\ payload'.stats = [payload.stats EXCEPT ![IF r = "human" THEN "answered" ELSE "voicemail"] = @ + 1]
                  /\ call[c].amd = "none" /\ call'[c].amd = r
                  /\ \A e \in Call \ {c} : call'[e].amd = call[e].amd
<1> USE DEF TypeInv, TypeOK
<1>0. payload \in Payload /\ \A e \in Call : call[e] \in CallState
  OBVIOUS
<1>1. CASE AmdMachine(c)
  <2> DEFINE q == Bump(payload, "voicemail")
  <2>1. /\ q \in Payload /\ q.dispositions = payload.dispositions
        /\ q.stats = [payload.stats EXCEPT !["voicemail"] = @ + 1]
    BY <1>0, BumpType DEF Counter
  <2>2. payload' = [q EXCEPT !.active[c] = NoLead]
    BY <1>1 DEF AmdMachine
  <2> HIDE DEF q
  <2>3. payload'.dispositions = q.dispositions /\ payload'.stats = q.stats
    BY <2>1, <2>2 DEF Payload
  <2>4. call[c].amd = "none" /\ call' = [call EXCEPT ![c].amd = "machine"]
    BY <1>1 DEF AmdMachine, Unheard
  <2>5. call'[c].amd = "machine" /\ \A e \in Call \ {c} : call'[e].amd = call[e].amd
    BY <1>0, <2>4 DEF CallState
  <2> QED
    BY <2>1, <2>3, <2>4, <2>5
<1>2. CASE AmdHuman(c)
  <2> DEFINE q == Bump(payload, "answered")
  <2>1. /\ q \in Payload /\ q.dispositions = payload.dispositions
        /\ q.stats = [payload.stats EXCEPT !["answered"] = @ + 1]
    BY <1>0, BumpType DEF Counter
  <2>2. payload' = [q EXCEPT !.active = Cleared(c)]
    BY <1>2 DEF AmdHuman
  <2> HIDE DEF q
  <2>3. payload'.dispositions = q.dispositions /\ payload'.stats = q.stats
    BY <2>1, <2>2 DEF Payload
  <2>4. /\ call[c].amd = "none"
        /\ call' = [s \in Call |->
              IF s = c THEN [call[c] EXCEPT !.amd = "human", !.won = payload.active[c] # NoLead, !.state = Bridged(c)]
              ELSE IF s \in Sisters(c) /\ call[s].hangup = "no" THEN [call[s] EXCEPT !.hangup = "asked"]
              ELSE call[s]]
    BY <1>2 DEF AmdHuman, Unheard
  <2>5. call'[c].amd = "human"
    <3> DEFINE w == payload.active[c] # NoLead
    <3>1. call'[c] = [call[c] EXCEPT !.amd = "human", !.won = w, !.state = Bridged(c)]
      BY <2>4
    <3> HIDE DEF w
    <3> QED
      BY <1>0, <3>1 DEF CallState
  <2>6. ASSUME NEW e \in Call \ {c} PROVE call'[e].amd = call[e].amd
    <3>1. call'[e] = call[e] \/ call'[e] = [call[e] EXCEPT !.hangup = "asked"]
      BY <2>4
    <3> QED
      BY <1>0, <3>1 DEF CallState
  <2> QED
    BY <2>1, <2>3, <2>4, <2>5, <2>6
<1>3. CASE CancelSister(c) /\ UNCHANGED payload
  <2>1. PICK ends \in BOOLEAN : call' = [call EXCEPT ![c].hangup = "tried", ![c].state = IF ends THEN "ended" ELSE @]
    BY <1>3 DEF CancelSister
  <2>2. ASSUME NEW e \in Call PROVE call'[e].amd = call[e].amd
    <3>1. CASE e = c
      <4>1. call'[e] = [call[e] EXCEPT !.hangup = "tried", !.state = IF ends THEN "ended" ELSE @]
        BY <2>1, <3>1
      <4> QED
        BY <1>0, <4>1 DEF CallState
    <3>2. CASE e # c
      BY <2>1, <3>2
    <3> QED
      BY <3>1, <3>2
  <2> QED
    BY <1>3, <2>2
<1>4. CASE Ended(c) /\ UNCHANGED payload
  BY <1>0, <1>4 DEF Ended, CallState
<1> QED
  BY <1>1, <1>2, <1>3, <1>4 DEF Heard

LEMMA DetectedType == ASSUME NEW r PROVE Detected(r) \in Nat /\ IsFiniteSet({c \in Call : call[c].amd = r})
  BY SetsAssumption, FS_Subset, FS_CardinalityType DEF Detected

LEMMA DetectedSame ==
  ASSUME \A e \in Call : call'[e].amd = call[e].amd, NEW r PROVE Detected(r)' = Detected(r)
  BY DEF Detected

LEMMA DetectedOne ==
  ASSUME NEW c \in Call, NEW r \in {"human", "machine"}, call[c].amd = "none", call'[c].amd = r,
         \A e \in Call \ {c} : call'[e].amd = call[e].amd
  PROVE  \A s \in {"human", "machine"} : Detected(s)' = IF s = r THEN Detected(s) + 1 ELSE Detected(s)
<1> SUFFICES ASSUME NEW s \in {"human", "machine"}
             PROVE  Detected(s)' = IF s = r THEN Detected(s) + 1 ELSE Detected(s)
  OBVIOUS
<1> DEFINE D == {e \in Call : call[e].amd = s}
           E == {e \in Call : call'[e].amd = s}
<1>1. E = (IF s = r THEN D \cup {c} ELSE D) /\ c \notin D
  OBVIOUS
<1>2. IsFiniteSet(D) /\ Cardinality(D) = Detected(s) /\ Cardinality(E) = Detected(s)'
  BY DetectedType DEF Detected
<1> HIDE DEF D, E
<1>3. Cardinality(D \cup {c}) = Cardinality(D) + 1
  BY <1>1, <1>2, FS_AddElement
<1>4. CASE s = r
  BY <1>1, <1>2, <1>3, <1>4
<1>5. CASE s # r
  BY <1>1, <1>2, <1>5
<1> QED
  BY <1>4, <1>5

AgentsResults == {"no_answer", "dnc", "callback"}

\* The records of a payload explain its counters, and calls that a request has
\* yet to record are placed but not counted.
StatsInv ==
  \A p \in Copies :
     /\ p.stats["called"] + Cardinality(Pending) <= Cardinality(Placed)
     /\ \A d \in AgentsResults : p.stats[StatOf[d]] = Logged(p, d)

ExactInv ==
  ~lost => /\ payload.stats["answered"]  = Detected("human") + Logged(payload, "answered")
           /\ payload.stats["voicemail"] = Detected("machine") + Logged(payload, "voicemail")

LEMMA CountInit == Init => StatsInv /\ ExactInv
<1> SUFFICES ASSUME Init PROVE StatsInv /\ ExactInv
  OBVIOUS
<1>1. \A p \in Copies : p = InitPayload
  BY DEF Init, Copies, IdleDispo, IdleStatus
<1>2. \A d : Logged(InitPayload, d) = 0
  <2>1. \A d : {i \in DOMAIN InitPayload.dispositions : InitPayload.dispositions[i].disposition = d} = {}
    BY DEF InitPayload
  <2> QED
    BY <2>1, FS_EmptySet DEF Logged
<1>3. \A r \in {"human", "machine"} : {c \in Call : call[c].amd = r} = {}
  BY DEF Init, NotPlaced
<1>4. Placed = {} /\ Pending = {}
  BY DEF Init, NotPlaced, Placed, Pending, IdleDial
<1>5. InitPayload.stats = [k \in Counter |-> 0]
  BY DEF InitPayload
<1>6. Cardinality({}) = 0
  BY FS_EmptySet
<1>7. payload = InitPayload
  BY DEF Init
<1>8. StatsInv
  <2>1. \A d \in AgentsResults : StatOf[d] \in Counter
    BY DEF AgentsResults, StatOf, Counter
  <2>2. \A d \in AgentsResults : InitPayload.stats[StatOf[d]] = Logged(InitPayload, d)
    BY <1>2, <1>5, <2>1
  <2>3. InitPayload.stats["called"] + Cardinality(Pending) <= Cardinality(Placed)
    BY <1>4, <1>5, <1>6 DEF Counter
  <2> QED
    BY <1>1, <2>2, <2>3 DEF StatsInv
<1>9. ExactInv
  <2>1. Detected("human") = 0 /\ Detected("machine") = 0
    BY <1>3, <1>6 DEF Detected
  <2>2. InitPayload.stats["answered"] = 0 /\ InitPayload.stats["voicemail"] = 0
    BY <1>5 DEF Counter
  <2> QED
    BY <1>2, <1>7, <2>1, <2>2 DEF ExactInv
<1> QED
  BY <1>8, <1>9

LEMMA PlacedFinite == IsFiniteSet(Placed) /\ Cardinality(Placed) \in Nat /\ Placed \subseteq Call
<1>1. Placed \subseteq Call
  BY DEF Placed
<1> QED
  BY <1>1, SetsAssumption, FS_Subset, FS_CardinalityType

\* Calls that wait to be recorded are placed.
LEMMA PendingPlaced ==
  TypeInv /\ BatchInv =>
     /\ IsFiniteSet(Pending) /\ Cardinality(Pending) \in Nat
     /\ Cardinality(Pending) <= Cardinality(Placed)
<1> SUFFICES ASSUME TypeInv, BatchInv
             PROVE  /\ IsFiniteSet(Pending) /\ Cardinality(Pending) \in Nat
                    /\ Cardinality(Pending) <= Cardinality(Placed)
  OBVIOUS
<1>1. Pending \subseteq Made /\ Made \subseteq Call
  BY CreatedFinite DEF Pending, Made, TypeInv, TypeOK
<1>2. Pending \subseteq Placed
  BY <1>1 DEF BatchInv, Placed
<1> QED
  BY <1>2, PlacedFinite, FS_Subset, FS_CardinalityType

LEMMA CalledStep ==
  ASSUME TypeInv, BatchInv, StatsInv, [Next]_vars
  PROVE  \A p \in Copies' : p.stats["called"] + Cardinality(Pending)' <= Cardinality(Placed)'
<1>a. /\ Copies \subseteq Payload /\ payload \in Copies /\ "called" \in Counter
      /\ \A p \in Copies : p.stats["called"] \in Nat
  BY CopiesType DEF Counter, Payload
<1>b. Cardinality(Pending) \in Nat /\ Cardinality(Placed) \in Nat
  BY PendingPlaced, PlacedFinite
<1>c. TypeInv' /\ BatchInv'
  BY TypeStep, BatchStep
<1>d. Cardinality(Pending)' \in Nat /\ Cardinality(Placed)' \in Nat /\ Cardinality(Pending)' <= Cardinality(Placed)'
  <2>1. (IsFiniteSet(Placed) /\ Cardinality(Placed) \in Nat /\ Placed \subseteq Call)'
    BY PlacedFinite, PTL
  <2>2. (TypeInv /\ BatchInv =>
            /\ IsFiniteSet(Pending) /\ Cardinality(Pending) \in Nat
            /\ Cardinality(Pending) <= Cardinality(Placed))'
    BY PendingPlaced, PTL
  <2> QED
    BY <1>c, <2>1, <2>2
<1>1. ASSUME Cardinality(Placed)' = Cardinality(Placed), Cardinality(Pending)' <= Cardinality(Pending),
             payload'.stats["called"] + Cardinality(Pending)' <= Cardinality(Placed)
      PROVE  \A p \in Copies' : p.stats["called"] + Cardinality(Pending)' <= Cardinality(Placed)'
  <2>1. \A p \in Copies : p.stats["called"] + Cardinality(Pending)' <= Cardinality(Placed)'
    BY <1>1, <1>a, <1>b, <1>d DEF StatsInv
  <2>2. InitPayload.stats["called"] = 0
    BY DEF InitPayload, Counter
  <2> QED
    BY <1>1, <1>d, <2>1, <2>2, CopiesStep
<1>2. CASE CallPlace
  <2>1. PICK sids : Creates(sids)
    BY <1>2, PlaceStep
  <2> DEFINE C == Created(sids)
  <2> HIDE DEF C
  <2>2. /\ C \subseteq Call /\ Pending = {} /\ Pending' = C /\ UNCHANGED <<payload, dispo, cb>>
        /\ \A c \in C : call[c].state = "none" /\ call'[c].state = "live"
        /\ \A c \in Call \ C : call'[c] = call[c]
    BY <2>1 DEF C, Creates
  <2>3. Placed' = Placed \cup C /\ Placed \cap C = {}
    BY <2>2 DEF Placed
  <2>4. IsFiniteSet(C) /\ IsFiniteSet(Placed) /\ Cardinality(C) \in Nat
    BY <2>2, PlacedFinite, SetsAssumption, FS_Subset, FS_CardinalityType
  <2>5. Cardinality(Placed)' = Cardinality(Placed) + Cardinality(C)
    BY <2>3, <2>4, FS_Union, FS_EmptySet, PlacedFinite
  <2>6. Copies' = Copies /\ Cardinality(Pending) = 0 /\ Cardinality(Pending)' = Cardinality(C)
    BY <2>2, FS_EmptySet DEF Copies
  <2> QED
    BY <1>a, <1>b, <2>4, <2>5, <2>6 DEF StatsInv
<1>3. CASE CallRecord
  <2>1. /\ payload'.stats = [payload.stats EXCEPT !["called"] = @ + Cardinality(Pending)]
        /\ call' = call /\ Pending' = {}
    BY <1>3, RecordStep
  <2>2. payload'.stats["called"] = payload.stats["called"] + Cardinality(Pending)
    BY <1>a, <2>1 DEF Payload
  <2>3. Cardinality(Placed)' = Cardinality(Placed) /\ Cardinality(Pending)' = 0
    BY <2>1, FS_EmptySet DEF Placed
  <2> QED
    BY <1>1, <1>a, <1>b, <2>2, <2>3 DEF StatsInv
<1>4. CASE ~CallPlace /\ ~CallRecord
  <2>1. Cardinality(Pending)' <= Cardinality(Pending)
    <3>1. Pending' \in {Pending, {}}
      BY <1>4, StepKinds DEF Quiet, CallLog, IdleDial, Writes, Heard, Pending
    <3> QED
      BY <1>b, <3>1, FS_EmptySet
  <2>2. Placed' = Placed
    <3>1. ASSUME NEW h \in Call, Heard(h), NEW c \in Call PROVE call'[c].state = "none" <=> call[c].state = "none"
      BY <3>1, HeardCalls DEF BatchInv
    <3> QED
      BY <1>4, <3>1, StepKinds DEF Quiet, CallLog, Writes, Placed
  <2>3. payload'.stats["called"] \in {p.stats["called"] : p \in Copies}
    <3>1. ASSUME NEW h \in Call, Heard(h) PROVE payload'.stats["called"] = payload.stats["called"]
      BY <1>a, <3>1, HeardCounts DEF Payload, Counter
    <3>2. CASE Writes
      <4>1. PICK p \in Copies, d \in ValidDisposition : p \in Payload /\ ~Exhausted(p) /\ payload' = Disposed(p, d)
        BY <3>2 DEF Writes, WriteBack
      <4>2. d # "skip" => StatOf[d] # "called"
        BY DEF StatOf, ValidDisposition
      <4>3. payload'.stats["called"] = p.stats["called"]
        BY <1>a, <4>1, <4>2, DisposedCounts
      <4> QED
        BY <4>1, <4>3
    <3> QED
      BY <1>4, <1>a, <3>1, <3>2, StepKinds DEF Quiet, CallLog
  <2>4. PICK p \in Copies : payload'.stats["called"] = p.stats["called"]
    BY <2>3
  <2>5. p.stats["called"] + Cardinality(Pending)' <= Cardinality(Placed)
    BY <1>a, <1>b, <1>d, <2>1 DEF StatsInv
  <2> QED
    BY <1>1, <2>1, <2>2, <2>4, <2>5
<1> QED
  BY <1>2, <1>3, <1>4

\* A count and its record are won or lost together.
LEMMA RecordsStep ==
  ASSUME TypeInv, BatchInv, StatsInv, [Next]_vars
  PROVE  \A p \in Copies' : \A d \in AgentsResults : p.stats[StatOf[d]] = Logged(p, d)
<1>a. Copies \subseteq Payload /\ payload \in Copies /\ payload \in Payload
  BY CopiesType
<1>b. /\ AgentsResults \subseteq ValidDisposition \ {"skip"}
      /\ \A d \in AgentsResults : StatOf[d] \in Counter \ {"called", "answered", "voicemail"}
      /\ \A d \in AgentsResults, e \in ValidDisposition \ {"skip"} : StatOf[d] = StatOf[e] => d = e
  BY DEF AgentsResults, ValidDisposition, StatOf, Counter
<1>1. ASSUME NEW d \in AgentsResults PROVE payload'.stats[StatOf[d]] = Logged(payload', d)
  <2>0. payload.stats[StatOf[d]] = Logged(payload, d)
    BY <1>a DEF StatsInv
  <2>1. CASE payload'.dispositions = payload.dispositions /\ payload'.stats[StatOf[d]] = payload.stats[StatOf[d]]
    BY <2>0, <2>1, LoggedSame
  <2>2. CASE Writes
    <3>1. PICK p \in Copies, e \in ValidDisposition : p \in Payload /\ ~Exhausted(p) /\ payload' = Disposed(p, e)
      BY <2>2 DEF Writes, WriteBack
    <3>2. p.stats[StatOf[d]] = Logged(p, d)
      BY <3>1 DEF StatsInv
    <3>3. (e # "skip" /\ StatOf[d] = StatOf[e]) <=> d = e
      BY <1>b
    <3> QED
      BY <1>b, <3>1, <3>2, <3>3, DisposedCounts
  <2>3. CASE CallRecord
    BY <1>a, <1>b, <2>1, <2>3, RecordStep DEF Payload
  <2>4. CASE CallPlace
    <3>1. payload' = payload
      BY <2>4 DEF CallPlace
    <3> QED
      BY <2>0, <3>1
  <2>5. ASSUME NEW h \in Call, Heard(h) PROVE payload'.stats[StatOf[d]] = Logged(payload', d)
    BY <1>a, <1>b, <2>1, <2>5, HeardCounts DEF Payload
  <2>6. CASE Quiet \/ CallLog
    BY <2>0, <2>6 DEF Quiet, CallLog
  <2> QED
    BY <2>2, <2>3, <2>4, <2>5, <2>6, StepKinds
<1>2. \A d \in AgentsResults : InitPayload.stats[StatOf[d]] = Logged(InitPayload, d)
  <2>1. \A d : {i \in DOMAIN InitPayload.dispositions : InitPayload.dispositions[i].disposition = d} = {}
    BY DEF InitPayload
  <2>2. \A d : Logged(InitPayload, d) = 0
    BY <2>1, FS_EmptySet DEF Logged
  <2> QED
    BY <1>b, <2>2 DEF InitPayload
<1> QED
  BY <1>1, <1>2, CopiesStep DEF StatsInv

LEMMA ExactStep ==
  ASSUME TypeInv, BatchInv, ExactInv, [Next]_vars
  PROVE  ExactInv'
<1> SUFFICES ASSUME ~lost' PROVE ExactInv'
  BY DEF ExactInv
<1> DEFINE Exact == /\ payload'.stats["answered"]  = Detected("human")' + Logged(payload', "answered")
                    /\ payload'.stats["voicemail"] = Detected("machine")' + Logged(payload', "voicemail")
<1> HIDE DEF Exact
<1>a. payload \in Payload /\ payload.stats \in [Counter -> Nat] /\ {"answered", "voicemail", "called"} \subseteq Counter
  BY CopiesType DEF Payload, Counter
<1>b. /\ Detected("human") \in Nat /\ Detected("machine") \in Nat
      /\ Logged(payload, "answered") \in Nat /\ Logged(payload, "voicemail") \in Nat
  BY <1>a, DetectedType, LoggedType
<1>1. ASSUME Quiet \/ CallLog PROVE Exact
  <2>1. ~lost /\ payload' = payload /\ call' = call
    BY <1>1 DEF Quiet, CallLog
  <2> QED
    BY <2>1, DetectedSame DEF ExactInv, Exact
<1>2. ASSUME CallPlace PROVE Exact
  <2>1. PICK sids : Creates(sids)
    BY <1>2, PlaceStep
  <2>2. ~lost /\ payload' = payload
    BY <2>1 DEF Creates
  <2>3. \A e \in Call : call'[e].amd = call[e].amd
    BY <2>1 DEF Creates, BatchInv, Unplaced, NotPlaced
  <2> QED
    BY <2>2, <2>3, DetectedSame DEF ExactInv, Exact
<1>3. ASSUME CallRecord PROVE Exact
  <2>1. /\ ~lost /\ call' = call /\ payload'.dispositions = payload.dispositions
        /\ payload'.stats["answered"] = payload.stats["answered"]
        /\ payload'.stats["voicemail"] = payload.stats["voicemail"]
    BY <1>3, <1>a, RecordStep
  <2> QED
    BY <2>1, DetectedSame, LoggedSame DEF ExactInv, Exact
<1>4. ASSUME Writes PROVE Exact
  <2>1. PICK p \in Copies, d \in ValidDisposition :
               p \in Payload /\ ~Exhausted(p) /\ WriteBack(p, d) /\ call' = call
    BY <1>4 DEF Writes
  <2>2. payload' = Disposed(p, d) /\ lost' = (lost \/ payload # p)
    BY <2>1 DEF WriteBack
  <2>3. ~lost /\ payload = p
    BY <2>2
  <2>4. /\ (d # "skip" /\ "answered" = StatOf[d]) <=> d = "answered"
        /\ (d # "skip" /\ "voicemail" = StatOf[d]) <=> d = "voicemail"
        /\ {"answered", "voicemail"} \subseteq ValidDisposition \ {"skip"}
    BY DEF ValidDisposition, StatOf
  <2>5. \A r \in {"human", "machine"} : Detected(r)' = Detected(r)
    BY <2>1, DetectedSame
  <2> QED
    BY <1>a, <1>b, <2>1, <2>2, <2>3, <2>4, <2>5, DisposedCounts DEF ExactInv, Exact
<1>5. ASSUME NEW h \in Call, Heard(h) PROVE Exact
  <2>1. ~lost /\ payload'.dispositions = payload.dispositions
    BY <1>5, HeardCounts DEF Heard
  <2>2. CASE payload'.stats = payload.stats /\ \A e \in Call : call'[e].amd = call[e].amd
    BY <2>1, <2>2, DetectedSame, LoggedSame DEF ExactInv, Exact
  <2>3. ASSUME NEW r \in {"human", "machine"},
               payload'.stats = [payload.stats EXCEPT ![IF r = "human" THEN "answered" ELSE "voicemail"] = @ + 1],
               call[h].amd = "none", call'[h].amd = r,
               \A e \in Call \ {h} : call'[e].amd = call[e].amd
        PROVE  Exact
    <3>1. \A s \in {"human", "machine"} : Detected(s)' = IF s = r THEN Detected(s) + 1 ELSE Detected(s)
      BY <2>3, DetectedOne
    <3>2. /\ Logged(payload', "answered") = Logged(payload, "answered")
          /\ Logged(payload', "voicemail") = Logged(payload, "voicemail")
      BY <2>1, LoggedSame
    <3>3. CASE r = "human"
      BY <1>a, <1>b, <2>1, <2>3, <3>1, <3>2, <3>3 DEF ExactInv, Exact
    <3>4. CASE r = "machine"
      BY <1>a, <1>b, <2>1, <2>3, <3>1, <3>2, <3>4 DEF ExactInv, Exact
    <3> QED
      BY <3>3, <3>4
  <2> QED
    BY <1>5, <2>2, <2>3, HeardCounts
<1>6. Exact
  BY <1>1, <1>2, <1>3, <1>4, <1>5, StepKinds
<1> QED
  BY <1>6 DEF Exact, ExactInv, Logged

\* The counters the agent sees are the number of logged results of that kind.
THEOREM StatsMatchRecordsCorrect == Spec => []StatsMatchRecords
<1>1. StatsInv => StatsMatchRecords
  BY DEF StatsInv, StatsMatchRecords, Copies, AgentsResults
<1>2. TypeInv /\ BatchInv /\ StatsInv /\ [Next]_vars => StatsInv'
  <2> SUFFICES ASSUME TypeInv, BatchInv, StatsInv, [Next]_vars PROVE StatsInv'
    OBVIOUS
  <2> QED
    BY CalledStep, RecordsStep DEF StatsInv, Logged, AgentsResults
<1> QED
  BY <1>1, <1>2, CountInit, Winners, PTL DEF Spec

\* The counters the AMD handler also bumps are exact until an update is lost,
\* and no call is counted as called twice.
THEOREM CountersExactCorrect == Spec => []CountersExactUnlessLost
<1>1. TypeInv /\ BatchInv /\ StatsInv /\ ExactInv => CountersExactUnlessLost
  <2> SUFFICES ASSUME TypeInv, BatchInv, StatsInv, ExactInv PROVE CountersExactUnlessLost
    OBVIOUS
  <2>1. payload.stats["called"] <= Cardinality(Placed)
    <3>1. payload \in Copies /\ payload.stats["called"] \in Nat
      BY CopiesType DEF Payload, Counter
    <3> QED
      BY <3>1, PendingPlaced, PlacedFinite DEF StatsInv
  <2> QED
    BY <2>1 DEF ExactInv, CountersExactUnlessLost
<1>2. TypeInv /\ BatchInv /\ StatsInv /\ ExactInv /\ [Next]_vars => (StatsInv /\ ExactInv)'
  <2> SUFFICES ASSUME TypeInv, BatchInv, StatsInv, ExactInv, [Next]_vars PROVE (StatsInv /\ ExactInv)'
    OBVIOUS
  <2> QED
    BY CalledStep, RecordsStep, ExactStep DEF StatsInv, Logged, AgentsResults
<1> QED
  BY <1>1, <1>2, CountInit, Winners, PTL DEF Spec
====
