----------------------------- MODULE QueuesProofs -----------------------------
(* What holds of the in-memory retry queue, for any number of retries,       *)
(* attempts and limits, and of the dialer and that queue side by side, as    *)
(* they are checked together.                                                *)
(*                                                                           *)
(* The queue takes what is due out of its deque by scanning it, so the first *)
(* lemmas say what the scan keeps, for a deque of any length: a least        *)
(* counterexample among the positions would have to follow from the one      *)
(* before it. From there a retry is in the deque, in what the loop has       *)
(* taken, or settled (PlaceOK), and what the policy sees of it (EntryOf) is  *)
(* read off these lists.                                                     *)
EXTENDS MCQueues, PowerDialerProofs, SequenceTheorems

(* No ticket is in a list twice.                                             *)
Distinct(s) == \A i, j \in DOMAIN s : s[i].ticket = s[j].ticket => i = j

(* Which attempt of which ticket a list holds.                               *)
Attempts(s) == {<<s[i].ticket, s[i].attempt>> : i \in DOMAIN s}

(* The order of the natural numbers is well-founded.                         *)
LEMMA LeastNumber ==
  ASSUME NEW S \in SUBSET Nat, S # {}
  PROVE  \E i \in S : \A j \in S : i <= j
<1>1. IsWellFoundedOn(OpToRel(<, Nat), Nat)
  BY NatLessThanWellFounded
<1>2. PICK i \in S : \A j \in S : ~(<<j, i>> \in OpToRel(<, Nat))
  BY <1>1, WFMin
<1>3. \A j \in S : ~(j < i)
  BY <1>2 DEF OpToRel
<1> QED
  BY <1>3

(* The scan takes one entry after the other.                                 *)
LEMMA ScanSteps ==
  ASSUME deque \in Seq(PendingRetry), NEW due \in BOOLEAN
  PROVE  \E kept : /\ Scan(due) = kept[Len(deque)]
                   /\ kept[0] = << >>
                   /\ \A i \in 1..Len(deque) :
                         kept[i] = IF deque[i].due = due THEN Append(kept[i-1], deque[i]) ELSE kept[i-1]
<1> DEFINE Len0 == Len(deque)
           Good(n) == \E k : k = [i \in 0..n |->
                          IF i = 0 THEN << >>
                          ELSE IF deque[i].due = due THEN Append(k[i-1], deque[i]) ELSE k[i-1]]
           Bad == {n \in Nat : ~Good(n)}
<1>1. Good(0)
  <2>1. [i \in 0..0 |-> << >>] = [i \in 0..0 |->
           IF i = 0 THEN << >>
           ELSE IF deque[i].due = due THEN Append([j \in 0..0 |-> << >>][i-1], deque[i])
           ELSE [j \in 0..0 |-> << >>][i-1]]
    OBVIOUS
  <2> QED
    BY <2>1
<1>2. ASSUME NEW n \in Nat \ {0}, Good(n-1) PROVE Good(n)
  <2>1. PICK k : k = [i \in 0..n-1 |->
                        IF i = 0 THEN << >>
                        ELSE IF deque[i].due = due THEN Append(k[i-1], deque[i]) ELSE k[i-1]]
    BY <1>2
  <2>2. PICK g : g = [i \in 0..n |-> IF i < n THEN k[i]
                                     ELSE IF deque[i].due = due THEN Append(k[i-1], deque[i]) ELSE k[i-1]]
    OBVIOUS
  <2>3. \A i \in 0..n : i # 0 => i-1 \in 0..n-1 /\ g[i-1] = k[i-1]
    BY <2>2
  <2>4. \A i \in 0..n : g[i] = IF i = 0 THEN << >>
                              ELSE IF deque[i].due = due THEN Append(g[i-1], deque[i]) ELSE g[i-1]
    <3> TAKE i \in 0..n
    <3>1. CASE i < n
      <4>1. i \in 0..n-1
        BY <3>1
      <4>2. k[i] = IF i = 0 THEN << >> ELSE IF deque[i].due = due THEN Append(k[i-1], deque[i]) ELSE k[i-1]
        BY <2>1, <4>1
      <4> QED
        BY <2>2, <2>3, <3>1, <4>2
    <3>2. CASE i = n
      BY <2>2, <2>3, <3>2
    <3> QED
      BY <3>1, <3>2
  <2>5. g = [i \in 0..n |-> IF i = 0 THEN << >>
                            ELSE IF deque[i].due = due THEN Append(g[i-1], deque[i]) ELSE g[i-1]]
    BY <2>2, <2>4
  <2> QED
    BY <2>5
<1>3. Len0 \in Nat
  OBVIOUS
<1>4. Bad = {}
  <2> SUFFICES ASSUME Bad # {} PROVE FALSE
    OBVIOUS
  <2>1. PICK n \in Bad : \A m \in Bad : n <= m
    BY LeastNumber
  <2>2. n \in Nat \ {0}
    BY <1>1
  <2>3. n-1 \in Nat /\ ~(n <= n-1)
    BY <2>2
  <2> HIDE DEF Good
  <2>4. Good(n-1)
    BY <2>1, <2>3
  <2>5. ~Good(n)
    BY <2>1
  <2> QED
    BY <1>2, <2>2, <2>4, <2>5
<1>5. Good(Len0)
  <2> HIDE DEF Good
  <2> QED
    BY <1>3, <1>4
<1> DEFINE kept[i \in 0..Len(deque)] ==
             IF i = 0 THEN << >>
             ELSE IF deque[i].due = due THEN Append(kept[i-1], deque[i]) ELSE kept[i-1]
<1>6. Scan(due) = kept[Len(deque)]
  BY DEF Scan
<1>7. kept = [i \in 0..Len(deque) |->
             IF i = 0 THEN << >>
             ELSE IF deque[i].due = due THEN Append(kept[i-1], deque[i]) ELSE kept[i-1]]
  BY <1>5
<1> HIDE DEF kept
<1>8. kept[0] = << >>
  BY <1>3, <1>7
<1>9. \A i \in 1..Len(deque) :
        kept[i] = IF deque[i].due = due THEN Append(kept[i-1], deque[i]) ELSE kept[i-1]
  <2> TAKE i \in 1..Len(deque)
  <2>1. i \in 0..Len(deque) /\ i # 0
    BY <1>3
  <2> QED
    BY <1>7, <2>1
<1> QED
  BY <1>6, <1>8, <1>9

(* What the scan keeps, and that it keeps no entry twice.                    *)
LEMMA ScanKeeps ==
  ASSUME deque \in Seq(PendingRetry), NEW due \in BOOLEAN
  PROVE  /\ Scan(due) \in Seq(PendingRetry)
         /\ Len(Scan(due)) <= Len(deque)
         /\ {Scan(due)[j] : j \in DOMAIN Scan(due)}
              = {deque[i] : i \in {k \in DOMAIN deque : deque[k].due = due}}
         /\ Distinct(deque) => Distinct(Scan(due))
<1>1. PICK kept : /\ Scan(due) = kept[Len(deque)]
                  /\ kept[0] = << >>
                  /\ \A i \in 1..Len(deque) :
                        kept[i] = IF deque[i].due = due THEN Append(kept[i-1], deque[i]) ELSE kept[i-1]
  BY ScanSteps
<1> DEFINE Good(n) ==
             /\ kept[n] \in Seq(PendingRetry)
             /\ Len(kept[n]) <= n
             /\ \A j \in DOMAIN kept[n] : \E i \in 1..n : deque[i].due = due /\ kept[n][j] = deque[i]
             /\ \A i \in 1..n : deque[i].due = due => \E j \in DOMAIN kept[n] : kept[n][j] = deque[i]
             /\ Distinct(deque) => Distinct(kept[n])
           Bad == {n \in 0..Len(deque) : ~Good(n)}
<1>2. Good(0)
  BY <1>1 DEF Distinct
<1>3. ASSUME NEW n \in 1..Len(deque), Good(n-1) PROVE Good(n)
  <2>1. n \in Nat /\ n-1 \in Nat /\ deque[n] \in PendingRetry /\ \A i \in 1..n : i \in 1..n-1 \/ i = n
    OBVIOUS
  <2>2. CASE deque[n].due # due
    <3>1. kept[n] = kept[n-1]
      BY <1>1, <2>2
    <3>2. /\ kept[n] \in Seq(PendingRetry) /\ Len(kept[n]) <= n
          /\ Distinct(deque) => Distinct(kept[n])
      BY <1>3, <2>1, <3>1
    <3>3. \A j \in DOMAIN kept[n] : \E i \in 1..n : deque[i].due = due /\ kept[n][j] = deque[i]
      BY <1>3, <2>1, <3>1
    <3>4. \A i \in 1..n : deque[i].due = due => \E j \in DOMAIN kept[n] : kept[n][j] = deque[i]
      BY <1>3, <2>1, <2>2, <3>1
    <3> QED
      BY <3>2, <3>3, <3>4
  <2>3. CASE deque[n].due = due
    <3>1. PICK s \in Seq(PendingRetry) : s = kept[n-1]
      BY <1>3
    <3>2. kept[n] = Append(s, deque[n])
      BY <1>1, <2>3, <3>1
    <3>3. /\ kept[n] \in Seq(PendingRetry) /\ Len(kept[n]) = Len(s) + 1 /\ Len(s) \in Nat
          /\ DOMAIN s = 1..Len(s) /\ DOMAIN kept[n] = 1..Len(s)+1
          /\ \A j \in 1..Len(s) : kept[n][j] = s[j]
          /\ kept[n][Len(s)+1] = deque[n]
      BY <2>1, <3>2
    <3>4. Len(kept[n]) <= n
      BY <1>3, <3>1, <3>3
    <3>5. ASSUME NEW j \in DOMAIN kept[n]
          PROVE  \E i \in 1..n : deque[i].due = due /\ kept[n][j] = deque[i]
      <4>1. CASE j = Len(s)+1
        BY <2>3, <3>3, <4>1
      <4>2. CASE j \in 1..Len(s)
        <5>1. PICK i \in 1..n-1 : deque[i].due = due /\ s[j] = deque[i]
          BY <1>3, <3>1, <3>3, <4>2
        <5> QED
          BY <3>3, <4>2, <5>1
      <4> QED
        BY <3>3, <4>1, <4>2
    <3>6. ASSUME NEW i \in 1..n, deque[i].due = due
          PROVE  \E j \in DOMAIN kept[n] : kept[n][j] = deque[i]
      <4>1. CASE i = n
        BY <3>3, <4>1
      <4>2. CASE i \in 1..n-1
        <5>1. PICK j \in DOMAIN s : s[j] = deque[i]
          BY <1>3, <3>1, <3>6, <4>2
        <5> QED
          BY <3>3, <5>1
      <4> QED
        BY <2>1, <4>1, <4>2
    <3>7. ASSUME Distinct(deque) PROVE Distinct(kept[n])
      <4>1. Distinct(s)
        BY <1>3, <3>1, <3>7
      <4>2. \A j \in 1..Len(s) : s[j].ticket # deque[n].ticket
        <5> TAKE j \in 1..Len(s)
        <5>1. PICK i \in 1..n-1 : s[j] = deque[i]
          BY <1>3, <3>1, <3>3
        <5> QED
          BY <3>7, <5>1 DEF Distinct
      <4> QED
        BY <3>3, <4>1, <4>2 DEF Distinct
    <3> HIDE DEF Distinct
    <3> QED
      BY <3>3, <3>4, <3>5, <3>6, <3>7
  <2> QED
    BY <2>2, <2>3
<1>4. Bad = {}
  <2> SUFFICES ASSUME Bad # {} PROVE FALSE
    OBVIOUS
  <2> HIDE DEF Good
  <2>0. Bad \subseteq Nat
    OBVIOUS
  <2>1. PICK n \in Bad : \A m \in Bad : n <= m
    BY <2>0, LeastNumber
  <2>2. n \in 1..Len(deque) /\ ~Good(n)
    BY <1>2
  <2>3. n-1 \in 0..Len(deque) /\ ~(n <= n-1)
    BY <2>2
  <2>4. Good(n-1)
    BY <2>1, <2>3
  <2> QED
    BY <1>3, <2>2, <2>4
<1>5. Good(Len(deque))
  <2>1. Len(deque) \in 0..Len(deque)
    OBVIOUS
  <2> HIDE DEF Good
  <2> QED
    BY <1>4, <2>1
<1>6. PICK r \in Seq(PendingRetry) : r = Scan(due)
  BY <1>1, <1>5
<1>7. {r[j] : j \in DOMAIN r} = {deque[i] : i \in {k \in DOMAIN deque : deque[k].due = due}}
  <2>1. \A j \in DOMAIN r : \E i \in 1..Len(deque) : deque[i].due = due /\ r[j] = deque[i]
    BY <1>1, <1>5, <1>6
  <2>2. \A i \in 1..Len(deque) : deque[i].due = due => \E j \in DOMAIN r : r[j] = deque[i]
    BY <1>1, <1>5, <1>6
  <2> QED
    BY <2>1, <2>2
<1>8. Len(r) <= Len(deque) /\ (Distinct(deque) => Distinct(r))
  BY <1>1, <1>5, <1>6
<1> QED
  BY <1>6, <1>7, <1>8

(* An entry of a list is of a ticket and an attempt.                         *)
LEMMA EntryTyped ==
  ASSUME NEW s \in Seq(PendingRetry), NEW i \in DOMAIN s
  PROVE  /\ s[i] \in PendingRetry /\ s[i].ticket \in MemoryTicket
         /\ s[i].attempt \in 0..MemoryAttempts-1 /\ s[i].due \in BOOLEAN
<1>1. s[i] \in PendingRetry
  OBVIOUS
<1> QED
  BY <1>1 DEF PendingRetry

(* An entry at the end.                                                      *)
LEMMA AppendKeeps ==
  ASSUME NEW s \in Seq(PendingRetry), NEW e \in PendingRetry
  PROVE  /\ Append(s, e) \in Seq(PendingRetry) /\ Len(Append(s, e)) = Len(s) + 1
         /\ TicketsIn(Append(s, e)) = TicketsIn(s) \cup {e.ticket}
         /\ Attempts(Append(s, e)) = Attempts(s) \cup {<<e.ticket, e.attempt>>}
         /\ Distinct(s) /\ e.ticket \notin TicketsIn(s) => Distinct(Append(s, e))
<1>0. Append(s, e) \in Seq(PendingRetry)
  OBVIOUS
<1>1. PICK r \in Seq(PendingRetry) : r = Append(s, e)
  BY <1>0
<1>2. /\ Len(r) = Len(s) + 1 /\ Len(s) \in Nat /\ DOMAIN s = 1..Len(s) /\ DOMAIN r = 1..Len(s)+1
      /\ \A i \in 1..Len(s) : r[i] = s[i]
      /\ r[Len(s)+1] = e
  BY <1>1
<1>3. TicketsIn(r) = TicketsIn(s) \cup {e.ticket}
  BY <1>2 DEF TicketsIn
<1>4. Attempts(r) = Attempts(s) \cup {<<e.ticket, e.attempt>>}
  BY <1>2 DEF Attempts
<1>5. ASSUME Distinct(s), e.ticket \notin TicketsIn(s) PROVE Distinct(r)
  BY <1>2, <1>5 DEF Distinct, TicketsIn
<1> QED
  BY <1>1, <1>2, <1>3, <1>4, <1>5

(* The first entry taken away.                                               *)
LEMMA TailKeeps ==
  ASSUME NEW s \in Seq(PendingRetry), s # << >>, Distinct(s)
  PROVE  /\ Tail(s) \in Seq(PendingRetry) /\ Head(s) \in PendingRetry
         /\ Tail(s) # << >> <=> Len(s) # 1
         /\ Head(s).ticket \in TicketsIn(s)
         /\ <<Head(s).ticket, Head(s).attempt>> \in Attempts(s)
         /\ TicketsIn(Tail(s)) = TicketsIn(s) \ {Head(s).ticket}
         /\ Attempts(Tail(s)) = Attempts(s) \ {<<Head(s).ticket, Head(s).attempt>>}
         /\ Distinct(Tail(s))
<1>0. Tail(s) \in Seq(PendingRetry)
  OBVIOUS
<1>1. PICK r \in Seq(PendingRetry) : r = Tail(s)
  BY <1>0
<1>2. PICK h \in PendingRetry : h = Head(s) /\ h = s[1]
  OBVIOUS
<1>3. /\ Len(s) \in Nat \ {0} /\ DOMAIN s = 1..Len(s) /\ Len(r) = Len(s) - 1 /\ DOMAIN r = 1..Len(s)-1
      /\ \A i \in 1..Len(s)-1 : r[i] = s[i+1]
  BY <1>1
<1>4. r # << >> <=> Len(s) # 1
  BY <1>3
<1>5. \A i \in 2..Len(s) : i-1 \in DOMAIN r /\ r[i-1] = s[i] /\ s[i].ticket # h.ticket
  BY <1>2, <1>3 DEF Distinct
<1>6. TicketsIn(r) = TicketsIn(s) \ {h.ticket}
  <2>1. \A i \in DOMAIN r : i+1 \in 2..Len(s) /\ r[i] = s[i+1]
    BY <1>3
  <2>2. \A i \in DOMAIN s : i = 1 \/ i \in 2..Len(s)
    BY <1>3
  <2>3. ASSUME NEW x \in TicketsIn(r) PROVE x \in TicketsIn(s) \ {h.ticket}
    BY <1>3, <1>5, <2>1, <2>3 DEF TicketsIn
  <2>4. ASSUME NEW x \in TicketsIn(s) \ {h.ticket} PROVE x \in TicketsIn(r)
    <3>1. PICK i \in DOMAIN s : x = s[i].ticket
      BY DEF TicketsIn
    <3> QED
      BY <1>2, <1>5, <2>2, <3>1 DEF TicketsIn
  <2> QED
    BY <2>3, <2>4
<1>7. Attempts(r) = Attempts(s) \ {<<h.ticket, h.attempt>>}
  <2>1. \A i \in DOMAIN r : i+1 \in 2..Len(s) /\ r[i] = s[i+1]
    BY <1>3
  <2>2. \A i \in DOMAIN s : i = 1 \/ i \in 2..Len(s)
    BY <1>3
  <2>3. ASSUME NEW x \in Attempts(r) PROVE x \in Attempts(s) \ {<<h.ticket, h.attempt>>}
    BY <1>3, <1>5, <2>1, <2>3 DEF Attempts
  <2>4. ASSUME NEW x \in Attempts(s) \ {<<h.ticket, h.attempt>>} PROVE x \in Attempts(r)
    <3>1. PICK i \in DOMAIN s : x = <<s[i].ticket, s[i].attempt>>
      BY DEF Attempts
    <3> QED
      BY <1>2, <1>5, <2>2, <3>1 DEF Attempts
  <2> QED
    BY <2>3, <2>4
<1>8. Distinct(r)
  BY <1>3 DEF Distinct
<1>9. h.ticket \in TicketsIn(s) /\ <<h.ticket, h.attempt>> \in Attempts(s)
  BY <1>2, <1>3 DEF TicketsIn, Attempts
<1> QED
  BY <1>1, <1>2, <1>4, <1>6, <1>7, <1>8, <1>9

(* As many entries as tickets.                                               *)
LEMMA DistinctCount ==
  ASSUME NEW s \in Seq(PendingRetry), Distinct(s)
  PROVE  Len(s) = Cardinality(TicketsIn(s))
<1> DEFINE f == [i \in 1..Len(s) |-> s[i].ticket]
<1>1. f \in Bijection(1..Len(s), TicketsIn(s))
  BY DEF Bijection, Injection, Surjection, IsInjective, Distinct, TicketsIn
<1>2. IsFiniteSet(1..Len(s)) /\ Cardinality(1..Len(s)) = Len(s)
  <2>1. Len(s) \in Nat
    OBVIOUS
  <2>2. IsFiniteSet(1..Len(s)) /\ Cardinality(1..Len(s)) = IF 1 > Len(s) THEN 0 ELSE Len(s)-1+1
    BY <2>1, FS_Interval
  <2> QED
    BY <2>1, <2>2
<1> QED
  BY <1>1, <1>2, FS_Bijection DEF ExistsBijection

----------------------------------------------------------------------------
(* Where a retry is *)

(* The loop has ended with what it had taken from the deque, or forgotten it *)
(* in an error.                                                              *)
Lost == raises # MaxRaises \/ loop = "stopped"

(* A retry is in the deque or in what the loop has taken, once, and then it  *)
(* has no outcome; unless the loop has lost some, every accepted retry is in *)
(* one of them or has an outcome.                                            *)
PlaceOK ==
    /\ Distinct(deque) /\ Distinct(ready)
    /\ TicketsIn(deque) \cap TicketsIn(ready) = {}
    /\ TicketsIn(deque) \cup TicketsIn(ready) \subseteq accepted \ (succeeded \cup exhausted \cup overflowed)
    /\ succeeded \cap exhausted = {} /\ (succeeded \cup exhausted) \cap overflowed = {}
    /\ accepted \cap refused = {}
    /\ Lost \/ accepted = TicketsIn(deque) \cup TicketsIn(ready) \cup succeeded \cup exhausted \cup overflowed

MemoryInv == MemoryTypeOK /\ PlaceOK

(* The lists are empty at the start.                                         *)
LEMMA MemoryStarts == MemoryInit => MemoryInv
  BY MemoryAssumption DEF MemoryInit, MemoryInv, MemoryTypeOK, PlaceOK, Distinct, TicketsIn, Lost

(* A list holds tickets only.                                                *)
LEMMA TicketsInType ==
  ASSUME NEW s \in Seq(PendingRetry)
  PROVE  TicketsIn(s) \subseteq MemoryTicket
  BY EntryTyped DEF TicketsIn

(* What enqueue adds, unless it is refused at the limit.                     *)
LEMMA EnqueueSafe ==
  ASSUME MemoryInv, NEW t \in MemoryTicket, EnqueueInMemory(t)
  PROVE  /\ MemoryInv'
         /\ \/ Attempts(deque)' = Attempts(deque) \cup {<<t, 0>>} /\ accepted' = accepted \cup {t}
               /\ refused' = refused
            \/ Attempts(deque)' = Attempts(deque) /\ accepted' = accepted /\ refused' = refused \cup {t}
<1>1. t \notin accepted \cup refused /\ UNCHANGED <<ready, loop, succeeded, exhausted, overflowed, raises>>
  BY DEF EnqueueInMemory
<1>2. CASE deque' = deque /\ accepted' = accepted /\ refused' = refused \cup {t}
  <2>1. MemoryTypeOK'
    BY <1>1, <1>2 DEF MemoryInv, MemoryTypeOK
  <2>2. PlaceOK'
    BY <1>1, <1>2 DEF MemoryInv, PlaceOK, Distinct, TicketsIn, Lost
  <2> QED
    BY <1>2, <2>1, <2>2 DEF MemoryInv, Attempts
<1>3. CASE ~Full /\ deque' = Pushed(t, 0) /\ accepted' = accepted \cup {t} /\ refused' = refused
  <2>0. [ticket |-> t, attempt |-> 0, due |-> FALSE] \in PendingRetry
    BY MemoryAssumption DEF PendingRetry
  <2>1. PICK e \in PendingRetry : e = [ticket |-> t, attempt |-> 0, due |-> FALSE]
    BY <2>0
  <2>2. /\ deque \in Seq(PendingRetry) /\ deque' = Append(deque, e)
        /\ e.ticket = t /\ e.attempt = 0
    BY <1>3, <2>1 DEF Pushed, MemoryInv, MemoryTypeOK
  <2>3. t \notin TicketsIn(deque) /\ t \notin TicketsIn(ready)
    BY <1>1 DEF MemoryInv, PlaceOK
  <2>4. /\ deque' \in Seq(PendingRetry) /\ Len(deque') <= MaxQueueSize /\ Distinct(deque)'
        /\ TicketsIn(deque)' = TicketsIn(deque) \cup {t}
        /\ Attempts(deque)' = Attempts(deque) \cup {<<t, 0>>}
    <3>1. Len(deque) \in Nat /\ Len(deque) < MaxQueueSize /\ Distinct(deque)
      BY <1>3, <2>2, MemoryAssumption DEF Full, MemoryInv, PlaceOK
    <3>2. PICK d : d = Append(deque, e)
      OBVIOUS
    <3>3. /\ d \in Seq(PendingRetry) /\ Len(d) = Len(deque) + 1 /\ Distinct(d)
          /\ TicketsIn(d) = TicketsIn(deque) \cup {t}
          /\ Attempts(d) = Attempts(deque) \cup {<<t, 0>>}
      BY <2>2, <2>3, <3>1, <3>2, AppendKeeps
    <3> QED
      BY <2>2, <3>1, <3>2, <3>3, MemoryAssumption
  <2>5. MemoryTypeOK'
    BY <1>1, <1>3, <2>4 DEF MemoryInv, MemoryTypeOK
  <2>6. PlaceOK'
    <3>1. Distinct(ready)' /\ TicketsIn(ready)' = TicketsIn(ready) /\ Lost' = Lost
      BY <1>1 DEF MemoryInv, PlaceOK, Distinct, TicketsIn, Lost
    <3> QED
      BY <1>1, <1>3, <2>3, <2>4, <3>1 DEF MemoryInv, PlaceOK, MemoryTypeOK
  <2> QED
    BY <1>3, <2>4, <2>5, <2>6 DEF MemoryInv
<1> QED
  BY <1>1, <1>2, <1>3 DEF EnqueueInMemory

(* An entry becomes due; its place stays.                                    *)
LEMMA ElapseSafe ==
  ASSUME MemoryInv, NEW i \in DOMAIN deque, Elapse(i)
  PROVE  MemoryInv' /\ Attempts(deque)' = Attempts(deque)
<1>1. deque' = [deque EXCEPT ![i].due = TRUE] /\ UNCHANGED <<ready, loop, history, raises>>
  BY DEF Elapse
<1>2. deque \in Seq(PendingRetry)
  BY DEF MemoryInv, MemoryTypeOK
<1>a. PICK d \in PendingRetry : d = deque[i]
  BY <1>2, EntryTyped
<1>b. [d EXCEPT !.due = TRUE] \in PendingRetry
  BY DEF PendingRetry
<1>3. PICK e \in PendingRetry : e = [d EXCEPT !.due = TRUE] /\ e.ticket = d.ticket /\ e.attempt = d.attempt
  BY <1>b DEF PendingRetry
<1>4. deque' = [deque EXCEPT ![i] = e]
  BY <1>1, <1>a, <1>3
<1>5. deque' \in Seq(PendingRetry) /\ Len(deque') = Len(deque) /\ DOMAIN deque' = DOMAIN deque
  BY <1>2, <1>4
<1>6. \A j \in DOMAIN deque : deque'[j].ticket = deque[j].ticket /\ deque'[j].attempt = deque[j].attempt
  BY <1>2, <1>a, <1>3, <1>4
<1>7. Distinct(deque)' /\ TicketsIn(deque)' = TicketsIn(deque) /\ Attempts(deque)' = Attempts(deque)
  BY <1>5, <1>6 DEF MemoryInv, PlaceOK, Distinct, TicketsIn, Attempts
<1>8. MemoryTypeOK'
  BY <1>1, <1>5 DEF MemoryInv, MemoryTypeOK, history
<1>9. PlaceOK'
  <2>1. Distinct(ready)' /\ TicketsIn(ready)' = TicketsIn(ready) /\ Lost' = Lost
    BY <1>1 DEF MemoryInv, PlaceOK, Distinct, TicketsIn, Lost
  <2> QED
    BY <1>1, <1>7, <2>1 DEF MemoryInv, PlaceOK, history
<1> QED
  BY <1>7, <1>8, <1>9 DEF MemoryInv

(* The drain takes what is due from the deque and keeps the rest, and the    *)
(* two scans split the deque.                                                *)
LEMMA DrainSafe ==
  ASSUME MemoryInv, Drain
  PROVE  MemoryInv' /\ Attempts(deque)' \cup Attempts(ready)' = Attempts(deque) \cup Attempts(ready)
<1>1. /\ deque \in Seq(PendingRetry) /\ ready = << >> /\ Distinct(deque) /\ loop = "poll"
      /\ TicketsIn(ready) = {} /\ Attempts(ready) = {}
  BY DEF MemoryInv, MemoryTypeOK, PlaceOK, Drain, TicketsIn, Attempts
<1>2. PICK r, q : r = Scan(TRUE) /\ q = Scan(FALSE)
  OBVIOUS
<1>3. ready' = r /\ deque' = q /\ r # << >> /\ loop' = "next" /\ UNCHANGED <<history, raises>>
  BY <1>2 DEF Drain, Remaining
<1>4. /\ r \in Seq(PendingRetry) /\ q \in Seq(PendingRetry)
      /\ Len(q) <= Len(deque) /\ Distinct(r) /\ Distinct(q)
      /\ {r[j] : j \in DOMAIN r} = {deque[i] : i \in {k \in DOMAIN deque : deque[k].due = TRUE}}
      /\ {q[j] : j \in DOMAIN q} = {deque[i] : i \in {k \in DOMAIN deque : deque[k].due = FALSE}}
  BY <1>1, <1>2, ScanKeeps
<1>5. /\ \A j \in DOMAIN r : \E i \in DOMAIN deque : deque[i].due = TRUE /\ r[j] = deque[i]
      /\ \A j \in DOMAIN q : \E i \in DOMAIN deque : deque[i].due = FALSE /\ q[j] = deque[i]
      /\ \A i \in DOMAIN deque : deque[i].due = TRUE => \E j \in DOMAIN r : r[j] = deque[i]
      /\ \A i \in DOMAIN deque : deque[i].due = FALSE => \E j \in DOMAIN q : q[j] = deque[i]
  <2>1. \A j \in DOMAIN r : r[j] \in {deque[i] : i \in {k \in DOMAIN deque : deque[k].due = TRUE}}
    BY <1>4
  <2>2. \A j \in DOMAIN q : q[j] \in {deque[i] : i \in {k \in DOMAIN deque : deque[k].due = FALSE}}
    BY <1>4
  <2>3. \A i \in DOMAIN deque : deque[i].due = TRUE => deque[i] \in {r[j] : j \in DOMAIN r}
    BY <1>4
  <2>4. \A i \in DOMAIN deque : deque[i].due = FALSE => deque[i] \in {q[j] : j \in DOMAIN q}
    BY <1>4
  <2> QED
    BY <2>1, <2>2, <2>3, <2>4
<1>6. \A i \in DOMAIN deque : deque[i].due \in BOOLEAN
  BY <1>1, EntryTyped
<1>7. TicketsIn(r) \cup TicketsIn(q) = TicketsIn(deque)
  BY <1>5, <1>6 DEF TicketsIn
<1>8. Attempts(r) \cup Attempts(q) = Attempts(deque)
  BY <1>5, <1>6 DEF Attempts
<1>9. TicketsIn(r) \cap TicketsIn(q) = {}
  BY <1>1, <1>5 DEF TicketsIn, Distinct
<1>10. MemoryTypeOK'
  <2>1. Len(q) \in Nat /\ Len(deque) \in Nat /\ Len(q) <= MaxQueueSize
    BY <1>1, <1>4, MemoryAssumption DEF MemoryInv, MemoryTypeOK
  <2> QED
    BY <1>3, <1>4, <2>1 DEF MemoryInv, MemoryTypeOK, history
<1>11. PlaceOK'
  <2>1. /\ TicketsIn(ready)' = TicketsIn(r) /\ TicketsIn(deque)' = TicketsIn(q)
        /\ Distinct(ready)' /\ Distinct(deque)'
    BY <1>3, <1>4
  <2>2. Lost' = Lost
    BY <1>1, <1>3 DEF Lost
  <2> QED
    BY <1>1, <1>3, <1>7, <1>9, <2>1, <2>2 DEF MemoryInv, PlaceOK, history
<1> QED
  BY <1>1, <1>3, <1>8, <1>10, <1>11 DEF MemoryInv

(* What the loop takes from ready when it goes on to the next entry.         *)
Takes(h) ==
    /\ h \in PendingRetry /\ h.ticket \in TicketsIn(ready) /\ h.ticket \in MemoryTicket
    /\ h.ticket \in accepted \ (succeeded \cup exhausted \cup overflowed \cup TicketsIn(deque))
    /\ h.attempt \in 0..MemoryAttempts-1
    /\ <<h.ticket, h.attempt>> \in Attempts(ready)
    /\ ready' \in Seq(PendingRetry) /\ Distinct(ready')
    /\ TicketsIn(ready') = TicketsIn(ready) \ {h.ticket}
    /\ Attempts(ready') = Attempts(ready) \ {<<h.ticket, h.attempt>>}
    /\ loop' \in {"poll", "next"} /\ (loop' = "next" <=> ready' # << >>)

(* Going on takes the first entry from ready.                                *)
LEMMA NextEntryTakes ==
  ASSUME MemoryInv, loop = "run", NextEntry, NEW h, h = Head(ready)
  PROVE  Takes(h)
<1>1. /\ ready \in Seq(PendingRetry) /\ ready # << >> /\ Distinct(ready)
      /\ TicketsIn(ready) \subseteq accepted \
            (succeeded \cup exhausted \cup overflowed \cup TicketsIn(deque))
  BY DEF MemoryInv, MemoryTypeOK, PlaceOK
<1>2. PICK r : r = Tail(ready)
  OBVIOUS
<1>3. /\ h \in PendingRetry /\ h.ticket \in TicketsIn(ready)
      /\ <<h.ticket, h.attempt>> \in Attempts(ready)
      /\ r \in Seq(PendingRetry) /\ Distinct(r) /\ (r # << >> <=> Len(ready) # 1)
      /\ TicketsIn(r) = TicketsIn(ready) \ {h.ticket}
      /\ Attempts(r) = Attempts(ready) \ {<<h.ticket, h.attempt>>}
  BY <1>1, <1>2, TailKeeps
<1>4. ready' = r /\ loop' = IF Len(ready) = 1 THEN "poll" ELSE "next"
  BY <1>2 DEF NextEntry
<1>5. h.ticket \in MemoryTicket /\ h.attempt \in 0..MemoryAttempts-1
  BY <1>3 DEF PendingRetry
<1> QED
  BY <1>1, <1>3, <1>4, <1>5 DEF Takes

(* The run of the first entry.                                               *)
LEMMA RunFirstSafe == ASSUME MemoryInv, RunFirst PROVE MemoryInv'
<1>1. UNCHANGED <<deque, ready, history, raises>> /\ loop = "next" /\ loop' = "run"
  BY DEF RunFirst
<1>2. MemoryTypeOK'
  BY <1>1 DEF history, MemoryInv, MemoryTypeOK
<1>3. PlaceOK'
  BY <1>1 DEF history, MemoryInv, PlaceOK, Lost
<1> QED
  BY <1>2, <1>3 DEF MemoryInv

(* The first entry succeeds and is let go.                                   *)
LEMMA RunSucceedsSafe == ASSUME MemoryInv, RunSucceeds PROVE MemoryInv'
<1>1. PICK h : h = Head(ready)
  OBVIOUS
<1>2. /\ loop = "run" /\ succeeded' = succeeded \cup {h.ticket}
      /\ UNCHANGED <<deque, accepted, refused, exhausted, overflowed, raises>>
  BY <1>1 DEF RunSucceeds
<1>3. Takes(h)
  BY <1>1, <1>2, NextEntryTakes DEF RunSucceeds
<1>4. MemoryTypeOK'
  BY <1>2, <1>3 DEF MemoryInv, MemoryTypeOK, Takes
<1>5. PlaceOK'
  BY <1>2, <1>3 DEF MemoryInv, PlaceOK, Takes, Lost
<1> QED
  BY <1>4, <1>5 DEF MemoryInv

(* The first entry has used up its attempts and is let go.                   *)
LEMMA RunExhaustsSafe == ASSUME MemoryInv, RunExhausts PROVE MemoryInv'
<1>1. PICK h : h = Head(ready)
  OBVIOUS
<1>2. /\ loop = "run" /\ exhausted' = exhausted \cup {h.ticket}
      /\ UNCHANGED <<deque, accepted, refused, succeeded, overflowed, raises>>
  BY <1>1 DEF RunExhausts
<1>3. Takes(h)
  BY <1>1, <1>2, NextEntryTakes DEF RunExhausts
<1>4. MemoryTypeOK'
  BY <1>2, <1>3 DEF MemoryInv, MemoryTypeOK, Takes
<1>5. PlaceOK'
  BY <1>2, <1>3 DEF MemoryInv, PlaceOK, Takes, Lost
<1> QED
  BY <1>4, <1>5 DEF MemoryInv

(* The first entry goes back to the deque with one attempt more, or is       *)
(* dropped at the limit.                                                     *)
LEMMA RunFailsAgainSafe ==
  ASSUME MemoryInv, RunFailsAgain, NEW h, h = Head(ready)
  PROVE  /\ MemoryInv'
         /\ \/ Attempts(deque)' = Attempts(deque) \cup {<<h.ticket, h.attempt + 1>>}
               /\ overflowed' = overflowed
            \/ deque' = deque /\ overflowed' = overflowed \cup {h.ticket}
<1>1. /\ loop = "run" /\ h.attempt + 1 < MemoryAttempts
      /\ UNCHANGED <<accepted, refused, succeeded, exhausted, raises>>
  BY DEF RunFailsAgain, NextAttempt
<1>2. Takes(h)
  BY NextEntryTakes DEF RunFailsAgain
<1>3. CASE deque' = deque /\ overflowed' = overflowed \cup {h.ticket}
  <2>1. MemoryTypeOK'
    BY <1>1, <1>2, <1>3 DEF MemoryInv, MemoryTypeOK, Takes
  <2>2. PlaceOK'
    BY <1>1, <1>2, <1>3 DEF MemoryInv, PlaceOK, Takes, Lost
  <2> QED
    BY <1>3, <2>1, <2>2 DEF MemoryInv
<1>4. CASE ~Full /\ deque' = Pushed(h.ticket, h.attempt + 1) /\ overflowed' = overflowed
  <2>1. h.attempt + 1 \in 0..MemoryAttempts-1 /\ h.ticket \in MemoryTicket
    <3>1. h.attempt \in 0..MemoryAttempts-1 /\ h.ticket \in MemoryTicket
      BY <1>2 DEF Takes
    <3> QED
      BY <1>1, <3>1, MemoryAssumption
  <2>2. PICK e \in PendingRetry : e = [ticket |-> h.ticket, attempt |-> h.attempt + 1, due |-> FALSE]
    <3>1. [ticket |-> h.ticket, attempt |-> h.attempt + 1, due |-> FALSE] \in PendingRetry
      BY <2>1 DEF PendingRetry
    <3> QED
      BY <3>1
  <2>3. e.ticket = h.ticket /\ e.attempt = h.attempt + 1
    BY <2>2
  <2>4. PICK d : d = Append(deque, e)
    OBVIOUS
  <2>5. /\ deque \in Seq(PendingRetry) /\ Len(deque) \in Nat /\ Len(deque) < MaxQueueSize
        /\ Distinct(deque) /\ h.ticket \notin TicketsIn(deque)
    <3>1. deque \in Seq(PendingRetry) /\ Len(deque) \in Nat
      BY DEF MemoryInv, MemoryTypeOK
    <3> QED
      BY <1>2, <1>4, <3>1, MemoryAssumption DEF Full, MemoryInv, PlaceOK, Takes
  <2>6. deque' = d
    BY <1>4, <2>2, <2>4 DEF Pushed
  <2>7. /\ d \in Seq(PendingRetry) /\ Len(d) = Len(deque) + 1 /\ Distinct(d)
        /\ TicketsIn(d) = TicketsIn(deque) \cup {h.ticket}
        /\ Attempts(d) = Attempts(deque) \cup {<<h.ticket, h.attempt + 1>>}
    BY <2>3, <2>4, <2>5, AppendKeeps
  <2>8. Len(d) <= MaxQueueSize
    BY <2>5, <2>7, MemoryAssumption
  <2>9. MemoryTypeOK'
    BY <1>1, <1>2, <1>4, <2>6, <2>7, <2>8 DEF MemoryInv, MemoryTypeOK, Takes
  <2>10. PlaceOK'
    BY <1>1, <1>2, <1>4, <2>6, <2>7 DEF MemoryInv, PlaceOK, Takes, Lost
  <2> QED
    BY <1>4, <2>6, <2>7, <2>9, <2>10 DEF MemoryInv
<1> QED
  BY <1>3, <1>4 DEF RunFailsAgain, NextAttempt

(* An error of the callback, or the end of the process, forgets what is in   *)
(* ready.                                                                    *)
LEMMA ForgottenSafe ==
  ASSUME MemoryInv, ExhaustCallbackRaises \/ Stop
  PROVE  MemoryInv' /\ ready' = << >> /\ loop' # "run" /\ UNCHANGED <<deque, history>>
<1>1. /\ ready' = << >> /\ UNCHANGED <<deque, history>> /\ loop' \in {"poll", "stopped"}
      /\ raises' \in 0..MaxRaises
  BY MemoryAssumption DEF ExhaustCallbackRaises, Stop, MemoryInv, MemoryTypeOK
<1>2. Lost'
  BY MemoryAssumption DEF ExhaustCallbackRaises, Stop, Lost, MemoryInv, MemoryTypeOK
<1>3. TicketsIn(deque)' = TicketsIn(deque) /\ Distinct(deque)' /\ TicketsIn(ready)' = {} /\ Distinct(ready)'
  BY <1>1 DEF MemoryInv, PlaceOK, TicketsIn, Distinct
<1>4. MemoryTypeOK'
  BY <1>1 DEF MemoryInv, MemoryTypeOK, history
<1>5. PlaceOK'
  BY <1>1, <1>2, <1>3 DEF MemoryInv, PlaceOK, history
<1> QED
  BY <1>1, <1>4, <1>5 DEF MemoryInv

(* One step per action: the invariant is kept.                               *)
LEMMA MemoryStep == MemoryInv /\ [MemoryNext]_memoryVars => MemoryInv'
<1> SUFFICES ASSUME MemoryInv, [MemoryNext]_memoryVars PROVE MemoryInv'
  OBVIOUS
<1>1. CASE UNCHANGED memoryVars
  <2>1. MemoryTypeOK'
    BY <1>1 DEF memoryVars, history, MemoryInv, MemoryTypeOK
  <2>2. PlaceOK'
    BY <1>1 DEF memoryVars, history, MemoryInv, PlaceOK, Lost
  <2> QED
    BY <2>1, <2>2 DEF MemoryInv
<1>2. ASSUME RunFailsAgain PROVE MemoryInv'
  BY <1>2, RunFailsAgainSafe
<1> QED
  BY <1>1, <1>2, EnqueueSafe, ElapseSafe, DrainSafe,
     RunFirstSafe, RunSucceedsSafe, RunExhaustsSafe, ForgottenSafe
  DEF MemoryNext

(* The invariant holds in every state.                                       *)
LEMMA MemoryInvariant == MemorySpec => []MemoryInv
  BY MemoryStarts, MemoryStep, PTL DEF MemorySpec

(* The deque, what the loop has taken and the outcomes keep their shape, for *)
(* any number of retries and any limits.                                     *)
THEOREM MemoryTyped == MemorySpec => []MemoryTypeOK
  BY MemoryInvariant, PTL DEF MemoryInv

(* OnePlace: a retry is in the deque, in the list being run, settled or      *)
(* turned away at the limit, and in one of these places only; unless an      *)
(* error or stop() lost it, an accepted retry is in one of them.             *)
THEOREM OnePlaceCorrect == MemorySpec => []OnePlace
<1>1. MemoryInv => OnePlace
  <2> SUFFICES ASSUME MemoryInv PROVE OnePlace
    OBVIOUS
  <2> DEFINE places == <<TicketsIn(deque), TicketsIn(ready), succeeded, exhausted, overflowed>>
  <2>1. \A i, j \in DOMAIN places : i # j => places[i] \cap places[j] = {}
    BY DEF MemoryInv, PlaceOK
  <2>2. Len(deque) = Cardinality(TicketsIn(deque)) /\ Len(ready) = Cardinality(TicketsIn(ready))
    BY DistinctCount DEF MemoryInv, PlaceOK, MemoryTypeOK
  <2>3. UNION ToSet(places) = TicketsIn(deque) \cup TicketsIn(ready)
                \cup succeeded \cup exhausted \cup overflowed
    BY DEF ToSet
  <2>4. raises = MaxRaises /\ loop # "stopped" => accepted = UNION ToSet(places)
    BY <2>3 DEF MemoryInv, PlaceOK, Lost
  <2> QED
    BY <2>1, <2>2, <2>4 DEF OnePlace
<1> QED
  BY <1>1, MemoryInvariant, PTL

----------------------------------------------------------------------------
(* What the policy sees of a retry *)

(* The attempts that are still to be made.                                   *)
Outstanding == Attempts(deque) \cup Attempts(ready)

(* How a ticket looks without an attempt to be made.                         *)
PhaseAfter(t) ==
    IF t \in succeeded THEN "succeeded"
    ELSE IF t \in exhausted THEN "exhausted"
    ELSE IF t \in refused THEN "refused"
    ELSE IF t \in accepted THEN "dropped"
    ELSE "none"

(* A ticket has one attempt at a time.                                       *)
LEMMA OneAttempt ==
  ASSUME MemoryInv, NEW e \in ToSet(deque) \cup ToSet(ready), NEW f \in ToSet(deque) \cup ToSet(ready),
         e.ticket = f.ticket
  PROVE  e.attempt = f.attempt
<1>1. ASSUME NEW s \in Seq(PendingRetry), Distinct(s), e \in ToSet(s), f \in ToSet(s) PROVE e = f
  BY <1>1 DEF ToSet, Distinct
<1>2. deque \in Seq(PendingRetry) /\ ready \in Seq(PendingRetry) /\ Distinct(deque) /\ Distinct(ready)
  BY DEF MemoryInv, MemoryTypeOK, PlaceOK
<1>3. ASSUME NEW d \in ToSet(deque), NEW r \in ToSet(ready) PROVE d.ticket # r.ticket
  <2>1. d.ticket \in TicketsIn(deque) /\ r.ticket \in TicketsIn(ready)
    BY DEF ToSet, TicketsIn
  <2> QED
    BY <2>1 DEF MemoryInv, PlaceOK
<1> QED
  BY <1>1, <1>2, <1>3

(* The same, entry by entry, as EntryOf asks for it.                         *)
LEMMA OutstandingIs ==
  \A t, n : <<t, n>> \in Outstanding <=>
        \E e \in ToSet(deque) \cup ToSet(ready) : e.ticket = t /\ e.attempt = n
  BY DEF Outstanding, Attempts, ToSet

(* What runs is what the loop has taken.                                     *)
LEMMA RunningIn == ASSUME MemoryInv PROVE Running \subseteq TicketsIn(ready)
<1>1. CASE loop = "run"
  <2>1. ready \in Seq(PendingRetry) /\ ready # << >>
    BY <1>1 DEF MemoryInv, MemoryTypeOK
  <2>2. Head(ready).ticket \in TicketsIn(ready)
    BY <2>1 DEF TicketsIn
  <2> QED
    BY <1>1, <2>2 DEF Running
<1> QED
  BY <1>1 DEF Running

(* EntryOf, read off the lists.                                              *)
Described ==
    MemoryInv =>
      \A t :
        /\ \A n : <<t, n>> \in Outstanding =>
              EntryOf(t) = [phase |-> IF t \in Running THEN "running" ELSE "waiting", attempt |-> n]
        /\ (\A n : <<t, n>> \notin Outstanding)
              => t \notin Running /\ EntryOf(t) = [phase |-> PhaseAfter(t), attempt |-> 0]

(* EntryOf is as described.                                                  *)
LEMMA EntryDescribed == Described
<1> SUFFICES ASSUME MemoryInv, NEW t
             PROVE  /\ \A n : <<t, n>> \in Outstanding =>
                         EntryOf(t) = [phase |-> IF t \in Running THEN "running" ELSE "waiting",
                                       attempt |-> n]
                    /\ (\A n : <<t, n>> \notin Outstanding) =>
                         t \notin Running /\ EntryOf(t) = [phase |-> PhaseAfter(t), attempt |-> 0]
  BY DEF Described
<1>1. t \in TicketsIn(deque) \cup TicketsIn(ready) <=> \E n : <<t, n>> \in Outstanding
  BY DEF TicketsIn, Outstanding, Attempts
<1>2. t \in TicketsIn(deque) \cup TicketsIn(ready) <=> t \in Running \/ t \in Waiting
  BY RunningIn DEF Waiting
<1>3. ASSUME NEW n, <<t, n>> \in Outstanding
      PROVE  EntryOf(t) = [phase |-> IF t \in Running THEN "running" ELSE "waiting", attempt |-> n]
  <2>1. PICK e \in ToSet(deque) \cup ToSet(ready) : e.ticket = t /\ e.attempt = n
    BY <1>3, OutstandingIs
  <2>2. PICK f : f = CHOOSE e1 \in ToSet(deque) \cup ToSet(ready) : e1.ticket = t
    OBVIOUS
  <2>3. f \in ToSet(deque) \cup ToSet(ready) /\ f.ticket = t
    BY <2>1, <2>2
  <2>4. AttemptOf(t) = n
    BY <2>1, <2>2, <2>3, OneAttempt DEF AttemptOf
  <2> QED
    BY <1>1, <1>2, <1>3, <2>4 DEF EntryOf
<1>4. ASSUME \A n : <<t, n>> \notin Outstanding
      PROVE  t \notin Running /\ EntryOf(t) = [phase |-> PhaseAfter(t), attempt |-> 0]
  BY <1>1, <1>2, <1>4 DEF EntryOf, PhaseAfter
<1> QED
  BY <1>3, <1>4

(* The same of the next state.                                               *)
LEMMA EntryDescribedNext == Described'
  BY EntryDescribed, PTL

(* A ticket that no step touches looks the same.                             *)
SameFor(t) ==
    /\ \A n : <<t, n>> \in Outstanding' <=> <<t, n>> \in Outstanding
    /\ t \in Running' <=> t \in Running
    /\ PhaseAfter(t)' = PhaseAfter(t)

(* A ticket that looks the same to the lists looks the same to the policy.   *)
LEMMA EntrySame == ASSUME MemoryInv, MemoryInv', NEW t, SameFor(t) PROVE EntryOf(t)' = EntryOf(t)
<1>1. CASE \A n : <<t, n>> \notin Outstanding
  <2>1. \A n : <<t, n>> \notin Outstanding'
    BY <1>1 DEF SameFor
  <2>2. EntryOf(t) = [phase |-> PhaseAfter(t), attempt |-> 0]
    BY <1>1, EntryDescribed DEF Described
  <2>3. EntryOf(t)' = [phase |-> PhaseAfter(t)', attempt |-> 0]
    BY <2>1, EntryDescribedNext DEF Described
  <2> QED
    BY <2>2, <2>3 DEF SameFor
<1>2. ASSUME NEW n, <<t, n>> \in Outstanding PROVE EntryOf(t)' = EntryOf(t)
  <2>1. <<t, n>> \in Outstanding'
    BY <1>2 DEF SameFor
  <2>2. EntryOf(t) = [phase |-> IF t \in Running THEN "running" ELSE "waiting", attempt |-> n]
    BY <1>2, EntryDescribed DEF Described
  <2>3. EntryOf(t)' = [phase |-> IF t \in Running' THEN "running" ELSE "waiting", attempt |-> n]
    BY <2>1, EntryDescribedNext DEF Described
  <2> QED
    BY <2>2, <2>3 DEF SameFor
<1> QED
  BY <1>1, <1>2

(* If every ticket does, the policy sees nothing.                            *)
LEMMA EntriesStay ==
  ASSUME MemoryInv, MemoryInv', Outstanding' = Outstanding, Running' = Running, UNCHANGED history
  PROVE  Entries' = Entries
<1>1. \A t \in MemoryTicket : SameFor(t)
  BY DEF SameFor, PhaseAfter, history
<1>2. \A t \in MemoryTicket : EntryOf(t)' = EntryOf(t)
  BY <1>1, EntrySame
<1> QED
  BY <1>2 DEF Entries

(* If one ticket does not, the policy sees a change of that one.             *)
LEMMA EntriesBut ==
  ASSUME MemoryInv, MemoryInv', NEW t \in MemoryTicket, \A u \in MemoryTicket \ {t} : SameFor(u)
  PROVE  Entries' = [Entries EXCEPT ![t] = EntryOf(t)'] /\ Entries[t] = EntryOf(t)
<1>1. \A u \in MemoryTicket \ {t} : EntryOf(u)' = EntryOf(u)
  BY EntrySame
<1>2. \A u \in MemoryTicket : EntryOf(u)' = IF u = t THEN EntryOf(t)' ELSE EntryOf(u)
  BY <1>1
<1> QED
  BY <1>2 DEF Entries

----------------------------------------------------------------------------
(* Each step is one of the policy *)

(* An attempt to be made is in one of the lists.                             *)
LEMMA OutstandingIn ==
  ASSUME MemoryInv, NEW t, NEW n, <<t, n>> \in Outstanding PROVE t \in TicketsIn(deque) \cup TicketsIn(ready)
  BY DEF Outstanding, Attempts, TicketsIn

(* enqueue is the policy's Accept, or its Refuse at the limit.               *)
LEMMA EnqueueIsPolicy ==
  ASSUME MemoryInv, NEW t \in MemoryTicket, EnqueueInMemory(t)
  PROVE  Policy!Accept(t) \/ Policy!Refuse(t)
<1>1. MemoryInv'
  BY EnqueueSafe
<1>2. /\ t \notin accepted \cup refused /\ UNCHANGED <<ready, loop, succeeded, exhausted>>
      /\ t \notin succeeded \cup exhausted
  BY DEF EnqueueInMemory, MemoryInv, MemoryTypeOK
<1>3. Running' = Running /\ Attempts(ready)' = Attempts(ready)
  BY <1>2 DEF Running
<1>4. \A n : <<t, n>> \notin Outstanding
  BY <1>2, OutstandingIn DEF MemoryInv, PlaceOK
<1>5. t \notin Running /\ EntryOf(t) = [phase |-> "none", attempt |-> 0]
  BY <1>2, <1>4, EntryDescribed DEF Described, PhaseAfter
<1>6. CASE Attempts(deque)' = Attempts(deque) \cup {<<t, 0>>}
           /\ accepted' = accepted \cup {t} /\ refused' = refused
  <2>1. Outstanding' = Outstanding \cup {<<t, 0>>}
    BY <1>3, <1>6 DEF Outstanding
  <2>2. ASSUME NEW u \in MemoryTicket \ {t} PROVE SameFor(u)
    BY <1>2, <1>3, <1>6, <2>1 DEF SameFor, PhaseAfter
  <2>3. EntryOf(t)' = [phase |-> "waiting", attempt |-> 0]
    BY <1>1, <1>3, <1>5, <2>1, EntryDescribedNext DEF Described
  <2>4. Policy!Accept(t)
    BY <1>1, <1>5, <2>2, <2>3, EntriesBut DEF Policy!Accept, Policy!In
  <2> QED
    BY <2>4
<1>7. CASE Attempts(deque)' = Attempts(deque) /\ accepted' = accepted /\ refused' = refused \cup {t}
  <2>1. Outstanding' = Outstanding
    BY <1>3, <1>7 DEF Outstanding
  <2>2. ASSUME NEW u \in MemoryTicket \ {t} PROVE SameFor(u)
    BY <1>2, <1>3, <1>7, <2>1 DEF SameFor, PhaseAfter
  <2>3. PhaseAfter(t)' = "refused"
    BY <1>2, <1>7 DEF PhaseAfter
  <2>4. EntryOf(t)' = [phase |-> "refused", attempt |-> 0]
    BY <1>1, <1>4, <2>1, <2>3, EntryDescribedNext DEF Described
  <2>5. Policy!Refuse(t)
    BY <1>1, <1>5, <2>2, <2>4, EntriesBut DEF Policy!Refuse, Policy!In
  <2> QED
    BY <2>5
<1> QED
  BY <1>6, <1>7, EnqueueSafe

(* The policy does not see that an entry becomes due, or that the loop takes *)
(* it.                                                                       *)
LEMMA HiddenSteps ==
  ASSUME MemoryInv, Drain \/ \E i \in DOMAIN deque : Elapse(i)
  PROVE  Entries' = Entries
<1>1. MemoryInv' /\ UNCHANGED history
  BY DrainSafe, ElapseSafe DEF Drain, Elapse
<1>2. CASE Drain
  <2>1. Outstanding' = Outstanding
    BY <1>2, DrainSafe DEF Outstanding
  <2>2. Running' = Running
    BY <1>2 DEF Drain, Running
  <2> QED
    BY <1>1, <2>1, <2>2, EntriesStay
<1>3. ASSUME NEW i \in DOMAIN deque, Elapse(i) PROVE Entries' = Entries
  <2>1. Attempts(deque)' = Attempts(deque) /\ ready' = ready /\ loop' = loop
    BY <1>3, ElapseSafe DEF Elapse
  <2>2. Outstanding' = Outstanding
    BY <2>1 DEF Outstanding
  <2>3. Running' = Running
    BY <2>1 DEF Running
  <2> QED
    BY <1>1, <2>2, <2>3, EntriesStay
<1> QED
  BY <1>2, <1>3

(* The run of the first entry is the policy's Start.                         *)
LEMMA RunFirstIsStart ==
  ASSUME MemoryInv, RunFirst
  PROVE  \E t \in MemoryTicket : Policy!Start(t)
<1>1. /\ MemoryInv' /\ UNCHANGED <<deque, ready, history>> /\ loop = "next" /\ loop' = "run"
      /\ ready \in Seq(PendingRetry) /\ ready # << >>
  BY RunFirstSafe DEF RunFirst, MemoryInv, MemoryTypeOK
<1>2. PICK h \in PendingRetry : h = Head(ready) /\ h = ready[1] /\ 1 \in DOMAIN ready
  BY <1>1
<1>3. PICK t \in MemoryTicket : t = h.ticket
  BY DEF PendingRetry
<1>4. PICK n : n = h.attempt
  OBVIOUS
<1>5. <<t, n>> \in Outstanding /\ Outstanding' = Outstanding
  BY <1>1, <1>2, <1>3, <1>4 DEF Outstanding, Attempts
<1>6. Running = {} /\ Running' = {t}
  BY <1>1, <1>2, <1>3 DEF Running
<1>7. EntryOf(t) = [phase |-> "waiting", attempt |-> n]
  BY <1>5, <1>6, EntryDescribed DEF Described
<1>8. EntryOf(t)' = [phase |-> "running", attempt |-> n]
  BY <1>1, <1>5, <1>6, EntryDescribedNext DEF Described
<1>9. ASSUME NEW u \in MemoryTicket \ {t} PROVE SameFor(u)
  BY <1>1, <1>5, <1>6 DEF SameFor, PhaseAfter, history
<1>10. PICK e, f : e = Entries[t] /\ f = EntryOf(t)'
  OBVIOUS
<1>11. Entries' = [Entries EXCEPT ![t] = f] /\ e = EntryOf(t)
  BY <1>1, <1>9, <1>10, EntriesBut
<1>12. [e EXCEPT !.phase = "running"] = f /\ e.phase = "waiting"
  BY <1>7, <1>8, <1>10, <1>11
<1>13. [Entries EXCEPT ![t].phase = "running"] = [Entries EXCEPT ![t] = f]
  BY <1>10, <1>12
<1>14. Policy!Start(t)
  BY <1>10, <1>11, <1>12, <1>13 DEF Policy!Start
<1> QED
  BY <1>14

(* The entry that is run.                                                    *)
LEMMA RunningEntry ==
  ASSUME MemoryInv, loop = "run", NextEntry, NEW h, h = Head(ready)
  PROVE  /\ Takes(h) /\ Running = {h.ticket} /\ Running' = {}
         /\ h.ticket \in MemoryTicket /\ h.attempt \in 0..MemoryAttempts-1
         /\ <<h.ticket, h.attempt>> \in Outstanding
         /\ EntryOf(h.ticket) = [phase |-> "running", attempt |-> h.attempt]
         /\ \A n : <<h.ticket, n>> \in Outstanding => n = h.attempt
<1>1. Takes(h) /\ Running = {h.ticket} /\ Running' = {}
  BY NextEntryTakes DEF Takes, Running
<1>2. <<h.ticket, h.attempt>> \in Outstanding
  BY <1>1 DEF Takes, Outstanding
<1>3. \A n : <<h.ticket, n>> \in Outstanding => n = h.attempt
  BY <1>2, OutstandingIs, OneAttempt
<1>4. EntryOf(h.ticket) = [phase |-> "running", attempt |-> h.attempt]
  BY <1>1, <1>2, EntryDescribed DEF Described
<1> QED
  BY <1>1, <1>2, <1>3, <1>4 DEF Takes

(* An entry that ends is in neither list any more.                           *)
LEMMA EntryEnds ==
  ASSUME MemoryInv, MemoryInv', loop = "run", NextEntry, deque' = deque, NEW h, h = Head(ready),
         \A u \in MemoryTicket \ {h.ticket} : PhaseAfter(u)' = PhaseAfter(u)
  PROVE  /\ EntryOf(h.ticket)' = [phase |-> PhaseAfter(h.ticket)', attempt |-> 0]
         /\ Entries[h.ticket] = [phase |-> "running", attempt |-> h.attempt]
         /\ Entries' = [Entries EXCEPT ![h.ticket] = [phase |-> PhaseAfter(h.ticket)', attempt |-> 0]]
<1>1. PICK t : t = h.ticket
  OBVIOUS
<1>2. /\ Takes(h) /\ Running = {t} /\ Running' = {} /\ t \in MemoryTicket
      /\ EntryOf(t) = [phase |-> "running", attempt |-> h.attempt]
      /\ \A n : <<t, n>> \in Outstanding => n = h.attempt
  BY <1>1, RunningEntry
<1>3. Attempts(ready') = Attempts(ready) \ {<<t, h.attempt>>}
  BY <1>1, <1>2 DEF Takes
<1>4. <<t, h.attempt>> \notin Attempts(deque)
  <2>1. t \notin TicketsIn(deque)
    BY <1>1, <1>2 DEF Takes
  <2> QED
    BY <2>1 DEF Attempts, TicketsIn
<1>5. Outstanding' = Outstanding \ {<<t, h.attempt>>}
  BY <1>3, <1>4 DEF Outstanding
<1>6. \A n : <<t, n>> \notin Outstanding'
  BY <1>2, <1>5
<1>7. EntryOf(t)' = [phase |-> PhaseAfter(t)', attempt |-> 0]
  BY <1>6, EntryDescribedNext DEF Described
<1>8. ASSUME NEW u \in MemoryTicket \ {t} PROVE SameFor(u)
  BY <1>1, <1>2, <1>5 DEF SameFor
<1>9. Entries' = [Entries EXCEPT ![t] = EntryOf(t)'] /\ Entries[t] = EntryOf(t)
  BY <1>2, <1>8, EntriesBut
<1>10. Entries' = [Entries EXCEPT ![t] = [phase |-> PhaseAfter(t)', attempt |-> 0]]
  BY <1>7, <1>9
<1> QED
  BY <1>1, <1>2, <1>7, <1>9, <1>10

(* A success is the policy's Succeed.                                        *)
LEMMA RunSucceedsIsSucceed ==
  ASSUME MemoryInv, RunSucceeds
  PROVE  \E t \in MemoryTicket : Policy!Succeed(t)
<1>1. PICK h : h = Head(ready)
  OBVIOUS
<1>2. /\ MemoryInv' /\ loop = "run" /\ NextEntry /\ deque' = deque
      /\ succeeded' = succeeded \cup {h.ticket} /\ UNCHANGED <<accepted, refused, exhausted>>
  BY <1>1, RunSucceedsSafe DEF RunSucceeds
<1>3. PICK t \in MemoryTicket : t = h.ticket
  BY <1>1, <1>2, RunningEntry
<1>4. PhaseAfter(t)' = "succeeded" /\ \A u \in MemoryTicket \ {t} : PhaseAfter(u)' = PhaseAfter(u)
  BY <1>2, <1>3 DEF PhaseAfter
<1>5. Entries[t] = [phase |-> "running", attempt |-> h.attempt]
      /\ Entries' = [Entries EXCEPT ![t] = [phase |-> "succeeded", attempt |-> 0]]
  BY <1>1, <1>2, <1>3, <1>4, EntryEnds
<1>6. Policy!Succeed(t)
  BY <1>5 DEF Policy!Succeed, Policy!In
<1> QED
  BY <1>6

(* The last failure is the policy's Exhaust.                                 *)
LEMMA RunExhaustsIsExhaust ==
  ASSUME MemoryInv, RunExhausts
  PROVE  \E t \in MemoryTicket : Policy!Exhaust(t)
<1>1. PICK h : h = Head(ready)
  OBVIOUS
<1>2. /\ MemoryInv' /\ loop = "run" /\ NextEntry /\ deque' = deque /\ h.attempt + 1 >= MemoryAttempts
      /\ exhausted' = exhausted \cup {h.ticket} /\ UNCHANGED <<accepted, refused, succeeded>>
  BY <1>1, RunExhaustsSafe DEF RunExhausts, NextAttempt
<1>3. PICK t \in MemoryTicket : t = h.ticket
  BY <1>1, <1>2, RunningEntry
<1>4. t \notin succeeded
  BY <1>1, <1>2, <1>3, RunningEntry DEF Takes
<1>5. PhaseAfter(t)' = "exhausted" /\ \A u \in MemoryTicket \ {t} : PhaseAfter(u)' = PhaseAfter(u)
  BY <1>2, <1>3, <1>4 DEF PhaseAfter
<1>6. /\ Entries[t] = [phase |-> "running", attempt |-> h.attempt]
      /\ Entries' = [Entries EXCEPT ![t] = [phase |-> "exhausted", attempt |-> 0]]
  BY <1>1, <1>2, <1>3, <1>5, EntryEnds
<1>7. h.attempt \in 0..MemoryAttempts-1
  BY <1>1, <1>2, RunningEntry
<1>8. h.attempt + 1 = MemoryAttempts
  BY <1>2, <1>7, MemoryAssumption
<1>9. Policy!Exhaust(t)
  BY <1>6, <1>8 DEF Policy!Exhaust, Policy!In
<1> QED
  BY <1>9

(* A further attempt is the policy's Again; at the limit of the deque the    *)
(* retry is dropped.                                                         *)
LEMMA RunFailsIsAgainOrDrop ==
  ASSUME MemoryInv, RunFailsAgain
  PROVE  \E t \in MemoryTicket : Policy!Again(t) \/ Policy!Drop({t})
<1>1. PICK h : h = Head(ready)
  OBVIOUS
<1>2. /\ MemoryInv' /\ loop = "run" /\ NextEntry /\ h.attempt + 1 < MemoryAttempts
      /\ UNCHANGED <<accepted, refused, succeeded, exhausted>>
  BY <1>1, RunFailsAgainSafe DEF RunFailsAgain, NextAttempt
<1>3. PICK t \in MemoryTicket : t = h.ticket
  BY <1>1, <1>2, RunningEntry
<1>4. /\ Takes(h) /\ Running = {t} /\ Running' = {}
      /\ EntryOf(t) = [phase |-> "running", attempt |-> h.attempt]
      /\ \A n : <<t, n>> \in Outstanding => n = h.attempt
  BY <1>1, <1>2, <1>3, RunningEntry
<1>5. \A u \in MemoryTicket : PhaseAfter(u)' = PhaseAfter(u)
  BY <1>2 DEF PhaseAfter
<1>6. CASE deque' = deque
  <2>1. PhaseAfter(t)' = "dropped"
    BY <1>3, <1>4, <1>5 DEF PhaseAfter, Takes, MemoryInv, PlaceOK
  <2>2. /\ Entries[t] = [phase |-> "running", attempt |-> h.attempt]
        /\ Entries' = [Entries EXCEPT ![t] = [phase |-> "dropped", attempt |-> 0]]
    BY <1>1, <1>2, <1>3, <1>5, <1>6, <2>1, EntryEnds
  <2>3. Entries' = [u \in MemoryTicket |->
            IF u \in {t} THEN [phase |-> "dropped", attempt |-> 0] ELSE Entries[u]]
    BY <2>2 DEF Entries
  <2>4. \A u \in {t} : Policy!Alive(u)
    BY <2>2 DEF Policy!Alive
  <2>5. Policy!Drop({t})
    BY <2>3, <2>4 DEF Policy!Drop, Policy!In
  <2> QED
    BY <2>5
<1>7. CASE Attempts(deque)' = Attempts(deque) \cup {<<t, h.attempt + 1>>}
  <2>1. Outstanding' = (Attempts(deque) \cup {<<t, h.attempt + 1>>})
                \cup (Attempts(ready) \ {<<t, h.attempt>>})
    BY <1>3, <1>4, <1>7 DEF Outstanding, Takes
  <2>2. <<t, h.attempt + 1>> \in Outstanding'
    BY <2>1
  <2>3. ASSUME NEW u \in MemoryTicket \ {t} PROVE SameFor(u)
    BY <1>4, <1>5, <2>1 DEF SameFor, Outstanding
  <2>4. EntryOf(t)' = [phase |-> "waiting", attempt |-> h.attempt + 1]
    BY <1>2, <1>4, <2>2, EntryDescribedNext DEF Described
  <2>5. Entries' = [Entries EXCEPT ![t] = EntryOf(t)'] /\ Entries[t] = EntryOf(t)
    BY <1>2, <2>3, EntriesBut
  <2>6. Policy!Again(t)
    BY <1>2, <1>4, <2>4, <2>5 DEF Policy!Again
  <2> QED
    BY <2>6
<1> QED
  BY <1>1, <1>3, <1>6, <1>7, RunFailsAgainSafe

(* The entries of ready that are forgotten are dropped, all at once.         *)
LEMMA ForgottenIsDrop ==
  ASSUME MemoryInv, ExhaustCallbackRaises \/ Stop
  PROVE  Entries' = Entries \/ \E S \in SUBSET MemoryTicket : Policy!Drop(S)
<1>1. MemoryInv' /\ ready' = << >> /\ loop' # "run" /\ UNCHANGED <<deque, history>>
  BY ForgottenSafe
<1> DEFINE S == TicketsIn(ready)
<1>2. Attempts(ready') = {} /\ Running' = {} /\ Outstanding' = Attempts(deque)
  BY <1>1 DEF Attempts, Running, Outstanding
<1>3. S \subseteq MemoryTicket
  BY TicketsInType DEF MemoryInv, MemoryTypeOK
<1>4. ASSUME NEW u \in MemoryTicket, u \notin S PROVE EntryOf(u)' = EntryOf(u)
  <2>1. \A n : <<u, n>> \notin Attempts(ready)
    BY <1>4 DEF Attempts, TicketsIn
  <2>2. u \notin Running
    BY <1>4, RunningIn
  <2>3. SameFor(u)
    BY <1>1, <1>2, <2>1, <2>2 DEF SameFor, Outstanding, PhaseAfter, history
  <2> QED
    BY <1>1, <2>3, EntrySame
<1>5. ASSUME NEW u \in S
      PROVE  EntryOf(u)' = [phase |-> "dropped", attempt |-> 0] /\ EntryOf(u).phase \in {"waiting", "running"}
  <2>1. u \notin TicketsIn(deque) /\ u \in accepted \ (succeeded \cup exhausted \cup refused)
    BY DEF MemoryInv, PlaceOK
  <2>2. \A n : <<u, n>> \notin Outstanding'
    BY <1>2, <2>1 DEF Attempts, TicketsIn
  <2>3. PhaseAfter(u)' = "dropped"
    BY <1>1, <2>1 DEF PhaseAfter, history
  <2>4. EntryOf(u)' = [phase |-> "dropped", attempt |-> 0]
    BY <1>1, <2>2, <2>3, EntryDescribedNext DEF Described
  <2>5. PICK n : <<u, n>> \in Outstanding
    BY DEF Outstanding, Attempts, TicketsIn
  <2> QED
    BY <2>4, <2>5, EntryDescribed DEF Described
<1> HIDE DEF S
<1>6. CASE S = {}
  BY <1>4, <1>6 DEF Entries
<1>7. CASE S # {}
  <2>1. \A u \in S : Policy!Alive(u)
    BY <1>3, <1>5 DEF Policy!Alive, Entries
  <2>2. \A u \in MemoryTicket : EntryOf(u)' =
            IF u \in S THEN [phase |-> "dropped", attempt |-> 0] ELSE Entries[u]
    BY <1>4, <1>5 DEF Entries
  <2>3. Entries' = [u \in MemoryTicket |->
            IF u \in S THEN [phase |-> "dropped", attempt |-> 0] ELSE Entries[u]]
    BY <2>2 DEF Entries
  <2>4. Policy!Drop(S)
    BY <1>7, <2>1, <2>3 DEF Policy!Drop, Policy!In
  <2> QED
    BY <1>3, <2>4
<1> QED
  BY <1>6, <1>7

(* Every step is one of the policy, or one it does not see.                  *)
LEMMA MemoryStepIsPolicy ==
  ASSUME MemoryInv, [MemoryNext]_memoryVars
  PROVE  Policy!Next \/ Entries' = Entries
<1>1. CASE UNCHANGED memoryVars
  <2>1. MemoryInv' /\ UNCHANGED <<deque, ready, loop, history>>
    BY <1>1, MemoryStep DEF memoryVars
  <2>2. Outstanding' = Outstanding /\ Running' = Running
    BY <2>1 DEF Outstanding, Running
  <2> QED
    BY <2>1, <2>2, EntriesStay
<1>2. ASSUME NEW t \in MemoryTicket, Policy!Drop({t}) PROVE Policy!Next
  <2>1. {t} \in SUBSET MemoryTicket
    OBVIOUS
  <2> QED
    BY <1>2, <2>1 DEF Policy!Next
<1>3. CASE RunFailsAgain
  BY <1>2, <1>3, RunFailsIsAgainOrDrop DEF Policy!Next
<1>4. CASE ExhaustCallbackRaises \/ Stop
  BY <1>4, ForgottenIsDrop DEF Policy!Next
<1>5. ASSUME NEW t \in MemoryTicket, EnqueueInMemory(t) PROVE Policy!Next
  BY <1>5, EnqueueIsPolicy DEF Policy!Next
<1>6. CASE RunFirst \/ RunSucceeds \/ RunExhausts
  BY <1>6, RunFirstIsStart, RunSucceedsIsSucceed, RunExhaustsIsExhaust DEF Policy!Next
<1> QED
  BY <1>1, <1>3, <1>4, <1>5, <1>6, HiddenSteps DEF MemoryNext

(* The queue starts as the policy does.                                      *)
LEMMA MemoryStartsAsPolicy == ASSUME MemoryInit PROVE Policy!Init
<1>1. MemoryInv
  BY MemoryStarts
<1>2. \A t, n : <<t, n>> \notin Outstanding
  BY DEF MemoryInit, Outstanding, Attempts
<1>3. \A t \in MemoryTicket : EntryOf(t) = [phase |-> "none", attempt |-> 0]
  BY <1>1, <1>2, EntryDescribed DEF Described, MemoryInit, PhaseAfter
<1> QED
  BY <1>3 DEF Policy!Init, Policy!In, Entries

(* RefinesPolicy: the in-memory queue does to each retry what RetryPolicy    *)
(* allows: attempts one by one, no run after the end, no more runs than      *)
(* attempts.                                                                 *)
THEOREM MemoryRefinesPolicy == MemorySpec => RefinesPolicy
<1>1. MemoryInv /\ [MemoryNext]_memoryVars => [Policy!Next]_Entries
  BY MemoryStepIsPolicy
<1>2. MemoryInit => Policy!Init
  BY MemoryStartsAsPolicy
<1> QED
  BY <1>1, <1>2, MemoryInvariant, PTL DEF MemorySpec, RefinesPolicy, Policy!Spec

----------------------------------------------------------------------------
(* Both queues side by side *)

(* A step of one queue changes no variable of the other, so each behaves as  *)
(* its own specification says.                                               *)
LEMMA EachQueueRuns == QueuesSpec => Spec /\ MemorySpec
<1>1. QueuesInit => Init /\ MemoryInit
  BY DEF QueuesInit
<1>2. [QueuesNext]_queueVars => [Next]_vars /\ [MemoryNext]_memoryVars
  BY DEF QueuesNext, LeadsRun, RetriesRun, queueVars
<1> QED
  BY <1>1, <1>2, PTL DEF QueuesSpec, Spec, MemorySpec

(* QueuesTypeOK: the dialer's session and the retry queue keep their shape   *)
(* side by side.                                                             *)
THEOREM QueuesTyped == QueuesSpec => []QueuesTypeOK
  BY EachQueueRuns, TypeOKCorrect, MemoryTyped, PTL DEF QueuesTypeOK
=============================================================================
