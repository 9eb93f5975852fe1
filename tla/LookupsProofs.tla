--------------------------- MODULE LookupsProofs ---------------------------
(* What holds of the paid lookups for any number of requests and API keys.   *)
(* While one request alone asks the keys, the index has moved past each key  *)
(* it was given: after n tries the last n keys behind the index have been    *)
(* asked or are depleted, so after as many tries as keys all of them are.    *)
EXTENDS Lookups, WellFoundedInduction, TLAPS

\* The key n places behind the index.
Behind(n) == (keyIndex + NumKeys - n) % NumKeys

\* What a request knows that nobody disturbs.
AloneAsks(r) ==
    /\ \A s \in Busy : s = r
    /\ \A n \in 1..requests[r].tries : Behind(n) \in requests[r].asked \cup depleted

AloneInv == \A r \in Request : requests[r].alone => (r \in Busy => AloneAsks(r)) /\ ~MissedKey(r)

\* A request that waits was given a key.
WaitsForKey == \A r \in Request : requests[r].at = "waiting" => requests[r].key \in ApiKey

LookupsInv == LookupsTypeOK /\ WaitsForKey /\ CompsWithinLimit /\ AloneInv

-----------------------------------------------------------------------------
(* The least member of a set of numbers.                                     *)
LEMMA Least ==
    ASSUME NEW T, T \subseteq Nat, T # {}
    PROVE  \E n \in T : \A m \in T : n <= m
  <1>1. IsWellFoundedOn(OpToRel(<, Nat), Nat)
    BY NatLessThanWellFounded
  <1>2. PICK n \in T : \A m \in T : <<m, n>> \notin OpToRel(<, Nat)
    BY <1>1, WFMin
  <1>3. \A m \in T : ~(m < n)
    BY <1>2 DEF OpToRel
  <1> QED
    BY <1>3

(* Going round the keys once.                                                *)
LEMMA Round ==
    ASSUME NEW a \in Nat, a < 2 * NumKeys
    PROVE  a % NumKeys = IF a < NumKeys THEN a ELSE a - NumKeys
  BY LookupsAssumption

(* getNextApiKey finds a key when not all are depleted: the keys it passes   *)
(* over are depleted, its own is not.                                        *)
LEMMA FirstUsableIs ==
    ASSUME LookupsTypeOK, depleted # ApiKey
    PROVE  /\ FirstUsable \in ApiKey
           /\ Ahead(FirstUsable) \in ApiKey \ depleted
           /\ \A m \in 0..(FirstUsable - 1) : Ahead(m) \in depleted
  <1> DEFINE T == {n \in ApiKey : Ahead(n) \notin depleted}
  <1>1. ApiKey \subseteq Nat /\ keyIndex \in ApiKey /\ NumKeys \in Nat \ {0} /\ depleted \subseteq ApiKey
    BY LookupsAssumption DEF LookupsTypeOK, ApiKey
  <1>2. T # {}
    <2>1. PICK k \in ApiKey : k \notin depleted
      BY <1>1
    <2> DEFINE n == IF k >= keyIndex THEN k - keyIndex ELSE k + NumKeys - keyIndex
    <2>2. n \in ApiKey /\ keyIndex + n < 2 * NumKeys /\ keyIndex + n \in Nat
      BY <1>1 DEF ApiKey
    <2>3. Ahead(n) = k
      BY <1>1, <2>2, Round DEF Ahead, ApiKey
    <2> QED
      BY <2>1, <2>2, <2>3
  <1>3. PICK n \in T : \A m \in T : n <= m
    BY <1>1, <1>2, Least
  <1>4. \A m \in 0..(n - 1) : m \in ApiKey /\ ~(n <= m)
    BY <1>1 DEF ApiKey
  <1>5. Ahead(n) \notin depleted /\ \A m \in 0..(n - 1) : Ahead(m) \in depleted
    BY <1>3, <1>4
  <1>6. /\ FirstUsable \in ApiKey
        /\ Ahead(FirstUsable) \notin depleted
        /\ \A m \in 0..(FirstUsable - 1) : Ahead(m) \in depleted
    BY <1>5 DEF FirstUsable
  <1>7. Ahead(FirstUsable) \in ApiKey
    <2>1. PICK a \in Nat : a = keyIndex + FirstUsable /\ a < 2 * NumKeys
      BY <1>1, <1>6 DEF ApiKey
    <2>2. a % NumKeys = IF a < NumKeys THEN a ELSE a - NumKeys
      BY <2>1, Round
    <2> QED
      BY <1>1, <2>1, <2>2 DEF Ahead, ApiKey
  <1> QED
    BY <1>6, <1>7

(* The key just asked lies one behind, every other one place further.        *)
LEMMA StepsBehind ==
    ASSUME LookupsTypeOK, NEW f \in ApiKey, keyIndex' = IndexAfter(Ahead(f))
    PROVE  /\ keyIndex' \in ApiKey
           /\ f + 1 <= NumKeys => Behind(1)' = Ahead(f)
           /\ \A n \in 1..NumKeys :
                 \/ n <= f + 1 /\ \E m \in 0..f : Behind(n)' = Ahead(m)
                 \/ n > f + 1 /\ Behind(n)' = Behind(n - f - 1)
  <1> DEFINE N == NumKeys
             i == keyIndex
             j == IF i + f + 1 < N THEN i + f + 1
                  ELSE IF i + f + 1 < 2 * N THEN i + f + 1 - N ELSE 0
  <1>1. N \in Nat \ {0} /\ i \in 0..(N - 1) /\ f \in 0..(N - 1)
    BY LookupsAssumption DEF LookupsTypeOK, ApiKey
  <1>2. Ahead(f) = IF i + f < N THEN i + f ELSE i + f - N
    <2>1. PICK a \in Nat : a = i + f /\ a < 2 * N
      BY <1>1
    <2>2. a % N = IF a < N THEN a ELSE a - N
      BY <2>1, Round
    <2> QED
      BY <1>1, <2>1, <2>2 DEF Ahead
  <1>3. keyIndex' = j /\ j \in 0..(N - 1)
    <2>0. Ahead(f) + 1 \in Nat /\ Ahead(f) + 1 < 2 * N
      BY <1>1, <1>2
    <2>1. PICK a \in Nat : a = Ahead(f) + 1 /\ a < 2 * N
      BY <2>0
    <2>2. a % N = IF a < N THEN a ELSE a - N
      BY <2>1, Round
    <2> QED
      BY <1>1, <1>2, <2>1, <2>2 DEF IndexAfter
  <1>4. \A m \in 0..f : Ahead(m) = IF i + m < N THEN i + m ELSE i + m - N
    <2> SUFFICES ASSUME NEW m \in 0..f PROVE Ahead(m) = IF i + m < N THEN i + m ELSE i + m - N
      OBVIOUS
    <2>1. PICK a \in Nat : a = i + m /\ a < 2 * N
      BY <1>1
    <2>2. a % N = IF a < N THEN a ELSE a - N
      BY <2>1, Round
    <2> QED
      BY <1>1, <2>1, <2>2 DEF Ahead
  <1>5. \A n \in 1..N : Behind(n) = IF n <= i THEN i - n ELSE i + N - n
    <2> SUFFICES ASSUME NEW n \in 1..N PROVE Behind(n) = IF n <= i THEN i - n ELSE i + N - n
      OBVIOUS
    <2>1. PICK a \in Nat : a = i + N - n /\ a < 2 * N
      BY <1>1
    <2>2. a % N = IF a < N THEN a ELSE a - N
      BY <2>1, Round
    <2> QED
      BY <1>1, <2>1, <2>2 DEF Behind
  <1>6. \A n \in 1..N : Behind(n)' = IF n <= j THEN j - n ELSE j + N - n
    <2> SUFFICES ASSUME NEW n \in 1..N PROVE Behind(n)' = IF n <= j THEN j - n ELSE j + N - n
      OBVIOUS
    <2>0. Behind(n)' = (j + N - n) % N
      BY <1>3 DEF Behind
    <2>1. PICK a \in Nat : a = j + N - n /\ a < 2 * N
      BY <1>1, <1>3
    <2>2. a % N = IF a < N THEN a ELSE a - N
      BY <2>1, Round
    <2> QED
      BY <1>1, <1>3, <2>0, <2>1, <2>2
  <1>7. keyIndex' \in ApiKey
    BY <1>3 DEF ApiKey
  <1>8. Behind(1)' = Ahead(f)
    BY <1>1, <1>2, <1>3, <1>6
  <1>9. ASSUME NEW n \in 1..N
        PROVE  \/ n <= f + 1 /\ \E m \in 0..f : Behind(n)' = Ahead(m)
               \/ n > f + 1 /\ Behind(n)' = Behind(n - f - 1)
    <2>1. CASE n <= f + 1
      <3>1. f + 1 - n \in 0..f
        BY <1>1, <2>1
      <3>2. Behind(n)' = Ahead(f + 1 - n)
        BY <1>1, <1>3, <1>4, <1>6, <2>1, <3>1
      <3> QED
        BY <2>1, <3>1, <3>2
    <2>2. CASE n > f + 1
      <3>1. n - f - 1 \in 1..N
        BY <1>1, <2>2
      <3>2. Behind(n)' = Behind(n - f - 1)
        BY <1>1, <1>3, <1>5, <1>6, <2>2, <3>1
      <3> QED
        BY <2>2, <3>2
    <2> QED
      BY <1>1, <2>1, <2>2
  <1> QED
    BY <1>7, <1>8, <1>9

(* Every key lies behind the index somewhere.                                *)
LEMMA AllBehind ==
    ASSUME LookupsTypeOK, NEW k \in ApiKey
    PROVE  \E n \in 1..NumKeys : Behind(n) = k
  <1> DEFINE n == IF k < keyIndex THEN keyIndex - k ELSE keyIndex + NumKeys - k
  <1>1. NumKeys \in Nat \ {0} /\ keyIndex \in 0..(NumKeys - 1) /\ k \in 0..(NumKeys - 1)
    BY LookupsAssumption DEF LookupsTypeOK, ApiKey
  <1>2. n \in 1..NumKeys
    BY <1>1
  <1>3. PICK a \in Nat : a = keyIndex + NumKeys - n /\ a < 2 * NumKeys /\ (a = k \/ a = k + NumKeys)
    BY <1>1
  <1>4. a % NumKeys = IF a < NumKeys THEN a ELSE a - NumKeys
    BY <1>3, Round
  <1>5. Behind(n) = k
    BY <1>1, <1>3, <1>4 DEF Behind
  <1> QED
    BY <1>2, <1>5

-----------------------------------------------------------------------------
(* Nothing is asked at first.                                                *)
LEMMA LookupsStart == LookupsInit => LookupsInv
  <1> SUFFICES ASSUME LookupsInit PROVE LookupsInv
    OBVIOUS
  <1>1. keyIndex \in ApiKey /\ depleted \subseteq ApiKey /\ tracesToday \in Nat /\ compsToday \in Nat
    BY LookupsAssumption DEF LookupsInit, ApiKey
  <1>2. NoRequest \in RequestState
    BY LookupsAssumption DEF NoRequest, RequestState, LookupKind
  <1>3. requests \in [Request -> RequestState] /\ leadHot \in BOOLEAN
    BY <1>2 DEF LookupsInit
  <1>4. \A r \in Request : requests[r].at = "idle" /\ requests[r].alone = FALSE
    BY DEF LookupsInit, NoRequest
  <1>5. CompsWithinLimit
    BY LookupsAssumption DEF LookupsInit, CompsWithinLimit
  <1>6. LookupsTypeOK
    BY <1>1, <1>3 DEF LookupsTypeOK
  <1>7. WaitsForKey /\ AloneInv
    BY <1>4 DEF WaitsForKey, AloneInv
  <1> QED
    BY <1>5, <1>6, <1>7 DEF LookupsInv

(* A new request takes the word "alone" from the others, and has it only if  *)
(* no other asks the keys.                                                   *)
LEMMA AskSafe ==
    ASSUME LookupsInv, NEW r \in Request, NEW kind \in LookupKind, NEW admin \in BOOLEAN,
           NEW at \in {"asking", "found"}, Ask(r, kind, admin, at)
    PROVE  requests' \in [Request -> RequestState] /\ WaitsForKey' /\ AloneInv'
  <1>1. requests \in [Request -> RequestState]
    BY DEF LookupsInv, LookupsTypeOK
  <1> DEFINE mine == [NoRequest EXCEPT !.at = at, !.kind = kind, !.admin = admin, !.alone = (Busy = {})]
  <1>2. /\ requests'[r] = mine
        /\ \A s \in Request \ {r} : requests'[s] = [requests[s] EXCEPT !.alone = FALSE]
    BY DEF Ask
  <1>3. mine \in RequestState /\ mine.at = at /\ mine.tries = 0 /\ mine.alone = (Busy = {})
    <2>1. 0 \in 0..NumKeys /\ (Busy = {}) \in BOOLEAN
      BY LookupsAssumption
    <2>2. mine \in RequestState
      BY <2>1 DEF NoRequest, RequestState
    <2>3. mine.at = at /\ mine.tries = 0
      BY DEF NoRequest
    <2>4. mine.alone = (Busy = {})
      BY DEF NoRequest
    <2> QED
      BY <2>2, <2>3, <2>4
  <1>4. \A s \in Request \ {r} : /\ [requests[s] EXCEPT !.alone = FALSE] \in RequestState
                                 /\ ~requests'[s].alone
                                 /\ requests'[s].at = requests[s].at /\ requests'[s].key = requests[s].key
    <2> SUFFICES ASSUME NEW s \in Request \ {r}
                 PROVE  /\ [requests[s] EXCEPT !.alone = FALSE] \in RequestState
                        /\ ~[requests[s] EXCEPT !.alone = FALSE].alone
                        /\ [requests[s] EXCEPT !.alone = FALSE].at = requests[s].at
                        /\ [requests[s] EXCEPT !.alone = FALSE].key = requests[s].key
      BY <1>2
    <2>1. requests[s] \in RequestState
      BY <1>1
    <2>2. [requests[s] EXCEPT !.alone = FALSE] \in RequestState
      BY <2>1 DEF RequestState
    <2>3. ~[requests[s] EXCEPT !.alone = FALSE].alone
      BY <2>1 DEF RequestState
    <2>4. /\ [requests[s] EXCEPT !.alone = FALSE].at = requests[s].at
          /\ [requests[s] EXCEPT !.alone = FALSE].key = requests[s].key
      BY <2>1 DEF RequestState
    <2> QED
      BY <2>2, <2>3, <2>4
  <1>5. requests' \in [Request -> RequestState]
    BY <1>2, <1>3, <1>4 DEF Ask
  <1>6. WaitsForKey'
    BY <1>2, <1>3, <1>4 DEF LookupsInv, WaitsForKey, ApiKey
  <1>7. AloneInv'
    <2> SUFFICES ASSUME NEW s \in Request, requests'[s].alone, s \in Busy' \/ MissedKey(s)'
                 PROVE  AloneAsks(s)' /\ ~MissedKey(s)'
      BY DEF AloneInv
    <2>1. s = r /\ Busy = {}
      BY <1>2, <1>3, <1>4
    <2>2. ~MissedKey(s)'
      BY <1>2, <1>3, <2>1 DEF MissedKey
    <2>3. \A t \in Busy' : t = r
      BY <1>4, <2>1 DEF Busy
    <2>4. 1..requests'[r].tries = {}
      BY <1>2, <1>3
    <2> QED
      BY <2>1, <2>2, <2>3, <2>4 DEF AloneAsks
  <1> QED
    BY <1>5, <1>6, <1>7

(* The next key: what was behind the index is further behind.                *)
LEMMA AskNextKeySafe == ASSUME LookupsInv, NEW r \in Request, AskNextKey(r) PROVE LookupsInv'
  <1> DEFINE k == Ahead(FirstUsable)
             mine == [requests[r] EXCEPT !.at = "waiting", !.key = k, !.tries = @ + 1, !.asked = @ \cup {k}]
  <1>1. requests \in [Request -> RequestState] /\ NumKeys \in Nat \ {0} /\ LookupsTypeOK
    BY LookupsAssumption DEF LookupsInv, LookupsTypeOK
  <1>2. /\ requests[r].at = "asking" /\ requests[r].tries < NumKeys /\ keyIndex' = IndexAfter(k)
        /\ depleted # ApiKey /\ UNCHANGED <<depleted, tracesToday, compsToday, leadHot>>
    BY DEF AskNextKey, limitVars
  <1>3. FirstUsable \in ApiKey /\ k \in ApiKey \ depleted /\ \A m \in 0..(FirstUsable - 1) : Ahead(m) \in depleted
    BY <1>1, <1>2, FirstUsableIs
  <1>4. /\ keyIndex' \in ApiKey
        /\ \A n \in 1..NumKeys :
              \/ n <= FirstUsable + 1 /\ \E m \in 0..FirstUsable : Behind(n)' = Ahead(m)
              \/ n > FirstUsable + 1 /\ Behind(n)' = Behind(n - FirstUsable - 1)
    BY <1>1, <1>2, <1>3, StepsBehind
  <1>5. requests'[r] = mine /\ \A s \in Request \ {r} : requests'[s] = requests[s]
    BY <1>1 DEF AskNextKey
  <1>6. /\ mine \in RequestState /\ mine.at = "waiting" /\ mine.key = k /\ mine.tries = requests[r].tries + 1
        /\ mine.asked = requests[r].asked \cup {k} /\ mine.alone = requests[r].alone
    <2>1. requests[r] \in RequestState /\ k \in ApiKey
      BY <1>1, <1>3
    <2>2. requests[r].tries + 1 \in 0..NumKeys
      BY <1>1, <1>2, <2>1 DEF RequestState
    <2> HIDE DEF k
    <2>3. mine \in RequestState
      BY <2>1, <2>2 DEF RequestState
    <2>4. /\ mine.at = "waiting" /\ mine.key = k /\ mine.tries = requests[r].tries + 1
          /\ mine.asked = requests[r].asked \cup {k}
      BY <2>1 DEF RequestState
    <2>5. mine.alone = requests[r].alone
      BY <2>1 DEF RequestState
    <2> QED
      BY <2>3, <2>4, <2>5
  <1>7. requests' \in [Request -> RequestState]
    BY <1>1, <1>6 DEF AskNextKey
  <1>8. LookupsTypeOK'
    BY <1>2, <1>4, <1>7 DEF LookupsInv, LookupsTypeOK
  <1>9. WaitsForKey' /\ CompsWithinLimit'
    BY <1>2, <1>3, <1>5, <1>6 DEF LookupsInv, WaitsForKey, CompsWithinLimit
  <1>10. AloneInv'
    <2> SUFFICES ASSUME NEW s \in Request, requests'[s].alone
                 PROVE  (s \in Busy' => AloneAsks(s)') /\ ~MissedKey(s)'
      BY DEF AloneInv
    <2>1. Busy' = Busy /\ r \in Busy
      BY <1>2, <1>5, <1>6 DEF Busy
    <2>2. requests[s].alone
      BY <1>5, <1>6
    <2>3. ~MissedKey(s)'
      BY <1>2, <1>5, <1>6, <2>2 DEF LookupsInv, AloneInv, MissedKey
    <2>4. ASSUME s \in Busy' PROVE AloneAsks(s)'
      <3>1. AloneAsks(s) /\ s = r
        BY <2>1, <2>2, <2>4 DEF LookupsInv, AloneInv, AloneAsks
      <3>2. ASSUME NEW n \in 1..requests'[r].tries PROVE Behind(n)' \in requests'[r].asked \cup depleted'
        <4>1. n \in 1..NumKeys /\ requests[r].tries \in 0..NumKeys /\ n <= requests[r].tries + 1
          BY <1>1, <1>2, <1>5, <1>6 DEF RequestState
        <4>2. FirstUsable \in Nat
          BY <1>1, <1>3 DEF ApiKey
        <4>3. CASE \E m \in 0..FirstUsable : Behind(n)' = Ahead(m)
          <5> PICK m \in 0..FirstUsable : Behind(n)' = Ahead(m)
            BY <4>3
          <5>1. m = FirstUsable \/ m \in 0..(FirstUsable - 1)
            BY <4>2
          <5> QED
            BY <1>2, <1>3, <1>5, <1>6, <5>1
        <4>4. CASE n > FirstUsable + 1 /\ Behind(n)' = Behind(n - FirstUsable - 1)
          <5>1. n - FirstUsable - 1 \in 1..requests[r].tries
            BY <4>1, <4>2, <4>4
          <5>2. Behind(n - FirstUsable - 1) \in requests[r].asked \cup depleted
            BY <3>1, <5>1 DEF AloneAsks
          <5> QED
            BY <1>2, <1>5, <1>6, <4>4, <5>2
        <4> QED
          BY <1>4, <4>1, <4>3, <4>4
      <3> QED
        BY <2>1, <3>1, <3>2 DEF AloneAsks
    <2> QED
      BY <2>3, <2>4
  <1> QED
    BY <1>8, <1>9, <1>10 DEF LookupsInv

(* Giving up alone: as many tries as keys, or every key depleted.            *)
LEMMA GiveUpSafe == ASSUME LookupsInv, NEW r \in Request, GiveUpKeys(r) PROVE LookupsInv'
  <1>1. requests \in [Request -> RequestState] /\ LookupsTypeOK /\ depleted \subseteq ApiKey
    BY DEF LookupsInv, LookupsTypeOK
  <1>2. /\ requests' = [requests EXCEPT ![r].at = "fallback"] /\ requests[r].at = "asking"
        /\ requests[r].tries = NumKeys \/ depleted = ApiKey
        /\ UNCHANGED <<keyIndex, depleted, tracesToday, compsToday, leadHot>>
    BY DEF GiveUpKeys, limitVars
  <1>3. /\ requests'[r] = [requests[r] EXCEPT !.at = "fallback"]
        /\ \A s \in Request \ {r} : requests'[s] = requests[s]
        /\ [requests[r] EXCEPT !.at = "fallback"] \in RequestState
        /\ requests'[r].at = "fallback" /\ requests'[r].asked = requests[r].asked
        /\ requests'[r].alone = requests[r].alone
    BY <1>1, <1>2 DEF RequestState
  <1>4. requests' \in [Request -> RequestState]
    BY <1>1, <1>2, <1>3
  <1>5. LookupsTypeOK' /\ WaitsForKey' /\ CompsWithinLimit'
    BY <1>2, <1>3, <1>4 DEF LookupsInv, LookupsTypeOK, WaitsForKey, CompsWithinLimit
  <1>6. requests[r].alone => requests[r].asked \cup depleted = ApiKey
    <2> SUFFICES ASSUME requests[r].alone, requests[r].tries = NumKeys
                 PROVE  requests[r].asked \cup depleted = ApiKey
      BY <1>1, <1>2 DEF RequestState
    <2>1. \A n \in 1..NumKeys : Behind(n) \in requests[r].asked \cup depleted
      BY <1>2 DEF LookupsInv, AloneInv, AloneAsks, Busy
    <2>2. \A k \in ApiKey : k \in requests[r].asked \cup depleted
      BY <1>1, <2>1, AllBehind
    <2> QED
      BY <1>1, <2>2 DEF RequestState
  <1>7. AloneInv'
    <2> SUFFICES ASSUME NEW s \in Request, requests'[s].alone
                 PROVE  (s \in Busy' => AloneAsks(s)') /\ ~MissedKey(s)'
      BY DEF AloneInv
    <2>1. Busy' = Busy \ {r}
      BY <1>2, <1>3 DEF Busy
    <2>2. CASE s = r
      BY <1>2, <1>3, <1>6, <2>1, <2>2 DEF MissedKey
    <2>3. CASE s # r
      BY <1>2, <1>3, <2>1, <2>3 DEF LookupsInv, AloneInv, AloneAsks, MissedKey, Behind
    <2> QED
      BY <2>2, <2>3
  <1> QED
    BY <1>5, <1>7 DEF LookupsInv

(* A request that has its outcome, or none any more, asks no keys.           *)
LEMMA SettledSafe ==
    ASSUME LookupsInv, NEW r \in Request, UNCHANGED <<keyIndex, depleted>>,
           NEW mine \in RequestState, requests' = [requests EXCEPT ![r] = mine],
           mine.at \in {"idle", "found", "nothing"}
    PROVE  requests' \in [Request -> RequestState] /\ WaitsForKey' /\ AloneInv'
  <1>1. requests \in [Request -> RequestState]
    BY DEF LookupsInv, LookupsTypeOK
  <1>2. requests'[r] = mine /\ \A s \in Request \ {r} : requests'[s] = requests[s]
    BY <1>1
  <1>3. Busy' = Busy \ {r}
    BY <1>2 DEF Busy
  <1>4. AloneInv'
    <2> SUFFICES ASSUME NEW s \in Request, requests'[s].alone
                 PROVE  (s \in Busy' => AloneAsks(s)') /\ ~MissedKey(s)'
      BY DEF AloneInv
    <2>1. CASE s = r
      BY <1>2, <1>3, <2>1 DEF MissedKey
    <2>2. CASE s # r
      BY <1>2, <1>3, <2>2 DEF LookupsInv, AloneInv, AloneAsks, MissedKey, Behind
    <2> QED
      BY <2>1, <2>2
  <1> QED
    BY <1>1, <1>2, <1>4 DEF LookupsInv, WaitsForKey

(* An error sends the request on to the next key; the key of a 401 or 402    *)
(* joins the depleted ones.                                                  *)
LEMMA AsksOnSafe ==
    ASSUME LookupsInv, NEW r \in Request, requests[r].at = "waiting", AsksOn(r),
           depleted' = depleted \/ depleted' = depleted \cup {requests[r].key},
           UNCHANGED <<keyIndex, tracesToday, compsToday, leadHot>>
    PROVE  LookupsInv'
  <1>1. requests \in [Request -> RequestState] /\ depleted \subseteq ApiKey /\ requests[r].key \in ApiKey
    BY DEF LookupsInv, LookupsTypeOK, WaitsForKey
  <1> DEFINE mine == [requests[r] EXCEPT !.at = "asking", !.key = NoKey]
  <1>2. requests'[r] = mine /\ \A s \in Request \ {r} : requests'[s] = requests[s]
    BY <1>1 DEF AsksOn
  <1>3. /\ mine \in RequestState /\ mine.at = "asking" /\ mine.tries = requests[r].tries
        /\ mine.asked = requests[r].asked /\ mine.alone = requests[r].alone
    <2>1. requests[r] \in RequestState
      BY <1>1
    <2>2. mine \in RequestState
      BY <2>1 DEF RequestState
    <2>3. mine.at = "asking" /\ mine.tries = requests[r].tries /\ mine.asked = requests[r].asked
      BY <2>1 DEF RequestState
    <2>4. mine.alone = requests[r].alone
      BY <2>1 DEF RequestState
    <2> QED
      BY <2>2, <2>3, <2>4
  <1>4. requests' \in [Request -> RequestState]
    BY <1>1, <1>3 DEF AsksOn
  <1>5. depleted' \subseteq ApiKey /\ depleted \subseteq depleted'
    BY <1>1
  <1>6. LookupsTypeOK'
    BY <1>4, <1>5 DEF LookupsInv, LookupsTypeOK
  <1>7. WaitsForKey' /\ CompsWithinLimit'
    BY <1>2, <1>3 DEF LookupsInv, WaitsForKey, CompsWithinLimit
  <1>8. AloneInv'
    <2> SUFFICES ASSUME NEW s \in Request, requests'[s].alone
                 PROVE  (s \in Busy' => AloneAsks(s)') /\ ~MissedKey(s)'
      BY DEF AloneInv
    <2>1. Busy' = Busy /\ r \in Busy
      BY <1>2, <1>3 DEF Busy
    <2>2. requests[s].alone /\ requests'[s].tries = requests[s].tries /\ requests'[s].asked = requests[s].asked
      BY <1>2, <1>3
    <2>3. s \in Busy' => AloneAsks(s)'
      BY <1>5, <2>1, <2>2 DEF LookupsInv, AloneInv, AloneAsks, Behind
    <2>4. requests[s].asked \subseteq ApiKey /\ ~MissedKey(s)
      BY <1>1, <2>2 DEF LookupsInv, AloneInv, RequestState
    <2>5. ~MissedKey(s)'
      BY <1>2, <1>3, <1>5, <2>2, <2>4 DEF MissedKey
    <2> QED
      BY <2>3, <2>5
  <1> QED
    BY <1>6, <1>7, <1>8 DEF LookupsInv

(* A request settled, whatever the limits count.                             *)
LEMMA SettlesSafe ==
    ASSUME LookupsInv, NEW r \in Request, UNCHANGED <<keyIndex, depleted, compsToday>>,
           tracesToday' \in Nat, leadHot' \in BOOLEAN,
           Settles(r, "found") \/ Settles(r, "nothing") \/ requests' = [requests EXCEPT ![r] = NoRequest]
    PROVE  LookupsInv'
  <1>1. requests \in [Request -> RequestState] /\ requests[r] \in RequestState /\ NoRequest \in RequestState
    <2>1. NoRequest \in RequestState
      BY LookupsAssumption DEF NoRequest, RequestState, LookupKind
    <2> QED
      BY <2>1 DEF LookupsInv, LookupsTypeOK
  <1> DEFINE settled(at) == [NoRequest EXCEPT !.at = at, !.kind = requests[r].kind, !.admin = requests[r].admin]
  <1>2. ASSUME NEW at \in {"found", "nothing"}
        PROVE  settled(at) \in RequestState /\ settled(at).at = at
    <2>1. requests[r].kind \in LookupKind /\ requests[r].admin \in BOOLEAN
      BY <1>1 DEF RequestState
    <2>2. settled(at) \in RequestState
      BY <1>1, <2>1 DEF NoRequest, RequestState
    <2>3. settled(at).at = at
      BY DEF NoRequest
    <2> QED
      BY <2>2, <2>3
  <1>3. NoRequest.at = "idle"
    BY DEF NoRequest
  <1>4. PICK mine \in RequestState : /\ requests' = [requests EXCEPT ![r] = mine]
                                     /\ mine.at \in {"idle", "found", "nothing"}
    BY <1>1, <1>2, <1>3 DEF Settles
  <1>5. requests' \in [Request -> RequestState] /\ WaitsForKey' /\ AloneInv'
    BY <1>4, SettledSafe
  <1> QED
    BY <1>5 DEF LookupsInv, LookupsTypeOK, CompsWithinLimit

(* A new request is counted when it is a fetch of comps.                     *)
LEMMA RequestSafe ==
    ASSUME LookupsInv, NEW r \in Request, NEW kind \in LookupKind, NEW admin \in BOOLEAN,
           NEW at \in {"asking", "found"}, Ask(r, kind, admin, at),
           compsToday' = compsToday \/ (compsToday' = compsToday + 1 /\ compsToday < DailyLimit),
           UNCHANGED <<tracesToday, leadHot>>
    PROVE  LookupsInv'
  <1>1. requests' \in [Request -> RequestState] /\ WaitsForKey' /\ AloneInv'
    BY AskSafe
  <1>2. compsToday' \in Nat /\ CompsWithinLimit'
    BY LookupsAssumption DEF LookupsInv, LookupsTypeOK, CompsWithinLimit
  <1>3. keyIndex' = keyIndex /\ depleted' = depleted
    BY DEF Ask
  <1> QED
    BY <1>1, <1>2, <1>3 DEF LookupsInv, LookupsTypeOK

(* Every step keeps the invariant.                                           *)
LEMMA LookupsStep == LookupsInv /\ [LookupsNext]_lookupVars => LookupsInv'
  <1> SUFFICES ASSUME LookupsInv, [LookupsNext]_lookupVars PROVE LookupsInv'
    OBVIOUS
  <1>1. CASE LimitsAge
    <2>1. UNCHANGED <<keyIndex, depleted, requests>>
      BY <1>1 DEF LimitsAge
    <2>2. tracesToday' \in Nat /\ compsToday' \in Nat /\ CompsWithinLimit'
      BY <1>1, LookupsAssumption DEF LimitsAge, LookupsInv, LookupsTypeOK, CompsWithinLimit
    <2>3. leadHot' \in BOOLEAN
      BY <1>1 DEF LimitsAge, LookupsInv, LookupsTypeOK
    <2>4. WaitsForKey' /\ AloneInv'
      BY <2>1 DEF LookupsInv, WaitsForKey, AloneInv, AloneAsks, MissedKey, Behind, Busy
    <2> QED
      BY <2>1, <2>2, <2>3, <2>4 DEF LookupsInv, LookupsTypeOK
  <1>2. CASE ForgetLookups
    <2>1. LookupsInit'
      BY <1>2 DEF ForgetLookups, LookupsInit
    <2>2. LookupsInit' => LookupsInv'
      BY LookupsStart, PTL
    <2> QED
      BY <2>1, <2>2
  <1>3. ASSUME NEW r \in Request, NEW admin \in BOOLEAN,
               SkipTrace(r, admin) \/ FetchPropertyData(r, admin) \/ FetchComps(r, admin)
        PROVE  LookupsInv'
    <2>1. CASE SkipTrace(r, admin)
      BY <2>1, RequestSafe DEF SkipTrace, limitVars, LookupKind
    <2>2. CASE FetchPropertyData(r, admin)
      BY <2>2, RequestSafe DEF FetchPropertyData, limitVars, LookupKind
    <2>3. CASE FetchComps(r, admin)
      <3>1. PICK at \in {"asking", "found"} : Ask(r, "comps", admin, at)
        BY <2>3 DEF FetchComps
      <3>2. /\ compsToday' = compsToday \/ (compsToday' = compsToday + 1 /\ compsToday < DailyLimit)
            /\ UNCHANGED <<tracesToday, leadHot>>
        BY <2>3 DEF FetchComps
      <3> QED
        BY <3>1, <3>2, RequestSafe DEF LookupKind
    <2> QED
      BY <1>3, <2>1, <2>2, <2>3
  <1>4. ASSUME NEW r \in Request, AskNextKey(r) \/ GiveUpKeys(r) PROVE LookupsInv'
    BY <1>4, AskNextKeySafe, GiveUpSafe
  <1>5. ASSUME NEW r \in Request, KeyAnswers(r) PROVE LookupsInv'
    <2>1. requests[r].at = "waiting" /\ UNCHANGED <<keyIndex, tracesToday, compsToday, leadHot>>
      BY <1>5 DEF KeyAnswers, limitVars
    <2>2. tracesToday' \in Nat /\ leadHot' \in BOOLEAN
      BY <2>1 DEF LookupsInv, LookupsTypeOK
    <2>3. CASE (Settles(r, "found") \/ Settles(r, "nothing")) /\ UNCHANGED depleted
      BY <2>1, <2>2, <2>3, SettlesSafe
    <2>4. CASE AsksOn(r) /\ (depleted' = depleted \/ depleted' = depleted \cup {requests[r].key})
      BY <2>1, <2>4, AsksOnSafe
    <2> QED
      BY <1>5, <2>3, <2>4 DEF KeyAnswers
  <1>6. ASSUME NEW r \in Request, Fallback(r) PROVE LookupsInv'
    <2>1. UNCHANGED <<keyIndex, depleted, tracesToday, compsToday, leadHot>>
      BY <1>6 DEF Fallback, limitVars
    <2>2. tracesToday' \in Nat /\ leadHot' \in BOOLEAN
      BY <2>1 DEF LookupsInv, LookupsTypeOK
    <2> QED
      BY <1>6, <2>1, <2>2, SettlesSafe DEF Fallback
  <1>7. ASSUME NEW r \in Request, Finish(r) PROVE LookupsInv'
    <2>1. UNCHANGED <<keyIndex, depleted, compsToday>> /\ requests' = [requests EXCEPT ![r] = NoRequest]
      BY <1>7 DEF Finish
    <2>2. tracesToday' \in Nat
      BY <1>7 DEF Finish, LookupsInv, LookupsTypeOK
    <2>3. leadHot' \in BOOLEAN
      BY <1>7 DEF Finish
    <2> QED
      BY <2>1, <2>2, <2>3, SettlesSafe
  <1>8. CASE UNCHANGED lookupVars
    BY <1>8 DEF lookupVars, limitVars, LookupsInv, LookupsTypeOK, CompsWithinLimit, WaitsForKey,
                AloneInv, AloneAsks, MissedKey, Behind, Busy
  <1> QED
    BY <1>1, <1>2, <1>3, <1>4, <1>5, <1>6, <1>7, <1>8 DEF LookupsNext

(* The invariant holds, whatever requests and keys there are.                *)
THEOREM LookupsInvariant == LookupsSpec => []LookupsInv
  BY LookupsStart, LookupsStep, PTL DEF LookupsSpec

(* Keys, requests and counts keep to their types.                            *)
THEOREM LookupsTyped == LookupsSpec => []LookupsTypeOK
  <1>1. LookupsInv => LookupsTypeOK
    BY DEF LookupsInv
  <1> QED
    BY <1>1, LookupsInvariant, PTL

(* fetch-comps records with the check, so its daily limit holds.             *)
THEOREM CompsLimited == LookupsSpec => []CompsWithinLimit
  <1>1. LookupsInv => CompsWithinLimit
    BY DEF LookupsInv
  <1> QED
    BY <1>1, LookupsInvariant, PTL

(* The retry loop of propertyApi.ts gives up only when every key was asked   *)
(* or is depleted, for any number of keys, if nobody else rotates them.      *)
THEOREM EveryKeyAsked == LookupsSpec => []AloneTriesEveryKey
  <1>1. LookupsInv => AloneTriesEveryKey
    BY DEF LookupsInv, AloneInv, AloneTriesEveryKey
  <1> QED
    BY <1>1, LookupsInvariant, PTL
=============================================================================
