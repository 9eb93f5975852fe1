------------------------------ MODULE Lookups ------------------------------
(* Paid property lookups of one campaign, on one lead: the skip trace, the   *)
(* property data and the fetch-comps endpoints of routes/crm/leads.ts, and   *)
(* the limits and the rotating pool of API keys of services/propertyApi.ts.  *)
(* Limits, key index and depleted keys live in the server's memory and are   *)
(* shared by every request; each request awaits between its steps.           *)
EXTENDS Naturals, FiniteSets

CONSTANTS
    Request,        \* the requests that can be under way at once
    NumKeys,        \* PropertyAPI keys configured
    DailyLimit,     \* skipTraceDailyLimit and fetchCompsDailyLimit
    MaxLookups      \* bound: skip traces recorded in a day

ASSUME LookupsAssumption == NumKeys \in Nat \ {0} /\ DailyLimit \in Nat \ {0}

VARIABLES
    keyIndex,       \* _keyIndex
    depleted,       \* _depletedKeys
    requests,       \* what each request is doing
    tracesToday,    \* timestamps of skipTraceMap younger than a day
    compsToday,     \* those of fetchCompsMap
    leadHot         \* leadFetchMap: lastAt less than five hours old, which
                    \* covers the ten minutes of the campaign; the count of
                    \* two never decides anything

limitVars == <<tracesToday, compsToday, leadHot>>
lookupVars == <<keyIndex, depleted, requests, limitVars>>

ApiKey == 0..(NumKeys - 1)
NoKey == NumKeys
LookupKind == {"trace", "property", "comps"}

\* at: "asking" before the next key, "waiting" for its answer, "fallback"
\* after the loop, "found" or "nothing" with the outcome. `asked` and `alone`
\* are only for the properties.
NoRequest == [at |-> "idle", kind |-> "trace", admin |-> FALSE, tries |-> 0, key |-> NoKey,
         asked |-> {}, alone |-> FALSE]
RequestState ==
    [at : {"idle", "asking", "waiting", "fallback", "found", "nothing"}, kind : LookupKind,
     admin : BOOLEAN, tries : 0..NumKeys, key : ApiKey \cup {NoKey},
     asked : SUBSET ApiKey, alone : BOOLEAN]

LookupsTypeOK ==
    /\ keyIndex \in ApiKey /\ depleted \subseteq ApiKey
    /\ requests \in [Request -> RequestState]
    /\ tracesToday \in Nat /\ compsToday \in Nat /\ leadHot \in BOOLEAN

LookupsInit ==
    /\ keyIndex = 0 /\ depleted = {}
    /\ requests = [r \in Request |-> NoRequest]
    /\ tracesToday = 0 /\ compsToday = 0 /\ leadHot = FALSE

Busy == {r \in Request : requests[r].at \in {"asking", "waiting"}}

-----------------------------------------------------------------------------
(* A request passed its limit and goes to the keys, or needs none. *)
Ask(r, kind, admin, at) ==
    /\ requests[r].at = "idle"
    /\ requests' = [s \in Request |->
          IF s = r THEN [NoRequest EXCEPT !.at = at, !.kind = kind, !.admin = admin,
                                     !.alone = (Busy = {})]
          ELSE [requests[s] EXCEPT !.alone = FALSE]]
    /\ UNCHANGED <<keyIndex, depleted>>

(* POST /:id/skip-trace and /:id/fetch-property-data check their limits and  *)
(* record the lookup only when the data is there; the super admin is free.   *)
SkipTrace(r, admin) ==
    /\ admin \/ tracesToday < DailyLimit
    /\ Ask(r, "trace", admin, "asking") /\ UNCHANGED limitVars

FetchPropertyData(r, admin) ==
    /\ admin \/ ~leadHot
    /\ Ask(r, "property", admin, "asking") /\ UNCHANGED limitVars

(* POST /:id/fetch-comps records at once. A lead whose location is known     *)
(* asks no key.                                                              *)
FetchComps(r, admin) ==
    /\ admin \/ compsToday < DailyLimit
    /\ \E at \in {"asking", "found"} : Ask(r, "comps", admin, at)
    /\ compsToday' = IF admin THEN compsToday ELSE compsToday + 1
    /\ UNCHANGED <<tracesToday, leadHot>>

(* getNextApiKey: round robin over the keys not known to be depleted. *)
Ahead(n) == (keyIndex + n) % NumKeys
FirstUsable == CHOOSE n \in ApiKey :
                   Ahead(n) \notin depleted /\ \A m \in 0..(n - 1) : Ahead(m) \in depleted

(* Where the index goes after key k; before it, an index that stays there.   *)
IndexAt(k) == k
IndexAfter(k) == (k + 1) % NumKeys

AskNextKey(r) ==
    /\ requests[r].at = "asking" /\ requests[r].tries < NumKeys
    /\ depleted # ApiKey
    /\ LET k == Ahead(FirstUsable) IN
       /\ keyIndex' = IndexAfter(k)
       /\ requests' = [requests EXCEPT ![r].at = "waiting", ![r].key = k,
                           ![r].tries = @ + 1, ![r].asked = @ \cup {k}]
    /\ UNCHANGED <<depleted, limitVars>>

(* The loop is over: PeopleDataLabs, ATTOM or the AI takes its turn. *)
GiveUpKeys(r) ==
    /\ requests[r].at = "asking"
    /\ requests[r].tries = NumKeys \/ depleted = ApiKey
    /\ requests' = [requests EXCEPT ![r].at = "fallback"]
    /\ UNCHANGED <<keyIndex, depleted, limitVars>>

(* A request has its outcome, or goes on with the keys. *)
Settles(r, at) ==
    requests' = [requests EXCEPT ![r] =
        [NoRequest EXCEPT !.at = at, !.kind = requests[r].kind, !.admin = requests[r].admin]]
AsksOn(r) == requests' = [requests EXCEPT ![r].at = "asking", ![r].key = NoKey]

(* What PropertyAPI answers: data; 401 or 402, which strikes the key off;    *)
(* another error, after which only the skip trace goes on to the next key;   *)
(* or, for the skip trace, a person without contacts.                        *)
KeyAnswers(r) ==
    /\ requests[r].at = "waiting"
    /\ \/ Settles(r, "found") /\ UNCHANGED depleted
       \/ AsksOn(r) /\ depleted' = depleted \cup {requests[r].key}
       \/ requests[r].kind = "trace" /\ AsksOn(r) /\ UNCHANGED depleted
       \/ Settles(r, "nothing") /\ UNCHANGED depleted
    /\ UNCHANGED <<keyIndex, limitVars>>

(* The other source, asked too when PropertyAPI has nothing: PeopleDataLabs, *)
(* ATTOM, or the AI's comps.                                                 *)
Fallback(r) ==
    /\ requests[r].at \in {"fallback", "nothing"}
    /\ Settles(r, "found") \/ requests' = [requests EXCEPT ![r] = NoRequest]
    /\ UNCHANGED <<keyIndex, depleted, limitVars>>

(* The answer with the data: recordSkipTrace or recordFetch comes now. *)
Finish(r) ==
    /\ requests[r].at = "found"
    /\ requests' = [requests EXCEPT ![r] = NoRequest]
    /\ LET counts(kind) == requests[r].kind = kind /\ ~requests[r].admin IN
       /\ tracesToday' = IF counts("trace") THEN tracesToday + 1 ELSE tracesToday
       /\ leadHot' = (leadHot \/ counts("property"))
    /\ tracesToday' <= MaxLookups
    /\ UNCHANGED <<keyIndex, depleted, compsToday>>

(* Time passes: the oldest timestamps fall out of the day, the cooldowns end. *)
LimitsAge ==
    /\ tracesToday' \in 0..tracesToday /\ compsToday' \in 0..compsToday
    /\ leadHot' \in {FALSE, leadHot}
    /\ UNCHANGED <<keyIndex, depleted, requests>>

(* The server restarts: everything was in memory. *)
ForgetLookups ==
    /\ keyIndex' = 0 /\ depleted' = {} /\ requests' = [r \in Request |-> NoRequest]
    /\ tracesToday' = 0 /\ compsToday' = 0 /\ leadHot' = FALSE

LookupsNext ==
    \/ LimitsAge \/ ForgetLookups
    \/ \E r \in Request :
          \/ \E admin \in BOOLEAN : SkipTrace(r, admin) \/ FetchPropertyData(r, admin) \/ FetchComps(r, admin)
          \/ AskNextKey(r) \/ GiveUpKeys(r) \/ KeyAnswers(r) \/ Fallback(r) \/ Finish(r)

LookupsSpec == LookupsInit /\ [][LookupsNext]_lookupVars

-----------------------------------------------------------------------------
(* "Retry loop: try every non-depleted key before falling back"              *)
(* (propertyApi.ts:305): true of a request nobody else rotated the keys for. *)
MissedKey(r) == requests[r].at = "fallback" /\ requests[r].asked \cup depleted # ApiKey
AloneTriesEveryKey == \A r \in Request : requests[r].alone => ~MissedKey(r)

(* The same of every request, also one while others rotate the keys.*)
EveryKeyTried == \A r \in Request : ~MissedKey(r)

(* The daily limit of fetch-comps holds whatever interleaves, because it is  *)
(* recorded with the check.                                                  *)
CompsWithinLimit == compsToday <= DailyLimit

(* "Skip trace limit: N per campaign per day" (propertyApi.ts:128). The      *)
(* check comes before the lookup and the record after it.                    *)
SkipTracesWithinLimit == tracesToday <= DailyLimit
=============================================================================
