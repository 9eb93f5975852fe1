---------------------------- MODULE ServicesProofs ----------------------------
(* What holds of the contracts, the task reminders, the circuit breaker and  *)
(* the saved browser sessions, for any number of handlers, links, tasks,     *)
(* cron runs, calls and contexts; and of the smaller services side by side,  *)
(* as they are checked together.                                             *)
(*                                                                           *)
(* Contracts. A handler writes what it has not looked at again, so the       *)
(* invariant speaks of the contract as each handler saw it: as long as no    *)
(* write was stale, a link with a signature is an old one, or the contract   *)
(* is signed or voided.                                                      *)
(* Reminders. A task that only one run at a time has held and no run left    *)
(* half done is announced by the run that holds it, at most once, and is     *)
(* escalated or deleted before that run lets go of it.                       *)
(* Breaker. It never stores "half open", so a probe in flight is never taken *)
(* off the count.                                                            *)
(* Sessions. A job that holds the session lock found no file, and the logins *)
(* so far are paid for by losses of a file.                                  *)
EXTENDS MCServices, CallsProofs, LookupsProofs

-----------------------------------------------------------------------------
(* A contract and its links *)

\* What the checks of each handler let through.
Saw(h) ==
    /\ h.op \in {"mail", "dropboxMail"} => h.seen = "draft"
    /\ h.op = "dropboxMail" => h.link = 1 /\ dropboxId = 2
    /\ h.op = "view" => h.seen \in {"draft", "sent"}
    /\ h.op = "sign" => h.seen \notin {"signed", "voided"}
    /\ h.op = "dropboxViewed" => h.seen = "sent"

HandlersSaw == \A h \in signing : Saw(h)

Minted ==
    /\ link <= minted /\ dropboxId <= minted
    /\ contractStatus = "none" => link = 0 /\ dropboxId = 0 /\ signing = {}

\* Without a stale write links only move on.
LinksMoveOn == ~stale => \A h \in signing : h.link <= link

Accepted ==
    ~stale => \A l \in Link : /\ signatures[l] <= 1
                              /\ signatures[l] > 0 => l <= link
                              /\ signatures[l] > 0 /\ l = link => contractStatus \in {"signed", "voided"}

ContractsInv == ContractsTypeOK /\ HandlersSaw /\ Minted /\ LinksMoveOn /\ Accepted

(* The handlers that write into the status column.                           *)
LEMMA Ops ==
    /\ DOMAIN Writes = {"mail", "dropboxMail", "view", "sign", "dropboxSigned", "dropboxViewed", "dropboxDeclined"}
    /\ \A op \in DOMAIN Writes : Writes[op] \in ContractStatus
  BY DEF Writes, ContractStatus

(* No contract starts with a signature.                                      *)
LEMMA StartsUnsigned == ContractsInit => ContractsInv
  <1> SUFFICES ASSUME ContractsInit PROVE ContractsInv
    OBVIOUS
  <1>1. ContractsTypeOK
    <2>1. 0 \in Link
      BY MaxLinksAssumption DEF Link
    <2>2. signatures \in [Link -> Nat]
      BY DEF ContractsInit
    <2> QED
      BY <2>1, <2>2 DEF ContractsInit, ContractsTypeOK
  <1>2. HandlersSaw /\ Minted /\ LinksMoveOn
    BY DEF ContractsInit, HandlersSaw, Minted, LinksMoveOn
  <1>3. Accepted
    BY DEF ContractsInit, Accepted
  <1> QED
    BY <1>1, <1>2, <1>3 DEF ContractsInv

(* The insert keeps the invariant.                                           *)
LEMMA CreateSafe == ContractsInv /\ Create => ContractsInv'
  <1> SUFFICES ASSUME ContractsInv, Create PROVE ContractsInv'
    OBVIOUS
  <1> PICK op \in {"mail", "dropboxMail"}, s \in SignSlot :
            /\ signing' = {[slot |-> s, op |-> op, seen |-> "draft", link |-> 1]}
            /\ minted' = IF op = "mail" THEN 1 ELSE 2
            /\ dropboxId' = IF op = "mail" THEN 0 ELSE 2
    BY DEF Create
  <1> DEFINE h == [slot |-> s, op |-> op, seen |-> "draft", link |-> 1]
  <1>1. h \in Handler /\ 1 \in Link /\ dropboxId' \in Link /\ minted' \in Link
    BY Ops, MaxLinksAssumption DEF Create, Handler, ContractStatus, Link
  <1>2. ContractsTypeOK'
    BY <1>1 DEF Create, ContractsInv, ContractsTypeOK, ContractStatus
  <1>3. HandlersSaw' /\ Minted' /\ LinksMoveOn'
    BY DEF Create, HandlersSaw, Saw, Minted, LinksMoveOn, ContractStatus
  <1>4. Accepted'
    <2>1. link = 0 /\ link' = 1 /\ UNCHANGED <<signatures, stale>>
      BY DEF Create, ContractsInv, Minted
    <2>2. ~stale => signatures[0] = 0 \/ contractStatus \in {"signed", "voided"}
      BY <2>1, MaxLinksAssumption DEF ContractsInv, ContractsTypeOK, Accepted, Link
    <2> QED
      BY <2>1, <2>2 DEF Create, ContractsInv, ContractsTypeOK, Accepted, Link
  <1> QED
    BY <1>2, <1>3, <1>4 DEF ContractsInv

(* A handler that has read keeps the invariant, if its checks are those of   *)
(* the code.                                                                 *)
LEMMA OpenedSafe ==
    ASSUME ContractsInv, NEW op \in DOMAIN Writes, Opened(op), contractStatus # "none",
           op \notin {"mail", "dropboxMail"},
           op = "view" => contractStatus \in {"draft", "sent"},
           op = "sign" => contractStatus \notin {"signed", "voided"},
           op = "dropboxViewed" => contractStatus = "sent"
    PROVE  ContractsInv'
  <1> PICK s \in SignSlot :
            signing' = signing \cup {[slot |-> s, op |-> op, seen |-> contractStatus, link |-> link]}
    BY DEF Opened
  <1> DEFINE h == [slot |-> s, op |-> op, seen |-> contractStatus, link |-> link]
  <1>1. h \in Handler
    BY DEF ContractsInv, ContractsTypeOK, Handler
  <1>2. ContractsTypeOK'
    BY <1>1 DEF Opened, ContractsInv, ContractsTypeOK
  <1>3. HandlersSaw'
    <2> SUFFICES ASSUME NEW g \in signing' PROVE Saw(g)'
      BY DEF HandlersSaw
    <2>1. CASE g = h
      BY <2>1 DEF Saw
    <2>2. CASE g \in signing
      BY <2>2 DEF Saw, Opened, ContractsInv, HandlersSaw
    <2> QED
      BY <2>1, <2>2
  <1>4. Minted' /\ LinksMoveOn' /\ Accepted'
    BY DEF Opened, ContractsInv, ContractsTypeOK, Minted, LinksMoveOn, Accepted, Link
  <1> QED
    BY <1>2, <1>3, <1>4 DEF ContractsInv

(* A new link has no signature yet.                                          *)
LEMMA ResendSafe == ContractsInv /\ Resend => ContractsInv'
  <1> SUFFICES ASSUME ContractsInv, Resend PROVE ContractsInv'
    OBVIOUS
  <1>1. ContractsTypeOK'
    <2>1. minted + 1 \in Link
      BY MaxLinksAssumption DEF Resend, ContractsInv, ContractsTypeOK, Link
    <2> QED
      BY <2>1 DEF Resend, ContractsInv, ContractsTypeOK, ContractStatus
  <1>2. HandlersSaw' /\ Minted'
    BY DEF Resend, ContractsInv, ContractsTypeOK, Link, HandlersSaw, Saw, Minted
  <1>3. LinksMoveOn'
    BY DEF Resend, ContractsInv, ContractsTypeOK, Link, Minted, LinksMoveOn, Handler
  <1>4. Accepted'
    BY DEF Resend, ContractsInv, ContractsTypeOK, Link, Minted, Accepted
  <1> QED
    BY <1>1, <1>2, <1>3, <1>4 DEF ContractsInv

(* A write that was not stale met the contract its handler saw.              *)
LEMMA WriteSafe == ASSUME ContractsInv, NEW h \in signing, Write(h) PROVE ContractsInv'
  <1>1. h \in Handler /\ Saw(h)
    BY DEF ContractsInv, ContractsTypeOK, HandlersSaw
  <1>2. ContractsTypeOK'
    <2>1. contractStatus' \in ContractStatus /\ link' \in Link
      BY <1>1, Ops DEF Write, ContractsInv, ContractsTypeOK, Handler
    <2>2. signatures' \in [Link -> Nat]
      BY <1>1 DEF Write, ContractsInv, ContractsTypeOK, Handler
    <2>3. stale' \in BOOLEAN
      BY <1>1 DEF Write, ContractsInv, ContractsTypeOK
    <2> QED
      BY <2>1, <2>2, <2>3 DEF Write, ContractsInv, ContractsTypeOK
  <1>3. HandlersSaw'
    BY DEF Write, ContractsInv, HandlersSaw, Saw
  <1>4. contractStatus # "none" /\ contractStatus' # "none"
    BY <1>1, Ops DEF Write, ContractsInv, Minted, ContractStatus, Handler
  <1>5. CASE stale'
    <2>1. Minted'
      BY <1>1, <1>4 DEF Write, ContractsInv, ContractsTypeOK, Minted, Handler, Link, Saw
    <2> QED
      BY <1>2, <1>3, <1>5, <2>1 DEF ContractsInv, LinksMoveOn, Accepted
  <1>6. CASE ~stale'
    <2>1. ~stale /\ contractStatus = h.seen /\ link = h.link
      BY <1>6 DEF Write
    <2>2. link <= link' /\ (h.op = "dropboxMail" => link' = link + 1)
      BY <1>1, <2>1 DEF Write, Saw, ContractsInv, ContractsTypeOK, Link
    <2>3. Minted' /\ LinksMoveOn'
      BY <1>1, <1>4, <2>1, <2>2 DEF Write, ContractsInv, ContractsTypeOK, Minted, LinksMoveOn, Handler, Link
    <2>4. CASE h.op = "sign"
      <3>1. signatures[link] = 0
        BY <1>1, <2>1, <2>4 DEF Saw, ContractsInv, ContractsTypeOK, Accepted
      <3>2. contractStatus' = "signed" /\ link' = link
        BY <2>4 DEF Write, Writes
      <3>3. signatures' = [signatures EXCEPT ![link] = 1]
        BY <2>1, <2>4, <3>1 DEF Write
      <3>4. Accepted'
        <4> SUFFICES ASSUME NEW l \in Link
                     PROVE  /\ signatures'[l] <= 1
                            /\ signatures'[l] > 0 => l <= link'
                            /\ signatures'[l] > 0 /\ l = link' => contractStatus' \in {"signed", "voided"}
          BY DEF Accepted
        <4>1. CASE l = link
          BY <3>2, <3>3, <4>1 DEF ContractsInv, ContractsTypeOK, Link
        <4>2. CASE l # link
          BY <2>1, <3>2, <3>3, <4>2 DEF ContractsInv, ContractsTypeOK, Accepted
        <4> QED
          BY <4>1, <4>2
      <3> QED
        BY <1>2, <1>3, <2>3, <3>4 DEF ContractsInv
    <2>5. CASE h.op # "sign"
      <3>1. signatures' = signatures
        BY <2>5 DEF Write
      <3>2. link' = link /\ contractStatus \in {"signed", "voided"} => contractStatus' \in {"signed", "voided"}
        BY <1>1, <2>1, <2>2, <2>5, Ops DEF Write, Writes, Saw, Handler, ContractsInv, ContractsTypeOK, Link
      <3>3. Accepted'
        <4> SUFFICES ASSUME NEW l \in Link, signatures[l] > 0
                     PROVE  /\ signatures[l] <= 1 /\ l <= link'
                            /\ l = link' => contractStatus' \in {"signed", "voided"}
          BY <3>1 DEF Accepted, ContractsInv, ContractsTypeOK
        <4>1. l <= link /\ signatures[l] <= 1 /\ (l = link => contractStatus \in {"signed", "voided"})
          BY <2>1 DEF ContractsInv, Accepted
        <4>2. l \in Nat /\ link \in Nat /\ link' \in Nat
          BY <1>2, MaxLinksAssumption DEF ContractsInv, ContractsTypeOK, Link
        <4>3. l <= link' /\ (l = link' => link' = link)
          BY <2>2, <4>1, <4>2
        <4> QED
          BY <3>2, <4>1, <4>3
      <3> QED
        BY <1>2, <1>3, <2>3, <3>3 DEF ContractsInv
    <2> QED
      BY <2>4, <2>5
  <1> QED
    BY <1>5, <1>6

(* Every step keeps the invariant.                                           *)
LEMMA ContractsStep == ContractsInv /\ [ContractsNext]_contractVars => ContractsInv'
  <1> SUFFICES ASSUME ContractsInv, [ContractsNext]_contractVars PROVE ContractsInv'
    OBVIOUS
  <1>1. CASE Create
    BY <1>1, CreateSafe
  <1>2. CASE Void
    BY <1>2 DEF Void, ContractsInv, ContractsTypeOK, ContractStatus, HandlersSaw, Saw, Minted, LinksMoveOn, Accepted
  <1>3. CASE Resend
    BY <1>3, ResendSafe
  <1>4. CASE Expire
    BY <1>4 DEF Expire, ContractsInv, ContractsTypeOK, HandlersSaw, Saw, Minted, LinksMoveOn, Accepted
  <1>5. CASE ReadToView
    <2>1. "view" \in DOMAIN Writes
      BY Ops
    <2> QED
      BY <1>5, <2>1, OpenedSafe DEF ReadToView, Viewable
  <1>6. CASE ReadToSign
    <2>1. "sign" \in DOMAIN Writes
      BY Ops
    <2> QED
      BY <1>6, <2>1, OpenedSafe DEF ReadToSign, Signable
  <1>7. CASE \E op \in {"dropboxSigned", "dropboxViewed", "dropboxDeclined"} : ReadEvent(op)
    <2> PICK op \in {"dropboxSigned", "dropboxViewed", "dropboxDeclined"} : ReadEvent(op)
      BY <1>7
    <2>1. op \in DOMAIN Writes
      BY Ops
    <2>2. contractStatus # "none"
      BY DEF ReadEvent, ContractsInv, Minted
    <2> QED
      BY <2>1, <2>2, OpenedSafe DEF ReadEvent
  <1>8. ASSUME NEW h \in signing, Write(h) PROVE ContractsInv'
    BY <1>8, WriteSafe
  <1>9. ASSUME NEW h \in signing, Drop(h) PROVE ContractsInv'
    BY <1>9 DEF Drop, ContractsInv, ContractsTypeOK, HandlersSaw, Saw, Minted, LinksMoveOn, Accepted
  <1>10. CASE UNCHANGED contractVars
    BY <1>10 DEF contractVars, ContractsInv, ContractsTypeOK, HandlersSaw, Saw, Minted, LinksMoveOn, Accepted
  <1> QED
    BY <1>1, <1>2, <1>3, <1>4, <1>5, <1>6, <1>7, <1>8, <1>9, <1>10 DEF ContractsNext

(* The invariant holds, whatever handlers, links and events there are.       *)
THEOREM ContractsInvariant == ContractsSpec => []ContractsInv
  BY StartsUnsigned, ContractsStep, PTL DEF ContractsSpec

(* The columns of the contract keep to their types.                          *)
THEOREM ContractsTyped == ContractsSpec => []ContractsTypeOK
  <1>1. ContractsInv => ContractsTypeOK
    BY DEF ContractsInv
  <1> QED
    BY <1>1, ContractsInvariant, PTL

(* Two signatures on one link take a handler that wrote over a change it had *)
(* not seen (the signature handler's two checks).                            *)
THEOREM OneSignature == ContractsSpec => []SignedOncePerLink
  <1>1. ContractsInv => SignedOncePerLink
    BY DEF ContractsInv, Accepted, SignedOncePerLink
  <1> QED
    BY <1>1, ContractsInvariant, PTL

(* A step revives a voided contract only as VoidedStays says.                *)
LEMMA RevivedStep ==
    ASSUME ContractsInv, [ContractsNext]_contractVars, contractStatus = "voided", contractStatus' # "voided"
    PROVE  \/ link' # link
           \/ stale'
           \/ \E h \in signing : h.op = "dropboxSigned" /\ h \notin signing'
  <1>1. CASE Create \/ Void \/ Expire \/ ReadToView \/ ReadToSign \/ UNCHANGED contractVars
    BY <1>1 DEF Create, Void, Expire, ReadToView, ReadToSign, Opened, contractVars
  <1>2. CASE Resend
    BY <1>2 DEF Resend, ContractsInv, ContractsTypeOK, Minted, Link
  <1>3. CASE \E op \in {"dropboxSigned", "dropboxViewed", "dropboxDeclined"} : ReadEvent(op)
    BY <1>3 DEF ReadEvent, Opened
  <1>4. ASSUME NEW h \in signing, Write(h)
        PROVE  stale' \/ (h.op = "dropboxSigned" /\ h \notin signing') \/ link' # link
    <2>1. h \in Handler /\ Saw(h)
      BY DEF ContractsInv, ContractsTypeOK, HandlersSaw
    <2>2. stale' \/ h.seen = "voided"
      BY <1>4 DEF Write
    <2>3. h.seen = "voided" => h.op \in {"dropboxSigned", "dropboxDeclined"}
      BY <2>1, Ops DEF Saw, Handler
    <2>4. h.op # "dropboxDeclined" /\ h \notin signing'
      BY <1>4 DEF Write, Writes
    <2> QED
      BY <2>2, <2>3, <2>4
  <1>5. ASSUME NEW h \in signing, Drop(h) PROVE FALSE
    BY <1>5 DEF Drop
  <1> QED
    BY <1>1, <1>2, <1>3, <1>4, <1>5 DEF ContractsNext

(* The link of a voided contract stays dead: only a resend, Dropbox Sign's   *)
(* word or a handler that read before the void revives it.                   *)
THEOREM VoidIsFinal == ContractsSpec => VoidedStays
  <1>1. ContractsInv /\ [ContractsNext]_contractVars =>
          [contractStatus = "voided" /\ contractStatus' # "voided" =>
             \/ link' # link
             \/ stale'
             \/ \E h \in signing : h.op = "dropboxSigned" /\ h \notin signing']_contractVars
    BY RevivedStep
  <1> QED
    BY <1>1, ContractsInvariant, PTL DEF ContractsSpec, VoidedStays

-----------------------------------------------------------------------------
(* Task reminders *)

\* A run works on its selection, and the one task between its two writes is in it.
RunsHold ==
    \A c \in CronRun : /\ cronRuns[c].announcedTask \subseteq cronRuns[c].work
                       /\ \A t, u \in cronRuns[c].announcedTask : t = u
                       /\ cronRuns[c].at # "overdue" => cronRuns[c].work = {}

\* Only a doubtful task is in the hands of two runs.
HeldOnce ==
    \A c, d \in CronRun :
       c # d => cronRuns[c].work \cap cronRuns[d].work \subseteq doubtful

\* The run that holds a task between its notice and its mark.
Marking(t) == \E c \in CronRun : t \in cronRuns[c].announcedTask

\* A task announced once is being marked, or is not overdue any more.
AnnouncedIsMarked ==
    \A t \in Task \ doubtful :
       /\ announced[t] <= 1
       /\ announced[t] = 1 => Marking(t) \/ t \in escalated \/ taskStatus[t] = "deleted"
       /\ \A c \in CronRun : t \in cronRuns[c].work \ cronRuns[c].announcedTask => announced[t] = 0

RemindersInv == RemindersTypeOK /\ RunsHold /\ HeldOnce /\ AnnouncedIsMarked

(* No task exists at first.                                                  *)
LEMMA StartsQuiet == RemindersInit => RemindersInv
  BY CronFaultsAssumption
  DEF RemindersInit, RemindersInv, RemindersTypeOK, CronState, CronIdle, RunsHold, HeldOnce, AnnouncedIsMarked

(* Whoever edits a task cannot bring one back from its deletion.             *)
LEMMA EditsSafe ==
    ASSUME RemindersInv, RemindersTypeOK',
           UNCHANGED <<escalated, announced, cronRuns, doubtful>>,
           \A t \in Task : taskStatus[t] = "deleted" => taskStatus'[t] = "deleted"
    PROVE  RemindersInv'
  <1>1. RunsHold' /\ HeldOnce'
    BY DEF RemindersInv, RunsHold, HeldOnce
  <1>2. AnnouncedIsMarked'
    BY DEF RemindersInv, AnnouncedIsMarked, Marking
  <1> QED
    BY <1>1, <1>2 DEF RemindersInv

(* The select takes tasks that are not escalated; one that another run holds *)
(* becomes doubtful.                                                         *)
LEMMA SelectSafe == ASSUME RemindersInv, NEW c \in CronRun, SelectOverdue(c) PROVE RemindersInv'
  <1> DEFINE work == {t \in Task \ turned[c] : Overdue(t)}
             held == UNION {cronRuns[d].work : d \in CronRun \ {c}}
  <1>1. /\ cronRuns' = [cronRuns EXCEPT ![c] = [CronIdle EXCEPT !.at = "overdue", !.work = work]]
        /\ doubtful' = doubtful \cup (work \cap held)
        /\ cronRuns[c].at = "reminding"
        /\ turned' = [turned EXCEPT ![c] = {}]
        /\ UNCHANGED <<taskStatus, taskDue, escalated, announced, cronFaults>>
    BY DEF SelectOverdue
  <1>2. cronRuns \in [CronRun -> CronState]
    BY DEF RemindersInv, RemindersTypeOK
  <1>3. /\ cronRuns'[c] = [at |-> "overdue", work |-> work, announcedTask |-> {}]
        /\ \A d \in CronRun \ {c} : cronRuns'[d] = cronRuns[d]
    BY <1>1, <1>2 DEF CronIdle
  <1>4. RemindersTypeOK'
    <2>1. [CronIdle EXCEPT !.at = "overdue", !.work = work] \in CronState
      BY DEF CronIdle, CronState
    <2>2. cronRuns' \in [CronRun -> CronState]
      BY <1>1, <1>2, <2>1
    <2> QED
      BY <1>1, <2>2 DEF RemindersInv, RemindersTypeOK
  <1>5. RunsHold'
    BY <1>3 DEF RemindersInv, RunsHold
  <1>6. HeldOnce'
    <2> SUFFICES ASSUME NEW d \in CronRun, NEW e \in CronRun, d # e,
                        NEW t \in cronRuns'[d].work, t \in cronRuns'[e].work
                 PROVE  t \in doubtful'
      BY DEF HeldOnce
    <2>1. CASE d # c /\ e # c
      BY <1>1, <1>3, <2>1 DEF RemindersInv, HeldOnce
    <2>2. CASE d = c \/ e = c
      BY <1>1, <1>3, <2>2
    <2> QED
      BY <2>1, <2>2
  <1>7. AnnouncedIsMarked'
    <2> SUFFICES ASSUME NEW t \in Task, t \notin doubtful'
                 PROVE  /\ announced[t] <= 1
                        /\ announced[t] = 1 => Marking(t)' \/ t \in escalated \/ taskStatus[t] = "deleted"
                        /\ \A d \in CronRun : t \in cronRuns'[d].work \ cronRuns'[d].announcedTask => announced[t] = 0
      BY <1>1 DEF AnnouncedIsMarked
    <2>1. t \notin doubtful /\ announced[t] \in Nat
      BY <1>1 DEF RemindersInv, RemindersTypeOK
    <2>2. cronRuns[c].announcedTask = {}
      BY <1>1 DEF RemindersInv, RunsHold
    <2>3. Marking(t) => Marking(t)'
      BY <1>3, <2>2 DEF Marking
    <2>4. Marking(t) /\ t \in work => t \in doubtful'
      BY <1>1, <2>2 DEF Marking, RemindersInv, RunsHold
    <2>5. t \in work => announced[t] = 0
      BY <2>1, <2>4 DEF RemindersInv, AnnouncedIsMarked, Overdue
    <2> QED
      BY <1>3, <2>1, <2>3, <2>5 DEF RemindersInv, AnnouncedIsMarked
  <1> QED
    BY <1>4, <1>5, <1>6, <1>7 DEF RemindersInv

(* The notice: its task was not announced before, or is doubtful.            *)
LEMMA AnnounceSafe == ASSUME RemindersInv, NEW c \in CronRun, Announce(c) PROVE RemindersInv'
  <1> PICK t \in cronRuns[c].work :
            /\ announced' = [announced EXCEPT ![t] = @ + 1]
            /\ cronRuns' = [cronRuns EXCEPT ![c].announcedTask = {t}]
    BY DEF Announce
  <1>1. cronRuns \in [CronRun -> CronState] /\ cronRuns[c].announcedTask = {}
    BY DEF Announce, RemindersInv, RemindersTypeOK
  <1>2. t \in Task /\ announced \in [Task -> Nat]
    BY DEF RemindersInv, RemindersTypeOK, CronState
  <1>3. /\ cronRuns'[c] = [cronRuns[c] EXCEPT !.announcedTask = {t}]
        /\ \A d \in CronRun \ {c} : cronRuns'[d] = cronRuns[d]
        /\ \A d \in CronRun : cronRuns'[d].work = cronRuns[d].work /\ cronRuns'[d].at = cronRuns[d].at
    BY <1>1 DEF CronState
  <1>4. RemindersTypeOK'
    <2>1. [cronRuns[c] EXCEPT !.announcedTask = {t}] \in CronState
      BY <1>1, <1>2 DEF CronState
    <2>2. cronRuns' \in [CronRun -> CronState] /\ announced' \in [Task -> Nat]
      BY <1>1, <1>2, <2>1
    <2> QED
      BY <2>2 DEF Announce, taskVars, RemindersInv, RemindersTypeOK
  <1>5. cronRuns'[c].announcedTask = {t}
    BY <1>1, <1>3 DEF CronState
  <1>6. RunsHold' /\ HeldOnce'
    BY <1>3, <1>5 DEF Announce, RemindersInv, RunsHold, HeldOnce
  <1>7. AnnouncedIsMarked'
    <2> SUFFICES ASSUME NEW u \in Task, u \notin doubtful
                 PROVE  /\ announced'[u] <= 1
                        /\ announced'[u] = 1 => Marking(u)' \/ u \in escalated \/ taskStatus[u] = "deleted"
                        /\ \A d \in CronRun : u \in cronRuns'[d].work \ cronRuns'[d].announcedTask => announced'[u] = 0
      BY DEF Announce, taskVars, AnnouncedIsMarked
    <2>1. CASE u = t
      <3>1. announced'[t] = 1
        BY <1>1, <1>2, <2>1 DEF RemindersInv, AnnouncedIsMarked
      <3>2. Marking(t)'
        BY <1>5 DEF Marking
      <3>3. \A d \in CronRun \ {c} : t \notin cronRuns[d].work
        BY <2>1 DEF RemindersInv, HeldOnce
      <3> QED
        BY <1>3, <1>5, <2>1, <3>1, <3>2, <3>3
    <2>2. CASE u # t
      <3>1. announced'[u] = announced[u]
        BY <1>2, <2>2
      <3>2. Marking(u) => Marking(u)'
        BY <1>1, <1>3 DEF Marking
      <3>3. \A d \in CronRun : u \in cronRuns'[d].work \ cronRuns'[d].announcedTask
                                 => u \in cronRuns[d].work \ cronRuns[d].announcedTask
        BY <1>1, <1>3
      <3> QED
        BY <3>1, <3>2, <3>3 DEF RemindersInv, AnnouncedIsMarked
    <2> QED
      BY <2>1, <2>2
  <1> QED
    BY <1>4, <1>6, <1>7 DEF RemindersInv

(* The mark lands on the task, unless that is deleted.                       *)
LEMMA EscalateSafe == ASSUME RemindersInv, NEW c \in CronRun, Escalate(c) PROVE RemindersInv'
  <1>0. PICK t \in cronRuns[c].announcedTask :
            /\ escalated' = IF taskStatus[t] = "deleted" THEN escalated ELSE escalated \cup {t}
            /\ cronRuns' = [cronRuns EXCEPT ![c].announcedTask = {}, ![c].work = @ \ {t}]
    BY DEF Escalate
  <1>a. UNCHANGED <<taskStatus, taskDue, turned, announced, cronFaults, doubtful>>
    BY DEF Escalate, taskVars
  <1>1. cronRuns \in [CronRun -> CronState]
    BY DEF RemindersInv, RemindersTypeOK
  <1>2. t \in Task
    BY <1>0, <1>1 DEF CronState
  <1>3. /\ cronRuns'[c] = [cronRuns[c] EXCEPT !.announcedTask = {}, !.work = @ \ {t}]
        /\ \A d \in CronRun \ {c} : cronRuns'[d] = cronRuns[d]
    BY <1>0, <1>1 DEF CronState
  <1>4. /\ cronRuns'[c].announcedTask = {} /\ cronRuns'[c].work = cronRuns[c].work \ {t}
        /\ cronRuns'[c].at = cronRuns[c].at
    BY <1>1, <1>3 DEF CronState
  <1>5. RemindersTypeOK'
    <2>1. [cronRuns[c] EXCEPT !.announcedTask = {}, !.work = @ \ {t}] \in CronState
      BY <1>1 DEF CronState
    <2>2. cronRuns' \in [CronRun -> CronState]
      BY <1>0, <1>1, <2>1
    <2> QED
      BY <1>0, <1>a, <1>2, <2>2 DEF RemindersInv, RemindersTypeOK
  <1>6. RunsHold' /\ HeldOnce'
    <2>1. \A d \in CronRun : cronRuns'[d].work \subseteq cronRuns[d].work
      BY <1>3, <1>4
    <2>2. HeldOnce'
      BY <1>a, <2>1 DEF RemindersInv, HeldOnce
    <2>3. RunsHold'
      <3> SUFFICES ASSUME NEW d \in CronRun
                   PROVE  /\ cronRuns'[d].announcedTask \subseteq cronRuns'[d].work
                          /\ \A u, v \in cronRuns'[d].announcedTask : u = v
                          /\ cronRuns'[d].at # "overdue" => cronRuns'[d].work = {}
        BY DEF RunsHold
      <3>1. CASE d = c
        BY <1>4, <2>1, <3>1 DEF RemindersInv, RunsHold
      <3>2. CASE d # c
        BY <1>3, <3>2 DEF RemindersInv, RunsHold
      <3> QED
        BY <3>1, <3>2
    <2> QED
      BY <2>2, <2>3
  <1>7. AnnouncedIsMarked'
    <2> SUFFICES ASSUME NEW u \in Task, u \notin doubtful
                 PROVE  /\ announced[u] <= 1
                        /\ announced[u] = 1 => Marking(u)' \/ u \in escalated' \/ taskStatus[u] = "deleted"
                        /\ \A d \in CronRun : u \in cronRuns'[d].work \ cronRuns'[d].announcedTask => announced[u] = 0
      BY <1>a DEF AnnouncedIsMarked
    <2>1. announced[u] <= 1
      BY DEF RemindersInv, AnnouncedIsMarked
    <2>2. announced[u] = 1 => Marking(u)' \/ u \in escalated' \/ taskStatus[u] = "deleted"
      <3>1. CASE Marking(u) /\ u # t
        BY <1>0, <1>3, <3>1 DEF Marking, RemindersInv, RunsHold
      <3>2. CASE u = t
        BY <1>0, <3>2
      <3>3. CASE ~Marking(u)
        BY <1>0, <3>3 DEF RemindersInv, AnnouncedIsMarked
      <3> QED
        BY <3>1, <3>2, <3>3
    <2>3. \A d \in CronRun : u \in cronRuns'[d].work \ cronRuns'[d].announcedTask => announced[u] = 0
      BY <1>0, <1>3, <1>4 DEF RemindersInv, RunsHold, AnnouncedIsMarked
    <2> QED
      BY <2>1, <2>2, <2>3
  <1> QED
    BY <1>5, <1>6, <1>7 DEF RemindersInv

(* A run that ends or breaks lets go of its tasks; the one it was marking is *)
(* doubtful then.                                                            *)
LEMMA LetGoSafe ==
    ASSUME RemindersInv, RemindersTypeOK', NEW c \in CronRun,
           cronRuns' = [cronRuns EXCEPT ![c] = CronIdle],
           doubtful' = doubtful \cup cronRuns[c].announcedTask,
           UNCHANGED <<taskStatus, escalated, announced>>
    PROVE  RemindersInv'
  <1>1. cronRuns \in [CronRun -> CronState]
    BY DEF RemindersInv, RemindersTypeOK
  <1>2. /\ cronRuns'[c].work = {} /\ cronRuns'[c].announcedTask = {}
        /\ \A d \in CronRun \ {c} : cronRuns'[d] = cronRuns[d]
    BY <1>1 DEF CronIdle
  <1>3. RunsHold' /\ HeldOnce'
    BY <1>2 DEF RemindersInv, RunsHold, HeldOnce
  <1>4. AnnouncedIsMarked'
    <2> SUFFICES ASSUME NEW t \in Task, t \notin doubtful'
                 PROVE  /\ announced[t] <= 1
                        /\ announced[t] = 1 => Marking(t)' \/ t \in escalated \/ taskStatus[t] = "deleted"
                        /\ \A d \in CronRun : t \in cronRuns'[d].work \ cronRuns'[d].announcedTask => announced[t] = 0
      BY DEF AnnouncedIsMarked
    <2>1. Marking(t) => Marking(t)'
      BY <1>2 DEF Marking
    <2> QED
      BY <1>2, <2>1 DEF RemindersInv, AnnouncedIsMarked
  <1> QED
    BY <1>3, <1>4 DEF RemindersInv

(* Every step keeps the invariant.                                           *)
LEMMA RemindersStep == RemindersInv /\ [RemindersNext]_reminderVars => RemindersInv'
  <1> SUFFICES ASSUME RemindersInv, [RemindersNext]_reminderVars PROVE RemindersInv'
    OBVIOUS
  <1> USE DEF RemindersInv, RemindersTypeOK
  <1>1. CASE CloseLead
    <2>1. RemindersTypeOK' /\ \A t \in Task : taskStatus[t] = "deleted" => taskStatus'[t] = "deleted"
      BY <1>1 DEF CloseLead
    <2> QED
      BY <1>1, <2>1, EditsSafe DEF CloseLead
  <1>2. ASSUME NEW t \in Task, CreateTask(t) \/ EditTask(t) \/ TaskAges(t) PROVE RemindersInv'
    <2>1. RemindersTypeOK'
      <3>1. turned' \in [CronRun -> SUBSET Task]
        <4>1. turned' = turned \/ \E since \in SUBSET CronRun : TurnsSince(t, since)
          BY <1>2 DEF CreateTask, EditTask, TaskAges, Reminding
        <4> QED
          BY <4>1 DEF TurnsSince
      <3> QED
        BY <1>2, <3>1 DEF CreateTask, EditTask, TaskAges
    <2>2. /\ UNCHANGED <<escalated, announced, cronRuns, doubtful>>
          /\ \A u \in Task : taskStatus[u] = "deleted" => taskStatus'[u] = "deleted"
      BY <1>2 DEF CreateTask, EditTask, TaskAges
    <2> QED
      BY <2>1, <2>2, EditsSafe
  <1>3. ASSUME NEW c \in CronRun, CronStarts(c) PROVE RemindersInv'
    <2>1. cronRuns' = [cronRuns EXCEPT ![c].at = "reminding"] /\ cronRuns[c].at = "idle"
      BY <1>3 DEF CronStarts
    <2>2. [cronRuns[c] EXCEPT !.at = "reminding"] \in CronState
      BY DEF CronState
    <2>3. RemindersTypeOK'
      BY <1>3, <2>1, <2>2 DEF CronStarts, taskVars
    <2>4. \A d \in CronRun : /\ cronRuns'[d].work = cronRuns[d].work
                             /\ cronRuns'[d].announcedTask = cronRuns[d].announcedTask
                             /\ cronRuns'[d].at = "overdue" => cronRuns[d].at = "overdue"
      BY <2>1 DEF CronState
    <2>5. RunsHold' /\ HeldOnce'
      BY <1>3, <2>1, <2>4 DEF CronStarts, RunsHold, HeldOnce
    <2>6. AnnouncedIsMarked'
      BY <1>3, <2>4 DEF CronStarts, taskVars, AnnouncedIsMarked, Marking
    <2> QED
      BY <2>3, <2>5, <2>6
  <1>4. ASSUME NEW c \in CronRun, SelectOverdue(c) \/ Announce(c) \/ Escalate(c) PROVE RemindersInv'
    BY <1>4, SelectSafe, AnnounceSafe, EscalateSafe
  <1>5. ASSUME NEW c \in CronRun, CronEnds(c) \/ CronBreaks(c) PROVE RemindersInv'
    <2>1. cronRuns' = [cronRuns EXCEPT ![c] = CronIdle] /\ UNCHANGED <<taskStatus, escalated, announced>>
      BY <1>5 DEF CronEnds, CronBreaks, taskVars
    <2>2. doubtful' = doubtful \cup cronRuns[c].announcedTask
      BY <1>5 DEF CronEnds, CronBreaks, RunsHold
    <2>3. RemindersTypeOK'
      BY <1>5, <2>1, CronFaultsAssumption DEF CronEnds, CronBreaks, taskVars, CronState, CronIdle
    <2> QED
      BY <2>1, <2>2, <2>3, LetGoSafe
  <1>6. CASE UNCHANGED reminderVars
    <2>1. RemindersTypeOK'
      BY <1>6 DEF reminderVars
    <2>2. cronRuns' = cronRuns /\ doubtful' = doubtful /\ UNCHANGED <<taskStatus, escalated, announced>>
      BY <1>6 DEF reminderVars
    <2> QED
      BY <2>1, <2>2, EditsSafe
  <1> QED
    BY <1>1, <1>2, <1>3, <1>4, <1>5, <1>6 DEF RemindersNext

(* The invariant holds, whatever tasks and runs there are.                   *)
THEOREM RemindersInvariant == RemindersSpec => []RemindersInv
  BY StartsQuiet, RemindersStep, PTL DEF RemindersSpec

(* Tasks and runs keep to their types.                                       *)
THEOREM RemindersTyped == RemindersSpec => []RemindersTypeOK
  <1>1. RemindersInv => RemindersTypeOK
    BY DEF RemindersInv
  <1> QED
    BY <1>1, RemindersInvariant, PTL

(* runTaskAutomationCron's mark is enough against a second notice, unless    *)
(* two runs overlap or one breaks between its two writes.                    *)
THEOREM NoSecondNotice == RemindersSpec => []AnnouncedOnce
  <1>1. RemindersInv => AnnouncedOnce
    BY DEF RemindersInv, RemindersTypeOK, AnnouncedIsMarked, AnnouncedOnce
  <1> QED
    BY <1>1, RemindersInvariant, PTL

-----------------------------------------------------------------------------
(* The circuit breaker and the browser sessions *)

BreakerInv ==
    /\ BreakerTypeOK
    /\ rawState # "half_open"
    /\ rawState = "closed" => failureCount < FailureThreshold
    /\ rawState = "open" => probesAdmitted <= probeInFlight

(* A breaker starts closed, with nothing counted.                            *)
LEMMA BreakerStarts == BreakerInit => BreakerInv
  <1> SUFFICES ASSUME BreakerInit PROVE BreakerInv
    OBVIOUS
  <1>1. rawState = "closed" /\ recovered \in BOOLEAN /\ underWay \subseteq Call
    BY DEF BreakerInit
  <1>2. failureCount = 0 /\ successCount = 0 /\ probeInFlight = 0 /\ cuts = 0 /\ probesAdmitted = 0
    BY DEF BreakerInit
  <1> QED
    BY <1>1, <1>2, BreakerAssumption DEF BreakerInv, BreakerTypeOK

(* A call let through: a probe is counted on both sides.                     *)
LEMMA AdmitSafe == ASSUME BreakerInv, NEW c \in Call, Admit(c) PROVE BreakerInv'
  <1> USE BreakerAssumption DEF BreakerInv, BreakerTypeOK
  <1>1. /\ underWay' = underWay \cup {c}
        /\ UNCHANGED <<rawState, recovered, failureCount, successCount, cuts>>
    BY DEF Admit
  <1>2. underWay' \subseteq Call
    BY <1>1
  <1>3. CASE UNCHANGED <<probeInFlight, probesAdmitted>>
    BY <1>1, <1>2, <1>3
  <1>4. CASE MayProbe /\ probeInFlight' = ProbeCounted(probeInFlight) /\ probesAdmitted' = probesAdmitted + 1
    <2>1. probeInFlight < HalfOpenMaxProbes /\ probeInFlight' = probeInFlight + 1
      BY <1>4 DEF MayProbe, ProbeCounted
    <2> QED
      BY <1>1, <1>2, <1>4, <2>1
  <1> QED
    BY <1>3, <1>4 DEF Admit

(* Whatever a call reports, the count of an open circuit stays.              *)
LEMMA ReportSafe == ASSUME BreakerInv, NEW c \in Call, Succeed(c) \/ Fail(c) PROVE BreakerInv'
  <1> USE BreakerAssumption DEF BreakerInv, BreakerTypeOK
  <1>1. CASE Succeed(c)
    <2>1. underWay' \subseteq Call /\ cuts' = cuts
      BY <1>1 DEF Succeed
    <2>2. CASE rawState = "closed" /\ failureCount > 0
      BY <1>1, <2>1, <2>2 DEF Succeed
    <2>3. CASE ~(rawState = "closed" /\ failureCount > 0)
      BY <1>1, <2>1, <2>3 DEF Succeed
    <2> QED
      BY <2>2, <2>3
  <1>2. CASE Fail(c)
    <2>1. underWay' \subseteq Call /\ cuts' = cuts
      BY <1>2 DEF Fail
    <2>2. CASE rawState = "closed" /\ failureCount + 1 >= FailureThreshold
      <3>1. OpenCircuit
        BY <1>2, <2>2 DEF Fail
      <3>2. rawState' = "open" /\ recovered' \in BOOLEAN
        BY <3>1 DEF OpenCircuit
      <3>3. failureCount' = 0 /\ successCount' = 0 /\ probeInFlight' = 0 /\ probesAdmitted' = 0
        BY <3>1 DEF OpenCircuit
      <3> QED
        BY <2>1, <3>2, <3>3
    <2>3. CASE rawState = "closed" /\ failureCount + 1 < FailureThreshold
      BY <1>2, <2>1, <2>3 DEF Fail
    <2>4. CASE rawState = "open"
      BY <1>2, <2>1, <2>4 DEF Fail
    <2> QED
      BY <2>2, <2>3, <2>4
  <1> QED
    BY <1>1, <1>2

(* Every step keeps the invariant.                                           *)
LEMMA BreakerStep == BreakerInv /\ [BreakerNext]_breakerVars => BreakerInv'
  <1> SUFFICES ASSUME BreakerInv, [BreakerNext]_breakerVars PROVE BreakerInv'
    OBVIOUS
  <1>1. CASE Recover
    BY <1>1 DEF Recover, BreakerInv, BreakerTypeOK
  <1>2. CASE ResetBreaker
    BY <1>2, BreakerAssumption DEF ResetBreaker, CloseCircuit, BreakerInv, BreakerTypeOK
  <1>3. ASSUME NEW c \in Call, Admit(c) PROVE BreakerInv'
    BY <1>3, AdmitSafe
  <1>4. ASSUME NEW c \in Call, Succeed(c) \/ Fail(c) PROVE BreakerInv'
    BY <1>4, ReportSafe
  <1>5. ASSUME NEW c \in Call, Cut(c) PROVE BreakerInv'
    BY <1>5, BreakerAssumption DEF Cut, BreakerInv, BreakerTypeOK
  <1>6. CASE UNCHANGED breakerVars
    BY <1>6 DEF breakerVars, BreakerInv, BreakerTypeOK
  <1> QED
    BY <1>1, <1>2, <1>3, <1>4, <1>5, <1>6 DEF BreakerNext

(* The invariant holds, whatever the thresholds.                             *)
THEOREM BreakerInvariant == BreakerSpec => []BreakerInv
  BY BreakerStarts, BreakerStep, PTL DEF BreakerSpec

(* The breaker's counters keep to their bounds.                              *)
THEOREM BreakerTyped == BreakerSpec => []BreakerTypeOK
  <1>1. BreakerInv => BreakerTypeOK
    BY DEF BreakerInv
  <1> QED
    BY <1>1, BreakerInvariant, PTL

(* An opened circuit lets no more calls through than half_open_max_probes.   *)
THEOREM FewProbes == BreakerSpec => []ProbesBounded
  <1>1. BreakerInv => ProbesBounded
    BY BreakerAssumption DEF BreakerInv, BreakerTypeOK, ProbesBounded
  <1> QED
    BY <1>1, BreakerInvariant, PTL

-----------------------------------------------------------------------------
\* While the saved file is gone, and for the job that logs in, there is a loss
\* the logins have not used up; only one job at a time logs in.
LoginsPaid ==
    /\ logins <= losses + 1
    /\ stateFile = "none" => logins <= losses
    /\ \A j \in BrowserJob : contexts[j] = "login" => logins <= losses

SessionInv ==
    /\ SessionTypeOK
    /\ LoginsPaid
    /\ \A i, j \in BrowserJob :
          contexts[i] \in {"login", "saving"} /\ contexts[j] \in {"login", "saving"} => i = j

(* No file, no login, no loss: true, because the first login needs no loss.  *)
LEMMA SessionStarts == SessionInit => SessionInv
  <1> SUFFICES ASSUME SessionInit PROVE SessionInv
    OBVIOUS
  <1>1. /\ stateFile \in SessionState /\ redisState \in SessionState
        /\ contexts \in [BrowserJob -> ContextState] /\ carried \in [BrowserJob -> SessionState]
        /\ invalidating \in BOOLEAN
    BY DEF SessionInit, SessionState, ContextState
  <1>2. logins = 0 /\ losses = 0 /\ \A j \in BrowserJob : contexts[j] = "idle"
    BY DEF SessionInit
  <1> QED
    BY <1>1, <1>2, LossesAssumption DEF SessionInv, SessionTypeOK, LoginsPaid

(* Every step keeps the logins paid for.                                     *)
LEMMA SessionStep == SessionInv /\ [SessionNext]_sessionVars => SessionInv'
  <1> SUFFICES ASSUME SessionInv, [SessionNext]_sessionVars PROVE SessionInv'
    OBVIOUS
  <1> USE LossesAssumption DEF SessionInv, SessionTypeOK, LoginsPaid, SessionState, ContextState
  <1>1. CASE Unlink
    BY <1>1 DEF Unlink
  <1>2. CASE DeleteRedisState
    BY <1>2 DEF DeleteRedisState
  <1>3. CASE SessionExpires
    <2>1. UNCHANGED <<contexts, invalidating, logins, losses>>
      BY <1>3 DEF SessionExpires
    <2>2. stateFile' \in SessionState /\ redisState' \in SessionState /\ (stateFile' = "none" <=> stateFile = "none")
      BY <1>3 DEF SessionExpires, Forgotten
    <2>3. carried' \in [BrowserJob -> SessionState]
      BY <1>3 DEF SessionExpires, Forgotten
    <2> QED
      BY <2>1, <2>2, <2>3
  <1>4. CASE Redeploy
    <2>1. invalidating' \in BOOLEAN /\ stateFile' = "none" /\ redisState' = redisState
      BY <1>4 DEF Redeploy
    <2>2. /\ contexts' = [j \in BrowserJob |-> "idle"] /\ carried' = [j \in BrowserJob |-> "none"]
          /\ losses < MaxLosses /\ losses' = losses + 1 /\ logins' = logins
      BY <1>4 DEF Redeploy
    <2> QED
      BY <2>1, <2>2
  <1>5. ASSUME NEW j \in BrowserJob, LoadSession(j) PROVE SessionInv'
    BY <1>5 DEF LoadSession, Becomes
  <1>6. ASSUME NEW j \in BrowserJob, ResolveSession(j) PROVE SessionInv'
    BY <1>6 DEF ResolveSession, Becomes
  <1>7. ASSUME NEW j \in BrowserJob, TakeLock(j) PROVE SessionInv'
    BY <1>7 DEF TakeLock, Becomes, LockFree, StillMissing
  <1>8. ASSUME NEW j \in BrowserJob, LoggedIn(j) PROVE SessionInv'
    BY <1>8 DEF LoggedIn, Becomes
  <1>9. ASSUME NEW j \in BrowserJob, SaveSession(j) PROVE SessionInv'
    BY <1>9 DEF SaveSession, Becomes
  <1>10. ASSUME NEW j \in BrowserJob, CloseContext(j) PROVE SessionInv'
    BY <1>10 DEF CloseContext, Becomes
  <1>11. CASE UNCHANGED sessionVars
    BY <1>11 DEF sessionVars
  <1> QED
    BY <1>1, <1>2, <1>3, <1>4, <1>5, <1>6, <1>7, <1>8, <1>9, <1>10, <1>11 DEF SessionNext

(* The invariant holds, whatever contexts there are.                         *)
THEOREM SessionInvariant == SessionSpec => []SessionInv
  BY SessionStarts, SessionStep, PTL DEF SessionSpec

(* The file, Redis and the contexts keep to their types.                     *)
THEOREM SessionTyped == SessionSpec => []SessionTypeOK
  <1>1. SessionInv => SessionTypeOK
    BY DEF SessionInv
  <1> QED
    BY <1>1, SessionInvariant, PTL

(* The lock and the second look at the file keep jobs that start together    *)
(* from logging in twice.                                                    *)
THEOREM OneLoginPerLoss == SessionSpec => []LoginOncePerLoss
  <1>1. SessionInv => LoginOncePerLoss
    BY DEF SessionInv, LoginsPaid, LoginOncePerLoss
  <1> QED
    BY <1>1, SessionInvariant, PTL

-----------------------------------------------------------------------------
(* The services side by side *)

(* A step of one service changes no variable of another, so each behaves as  *)
(* its own specification says.                                               *)
LEMMA EachServiceRuns ==
    ServicesSpec => /\ ContractsSpec /\ AgentSpec /\ InboxSpec /\ CallLogSpec
                    /\ BreakerSpec /\ LookupsSpec /\ RemindersSpec /\ SessionSpec
  <1> DEFINE Each ==
               /\ [ContractsNext]_contractVars /\ [AgentNext]_agentVars
               /\ [InboxNext]_inboxVars /\ [CallLogNext]_callLogVars /\ [BreakerNext]_breakerVars
               /\ [LookupsNext]_lookupVars /\ [RemindersNext]_reminderVars /\ [SessionNext]_sessionVars
  <1>1. ServicesInit => /\ ContractsInit /\ AgentInit /\ InboxInit /\ CallLogInit
                        /\ BreakerInit /\ LookupsInit /\ RemindersInit /\ SessionInit
    BY DEF ServicesInit
  <1>2. [ServicesNext]_serviceVars => Each
    <2> SUFFICES ASSUME [ServicesNext]_serviceVars PROVE Each
      OBVIOUS
    <2>1. CASE UNCHANGED serviceVars
      BY <2>1 DEF serviceVars
    <2>2. CASE ContractsRun \/ AgentRuns
      BY <2>2 DEF ContractsRun, AgentRuns, Rest
    <2>3. CASE InboxRuns \/ CallsRun \/ BreakerRuns
      BY <2>3 DEF InboxRuns, CallsRun, BreakerRuns, Rest
    <2>4. CASE LookupsRun \/ RemindersRun \/ SessionRuns
      BY <2>4 DEF LookupsRun, RemindersRun, SessionRuns, Rest
    <2> QED
      BY <2>1, <2>2, <2>3, <2>4 DEF ServicesNext
  <1> QED
    BY <1>1, <1>2, PTL
    DEF ServicesSpec, ContractsSpec, AgentSpec, InboxSpec, CallLogSpec,
        BreakerSpec, LookupsSpec, RemindersSpec, SessionSpec

(* ServicesTypeOK: every service keeps to its types, whichever of them runs. *)
THEOREM ServicesTyped == ServicesSpec => []ServicesTypeOK
  BY EachServiceRuns, ContractsTyped, AgentTyped, InboxTyped, CallLogTyped,
     BreakerTyped, LookupsTyped, RemindersTyped, SessionTyped, PTL
  DEF ServicesTypeOK

=============================================================================
