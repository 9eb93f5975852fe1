----------------------------- MODULE Contracts -----------------------------
(* One contract for signature: routes/crm/contracts.ts. Every handler reads  *)
(* the row, checks what it read, and writes by id without looking again;     *)
(* `signing` holds the handlers between their read and their write.          *)
(* Contracts share nothing, so one is enough.                                *)
EXTENDS Naturals

CONSTANTS
    SignSlot,       \* the handlers that can be under way at once
    MaxLinks        \* tokens minted, Dropbox Sign's ids included

ASSUME MaxLinksAssumption == MaxLinks \in Nat \ {0}

VARIABLES
    contractStatus, \* "none" before the insert
    link,           \* signingToken: the number of the last token stored
    minted,         \* tokens made so far, Dropbox Sign's request id included
    expired,        \* tokenExpiresAt has passed
    dropboxId,      \* the token that is Dropbox Sign's request id, 0 without
    signing,        \* handlers that have read and not written yet
    signatures,     \* how often a signature was accepted on each link
    stale           \* a handler wrote although the row had changed since

contractVars == <<contractStatus, link, minted, expired, dropboxId, signing, signatures, stale>>

ContractStatus == {"draft", "sent", "viewed", "signed", "voided"}
Link == 0..MaxLinks

\* What each handler writes into the status column.
Writes == [mail |-> "sent", dropboxMail |-> "sent", view |-> "viewed", sign |-> "signed",
           dropboxSigned |-> "signed", dropboxViewed |-> "viewed", dropboxDeclined |-> "voided"]

Handler == [slot : SignSlot, op : DOMAIN Writes, seen : ContractStatus, link : Link]

ContractsTypeOK ==
    /\ contractStatus \in ContractStatus \cup {"none"}
    /\ link \in Link /\ minted \in Link /\ dropboxId \in Link
    /\ expired \in BOOLEAN /\ stale \in BOOLEAN
    /\ signing \subseteq Handler
    /\ signatures \in [Link -> Nat]

ContractsInit ==
    /\ contractStatus = "none" /\ link = 0 /\ minted = 0 /\ dropboxId = 0
    /\ expired = FALSE /\ stale = FALSE
    /\ signing = {} /\ signatures = [l \in Link |-> 0]

-----------------------------------------------------------------------------
(* A handler has read the row and passed its checks. *)
Opened(op) ==
    /\ \E s \in SignSlot \ {h.slot : h \in signing} :
          signing' = signing \cup {[slot |-> s, op |-> op, seen |-> contractStatus, link |-> link]}
    /\ UNCHANGED <<contractStatus, link, minted, expired, dropboxId, signatures, stale>>

(* POST /: the draft is stored, then Dropbox Sign or our own mail delivers.  *)
(* Dropbox Sign gives the request an id of its own.                          *)
Create ==
    /\ contractStatus = "none"
    /\ contractStatus' = "draft" /\ link' = 1
    /\ \E op \in {"mail", "dropboxMail"} :
          /\ \E s \in SignSlot : signing' = {[slot |-> s, op |-> op, seen |-> "draft", link |-> 1]}
          /\ minted' = IF op = "mail" THEN 1 ELSE 2
          /\ dropboxId' = IF op = "mail" THEN 0 ELSE 2
          /\ minted' \in Link
    /\ UNCHANGED <<expired, signatures, stale>>

(* POST /:id/void: no look at the status at all. *)
Void ==
    /\ contractStatus # "none"
    /\ contractStatus' = "voided"
    /\ UNCHANGED <<link, minted, expired, dropboxId, signing, signatures, stale>>

(* POST /:id/resend: a new link, whatever the status was. *)
Resend ==
    /\ contractStatus # "none" /\ minted < MaxLinks
    /\ contractStatus' = "sent" /\ expired' = FALSE
    /\ minted' = minted + 1 /\ link' = minted + 1
    /\ UNCHANGED <<dropboxId, signing, signatures, stale>>

(* Which statuses the sign page and the signature accept; before each,       *)
(* the form a missing check would have.                                      *)
SignedViewable(s) == s # "voided"
Viewable(s) == s \in {"sent", "draft"}
VoidedSignable(s) == s # "signed"
Signable(s) == s \notin {"signed", "voided"}

(* GET and POST /public/sign/:token with the current token; any other token  *)
(* finds no contract.                                                        *)
ReadToView ==
    /\ contractStatus # "none" /\ ~expired
    /\ Viewable(contractStatus) /\ Opened("view")

ReadToSign ==
    /\ contractStatus # "none" /\ ~expired
    /\ Signable(contractStatus) /\ Opened("sign")

(* POST /dropbox-webhook: an event, possibly late or repeated. *)
ReadEvent(op) ==
    /\ dropboxId # 0 /\ link = dropboxId
    /\ (op = "dropboxViewed" => contractStatus = "sent")
    /\ Opened(op)

(* The write by id of any of them. *)
Write(h) ==
    /\ signing' = signing \ {h}
    /\ contractStatus' = Writes[h.op]
    /\ link' = IF h.op = "dropboxMail" THEN dropboxId ELSE link
    /\ signatures' = IF h.op = "sign" THEN [signatures EXCEPT ![h.link] = @ + 1] ELSE signatures
    /\ stale' = (stale \/ contractStatus # h.seen \/ link # h.link)
    /\ UNCHANGED <<minted, expired, dropboxId>>

(* The mail or the query fails, or the server stops. *)
Drop(h) ==
    /\ signing' = signing \ {h}
    /\ UNCHANGED <<contractStatus, link, minted, expired, dropboxId, signatures, stale>>

(* Thirty days pass. *)
Expire ==
    /\ contractStatus # "none" /\ ~expired /\ expired' = TRUE
    /\ UNCHANGED <<contractStatus, link, minted, dropboxId, signing, signatures, stale>>

ContractsNext ==
    \/ Create \/ Void \/ Resend \/ Expire \/ ReadToView \/ ReadToSign
    \/ \E op \in {"dropboxSigned", "dropboxViewed", "dropboxDeclined"} : ReadEvent(op)
    \/ \E h \in signing : Write(h) \/ Drop(h)

ContractsSpec == ContractsInit /\ [][ContractsNext]_contractVars

-----------------------------------------------------------------------------
(* A link accepts one signature, as long as no handler wrote over a change   *)
(* it had not seen: the 409 of the sign handler covers resends, voids and    *)
(* webhook events in any order.                                              *)
SignedOncePerLink == ~stale => \A l \in Link : signatures[l] <= 1

(* contracts.ts:517 answers "Already signed": a link is signed once.         *)
NeverSignedTwice == \A l \in Link : signatures[l] <= 1

(* A link never revives a voided contract by itself: the contract leaves     *)
(* "voided" by a resend, by Dropbox Sign's own word, or by a handler that    *)
(* had read before it was voided.                                            *)
VoidedStays ==
    [][contractStatus = "voided" /\ contractStatus' # "voided" =>
          \/ link' # link
          \/ stale'
          \/ \E h \in signing : h.op = "dropboxSigned" /\ h \notin signing']_contractVars

=============================================================================
