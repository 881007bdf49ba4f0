---------------------------- MODULE ConsumerView ----------------------------
(***************************************************************************)
(* The page a shopper gets for a batch code (services/backend: routes/     *)
(* public.ts and services/consumerView.ts), beside the ledger it is read   *)
(* from.  One request makes two queries at once, for the record and for    *)
(* its history; transactions commit between them and they are answered in  *)
(* any order.  Nothing else happens between the second answer and the      *)
(* page, so the page is an operator of what was read.                      *)
(*                                                                         *)
(* Left out: places, dates and the wording of a recall.                    *)
(***************************************************************************)
EXTENDS SupplyChain

CONSTANTS
  Host,                    \* the certificate of the backend that serves the page
  Unread                   \* what a query without an answer has returned

VARIABLES
  page                     \* the request and what was read for it, or Unread:
                           \* batchId, asked (the length of the batch's history
                           \* at the request), batch, history, error

pageVars == <<vars, page>>

-----------------------------------------------------------------------------
(* services/consumerView.ts.  A history is kept oldest first here, and read *)
(* newest first there.                                                     *)

IsHold(record) == record.status = "COLD_CHAIN_BREACH"

Holds(past) == {i \in DOMAIN past : IsHold(past[i])}

\* Defect: the present status says it all.
ColdChainStatus_PresentOnly(status, past) ==
  IF status = "COLD_CHAIN_BREACH" THEN "UNDER_INVESTIGATION" ELSE "MAINTAINED"

\* Defect: a recall counts as the end of the breach.
ColdChainStatus_RecallClears(status, past) ==
  IF status = "COLD_CHAIN_BREACH" THEN "UNDER_INVESTIGATION"
  ELSE IF Holds(past) = {} THEN "MAINTAINED"
  ELSE IF IsHold(past[Len(past)]) THEN "UNRESOLVED_BREACH" ELSE "BREACH_RESOLVED"

\* Defect: entries before the breach count as entries after it.
ColdChainStatus_AnyEntryClears(status, past) ==
  IF status = "COLD_CHAIN_BREACH" THEN "UNDER_INVESTIGATION"
  ELSE IF Holds(past) = {} THEN "MAINTAINED"
  ELSE IF \E i \in DOMAIN past : past[i].status \in CustodyStages
  THEN "BREACH_RESOLVED" ELSE "UNRESOLVED_BREACH"

\* coldChainStatus: a hold is lifted when a record after the latest hold is
\* in a custody stage again.
ColdChainStatus(status, past) ==
  LET afterHolds == {i \in DOMAIN past : \A h \in Holds(past) : h < i}
      cleared == \E i \in afterHolds : past[i].status # "RECALLED"
  IN IF status = "COLD_CHAIN_BREACH" THEN "UNDER_INVESTIGATION"
     ELSE IF Holds(past) = {} THEN "MAINTAINED"
     ELSE IF cleared THEN "BREACH_RESOLVED" ELSE "UNRESOLVED_BREACH"

\* consumerView of what the two queries returned.
Answered == page # Unread /\ page.error = "" /\ Unread \notin {page.batch, page.history}
ShownColdChain == ColdChainStatus(page.batch.status, page.history)

-----------------------------------------------------------------------------
(* routes/public.ts.                                                       *)

Ask(b) ==
  /\ page = Unread
  /\ page' = [batchId |-> b, asked |-> Len(history[b]),
              batch |-> Unread, history |-> Unread, error |-> ""]
  /\ UNCHANGED vars

Waiting == page # Unread /\ page.error = ""

\* getInvokingStakeholder and getBatchRecord, which both queries begin with.
MayRead == AssertActiveRole(Host, Roles)
Found(b) == batches[b] # Absent

ReadBatch ==
  /\ Waiting /\ page.batch = Unread
  /\ MayRead /\ Found(page.batchId)
  /\ page' = [page EXCEPT !.batch = batches[page.batchId]]
  /\ UNCHANGED vars

ReadHistory ==
  /\ Waiting /\ page.history = Unread
  /\ MayRead /\ Found(page.batchId)
  /\ page' = [page EXCEPT !.history = history[page.batchId]]
  /\ UNCHANGED vars

\* The first query that fails ends the request: a batch that does not exist
\* is reported as such, a host that may not read as a passing failure.
ReadFails ==
  /\ Waiting /\ Unread \in {page.batch, page.history}
  /\ ~(MayRead /\ Found(page.batchId))
  /\ page' = [page EXCEPT !.batch = Unread, !.history = Unread,
                          !.error = IF MayRead THEN "404" ELSE "502"]
  /\ UNCHANGED vars

Close ==
  /\ page # Unread
  /\ Answered \/ page.error # ""
  /\ page' = Unread
  /\ UNCHANGED vars

PageNext == (\E b \in Batches : Ask(b)) \/ ReadBatch \/ ReadHistory \/ ReadFails \/ Close

ViewInit == Init /\ page = Unread
ViewNext == (Next /\ UNCHANGED page) \/ PageNext
ViewSpec == ViewInit /\ [][ViewNext]_pageVars

-----------------------------------------------------------------------------
(* Properties.                                                             *)

\* The cold chain of a batch after the first n records of its history, from
\* what the contract keeps: a recalled batch still carries the stage a hold
\* interrupted exactly when nobody lifted that hold.
ColdChainAt(b, n) ==
  LET r == history[b][n] IN
  IF IsHold(r) THEN "UNDER_INVESTIGATION"
  ELSE IF r.statusBeforeBreach # Absent THEN "UNRESOLVED_BREACH"
  ELSE IF \E i \in 1..n : IsHold(history[b][i]) THEN "BREACH_RESOLVED" ELSE "MAINTAINED"

\* What coldChainStatus infers from statuses alone is what the evidence and
\* the records say: maintained exactly when no unsafe evidence was ever
\* anchored for the batch, unresolved exactly when it was recalled out of a
\* hold.  "A recall withdraws the batch and does not count as resolving its
\* breach."
ColdChainInferred ==
  \A b \in Batches : batches[b] # Absent =>
    LET shown == ColdChainStatus(batches[b].status, history[b]) IN
    /\ shown = ColdChainAt(b, Len(history[b]))
    /\ shown = "MAINTAINED" <=>
         ~\E e \in EvidenceIds : /\ evidence[e] # Absent
                                 /\ evidence[e].batchId = b
                                 /\ evidence[e].complianceOutcome = "UNSAFE"

\* "History reveals cleared breaches that the current status alone would
\* hide": a page requested after a breach tells of it, and a batch that was
\* there at the request is not reported missing, whatever commits while the
\* two queries are under way.
PageHidesNothing ==
  page # Unread =>
    /\ page.error = "404" => page.asked = 0
    /\ (Answered /\ \E i \in 1..page.asked : IsHold(history[page.batchId][i]))
         => ShownColdChain # "MAINTAINED"

\* What the page says of the cold chain was so at a moment between the
\* request and the answer.  The two queries see different ledgers, and one
\* verdict is weaker for it: "unresolved" may be said of a batch whose hold
\* was being lifted, never of one that was not on hold or recalled from one.
PageWasTrue ==
  Answered =>
    LET b == page.batchId
        moments == {ColdChainAt(b, n) : n \in (page.asked .. Len(history[b])) \ {0}}
    IN \/ ShownColdChain \in moments
       \/ ShownColdChain = "UNRESOLVED_BREACH" /\ "UNDER_INVESTIGATION" \in moments

=============================================================================
