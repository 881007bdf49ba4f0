-------------------------- MODULE OracleSubmission --------------------------
(***************************************************************************)
(* How the oracle anchors a set of sensor readings: it stores the readings *)
(* in its database as PENDING, submits their summary through its backend   *)
(* to Fabric, and marks the row by what it learns (services/oracle/src,    *)
(* services/storage/src, and the backend's temperature routes).            *)
(*                                                                         *)
(* Several runs work at the same time, on the same readings when a run is  *)
(* retried before an earlier one has ended.  Any call between the run, the *)
(* backend, Fabric and the database may fail; a transaction may commit     *)
(* after its submitter gave up on it; a run may die at any step.           *)
(*                                                                         *)
(* verifyReadings comes before all this, changes nothing and only throws:  *)
(* a run here is one whose readings were verified.  Fabric decides a       *)
(* submission by one look at the ledger when it commits, which FabricLedger *)
(* shows of the real channel.                                              *)
(***************************************************************************)
EXTENDS Naturals, FiniteSets

CONSTANTS
  Runs,                    \* oracle processes
  ReadingSets,             \* verified reading sets, each of one batch
  EvidenceIds,
  EvidenceIdOf,            \* the id derived from batch and content hash
  Transactions,            \* transaction ids, numbers
  Absent,                  \* no row, no evidence, no submission
  MaxFaults                \* bound on failures and crashes in a behaviour

ASSUME FaultsAssumption == MaxFaults \in Nat

ASSUME EvidenceIdAssumption == EvidenceIdOf \in [ReadingSets -> EvidenceIds]

ASSUME TransactionsAssumption == Transactions \subseteq Nat /\ Absent \notin Nat

VARIABLES
  run,                     \* run -> where it is and what it knows
  rows,                    \* evidence id -> row of temperature_evidence, with its readings
  ledger,                  \* evidence id -> anchored evidence
  txs,                     \* transaction id -> submission on its way
  recalled,                \* the contract takes no more evidence for the batch
  faults                   \* failures so far

vars == <<run, rows, ledger, txs, recalled, faults>>

Active == {"saving", "submitting", "awaiting", "readingBack", "recovering",
           "markingAnchored", "markingFailed"}

\* `tx` is the submission a run waits for, or the transaction it will mark.
Run == [at : Active \cup {"idle"}, readings : ReadingSets \cup {Absent},
        tx : Transactions \cup {Absent}, submitted : BOOLEAN]

NoRun == [at |-> "idle", readings |-> Absent, tx |-> Absent, submitted |-> FALSE]

\* The table's own check: no ANCHORED row without a transaction id.
Row == {row \in [readings : ReadingSets, status : {"PENDING", "ANCHORED", "FAILED"},
                 tx : Transactions \cup {Absent}] :
          row.status = "ANCHORED" => row.tx # Absent}

Anchor == [readings : ReadingSets, tx : Transactions]

Submission == [readings : ReadingSets,
               state : {"proposed", "ordered", "committed", "refused", "invalid", "lost"}]

ASSUME AbsentAssumption == Absent \notin ReadingSets \cup Row \cup Anchor \cup Submission

TypeOK ==
  /\ run \in [Runs -> Run]
  /\ rows \in [EvidenceIds -> Row \cup {Absent}]
  /\ ledger \in [EvidenceIds -> Anchor \cup {Absent}]
  /\ txs \in [Transactions -> Submission \cup {Absent}]
  /\ recalled \in BOOLEAN
  /\ faults \in 0..MaxFaults

-----------------------------------------------------------------------------

\* Defect: the hash is left out of the id.
EvidenceId_BatchOnly(readings) == CHOOSE e \in EvidenceIds : TRUE

EvidenceId(readings) == EvidenceIdOf[readings]

\* The evidence a run works on.
Subject(r) == EvidenceId(run[r].readings)

Goto(r, step) == run' = [run EXCEPT ![r].at = step]

\* runOracle returns or throws: the run is over.
End(r) == run' = [run EXCEPT ![r] = NoRun]

\* A step that fails, as long as the behaviour may have more failures.
Fault == faults < MaxFaults /\ faults' = faults + 1

AnchoredRow(e) == rows[e] # Absent /\ rows[e].status = "ANCHORED"

-----------------------------------------------------------------------------
(* Storing the readings.                                                   *)

\* A run starts, also a retry of what another run is still working on or has
\* anchored already.
Start(r, readings) ==
  /\ run[r].at = "idle"
  /\ run' = [run EXCEPT ![r] = [at |-> "saving", readings |-> readings,
                                tx |-> Absent, submitted |-> FALSE]]
  /\ UNCHANGED <<rows, ledger, txs, recalled, faults>>

\* saveEvidence, one database transaction: row and readings are written
\* anew unless the row says ANCHORED.
SaveEvidence(r) ==
  /\ run[r].at = "saving"
  /\ rows' = [rows EXCEPT ![Subject(r)] =
       IF AnchoredRow(Subject(r)) THEN @
       ELSE [readings |-> run[r].readings, status |-> "PENDING", tx |-> Absent]]
  /\ Goto(r, "submitting")
  /\ UNCHANGED <<ledger, txs, recalled, faults>>

-----------------------------------------------------------------------------
(* The submission on its way through the backend and Fabric.               *)

\* Transaction ids are unique; the model reuses the ones of submissions that
\* came to nothing and that nobody waits for.
Unused == {t \in Transactions :
             \/ txs[t] = Absent
             \/ /\ txs[t].state \in {"refused", "invalid", "lost"}
                /\ \A r \in Runs : ~(run[r].at = "awaiting" /\ run[r].tx = t)}

Submit(r) ==
  /\ run[r].at = "submitting"
  /\ \E t \in Unused :
     /\ \A u \in Unused : t <= u
     /\ txs' = [txs EXCEPT ![t] = [readings |-> run[r].readings, state |-> "proposed"]]
     /\ run' = [run EXCEPT ![r].at = "awaiting", ![r].tx = t]
  /\ UNCHANGED <<rows, ledger, recalled, faults>>

\* submitTemperatureEvidence accepts the submission on the present ledger.
Accepted(t) == ~recalled /\ ledger[EvidenceId(txs[t].readings)] = Absent

Decide(t, state) == txs' = [txs EXCEPT ![t].state = state]

Endorse(t) ==
  /\ txs[t] # Absent
  /\ txs[t].state = "proposed"
  /\ Decide(t, IF Accepted(t) THEN "ordered" ELSE "refused")
  /\ UNCHANGED <<run, rows, ledger, recalled, faults>>

Commit(t) ==
  /\ txs[t] # Absent
  /\ txs[t].state = "ordered"
  /\ IF Accepted(t)
     THEN /\ ledger' = [ledger EXCEPT ![EvidenceId(txs[t].readings)] =
                          [readings |-> txs[t].readings, tx |-> t]]
          /\ Decide(t, "committed")
     ELSE Decide(t, "invalid") /\ UNCHANGED ledger
  /\ UNCHANGED <<run, rows, recalled, faults>>

\* Another transaction changed the batch record in between.
Conflict(t) ==
  /\ txs[t] # Absent
  /\ txs[t].state = "ordered"
  /\ Fault
  /\ Decide(t, "invalid")
  /\ UNCHANGED <<run, rows, ledger, recalled>>

\* The submission never reaches a block, and nobody is told.
Lose(t) ==
  /\ txs[t] # Absent
  /\ txs[t].state \in {"proposed", "ordered"}
  /\ Fault
  /\ Decide(t, "lost")
  /\ UNCHANGED <<run, rows, ledger, recalled>>

\* A regulator recalls the batch.
Recall ==
  /\ ~recalled
  /\ recalled' = TRUE
  /\ UNCHANGED <<run, rows, ledger, txs, faults>>

-----------------------------------------------------------------------------
(* What the run hears back.                                                *)

\* 201: the backend saw the transaction commit.
AnswerCommitted(r) ==
  /\ run[r].at = "awaiting"
  /\ txs[run[r].tx].state = "committed"
  /\ run' = [run EXCEPT ![r].at = "readingBack", ![r].submitted = TRUE]
  /\ UNCHANGED <<rows, ledger, txs, recalled, faults>>

\* The submission came to nothing, and nobody else waits for it.
Forget(r) ==
  /\ txs' = [txs EXCEPT ![run[r].tx] = Absent]
  /\ run' = [run EXCEPT ![r].at = "recovering"]

\* 400 or 502: refused at endorsement, or invalid in its block.
AnswerRefused(r) ==
  /\ run[r].at = "awaiting"
  /\ txs[run[r].tx].state \in {"refused", "invalid"}
  /\ Forget(r)
  /\ UNCHANGED <<rows, ledger, recalled, faults>>

\* Defect: a gateway call without a deadline.
Deadline_None(r) == FALSE /\ UNCHANGED vars

\* 502: the gateway's deadline ends the wait for a lost transaction.
Deadline(r) ==
  /\ run[r].at = "awaiting"
  /\ txs[run[r].tx].state = "lost"
  /\ Forget(r)
  /\ UNCHANGED <<rows, ledger, recalled, faults>>

\* The deadline passes while the transaction lives, or the answer is lost:
\* the run cannot tell this from a refusal.
AnswerLost(r) ==
  /\ run[r].at = "awaiting"
  /\ Fault
  /\ Goto(r, "recovering")
  /\ UNCHANGED <<rows, ledger, txs, recalled>>

\* After a 201 the record is read back for the id of its transaction.
ReadBack(r) ==
  /\ run[r].at = "readingBack"
  /\ LET onLedger == ledger[Subject(r)] IN
     run' = IF onLedger # Absent
            THEN [run EXCEPT ![r].at = "markingAnchored", ![r].tx = onLedger.tx]
            ELSE [run EXCEPT ![r].at = "recovering"]
  /\ UNCHANGED <<rows, ledger, txs, recalled, faults>>

ReadBackFails(r) ==
  /\ run[r].at = "readingBack"
  /\ Fault
  /\ Goto(r, "recovering")
  /\ UNCHANGED <<rows, ledger, txs, recalled>>

\* Defect: every error counts as a refusal.
Recover_NeverAsks(r) ==
  /\ run[r].at = "recovering"
  /\ Goto(r, "markingFailed")
  /\ UNCHANGED <<rows, ledger, txs, recalled, faults>>

\* After an error the ledger is asked first: evidence found there was
\* anchored all the same, an answer that there is none marks the row FAILED
\* unless the submission is known to have committed.
Recover(r) ==
  /\ run[r].at = "recovering"
  /\ LET onLedger == ledger[Subject(r)] IN
     run' = IF onLedger # Absent
            THEN [run EXCEPT ![r].at = "markingAnchored", ![r].tx = onLedger.tx]
            ELSE IF run[r].submitted THEN [run EXCEPT ![r] = NoRun]
            ELSE [run EXCEPT ![r].at = "markingFailed"]
  /\ UNCHANGED <<rows, ledger, txs, recalled, faults>>

\* Defect: without an answer the submission is taken for committed.
RecoverUnanswered_AssumesCommit(r) ==
  /\ run[r].at = "recovering"
  /\ Fault
  /\ Goto(r, "markingAnchored")
  /\ UNCHANGED <<rows, ledger, txs, recalled>>

\* Without an answer from the ledger the row stays PENDING.
RecoverUnanswered(r) ==
  /\ run[r].at = "recovering"
  /\ Fault
  /\ End(r)
  /\ UNCHANGED <<rows, ledger, txs, recalled>>

-----------------------------------------------------------------------------
(* Marking the row.  Neither update looks at the status it replaces.       *)

\* Defect: the transaction id is not written along.
MarkAnchored_NoTxId(r) ==
  /\ run[r].at = "markingAnchored"
  /\ rows' = [rows EXCEPT ![Subject(r)].status = "ANCHORED"]
  /\ End(r)
  /\ UNCHANGED <<ledger, txs, recalled, faults>>

MarkAnchored(r) ==
  /\ run[r].at = "markingAnchored"
  /\ rows' = [rows EXCEPT ![Subject(r)].status = "ANCHORED", ![Subject(r)].tx = run[r].tx]
  /\ End(r)
  /\ UNCHANGED <<ledger, txs, recalled, faults>>

MarkFailed(r) ==
  /\ run[r].at = "markingFailed"
  /\ rows' = [rows EXCEPT ![Subject(r)].status = "FAILED"]
  /\ End(r)
  /\ UNCHANGED <<ledger, txs, recalled, faults>>

\* A database call fails: its transaction is rolled back, the run ends.  (One
\* whose commit succeeds and whose answer is lost is the step, then Crash.)
DatabaseFails(r) ==
  /\ run[r].at \in {"saving", "markingAnchored", "markingFailed"}
  /\ Fault
  /\ End(r)
  /\ UNCHANGED <<rows, ledger, txs, recalled>>

\* The process dies and forgets everything; its transaction lives on.
Crash(r) ==
  /\ run[r].at \in Active
  /\ Fault
  /\ End(r)
  /\ UNCHANGED <<rows, ledger, txs, recalled>>

-----------------------------------------------------------------------------

Init ==
  /\ run = [r \in Runs |-> NoRun]
  /\ rows = [e \in EvidenceIds |-> Absent]
  /\ ledger = [e \in EvidenceIds |-> Absent]
  /\ txs = [t \in Transactions |-> Absent]
  /\ recalled = FALSE
  /\ faults = 0

Progress(r) ==
  \/ SaveEvidence(r) \/ Submit(r)
  \/ AnswerCommitted(r) \/ AnswerRefused(r) \/ Deadline(r)
  \/ ReadBack(r) \/ Recover(r)
  \/ MarkAnchored(r) \/ MarkFailed(r)

Failure(r) ==
  AnswerLost(r) \/ ReadBackFails(r) \/ RecoverUnanswered(r) \/ DatabaseFails(r) \/ Crash(r)

Next ==
  \/ \E r \in Runs : Progress(r) \/ Failure(r) \/ \E readings \in ReadingSets : Start(r, readings)
  \/ \E t \in Transactions : Endorse(t) \/ Commit(t) \/ Conflict(t) \/ Lose(t)
  \/ Recall

Spec == Init /\ [][Next]_vars

\* Fabric decides what is submitted to it, and a run that lives goes on:
\* every call it makes is answered or ends with its deadline.
Liveliness ==
  /\ \A t \in Transactions : WF_vars(Endorse(t) \/ Commit(t))
  /\ \A r \in Runs : WF_vars(Progress(r))

\* Nothing in the code starts a run again.  That somebody does, until the
\* row says ANCHORED, is an assumption of what retrying can achieve.
Retry(r, readings) == Start(r, readings) /\ ~AnchoredRow(EvidenceId(readings))

Retried == \A readings \in ReadingSets : SF_vars(\E r \in Runs : Retry(r, readings))

FairSpec == Spec /\ Liveliness /\ Retried

-----------------------------------------------------------------------------
(* Properties.                                                             *)

\* A row says ANCHORED only of what is on the ledger, with the transaction
\* that put it there and the readings that were hashed, whichever run wrote
\* it and whatever it could still find out.
AnchoredRowsOnLedger ==
  \A e \in EvidenceIds : AnchoredRow(e) =>
    /\ ledger[e] # Absent
    /\ rows[e].tx = ledger[e].tx
    /\ rows[e].readings = ledger[e].readings

\* Evidence is never on the ledger without its readings in the database,
\* under the same id: otherwise nobody could ever verify it.
ReadingsBehindEveryAnchor ==
  \A e \in EvidenceIds : ledger[e] # Absent =>
    rows[e] # Absent /\ rows[e].readings = ledger[e].readings

\* No run hangs: whatever is lost on the way, it ends.
RunsEnd == \A r \in Runs : run[r].at \in Active ~> run[r].at = "idle"

\* A retry recovers a commit whose answer was lost.  Once failures have
\* stopped and somebody keeps retrying, the database agrees with the ledger
\* for good about everything that was anchored.
Reconciled == <>[](\A e \in EvidenceIds : ledger[e] # Absent => AnchoredRow(e))

\* runOracle.ts: "Mark FAILED only when Fabric answered and no committed
\* record exists."
FailedOnlyWithoutRecord ==
  [][\A e \in EvidenceIds :
       rows'[e] # rows[e] /\ rows'[e].status = "FAILED" => ledger[e] = Absent]_vars

=============================================================================
