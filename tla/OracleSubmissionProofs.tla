----------------------- MODULE OracleSubmissionProofs -----------------------
(***************************************************************************)
(* Theorems about OracleSubmission, for any number of runs, reading sets   *)
(* and failures: what the database says ANCHORED is on the ledger, and     *)
(* nothing is on the ledger without its readings in the database.          *)
(*                                                                         *)
(* The database row is what ties run, submission and ledger together: it   *)
(* is written before anything is submitted and never removed.  So every    *)
(* run past its save, every submission and every anchor has its row.       *)
(*                                                                         *)
(* That the row holds the very readings that were anchored needs ids that  *)
(* tell reading sets apart.  The code cuts the hash to 32 bits, so this is *)
(* a hypothesis of the theorems that compare readings, and of no other.    *)
(***************************************************************************)
EXTENDS OracleSubmission, TLAPS

EvidenceIdsDistinct ==
  \A m, n \in ReadingSets : EvidenceIdOf[m] = EvidenceIdOf[n] => m = n

\* A run that has saved its readings and is not over.
Saved == Active \ {"saving"}

HasRow(e) == rows[e] # Absent

RunsOK ==
  \A r \in Runs :
    /\ run[r].at \in Active => run[r].readings \in ReadingSets
    /\ run[r].at \in Saved => HasRow(Subject(r))
    /\ run[r].at = "markingAnchored" =>
         ledger[Subject(r)] # Absent /\ run[r].tx = ledger[Subject(r)].tx

\* Rows and anchors are kept under the id of their readings.
KeptUnderId ==
  \A e \in EvidenceIds :
    /\ HasRow(e) => EvidenceId(rows[e].readings) = e
    /\ ledger[e] # Absent => EvidenceId(ledger[e].readings) = e

SubmissionsStored ==
  \A t \in Transactions : txs[t] # Absent => HasRow(EvidenceId(txs[t].readings))

AnchorsStored == \A e \in EvidenceIds : ledger[e] # Absent => HasRow(e)

\* What an ANCHORED row says of the ledger, its readings aside.
AnchoredKnown ==
  \A e \in EvidenceIds : AnchoredRow(e) => ledger[e] # Absent /\ rows[e].tx = ledger[e].tx

IInv == /\ TypeOK /\ RunsOK /\ KeptUnderId
        /\ SubmissionsStored /\ AnchorsStored /\ AnchoredKnown

-----------------------------------------------------------------------------
(* Lemmas.                                                                 *)

\* A run with readings works on some evidence.
LEMMA SubjectTyped ==
  ASSUME TypeOK, NEW r \in Runs, run[r].readings \in ReadingSets
  PROVE  Subject(r) \in EvidenceIds
BY EvidenceIdAssumption DEF Subject, EvidenceId

LEMMA InvInit == Init => IInv
<1> SUFFICES ASSUME Init PROVE IInv
  OBVIOUS
<1>1. TypeOK
  <2>1. NoRun \in Run
    BY DEF NoRun, Run
  <2>2. run \in [Runs -> Run]
    BY <2>1 DEF Init
  <2>3. faults \in 0..MaxFaults
    BY FaultsAssumption DEF Init
  <2>4. /\ rows \in [EvidenceIds -> Row \cup {Absent}]
        /\ ledger \in [EvidenceIds -> Anchor \cup {Absent}]
        /\ txs \in [Transactions -> Submission \cup {Absent}]
        /\ recalled \in BOOLEAN
    BY DEF Init
  <2> QED
    BY <2>2, <2>3, <2>4 DEF TypeOK
<1>2. RunsOK
  BY DEF Init, RunsOK, NoRun, Active, Saved
<1>3. KeptUnderId /\ SubmissionsStored /\ AnchorsStored /\ AnchoredKnown
  BY DEF Init, KeptUnderId, SubmissionsStored, AnchorsStored, AnchoredKnown, HasRow, AnchoredRow
<1> QED
  BY <1>1, <1>2, <1>3 DEF IInv

\* A failure is counted, up to the bound.
LEMMA FaultTyped ==
  ASSUME TypeOK, Fault \/ UNCHANGED faults
  PROVE  faults' \in 0..MaxFaults
BY FaultsAssumption DEF TypeOK, Fault

\* A step that changes one run and leaves database and ledger alone only has
\* to say what is known of the run where it goes.
LEMMA RunStep ==
  ASSUME IInv, NEW r \in Runs,
         run' \in [Runs -> Run],
         \A s \in Runs \ {r} : run'[s] = run[s],
         run'[r].at \in Active => run'[r].readings \in ReadingSets,
         run'[r].at \in Saved => HasRow(EvidenceId(run'[r].readings)),
         run'[r].at = "markingAnchored" =>
           /\ ledger[EvidenceId(run'[r].readings)] # Absent
           /\ run'[r].tx = ledger[EvidenceId(run'[r].readings)].tx,
         UNCHANGED <<rows, ledger, recalled>>,
         Fault \/ UNCHANGED faults,
         txs' \in [Transactions -> Submission \cup {Absent}],
         SubmissionsStored'
  PROVE  IInv'
<1>1. TypeOK'
  BY FaultTyped DEF IInv, TypeOK
<1>2. RunsOK'
  BY DEF IInv, RunsOK, HasRow, Subject, EvidenceId
<1>3. KeptUnderId' /\ AnchorsStored' /\ AnchoredKnown'
  BY DEF IInv, KeptUnderId, AnchorsStored, AnchoredKnown, HasRow, AnchoredRow, EvidenceId
<1> QED
  BY <1>1, <1>2, <1>3 DEF IInv

\* Forgetting, losing or deciding submissions leaves them stored.
LEMMA SubmissionsKept ==
  ASSUME SubmissionsStored, UNCHANGED rows,
         \A t \in Transactions :
           txs'[t] # Absent => txs[t] # Absent /\ txs'[t].readings = txs[t].readings
  PROVE  SubmissionsStored'
BY DEF SubmissionsStored, HasRow, EvidenceId

\* A run that is over, or gave up: nothing is known of it.
LEMMA EndStep ==
  ASSUME IInv, NEW r \in Runs, End(r), Fault \/ UNCHANGED faults,
         UNCHANGED <<rows, ledger, txs, recalled>>
  PROVE  IInv'
<1>1. NoRun \in Run /\ NoRun.at = "idle"
  BY DEF NoRun, Run
<1>2. run' \in [Runs -> Run] /\ run'[r].at = "idle" /\ \A s \in Runs \ {r} : run'[s] = run[s]
  BY <1>1 DEF End, IInv, TypeOK
<1>3. SubmissionsStored' /\ txs' \in [Transactions -> Submission \cup {Absent}]
  BY SubmissionsKept DEF IInv, TypeOK
<1> QED
  BY <1>2, <1>3, RunStep DEF Active, Saved

\* A saved run that goes on, without having looked at the ledger.
LEMMA GoOnStep ==
  ASSUME IInv, NEW r \in Runs, run[r].at \in Saved,
         run' \in [Runs -> Run],
         \A s \in Runs \ {r} : run'[s] = run[s],
         run'[r].at # "markingAnchored", run'[r].readings = run[r].readings,
         Fault \/ UNCHANGED faults, UNCHANGED <<rows, ledger, recalled>>,
         txs' \in [Transactions -> Submission \cup {Absent}],
         SubmissionsStored'
  PROVE  IInv'
<1>1. run[r].readings \in ReadingSets /\ HasRow(EvidenceId(run'[r].readings))
  BY DEF IInv, RunsOK, Saved, Subject
<1> QED
  BY <1>1, RunStep

-----------------------------------------------------------------------------
(* One lemma per action.                                                   *)

LEMMA StartStep ==
  ASSUME IInv, NEW r \in Runs, NEW readings \in ReadingSets, Start(r, readings)
  PROVE  IInv'
<1>1. /\ run' \in [Runs -> Run] /\ \A s \in Runs \ {r} : run'[s] = run[s]
      /\ run'[r].at = "saving" /\ run'[r].readings = readings
  BY DEF Start, IInv, TypeOK, Run, Active
<1>2. SubmissionsStored' /\ txs' \in [Transactions -> Submission \cup {Absent}]
  BY SubmissionsKept DEF Start, IInv, TypeOK
<1> QED
  BY <1>1, <1>2, RunStep DEF Start, Saved

\* The row is written under the id of the run's readings, and no row that
\* says ANCHORED is touched.
LEMMA SaveStep ==
  ASSUME IInv, NEW r \in Runs, SaveEvidence(r)
  PROVE  IInv'
<1> DEFINE new == [readings |-> run[r].readings, status |-> "PENDING", tx |-> Absent]
<1>1. run[r].readings \in ReadingSets
  BY DEF IInv, RunsOK, SaveEvidence, Active
<1>2. PICK e \in EvidenceIds : e = Subject(r)
  BY <1>1, SubjectTyped DEF IInv
<1>3. new \in Row /\ new # Absent /\ new.status = "PENDING" /\ EvidenceId(new.readings) = e
  BY <1>1, <1>2, AbsentAssumption DEF Row, Subject
<1>4. rows' = [rows EXCEPT ![e] = IF AnchoredRow(e) THEN rows[e] ELSE new]
  BY <1>2 DEF SaveEvidence
<1>5. rows \in [EvidenceIds -> Row \cup {Absent}]
  BY DEF IInv, TypeOK
<1>6. /\ \A x \in EvidenceIds : rows'[x] = rows[x] \/ (x = e /\ rows'[x] = new /\ ~AnchoredRow(x))
      /\ rows' \in [EvidenceIds -> Row \cup {Absent}]
      /\ rows'[e] # Absent
  <2>1. CASE AnchoredRow(e)
    BY <1>4, <1>5, <2>1 DEF AnchoredRow
  <2>2. CASE ~AnchoredRow(e)
    <3>1. rows' = [rows EXCEPT ![e] = new]
      BY <1>4, <2>2
    <3> QED
      BY <1>3, <1>5, <2>2, <3>1
  <2> QED
    BY <2>1, <2>2
<1>7. \A x \in EvidenceIds : rows[x] # Absent => rows'[x] # Absent
  BY <1>3, <1>6
<1>8. /\ run' = [run EXCEPT ![r].at = "submitting"]
      /\ UNCHANGED <<ledger, txs, recalled, faults>>
  BY DEF SaveEvidence, Goto
<1>9. TypeOK'
  <2>1. run' \in [Runs -> Run]
    BY <1>8 DEF IInv, TypeOK, Run, Active
  <2> QED
    BY <1>6, <1>8, <2>1 DEF IInv, TypeOK
<1>10. RunsOK'
  <2> SUFFICES ASSUME NEW s \in Runs
               PROVE  /\ run'[s].at \in Active => run'[s].readings \in ReadingSets
                      /\ run'[s].at \in Saved => rows'[EvidenceId(run'[s].readings)] # Absent
                      /\ run'[s].at = "markingAnchored" =>
                           /\ ledger[EvidenceId(run'[s].readings)] # Absent
                           /\ run'[s].tx = ledger[EvidenceId(run'[s].readings)].tx
    BY <1>8 DEF RunsOK, HasRow, Subject, EvidenceId
  <2>1. CASE s = r
    <3>1. run'[s].at = "submitting" /\ run'[s].readings = run[r].readings
      BY <2>1, <1>8 DEF IInv, TypeOK, Run
    <3> QED
      BY <3>1, <1>1, <1>2, <1>6 DEF Subject
  <2>2. CASE s # r
    <3>1. run'[s] = run[s]
      BY <2>2, <1>8 DEF IInv, TypeOK
    <3>2. run[s].at \in Saved => run[s].readings \in ReadingSets /\ Subject(s) \in EvidenceIds
      BY SubjectTyped DEF IInv, RunsOK, Saved
    <3> QED
      BY <3>1, <3>2, <1>7 DEF IInv, RunsOK, Subject, HasRow
  <2> QED
    BY <2>1, <2>2
<1>11. KeptUnderId'
  BY <1>3, <1>6, <1>8 DEF IInv, KeptUnderId, HasRow, EvidenceId
<1>12. SubmissionsStored'
  <2>1. \A t \in Transactions : txs[t] # Absent => EvidenceId(txs[t].readings) \in EvidenceIds
    BY EvidenceIdAssumption DEF IInv, TypeOK, Submission, EvidenceId
  <2> QED
    BY <2>1, <1>7, <1>8 DEF IInv, SubmissionsStored, HasRow, EvidenceId
<1>13. AnchorsStored'
  BY <1>7, <1>8 DEF IInv, AnchorsStored, HasRow
<1>14. AnchoredKnown'
  BY <1>3, <1>6, <1>8 DEF IInv, AnchoredKnown, AnchoredRow
<1> QED
  BY <1>9, <1>10, <1>11, <1>12, <1>13, <1>14 DEF IInv

\* The transaction takes the lowest free id; its run waits for it.
LEMMA SubmitStep ==
  ASSUME IInv, NEW r \in Runs, Submit(r)
  PROVE  IInv'
<1>1. PICK t \in Unused :
        /\ txs' = [txs EXCEPT ![t] = [readings |-> run[r].readings, state |-> "proposed"]]
        /\ run' = [run EXCEPT ![r].at = "awaiting", ![r].tx = t]
  BY DEF Submit
<1>2. t \in Transactions
  BY <1>1 DEF Unused
<1>3. run[r] \in Run /\ run[r].at \in Saved
  BY DEF Submit, IInv, TypeOK, Saved, Active
<1>4. run[r].readings \in ReadingSets /\ HasRow(Subject(r))
  BY <1>3 DEF IInv, RunsOK, Saved
<1>5. txs' \in [Transactions -> Submission \cup {Absent}]
  BY <1>1, <1>2, <1>4 DEF IInv, TypeOK, Submission
<1>6. SubmissionsStored'
  <2>1. txs'[t].readings = run[r].readings
        /\ \A u \in Transactions \ {t} : txs'[u] = txs[u]
    BY <1>1, <1>2 DEF IInv, TypeOK
  <2> QED
    BY <2>1, <1>4 DEF Submit, IInv, SubmissionsStored, HasRow, EvidenceId, Subject
<1>7. /\ run' \in [Runs -> Run] /\ \A s \in Runs \ {r} : run'[s] = run[s]
      /\ run'[r].at = "awaiting" /\ run'[r].readings = run[r].readings
  BY <1>1, <1>2, <1>3 DEF IInv, TypeOK, Run, Active
<1> QED
  BY <1>3, <1>5, <1>6, <1>7, GoOnStep DEF Submit

\* Steps that only tell a saved run where to go on.
LEMMA AtStep ==
  ASSUME IInv, NEW r \in Runs, run[r].at \in Saved,
         NEW at \in {"readingBack", "recovering", "markingFailed"}, NEW submitted \in BOOLEAN,
         \/ run' = [run EXCEPT ![r].at = at]
         \/ run' = [run EXCEPT ![r].at = at, ![r].submitted = submitted],
         Fault \/ UNCHANGED faults, UNCHANGED <<rows, ledger, recalled>>,
         txs' \in [Transactions -> Submission \cup {Absent}],
         \A t \in Transactions :
           txs'[t] # Absent => txs[t] # Absent /\ txs'[t].readings = txs[t].readings
  PROVE  IInv'
<1>1. /\ run' \in [Runs -> Run] /\ \A s \in Runs \ {r} : run'[s] = run[s]
      /\ run'[r].at = at /\ run'[r].readings = run[r].readings
  <2>1. CASE run' = [run EXCEPT ![r].at = at]
    BY <2>1 DEF IInv, TypeOK, Run, Active
  <2>2. CASE run' = [run EXCEPT ![r].at = at, ![r].submitted = submitted]
    <3>1. run \in [Runs -> Run] /\ run[r] \in Run
      BY DEF IInv, TypeOK
    <3>2. [run[r] EXCEPT !.at = at, !.submitted = submitted] \in Run
      BY <3>1 DEF Run, Active
    <3>3. run' = [run EXCEPT ![r] = [run[r] EXCEPT !.at = at, !.submitted = submitted]]
      BY <2>2, <3>1
    <3> QED
      BY <3>1, <3>2, <3>3 DEF Run
  <2> QED
    BY <2>1, <2>2
<1>2. SubmissionsStored'
  BY SubmissionsKept DEF IInv
<1> QED
  BY <1>1, <1>2, GoOnStep

LEMMA AnswerStep ==
  ASSUME IInv, NEW r \in Runs, AnswerCommitted(r) \/ AnswerRefused(r) \/ Deadline(r) \/ AnswerLost(r)
  PROVE  IInv'
<1>1. run[r].at \in Saved
  BY DEF AnswerCommitted, AnswerRefused, Deadline, AnswerLost, Saved, Active
<1>2. /\ txs' \in [Transactions -> Submission \cup {Absent}]
      /\ \A t \in Transactions :
           txs'[t] # Absent => txs[t] # Absent /\ txs'[t].readings = txs[t].readings
  BY DEF AnswerCommitted, AnswerRefused, Deadline, AnswerLost, Forget, IInv, TypeOK
<1>3. CASE AnswerCommitted(r)
  BY <1>1, <1>2, <1>3, AtStep DEF AnswerCommitted
<1>4. CASE AnswerRefused(r) \/ Deadline(r) \/ AnswerLost(r)
  <2>1. run' = [run EXCEPT ![r].at = "recovering"] /\ (Fault \/ UNCHANGED faults)
        /\ UNCHANGED <<rows, ledger, recalled>>
    BY <1>4 DEF AnswerRefused, Deadline, AnswerLost, Forget, Goto
  <2> QED
    BY <1>1, <1>2, <2>1, AtStep
<1> QED
  BY <1>3, <1>4

\* A run that found the evidence knows the transaction that anchored it.
LEMMA FoundStep ==
  ASSUME IInv, NEW r \in Runs, run[r].at \in Saved, ledger[Subject(r)] # Absent,
         run' = [run EXCEPT ![r].at = "markingAnchored", ![r].tx = ledger[Subject(r)].tx],
         UNCHANGED <<rows, ledger, txs, recalled, faults>>
  PROVE  IInv'
<1>1. run[r] \in Run /\ run[r].readings \in ReadingSets /\ HasRow(Subject(r))
  BY DEF IInv, TypeOK, RunsOK, Saved
<1>2. ledger[Subject(r)].tx \in Transactions
  BY <1>1, SubjectTyped DEF IInv, TypeOK, Anchor
<1>3. /\ run' \in [Runs -> Run] /\ \A s \in Runs \ {r} : run'[s] = run[s]
      /\ run'[r].at = "markingAnchored" /\ run'[r].readings = run[r].readings
      /\ run'[r].tx = ledger[Subject(r)].tx
  BY <1>1, <1>2 DEF IInv, TypeOK, Run, Active
<1>4. EvidenceId(run'[r].readings) = Subject(r)
  BY <1>3 DEF Subject
<1>5. SubmissionsStored' /\ txs' \in [Transactions -> Submission \cup {Absent}]
  BY SubmissionsKept DEF IInv, TypeOK
<1> QED
  BY <1>1, <1>3, <1>4, <1>5, RunStep

LEMMA ReadBackStep ==
  ASSUME IInv, NEW r \in Runs, ReadBack(r) \/ ReadBackFails(r)
  PROVE  IInv'
<1>1. run[r].at \in Saved
  BY DEF ReadBack, ReadBackFails, Saved, Active
<1>2. CASE ReadBack(r) /\ ledger[Subject(r)] # Absent
  BY <1>1, <1>2, FoundStep DEF ReadBack
<1>3. CASE ReadBackFails(r) \/ (ReadBack(r) /\ ledger[Subject(r)] = Absent)
  <2>1. run' = [run EXCEPT ![r].at = "recovering"] /\ (Fault \/ UNCHANGED faults)
        /\ UNCHANGED <<rows, ledger, txs, recalled>>
    BY <1>3 DEF ReadBack, ReadBackFails, Goto
  <2> QED
    BY <1>1, <2>1, AtStep DEF IInv, TypeOK
<1> QED
  BY <1>2, <1>3

LEMMA RecoverStep ==
  ASSUME IInv, NEW r \in Runs, Recover(r) \/ RecoverUnanswered(r)
  PROVE  IInv'
<1>1. run[r].at \in Saved
  BY DEF Recover, RecoverUnanswered, Saved, Active
<1>2. CASE RecoverUnanswered(r)
  BY <1>2, EndStep DEF RecoverUnanswered
<1>3. CASE Recover(r) /\ ledger[Subject(r)] # Absent
  BY <1>1, <1>3, FoundStep DEF Recover
<1>4. CASE Recover(r) /\ ledger[Subject(r)] = Absent /\ run[r].submitted
  BY <1>4, EndStep DEF Recover, End
<1>5. CASE Recover(r) /\ ledger[Subject(r)] = Absent /\ ~run[r].submitted
  <2>1. run' = [run EXCEPT ![r].at = "markingFailed"]
        /\ UNCHANGED <<rows, ledger, txs, recalled, faults>>
    BY <1>5 DEF Recover
  <2> QED
    BY <1>1, <2>1, AtStep DEF IInv, TypeOK
<1> QED
  BY <1>2, <1>3, <1>4, <1>5

LEMMA StopStep ==
  ASSUME IInv, NEW r \in Runs, DatabaseFails(r) \/ Crash(r)
  PROVE  IInv'
BY EndStep DEF DatabaseFails, Crash

\* A row that changes its status, and perhaps its transaction, keeps its
\* readings.
LEMMA MarkStep ==
  ASSUME IInv, NEW r \in Runs, NEW e \in EvidenceIds, End(r), HasRow(e),
         rows' \in [EvidenceIds -> Row \cup {Absent}],
         rows'[e] # Absent, rows'[e].readings = rows[e].readings,
         \A x \in EvidenceIds \ {e} : rows'[x] = rows[x],
         rows'[e].status = "ANCHORED" => ledger[e] # Absent /\ rows'[e].tx = ledger[e].tx,
         UNCHANGED <<ledger, txs, recalled, faults>>
  PROVE  IInv'
<1>1. NoRun \in Run /\ NoRun.at = "idle"
  BY DEF NoRun, Run
<1>2. run' \in [Runs -> Run] /\ run'[r].at = "idle" /\ \A s \in Runs \ {r} : run'[s] = run[s]
  BY <1>1 DEF End, IInv, TypeOK
<1>3. \A x \in EvidenceIds : rows'[x] # Absent <=> rows[x] # Absent
  BY DEF HasRow
<1>4. TypeOK'
  BY <1>2 DEF IInv, TypeOK
<1>5. RunsOK'
  <2> SUFFICES ASSUME NEW s \in Runs, s # r
               PROVE  /\ run[s].at \in Active => run[s].readings \in ReadingSets
                      /\ run[s].at \in Saved => rows'[EvidenceId(run[s].readings)] # Absent
                      /\ run[s].at = "markingAnchored" =>
                           /\ ledger[EvidenceId(run[s].readings)] # Absent
                           /\ run[s].tx = ledger[EvidenceId(run[s].readings)].tx
    BY <1>2 DEF RunsOK, HasRow, Subject, EvidenceId, Active, Saved
  <2>1. run[s].at \in Saved => Subject(s) \in EvidenceIds
    BY SubjectTyped DEF IInv, RunsOK, Saved
  <2> QED
    BY <2>1, <1>3 DEF IInv, RunsOK, HasRow, Subject
<1>6. KeptUnderId'
  BY <1>3 DEF IInv, KeptUnderId, HasRow, EvidenceId
<1>7. SubmissionsStored'
  <2>1. \A t \in Transactions : txs[t] # Absent => EvidenceId(txs[t].readings) \in EvidenceIds
    BY EvidenceIdAssumption DEF IInv, TypeOK, Submission, EvidenceId
  <2> QED
    BY <2>1, <1>3 DEF IInv, SubmissionsStored, HasRow, EvidenceId
<1>8. AnchorsStored' /\ AnchoredKnown'
  BY <1>3 DEF IInv, AnchorsStored, AnchoredKnown, AnchoredRow, HasRow
<1> QED
  BY <1>4, <1>5, <1>6, <1>7, <1>8 DEF IInv

LEMMA MarkAnchoredStep ==
  ASSUME IInv, NEW r \in Runs, MarkAnchored(r)
  PROVE  IInv'
<1>1. run[r].readings \in ReadingSets
  BY DEF MarkAnchored, IInv, RunsOK, Active
<1>2. PICK e \in EvidenceIds : e = Subject(r)
  BY <1>1, SubjectTyped DEF IInv
<1>3. HasRow(e) /\ ledger[e] # Absent /\ run[r].tx = ledger[e].tx /\ ledger[e].tx \in Transactions
  BY <1>2 DEF MarkAnchored, IInv, TypeOK, RunsOK, Active, Saved, Anchor
<1>4. rows[e] \in Row /\ ledger[e].tx # Absent
  BY <1>3, TransactionsAssumption DEF IInv, TypeOK, HasRow
<1>5. rows' = [rows EXCEPT ![e].status = "ANCHORED", ![e].tx = ledger[e].tx]
  BY <1>2, <1>3 DEF MarkAnchored
<1>6. /\ rows'[e] \in Row /\ rows'[e].readings = rows[e].readings
      /\ rows'[e].tx = ledger[e].tx
      /\ \A x \in EvidenceIds \ {e} : rows'[x] = rows[x]
      /\ rows' \in [EvidenceIds -> Row \cup {Absent}]
  BY <1>3, <1>4, <1>5 DEF IInv, TypeOK, Row
<1>7. rows'[e] # Absent
  BY <1>6, AbsentAssumption
<1> QED
  BY <1>3, <1>6, <1>7, MarkStep DEF MarkAnchored

LEMMA MarkFailedStep ==
  ASSUME IInv, NEW r \in Runs, MarkFailed(r)
  PROVE  IInv'
<1>1. run[r].readings \in ReadingSets
  BY DEF MarkFailed, IInv, RunsOK, Active
<1>2. PICK e \in EvidenceIds : e = Subject(r)
  BY <1>1, SubjectTyped DEF IInv
<1>3. HasRow(e)
  BY <1>2 DEF MarkFailed, IInv, RunsOK, Active, Saved
<1>4. rows[e] \in Row
  BY <1>3 DEF IInv, TypeOK, HasRow
<1>5. rows' = [rows EXCEPT ![e].status = "FAILED"]
  BY <1>2 DEF MarkFailed
<1>6. /\ rows'[e] \in Row /\ rows'[e].readings = rows[e].readings
      /\ rows'[e].status = "FAILED"
      /\ \A x \in EvidenceIds \ {e} : rows'[x] = rows[x]
      /\ rows' \in [EvidenceIds -> Row \cup {Absent}]
  BY <1>4, <1>5 DEF IInv, TypeOK, Row
<1>7. rows'[e] # Absent
  BY <1>6, AbsentAssumption
<1> QED
  BY <1>3, <1>6, <1>7, MarkStep DEF MarkFailed

-----------------------------------------------------------------------------
(* The submissions.                                                        *)

\* Submissions that change their state leave everything stored.
LEMMA DecideStep ==
  ASSUME IInv, NEW t \in Transactions, txs[t] # Absent,
         NEW state \in {"ordered", "refused", "invalid", "lost"}, Decide(t, state),
         Fault \/ UNCHANGED faults, UNCHANGED <<run, rows, ledger, recalled>>
  PROVE  IInv'
<1>1. /\ txs' \in [Transactions -> Submission \cup {Absent}]
      /\ \A u \in Transactions :
           txs'[u] # Absent => txs[u] # Absent /\ txs'[u].readings = txs[u].readings
  BY DEF Decide, IInv, TypeOK, Submission
<1>2. SubmissionsStored'
  BY <1>1, SubmissionsKept DEF IInv
<1>3. TypeOK'
  BY <1>1, FaultTyped DEF IInv, TypeOK
<1> QED
  BY <1>2, <1>3
  DEF IInv, RunsOK, KeptUnderId, AnchorsStored, AnchoredKnown, HasRow, AnchoredRow, Subject, EvidenceId

\* An anchor is written once, under its own id, with its row in place.
LEMMA CommitStep ==
  ASSUME IInv, NEW t \in Transactions, Commit(t)
  PROVE  IInv'
<1>1. CASE ~Accepted(t)
  BY <1>1, DecideStep DEF Commit
<1>2. CASE Accepted(t)
  <2>1. txs[t] \in Submission /\ txs[t] # Absent
    BY DEF Commit, IInv, TypeOK
  <2>2. PICK e \in EvidenceIds : e = EvidenceId(txs[t].readings)
    BY <2>1, EvidenceIdAssumption DEF Submission, EvidenceId
  <2> DEFINE new == [readings |-> txs[t].readings, tx |-> t]
  <2>3. /\ ledger' = [ledger EXCEPT ![e] = new] /\ ledger[e] = Absent /\ HasRow(e)
        /\ Decide(t, "committed") /\ UNCHANGED <<run, rows, recalled, faults>>
    BY <1>2, <2>1, <2>2 DEF Commit, Accepted, IInv, SubmissionsStored
  <2>4. new \in Anchor /\ new # Absent
    BY <2>1, AbsentAssumption DEF Anchor, Submission
  <2>5. /\ ledger' \in [EvidenceIds -> Anchor \cup {Absent}] /\ ledger'[e] = new
        /\ \A x \in EvidenceIds \ {e} : ledger'[x] = ledger[x]
    BY <2>3, <2>4 DEF IInv, TypeOK
  <2>6. /\ txs' \in [Transactions -> Submission \cup {Absent}]
        /\ \A u \in Transactions :
             txs'[u] # Absent => txs[u] # Absent /\ txs'[u].readings = txs[u].readings
    BY <2>1, <2>3 DEF Decide, IInv, TypeOK, Submission
  <2>7. TypeOK'
    BY <2>3, <2>5, <2>6 DEF IInv, TypeOK
  <2>8. SubmissionsStored'
    BY <2>3, <2>6, SubmissionsKept DEF IInv
  <2>9. RunsOK'
    <3>1. \A r \in Runs : run[r].at \in Active => Subject(r) \in EvidenceIds
      BY SubjectTyped DEF IInv, RunsOK
    <3>2. \A x \in EvidenceIds : ledger[x] # Absent => ledger'[x] = ledger[x]
      BY <2>3, <2>5
    <3> QED
      BY <2>3, <3>1, <3>2 DEF IInv, RunsOK, HasRow, Subject, EvidenceId, Active, Saved
  <2>10. KeptUnderId'
    BY <2>2, <2>3, <2>5 DEF IInv, KeptUnderId, HasRow, EvidenceId
  <2>11. AnchorsStored' /\ AnchoredKnown'
    BY <2>3, <2>4, <2>5 DEF IInv, AnchorsStored, AnchoredKnown, HasRow, AnchoredRow
  <2> QED
    BY <2>7, <2>8, <2>9, <2>10, <2>11 DEF IInv
<1> QED
  BY <1>1, <1>2

LEMMA SubmissionStep ==
  ASSUME IInv, NEW t \in Transactions, Endorse(t) \/ Conflict(t) \/ Lose(t)
  PROVE  IInv'
BY DecideStep DEF Endorse, Conflict, Lose

LEMMA InvStep == IInv /\ [Next]_vars => IInv'
<1> SUFFICES ASSUME IInv, [Next]_vars PROVE IInv'
  OBVIOUS
<1>1. ASSUME NEW r \in Runs, Progress(r)
      PROVE  IInv'
  BY <1>1, SaveStep, SubmitStep, AnswerStep, ReadBackStep, RecoverStep, MarkAnchoredStep, MarkFailedStep
  DEF Progress
<1>2. ASSUME NEW r \in Runs, Failure(r)
      PROVE  IInv'
  BY <1>2, AnswerStep, ReadBackStep, RecoverStep, StopStep DEF Failure
<1>3. ASSUME NEW r \in Runs, NEW readings \in ReadingSets, Start(r, readings)
      PROVE  IInv'
  BY <1>3, StartStep
<1>4. ASSUME NEW t \in Transactions, Endorse(t) \/ Commit(t) \/ Conflict(t) \/ Lose(t)
      PROVE  IInv'
  BY <1>4, SubmissionStep, CommitStep
<1>5. CASE Recall \/ UNCHANGED vars
  BY <1>5 DEF Recall, vars, IInv, TypeOK, RunsOK, KeptUnderId, SubmissionsStored, AnchorsStored,
              AnchoredKnown, HasRow, AnchoredRow, Subject, EvidenceId
<1> QED
  BY <1>1, <1>2, <1>3, <1>4, <1>5 DEF Next

LEMMA Invariance == Spec => []IInv
BY InvInit, InvStep, PTL DEF Spec

-----------------------------------------------------------------------------
(* The theorems.                                                           *)

\* Runs, rows, ledger and submissions are well typed; in particular the
\* table never refuses an update for an ANCHORED row without its transaction.
THEOREM TypeCorrect == Spec => []TypeOK
BY Invariance, PTL DEF IInv

\* A row says ANCHORED only of what is on the ledger, with the transaction
\* that put it there, whichever run wrote it and whatever had failed before.
THEOREM AnchoredMeansOnLedger ==
  ASSUME EvidenceIdsDistinct
  PROVE  Spec => []AnchoredRowsOnLedger
<1>1. IInv => AnchoredRowsOnLedger
  BY DEF EvidenceIdsDistinct, IInv, TypeOK, KeptUnderId, AnchoredKnown, AnchoredRow, HasRow,
         AnchoredRowsOnLedger, EvidenceId, Row, Anchor
<1> QED
  BY <1>1, Invariance, PTL

\* Evidence is never on the ledger without its readings in the database.
THEOREM EveryAnchorHasItsReadings ==
  ASSUME EvidenceIdsDistinct
  PROVE  Spec => []ReadingsBehindEveryAnchor
<1>1. IInv => ReadingsBehindEveryAnchor
  BY DEF EvidenceIdsDistinct, IInv, TypeOK, KeptUnderId, AnchorsStored, HasRow,
         ReadingsBehindEveryAnchor, EvidenceId, Row, Anchor
<1> QED
  BY <1>1, Invariance, PTL
=============================================================================
