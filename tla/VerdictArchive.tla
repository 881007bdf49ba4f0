--------------------------- MODULE VerdictArchive ---------------------------
(***************************************************************************)
(* The regulator's archive of verdicts: a listener reads the chaincode     *)
(* events in ledger order, archives each verdict, has its signatures       *)
(* checked against the oracle's readings, and moves its checkpoint on      *)
(* (services/backend/src/events, services/backend/src/fabric/gateway.ts,   *)
(* services/storage/src/repositories/verdictRepository.ts).                *)
(*                                                                         *)
(* The archive and the checkpoint are durable, the rest is forgotten when  *)
(* the listener stops.  Events are numbered by their place on the ledger.  *)
(***************************************************************************)
EXTENDS Naturals, Sequences

CONSTANTS
  EvidenceIds,
  Absent,                  \* no row in the archive
  MaxEvents,               \* bound on the events of a behaviour
  MaxFaults                \* bound on failures and restarts

ASSUME EventsAssumption == MaxEvents \in Nat /\ MaxFaults \in Nat

VARIABLES
  log,                     \* the chaincode events the ledger emitted
  archive,                 \* ledger_compliance_verdicts: evidence id -> row
  checkpoint,              \* how many events are recorded as consumed
  at,                      \* where the listener is with event checkpoint + 1
  outcome,                 \* the signature check it is about to record
  reachable,               \* the oracle's backend answers
  keyActive,               \* the sensor's key is not revoked
  faults

vars == <<log, archive, checkpoint, at, outcome, reachable, keyActive, faults>>
worldVars == <<log, reachable, keyActive>>

Checks == {"PASSED", "FAILED", "UNKNOWN"}

\* An event of another name has nothing to archive; nor has a verdict whose
\* payload cannot be read.
Kinds == {"verdict", "other", "unreadable"}

Event == [kind : Kinds, evidence : EvidenceIds \cup {Absent}]

\* `event` stands for the verdict the row holds.
ArchivedRow == [event : Nat, check : Checks]

ASSUME AbsentAssumption == Absent \notin ArchivedRow

TypeOK ==
  /\ log \in Seq(Event) /\ Len(log) <= MaxEvents
  /\ archive \in [EvidenceIds -> ArchivedRow \cup {Absent}]
  /\ checkpoint \in 0..Len(log)
  /\ at \in {"waiting", "archiving", "checking", "recording", "checkpointing", "stopped"}
  /\ outcome \in Checks
  /\ reachable \in BOOLEAN /\ keyActive \in BOOLEAN
  /\ faults \in 0..MaxFaults

Fault == faults < MaxFaults /\ faults' = faults + 1

Current == log[checkpoint + 1]

Goto(step) == at' = step

-----------------------------------------------------------------------------
(* The world: the ledger, the oracle's backend, the regulator's decisions. *)

\* Evidence is anchored once, so it has one verdict event.
Emit(kind, e) ==
  /\ Len(log) < MaxEvents
  /\ IF kind = "other" THEN e = Absent
     ELSE e # Absent /\ \A i \in DOMAIN log : log[i].evidence # e
  /\ log' = Append(log, [kind |-> kind, evidence |-> e])
  /\ UNCHANGED <<archive, checkpoint, at, outcome, reachable, keyActive, faults>>

\* The oracle's backend goes down or comes back.
OracleGoes == /\ reachable' = ~reachable
              /\ UNCHANGED <<log, archive, checkpoint, at, outcome, keyActive, faults>>

\* The regulator revokes the sensor's key or reactivates it.
KeySwitched == /\ keyActive' = ~keyActive
               /\ UNCHANGED <<log, archive, checkpoint, at, outcome, reachable, faults>>

-----------------------------------------------------------------------------
(* The listener.                                                           *)

Receive ==
  /\ at = "waiting"
  /\ checkpoint < Len(log)
  /\ Goto(IF Current.kind = "verdict" THEN "archiving" ELSE "checkpointing")
  /\ UNCHANGED <<worldVars, archive, checkpoint, outcome, faults>>

\* Defect: a new row has no check until one is recorded.
Archive_NoDefault ==
  /\ at = "archiving"
  /\ archive' = [archive EXCEPT ![Current.evidence] =
                   [event |-> checkpoint + 1,
                    check |-> IF @ = Absent THEN Absent ELSE @.check]]
  /\ Goto("checking")
  /\ UNCHANGED <<worldVars, checkpoint, outcome, faults>>

\* recordVerdict: a new row starts UNKNOWN, a replay writes the same verdict
\* again and leaves the check alone.
Archive ==
  /\ at = "archiving"
  /\ archive' = [archive EXCEPT ![Current.evidence] =
                   [event |-> checkpoint + 1,
                    check |-> IF @ = Absent THEN "UNKNOWN" ELSE @.check]]
  /\ Goto("checking")
  /\ UNCHANGED <<worldVars, checkpoint, outcome, faults>>

\* Defect: a failed write is logged and passed over.
ArchiveFails_Skips ==
  /\ at = "archiving"
  /\ Fault
  /\ Goto("checkpointing")
  /\ UNCHANGED <<worldVars, archive, checkpoint, outcome>>

\* The write fails: the listener stops at this event.
ArchiveFails ==
  /\ at = "archiving"
  /\ Fault
  /\ Goto("stopped")
  /\ UNCHANGED <<worldVars, archive, checkpoint, outcome>>

\* Defect: no verdict on the signatures is an error.
CheckSignatures_Throws ==
  /\ at = "checking"
  /\ IF reachable
     THEN /\ outcome' = IF keyActive THEN "PASSED" ELSE "FAILED"
          /\ Goto("recording")
     ELSE outcome' = outcome /\ Goto("stopped")
  /\ UNCHANGED <<worldVars, archive, checkpoint, faults>>

\* checkEvidenceSignatures: UNKNOWN when the readings or the key cannot be
\* fetched, FAILED also when the key has been revoked since it signed them.
\* The readings themselves are taken to be genuine.
CheckSignatures ==
  /\ at = "checking"
  /\ outcome' = IF ~reachable THEN "UNKNOWN" ELSE IF keyActive THEN "PASSED" ELSE "FAILED"
  /\ Goto("recording")
  /\ UNCHANGED <<worldVars, archive, checkpoint, faults>>

RecordSignatureCheck ==
  /\ at = "recording"
  /\ archive' = [archive EXCEPT ![Current.evidence].check = outcome]
  /\ Goto("checkpointing")
  /\ UNCHANGED <<worldVars, checkpoint, outcome, faults>>

\* The check cannot be recorded: logged, and the listener goes on.
RecordFails ==
  /\ at = "recording"
  /\ Fault
  /\ Goto("checkpointing")
  /\ UNCHANGED <<worldVars, archive, checkpoint, outcome>>

Checkpoint ==
  /\ at = "checkpointing"
  /\ checkpoint' = checkpoint + 1
  /\ Goto("waiting")
  /\ UNCHANGED <<worldVars, archive, outcome, faults>>

\* The stream breaks, the checkpoint cannot be written, or the process dies.
Stop ==
  /\ at # "stopped"
  /\ Fault
  /\ Goto("stopped")
  /\ UNCHANGED <<worldVars, archive, checkpoint, outcome>>

\* Defect: a restart begins with what is new on the ledger.
Restart_AtLatest ==
  /\ at = "stopped"
  /\ Goto("waiting")
  /\ checkpoint' = Len(log)
  /\ UNCHANGED <<worldVars, archive, outcome, faults>>

\* The backend is started again and resumes after its checkpoint.
Restart ==
  /\ at = "stopped"
  /\ Goto("waiting")
  /\ UNCHANGED <<worldVars, archive, checkpoint, outcome, faults>>

-----------------------------------------------------------------------------

Init ==
  /\ log = <<>>
  /\ archive = [e \in EvidenceIds |-> Absent]
  /\ checkpoint = 0
  /\ at = "waiting"
  /\ outcome = "UNKNOWN"
  /\ reachable = TRUE
  /\ keyActive = TRUE
  /\ faults = 0

Listener == Receive \/ Archive \/ CheckSignatures \/ RecordSignatureCheck \/ Checkpoint

World == OracleGoes \/ KeySwitched
         \/ \E kind \in Kinds, e \in EvidenceIds \cup {Absent} : Emit(kind, e)

Next == Listener \/ ArchiveFails \/ RecordFails \/ Stop \/ Restart \/ World

Spec == Init /\ [][Next]_vars

\* The listener goes on while it runs, and somebody restarts the backend
\* when it has stopped: the process does not do that by itself.
FairSpec == Spec /\ WF_vars(Listener) /\ WF_vars(Restart)

-----------------------------------------------------------------------------
(* Properties.                                                             *)

IsVerdict(i) == log[i].kind = "verdict"

\* No gap, ever: every verdict event the checkpoint has passed is in the
\* archive, with the verdict of that very event, however often the listener
\* was stopped and at whatever step.
NoGap ==
  \A i \in 1..checkpoint : IsVerdict(i) =>
    archive[log[i].evidence] # Absent /\ archive[log[i].evidence].event = i

\* The archive is a prefix of the ledger: what is archived was emitted, and
\* every verdict before it is archived too.
ArchivedInLedgerOrder ==
  \A e \in EvidenceIds : archive[e] # Absent =>
    /\ archive[e].event \in DOMAIN log
    /\ log[archive[e].event] = [kind |-> "verdict", evidence |-> e]
    /\ \A i \in 1..(archive[e].event - 1) : IsVerdict(i) => archive[log[i].evidence] # Absent

\* Every verdict on the ledger reaches the archive, whether or not the oracle
\* ever answers, and although some events cannot be read.
EveryVerdictArchived ==
  \A e \in EvidenceIds :
    (\E i \in DOMAIN log : log[i] = [kind |-> "verdict", evidence |-> e])
      ~> archive[e] # Absent

\* verdictRepository.ts: "event replay reproduces the same archive."  Once a
\* signature check was completed, a replay of the event leaves it alone.
ReplayReproducesArchive ==
  [][\A e \in EvidenceIds :
       archive[e] # Absent /\ archive[e].check # "UNKNOWN" =>
         archive'[e].check = archive[e].check]_vars

=============================================================================
