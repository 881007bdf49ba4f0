--------------------------- MODULE EvidenceChecks ---------------------------
(***************************************************************************)
(* Where readings come from, what may happen to them in the oracle's       *)
(* database, and what a verification of them says (services/backend:       *)
(* evidenceVerification, readingsSource, anchoredEvidence, sensorKeys;     *)
(* services/demo; services/storage: tamperEvidence, temperatureRepository; *)
(* services/oracle: verifyReadings).                                       *)
(*                                                                         *)
(* Two programs write readings, the oracle and the demo server; the oracle *)
(* verifies a file as it was delivered, the demo server signs readings     *)
(* itself and may store other values, or report other statistics, than the *)
(* sensor measured.  Each is one process whose requests to the database    *)
(* and to the ledger are steps of their own.  A verification by any        *)
(* company's backend is a third process, and the regulator may revoke the  *)
(* sensor's key between any two steps.                                     *)
(*                                                                         *)
(* A file may reach the oracle in any shape: its rows are rows the sensor  *)
(* signed in any of its runs, some of them perhaps lost, doubled, put      *)
(* together from several runs, or changed.  All runs take their readings   *)
(* at the same times.                                                      *)
(*                                                                         *)
(* Left out: the batch (one, not recalled) and who is authorised, which    *)
(* SupplyChain has; the recovery of several oracle runs, which             *)
(* OracleSubmission has.                                                   *)
(***************************************************************************)
EXTENDS ReadingSets

CONSTANTS
  Sensor,                  \* the sensor both programs work for
  Tables,                  \* what a sensor may measure: sequences of temperatures
  FakeStatistics,          \* summaries the demo server may be told to report
  FileRows,                \* bound: rows of a file that reaches the oracle
  Allowances               \* bounds: how often each of Bounded may happen, in a behaviour

Programs == {"oracle", "demo"}

\* Runs of each program, direct edits of the database, revocations and
\* reactivations of the key, new key pairs.
Bounded == Programs \cup {"edit", "switch", "keygen"}
ASSUME AllowancesAssumption == Allowances \subseteq [Bounded -> Nat]

\* What may be stored under one id: a value of some run at each time up to
\* the last, whoever signed it.
Mixes ==
  UNION {{values \in [1..n -> UNION {{t[i] : i \in DOMAIN t} : t \in Tables}] :
            \A i \in 1..n : \E t \in Tables : i \in DOMAIN t /\ values[i] = t[i]} :
         n \in UNION {DOMAIN t : t \in Tables}}
Runs == {Signed(Sensor, values, Absent) : values \in Mixes}

\* The content-derived id; ids are as distinct as fingerprints here.
EvidenceId(readings) == Sha256(readings)
Ids == {EvidenceId(readings) : readings \in Runs}

Outcomes == {"COMPLIANT", "UNSAFE"}
Summaries == {CalculateStatistics(readings) : readings \in Runs} \cup FakeStatistics

SensorKey == [publicKey : PublicKeys, active : BOOLEAN]
Anchor == [statistics : Summaries, complianceOutcome : Outcomes]
Row == [status : {"PENDING", "ANCHORED", "FAILED"}, complianceOutcome : Outcomes]

\* A sensor measures something, in numbers; nothing on record is no record.
ASSUME TablesAssumption == \A t \in Tables : t \in Seq(Int) /\ t # <<>>
ASSUME FileRowsAssumption == FileRows \in Nat
ASSUME AbsentAssumption == Absent \notin SensorKey \cup Anchor \cup Row \cup BOOLEAN

VARIABLES
  privateKey,              \* the key pair in the sensor's key directory
  sensorKey,               \* the sensor's key on the ledger
  evidence,                \* temperature evidence on the ledger, by id
  rows,                    \* temperature_evidence of the oracle's database, by id
  stored,                  \* temperature_readings, by evidence id
  run,                     \* what each program is doing
  check,                   \* the verification under way, or its result
  past,                    \* what happened: key pairs the sensor had, runs it measured,
                           \* ids edited, forged, lied about
  left                     \* what may still happen, of Allowances

vars == <<privateKey, sensorKey, evidence, rows, stored, run, check, past, left>>
ledgerVars == <<sensorKey, evidence>>
databaseVars == <<rows, stored>>

Spend(what) == left[what] > 0 /\ left' = [left EXCEPT ![what] = @ - 1]

Idle == [at |-> "idle", readings |-> <<>>, reported |-> Absent]

NoCheck == [at |-> "none", id |-> Absent, source |-> "local", declared |-> FALSE,
            readings |-> Absent, anchor |-> Absent, error |-> "", result |-> Absent]

Stages == {"idle", "checked", "saved", "unanswered", "anchored"}
Errors == {"EVIDENCE_NOT_FOUND", "EVIDENCE_NOT_ANCHORED", "ANCHORED_EVIDENCE_NOT_FOUND",
           "READINGS_NOT_FOUND", "READINGS_UNAVAILABLE", "FAULT"}
Issues == {"", "MIXED_SENSORS", "SENSOR_NOT_REGISTERED", "SENSOR_REVOKED", "FORGED"}

Result == [match : BOOLEAN, statisticsMatch : BOOLEAN, signaturesMatch : BOOLEAN \cup {Absent},
           signatureIssue : Issues]

TypeOK ==
  /\ privateKey \in PublicKeys
  /\ sensorKey \in SensorKey \cup {Absent}
  /\ evidence \in [Ids -> Anchor \cup {Absent}]
  /\ rows \in [Ids -> Row \cup {Absent}]
  /\ \A id \in Ids :
       /\ rows[id] = Absent <=> stored[id] = <<>>
       /\ rows[id] # Absent /\ rows[id].status = "ANCHORED" => evidence[id] # Absent
  /\ \A p \in Programs : run[p].at \in Stages /\ (run[p].at # "idle" => run[p].readings # <<>>)
  /\ check.error \in Errors \cup {""} /\ (check.result # Absent => check.result \in Result)

-----------------------------------------------------------------------------
(* The sensor's key.                                                       *)

RegisterSensorKey(key) ==
  /\ sensorKey = Absent
  /\ sensorKey' = [publicKey |-> key, active |-> TRUE]
  /\ UNCHANGED <<privateKey, evidence, databaseVars, run, check, past, left>>

SwitchSensorKey ==
  /\ sensorKey # Absent /\ Spend("switch")
  /\ sensorKey' = [sensorKey EXCEPT !.active = ~@]
  /\ UNCHANGED <<privateKey, evidence, databaseVars, run, check, past>>

\* keygen writes a new pair over the old one.
Keygen(key) ==
  /\ Spend("keygen")
  /\ privateKey' = key
  /\ past' = [past EXCEPT !.keys = @ \cup {key}]
  /\ UNCHANGED <<ledgerVars, databaseVars, run, check>>

-----------------------------------------------------------------------------
(* Running: verify, save, submit, mark.                                    *)

Begin(p, readings, reported) ==
  run' = [run EXCEPT ![p] = [at |-> "checked", readings |-> readings, reported |-> reported]]

\* A row the sensor signed: of one of its runs, with a key pair it had then.
Pieces ==
  UNION {[table : {t}, place : DOMAIN t, key : past.keys] : t \in Tables}

SignedRow(piece) == Signed(Sensor, piece.table, piece.key)[piece.place]

\* Signed rows that make up a file, in the order of their times: of one run
\* or of several, with rows lost, with rows twice.
Assemblies ==
  {pieces \in UNION {[1..n -> Pieces] : n \in 1..FileRows} :
     \A i, j \in DOMAIN pieces : i <= j => pieces[i].place <= pieces[j].place}

Assembled(pieces) == [i \in DOMAIN pieces |-> SignedRow(pieces[i])]

WithValue(file, i, celsius) == [file EXCEPT ![i].celsius = celsius]
OfSensor(file, i, sensor) == [file EXCEPT ![i].sensor = sensor]

\* A file as it may arrive: as it was put together, with a value changed,
\* with a row of another sensor.
Deliveries(file) ==
  {file} \cup {WithValue(file, i, c) : i \in DOMAIN file, c \in {t[1] : t \in Tables}}
         \cup {OfSensor(file, i, s) : i \in DOMAIN file, s \in Sensors}

\* pnpm oracle:dev on one file: nothing is stored unless all of it verifies.
\* The runs its rows are from are remembered, for the properties.
OracleRun ==
  /\ run["oracle"].at = "idle" /\ KeyUsable(sensorKey) /\ Spend("oracle")
  /\ \E pieces \in Assemblies : \E file \in Deliveries(Assembled(pieces)) :
       LET readings == CanonicaliseReadings(file) IN
       /\ VerifyReadings(readings, sensorKey)
       /\ Begin("oracle", readings, CalculateStatistics(readings))
       /\ past' = [past EXCEPT !.measured = @ \cup {pieces[i].table : i \in DOMAIN pieces}]
  /\ UNCHANGED <<privateKey, ledgerVars, databaseVars, check>>

SignAsSensor(table) == Signed(Sensor, table, privateKey)

\* Of the oracle's checks the two that can fail for what was just signed.
VerifyAsOracle(readings) ==
  KeyUsable(sensorKey) /\ SignaturesValid(readings, sensorKey.publicKey)

\* POST /demo/run: `wanted` is stored in place of what was measured, and
\* `fake` reported in place of the statistics when it is not Absent.  Only an
\* honest request is verified as the oracle would.
DemoRun(table, wanted, fake) ==
  LET signed == SignAsSensor(table)
      readings == [i \in DOMAIN signed |-> [signed[i] EXCEPT !.celsius = wanted[i]]]
      forged == wanted # table
      honest == fake = Absent /\ ~forged
  IN
  /\ run["demo"].at = "idle" /\ Spend("demo")
  /\ Len(wanted) = Len(table)
  /\ honest => VerifyAsOracle(readings)
  /\ Begin("demo", readings, IF fake = Absent THEN CalculateStatistics(readings) ELSE fake)
  /\ past' = [past EXCEPT !.measured = @ \cup {table},
                          !.forged = IF forged THEN @ \cup {EvidenceId(readings)} ELSE @,
                          !.lied = IF fake # Absent THEN @ \cup {EvidenceId(readings)} ELSE @]
  /\ UNCHANGED <<privateKey, ledgerVars, databaseVars, check>>

Goes(p, stage) == run' = [run EXCEPT ![p].at = stage]
Ends(p) == run' = [run EXCEPT ![p] = Idle]

Subject(p) == EvidenceId(run[p].readings)

\* saveEvidence: a row that is not anchored is written anew with its readings.
SaveEvidence(p) ==
  LET id == Subject(p)  readings == run[p].readings IN
  /\ run[p].at = "checked"
  /\ IF rows[id] # Absent /\ rows[id].status = "ANCHORED"
     THEN UNCHANGED databaseVars
     ELSE /\ rows' = [rows EXCEPT ![id] =
               [status |-> "PENDING",
                complianceOutcome |-> AssessCompliance(CalculateStatistics(readings))]]
          /\ stored' = [stored EXCEPT ![id] =
               [i \in DOMAIN readings |-> [readings[i] EXCEPT !.celsius = Column(@)]]]
  /\ Goes(p, "saved")
  /\ UNCHANGED <<privateKey, ledgerVars, check, past, left>>

\* Submission through the oracle's backend: the contract accepts an id once.
\* The answer may be lost, also that of a transaction that was never ordered.
Submit(p) ==
  LET id == Subject(p) IN
  /\ run[p].at = "saved"
  /\ \/ /\ evidence[id] = Absent
        /\ evidence' = [evidence EXCEPT ![id] =
             [statistics |-> run[p].reported,
              complianceOutcome |-> DeriveComplianceOutcome(run[p].reported)]]
        /\ Goes(p, "anchored") \/ Goes(p, "unanswered")
     \/ UNCHANGED evidence /\ Goes(p, "unanswered")
  /\ UNCHANGED <<privateKey, sensorKey, databaseVars, check, past, left>>

\* Defect: a submission without an answer is taken for accepted.
Unanswered_TakenForAccepted(p) ==
  /\ run[p].at = "unanswered"
  /\ Goes(p, "anchored")
  /\ UNCHANGED <<privateKey, ledgerVars, databaseVars, check, past, left>>

\* What a program does without an answer, or with a refusal: the oracle looks
\* at the ledger, the demo server gives up.
Unanswered(p) ==
  LET id == Subject(p) IN
  /\ run[p].at = "unanswered"
  /\ \/ /\ p = "oracle" /\ evidence[id] # Absent
        /\ Goes(p, "anchored") /\ UNCHANGED rows
     \/ /\ p = "oracle" /\ evidence[id] = Absent
        /\ rows' = IF rows[id] = Absent THEN rows ELSE [rows EXCEPT ![id].status = "FAILED"]
        /\ Ends(p)
     \/ Ends(p) /\ UNCHANGED rows
  /\ UNCHANGED <<privateKey, ledgerVars, stored, check, past, left>>

\* markAnchored, or a program that stops before it.
MarkAnchored(p) ==
  LET id == Subject(p) IN
  /\ run[p].at = "anchored"
  /\ \/ rows' = IF rows[id] = Absent THEN rows ELSE [rows EXCEPT ![id].status = "ANCHORED"]
     \/ UNCHANGED rows
  /\ Ends(p)
  /\ UNCHANGED <<privateKey, ledgerVars, stored, check, past, left>>

-----------------------------------------------------------------------------
(* Writing around the repository.                                          *)

HiddenBreachCelsius == 32000
OutOfRange(celsius) == celsius < 0 \/ celsius > 50000

Edit(id, readings) ==
  /\ readings # stored[id]
  /\ Spend("edit")
  /\ stored' = [stored EXCEPT ![id] = readings]
  /\ past' = [past EXCEPT !.edited = @ \cup {id}]
  /\ UNCHANGED <<privateKey, ledgerVars, rows, run, check>>

\* POST /demo/tamper: every breach is replaced by a safe value.
Tamper(id) ==
  Edit(id, [i \in DOMAIN stored[id] |->
              IF OutOfRange(stored[id][i].celsius)
              THEN [stored[id][i] EXCEPT !.celsius = HiddenBreachCelsius] ELSE stored[id][i]])

\* The same with "set": the stored values follow the console's table, where
\* it has a value for their time.
ApplyReadings(id, table) ==
  Edit(id, [i \in DOMAIN stored[id] |->
              IF stored[id][i].at \in DOMAIN table
              THEN [stored[id][i] EXCEPT !.celsius = Column(table[stored[id][i].at])]
              ELSE stored[id][i]])

\* pnpm demo:tamper: the earliest reading of evidence that still matches.
AlterEarliestReading(id) ==
  /\ rows[id] # Absent /\ rows[id].status = "ANCHORED"
  /\ Sha256(stored[id]) = id
  /\ Edit(id, [stored[id] EXCEPT ![1].celsius = @ + 1000 * Unit])

\* POST /demo/reset: rows and readings go, the ledger stays.
Reset ==
  /\ Spend("edit")
  /\ \E id \in Ids : rows[id] # Absent
  /\ rows' = [id \in Ids |-> Absent]
  /\ stored' = [id \in Ids |-> <<>>]
  /\ UNCHANGED <<privateKey, ledgerVars, run, check, past>>

-----------------------------------------------------------------------------
(* Verification.                                                           *)

StartCheck(id, source) ==
  /\ check.at = "none"
  /\ check' = [NoCheck EXCEPT !.at = "reading", !.id = id, !.source = source]
  /\ UNCHANGED <<privateKey, ledgerVars, databaseVars, run, past, left>>

Fails(error) == check' = [check EXCEPT !.at = "done", !.error = error]

CheckStep == UNCHANGED <<privateKey, ledgerVars, databaseVars, run, past, left>>

\* The holder looks at its row first, another company's request at the ledger.
FindRow ==
  /\ check.at = "reading" /\ check.source = "local" /\ ~check.declared
  /\ IF rows[check.id] = Absent THEN Fails("EVIDENCE_NOT_FOUND")
     ELSE IF rows[check.id].status # "ANCHORED" THEN Fails("EVIDENCE_NOT_ANCHORED")
     ELSE check' = [check EXCEPT !.declared = TRUE]
  /\ CheckStep

FindAnchor ==
  /\ check.at = "reading" /\ check.source = "remote" /\ ~check.declared
  /\ IF evidence[check.id] = Absent THEN Fails("EVIDENCE_NOT_FOUND")
     ELSE check' = [check EXCEPT !.declared = TRUE]
  /\ CheckStep

ReadReadings ==
  /\ check.at = "reading" /\ check.declared /\ check.readings = Absent
  /\ IF stored[check.id] = <<>> THEN Fails("READINGS_NOT_FOUND")
     ELSE check' = [check EXCEPT !.readings = stored[check.id]]
  /\ CheckStep

\* Concurrently, the anchor is read from the ledger.
ReadAnchor ==
  /\ check.at = "reading" /\ check.anchor = Absent
  /\ IF evidence[check.id] = Absent THEN Fails("ANCHORED_EVIDENCE_NOT_FOUND")
     ELSE check' = [check EXCEPT !.anchor = evidence[check.id]]
  /\ CheckStep

\* A holder that does not answer within READINGS_TIMEOUT_MS, or answers with
\* an error; a gateway that does not.
GiveUp ==
  /\ check.at = "reading"
  /\ \/ check.source = "remote" /\ check.readings = Absent /\ Fails("READINGS_UNAVAILABLE")
     \/ check.readings # Absent /\ check.anchor = Absent /\ Fails("FAULT")
     \/ check.source = "local" /\ check.readings = Absent /\ Fails("FAULT")
  /\ CheckStep

\* Defect: a match of the count is enough.
StatisticsAgree_CountOnly(anchored, recomputed) ==
  anchored.readingCount = recomputed.readingCount

StatisticsAgree(anchored, recomputed) == anchored = recomputed

\* Defect: every signature of a revoked sensor is called forged.
SignatureIssue_RevokedIsForged(readings) ==
  IF ~OneSensor(readings) THEN "MIXED_SENSORS"
  ELSE IF sensorKey = Absent THEN "SENSOR_NOT_REGISTERED"
  ELSE IF ~sensorKey.active \/ ~SignaturesValid(readings, sensorKey.publicKey) THEN "FORGED"
  ELSE ""

\* checkSignatures, with the key as it is when it is asked for.
SignatureIssue(readings) ==
  IF ~OneSensor(readings) THEN "MIXED_SENSORS"
  ELSE IF sensorKey = Absent THEN "SENSOR_NOT_REGISTERED"
  ELSE IF ~sensorKey.active THEN "SENSOR_REVOKED"
  ELSE IF ~SignaturesValid(readings, sensorKey.publicKey) THEN "FORGED"
  ELSE ""

\* The three comparisons; without an answer about the key the third has no
\* verdict, and the others stand.
Conclude ==
  LET readings == check.readings
      statistics == CalculateStatistics(readings)
      issue == SignatureIssue(readings)
      result == [match |-> Sha256(readings) = check.id,
                 statisticsMatch |-> StatisticsAgree(check.anchor.statistics, statistics),
                 signaturesMatch |-> issue = "", signatureIssue |-> issue]
  IN
  /\ check.at = "reading" /\ readings # Absent /\ check.anchor # Absent
  /\ \/ check' = [check EXCEPT !.at = "done", !.result = result]
     \/ /\ OneSensor(readings)
        /\ check' = [check EXCEPT !.at = "done",
             !.result = [result EXCEPT !.signaturesMatch = Absent, !.signatureIssue = ""]]
  /\ CheckStep

Answered ==
  /\ check.at = "done"
  /\ check' = NoCheck
  /\ CheckStep

-----------------------------------------------------------------------------

Init ==
  /\ privateKey \in PublicKeys
  /\ sensorKey = Absent
  /\ evidence = [id \in Ids |-> Absent]
  /\ rows = [id \in Ids |-> Absent]
  /\ stored = [id \in Ids |-> <<>>]
  /\ run = [p \in Programs |-> Idle]
  /\ check = NoCheck
  /\ past = [keys |-> {privateKey}, measured |-> {}, edited |-> {}, forged |-> {}, lied |-> {}]
  /\ left \in Allowances

KeyNext == (\E key \in PublicKeys : RegisterSensorKey(key) \/ Keygen(key)) \/ SwitchSensorKey

RunNext ==
  \/ OracleRun
  \/ \E t, wanted \in Tables, fake \in FakeStatistics \cup {Absent} : DemoRun(t, wanted, fake)
  \/ \E p \in Programs : SaveEvidence(p) \/ Submit(p) \/ Unanswered(p) \/ MarkAnchored(p)

EditNext ==
  \/ \E id \in Ids : Tamper(id) \/ AlterEarliestReading(id)
  \/ \E id \in Ids, t \in Tables : ApplyReadings(id, t)
  \/ Reset

Checking == FindRow \/ FindAnchor \/ ReadReadings \/ ReadAnchor \/ GiveUp \/ Conclude

CheckNext ==
  \/ \E id \in Ids, source \in {"local", "remote"} : StartCheck(id, source)
  \/ Checking
  \/ Answered

Next == KeyNext \/ RunNext \/ EditNext \/ CheckNext

Spec == Init /\ [][Next]_vars

-----------------------------------------------------------------------------
(* Properties.                                                             *)

Concluded == check.result # Absent

\* Each value is one the sensor measured at that time, in some run.
FromMeasured(readings) ==
  \A i \in DOMAIN readings : \E t \in past.measured :
    /\ readings[i].at \in DOMAIN t
    /\ RoundCelsius(readings[i].celsius) = RoundCelsius(t[readings[i].at])

\* A verification in which all three checks pass means what a reader takes it
\* to mean: these are values the sensor measured, each at its time, and the
\* outcome on the ledger is the outcome of these values.  Whatever was stored, overwritten,
\* edited and restored around it, and at whatever moment each source was read.
CleanMeansMeasured ==
  (Concluded /\ check.result.match /\ check.result.statisticsMatch
             /\ check.result.signaturesMatch = TRUE) =>
    /\ FromMeasured(check.readings)
    /\ check.anchor.complianceOutcome
         = DeriveComplianceOutcome(CalculateStatistics(check.readings))

\* No false alarm: a fingerprint differs only if the stored readings were
\* edited, statistics only after that or a false summary, and a reading is
\* called forged only if somebody changed it, or if the id is one of a demo run
\* with a false summary, whose signatures nobody held against the registered
\* key.  A key revoked in the meantime makes evidence unverifiable, never
\* forged.
AlarmsAreReal ==
  Concluded =>
    /\ ~check.result.match => check.id \in past.edited
    /\ ~check.result.statisticsMatch => check.id \in past.edited \cup past.lied
    /\ check.result.signatureIssue = "FORGED" =>
         \/ check.id \in past.edited \cup past.forged \cup past.lied

\* "Changed, missing, duplicated or impersonated readings" (verifyReadings.ts)
\* do not get past the oracle: whatever a file was put together from, what it
\* works on is one reading for each time from the first on, each of this
\* sensor, under its number and with a value measured at that time.  They need
\* not be of one run, nor of all of it, since no signature names a run.
OracleTakesMeasured ==
  LET readings == run["oracle"].readings IN
  run["oracle"].at # "idle" =>
    /\ \A i \in DOMAIN readings :
         readings[i].sensor = Sensor /\ readings[i].sequence = i /\ readings[i].at = i
    /\ FromMeasured(readings)

\* The outcome stored with the readings, computed by the oracle or the demo
\* server, is the one the contract derived on its own, also for a run right
\* on a limit or within rounding of it; unless the summary was a lie.
OutcomesAgree ==
  \A id \in Ids \ past.lied :
    (rows[id] # Absent /\ evidence[id] # Absent) =>
       rows[id].complianceOutcome = evidence[id].complianceOutcome

=============================================================================
