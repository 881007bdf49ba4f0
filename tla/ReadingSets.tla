---------------------------- MODULE ReadingSets ----------------------------
(***************************************************************************)
(* A run of temperature readings as the sensor signs it, and what the      *)
(* storage package, the oracle and the contract compute from it: the       *)
(* fingerprint, the statistics, the outcome, the signatures and the        *)
(* completeness of the run (services/storage, services/oracle,             *)
(* services/sensor, TemperatureComplianceContract).                        *)
(*                                                                         *)
(* Temperatures are integers in ten-thousandths of a degree, so that there *)
(* is something to round; `at` stands for the time of a reading, and a run *)
(* is kept in the order of its times.  Fingerprints and signatures are     *)
(* ideal: equal exactly when what they cover is equal.  All readings are   *)
(* of one batch, whose id both of them cover as well.                      *)
(***************************************************************************)
EXTENDS Integers, Sequences, FiniteSets

CONSTANTS
  Sensors,                 \* sensor ids
  PublicKeys,              \* key pairs, named by their public half
  Absent                   \* no key, no record

\* READING_DECIMALS: three of the four digits stay.
Unit == 10

\* roundCelsius, in thousandths: to the nearest, negative numbers by their
\* magnitude.  Halfway cases depend on how a binary float holds them; the
\* temperatures in play avoid them.
RoundCelsius(celsius) ==
  IF celsius >= 0 THEN (celsius + 5) \div Unit ELSE -((5 - celsius) \div Unit)

\* The NUMERIC(6, 3) column a reading is stored in.
Column(celsius) == RoundCelsius(celsius) * Unit

-----------------------------------------------------------------------------
(* Signatures.                                                             *)

Payload(r) == <<r.sensor, r.sequence, r.at, RoundCelsius(r.celsius)>>

\* signReading, by the holder of the private half of `key`.
SignReading(r, key) == [key |-> key, payload |-> Payload(r)]

VerifyReadingSignature(r, key) == r.signature = SignReading(r, key)

\* signCsv: a run signed by one sensor, each reading under its position.
Signed(sensor, table, key) ==
  [i \in 1..Len(table) |->
     LET r == [sensor |-> sensor, sequence |-> i, at |-> i, celsius |-> table[i]] IN
     [sensor |-> sensor, sequence |-> i, at |-> i, celsius |-> table[i],
      signature |-> SignReading(r, key)]]

-----------------------------------------------------------------------------
(* The fingerprint and the statistics.                                     *)

Canonical(r) == <<r.sensor, r.at, RoundCelsius(r.celsius)>>

\* sha256TemperatureReadings: the readings as a bag.  Neither sequence numbers
\* nor signatures are part of it.
Sha256(readings) ==
  LET seen == {Canonical(readings[i]) : i \in DOMAIN readings}
  IN [c \in seen |-> Cardinality({i \in DOMAIN readings : Canonical(readings[i]) = c})]

\* calculateTemperatureStatistics of a non-empty run.
CalculateStatistics(readings) ==
  LET values == {RoundCelsius(readings[i].celsius) : i \in DOMAIN readings}
  IN [minCelsius |-> CHOOSE v \in values : \A w \in values : v <= w,
      maxCelsius |-> CHOOSE v \in values : \A w \in values : v >= w,
      readingCount |-> Len(readings)]

Thousand == 1000

\* Defect: the upper limit itself is refused.
AssessCompliance_UpperExclusive(statistics) ==
  IF statistics.minCelsius >= 0 /\ statistics.maxCelsius < 5 * Thousand
  THEN "COMPLIANT" ELSE "UNSAFE"

\* The oracle's own view, stored beside the readings (assessCompliance, and
\* isSafe of the demo server).
AssessCompliance(statistics) ==
  IF statistics.minCelsius >= 0 /\ statistics.maxCelsius <= 5 * Thousand
  THEN "COMPLIANT" ELSE "UNSAFE"

\* The contract's, which counts.
DeriveComplianceOutcome(statistics) ==
  IF 0 <= statistics.minCelsius /\ statistics.maxCelsius <= 5000
  THEN "COMPLIANT" ELSE "UNSAFE"

-----------------------------------------------------------------------------
(* verifyReadings of the oracle.                                           *)

OneSensor(readings) == Cardinality({readings[i].sensor : i \in DOMAIN readings}) = 1

KeyUsable(key) == key # Absent /\ key.active

\* Defect: numbers may be missing as long as none comes twice.
ContiguousSequence_GapsPass(readings) ==
  Cardinality({readings[i].sequence : i \in DOMAIN readings}) = Len(readings)

\* assertContiguousSequence: 1 to N, each once.
ContiguousSequence(readings) ==
  {readings[i].sequence : i \in DOMAIN readings} = 1..Len(readings)

SignaturesValid(readings, publicKey) ==
  \A i \in DOMAIN readings : VerifyReadingSignature(readings[i], publicKey)

VerifyReadings(readings, key) ==
  /\ readings # <<>>
  /\ OneSensor(readings)
  /\ KeyUsable(key)
  /\ ContiguousSequence(readings)
  /\ SignaturesValid(readings, key.publicKey)

\* canonicaliseReadings of the oracle rounds before anything else is done.
CanonicaliseReadings(readings) ==
  [i \in DOMAIN readings |-> [readings[i] EXCEPT !.celsius = Column(@)]]

=============================================================================
