------------------------ MODULE EvidenceChecksProofs ------------------------
(***************************************************************************)
(* Theorems about EvidenceChecks: what a verification of stored readings   *)
(* is worth, for tables of any length, any number of runs, edits, key      *)
(* changes and checks, in any order.                                       *)
(*                                                                         *)
(* Three kinds of facts carry the proof.  Readings keep their places and   *)
(* their signatures from the sensor to the database, whatever happens to   *)
(* their values (IsFile).  Readings under an id nobody edited still have   *)
(* that fingerprint, and the summary on the ledger is theirs unless it was *)
(* a lie (IsSound, SummaryOf).  And what a check has read so far is as     *)
(* good as what was in the database or on the ledger when it read it.      *)
(***************************************************************************)
EXTENDS EvidenceChecks, WellFoundedInduction, TLAPS

Signature == [key : PublicKeys, payload : {Sensor} \X Nat \X Nat \X Int]

Reading == [sensor : {Sensor}, sequence : Nat, at : Nat, celsius : Int, signature : Signature]

InPlace(readings) == \A i \in DOMAIN readings : readings[i].sequence = i /\ readings[i].at = i

\* The sensor gave this signature to a reading it took at place i.
SignedAt(signature, i, measured) ==
  \E t \in measured, key \in PublicKeys :
    /\ i \in DOMAIN t
    /\ signature = [key |-> key, payload |-> <<Sensor, i, i, RoundCelsius(t[i])>>]

\* Readings the sensor took, of runs that were measured, whatever their values
\* are now.
IsFile(readings, measured) ==
  /\ readings \in Seq(Reading) /\ readings # <<>>
  /\ InPlace(readings)
  /\ \A i \in DOMAIN readings : SignedAt(readings[i].signature, i, measured)

\* Nobody can call a signature forged.
Vouched(readings, key) == key # Absent /\ SignaturesValid(readings, key.publicKey)

\* Readings under an id, in the light of what happened to it.
IsSound(readings, id, seen, key) ==
  /\ IsFile(readings, seen.measured)
  /\ id \notin seen.edited => Sha256(readings) = id
  /\ id \notin seen.edited \cup seen.forged \cup seen.lied => Vouched(readings, key)

\* The statistics of the readings that have this fingerprint.
SummaryOf(id) ==
  LET values == {c[3] : c \in DOMAIN id}  places == {c[2] : c \in DOMAIN id}
  IN [minCelsius |-> CHOOSE v \in values : \A w \in values : v <= w,
      maxCelsius |-> CHOOSE v \in values : \A w \in values : v >= w,
      readingCount |-> CHOOSE n \in places : \A m \in places : n >= m]

\* An anchor, in the light of what was reported for its id.
IsTrueAnchor(anchor, id, seen) ==
  /\ anchor \in Anchor
  /\ anchor.complianceOutcome = DeriveComplianceOutcome(anchor.statistics)
  /\ id \notin seen.lied => anchor.statistics = SummaryOf(id)

Past == [keys : SUBSET PublicKeys, measured : SUBSET Tables, edited : SUBSET Ids, forged : SUBSET Ids,
         lied : SUBSET Ids]

Run == [at : Stages, readings : Seq(Reading), reported : Summaries \cup {Absent}]

Typed ==
  /\ privateKey \in PublicKeys
  /\ sensorKey \in SensorKey \cup {Absent}
  /\ evidence \in [Ids -> Anchor \cup {Absent}]
  /\ rows \in [Ids -> Row \cup {Absent}]
  /\ stored \in [Ids -> Seq(Reading)]
  /\ run \in [Programs -> Run]
  /\ past \in Past

\* FromMeasured, of any set of runs.
IsMeasured(readings, measured) ==
  \A i \in DOMAIN readings : \E t \in measured :
    /\ readings[i].at \in DOMAIN t
    /\ RoundCelsius(readings[i].celsius) = RoundCelsius(t[readings[i].at])

\* A run under way.
RunOK(p) ==
  LET id == Subject(p)  readings == run[p].readings IN
  run[p].at # "idle" =>
    /\ id \in Ids
    /\ IsFile(readings, past.measured)
    /\ run[p].reported \in Summaries
    /\ id \notin past.lied => run[p].reported = SummaryOf(id)
    /\ id \notin past.forged \cup past.lied => Vouched(readings, sensorKey)
    /\ run[p].at = "anchored" => evidence[id] # Absent
    /\ p = "oracle" => FromMeasured(readings)

\* An id in the database.
StoredOK(id) ==
  /\ rows[id] = Absent <=> stored[id] = <<>>
  /\ stored[id] # <<>> => IsSound(stored[id], id, past, sensorKey)
  /\ rows[id] # Absent =>
       /\ rows[id].complianceOutcome = AssessCompliance(SummaryOf(id))
       /\ rows[id].status = "ANCHORED" => evidence[id] # Absent

AnchorOK(id) == evidence[id] # Absent => IsTrueAnchor(evidence[id], id, past)

Check == [at : {"none", "reading", "done"}, id : Ids \cup {Absent}, source : {"local", "remote"},
          declared : BOOLEAN, readings : Seq(Reading) \cup {Absent}, anchor : Anchor \cup {Absent},
          error : Errors \cup {""}, result : Result \cup {Absent}]

\* The check, and what it has read.
CheckOK ==
  /\ check \in Check
  /\ check.at # "none" => check.id \in Ids
  /\ check.at # "done" => check.result = Absent
  /\ check.readings # Absent => IsSound(check.readings, check.id, past, sensorKey)
  /\ check.anchor # Absent => IsTrueAnchor(check.anchor, check.id, past)

IInv ==
  /\ Typed
  /\ \A p \in Programs : RunOK(p)
  /\ \A id \in Ids : StoredOK(id) /\ AnchorOK(id)
  /\ CheckOK
  /\ CleanMeansMeasured
  /\ AlarmsAreReal

-----------------------------------------------------------------------------
(* Rounding.                                                               *)

LEMMA RoundTyped == \A c \in Int : RoundCelsius(c) \in Int /\ Column(c) \in Int
BY DEF RoundCelsius, Column, Unit

\* What a column holds rounds to what was put into it.
LEMMA ColumnRounds == \A c \in Int : RoundCelsius(Column(c)) = RoundCelsius(c)
<1> SUFFICES ASSUME NEW c \in Int PROVE RoundCelsius(Column(c)) = RoundCelsius(c)
  OBVIOUS
<1>1. CASE c >= 0
  <2>1. RoundCelsius(c) = (c + 5) \div 10 /\ (c + 5) \div 10 \in Int /\ (c + 5) \div 10 >= 0
    BY <1>1 DEF RoundCelsius, Unit
  <2>2. \A k \in Int : k >= 0 => k * 10 >= 0 /\ (k * 10 + 5) \div 10 = k
    OBVIOUS
  <2> QED
    BY <2>1, <2>2 DEF RoundCelsius, Column, Unit
<1>2. CASE ~(c >= 0)
  <2>1. RoundCelsius(c) = -((5 - c) \div 10) /\ (5 - c) \div 10 \in Int /\ (5 - c) \div 10 >= 0
    BY <1>2 DEF RoundCelsius, Unit
  <2>2. \A k \in Int : k >= 0 => /\ (-k) * 10 >= 0 <=> k = 0
                                 /\ (5 - (-k) * 10) \div 10 = k
                                 /\ ((-k) * 10 + 5) \div 10 = -k
    OBVIOUS
  <2> QED
    BY <2>1, <2>2 DEF RoundCelsius, Column, Unit
<1> QED
  BY <1>1, <1>2

-----------------------------------------------------------------------------
(* Fingerprints.                                                           *)

\* Readings that agree in time and rounded value are one to the fingerprint
\* and to the statistics.
LEMMA SameFingerprint ==
  ASSUME NEW r, NEW s, DOMAIN r = DOMAIN s, Len(r) = Len(s),
         \A i \in DOMAIN r : /\ Canonical(r[i]) = Canonical(s[i])
                             /\ RoundCelsius(r[i].celsius) = RoundCelsius(s[i].celsius)
  PROVE  Sha256(r) = Sha256(s) /\ CalculateStatistics(r) = CalculateStatistics(s)
<1>1. {Canonical(r[i]) : i \in DOMAIN r} = {Canonical(s[i]) : i \in DOMAIN s}
  OBVIOUS
<1>2. \A c : {i \in DOMAIN r : Canonical(r[i]) = c} = {i \in DOMAIN s : Canonical(s[i]) = c}
  OBVIOUS
<1>3. {RoundCelsius(r[i].celsius) : i \in DOMAIN r} = {RoundCelsius(s[i].celsius) : i \in DOMAIN s}
  OBVIOUS
<1> QED
  BY <1>1, <1>2, <1>3 DEF Sha256, CalculateStatistics

\* The fingerprint of readings in their places determines their statistics.
LEMMA FingerprintSummary ==
  ASSUME NEW r \in Seq(Reading), r # <<>>, InPlace(r)
  PROVE  CalculateStatistics(r) = SummaryOf(Sha256(r))
<1> DEFINE seen == {Canonical(r[i]) : i \in DOMAIN r}
           values == {c[3] : c \in seen}
           places == {c[2] : c \in seen}
<1>1. Len(r) \in Nat /\ Len(r) >= 1 /\ DOMAIN r = 1..Len(r)
  OBVIOUS
<1>2. DOMAIN Sha256(r) = seen
  BY DEF Sha256
<1>3. values = {RoundCelsius(r[i].celsius) : i \in DOMAIN r}
  <2>1. values = {Canonical(r[i])[3] : i \in DOMAIN r}
    OBVIOUS
  <2>2. \A i \in DOMAIN r : Canonical(r[i])[3] = RoundCelsius(r[i].celsius)
    BY DEF Canonical
  <2> QED
    BY <2>1, <2>2
<1>4. places = 1..Len(r)
  <2>1. places = {Canonical(r[i])[2] : i \in DOMAIN r}
    OBVIOUS
  <2>2. \A i \in DOMAIN r : Canonical(r[i])[2] = i
    BY DEF Canonical, InPlace
  <2> HIDE DEF places
  <2> QED
    BY <1>1, <2>1, <2>2
<1>5. (CHOOSE n \in 1..Len(r) : \A m \in 1..Len(r) : n >= m) = Len(r)
  <2>1. PICK l \in Nat : l = Len(r) /\ l >= 1
    BY <1>1
  <2>2. l \in 1..l /\ \A m \in 1..l : l >= m
    BY <2>1
  <2>3. \A n \in 1..l : (\A m \in 1..l : n >= m) => n = l
    BY <2>1
  <2> QED
    BY <2>1, <2>2, <2>3
<1> QED
  BY <1>2, <1>3, <1>4, <1>5 DEF SummaryOf, CalculateStatistics

\* Readings with a value of some table at each place are stored under an id of
\* the model.
LEMMA MixHasId ==
  ASSUME NEW r \in Seq(Reading), r # <<>>, InPlace(r),
         \A i \in DOMAIN r : \E t \in Tables :
           i \in DOMAIN t /\ RoundCelsius(r[i].celsius) = RoundCelsius(t[i])
  PROVE  Sha256(r) \in Ids /\ CalculateStatistics(r) \in Summaries
<1> DEFINE n == Len(r)
           Good(i, t) == i \in DOMAIN t /\ RoundCelsius(r[i].celsius) = RoundCelsius(t[i])
           from(i) == CHOOSE t \in Tables : Good(i, t)
           values == [i \in 1..n |-> from(i)[i]]
           s == Signed(Sensor, values, Absent)
<1>1. n \in Nat /\ n >= 1 /\ DOMAIN r = 1..n
  OBVIOUS
<1>2. \A i \in 1..n : from(i) \in Tables /\ Good(i, from(i))
  BY <1>1
<1>3. \A t \in Tables : \A i \in DOMAIN t : t[i] \in Int
  BY TablesAssumption
<1> HIDE DEF from
<1>4. \A i \in 1..n : values[i] = from(i)[i] /\ values[i] \in Int
  BY <1>2, <1>3
<1>5. values \in Seq(Int) /\ Len(values) = n
  <2>1. values \in [1..n -> Int]
    BY <1>4
  <2> QED
    BY <1>1, <2>1
<1>6. values \in Mixes
  <2>1. n \in UNION {DOMAIN t : t \in Tables}
    BY <1>1, <1>2
  <2>2. \A i \in 1..n : \E t \in Tables : i \in DOMAIN t /\ values[i] = t[i]
    BY <1>2, <1>4
  <2>3. values \in [1..n -> UNION {{t[i] : i \in DOMAIN t} : t \in Tables}]
    <3>1. \A i \in 1..n : values[i] \in UNION {{t[k] : k \in DOMAIN t} : t \in Tables}
      BY <2>2
    <3> QED
      BY <3>1
  <2> HIDE DEF values, n
  <2> QED
    BY <2>1, <2>2, <2>3 DEF Mixes
<1> HIDE DEF values
<1>7. DOMAIN s = 1..n /\ Len(s) = n
  BY <1>1, <1>5 DEF Signed
<1>8. \A i \in 1..n : s[i].sensor = Sensor /\ s[i].at = i /\ s[i].celsius = values[i]
  BY <1>5 DEF Signed
<1>9. \A i \in 1..n : r[i].sensor = Sensor /\ r[i].at = i
  <2>1. \A i \in 1..n : r[i] \in Reading
    BY <1>1
  <2> QED
    BY <1>1, <2>1 DEF InPlace, Reading
<1>10. \A i \in DOMAIN r : /\ Canonical(r[i]) = Canonical(s[i])
                           /\ RoundCelsius(r[i].celsius) = RoundCelsius(s[i].celsius)
  BY <1>1, <1>2, <1>4, <1>8, <1>9 DEF Canonical
<1>11. Sha256(r) = Sha256(s) /\ CalculateStatistics(r) = CalculateStatistics(s)
  BY <1>1, <1>7, <1>10, SameFingerprint
<1>12. s \in Runs
  BY <1>6 DEF Runs
<1> QED
  BY <1>11, <1>12 DEF Ids, EvidenceId, Summaries

-----------------------------------------------------------------------------
(* What is signed, delivered and verified.                                 *)

\* What a delivered file holds: a value may be another, or a sensor's name.
Delivered == [sensor : Sensors \cup {Sensor}, sequence : Nat, at : Nat, celsius : Int,
              signature : Signature]

LEMMA SignedRun ==
  ASSUME NEW t \in Tables, NEW key \in PublicKeys
  PROVE  LET s == Signed(Sensor, t, key) IN
         /\ s \in Seq(Reading) /\ s \in Seq(Delivered) /\ Len(s) = Len(t) /\ s # <<>>
         /\ \A i \in 1..Len(t) :
              /\ s[i].sequence = i /\ s[i].at = i /\ s[i].celsius = t[i]
              /\ s[i].signature = [key |-> key, payload |-> <<Sensor, i, i, RoundCelsius(t[i])>>]
<1> DEFINE s == Signed(Sensor, t, key)
           sig(i) == [key |-> key, payload |-> <<Sensor, i, i, RoundCelsius(t[i])>>]
<1>1. t \in Seq(Int) /\ Len(t) \in Nat /\ Len(t) >= 1
  BY TablesAssumption
<1>2. DOMAIN s = 1..Len(t)
  BY DEF Signed
<1>3. ASSUME NEW i \in 1..Len(t)
      PROVE  /\ s[i] = [sensor |-> Sensor, sequence |-> i, at |-> i, celsius |-> t[i],
                        signature |-> sig(i)]
             /\ sig(i) \in Signature
  <2>0. t[i] \in Int /\ i \in Nat
    BY <1>1
  <2>1. t[i] \in Int /\ RoundCelsius(t[i]) \in Int /\ i \in Nat
    BY <2>0, RoundTyped
  <2>2. s[i] = [sensor |-> Sensor, sequence |-> i, at |-> i, celsius |-> t[i],
                signature |-> sig(i)]
    BY DEF Signed, SignReading, Payload
  <2>3. sig(i) \in Signature
    BY <2>1 DEF Signature
  <2> QED
    BY <2>2, <2>3
<1>5. s = [i \in 1..Len(t) |-> s[i]]
  BY DEF Signed
<1> HIDE DEF s, sig
<1>4. ASSUME NEW i \in 1..Len(t) PROVE s[i] \in Reading /\ s[i] \in Delivered
  <2>0. sig(i) \in Signature
    BY <1>3
  <2>1. t[i] \in Int /\ i \in Nat /\ sig(i) \in Signature
    BY <1>1, <2>0
  <2>2. LET r == [sensor |-> Sensor, sequence |-> i, at |-> i, celsius |-> t[i], signature |-> sig(i)]
        IN r \in Reading /\ r \in Delivered
    BY <2>1 DEF Reading, Delivered
  <2> QED
    BY <1>3, <2>2
<1>6. s \in Seq(Reading) /\ s \in Seq(Delivered) /\ Len(s) = Len(t)
  BY <1>1, <1>2, <1>4, <1>5
<1>7. s # <<>>
  BY <1>1, <1>6
<1>8. \A i \in 1..Len(t) : /\ s[i].sequence = i /\ s[i].at = i /\ s[i].celsius = t[i]
                            /\ s[i].signature = sig(i)
  <2> SUFFICES ASSUME NEW i \in 1..Len(t)
               PROVE  /\ s[i].sequence = i /\ s[i].at = i /\ s[i].celsius = t[i]
                      /\ s[i].signature = sig(i)
    OBVIOUS
  <2>1. s[i] = [sensor |-> Sensor, sequence |-> i, at |-> i, celsius |-> t[i], signature |-> sig(i)]
    BY <1>3
  <2> QED
    BY <2>1
<1> QED
  BY <1>6, <1>7, <1>8 DEF s, sig

LEMMA LeastMember ==
  ASSUME NEW T \in SUBSET Nat, T # {}
  PROVE  \E m \in T : \A k \in T : m <= k
<1>1. PICK less : less = OpToRel(<, Nat)
  OBVIOUS
<1>2. \A k, m \in Nat : k < m => <<k, m>> \in OpToRel(<, Nat)
  BY Zenon DEF OpToRel
<1>3. PICK m \in T : \A k \in T : ~ (<<k, m>> \in less)
  BY <1>1, WFMin, NatLessThanWellFounded, Zenon
<1>4. ASSUME NEW k \in T PROVE m <= k
  <2>1. k \in Nat /\ m \in Nat
    OBVIOUS
  <2>2. ~(k < m)
    BY <1>1, <1>2, <1>3, <2>1, Zenon
  <2> QED
    BY <2>1, <2>2
<1> QED
  BY <1>4

\* The numbers 1 to n in ascending order stand each at its own place.
LEMMA InOrder ==
  ASSUME NEW n \in Nat, NEW f \in [1..n -> Nat],
         {f[i] : i \in 1..n} = 1..n, \A i, j \in 1..n : i <= j => f[i] <= f[j]
  PROVE  \A i \in 1..n : f[i] = i
<1>1. \A k \in 1..n : \E i \in 1..n : f[i] = k
  OBVIOUS
<1>2. \A i \in 1..n : f[i] \in 1..n
  OBVIOUS
<1>3. \A i \in 1..n : f[i] <= i
  <2> SUFFICES ASSUME \E i \in 1..n : f[i] > i PROVE FALSE
    BY <1>2
  <2> DEFINE T == {i \in 1..n : f[i] > i}
  <2>1. T \in SUBSET Nat /\ T # {}
    OBVIOUS
  <2>2. PICK j \in T : \A k \in T : j <= k
    BY <2>1, LeastMember
  <2>3. j \in 1..n /\ f[j] > j
    OBVIOUS
  <2>4. \A i \in 1..n : i < j => f[i] <= i
    BY <1>2, <2>2
  <2>5. PICK i \in 1..n : f[i] = j
    BY <1>1, <2>3
  <2>6. f[i] \in Nat /\ f[j] \in Nat /\ i \in Nat /\ j \in Nat
    BY <2>3
  <2>7. j <= i => f[j] <= f[i]
    BY <2>3
  <2> QED
    BY <2>3, <2>4, <2>5, <2>6, <2>7
<1>4. \A i \in 1..n : f[i] >= i
  <2> SUFFICES ASSUME \E i \in 1..n : f[i] < i PROVE FALSE
    BY <1>2
  <2> DEFINE T == {k \in Nat : n - k \in 1..n /\ f[n - k] < n - k}
  <2>1. T \in SUBSET Nat /\ T # {}
    <3>1. PICK i \in 1..n : f[i] < i
      OBVIOUS
    <3>2. n - i \in Nat /\ n - (n - i) = i
      OBVIOUS
    <3>3. n - i \in T
      BY <3>1, <3>2
    <3> QED
      BY <3>3
  <2>2. PICK k \in T : \A l \in T : k <= l
    BY <2>1, LeastMember
  <2>3. PICK j \in 1..n : j = n - k /\ f[j] < j
    OBVIOUS
  <2>4. \A i \in 1..n : i > j => f[i] >= i
    <3> SUFFICES ASSUME NEW i \in 1..n, i > j, f[i] < i PROVE FALSE
      BY <1>2
    <3>1. n - i \in Nat /\ n - (n - i) = i
      OBVIOUS
    <3>2. n - i \in T
      BY <3>1
    <3>3. k <= n - i
      BY <2>2, <3>2
    <3>4. k \in Nat /\ i \in Nat /\ j \in Nat
      OBVIOUS
    <3> QED
      BY <2>3, <3>3, <3>4
  <2>5. PICK i \in 1..n : f[i] = j
    BY <1>1
  <2>6. f[i] \in Nat /\ f[j] \in Nat /\ i \in Nat /\ j \in Nat
    BY <2>3
  <2>7. j <= i /\ (i > j => f[i] >= i)
    BY <1>3, <2>4, <2>5
  <2> QED
    BY <2>3, <2>5, <2>6, <2>7
<1> QED
  BY <1>2, <1>3, <1>4

\* A row the sensor signed.
LEMMA SignedRowTyped ==
  ASSUME past.keys \subseteq PublicKeys, NEW piece \in Pieces
  PROVE  /\ SignedRow(piece) \in Delivered
         /\ piece.place \in Nat /\ piece.table \in Tables
         /\ SignedRow(piece).sequence = piece.place /\ SignedRow(piece).at = piece.place
         /\ SignedAt(SignedRow(piece).signature, piece.place, {piece.table})
<1>1. PICK t \in Tables : piece \in [table : {t}, place : DOMAIN t, key : past.keys]
  BY DEF Pieces
<1>2. PICK i \in DOMAIN t, key \in PublicKeys : piece.table = t /\ piece.place = i /\ piece.key = key
  BY <1>1
<1>3. t \in Seq(Int) /\ i \in 1..Len(t) /\ i \in Nat
  BY <1>2, TablesAssumption
<1>4. PICK s \in Seq(Delivered) : s = Signed(Sensor, t, key)
  BY SignedRun
<1>5. /\ i \in DOMAIN s /\ s[i].sequence = i /\ s[i].at = i
      /\ s[i].signature = [key |-> key, payload |-> <<Sensor, i, i, RoundCelsius(t[i])>>]
  BY <1>3, <1>4, SignedRun
<1>6. SignedRow(piece) = s[i] /\ s[i] \in Delivered
  BY <1>2, <1>4, <1>5 DEF SignedRow
<1>7. SignedAt(s[i].signature, i, {t})
  BY <1>2, <1>5 DEF SignedAt
<1> QED
  BY <1>2, <1>3, <1>5, <1>6, <1>7

\* The numbers 1 to N, each once, are in a delivered file only when it has one
\* signed row of each place, in order.
LEMMA WholeFile ==
  ASSUME past.keys \subseteq PublicKeys, NEW pieces \in Assemblies,
         NEW file \in Deliveries(Assembled(pieces))
  PROVE  LET measured == {pieces[i].table : i \in DOMAIN pieces} IN
         /\ measured \subseteq Tables
         /\ file \in Seq(Delivered)
         /\ ContiguousSequence(file) =>
              \A j \in 1..Len(file) :
                /\ file[j].sequence = j /\ file[j].at = j
                /\ SignedAt(file[j].signature, j, measured)
<1> DEFINE measured == {pieces[i].table : i \in DOMAIN pieces}
<1>1. PICK n \in Nat : /\ pieces \in [1..n -> Pieces]
                      /\ \A i, j \in 1..n : i <= j => pieces[i].place <= pieces[j].place
  BY FileRowsAssumption DEF Assemblies
<1>2. PICK s : s = Assembled(pieces)
  OBVIOUS
<1>3. \A i \in 1..n : /\ s[i] \in Delivered
                      /\ pieces[i].place \in Nat /\ pieces[i].table \in Tables
                      /\ s[i].sequence = pieces[i].place /\ s[i].at = pieces[i].place
                      /\ SignedAt(s[i].signature, pieces[i].place, {pieces[i].table})
  <2> SUFFICES ASSUME NEW i \in 1..n
               PROVE  /\ s[i] \in Delivered
                      /\ pieces[i].place \in Nat /\ pieces[i].table \in Tables
                      /\ s[i].sequence = pieces[i].place /\ s[i].at = pieces[i].place
                      /\ SignedAt(s[i].signature, pieces[i].place, {pieces[i].table})
    OBVIOUS
  <2>1. PICK piece \in Pieces : piece = pieces[i]
    BY <1>1
  <2>2. s[i] = SignedRow(piece)
    BY <1>1, <1>2, <2>1 DEF Assembled
  <2> QED
    BY <2>1, <2>2, SignedRowTyped
<1>4. s \in Seq(Delivered) /\ Len(s) = n /\ DOMAIN s = 1..n
  <2>1. s \in [1..n -> Delivered]
    BY <1>1, <1>2, <1>3 DEF Assembled
  <2> QED
    BY <2>1
<1>5. ASSUME NEW i \in DOMAIN s, NEW c \in Int, file = WithValue(s, i, c)
      PROVE  /\ file \in Seq(Delivered) /\ Len(file) = n
             /\ \A j \in 1..n : /\ file[j].sequence = s[j].sequence /\ file[j].at = s[j].at
                                /\ file[j].signature = s[j].signature
  <2>1. DOMAIN file = 1..n /\ file = [j \in 1..n |-> file[j]]
    BY <1>4, <1>5 DEF WithValue
  <2>0. \A d \in Delivered :
          LET e == [d EXCEPT !.celsius = c] IN
          /\ e \in Delivered /\ e.sequence = d.sequence /\ e.at = d.at
          /\ e.signature = d.signature
    BY DEF Delivered
  <2>2. \A j \in 1..n : file[j] = IF j = i THEN [s[j] EXCEPT !.celsius = c] ELSE s[j]
    BY <1>4, <1>5 DEF WithValue
  <2>3. \A j \in 1..n : /\ file[j] \in Delivered
                        /\ file[j].sequence = s[j].sequence /\ file[j].at = s[j].at
                        /\ file[j].signature = s[j].signature
    BY <1>3, <1>4, <2>0, <2>2
  <2>4. file \in [1..n -> Delivered]
    BY <2>1, <2>3
  <2>5. file \in Seq(Delivered) /\ Len(file) = n
    BY <2>4
  <2> QED
    BY <2>3, <2>5
<1>6. ASSUME NEW i \in DOMAIN s, NEW o \in Sensors, file = OfSensor(s, i, o)
      PROVE  /\ file \in Seq(Delivered) /\ Len(file) = n
             /\ \A j \in 1..n : /\ file[j].sequence = s[j].sequence /\ file[j].at = s[j].at
                                /\ file[j].signature = s[j].signature
  <2>1. DOMAIN file = 1..n /\ file = [j \in 1..n |-> file[j]]
    BY <1>4, <1>6 DEF OfSensor
  <2>0. \A d \in Delivered :
          LET e == [d EXCEPT !.sensor = o] IN
          /\ e \in Delivered /\ e.sequence = d.sequence /\ e.at = d.at
          /\ e.signature = d.signature
    BY DEF Delivered
  <2>2. \A j \in 1..n : file[j] = IF j = i THEN [s[j] EXCEPT !.sensor = o] ELSE s[j]
    BY <1>4, <1>6 DEF OfSensor
  <2>3. \A j \in 1..n : /\ file[j] \in Delivered
                        /\ file[j].sequence = s[j].sequence /\ file[j].at = s[j].at
                        /\ file[j].signature = s[j].signature
    BY <1>3, <1>4, <2>0, <2>2
  <2>4. file \in [1..n -> Delivered]
    BY <2>1, <2>3
  <2>5. file \in Seq(Delivered) /\ Len(file) = n
    BY <2>4
  <2> QED
    BY <2>3, <2>5
<1>7. \/ file = s
      \/ \E i \in DOMAIN s, c \in Int : file = WithValue(s, i, c)
      \/ \E i \in DOMAIN s, o \in Sensors : file = OfSensor(s, i, o)
  <2>1. \A u \in Tables : u[1] \in Int
    BY TablesAssumption
  <2>2. file \in Deliveries(s)
    BY <1>2
  <2> QED
    BY <2>1, <2>2 DEF Deliveries
<1>8. /\ file \in Seq(Delivered) /\ Len(file) = n
      /\ \A j \in 1..n : /\ file[j].sequence = s[j].sequence /\ file[j].at = s[j].at
                         /\ file[j].signature = s[j].signature
  BY <1>4, <1>5, <1>6, <1>7
<1>9. measured \subseteq Tables
  BY <1>1, <1>3
<1>10. ASSUME ContiguousSequence(file), NEW j \in 1..n
       PROVE  pieces[j].place = j /\ SignedAt(file[j].signature, j, measured)
  <2> DEFINE f == [i \in 1..n |-> pieces[i].place]
  <2>1. f \in [1..n -> Nat] /\ \A i, k \in 1..n : i <= k => f[i] <= f[k]
    BY <1>1, <1>3
  <2>2. {f[i] : i \in 1..n} = 1..n
    <3>1. DOMAIN file = 1..n
      BY <1>8
    <3>2. \A i \in 1..n : file[i].sequence = f[i]
      BY <1>3, <1>8
    <3>3. {file[i].sequence : i \in 1..n} = 1..n
      BY <1>8, <1>10, <3>1 DEF ContiguousSequence
    <3> HIDE DEF f
    <3> QED
      BY <3>2, <3>3
  <2> HIDE DEF f
  <2>3. \A i \in 1..n : f[i] = i
    BY <2>1, <2>2, InOrder
  <2>4. pieces[j].place = j
    BY <2>3 DEF f
  <2>5. SignedAt(file[j].signature, j, {pieces[j].table})
    BY <1>3, <1>8, <2>4
  <2>6. pieces[j].table \in measured
    BY <1>1
  <2> QED
    BY <2>4, <2>5, <2>6 DEF SignedAt
<1>11. ContiguousSequence(file) =>
         \A j \in 1..Len(file) : /\ file[j].sequence = j /\ file[j].at = j
                                 /\ SignedAt(file[j].signature, j, measured)
  BY <1>3, <1>8, <1>10
<1> QED
  BY <1>8, <1>9, <1>11

\* What the oracle verifies are readings of measured runs, one of each place.
LEMMA VerifiedFile ==
  ASSUME past.keys \subseteq PublicKeys, NEW pieces \in Assemblies,
         NEW file \in Deliveries(Assembled(pieces)),
         NEW now, VerifyReadings(CanonicaliseReadings(file), now)
  PROVE  LET r == CanonicaliseReadings(file)
             measured == {pieces[i].table : i \in DOMAIN pieces}
         IN
         /\ measured \subseteq Tables
         /\ IsFile(r, measured) /\ Vouched(r, now)
<1> DEFINE r == CanonicaliseReadings(file)
           measured == {pieces[i].table : i \in DOMAIN pieces}
<1>1. /\ r # <<>> /\ ContiguousSequence(r) /\ SignaturesValid(r, now.publicKey)
      /\ now # Absent
  BY DEF VerifyReadings, KeyUsable
<1>2. file \in Seq(Delivered) /\ DOMAIN file = 1..Len(file) /\ Len(file) \in Nat
  BY WholeFile
<1>3. \A d \in Delivered :
        LET e == [d EXCEPT !.celsius = Column(@)] IN
        /\ e \in Delivered /\ e.sensor = d.sensor /\ e.sequence = d.sequence /\ e.at = d.at
        /\ e.signature = d.signature
  BY RoundTyped DEF Delivered
<1>4. ASSUME NEW i \in 1..Len(file)
      PROVE  /\ r[i] \in Delivered /\ r[i].sensor = file[i].sensor
             /\ r[i].sequence = file[i].sequence /\ r[i].at = file[i].at
             /\ r[i].signature = file[i].signature
  <2>1. PICK d \in Delivered : file[i] = d
    BY <1>2
  <2>2. r[i] = [d EXCEPT !.celsius = Column(@)]
    BY <1>2, <2>1 DEF CanonicaliseReadings
  <2> QED
    BY <1>3, <2>1, <2>2
<1>5. r \in [1..Len(file) -> Delivered]
  BY <1>2, <1>4 DEF CanonicaliseReadings
<1>6. r \in Seq(Delivered) /\ Len(r) = Len(file) /\ DOMAIN r = 1..Len(file)
  BY <1>2, <1>5
<1> HIDE DEF r
<1>7. ContiguousSequence(file)
  <2>1. {r[i].sequence : i \in DOMAIN r} = {file[i].sequence : i \in DOMAIN file}
    BY <1>2, <1>4, <1>6
  <2> QED
    BY <1>1, <1>6, <2>1 DEF ContiguousSequence
<1>8. \A i \in DOMAIN r : /\ r[i].sequence = i /\ r[i].at = i
                          /\ SignedAt(r[i].signature, i, measured)
  <2>1. \A i \in 1..Len(file) : /\ file[i].sequence = i /\ file[i].at = i
                                /\ SignedAt(file[i].signature, i, measured)
    BY <1>7, WholeFile
  <2> HIDE DEF measured
  <2> QED
    BY <1>4, <1>6, <2>1
<1>9. ASSUME NEW i \in DOMAIN r PROVE r[i].sensor = Sensor
  <2>1. r[i].signature.payload = Payload(r[i])
    <3>1. r[i].signature = SignReading(r[i], now.publicKey)
      BY <1>1 DEF SignaturesValid, VerifyReadingSignature
    <3> QED
      BY <3>1 DEF SignReading
  <2>2. r[i].signature.payload[1] = Sensor
    <3>1. PICK t \in measured, key \in PublicKeys :
            r[i].signature = [key |-> key, payload |-> <<Sensor, i, i, RoundCelsius(t[i])>>]
      BY <1>8 DEF SignedAt
    <3> QED
      BY <3>1
  <2> QED
    BY <2>1, <2>2 DEF Payload
<1>10. \A i \in DOMAIN r : r[i] \in Reading
  BY <1>4, <1>6, <1>9 DEF Delivered, Reading
<1>11. r \in Seq(Reading)
  <2>1. r \in [1..Len(file) -> Reading]
    BY <1>5, <1>6, <1>10
  <2> QED
    BY <1>2, <2>1
<1>12. measured \subseteq Tables
  BY WholeFile
<1> QED
  BY <1>1, <1>8, <1>11, <1>12 DEF r, InPlace, IsFile, Vouched

\* A reading whose signature is good has a value the sensor measured at that
\* time, up to rounding.
LEMMA VouchedValues ==
  ASSUME NEW r, NEW measured, IsFile(r, measured), NEW public, SignaturesValid(r, public)
  PROVE  \A i \in DOMAIN r : \E t \in measured :
           /\ r[i].at = i /\ i \in DOMAIN t
           /\ RoundCelsius(r[i].celsius) = RoundCelsius(t[i])
<1> SUFFICES ASSUME NEW i \in DOMAIN r
             PROVE  \E t \in measured :
                      /\ r[i].at = i /\ i \in DOMAIN t
                      /\ RoundCelsius(r[i].celsius) = RoundCelsius(t[i])
  OBVIOUS
<1>1. r[i].signature.payload = Payload(r[i])
  <2>1. r[i].signature = SignReading(r[i], public)
    BY DEF SignaturesValid, VerifyReadingSignature
  <2> QED
    BY <2>1 DEF SignReading
<1>2. PICK t \in measured, key \in PublicKeys :
        /\ i \in DOMAIN t
        /\ r[i].signature = [key |-> key, payload |-> <<Sensor, i, i, RoundCelsius(t[i])>>]
  BY DEF IsFile, SignedAt
<1>3. <<r[i].sensor, r[i].sequence, r[i].at, RoundCelsius(r[i].celsius)>>
        = <<Sensor, i, i, RoundCelsius(t[i])>>
  BY <1>1, <1>2 DEF Payload
<1>4. r[i].at = i /\ RoundCelsius(r[i].celsius) = RoundCelsius(t[i])
  BY <1>3
<1> QED
  BY <1>2, <1>4

\* A database rounds what it stores; nothing else about it changes.
LEMMA Columned ==
  ASSUME NEW r \in Seq(Reading)
  PROVE  LET c == CanonicaliseReadings(r) IN
         /\ c \in Seq(Reading) /\ Sha256(c) = Sha256(r)
         /\ \A measured : IsFile(r, measured) => IsFile(c, measured)
         /\ \A key : Vouched(r, key) => Vouched(c, key)
<1> DEFINE c == CanonicaliseReadings(r)
<1>1. DOMAIN r = 1..Len(r) /\ Len(r) \in Nat /\ \A i \in 1..Len(r) : r[i] \in Reading
  OBVIOUS
<1>2. \A d \in Reading :
        LET e == [d EXCEPT !.celsius = Column(@)] IN
        /\ e \in Reading /\ e.sensor = d.sensor /\ e.sequence = d.sequence /\ e.at = d.at
        /\ e.signature = d.signature /\ RoundCelsius(e.celsius) = RoundCelsius(d.celsius)
  BY RoundTyped, ColumnRounds DEF Reading
<1>3. ASSUME NEW i \in 1..Len(r)
      PROVE  /\ c[i] \in Reading /\ c[i].sensor = r[i].sensor /\ c[i].sequence = r[i].sequence
             /\ c[i].at = r[i].at /\ c[i].signature = r[i].signature
             /\ RoundCelsius(c[i].celsius) = RoundCelsius(r[i].celsius)
  <2>1. PICK d \in Reading : r[i] = d
    BY <1>1
  <2>2. c[i] = [d EXCEPT !.celsius = Column(@)]
    BY <1>1, <2>1 DEF CanonicaliseReadings
  <2> QED
    BY <1>2, <2>1, <2>2
<1>4. c \in [1..Len(r) -> Reading]
  BY <1>1, <1>3 DEF CanonicaliseReadings
<1>5. c \in Seq(Reading) /\ Len(c) = Len(r) /\ DOMAIN c = 1..Len(r)
  BY <1>1, <1>4
<1> HIDE DEF c
<1>6. Sha256(c) = Sha256(r)
  <2>1. \A i \in DOMAIN c : /\ Canonical(c[i]) = Canonical(r[i])
                            /\ RoundCelsius(c[i].celsius) = RoundCelsius(r[i].celsius)
    BY <1>3, <1>5 DEF Canonical
  <2> QED
    BY <1>1, <1>5, <2>1, SameFingerprint
<1>7. ASSUME NEW measured, IsFile(r, measured) PROVE IsFile(c, measured)
  <2>1. \A i \in 1..Len(r) : SignedAt(r[i].signature, i, measured)
    BY <1>1, <1>7 DEF IsFile
  <2>2. \A i \in 1..Len(r) : SignedAt(c[i].signature, i, measured)
    BY <1>3, <2>1
  <2>3. r # <<>> /\ InPlace(r)
    BY <1>7 DEF IsFile
  <2>4. c # <<>>
    BY <1>1, <1>5, <2>3
  <2>5. InPlace(c)
    BY <1>1, <1>3, <1>5, <2>3 DEF InPlace
  <2> QED
    BY <1>5, <2>2, <2>4, <2>5 DEF IsFile
<1>8. ASSUME NEW key, Vouched(r, key) PROVE Vouched(c, key)
  <2>1. \A i \in 1..Len(r) : Payload(c[i]) = Payload(r[i]) /\ c[i].signature = r[i].signature
    BY <1>3 DEF Payload
  <2> QED
    BY <1>1, <1>5, <1>8, <2>1 DEF Vouched, SignaturesValid, VerifyReadingSignature, SignReading
<1> QED
  BY <1>5, <1>6, <1>7, <1>8 DEF c

\* Other values in the same readings.
LEMMA Revalued ==
  ASSUME NEW r \in Seq(Reading), NEW e, DOMAIN e = DOMAIN r, e = [i \in DOMAIN r |-> e[i]],
         \A i \in DOMAIN r : e[i] = r[i] \/ \E x \in Int : e[i] = [r[i] EXCEPT !.celsius = x]
  PROVE  /\ e \in Seq(Reading) /\ (e = <<>> <=> r = <<>>)
         /\ \A measured : IsFile(r, measured) => IsFile(e, measured)
<1>1. DOMAIN r = 1..Len(r) /\ Len(r) \in Nat /\ \A i \in 1..Len(r) : r[i] \in Reading
  OBVIOUS
<1>2. \A d \in Reading, x \in Int :
        LET f == [d EXCEPT !.celsius = x] IN
        /\ f \in Reading /\ f.sequence = d.sequence /\ f.at = d.at /\ f.signature = d.signature
  BY DEF Reading
<1>3. ASSUME NEW i \in 1..Len(r)
      PROVE  /\ e[i] \in Reading /\ e[i].sequence = r[i].sequence
             /\ e[i].at = r[i].at /\ e[i].signature = r[i].signature
  <2>1. CASE e[i] = r[i]
    BY <1>1, <2>1
  <2>2. CASE \E x \in Int : e[i] = [r[i] EXCEPT !.celsius = x]
    <3>1. PICK d \in Reading : r[i] = d
      BY <1>1
    <3>2. PICK x \in Int : e[i] = [d EXCEPT !.celsius = x]
      BY <2>2, <3>1
    <3> DEFINE f == [d EXCEPT !.celsius = x]
    <3>3. f \in Reading /\ f.sequence = d.sequence /\ f.at = d.at /\ f.signature = d.signature
      BY <1>2
    <3> HIDE DEF f
    <3>4. e[i] = f
      BY <3>2 DEF f
    <3> QED
      BY <3>1, <3>3, <3>4
  <2> QED
    BY <1>1, <2>1, <2>2
<1>4. e \in [1..Len(r) -> Reading]
  BY <1>1, <1>3
<1>5. e \in Seq(Reading) /\ Len(e) = Len(r) /\ DOMAIN e = 1..Len(r)
  BY <1>1, <1>4
<1>6. e = <<>> <=> r = <<>>
  BY <1>1, <1>5
<1>7. ASSUME NEW measured, IsFile(r, measured) PROVE IsFile(e, measured)
  <2>1. \A i \in 1..Len(r) : SignedAt(r[i].signature, i, measured)
    BY <1>1, <1>7 DEF IsFile
  <2>2. \A i \in 1..Len(r) : SignedAt(e[i].signature, i, measured)
    BY <1>3, <2>1
  <2>3. r # <<>> /\ InPlace(r)
    BY <1>7 DEF IsFile
  <2>4. InPlace(e)
    BY <1>1, <1>3, <1>5, <2>3 DEF InPlace
  <2> QED
    BY <1>5, <1>6, <2>2, <2>3, <2>4 DEF IsFile
<1> QED
  BY <1>5, <1>6, <1>7

-----------------------------------------------------------------------------
(* What no step takes back.                                                *)

\* What happened stays so, and a sensor has one key.
Grows ==
  /\ past.keys \subseteq past'.keys
  /\ past.measured \subseteq past'.measured /\ past.edited \subseteq past'.edited
  /\ past.forged \subseteq past'.forged /\ past.lied \subseteq past'.lied
  /\ sensorKey # Absent => sensorKey' # Absent /\ sensorKey'.publicKey = sensorKey.publicKey

AnchorsStay == \A id \in Ids : evidence[id] # Absent => evidence'[id] = evidence[id]

LEMMA FileStays ==
  ASSUME Grows, NEW r, IsFile(r, past.measured)
  PROVE  IsFile(r, past'.measured)
BY DEF IsFile, SignedAt, Grows

LEMMA SoundStays ==
  ASSUME Grows, NEW r, NEW id, IsSound(r, id, past, sensorKey)
  PROVE  IsSound(r, id, past', sensorKey')
<1>1. IsFile(r, past'.measured)
  BY FileStays DEF IsSound
<1>2. ASSUME Vouched(r, sensorKey) PROVE Vouched(r, sensorKey')
  BY <1>2 DEF Vouched, Grows
<1>3. /\ id \notin past'.edited => id \notin past.edited
      /\ id \notin past'.edited \cup past'.forged \cup past'.lied =>
           id \notin past.edited \cup past.forged \cup past.lied
  BY DEF Grows
<1> QED
  BY <1>1, <1>2, <1>3 DEF IsSound

LEMMA TrueAnchorStays ==
  ASSUME Grows, NEW anchor, NEW id, IsTrueAnchor(anchor, id, past)
  PROVE  IsTrueAnchor(anchor, id, past')
BY DEF IsTrueAnchor, Grows

LEMMA RunStays ==
  ASSUME Grows, AnchorsStay, NEW p \in Programs, RunOK(p), run'[p] = run[p]
  PROVE  RunOK(p)'
<1> SUFFICES ASSUME run[p].at # "idle"
             PROVE  RunOK(p)'
  BY DEF RunOK
<1>1. PICK r : r = run[p].readings /\ run'[p].readings = r
  OBVIOUS
<1>2. PICK id \in Ids : Subject(p) = id /\ EvidenceId(r) = id
  BY <1>1 DEF RunOK, Subject
<1>3. IsFile(r, past'.measured)
  BY <1>1, FileStays DEF RunOK
<1>4. id \notin past'.lied => run'[p].reported = SummaryOf(id)
  BY <1>2 DEF RunOK, Grows
<1>5. id \notin past'.forged \cup past'.lied => Vouched(r, sensorKey')
  <2>1. id \notin past'.forged \cup past'.lied => Vouched(r, sensorKey)
    BY <1>1, <1>2 DEF RunOK, Grows
  <2> QED
    BY <2>1 DEF Vouched, Grows
<1>6. run'[p].at = "anchored" => evidence'[id] # Absent
  BY <1>2 DEF RunOK, AnchorsStay
<1>7. p = "oracle" => IsMeasured(r, past'.measured)
  BY <1>1 DEF RunOK, FromMeasured, IsMeasured, Grows
<1>8. run'[p].reported \in Summaries
  BY DEF RunOK
<1> QED
  BY <1>1, <1>2, <1>3, <1>4, <1>5, <1>6, <1>7, <1>8 DEF RunOK, Subject, FromMeasured, IsMeasured

LEMMA StoredStays ==
  ASSUME Grows, AnchorsStay, NEW id \in Ids, StoredOK(id),
         rows'[id] = rows[id], stored'[id] = stored[id]
  PROVE  StoredOK(id)'
<1>1. stored[id] # <<>> => IsSound(stored[id], id, past', sensorKey')
  BY SoundStays DEF StoredOK
<1>2. evidence[id] # Absent => evidence'[id] # Absent
  BY DEF AnchorsStay
<1> QED
  BY <1>1, <1>2 DEF StoredOK

LEMMA AnchorStays ==
  ASSUME Grows, NEW id \in Ids, AnchorOK(id), evidence'[id] = evidence[id]
  PROVE  AnchorOK(id)'
BY TrueAnchorStays DEF AnchorOK

LEMMA CheckStays ==
  ASSUME Grows, CheckOK, CleanMeansMeasured, AlarmsAreReal, check' = check
  PROVE  CheckOK' /\ CleanMeansMeasured' /\ AlarmsAreReal'
<1>1. PICK c : c = check
  OBVIOUS
<1>2. c.readings # Absent => IsSound(c.readings, c.id, past', sensorKey')
  BY <1>1, SoundStays DEF CheckOK
<1>3. c.anchor # Absent => IsTrueAnchor(c.anchor, c.id, past')
  BY <1>1, TrueAnchorStays DEF CheckOK
<1>4. CheckOK'
  BY <1>1, <1>2, <1>3 DEF CheckOK
<1>5. ASSUME NEW r, FromMeasured(r) PROVE FromMeasured(r)'
  BY <1>5 DEF FromMeasured, Grows
<1>6. FromMeasured(check.readings) => FromMeasured(check.readings)'
  BY DEF FromMeasured, Grows
<1>7. CleanMeansMeasured'
  BY <1>6 DEF CleanMeansMeasured, Concluded
<1>8. AlarmsAreReal'
  BY DEF AlarmsAreReal, Concluded, Grows
<1> QED
  BY <1>4, <1>7, <1>8

\* A step is good when everything it changes is.
LEMMA GoodStep ==
  ASSUME IInv, Typed', Grows, AnchorsStay,
         \A p \in Programs : run'[p] = run[p] \/ RunOK(p)',
         \A id \in Ids : (rows'[id] = rows[id] /\ stored'[id] = stored[id]) \/ StoredOK(id)',
         \A id \in Ids : evidence'[id] = evidence[id] \/ AnchorOK(id)',
         check' = check \/ (CheckOK' /\ CleanMeansMeasured' /\ AlarmsAreReal')
  PROVE  IInv'
<1>1. \A p \in Programs : RunOK(p)'
  BY RunStays DEF IInv
<1>2. \A id \in Ids : StoredOK(id)'
  BY StoredStays DEF IInv
<1>3. \A id \in Ids : AnchorOK(id)'
  BY AnchorStays DEF IInv
<1>4. CheckOK' /\ CleanMeansMeasured' /\ AlarmsAreReal'
  BY CheckStays DEF IInv
<1> QED
  BY <1>1, <1>2, <1>3, <1>4 DEF IInv

-----------------------------------------------------------------------------
(* The sensor's key.                                                       *)

LEMMA KeyStep == IInv /\ KeyNext => IInv'
<1> SUFFICES ASSUME IInv, KeyNext PROVE IInv'
  OBVIOUS
<1>1. /\ UNCHANGED <<evidence, rows, stored, run, check>>
      /\ \E keys \in SUBSET PublicKeys : past' = [past EXCEPT !.keys = @ \cup keys]
      /\ \/ sensorKey = Absent /\ \E key \in PublicKeys : sensorKey' = [publicKey |-> key, active |-> TRUE]
         \/ sensorKey # Absent /\ sensorKey' = [sensorKey EXCEPT !.active = ~@]
         \/ sensorKey' = sensorKey
      /\ privateKey' \in PublicKeys
  <2>1. past' = past => past' = [past EXCEPT !.keys = @ \cup {}]
    BY DEF IInv, Typed, Past
  <2>2. CASE \E key \in PublicKeys : RegisterSensorKey(key)
    BY <2>1, <2>2 DEF RegisterSensorKey, databaseVars, IInv, Typed
  <2>3. CASE \E key \in PublicKeys : Keygen(key)
    <3>1. PICK key \in PublicKeys : Keygen(key)
      BY <2>3
    <3>2. past' = [past EXCEPT !.keys = @ \cup {key}] /\ {key} \in SUBSET PublicKeys
      BY <3>1 DEF Keygen
    <3> QED
      BY <3>1, <3>2 DEF Keygen, ledgerVars, databaseVars
  <2>4. CASE SwitchSensorKey
    BY <2>1, <2>4 DEF SwitchSensorKey, databaseVars, IInv, Typed
  <2> QED
    BY <2>2, <2>3, <2>4 DEF KeyNext
<1>2. /\ sensorKey' \in SensorKey \cup {Absent}
      /\ sensorKey # Absent => sensorKey' # Absent /\ sensorKey'.publicKey = sensorKey.publicKey
  <2>1. CASE sensorKey # Absent /\ sensorKey' = [sensorKey EXCEPT !.active = ~@]
    <3>1. sensorKey \in [publicKey : PublicKeys, active : BOOLEAN]
      BY <2>1 DEF IInv, Typed, SensorKey
    <3>2. PICK a \in BOOLEAN : a = ~sensorKey.active
      BY Zenon
    <3>3. sensorKey' = [sensorKey EXCEPT !.active = a]
      BY <2>1, <3>2, Zenon
    <3>4. sensorKey' \in [publicKey : PublicKeys, active : BOOLEAN] /\ sensorKey'.publicKey = sensorKey.publicKey
      BY <3>1, <3>2, <3>3
    <3> QED
      BY <3>4, AbsentAssumption DEF SensorKey
  <2>2. CASE sensorKey' = sensorKey
    BY <2>2 DEF IInv, Typed
  <2>3. CASE sensorKey = Absent /\ \E key \in PublicKeys : sensorKey' = [publicKey |-> key, active |-> TRUE]
    BY <2>3 DEF SensorKey
  <2> QED
    BY <1>1, <2>1, <2>2, <2>3
<1>3. /\ past' \in Past /\ past.keys \subseteq past'.keys
      /\ past'.measured = past.measured /\ past'.edited = past.edited
      /\ past'.forged = past.forged /\ past'.lied = past.lied
  BY <1>1 DEF IInv, Typed, Past
<1>4. Typed'
  BY <1>1, <1>2, <1>3 DEF IInv, Typed
<1>5. Grows /\ AnchorsStay
  BY <1>1, <1>2, <1>3 DEF Grows, AnchorsStay
<1>6. check' = check
  BY <1>1
<1> QED
  BY <1>1, <1>4, <1>5, <1>6, GoodStep

-----------------------------------------------------------------------------
(* Runs.                                                                   *)

\* A program has begun to work on r.
NewRun(p, r) ==
  LET id == EvidenceId(r) IN
  /\ run'[p].at = "checked" /\ run'[p].readings = r
  /\ id \in Ids
  /\ IsFile(r, past'.measured)
  /\ run'[p].reported \in Summaries
  /\ id \notin past'.lied => run'[p].reported = SummaryOf(id)
  /\ id \notin past'.forged \cup past'.lied => Vouched(r, sensorKey')
  /\ p = "oracle" => IsMeasured(r, past'.measured)

LEMMA NewRunOK == ASSUME NEW p \in Programs, NEW r, NewRun(p, r) PROVE RunOK(p)'
<1>1. run'[p].readings = r /\ run'[p].at = "checked"
  BY DEF NewRun
<1> QED
  BY <1>1 DEF NewRun, RunOK, Subject, FromMeasured, IsMeasured

LEMMA OracleRunStep == ASSUME IInv, OracleRun PROVE IInv'
<1>0. PICK pieces \in Assemblies : \E file \in Deliveries(Assembled(pieces)) :
        LET readings == CanonicaliseReadings(file) IN
        /\ VerifyReadings(readings, sensorKey)
        /\ Begin("oracle", readings, CalculateStatistics(readings))
        /\ past' = [past EXCEPT !.measured = @ \cup {pieces[i].table : i \in DOMAIN pieces}]
  BY DEF OracleRun
<1>1. PICK file \in Deliveries(Assembled(pieces)) :
        LET readings == CanonicaliseReadings(file) IN
        /\ VerifyReadings(readings, sensorKey)
        /\ Begin("oracle", readings, CalculateStatistics(readings))
        /\ past' = [past EXCEPT !.measured = @ \cup {pieces[i].table : i \in DOMAIN pieces}]
  BY <1>0
<1>2. PICK r : r = CanonicaliseReadings(file)
  OBVIOUS
<1>3. PICK measured : measured = {pieces[i].table : i \in DOMAIN pieces}
  OBVIOUS
<1>4. /\ VerifyReadings(r, sensorKey)
      /\ run' = [run EXCEPT !["oracle"] =
                   [at |-> "checked", readings |-> r, reported |-> CalculateStatistics(r)]]
      /\ past' = [past EXCEPT !.measured = @ \cup measured]
      /\ UNCHANGED <<privateKey, sensorKey, evidence, rows, stored, check>>
  BY <1>1, <1>2, <1>3 DEF OracleRun, Begin, ledgerVars, databaseVars
<1>5. measured \subseteq Tables /\ IsFile(r, measured) /\ Vouched(r, sensorKey)
  <2>1. past.keys \subseteq PublicKeys
    BY DEF IInv, Typed, Past
  <2> QED
    BY <1>2, <1>3, <1>4, <2>1, VerifiedFile
<1>6. r \in Seq(Reading) /\ r # <<>> /\ InPlace(r)
  BY <1>5 DEF IsFile
<1>7. \A i \in DOMAIN r : \E t \in measured :
        /\ r[i].at = i /\ i \in DOMAIN t
        /\ RoundCelsius(r[i].celsius) = RoundCelsius(t[i])
  BY <1>5, VouchedValues DEF Vouched
<1>8. Sha256(r) \in Ids /\ CalculateStatistics(r) \in Summaries
  BY <1>5, <1>6, <1>7, MixHasId
<1>9. CalculateStatistics(r) = SummaryOf(Sha256(r))
  BY <1>6, FingerprintSummary
<1>10. /\ past' \in Past /\ past'.keys = past.keys /\ past'.measured = past.measured \cup measured
       /\ past'.edited = past.edited /\ past'.forged = past.forged /\ past'.lied = past.lied
  BY <1>4, <1>5 DEF IInv, Typed, Past
<1>11. /\ run'["oracle"] \in Run /\ run'["oracle"].at = "checked" /\ run'["oracle"].readings = r
       /\ run'["oracle"].reported = CalculateStatistics(r)
       /\ \A p \in Programs : p # "oracle" => run'[p] = run[p]
       /\ run' \in [Programs -> Run]
  BY <1>4, <1>6, <1>8 DEF IInv, Typed, Run, Stages, Programs
<1>12. Typed'
  BY <1>4, <1>10, <1>11 DEF IInv, Typed
<1>13. Grows /\ AnchorsStay
  BY <1>4, <1>10 DEF Grows, AnchorsStay
<1>14. RunOK("oracle")'
  <2>1. IsFile(r, past'.measured)
    BY <1>5, <1>10 DEF IsFile, SignedAt
  <2>2. IsMeasured(r, past'.measured)
    BY <1>7, <1>10 DEF IsMeasured
  <2>3. NewRun("oracle", r)
    BY <1>4, <1>5, <1>8, <1>9, <1>11, <2>1, <2>2 DEF NewRun, EvidenceId
  <2> QED
    BY <2>3, NewRunOK DEF Programs
<1> QED
  BY <1>4, <1>11, <1>12, <1>13, <1>14, GoodStep

LEMMA DemoRunStep ==
  ASSUME IInv, NEW table \in Tables, NEW wanted \in Tables, NEW fake \in FakeStatistics \cup {Absent},
         DemoRun(table, wanted, fake)
  PROVE  IInv'
<1>1. PICK key \in PublicKeys : key = privateKey
  BY DEF IInv, Typed
<1>2. PICK s \in Seq(Reading) : s = Signed(Sensor, table, key)
  BY SignedRun
<1>3. PICK r : r = [i \in DOMAIN s |-> [s[i] EXCEPT !.celsius = wanted[i]]]
  OBVIOUS
<1>4. PICK reported : reported = IF fake = Absent THEN CalculateStatistics(r) ELSE fake
  OBVIOUS
<1>5. /\ Len(wanted) = Len(table)
      /\ fake = Absent /\ wanted = table => Vouched(r, sensorKey)
      /\ run' = [run EXCEPT !["demo"] = [at |-> "checked", readings |-> r, reported |-> reported]]
      /\ past' = [past EXCEPT !.measured = @ \cup {table},
                              !.forged = IF wanted # table THEN @ \cup {Sha256(r)} ELSE @,
                              !.lied = IF fake # Absent THEN @ \cup {Sha256(r)} ELSE @]
      /\ UNCHANGED <<privateKey, sensorKey, evidence, rows, stored, check>>
  BY <1>1, <1>2, <1>3, <1>4
     DEF DemoRun, SignAsSensor, Begin, VerifyAsOracle, Vouched, KeyUsable, EvidenceId, ledgerVars,
         databaseVars
<1>6. wanted \in Seq(Int) /\ table \in Seq(Int)
  BY TablesAssumption
<1>7. /\ Len(s) = Len(table) /\ s # <<>> /\ DOMAIN s = 1..Len(table) /\ Len(table) \in Nat
      /\ \A i \in 1..Len(table) :
           /\ s[i].sequence = i /\ s[i].at = i
           /\ s[i].signature = [key |-> key, payload |-> <<Sensor, i, i, RoundCelsius(table[i])>>]
  <2>1. /\ Len(s) = Len(table) /\ s # <<>>
        /\ \A i \in 1..Len(table) :
             /\ s[i].sequence = i /\ s[i].at = i
             /\ s[i].signature = [key |-> key, payload |-> <<Sensor, i, i, RoundCelsius(table[i])>>]
    BY <1>2, SignedRun
  <2>2. DOMAIN s = 1..Len(s) /\ Len(s) \in Nat
    OBVIOUS
  <2> QED
    BY <2>1, <2>2
<1>8. IsFile(s, {table})
  <2>1. InPlace(s)
    BY <1>7 DEF InPlace
  <2>2. DOMAIN table = 1..Len(table)
    BY <1>6
  <2>3. \A i \in DOMAIN s : SignedAt(s[i].signature, i, {table})
    BY <1>7, <2>2 DEF SignedAt
  <2> QED
    BY <1>2, <1>7, <2>1, <2>3 DEF IsFile
<1>9. \A i \in DOMAIN s : wanted[i] \in Int
  BY <1>5, <1>6, <1>7
<1>10. r \in Seq(Reading) /\ r # <<>> /\ IsFile(r, {table}) /\ DOMAIN r = DOMAIN s
  <2>1. DOMAIN r = DOMAIN s /\ r = [i \in DOMAIN s |-> r[i]]
    BY <1>3
  <2>2. \A i \in DOMAIN s : r[i] = [s[i] EXCEPT !.celsius = wanted[i]]
    BY <1>3
  <2>3. r \in Seq(Reading) /\ (r = <<>> <=> s = <<>>) /\ IsFile(r, {table})
    <3>1. \A i \in DOMAIN s : \E x \in Int : r[i] = [s[i] EXCEPT !.celsius = x]
      BY <1>9, <2>2
    <3>2. \A i \in DOMAIN s : r[i] = s[i] \/ \E x \in Int : r[i] = [s[i] EXCEPT !.celsius = x]
      BY <3>1
    <3>3. /\ r \in Seq(Reading) /\ (r = <<>> <=> s = <<>>)
          /\ \A measured : IsFile(s, measured) => IsFile(r, measured)
      BY <2>1, <3>2, Revalued
    <3> QED
      BY <1>8, <3>3
  <2> QED
    BY <1>7, <2>1, <2>3
<1>11. InPlace(r) /\ DOMAIN r = 1..Len(r) /\ Len(r) = Len(wanted)
  BY <1>5, <1>6, <1>7, <1>10 DEF IsFile
<1>12. \A i \in DOMAIN r : r[i].celsius = wanted[i]
  <2> SUFFICES ASSUME NEW i \in DOMAIN s PROVE r[i].celsius = wanted[i]
    BY <1>10
  <2>1. PICK d \in Reading : d = s[i]
    OBVIOUS
  <2>2. r[i] = [d EXCEPT !.celsius = wanted[i]]
    BY <1>3, <2>1
  <2> QED
    BY <2>2 DEF Reading
<1>13. Sha256(r) \in Ids /\ CalculateStatistics(r) \in Summaries
  <2>1. \A i \in DOMAIN r : i \in DOMAIN wanted /\ RoundCelsius(r[i].celsius) = RoundCelsius(wanted[i])
    BY <1>6, <1>11, <1>12
  <2> QED
    BY <1>10, <1>11, <2>1, MixHasId
<1>14. CalculateStatistics(r) = SummaryOf(Sha256(r))
  BY <1>10, <1>11, FingerprintSummary
<1>15. reported \in Summaries /\ (fake = Absent => reported = SummaryOf(Sha256(r)))
  BY <1>4, <1>13, <1>14 DEF Summaries
<1>16. /\ past' \in Past /\ past'.measured = past.measured \cup {table}
       /\ past'.keys = past.keys /\ past'.edited = past.edited
       /\ past'.forged = IF wanted # table THEN past.forged \cup {Sha256(r)} ELSE past.forged
       /\ past'.lied = IF fake # Absent THEN past.lied \cup {Sha256(r)} ELSE past.lied
  BY <1>5, <1>13 DEF IInv, Typed, Past
<1>17. /\ run'["demo"].at = "checked" /\ run'["demo"].readings = r
       /\ run'["demo"].reported = reported
       /\ \A p \in Programs : p # "demo" => run'[p] = run[p]
       /\ run' \in [Programs -> Run]
  BY <1>5, <1>10, <1>15 DEF IInv, Typed, Run, Stages, Programs
<1>18. Typed'
  BY <1>5, <1>16, <1>17 DEF IInv, Typed
<1>19. Grows /\ AnchorsStay
  BY <1>5, <1>16 DEF Grows, AnchorsStay
<1>20. RunOK("demo")'
  <2>1. IsFile(r, past'.measured)
    BY <1>10, <1>16 DEF IsFile, SignedAt
  <2>2. Sha256(r) \notin past'.lied => fake = Absent
    BY <1>16
  <2>3. Sha256(r) \notin past'.forged => wanted = table
    BY <1>16
  <2>4. NewRun("demo", r)
    BY <1>5, <1>13, <1>15, <1>17, <2>1, <2>2, <2>3 DEF NewRun, EvidenceId
  <2> QED
    BY <2>4, NewRunOK DEF Programs
<1> QED
  BY <1>5, <1>17, <1>18, <1>19, <1>20, GoodStep

\* A run moves on, or ends.
LEMMA RunGoes ==
  ASSUME IInv, NEW p \in Programs, NEW stage \in Stages, Goes(p, stage),
         run[p].at # "idle", UNCHANGED <<sensorKey, past>>, AnchorsStay,
         stage = "anchored" => evidence'[Subject(p)] # Absent
  PROVE  /\ run' \in [Programs -> Run]
         /\ \A q \in Programs : run'[q] = run[q] \/ RunOK(q)'
<1>1. /\ run'[p].at = stage /\ run'[p].readings = run[p].readings /\ run'[p].reported = run[p].reported
      /\ \A q \in Programs : q # p => run'[q] = run[q]
      /\ run' \in [Programs -> Run]
  BY DEF Goes, IInv, Typed, Run
<1>2. RunOK(p)
  BY DEF IInv
<1>3. RunOK(p)'
  BY <1>1, <1>2 DEF RunOK, Subject, FromMeasured
<1> QED
  BY <1>1, <1>3

LEMMA RunEnds ==
  ASSUME IInv, NEW p \in Programs, Ends(p)
  PROVE  /\ run' \in [Programs -> Run]
         /\ \A q \in Programs : run'[q] = run[q] \/ RunOK(q)'
<1>1. <<>> \in Seq(Reading)
  OBVIOUS
<1>2. Idle \in Run
  BY <1>1 DEF Idle, Run, Stages
<1>3. /\ run'[p].at = "idle"
      /\ \A q \in Programs : q # p => run'[q] = run[q]
      /\ run' \in [Programs -> Run]
  BY <1>2 DEF Ends, Idle, IInv, Typed
<1> QED
  BY <1>3 DEF RunOK

LEMMA SaveStep == ASSUME IInv, NEW p \in Programs, SaveEvidence(p) PROVE IInv'
<1>1. PICK r : r = run[p].readings
  OBVIOUS
<1>2. PICK id \in Ids : id = Subject(p) /\ id = Sha256(r)
  BY <1>1 DEF IInv, RunOK, SaveEvidence, Subject, EvidenceId
<1>3. PICK c : c = CanonicaliseReadings(r)
  OBVIOUS
<1>4. PICK row : row = [status |-> "PENDING",
                        complianceOutcome |-> AssessCompliance(CalculateStatistics(r))]
  OBVIOUS
<1>5. /\ run[p].at = "checked" /\ Goes(p, "saved")
      /\ UNCHANGED <<privateKey, sensorKey, evidence, check, past>>
      /\ \/ UNCHANGED <<rows, stored>>
         \/ rows' = [rows EXCEPT ![id] = row] /\ stored' = [stored EXCEPT ![id] = c]
  BY <1>1, <1>2, <1>3, <1>4
     DEF SaveEvidence, CanonicaliseReadings, ledgerVars, databaseVars
<1>6. /\ IsFile(r, past.measured)
      /\ id \notin past.forged \cup past.lied => Vouched(r, sensorKey)
  BY <1>1, <1>2, <1>5 DEF IInv, RunOK
<1>7. r \in Seq(Reading) /\ r # <<>> /\ InPlace(r)
  BY <1>6 DEF IsFile
<1>8. /\ c \in Seq(Reading) /\ Sha256(c) = id /\ c # <<>> /\ IsFile(c, past.measured)
      /\ id \notin past.forged \cup past.lied => Vouched(c, sensorKey)
  BY <1>2, <1>3, <1>6, <1>7, Columned DEF IsFile
<1>9. /\ row \in Row /\ row # Absent /\ row.status = "PENDING"
      /\ row.complianceOutcome = AssessCompliance(SummaryOf(id))
  <2>1. CalculateStatistics(r) = SummaryOf(id)
    BY <1>2, <1>7, FingerprintSummary
  <2>2. AssessCompliance(CalculateStatistics(r)) \in Outcomes
    BY DEF AssessCompliance, Outcomes
  <2> QED
    BY <1>4, <2>1, <2>2, AbsentAssumption DEF Row
<1>10. Grows /\ AnchorsStay
  BY <1>5 DEF Grows, AnchorsStay
<1>11. /\ run' \in [Programs -> Run]
       /\ \A q \in Programs : run'[q] = run[q] \/ RunOK(q)'
  BY <1>5, <1>10, RunGoes DEF Stages
<1>12. Typed'
  BY <1>5, <1>8, <1>9, <1>11 DEF IInv, Typed
<1>13. ASSUME NEW j \in Ids PROVE (rows'[j] = rows[j] /\ stored'[j] = stored[j]) \/ StoredOK(j)'
  <2>1. CASE rows' = [rows EXCEPT ![id] = row] /\ stored' = [stored EXCEPT ![id] = c] /\ j = id
    <3>1. rows'[id] = row /\ stored'[id] = c
      BY <2>1 DEF IInv, Typed
    <3>2. IsSound(c, id, past', sensorKey')
      BY <1>5, <1>8 DEF IsSound
    <3> QED
      BY <1>8, <1>9, <2>1, <3>1, <3>2 DEF StoredOK
  <2> QED
    BY <1>5, <2>1 DEF IInv, Typed
<1> QED
  BY <1>5, <1>10, <1>11, <1>12, <1>13, GoodStep

LEMMA SubmitStep == ASSUME IInv, NEW p \in Programs, Submit(p) PROVE IInv'
<1>1. PICK id \in Ids : id = Subject(p)
  BY DEF IInv, RunOK, Submit
<1>2. PICK reported : reported = run[p].reported
  OBVIOUS
<1>3. PICK anchor : anchor = [statistics |-> reported,
                              complianceOutcome |-> DeriveComplianceOutcome(reported)]
  OBVIOUS
<1>4. PICK stage \in {"anchored", "unanswered"} :
        /\ run[p].at = "saved" /\ Goes(p, stage)
        /\ UNCHANGED <<privateKey, sensorKey, rows, stored, check, past>>
        /\ \/ evidence[id] = Absent /\ evidence' = [evidence EXCEPT ![id] = anchor]
           \/ UNCHANGED evidence /\ stage = "unanswered"
  BY <1>1, <1>2, <1>3 DEF Submit, databaseVars
<1>5. reported \in Summaries /\ (id \notin past.lied => reported = SummaryOf(id))
  BY <1>1, <1>2, <1>4 DEF IInv, RunOK
<1>6. anchor \in Anchor /\ anchor # Absent /\ IsTrueAnchor(anchor, id, past)
  <2>1. DeriveComplianceOutcome(reported) \in Outcomes
    BY DEF DeriveComplianceOutcome, Outcomes
  <2>2. anchor \in Anchor
    BY <1>3, <1>5, <2>1 DEF Anchor
  <2> QED
    BY <1>3, <1>5, <2>2, AbsentAssumption DEF IsTrueAnchor
<1>7. Grows /\ AnchorsStay
  BY <1>4 DEF Grows, AnchorsStay, IInv, Typed
<1>8. evidence' = [evidence EXCEPT ![id] = anchor] => evidence'[id] = anchor
  BY DEF IInv, Typed
<1>9. /\ run' \in [Programs -> Run]
      /\ \A q \in Programs : run'[q] = run[q] \/ RunOK(q)'
  BY <1>1, <1>4, <1>6, <1>7, <1>8, RunGoes DEF Stages
<1>10. Typed'
  BY <1>4, <1>6, <1>9 DEF IInv, Typed
<1>11. ASSUME NEW j \in Ids PROVE evidence'[j] = evidence[j] \/ AnchorOK(j)'
  <2>1. CASE evidence' = [evidence EXCEPT ![id] = anchor] /\ j = id
    BY <1>4, <1>6, <1>8, <2>1 DEF AnchorOK
  <2> QED
    BY <1>4, <2>1 DEF IInv, Typed
<1> QED
  BY <1>4, <1>7, <1>9, <1>10, <1>11, GoodStep

\* A row of the database is marked.
LEMMA RowMarked ==
  ASSUME IInv, NEW id \in Ids, NEW status \in {"ANCHORED", "FAILED"},
         status = "ANCHORED" => evidence[id] # Absent,
         rows' = IF rows[id] = Absent THEN rows ELSE [rows EXCEPT ![id].status = status],
         UNCHANGED <<sensorKey, evidence, stored, past>>
  PROVE  /\ rows' \in [Ids -> Row \cup {Absent}]
         /\ \A j \in Ids : rows'[j] = rows[j] \/ StoredOK(j)'
<1>1. CASE rows[id] # Absent
  <2>1. PICK row \in Row : row = rows[id]
    BY <1>1 DEF IInv, Typed
  <2>2. PICK marked \in Row : /\ marked = [row EXCEPT !.status = status] /\ marked.status = status
                              /\ marked.complianceOutcome = row.complianceOutcome
    <3> DEFINE m == [row EXCEPT !.status = status]
    <3>1. m \in Row /\ m.status = status /\ m.complianceOutcome = row.complianceOutcome
      BY DEF Row
    <3> HIDE DEF m
    <3>2. m = [row EXCEPT !.status = status]
      BY DEF m
    <3> QED
      BY <3>1, <3>2
  <2>3. rows' = [rows EXCEPT ![id] = marked]
    BY <1>1, <2>1, <2>2
  <2>4. rows'[id] = marked /\ marked # Absent
    BY <2>3, AbsentAssumption DEF IInv, Typed
  <2>5. StoredOK(id)
    BY DEF IInv
  <2>6. StoredOK(id)'
    BY <1>1, <2>1, <2>2, <2>4, <2>5 DEF StoredOK
  <2> QED
    BY <2>3, <2>6 DEF IInv, Typed
<1> QED
  BY <1>1 DEF IInv, Typed

LEMMA UnansweredStep == ASSUME IInv, NEW p \in Programs, Unanswered(p) PROVE IInv'
<1>1. PICK id \in Ids : id = Subject(p)
  BY DEF IInv, RunOK, Unanswered
<1>2. /\ run[p].at = "unanswered"
      /\ UNCHANGED <<privateKey, sensorKey, evidence, stored, check, past>>
      /\ \/ evidence[id] # Absent /\ Goes(p, "anchored") /\ UNCHANGED rows
         \/ /\ rows' = IF rows[id] = Absent THEN rows ELSE [rows EXCEPT ![id].status = "FAILED"]
            /\ Ends(p)
         \/ Ends(p) /\ UNCHANGED rows
  BY <1>1 DEF Unanswered, ledgerVars
<1>3. Grows /\ AnchorsStay
  BY <1>2 DEF Grows, AnchorsStay
<1>4. /\ run' \in [Programs -> Run]
      /\ \A q \in Programs : run'[q] = run[q] \/ RunOK(q)'
  BY <1>1, <1>2, <1>3, RunGoes, RunEnds DEF Stages
<1>5. /\ rows' \in [Ids -> Row \cup {Absent}]
      /\ \A j \in Ids : rows'[j] = rows[j] \/ StoredOK(j)'
  BY <1>2, RowMarked DEF IInv, Typed
<1>6. Typed'
  BY <1>2, <1>4, <1>5 DEF IInv, Typed
<1> QED
  BY <1>2, <1>3, <1>4, <1>5, <1>6, GoodStep

LEMMA MarkStep == ASSUME IInv, NEW p \in Programs, MarkAnchored(p) PROVE IInv'
<1>1. PICK id \in Ids : id = Subject(p) /\ evidence[id] # Absent
  BY DEF IInv, RunOK, MarkAnchored
<1>2. /\ UNCHANGED <<privateKey, sensorKey, evidence, stored, check, past>>
      /\ \/ rows' = IF rows[id] = Absent THEN rows ELSE [rows EXCEPT ![id].status = "ANCHORED"]
         \/ UNCHANGED rows
      /\ Ends(p)
  BY <1>1 DEF MarkAnchored, ledgerVars
<1>3. Grows /\ AnchorsStay
  BY <1>2 DEF Grows, AnchorsStay
<1>4. /\ run' \in [Programs -> Run]
      /\ \A q \in Programs : run'[q] = run[q] \/ RunOK(q)'
  BY <1>2, RunEnds
<1>5. /\ rows' \in [Ids -> Row \cup {Absent}]
      /\ \A j \in Ids : rows'[j] = rows[j] \/ StoredOK(j)'
  BY <1>1, <1>2, RowMarked DEF IInv, Typed
<1>6. Typed'
  BY <1>2, <1>4, <1>5 DEF IInv, Typed
<1> QED
  BY <1>2, <1>3, <1>4, <1>5, <1>6, GoodStep

LEMMA RunStep == IInv /\ RunNext => IInv'
BY OracleRunStep, DemoRunStep, SaveStep, SubmitStep, UnansweredStep, MarkStep DEF RunNext

-----------------------------------------------------------------------------
(* Edits.                                                                  *)

\* Other values in the readings of an id.
LEMMA EditedWell ==
  ASSUME IInv, NEW id \in Ids, NEW e, Edit(id, e), e = [i \in DOMAIN stored[id] |-> e[i]],
         \A i \in DOMAIN stored[id] :
           e[i] = stored[id][i] \/ \E x \in Int : e[i] = [stored[id][i] EXCEPT !.celsius = x]
  PROVE  IInv'
<1>1. PICK r \in Seq(Reading) : r = stored[id]
  BY DEF IInv, Typed
<1>2. /\ e # r /\ stored' = [stored EXCEPT ![id] = e]
      /\ past' = [past EXCEPT !.edited = @ \cup {id}]
      /\ UNCHANGED <<privateKey, sensorKey, evidence, rows, run, check>>
  BY <1>1 DEF Edit, ledgerVars
<1>3. /\ e \in Seq(Reading) /\ (e = <<>> <=> r = <<>>)
      /\ \A measured : IsFile(r, measured) => IsFile(e, measured)
  <2>1. DOMAIN e = DOMAIN r /\ e = [i \in DOMAIN r |-> e[i]]
    BY <1>1
  <2>2. \A i \in DOMAIN r : e[i] = r[i] \/ \E x \in Int : e[i] = [r[i] EXCEPT !.celsius = x]
    BY <1>1
  <2> QED
    BY <2>1, <2>2, Revalued
<1>4. /\ past' \in Past /\ past'.measured = past.measured /\ past'.keys = past.keys
      /\ past'.edited = past.edited \cup {id} /\ past'.forged = past.forged
      /\ past'.lied = past.lied
  BY <1>2 DEF IInv, Typed, Past
<1>5. Grows /\ AnchorsStay
  BY <1>2, <1>4 DEF Grows, AnchorsStay
<1>6. Typed'
  BY <1>2, <1>3, <1>4 DEF IInv, Typed
<1>7. StoredOK(id)'
  <2>1. stored'[id] = e
    BY <1>2 DEF IInv, Typed
  <2>2. StoredOK(id)
    BY DEF IInv
  <2>3. e # <<>> => IsSound(e, id, past', sensorKey')
    BY <1>1, <1>3, <1>4, <2>2 DEF StoredOK, IsSound
  <2> QED
    BY <1>1, <1>2, <1>3, <2>1, <2>2, <2>3 DEF StoredOK
<1> QED
  BY <1>2, <1>5, <1>6, <1>7, GoodStep DEF IInv, Typed

LEMMA TamperStep == ASSUME IInv, NEW id \in Ids, Tamper(id) PROVE IInv'
<1>1. PICK r : r = stored[id]
  OBVIOUS
<1>2. PICK e : e = [i \in DOMAIN r |->
                      IF OutOfRange(r[i].celsius) THEN [r[i] EXCEPT !.celsius = HiddenBreachCelsius]
                      ELSE r[i]]
  OBVIOUS
<1>3. Edit(id, e)
  BY <1>1, <1>2 DEF Tamper
<1>4. e = [i \in DOMAIN r |-> e[i]]
  BY <1>2
<1>5. \A i \in DOMAIN r : e[i] = r[i] \/ e[i] = [r[i] EXCEPT !.celsius = HiddenBreachCelsius]
  BY <1>2
<1>6. HiddenBreachCelsius \in Int
  BY DEF HiddenBreachCelsius
<1> QED
  BY <1>1, <1>3, <1>4, <1>5, <1>6, EditedWell

LEMMA ApplyStep == ASSUME IInv, NEW id \in Ids, NEW table \in Tables, ApplyReadings(id, table) PROVE IInv'
<1>1. PICK r : r = stored[id]
  OBVIOUS
<1>2. PICK e : e = [i \in DOMAIN r |->
                      IF r[i].at \in DOMAIN table
                      THEN [r[i] EXCEPT !.celsius = Column(table[r[i].at])] ELSE r[i]]
  OBVIOUS
<1>3. Edit(id, e)
  BY <1>1, <1>2 DEF ApplyReadings
<1>4. e = [i \in DOMAIN r |-> e[i]]
  BY <1>2
<1>5. \A k \in DOMAIN table : Column(table[k]) \in Int
  <2>1. \A k \in DOMAIN table : table[k] \in Int
    BY TablesAssumption
  <2> QED
    BY <2>1, RoundTyped
<1>6. \A i \in DOMAIN r : e[i] = r[i] \/ \E x \in Int : e[i] = [r[i] EXCEPT !.celsius = x]
  BY <1>2, <1>5
<1> QED
  BY <1>1, <1>3, <1>4, <1>6, EditedWell

LEMMA AlterStep == ASSUME IInv, NEW id \in Ids, AlterEarliestReading(id) PROVE IInv'
<1>1. PICK r \in Seq(Reading) : r = stored[id]
  BY DEF IInv, Typed
<1>2. r # <<>> /\ 1 \in DOMAIN r
  <2>1. r # <<>>
    BY <1>1 DEF AlterEarliestReading, IInv, StoredOK
  <2> QED
    BY <2>1
<1>3. PICK x \in Int : x = r[1].celsius + 1000 * Unit
  <2>1. r[1] \in Reading
    BY <1>2
  <2> QED
    BY <2>1 DEF Reading, Unit
<1>4. PICK e : e = [r EXCEPT ![1] = [r[1] EXCEPT !.celsius = x]]
  OBVIOUS
<1>5. Edit(id, e)
  BY <1>1, <1>2, <1>3, <1>4 DEF AlterEarliestReading
<1>6. /\ e = [i \in DOMAIN r |-> e[i]]
      /\ \A i \in DOMAIN r : e[i] = r[i] \/ e[i] = [r[i] EXCEPT !.celsius = x]
  BY <1>2, <1>4
<1> QED
  BY <1>1, <1>5, <1>6, EditedWell

LEMMA ResetStep == ASSUME IInv, Reset PROVE IInv'
<1>1. /\ rows' = [id \in Ids |-> Absent] /\ stored' = [id \in Ids |-> <<>>]
      /\ UNCHANGED <<privateKey, sensorKey, evidence, run, check, past>>
  BY DEF Reset, ledgerVars
<1>2. Grows /\ AnchorsStay
  BY <1>1 DEF Grows, AnchorsStay
<1>3. Typed'
  <2>1. <<>> \in Seq(Reading)
    OBVIOUS
  <2> QED
    BY <1>1, <2>1 DEF IInv, Typed
<1>4. \A id \in Ids : StoredOK(id)'
  BY <1>1 DEF StoredOK
<1> QED
  BY <1>1, <1>2, <1>3, <1>4, GoodStep

LEMMA EditStep == IInv /\ EditNext => IInv'
BY TamperStep, ApplyStep, AlterStep, ResetStep DEF EditNext

-----------------------------------------------------------------------------
(* Checks.                                                                 *)

LEMMA CheckGoes ==
  ASSUME IInv, CheckStep, CheckOK', CleanMeansMeasured', AlarmsAreReal'
  PROVE  IInv'
<1>1. UNCHANGED <<privateKey, sensorKey, evidence, rows, stored, run, past>>
  BY DEF CheckStep, ledgerVars, databaseVars
<1>2. Typed' /\ Grows /\ AnchorsStay
  BY <1>1 DEF IInv, Typed, Grows, AnchorsStay
<1> QED
  BY <1>1, <1>2, GoodStep

\* Without a result there is nothing to be wrong.
LEMMA NoResult == check'.result = Absent => CleanMeansMeasured' /\ AlarmsAreReal'
BY DEF CleanMeansMeasured, AlarmsAreReal, Concluded

LEMMA CheckBegins ==
  IInv /\ ((\E id \in Ids, source \in {"local", "remote"} : StartCheck(id, source)) \/ Answered) => IInv'
<1> SUFFICES ASSUME IInv, (\E id \in Ids, source \in {"local", "remote"} : StartCheck(id, source)) \/ Answered
             PROVE  IInv'
  OBVIOUS
<1>1. NoCheck \in Check
  BY DEF NoCheck, Check
<1>2. PICK n \in Check : n = NoCheck
  BY <1>1
<1>3. /\ n.at = "none" /\ n.readings = Absent /\ n.anchor = Absent /\ n.result = Absent
  BY <1>2 DEF NoCheck
<1>4. CheckStep
  BY DEF StartCheck, Answered, CheckStep
<1>5. CASE Answered
  <2>1. check' = n
    BY <1>2, <1>5 DEF Answered
  <2>2. CheckOK' /\ check'.result = Absent
    BY <1>3, <2>1 DEF CheckOK
  <2> QED
    BY <1>4, <2>2, NoResult, CheckGoes
<1>6. ASSUME NEW id \in Ids, NEW source \in {"local", "remote"}, StartCheck(id, source)
      PROVE  IInv'
  <2>1. check' = [n EXCEPT !.at = "reading", !.id = id, !.source = source]
    BY <1>2, <1>6 DEF StartCheck
  <2>2. /\ check' \in Check /\ check'.at = "reading" /\ check'.id = id
        /\ check'.readings = Absent /\ check'.anchor = Absent /\ check'.result = Absent
    BY <1>3, <2>1 DEF Check
  <2>3. CheckOK'
    BY <2>2 DEF CheckOK
  <2> QED
    BY <1>4, <2>2, <2>3, NoResult, CheckGoes
<1> QED
  BY <1>5, <1>6

LEMMA CheckReads ==
  ASSUME IInv, FindRow \/ FindAnchor \/ ReadReadings \/ ReadAnchor \/ GiveUp
  PROVE  IInv'
<1>1. PICK c \in Check : /\ c = check /\ c.at = "reading" /\ c.result = Absent /\ c.id \in Ids
                         /\ CheckOK
  BY DEF IInv, CheckOK, FindRow, FindAnchor, ReadReadings, ReadAnchor, GiveUp
<1>2. CheckStep
  BY DEF FindRow, FindAnchor, ReadReadings, ReadAnchor, GiveUp
<1>3. UNCHANGED <<evidence, stored, past, sensorKey>>
  BY <1>2 DEF CheckStep, ledgerVars, databaseVars
<1>4. \/ \E error \in Errors : check' = [c EXCEPT !.at = "done", !.error = error]
      \/ check' = [c EXCEPT !.declared = TRUE]
      \/ stored[c.id] # <<>> /\ check' = [c EXCEPT !.readings = stored[c.id]]
      \/ evidence[c.id] # Absent /\ check' = [c EXCEPT !.anchor = evidence[c.id]]
  BY <1>1 DEF FindRow, FindAnchor, ReadReadings, ReadAnchor, GiveUp, Fails, Errors
<1>5. StoredOK(c.id) /\ AnchorOK(c.id) /\ Typed
  BY <1>1 DEF IInv
<1>6. CASE \/ \E error \in Errors : check' = [c EXCEPT !.at = "done", !.error = error]
           \/ check' = [c EXCEPT !.declared = TRUE]
  <2>1. /\ check' \in Check /\ check'.id = c.id /\ check'.result = Absent
        /\ check'.readings = c.readings /\ check'.anchor = c.anchor
    BY <1>1, <1>6 DEF Check
  <2>2. CheckOK'
    BY <1>1, <1>3, <2>1 DEF CheckOK
  <2> QED
    BY <1>2, <2>1, <2>2, NoResult, CheckGoes
<1>7. CASE stored[c.id] # <<>> /\ check' = [c EXCEPT !.readings = stored[c.id]]
  <2>1. PICK r \in Seq(Reading) : r = stored[c.id]
    BY <1>1, <1>5 DEF Typed
  <2>2. /\ check' \in Check /\ check'.id = c.id /\ check'.result = Absent
        /\ check'.readings = r /\ check'.anchor = c.anchor
    BY <1>1, <1>7, <2>1 DEF Check
  <2>3. IsSound(r, c.id, past, sensorKey)
    BY <1>5, <1>7, <2>1 DEF StoredOK
  <2>4. CheckOK'
    BY <1>1, <1>3, <2>2, <2>3 DEF CheckOK
  <2> QED
    BY <1>2, <2>2, <2>4, NoResult, CheckGoes
<1>8. CASE evidence[c.id] # Absent /\ check' = [c EXCEPT !.anchor = evidence[c.id]]
  <2>1. PICK a \in Anchor : a = evidence[c.id]
    BY <1>1, <1>5, <1>8 DEF Typed
  <2>2. /\ check' \in Check /\ check'.id = c.id /\ check'.result = Absent
        /\ check'.readings = c.readings /\ check'.anchor = a
    BY <1>1, <1>8, <2>1 DEF Check
  <2>3. IsTrueAnchor(a, c.id, past)
    BY <1>5, <1>8, <2>1 DEF AnchorOK
  <2>4. CheckOK'
    BY <1>1, <1>3, <2>2, <2>3 DEF CheckOK
  <2> QED
    BY <1>2, <2>2, <2>4, NoResult, CheckGoes
<1> QED
  BY <1>4, <1>6, <1>7, <1>8

\* The verdict on sound readings and a true anchor.
LEMMA CheckConcludes == ASSUME IInv, Conclude PROVE IInv'
<1>1. PICK c \in Check : c = check /\ c.at = "reading" /\ c.id \in Ids /\ CheckOK
  BY DEF IInv, CheckOK, Conclude
<1>2. PICK r \in Seq(Reading) : r = c.readings /\ r # Absent
  BY <1>1 DEF Conclude, Check
<1>3. PICK a \in Anchor : a = c.anchor /\ a # Absent
  BY <1>1 DEF Conclude, Check
<1>4. IsSound(r, c.id, past, sensorKey) /\ IsTrueAnchor(a, c.id, past)
  BY <1>1, <1>2, <1>3 DEF CheckOK
<1>5. PICK issue \in Issues : issue = SignatureIssue(r)
  BY DEF SignatureIssue, Issues
<1>6. PICK m \in BOOLEAN : m = (Sha256(r) = c.id)
  BY Zenon
<1>7. PICK s \in BOOLEAN : s = (a.statistics = CalculateStatistics(r))
  BY Zenon
<1>8. PICK g \in BOOLEAN : g = (issue = "")
  BY Zenon
<1>9. PICK result : result = [match |-> m, statisticsMatch |-> s, signaturesMatch |-> g,
                              signatureIssue |-> issue]
  OBVIOUS
<1>10. CheckStep
  BY DEF Conclude
<1>11. \/ check' = [c EXCEPT !.at = "done", !.result = result]
       \/ check' = [c EXCEPT !.at = "done",
                             !.result = [result EXCEPT !.signaturesMatch = Absent, !.signatureIssue = ""]]
  <2>1. result = [match |-> Sha256(r) = c.id,
                  statisticsMatch |-> StatisticsAgree(a.statistics, CalculateStatistics(r)),
                  signaturesMatch |-> SignatureIssue(r) = "", signatureIssue |-> SignatureIssue(r)]
    BY <1>5, <1>6, <1>7, <1>8, <1>9, Zenon DEF StatisticsAgree
  <2> QED
    BY <1>1, <1>2, <1>3, <2>1, Zenon DEF Conclude
<1>12. PICK v : /\ \/ v = result
                   \/ v = [result EXCEPT !.signaturesMatch = Absent, !.signatureIssue = ""]
                /\ check' = [c EXCEPT !.at = "done", !.result = v]
  BY <1>11
<1>13. /\ v \in Result /\ v.match = m /\ v.statisticsMatch = s
       /\ v.signaturesMatch = TRUE => g = TRUE
       /\ v.signatureIssue = "FORGED" => issue = "FORGED"
  <2>1. CASE v = result
    <3>1. v = [match |-> m, statisticsMatch |-> s, signaturesMatch |-> g, signatureIssue |-> issue]
      BY <1>9, <2>1
    <3> QED
      BY <3>1 DEF Result
  <2>2. CASE v = [result EXCEPT !.signaturesMatch = Absent, !.signatureIssue = ""]
    <3>1. v = [match |-> m, statisticsMatch |-> s, signaturesMatch |-> Absent, signatureIssue |-> ""]
      BY <1>9, <2>2
    <3>2. Absent # TRUE
      BY AbsentAssumption
    <3> QED
      BY <3>1, <3>2 DEF Result, Issues
  <2> QED
    BY <1>12, <2>1, <2>2
<1>14. /\ check' \in Check /\ check'.at = "done" /\ check'.id = c.id /\ check'.readings = r
       /\ check'.anchor = a /\ check'.result = v
  BY <1>1, <1>2, <1>3, <1>12, <1>13 DEF Check
<1>15. UNCHANGED <<past, sensorKey>>
  BY <1>10 DEF CheckStep, ledgerVars
<1>16. CheckOK'
  BY <1>1, <1>4, <1>14, <1>15 DEF CheckOK
<1>17. /\ m => Sha256(r) = c.id
       /\ ~m => Sha256(r) # c.id
       /\ s => a.statistics = CalculateStatistics(r)
       /\ ~s => a.statistics # CalculateStatistics(r)
       /\ g = TRUE => issue = ""
  BY <1>6, <1>7, <1>8, Zenon
<1>18. /\ issue = "" => SignaturesValid(r, sensorKey.publicKey)
       /\ issue = "FORGED" => sensorKey # Absent /\ ~SignaturesValid(r, sensorKey.publicKey)
  BY <1>5 DEF SignatureIssue
<1>19. ASSUME v.signaturesMatch = TRUE PROVE IsMeasured(r, past'.measured)
  <2>1. SignaturesValid(r, sensorKey.publicKey)
    BY <1>13, <1>17, <1>18, <1>19
  <2>2. IsFile(r, past.measured)
    BY <1>4 DEF IsSound
  <2>3. \A i \in DOMAIN r : \E t \in past.measured :
          /\ r[i].at = i /\ i \in DOMAIN t
          /\ RoundCelsius(r[i].celsius) = RoundCelsius(t[i])
    BY <2>1, <2>2, VouchedValues
  <2> QED
    BY <1>15, <2>3 DEF IsMeasured
<1>20. ASSUME s PROVE a.complianceOutcome = DeriveComplianceOutcome(CalculateStatistics(r))
  BY <1>4, <1>17, <1>20 DEF IsTrueAnchor
<1>21. CleanMeansMeasured'
  BY <1>13, <1>14, <1>19, <1>20 DEF CleanMeansMeasured, FromMeasured, IsMeasured
<1>22. ~m => c.id \in past'.edited
  BY <1>4, <1>15, <1>17 DEF IsSound
<1>23. ASSUME ~s PROVE c.id \in past'.edited \cup past'.lied
  <2>1. r # <<>> /\ InPlace(r)
    BY <1>4 DEF IsSound, IsFile
  <2>2. CalculateStatistics(r) = SummaryOf(Sha256(r))
    BY <2>1, FingerprintSummary
  <2> QED
    BY <1>4, <1>15, <1>17, <1>23, <2>2 DEF IsSound, IsTrueAnchor
<1>24. issue = "FORGED" => c.id \in past'.edited \cup past'.forged \cup past'.lied
  BY <1>4, <1>15, <1>18 DEF IsSound, Vouched
<1>25. AlarmsAreReal'
  BY <1>13, <1>14, <1>22, <1>23, <1>24 DEF AlarmsAreReal
<1> QED
  BY <1>10, <1>16, <1>21, <1>25, CheckGoes

LEMMA CheckNextStep == IInv /\ CheckNext => IInv'
BY CheckBegins, CheckReads, CheckConcludes DEF CheckNext, Checking

-----------------------------------------------------------------------------
(* The theorems.                                                           *)

LEMMA InvInit == Init => IInv
<1> SUFFICES ASSUME Init PROVE IInv
  OBVIOUS
<1>1. past = [keys |-> {privateKey}, measured |-> {}, edited |-> {}, forged |-> {}, lied |-> {}]
      /\ past \in Past
  BY DEF Init, Past
<1>2. <<>> \in Seq(Reading)
  OBVIOUS
<1>3. Idle \in Run /\ Idle.at = "idle"
  BY <1>2 DEF Idle, Run, Stages
<1>4. Typed
  BY <1>1, <1>2, <1>3 DEF Init, Typed
<1>5. \A p \in Programs : RunOK(p)
  BY <1>3 DEF Init, RunOK
<1>6. \A id \in Ids : StoredOK(id) /\ AnchorOK(id)
  BY DEF Init, StoredOK, AnchorOK
<1>7. NoCheck \in Check
  BY DEF NoCheck, Check
<1>8. CheckOK
  BY <1>7 DEF Init, CheckOK, NoCheck
<1>9. check.result = Absent
  BY DEF Init, NoCheck
<1>10. CleanMeansMeasured /\ AlarmsAreReal
  BY <1>9 DEF CleanMeansMeasured, AlarmsAreReal, Concluded
<1> QED
  BY <1>4, <1>5, <1>6, <1>8, <1>10 DEF IInv

LEMMA InvStep == IInv /\ [Next]_vars => IInv'
<1> SUFFICES ASSUME IInv, [Next]_vars PROVE IInv'
  OBVIOUS
<1>1. CASE UNCHANGED vars
  <2>1. UNCHANGED <<privateKey, sensorKey, evidence, rows, stored, run, check, past>>
    BY <1>1 DEF vars
  <2>2. Typed' /\ Grows /\ AnchorsStay
    BY <2>1 DEF IInv, Typed, Grows, AnchorsStay
  <2> QED
    BY <2>1, <2>2, GoodStep
<1> QED
  BY <1>1, KeyStep, RunStep, EditStep, CheckNextStep DEF Next

LEMMA Invariance == Spec => []IInv
BY InvInit, InvStep, PTL DEF Spec

LEMMA IInvTyped == IInv => TypeOK
<1> SUFFICES ASSUME IInv PROVE TypeOK
  OBVIOUS
<1>1. \A p \in Programs : run[p].at \in Stages /\ (run[p].at # "idle" => run[p].readings # <<>>)
  BY DEF IInv, Typed, Run, RunOK, IsFile
<1>2. check.error \in Errors \cup {""} /\ (check.result # Absent => check.result \in Result)
  BY DEF IInv, CheckOK, Check
<1> QED
  BY <1>1, <1>2 DEF IInv, Typed, StoredOK, TypeOK

LEMMA IInvOracle == IInv => OracleTakesMeasured
<1> SUFFICES ASSUME IInv, run["oracle"].at # "idle"
             PROVE  /\ \A i \in DOMAIN run["oracle"].readings :
                         /\ run["oracle"].readings[i].sensor = Sensor
                         /\ run["oracle"].readings[i].sequence = i
                         /\ run["oracle"].readings[i].at = i
                    /\ FromMeasured(run["oracle"].readings)
  BY DEF OracleTakesMeasured
<1>1. RunOK("oracle")
  BY DEF IInv, Programs
<1>2. PICK r \in Seq(Reading) : r = run["oracle"].readings /\ InPlace(r) /\ FromMeasured(r)
  BY <1>1 DEF RunOK, IsFile
<1>3. \A i \in DOMAIN r : r[i].sensor = Sensor
  <2>1. \A i \in DOMAIN r : r[i] \in Reading
    OBVIOUS
  <2> QED
    BY <2>1 DEF Reading
<1> QED
  BY <1>2, <1>3 DEF InPlace

LEMMA IInvOutcomes == IInv => OutcomesAgree
<1> SUFFICES ASSUME IInv, NEW id \in Ids, id \notin past.lied, rows[id] # Absent, evidence[id] # Absent
             PROVE  rows[id].complianceOutcome = evidence[id].complianceOutcome
  BY DEF OutcomesAgree
<1>1. rows[id].complianceOutcome = AssessCompliance(SummaryOf(id))
  BY DEF IInv, StoredOK
<1>2. evidence[id].complianceOutcome = DeriveComplianceOutcome(SummaryOf(id))
  BY DEF IInv, AnchorOK, IsTrueAnchor
<1>3. AssessCompliance(SummaryOf(id)) = DeriveComplianceOutcome(SummaryOf(id))
  BY DEF AssessCompliance, DeriveComplianceOutcome, Thousand
<1> QED
  BY <1>1, <1>2, <1>3

\* The database, the runs and the check are well-formed: an id has a row
\* exactly when it has readings, and a row is marked as anchored only when
\* the ledger has its evidence (saveEvidence, markAnchored, /demo/reset).
THEOREM TypeCorrect == Spec => []TypeOK
BY Invariance, IInvTyped, PTL

\* Three good answers of a verification mean that the readings are values the
\* sensor measured, each at its time, and that the outcome on the ledger is
\* the outcome of these readings.
THEOREM CleanIsMeasured == Spec => []CleanMeansMeasured
<1>1. IInv => CleanMeansMeasured
  BY DEF IInv
<1> QED
  BY <1>1, Invariance, PTL

\* A bad answer has a cause: a fingerprint differs only after an edit,
\* statistics only after an edit or a false summary, and a signature is called
\* forged only after somebody changed a value or lied; never because a key
\* was revoked, a run repeated or a source read late.
THEOREM NoFalseAlarm == Spec => []AlarmsAreReal
<1>1. IInv => AlarmsAreReal
  BY DEF IInv
<1> QED
  BY <1>1, Invariance, PTL

\* What the oracle works on after verifyReadings has one reading for each time
\* from the first to the last, each of the sensor and with a value it measured
\* at that time: whatever signed rows, of any runs, a file was put together
\* from, and whichever value or sensor in it was changed.
THEOREM OracleReadsMeasured == Spec => []OracleTakesMeasured
BY Invariance, IInvOracle, PTL

\* assessCompliance and the contract's deriveComplianceOutcome agree about
\* every id whose summary was not a lie.
THEOREM OneOutcome == Spec => []OutcomesAgree
BY Invariance, IInvOutcomes, PTL

=============================================================================
