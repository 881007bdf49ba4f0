----------------------------- MODULE SimConsole -----------------------------
(***************************************************************************)
(* The simulation console (apps/demo-console, SimApp.tsx): the demo's      *)
(* workflow on one batch, against state kept in the page and a hash chain  *)
(* of blocks whose text the user may rewrite.                              *)
(*                                                                         *)
(* The page draws itself from its state after every click, so that a click *)
(* is one step.  A hash is its argument: two are equal exactly when what   *)
(* was hashed is.  Readings are numbers of degrees; a reading's signature  *)
(* is the value that was signed.  Texts are records of what they say.      *)
(***************************************************************************)
EXTENDS Integers, Sequences, FiniteSets

CONSTANTS
  Cells,                   \* what may be typed into a reading
  Lies,                    \* and what as a summary of them
  Clicks                   \* bounds: clicks of each kind, in a behaviour

ASSUME CellsAssumption == Cells \subseteq Int
ASSUME LiesAssumption == Lies \subseteq [min : Int, max : Int]

ORGS == {"regulator", "farm", "processor", "logistics", "retailer", "oracle"}
ORDER == <<"regulator", "farm", "processor", "logistics", "retailer", "oracle", "sensorKey">>
Registrable == ORGS \cup {"sensorKey"}

\* Those that record the steps 1, 2 and 3.
WHO == <<"processor", "logistics", "retailer">>

\* Presets, two readings each: inside 0 to 5 degrees, and too warm.
Sign(celsius) == [celsius |-> celsius, sig |-> celsius]
DEFAULT_ROWS == <<Sign(2), Sign(3)>>
UNSAFE_ROWS == <<Sign(2), Sign(8)>>
HIDDEN == 3

VARIABLES
  reg,                     \* the registered companies, and "sensorKey"
  stage,                   \* -1 before there is a batch
  breach, recalled,
  rows, preset,            \* the table of readings, and where it was loaded from
  anchor,                  \* the last anchor, or NoAnchor
  verify,                  \* the last verification, or NoVerdict
  blocks,                  \* the chain, oldest first
  clicks                   \* how many more of Clicks

simVars == <<reg, stage, breach, recalled, rows, preset, anchor, verify, blocks, clicks>>
batchVars == <<stage, breach, recalled>>
tableVars == <<rows, preset>>

Kinds == {"registration", "anchor", "cell", "text", "reset"}
ASSUME ClicksAssumption == Clicks \subseteq [Kinds -> Nat]
Click(kind) == clicks[kind] > 0 /\ clicks' = [clicks EXCEPT ![kind] = @ - 1]

-----------------------------------------------------------------------------
(* The chain.                                                              *)

FakeHash(prev, data, n) == <<prev, data, n>>

Start == [says |-> "start"]

Block(n, data, prev) ==
  [n |-> n, data |-> data, originalData |-> data,
   committedPrev |-> prev, committedHash |-> FakeHash(prev, data, n)]

Genesis == Block(0, Start, <<>>)

\* The hash of each block as its text reads now.
DerivedHash ==
  LET hash[i \in 1..Len(blocks)] ==
        FakeHash(IF i = 1 THEN <<>> ELSE hash[i - 1], blocks[i].data, blocks[i].n)
  IN hash

\* deriveChain: the blocks that are shown as valid.
Valid(i) ==
  /\ DerivedHash[i] = blocks[i].committedHash
  /\ (IF i = 1 THEN <<>> ELSE DerivedHash[i - 1]) = blocks[i].committedPrev

\* Defect: a new block continues the chain as it is shown.
Extended_AsShown(chain, data) ==
  Append(chain, Block(Len(chain), data, DerivedHash[Len(blocks)]))

\* addBlock: on the hash the last block was committed with.
Extended(chain, data) ==
  Append(chain, Block(Len(chain), data, chain[Len(chain)].committedHash))

AddBlock(data) == blocks' = Extended(blocks, data)

\* The text of any block may be rewritten; it stays in its place.
EditBlock(i, data) ==
  /\ Click("text") /\ i \in DOMAIN blocks
  /\ blocks' = [blocks EXCEPT ![i].data = data]
  /\ UNCHANGED <<reg, batchVars, tableVars, anchor, verify>>

RestoreChain ==
  /\ blocks' = [i \in DOMAIN blocks |-> [blocks[i] EXCEPT !.data = blocks[i].originalData]]
  /\ UNCHANGED <<reg, batchVars, tableVars, anchor, verify, clicks>>

-----------------------------------------------------------------------------
(* Registrations.                                                          *)

Joined(who) == [says |-> "registered", who |-> who]

\* One block for everyone who is missing, in the order of the list.
RegisterAll ==
  LET chain[i \in 0..Len(ORDER)] ==
        IF i = 0 THEN blocks
        ELSE IF ORDER[i] \in reg THEN chain[i - 1]
        ELSE Extended(chain[i - 1], Joined(ORDER[i]))
  IN
  /\ reg # Registrable
  /\ reg' = Registrable
  /\ blocks' = chain[Len(ORDER)]
  /\ UNCHANGED <<batchVars, tableVars, anchor, verify, clicks>>

\* Defect: a company may be first that is not the regulator.
Register_AnyoneFirst(who) ==
  /\ Click("registration")
  /\ who \notin reg
  /\ reg' = reg \cup {who}
  /\ AddBlock(Joined(who))
  /\ UNCHANGED <<batchVars, tableVars, anchor, verify>>

\* registerOrg and registerSensor.
Register(who) ==
  /\ Click("registration")
  /\ who # "regulator" => "regulator" \in reg
  /\ who \notin reg
  /\ reg' = reg \cup {who}
  /\ AddBlock(Joined(who))
  /\ UNCHANGED <<batchVars, tableVars, anchor, verify>>

-----------------------------------------------------------------------------
(* The batch.                                                              *)

NoAnchor == [hash |-> <<>>]
NoVerdict == [sigOK |-> "none"]

Create ==
  /\ "farm" \in reg /\ stage = -1
  /\ stage' = 0 /\ verify' = NoVerdict /\ anchor' = NoAnchor
  /\ AddBlock([says |-> "created"])
  /\ UNCHANGED <<reg, breach, recalled, tableVars, clicks>>

\* A hold stops delivery only.
StepTo(i) ==
  /\ WHO[i] \in reg
  /\ stage # -1 /\ ~recalled
  /\ ~(i = 3 /\ breach)
  /\ i = stage + 1
  /\ stage' = i /\ verify' = NoVerdict
  /\ AddBlock([says |-> "step", to |-> i])
  /\ UNCHANGED <<reg, breach, recalled, tableVars, anchor, clicks>>

Recall ==
  /\ stage # -1 /\ ~recalled
  /\ recalled' = TRUE
  /\ AddBlock([says |-> "recalled"])
  /\ UNCHANGED <<reg, stage, breach, tableVars, anchor, verify, clicks>>

\* Whether the batch is recalled is not asked.
ClearFlag ==
  /\ breach
  /\ breach' = FALSE
  /\ AddBlock([says |-> "cleared"])
  /\ UNCHANGED <<reg, stage, recalled, tableVars, anchor, verify, clicks>>

-----------------------------------------------------------------------------
(* Readings.                                                               *)

Data(table) == [i \in DOMAIN table |-> table[i].celsius]
OutOfRange(celsius) == celsius < 0 \/ celsius > 5

Stats(table) ==
  LET values == {table[i].celsius : i \in DOMAIN table}
  IN [min |-> CHOOSE v \in values : \A w \in values : v <= w,
      max |-> CHOOSE v \in values : \A w \in values : v >= w]

\* Defect: the flag follows the latest summary.
Flagged_ByTheLatest(was, reported) == OutOfRange(reported.max) \/ OutOfRange(reported.min)

Flagged(was, reported) == was \/ reported.max > 5 \/ reported.min < 0

\* anchorReadings, with the summary of the readings or one that was typed in;
\* a lie is on offer beside the warm preset only.
AnchorReadings(reported) ==
  /\ Click("anchor")
  /\ "oracle" \in reg
  /\ stage # -1 /\ ~recalled
  /\ reported = Stats(rows) \/ (preset = "warm" /\ reported \in Lies)
  /\ anchor' = [hash |-> Data(rows), reported |-> reported, count |-> Len(rows)]
  /\ verify' = NoVerdict
  /\ AddBlock([says |-> "anchored", hash |-> Data(rows), reported |-> reported])
  /\ breach' = Flagged(breach, reported)
  /\ UNCHANGED <<reg, stage, recalled, tableVars>>

Forged(table) == {i \in DOMAIN table : table[i].sig # table[i].celsius}

SigOK ==
  IF "sensorKey" \notin reg THEN "unknown" ELSE IF Forged(rows) = {} THEN "yes" ELSE "no"

\* Any company may; the answer does not depend on which.
DoVerify ==
  /\ anchor # NoAnchor
  /\ verify' = [hashOK |-> Data(rows) = anchor.hash,
                statsOK |-> Stats(rows) = anchor.reported,
                sigOK |-> SigOK]
  /\ UNCHANGED <<reg, batchVars, tableVars, anchor, blocks, clicks>>

\* Defect: what is typed in is signed.
EditCell_Signed(i, celsius) ==
  /\ Click("cell")
  /\ rows' = [rows EXCEPT ![i] = Sign(celsius)]
  /\ UNCHANGED <<reg, batchVars, preset, anchor, verify, blocks>>

EditCell(i, celsius) ==
  /\ Click("cell")
  /\ rows' = [rows EXCEPT ![i].celsius = celsius]
  /\ UNCHANGED <<reg, batchVars, preset, anchor, verify, blocks>>

\* Every reading that betrays a breach is replaced.
SecretlyEdit ==
  /\ preset = "warm" /\ anchor # NoAnchor
  /\ \E i \in DOMAIN rows : OutOfRange(rows[i].celsius)
  /\ rows' = [i \in DOMAIN rows |->
                IF OutOfRange(rows[i].celsius) THEN [rows[i] EXCEPT !.celsius = HIDDEN] ELSE rows[i]]
  /\ UNCHANGED <<reg, batchVars, preset, anchor, verify, blocks, clicks>>

\* PresetToggle; restoreRows picks the preset that is selected again.
PickPreset(id) ==
  /\ preset' = id
  /\ rows' = IF id = "warm" THEN UNSAFE_ROWS ELSE DEFAULT_ROWS
  /\ UNCHANGED <<reg, batchVars, anchor, verify, blocks, clicks>>

RestoreRows == PickPreset(preset)

SimState ==
  /\ reg = {} /\ stage = -1 /\ breach = FALSE /\ recalled = FALSE
  /\ rows = DEFAULT_ROWS /\ preset = "compliant"
  /\ anchor = NoAnchor /\ verify = NoVerdict
  /\ blocks = <<Genesis>>

Reset ==
  /\ Click("reset")
  /\ reg' = {} /\ stage' = -1 /\ breach' = FALSE /\ recalled' = FALSE
  /\ rows' = DEFAULT_ROWS /\ preset' = "compliant"
  /\ anchor' = NoAnchor /\ verify' = NoVerdict
  /\ blocks' = <<Genesis>>

-----------------------------------------------------------------------------

SimInit == SimState /\ clicks \in Clicks

SimNext ==
  \/ \E i \in DOMAIN blocks : EditBlock(i, [says |-> "rewritten"])
  \/ RestoreChain
  \/ RegisterAll
  \/ \E who \in Registrable : Register(who)
  \/ Create
  \/ \E i \in 1..3 : StepTo(i)
  \/ Recall
  \/ ClearFlag
  \/ \E reported \in Lies \cup {Stats(rows)} : AnchorReadings(reported)
  \/ DoVerify
  \/ \E i \in DOMAIN rows, celsius \in Cells : EditCell(i, celsius)
  \/ SecretlyEdit
  \/ \E id \in {"compliant", "warm"} : PickPreset(id)
  \/ RestoreRows
  \/ Reset

-----------------------------------------------------------------------------
(* Properties.                                                             *)

SimTypeOK ==
  /\ reg \subseteq Registrable /\ (reg # {} => "regulator" \in reg)
  /\ stage \in -1..3
  /\ stage = -1 => ~breach /\ ~recalled /\ anchor = NoAnchor
  /\ rows \in Seq([celsius : Int, sig : Int]) /\ Len(rows) = 2
  /\ \A i \in DOMAIN blocks : blocks[i].n = i - 1
  /\ clicks \in [Kinds -> Nat]

\* "A block whose text was edited no longer matches the hash that was
\* committed with it, and because each hash feeds the next, every later block
\* becomes invalid too": exactly those, also for blocks that are added while
\* the chain is broken, and all are whole again once the texts are.
EditsBreakLaterBlocks ==
  \A i \in DOMAIN blocks :
    Valid(i) <=> \A j \in 1..i : blocks[j].data = blocks[j].originalData

Says(i) == blocks[i].originalData.says
Told(what) == {i \in DOMAIN blocks : Says(i) = what}

\* A warm summary was anchored, and no flag cleared since.
FlagStands ==
  \E i \in Told("anchored") :
    /\ Flagged(FALSE, blocks[i].originalData.reported)
    /\ \A j \in Told("cleared") : j < i

\* Nothing happens to the batch off the chain: the blocks as they were
\* committed tell who is registered, how far the batch is, whether it is
\* recalled, whether it is flagged and what the last anchor was.
ChainTellsState ==
  /\ reg = {blocks[i].originalData.who : i \in Told("registered")}
  /\ stage = Cardinality(Told("created")) + Cardinality(Told("step")) - 1
  /\ recalled = (Told("recalled") # {})
  /\ breach = FlagStands
  /\ IF Told("anchored") = {} THEN anchor = NoAnchor
     ELSE \E last \in Told("anchored") :
            /\ \A i \in Told("anchored") : i <= last
            /\ anchor.hash = blocks[last].originalData.hash
            /\ anchor.reported = blocks[last].originalData.reported

Clean(verdict) ==
  verdict # NoVerdict /\ verdict.hashOK /\ verdict.statsOK /\ verdict.sigOK = "yes"

\* "Clean. [...] The readings are exactly what the sensor measured", and if
\* these were too warm, then the chain was told and the flag went up.
CleanIsMeasured ==
  [][Clean(verify') /\ verify' # verify =>
       /\ rows \in {DEFAULT_ROWS, UNSAFE_ROWS}
       /\ rows = UNSAFE_ROWS =>
            \E i \in Told("anchored") : Flagged(FALSE, blocks[i].originalData.reported)]_verify

=============================================================================
