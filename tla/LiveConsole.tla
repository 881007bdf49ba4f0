---------------------------- MODULE LiveConsole ----------------------------
(***************************************************************************)
(* The live console (apps/demo-console, LiveApp.tsx): one page in front of *)
(* the six companies' backends and the demo server.                        *)
(*                                                                         *)
(* Every button starts a task, and a task runs from one awaited answer to  *)
(* the next: what it knew before an answer may be outdated after it.  A    *)
(* task works for the batch, the table and the evidence that were selected *)
(* when its button was pressed.  Any answer may be missing.                *)
(*                                                                         *)
(* The backends are seen from the page: a batch is the number of its       *)
(* events, evidence is the readings its fingerprint covers.  What they do  *)
(* themselves is in the other modules.  Captions and ghosts are left out.  *)
(***************************************************************************)
EXTENDS Integers, Sequences, FiniteSets

CONSTANTS
  BatchIds, FirstBatch,    \* batch ids; the one the page opens with
  DefaultRows, UnsafeRows, \* the presets: readings within and outside 0 to 5 degrees
  HiddenRows,              \* the unsafe ones after a tampering
  EditedRows,              \* what a user may make of a table
  Nothing,                 \* no answer, no record
  Slots,                   \* bound: where tasks run, at most one in each
  Presses,                 \* bounds: buttons pressed, of each kind, in a behaviour
  MaxEvents                \* bound: events of a batch

\* The regulator, and one of those that it registers, companies and sensors.
Joiners == {"regulator", "other"}
JoiningOrder == <<"regulator", "other">>
Tables == {DefaultRows, UnsafeRows, HiddenRows, EditedRows}

\* A fingerprint: the storage package's, computed by the helper, or the
\* page's own digest.  Evidence is named by it.
Hash(id, table, by) == [batch |-> id, table |-> table, by |-> by]
Ids == [batch : BatchIds, table : Tables, by : {"helper", "page"}]

ASSUME FirstBatchAssumption == FirstBatch \in BatchIds

VARIABLES
  backend,                 \* the ledger and the oracle's database
  page,                    \* what the page holds
  effect,                  \* the effect that keeps the fingerprint: timer, asked, settled
  outdated,                \* requests of effects that were disposed of
  tasks,                   \* what each slot is doing
  pressesLeft

liveVars == <<backend, page, effect, outdated, tasks, pressesLeft>>
effectVars == <<effect, outdated>>

-----------------------------------------------------------------------------
(* Tasks.                                                                  *)

Idle(s) == tasks[s].at = "free"
FreeSlots == {s \in Slots : Idle(s) /\ s <= pressesLeft.atOnce}
Free == [job |-> "none", at |-> "free", id |-> Nothing, arg |-> Nothing, listed |-> {}]

Task(job, at, id, arg) == [job |-> job, at |-> at, id |-> id, arg |-> arg, listed |-> {}]

\* A button of one of these kinds is pressed; so many tasks run at once.
Buttons == {"batch", "registry", "table", "evidence"}
ASSUME PressesAssumption == Presses \subseteq [Buttons \cup {"atOnce"} -> Nat]
Press(kind) ==
  pressesLeft[kind] > 0 /\ pressesLeft' = [pressesLeft EXCEPT ![kind] = @ - 1]

\* The lowest free slot takes a task.
Starts(task) ==
  /\ FreeSlots # {}
  /\ LET slot == CHOOSE s \in FreeSlots : \A z \in FreeSlots : s <= z
     IN tasks' = [tasks EXCEPT ![slot] = task]

Goes(s, at) == tasks' = [tasks EXCEPT ![s].at = at]
Ends(s) == tasks' = [tasks EXCEPT ![s] = Free]

\* A button that only starts a task.
StartsOnPress(kind, task) == Press(kind) /\ Starts(task) /\ UNCHANGED <<backend, page, effectVars>>

At(s, at) == tasks[s].at = at /\ UNCHANGED pressesLeft

-----------------------------------------------------------------------------
(* The fingerprint of the table (the effect on rows and batchId).          *)

Covered == <<page.batchId, page.rows>>

\* A change disposes of the effect that runs: its timer is cleared, and a
\* request that is under way has become outdated.
EffectFollows ==
  IF Covered' = Covered THEN UNCHANGED effectVars
  ELSE /\ effect' = "timer"
       /\ outdated' = IF effect = "asked" THEN outdated \cup {Covered} ELSE outdated

HashTimer ==
  /\ effect = "timer"
  /\ effect' = "asked"
  /\ UNCHANGED <<backend, page, outdated, tasks, pressesLeft>>

HashAnswer(by) ==
  /\ effect = "asked"
  /\ page' = [page EXCEPT !.liveHash = Hash(page.batchId, page.rows, by)]
  /\ effect' = "settled"
  /\ UNCHANGED <<backend, outdated, tasks, pressesLeft>>

\* Defect: an answer counts although its effect was disposed of.
OutdatedAnswer_Counts(asked) ==
  /\ asked \in outdated
  /\ outdated' = outdated \ {asked}
  /\ page' = [page EXCEPT !.liveHash = Hash(asked[1], asked[2], "helper")]
  /\ UNCHANGED <<backend, effect, tasks, pressesLeft>>

OutdatedAnswer(asked) ==
  /\ asked \in outdated
  /\ outdated' = outdated \ {asked}
  /\ UNCHANGED <<backend, page, effect, tasks, pressesLeft>>

-----------------------------------------------------------------------------
(* Reading the ledger into the page.                                       *)

\* probeRegistrations: each is asked about, and who is found is shown as
\* registered; without a backend to ask, what is shown stays.
Probe(s) ==
  /\ At(s, "probe")
  /\ \/ \E found \in SUBSET backend.registry : page' = [page EXCEPT !.registered = found]
     \/ UNCHANGED page
  /\ Goes(s, "batch")
  /\ UNCHANGED <<backend, effectVars>>

Latest(id) == [id |-> id, event |-> backend.events[id]]

\* refreshBatch, request by request: the batch and its history,
RefreshBatch(s) ==
  LET id == tasks[s].id IN
  /\ At(s, "batch")
  /\ \/ /\ backend.events[id] > 0
        /\ page' = [page EXCEPT !.batch = Latest(id)] /\ Goes(s, "history")
     \/ page' = [page EXCEPT !.batch = Nothing, !.history = Nothing] /\ Goes(s, "listed")
  /\ UNCHANGED <<backend, effectVars>>

RefreshHistory(s) ==
  /\ At(s, "history")
  /\ \E found \in {Latest(tasks[s].id), Nothing} : page' = [page EXCEPT !.history = found]
  /\ Goes(s, "listed")
  /\ UNCHANGED <<backend, effectVars>>

\* what the oracle's database lists of a batch on the ledger, anchored or not,
Listed(id) ==
  {e \in Ids : e.batch = id /\ backend.events[id] > 0 /\ backend.database[e] # Nothing}

RefreshListed(s) ==
  /\ At(s, "listed")
  /\ \E found \in {Listed(tasks[s].id), {}} :
       tasks' = [tasks EXCEPT ![s].at = "records", ![s].listed = found]
  /\ UNCHANGED <<backend, page, effectVars>>

\* Defect: what the oracle lists is shown as anchored.
OnLedger_AsListed(ids) == ids

OnLedger(ids) == ids \cap backend.evidence

\* and which of it is found on the ledger; then what its task does with success.
RefreshRecords(s) ==
  LET task == tasks[s] IN
  /\ At(s, "records")
  /\ \E found \in SUBSET OnLedger(task.listed) :
       page' = [page EXCEPT
         !.anchors = found,
         !.verify = IF task.job \in {"create", "step", "direct"} THEN Nothing ELSE @,
         !.evidenceId = IF task.job = "direct" THEN task.arg ELSE @,
         !.registered = IF task.job = "register" THEN @ \cup {task.arg} ELSE @,
         !.regEvents = IF task.job = "register" THEN @ \cup {task.arg} ELSE @]
  /\ IF task.job = "registerAll" THEN Goes(s, "next") ELSE Ends(s)
  /\ UNCHANGED <<backend, effectVars>>

-----------------------------------------------------------------------------
(* Acting on a batch and on the registry.                                  *)

ActJobs == {"create", "step", "power"}

\* The companies' buttons: create, step, and the regulator's powers, recall
\* and clearFlag, which the page treats alike.
Act(job) == StartsOnPress("batch", Task(job, "post", page.batchId, Nothing))

\* The feed's own button.
Refresh == StartsOnPress("batch", Task("refresh", "batch", page.batchId, Nothing))

\* act: accepted, and refreshed, or refused; or nobody knows.
ActAnswer(s) ==
  LET task == tasks[s]  n == backend.events[task.id] IN
  /\ At(s, "post") /\ task.job \in ActJobs
  /\ \/ /\ n < MaxEvents /\ (task.job = "create" <=> n = 0)
        /\ backend' = [backend EXCEPT !.events[task.id] = n + 1]
        /\ Goes(s, "batch") \/ Ends(s)
     \/ UNCHANGED backend /\ Ends(s)
  /\ UNCHANGED <<page, effectVars>>

Accepted(who) ==
  /\ who \notin backend.registry
  /\ who = "regulator" <=> "regulator" \notin backend.registry

\* registerOne and registerSensor, once pingAll has found the backends up.
RegisterOne(who) ==
  who \notin page.registered /\ StartsOnPress("registry", Task("register", "post", page.batchId, who))

RegisterAnswer(s) ==
  LET who == tasks[s].arg IN
  /\ At(s, "post") /\ tasks[s].job = "register"
  /\ \/ /\ Accepted(who) /\ backend' = [backend EXCEPT !.registry = @ \cup {who}]
        /\ Goes(s, "batch") \/ Ends(s)
     \/ UNCHANGED backend /\ Ends(s)
  /\ UNCHANGED <<page, effectVars>>

RegisterEveryone ==
  page.registered # Joiners
    /\ StartsOnPress("registry", Task("registerAll", "next", page.batchId, JoiningOrder))

\* One request after the other, refused or not;
RegisterNext(s) ==
  LET todo == tasks[s].arg IN
  /\ At(s, "next") /\ todo # <<>>
  /\ \/ /\ Accepted(Head(todo))
        /\ backend' = [backend EXCEPT !.registry = @ \cup {Head(todo)}]
        /\ \E at \in {"batch", "next"} :
             tasks' = [tasks EXCEPT ![s].at = at, ![s].arg = Tail(todo)]
     \/ UNCHANGED backend /\ tasks' = [tasks EXCEPT ![s].arg = Tail(todo)]
  /\ UNCHANGED <<page, effectVars>>

\* then all are shown as registered.
RegisteredAll(s) ==
  /\ At(s, "next") /\ tasks[s].arg = <<>>
  /\ page' = [page EXCEPT !.registered = Joiners, !.regEvents = Joiners]
  /\ Ends(s)
  /\ UNCHANGED <<backend, effectVars>>

-----------------------------------------------------------------------------
(* The table.                                                              *)

PresetRows(id) == IF id = "warm" THEN UnsafeRows ELSE DefaultRows

\* A run of the sensor, or what the database holds, is loaded.
Loaded(p, table) == [p EXCEPT !.rows = table, !.signedRows = table]

\* PresetToggle.
LoadPreset(id) ==
  /\ Press("table")
  /\ page' = Loaded([page EXCEPT !.preset = id], PresetRows(id))
  /\ EffectFollows
  /\ UNCHANGED <<backend, tasks>>

TypeReading ==
  /\ Press("table")
  /\ page' = [page EXCEPT !.rows = EditedRows]
  /\ EffectFollows
  /\ UNCHANGED <<backend, tasks>>

\* writeThrough has nothing to write to before there is evidence.
WriteThrough(table) ==
  IF page.evidenceId = Nothing THEN UNCHANGED tasks
  ELSE Starts(Task("write", "write", page.evidenceId, table))

Blur ==
  /\ page.evidenceId # Nothing
  /\ Press("table") /\ WriteThrough(page.rows)
  /\ UNCHANGED <<backend, page, effectVars>>

RestoreSensorData ==
  /\ page.preset # "db"
  /\ Press("table") /\ WriteThrough(PresetRows(page.preset))
  /\ page' = Loaded(page, PresetRows(page.preset))
  /\ EffectFollows
  /\ UNCHANGED backend

\* POST /demo/tamper with "set": the stored rows follow, if there are any.
Written(s) ==
  LET id == tasks[s].id IN
  /\ At(s, "write")
  /\ \/ /\ backend.database[id] # Nothing
        /\ backend' = [backend EXCEPT !.database[id] = tasks[s].arg]
     \/ UNCHANGED backend
  /\ Ends(s)
  /\ UNCHANGED <<page, effectVars>>

-----------------------------------------------------------------------------
(* Anchoring, tampering, verifying.                                        *)

\* anchorFromTable, with the table and the fingerprint of this moment.
Anchor(fake) ==
  /\ fake => page.preset = "warm"
  /\ StartsOnPress("evidence",
       Task("anchor", "run", page.batchId,
            [table |-> page.rows, live |-> page.liveHash, fake |-> fake]))

\* What the demo server does for a run: stores it, and anchors it if there is
\* such a batch.
RunId(task) == Hash(task.id, task.arg.table, "helper")
StoredRun(task) == [backend EXCEPT !.database[RunId(task)] = task.arg.table]
AnchoredRun(task) == [StoredRun(task) EXCEPT !.evidence = @ \cup {RunId(task)}]

\* How far it gets before it fails, or its answer is lost.
BrokenOffRun(task) ==
  {backend, StoredRun(task)} \cup (IF backend.events[task.id] > 0 THEN {AnchoredRun(task)} ELSE {})

\* POST /demo/run: done and answered, or refused after any part of it.
RunAnswer(s) ==
  LET task == tasks[s] IN
  /\ At(s, "run")
  /\ \/ /\ backend.events[task.id] > 0
        /\ backend' = AnchoredRun(task)
        /\ page' = [page EXCEPT !.evidenceId = RunId(task), !.verify = Nothing]
        /\ Goes(s, "batch")
     \/ backend' \in BrokenOffRun(task) /\ UNCHANGED page /\ Ends(s)
  /\ UNCHANGED effectVars

\* Without an answer of the demo server the page submits the evidence itself,
\* under the fingerprint it shows, whether or not the run took place; a lie it
\* does not.
RunUnanswered(s) ==
  LET task == tasks[s] IN
  /\ At(s, "run")
  /\ backend' \in BrokenOffRun(task)
  /\ IF task.arg.fake \/ task.arg.live = Nothing THEN Ends(s)
     ELSE tasks' = [tasks EXCEPT ![s] = Task("direct", "submit", task.id, task.arg.live)]
  /\ UNCHANGED <<page, effectVars>>

DirectAnswer(s) ==
  LET task == tasks[s] IN
  /\ At(s, "submit")
  /\ \/ /\ backend.events[task.id] > 0 /\ task.arg \notin backend.evidence
        /\ backend' = [backend EXCEPT !.evidence = @ \cup {task.arg}]
        /\ Goes(s, "batch") \/ Ends(s)
     \/ UNCHANGED backend /\ Ends(s)
  /\ UNCHANGED <<page, effectVars>>

\* tamperDb: the database first, then the table from it.
TamperDb ==
  /\ page.preset = "warm" /\ page.evidenceId # Nothing
  /\ StartsOnPress("evidence", Task("tamper", "hide", page.batchId, page.evidenceId))

Hidden(s) ==
  LET id == tasks[s].arg IN
  /\ At(s, "hide")
  /\ \/ /\ backend.database[id] = UnsafeRows
        /\ backend' = [backend EXCEPT !.database[id] = HiddenRows]
        /\ Goes(s, "readings") \/ Ends(s)
     \/ UNCHANGED backend /\ Ends(s)
  /\ UNCHANGED <<page, effectVars>>

\* loadEvidence: the evidence of the batch, the last one listed; its readings.
\* Pressed by itself (the preset "db"), or on the way to a verification.
LoadEvidence ==
  /\ Press("evidence")
  /\ page' = [page EXCEPT !.preset = "db"]
  /\ Starts(Task("load", "list", page.batchId, Nothing))
  /\ UNCHANGED <<backend, effectVars>>

CheckReadings ==
  StartsOnPress("evidence",
    IF page.evidenceId # Nothing THEN Task("verify", "verify", page.batchId, page.evidenceId)
    ELSE Task("verify", "list", page.batchId, Nothing))

EvidenceListed(s) ==
  LET task == tasks[s] IN
  /\ At(s, "list")
  /\ \/ \E e \in Listed(task.id) :
          /\ page' = [page EXCEPT !.evidenceId = e]
          /\ tasks' = [tasks EXCEPT ![s].at = "readings", ![s].arg = e]
     \/ page' = [page EXCEPT !.evidenceId = Nothing] /\ Ends(s)
  /\ UNCHANGED <<backend, effectVars>>

ReadingsLoaded(s) ==
  LET task == tasks[s]  stored == backend.database[task.arg] IN
  /\ At(s, "readings")
  /\ \/ /\ task.arg \in backend.evidence /\ stored # Nothing
        /\ page' = Loaded(page, stored)
     \/ UNCHANGED page
  /\ EffectFollows
  /\ IF task.job = "verify" THEN Goes(s, "verify") ELSE Ends(s)
  /\ UNCHANGED backend

\* Of the three comparisons the fingerprint's; the others are EvidenceChecks'.
Verified(s) ==
  LET id == tasks[s].arg  stored == backend.database[id] IN
  /\ At(s, "verify")
  /\ \/ /\ id \in backend.evidence /\ stored # Nothing
        /\ page' = [page EXCEPT !.verify = [id |-> id,
                      match |-> Hash(id.batch, stored, "helper") = id]]
     \/ UNCHANGED page
  /\ Ends(s)
  /\ UNCHANGED <<backend, effectVars>>

-----------------------------------------------------------------------------
(* A new batch.                                                            *)

Opened(id) ==
  [batchId |-> id, batch |-> Nothing, history |-> Nothing, anchors |-> {},
   registered |-> {}, regEvents |-> {}, rows |-> DefaultRows, signedRows |-> DefaultRows,
   preset |-> "compliant", liveHash |-> Nothing, evidenceId |-> Nothing, verify |-> Nothing]

\* newBatch: the page starts over on another id, and asks for the database to
\* be emptied without waiting for it.  Registrations stay shown.  Its two
\* loads touch different state, so that their order does not matter.
NewBatch(id) ==
  /\ Press("batch")
  /\ id # page.batchId
  /\ page' = [Opened(id) EXCEPT !.registered = page.registered, !.regEvents = page.regEvents,
                                !.liveHash = page.liveHash]
  /\ backend' = [backend EXCEPT !.resetAsked = TRUE]
  /\ Starts(Task("open", "probe", id, Nothing))
  /\ EffectFollows

\* POST /demo/reset, whenever it gets there.
ResetLands ==
  /\ backend.resetAsked
  /\ backend' = [backend EXCEPT !.resetAsked = FALSE, !.database = [e \in Ids |-> Nothing]]
  /\ UNCHANGED <<page, effectVars, tasks, pressesLeft>>

-----------------------------------------------------------------------------

\* The page is opened on a new network, or on one in use: a batch with one
\* run anchored, and one of Joiners still to come.
NewNetwork ==
  [events |-> [id \in BatchIds |-> 0], evidence |-> {}, registry |-> {},
   database |-> [e \in Ids |-> Nothing], resetAsked |-> FALSE]

UsedNetwork ==
  LET anchored == Hash(FirstBatch, UnsafeRows, "helper") IN
     [events |-> [NewNetwork.events EXCEPT ![FirstBatch] = 1],
      evidence |-> {anchored}, registry |-> {"regulator"},
      database |-> [NewNetwork.database EXCEPT ![anchored] = UnsafeRows], resetAsked |-> FALSE]

LiveInit ==
  /\ backend \in {NewNetwork, UsedNetwork}
  /\ page = Opened(FirstBatch)
  /\ effect = "timer" /\ outdated = {}
  /\ \E slot \in Slots :
       /\ \A s \in Slots : slot <= s
       /\ tasks = [s \in Slots |->
                     IF s = slot THEN Task("open", "probe", FirstBatch, Nothing) ELSE Free]
  /\ pressesLeft \in Presses

Pressing ==
  \/ \E job \in ActJobs : Act(job)
  \/ Refresh
  \/ \E who \in Joiners : RegisterOne(who)
  \/ RegisterEveryone
  \/ \E id \in {"compliant", "warm"} : LoadPreset(id)
  \/ TypeReading \/ Blur \/ RestoreSensorData
  \/ \E fake \in BOOLEAN : Anchor(fake)
  \/ TamperDb \/ LoadEvidence \/ CheckReadings
  \/ \E id \in BatchIds : NewBatch(id)

Answers ==
  \/ HashTimer
  \/ \E by \in {"helper", "page"} : HashAnswer(by)
  \/ \E asked \in outdated : OutdatedAnswer(asked)
  \/ ResetLands
  \/ \E s \in Slots :
       \/ Probe(s) \/ RefreshBatch(s) \/ RefreshHistory(s) \/ RefreshListed(s) \/ RefreshRecords(s)
       \/ ActAnswer(s) \/ RegisterAnswer(s) \/ RegisterNext(s) \/ RegisteredAll(s)
       \/ Written(s) \/ RunAnswer(s) \/ RunUnanswered(s) \/ DirectAnswer(s)
       \/ Hidden(s) \/ EvidenceListed(s) \/ ReadingsLoaded(s) \/ Verified(s)

LiveNext == Pressing \/ Answers

-----------------------------------------------------------------------------
(* Properties.                                                             *)

LiveTypeOK ==
  /\ page.batchId \in BatchIds /\ page.rows \in Tables /\ page.signedRows \in Tables
  /\ page.registered \subseteq Joiners /\ page.anchors \subseteq Ids
  /\ effect \in {"timer", "asked", "settled"} /\ outdated \subseteq BatchIds \X Tables
  /\ \A s \in Slots : Idle(s) => tasks[s] = Free

\* The fingerprint in the bar, which the page anchors under when the demo
\* server is down, is that of the table and the batch on the screen as soon
\* as no change waits for its answer, in whatever order answers came in.
FingerprintFollowsTable ==
  effect = "settled" =>
    /\ page.liveHash.batch = page.batchId
    /\ page.liveHash.table = page.rows

\* "A record the ledger does not hold was never anchored, so it does not
\* belong in the chain feed": what the feed shows of a batch and of its
\* evidence is on the ledger, also when the oracle lists evidence it could not
\* submit, and for every refresh that was overtaken by another.  Its rows about
\* registrations are not included: RegisteredAll adds refused ones too.
FeedOnLedger ==
  /\ page.anchors \subseteq backend.evidence
  /\ \A shown \in {page.batch, page.history} \ {Nothing} :
       shown.event <= backend.events[shown.id]
  /\ page.history # Nothing => page.history.event > 0

=============================================================================
