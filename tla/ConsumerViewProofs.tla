-------------------------- MODULE ConsumerViewProofs --------------------------
(***************************************************************************)
(* Theorems about ConsumerView: what a shopper reads about the cold chain  *)
(* of a batch, for histories of any length and any ledger activity between *)
(* the two queries of a page.                                              *)
(*                                                                         *)
(* What coldChainStatus infers is right for every history in good order    *)
(* (ColdChainOfPast), which the ledger's histories and every earlier part  *)
(* of them are.  A page holds a record and a part of the history, each as  *)
(* it was at some moment since the request (PageInv); the theorems follow  *)
(* from comparing the two.                                                 *)
(***************************************************************************)
EXTENDS ConsumerView, SupplyChainProofs

\* ConsumerView's operators on an arbitrary history.
ColdChainOf(past, n) ==
  IF IsHold(past[n]) THEN "UNDER_INVESTIGATION"
  ELSE IF past[n].statusBeforeBreach # Absent THEN "UNRESOLVED_BREACH"
  ELSE IF \E i \in 1..n : IsHold(past[i]) THEN "BREACH_RESOLVED" ELSE "MAINTAINED"

\* A history as the contracts write it: every record in order, each after
\* the one it follows, a recall with the stage it interrupted.
GoodPast(past) ==
  /\ \A i \in 1..Len(past) : InOrder(past[i])
  /\ past # <<>> => past[1].status = "CREATED"
  /\ \A i \in 1..(Len(past) - 1) :
       /\ LegalSuccessor(past[i], past[i + 1])
       /\ past[i + 1].status = "RECALLED" =>
            past[i + 1].statusBeforeBreach = past[i].statusBeforeBreach

HistoriesGood == \A b \in Batches : GoodPast(history[b])

\* past is what the history has been.
Earlier(past, now) ==
  /\ past \in Seq(Batch) /\ Len(past) <= Len(now)
  /\ \A i \in 1..Len(past) : past[i] = now[i]

\* A page in the making.
PageInv ==
  page # Unread =>
    /\ page = [batchId |-> page.batchId, asked |-> page.asked, batch |-> page.batch,
               history |-> page.history, error |-> page.error]
    /\ page.batchId \in Batches
    /\ page.asked \in 0..Len(history[page.batchId])
    /\ page.batch # Unread =>
         \E n \in 1..Len(history[page.batchId]) :
           page.asked <= n /\ page.batch = history[page.batchId][n]
    /\ page.history # Unread =>
         /\ Earlier(page.history, history[page.batchId])
         /\ page.asked <= Len(page.history) /\ page.history # <<>>
    /\ page.error = "404" => page.asked = 0

ViewInv == IInv /\ RecordInv /\ HistoriesGood /\ PageInv

-----------------------------------------------------------------------------
(* Good histories.                                                         *)

\* An earlier part of a good history is one.
LEMMA EarlierGood ==
  ASSUME NEW now \in Seq(Batch), GoodPast(now), NEW past, Earlier(past, now)
  PROVE  /\ GoodPast(past)
         /\ \A n \in 1..Len(past) : ColdChainOf(past, n) = ColdChainOf(now, n)
<1>1. /\ Len(past) \in Nat /\ Len(now) \in Nat /\ Len(past) <= Len(now)
      /\ \A i \in 1..Len(past) : past[i] = now[i]
  BY DEF Earlier
<1>2. past # <<>> => now # <<>> /\ 1 \in 1..Len(past)
  BY <1>1 DEF Earlier
<1>3. \A i \in 1..(Len(past) - 1) : i \in 1..(Len(now) - 1) /\ i \in 1..Len(past) /\ i + 1 \in 1..Len(past)
  BY <1>1
<1>4. GoodPast(past)
  BY <1>1, <1>2, <1>3 DEF GoodPast
<1>5. ASSUME NEW n \in 1..Len(past)
      PROVE  ColdChainOf(past, n) = ColdChainOf(now, n)
  <2>1. \A i \in 1..n : i \in 1..Len(past) /\ past[i] = now[i]
    BY <1>1
  <2> QED
    BY <1>1, <2>1 DEF ColdChainOf
<1> QED
  BY <1>4, <1>5

\* coldChainStatus infers from the statuses what the records say.
LEMMA ColdChainOfPast ==
  ASSUME NEW past \in Seq(Batch), past # <<>>, GoodPast(past), NEW status,
         status = "COLD_CHAIN_BREACH" <=> IsHold(past[Len(past)])
  PROVE  ColdChainStatus(status, past) = ColdChainOf(past, Len(past))
<1> DEFINE n == Len(past)
<1>1. n \in Nat /\ n >= 1 /\ DOMAIN past = 1..n /\ \A i \in 1..n : past[i] \in Batch
  OBVIOUS
<1>2. \A i \in 1..n : past[i].status \in Statuses
  BY <1>1 DEF Batch
<1>3. CASE IsHold(past[n])
  BY <1>1, <1>3 DEF ColdChainStatus, ColdChainOf
<1>4. CASE ~IsHold(past[n]) /\ past[n].status # "RECALLED"
  <2>1. past[n].status \in CustodyStages
    BY <1>1, <1>2, <1>4 DEF IsHold, Statuses
  <2>2. past[n].statusBeforeBreach = Absent
    BY <1>1, <2>1 DEF GoodPast, InOrder
  <2>3. \A h \in Holds(past) : h \in 1..n /\ h < n
    BY <1>1, <1>4 DEF Holds
  <2>4. ColdChainStatus(status, past) =
          IF Holds(past) = {} THEN "MAINTAINED" ELSE "BREACH_RESOLVED"
    BY <1>1, <1>4, <2>3 DEF ColdChainStatus
  <2>5. Holds(past) = {} <=> ~ \E i \in 1..n : IsHold(past[i])
    BY <1>1 DEF Holds
  <2> QED
    BY <1>4, <2>2, <2>4, <2>5 DEF ColdChainOf
<1>5. CASE past[n].status = "RECALLED"
  <2> DEFINE m == n - 1
  <2>1. n # 1
    BY <1>5 DEF GoodPast
  <2>2. m \in 1..(n - 1) /\ m \in 1..n /\ m + 1 = n
    BY <1>1, <2>1
  <2>3. /\ LegalSuccessor(past[m], past[n])
        /\ past[n].statusBeforeBreach = past[m].statusBeforeBreach
        /\ InOrder(past[m])
    BY <1>5, <2>2 DEF GoodPast
  <2>4. past[m].status # "RECALLED" /\ ~IsHold(past[n])
    BY <1>5, <2>3 DEF LegalSuccessor, IsHold
  <2>5. CASE IsHold(past[m])
    <3>1. past[n].statusBeforeBreach \in CustodyStages
      BY <2>3, <2>5 DEF InOrder, IsHold
    <3>2. past[n].statusBeforeBreach # Absent
      BY <3>1, ChainAbsentAssumption DEF Statuses
    <3>3. m \in Holds(past)
      BY <1>1, <2>2, <2>5 DEF Holds
    <3>4. ASSUME NEW i \in 1..n, \A h \in Holds(past) : h < i
          PROVE  i = n
      <4>1. m < i
        BY <3>3, <3>4
      <4>2. Len(past) \in Nat /\ i \in 1..Len(past) /\ Len(past) - 1 < i
        BY <1>1, <4>1
      <4> QED
        BY <4>2
    <3>5. ColdChainStatus(status, past) = "UNRESOLVED_BREACH"
      BY <1>1, <1>5, <2>4, <3>3, <3>4 DEF ColdChainStatus
    <3> QED
      BY <2>4, <3>2, <3>5 DEF ColdChainOf
  <2>6. CASE ~IsHold(past[m])
    <3>1. past[m].status \in CustodyStages
      BY <1>2, <2>2, <2>4, <2>6 DEF IsHold, Statuses
    <3>2. past[n].statusBeforeBreach = Absent
      BY <2>3, <3>1 DEF InOrder
    <3>3. \A h \in Holds(past) : h \in 1..n /\ h < m
      BY <1>1, <2>2, <2>4, <2>6 DEF Holds
    <3>4. ColdChainStatus(status, past) =
            IF Holds(past) = {} THEN "MAINTAINED" ELSE "BREACH_RESOLVED"
      BY <1>1, <2>2, <2>4, <3>3 DEF ColdChainStatus
    <3>5. Holds(past) = {} <=> ~ \E i \in 1..n : IsHold(past[i])
      BY <1>1 DEF Holds
    <3> QED
      BY <2>4, <3>2, <3>4, <3>5 DEF ColdChainOf
  <2> QED
    BY <2>5, <2>6
<1> QED
  BY <1>3, <1>4, <1>5

\* One more record.
LEMMA AppendGood ==
  ASSUME IInv, ChainStep, NEW b \in Batches, GoodPast(history[b])
  PROVE  GoodPast(history'[b])
<1> DEFINE h == history[b]
           new == batches'[b]
<1>1. h \in Seq(Batch) /\ batches[b] \in Batch \cup {Absent}
  BY DEF IInv, TypeOK
<1>2. CASE history'[b] = h
  BY <1>2
<1>3. CASE new \in Batch /\ history'[b] = Append(h, new) /\ Follows(batches[b], new)
  <2>1. /\ Len(Append(h, new)) = Len(h) + 1 /\ Len(h) \in Nat
        /\ Append(h, new)[Len(h) + 1] = new
        /\ \A i \in 1..Len(h) : Append(h, new)[i] = h[i]
    BY <1>1, <1>3
  <2>2. /\ new # Absent
        /\ InOrder(new)
        /\ history'[b][1].status = "CREATED"
        /\ \A i \in 1..(Len(history'[b]) - 1) : LegalSuccessor(history'[b][i], history'[b][i + 1])
    BY <1>3, <2>1, HistoryStep, ChainAbsentAssumption
  <2>3. \A i \in 1..(Len(h) + 1) : InOrder(Append(h, new)[i])
    BY <2>1, <2>2 DEF GoodPast
  <2>4. ASSUME h # <<>>, new.status = "RECALLED"
        PROVE  new.statusBeforeBreach = h[Len(h)].statusBeforeBreach
    <3>1. batches[b] # Absent /\ h[Len(h)] = batches[b]
      BY <2>4 DEF IInv, HistoryCurrent
    <3>2. batches[b].statusBeforeBreach \in CustodyStages \/ batches[b].status # "COLD_CHAIN_BREACH"
      BY <3>1 DEF IInv, HoldRemembersStage
    <3> QED
      BY <1>3, <2>4, <3>1, <3>2 DEF Follows, CustodyStep, CustodyStages
  <2>5. ASSUME NEW i \in 1..Len(h), Append(h, new)[i + 1].status = "RECALLED"
        PROVE  Append(h, new)[i + 1].statusBeforeBreach = Append(h, new)[i].statusBeforeBreach
    <3>1. CASE i = Len(h)
      BY <1>1, <2>1, <2>4, <2>5, <3>1
    <3>2. CASE i \in 1..(Len(h) - 1)
      BY <2>1, <2>5, <3>2 DEF GoodPast
    <3> QED
      BY <2>1, <3>1, <3>2
  <2> QED
    BY <1>3, <2>1, <2>2, <2>3, <2>5 DEF GoodPast
<1> QED
  BY <1>2, <1>3 DEF ChainStep, Put

-----------------------------------------------------------------------------
(* Steps of the ledger and of the page.                                    *)

LEMMA ViewStepIsStep == [ViewNext]_pageVars => [Next]_vars
BY DEF ViewNext, PageNext, Ask, ReadBatch, ReadHistory, ReadFails, Close, pageVars

LEMMA HistoriesStep == IInv /\ HistoriesGood /\ [Next]_vars => HistoriesGood'
<1> SUFFICES ASSUME IInv, HistoriesGood, [Next]_vars, NEW b \in Batches PROVE GoodPast(history'[b])
  BY DEF HistoriesGood, GoodPast
<1> QED
  BY BatchStep, AppendGood DEF IInv, HistoriesGood

\* The ledger only ever adds to what a page has read.
LEMMA Grows ==
  ASSUME IInv, ChainStep, NEW b \in Batches
  PROVE  Earlier(history[b], history'[b])
<1>1. history[b] \in Seq(Batch)
  BY DEF IInv, TypeOK
<1> QED
  BY <1>1 DEF ChainStep, Put, Earlier

LEMMA LedgerKeepsPage ==
  ASSUME IInv, PageInv, [Next]_vars, UNCHANGED page
  PROVE  PageInv'
<1> SUFFICES ASSUME page # Unread PROVE PageInv'
  BY DEF PageInv
<1>1. PICK b \in Batches : b = page.batchId
  BY DEF PageInv
<1>2. Earlier(history[b], history'[b])
  BY BatchStep, Grows DEF IInv
<1>3. history[b] \in Seq(Batch) /\ history'[b] \in Seq(Batch)
  BY BatchStep DEF IInv, TypeOK, ChainStep
<1>4. \A n \in 1..Len(history[b]) : n \in 1..Len(history'[b]) /\ history'[b][n] = history[b][n]
  BY <1>2, <1>3 DEF Earlier
<1>5. page.asked \in 0..Len(history'[b])
  BY <1>1, <1>2, <1>3 DEF PageInv, Earlier
<1>6. page.batch # Unread =>
        \E n \in 1..Len(history'[b]) : page.asked <= n /\ page.batch = history'[b][n]
  BY <1>1, <1>4 DEF PageInv
<1>7. page.history # Unread => Earlier(page.history, history'[b])
  BY <1>1, <1>2, <1>3, <1>4 DEF PageInv, Earlier
<1> QED
  BY <1>1, <1>5, <1>6, <1>7 DEF PageInv, Earlier

\* Five steps of a page.
LEMMA PageStep ==
  ASSUME IInv, PageInv, PageNext
  PROVE  PageInv'
<1>0. UNCHANGED vars
  BY Zenon DEF PageNext, Ask, ReadBatch, ReadHistory, ReadFails, Close
<1>1. UNCHANGED vars /\ UNCHANGED history
  BY <1>0 DEF vars, chainVars
<1>2. ASSUME NEW b \in Batches
      PROVE  /\ history[b] \in Seq(Batch) /\ Len(history[b]) \in Nat
             /\ Found(b) => /\ history[b] # <<>> /\ Len(history[b]) \in 1..Len(history[b])
                            /\ batches[b] = history[b][Len(history[b])]
             /\ ~Found(b) => Len(history[b]) = 0
  BY DEF IInv, TypeOK, HistoryCurrent, Found
<1>3. ASSUME NEW b \in Batches, Ask(b) PROVE PageInv'
  <2>1. page' = [batchId |-> b, asked |-> Len(history[b]), batch |-> Unread, history |-> Unread,
                 error |-> ""]
    BY <1>3 DEF Ask
  <2>2. /\ page'.batchId = b /\ page'.asked = Len(history[b]) /\ page'.error = ""
        /\ page'.batch = Unread /\ page'.history = Unread
    BY <2>1
  <2>3. page' = [batchId |-> page'.batchId, asked |-> page'.asked, batch |-> page'.batch,
                 history |-> page'.history, error |-> page'.error]
    BY <2>1, <2>2
  <2>4. page'.asked \in 0..Len(history'[page'.batchId])
    <3>1. history'[page'.batchId] = history[b]
      BY <1>1, <2>2
    <3>2. Len(history[b]) \in Nat
      BY <1>2
    <3>3. Len(history[b]) \in 0..Len(history[b])
      BY <3>2
    <3> QED
      BY <2>2, <3>1, <3>3, Zenon
  <2> QED
    BY <2>2, <2>3, <2>4 DEF PageInv
<1>4. CASE Close
  BY <1>4 DEF Close, PageInv
<1>5. ASSUME page # Unread
      PROVE  page.batchId \in Batches /\ page.asked \in 0..Len(history[page.batchId])
  BY <1>5 DEF PageInv
<1>6. CASE ReadBatch
  <2>1. page # Unread /\ Found(page.batchId) /\ page' = [page EXCEPT !.batch = batches[page.batchId]]
    BY <1>6 DEF ReadBatch, Waiting
  <2>2. page' = [batchId |-> page.batchId, asked |-> page.asked, batch |-> batches[page.batchId],
                 history |-> page.history, error |-> page.error]
    BY <2>1 DEF PageInv
  <2>3. \E n \in 1..Len(history[page.batchId]) :
          page.asked <= n /\ batches[page.batchId] = history[page.batchId][n]
    BY <1>2, <1>5, <2>1
  <2> QED
    BY <1>1, <1>5, <2>1, <2>2, <2>3 DEF PageInv, Earlier
<1>7. CASE ReadHistory
  <2>1. /\ page # Unread /\ Found(page.batchId)
        /\ page' = [page EXCEPT !.history = history[page.batchId]]
    BY <1>7 DEF ReadHistory, Waiting
  <2>2. page' = [batchId |-> page.batchId, asked |-> page.asked, batch |-> page.batch,
                 history |-> history[page.batchId], error |-> page.error]
    BY <2>1 DEF PageInv
  <2>3. /\ Earlier(history[page.batchId], history[page.batchId])
        /\ page.asked <= Len(history[page.batchId]) /\ history[page.batchId] # <<>>
    BY <1>2, <1>5, <2>1 DEF Earlier
  <2> QED
    BY <1>1, <1>5, <2>1, <2>2, <2>3 DEF PageInv, Earlier
<1>8. CASE ReadFails
  <2> DEFINE error == IF MayRead THEN "404" ELSE "502"
  <2>1. /\ page # Unread
        /\ ~(MayRead /\ Found(page.batchId))
        /\ page' = [page EXCEPT !.batch = Unread, !.history = Unread, !.error = error]
    BY <1>8 DEF ReadFails, Waiting
  <2>2. page' = [batchId |-> page.batchId, asked |-> page.asked, batch |-> Unread,
                 history |-> Unread, error |-> error]
    BY <2>1 DEF PageInv
  <2>3. error = "404" => page.asked = 0
    BY <1>2, <1>5, <2>1
  <2> HIDE DEF error
  <2>4. /\ page'.batchId = page.batchId /\ page'.asked = page.asked /\ page'.error = error
        /\ page'.batch = Unread /\ page'.history = Unread
    BY <2>2
  <2>5. page' = [batchId |-> page'.batchId, asked |-> page'.asked, batch |-> page'.batch,
                 history |-> page'.history, error |-> page'.error]
    BY <2>2, <2>4
  <2>6. page'.batchId \in Batches /\ page'.asked \in 0..Len(history'[page'.batchId])
    BY <1>1, <1>5, <2>1, <2>4
  <2> QED
    BY <2>3, <2>4, <2>5, <2>6 DEF PageInv
<1> QED
  BY <1>3, <1>4, <1>6, <1>7, <1>8 DEF PageNext

LEMMA ViewInvStep == ViewInv /\ [ViewNext]_pageVars => ViewInv'
<1> SUFFICES ASSUME ViewInv, [ViewNext]_pageVars PROVE ViewInv'
  OBVIOUS
<1>1. [Next]_vars /\ IInv /\ RecordInv /\ HistoriesGood /\ PageInv
  BY ViewStepIsStep DEF ViewInv
<1>2. IInv' /\ RecordInv' /\ HistoriesGood'
  BY <1>1, InvStep, RecordStep, HistoriesStep
<1>3. CASE UNCHANGED page
  BY <1>1, <1>2, <1>3, LedgerKeepsPage DEF ViewInv
<1>4. CASE PageNext
  BY <1>1, <1>2, <1>4, PageStep DEF ViewInv
<1> QED
  BY <1>3, <1>4 DEF ViewNext, pageVars

LEMMA ViewInitInv == ViewInit => ViewInv
<1> SUFFICES ASSUME ViewInit PROVE ViewInv
  OBVIOUS
<1>1. Init /\ page = Unread
  BY DEF ViewInit
<1>2. HistoriesGood
  BY <1>1 DEF Init, HistoriesGood, GoodPast
<1> QED
  BY <1>1, <1>2, InvInit, RecordInit DEF ViewInv, PageInv

LEMMA ViewInvariance == ViewSpec => []ViewInv
BY ViewInitInv, ViewInvStep, PTL DEF ViewSpec

-----------------------------------------------------------------------------
(* What a shopper may rely on.                                             *)

LEMMA ViewInvInfers == ViewInv => ColdChainInferred
<1> SUFFICES ASSUME ViewInv, NEW b \in Batches, batches[b] # Absent
             PROVE  /\ ColdChainStatus(batches[b].status, history[b])
                         = ColdChainAt(b, Len(history[b]))
                    /\ ColdChainStatus(batches[b].status, history[b]) = "MAINTAINED" <=>
                         ~\E e \in EvidenceIds : /\ evidence[e] # Absent
                                                 /\ evidence[e].batchId = b
                                                 /\ evidence[e].complianceOutcome = "UNSAFE"
  BY DEF ColdChainInferred
<1>1. /\ history[b] \in Seq(Batch) /\ history[b] # <<>> /\ GoodPast(history[b])
      /\ history[b][Len(history[b])] = batches[b]
  BY DEF ViewInv, IInv, TypeOK, HistoryCurrent, HistoriesGood
<1>2. ColdChainStatus(batches[b].status, history[b]) = ColdChainAt(b, Len(history[b]))
  BY <1>1, ColdChainOfPast DEF IsHold, ColdChainOf, ColdChainAt
<1>3. ColdChainStatus(batches[b].status, history[b]) = "MAINTAINED" <=> Holds(history[b]) = {}
  <2>1. IsHold(batches[b]) => Len(history[b]) \in Holds(history[b])
    BY <1>1 DEF Holds
  <2> QED
    BY <2>1 DEF ColdChainStatus, IsHold
<1>4. Holds(history[b]) = {} <=> UnsafeFor(b) = {}
  <2>1. OnRecord(b) /\ Holds(history[b]) = HoldRecords(history[b])
    BY DEF ViewInv, RecordInv, Holds, HoldRecords, IsHold
  <2>2. IsFiniteSet(Holds(history[b])) /\ IsFiniteSet(UnsafeFor(b))
    BY <1>1, <2>1, HoldRecordsFinite DEF OnRecord
  <2> QED
    BY <2>1, <2>2, FS_EmptySet DEF OnRecord
<1> QED
  BY <1>2, <1>3, <1>4 DEF UnsafeFor

LEMMA ViewInvHidesNothing == ViewInv => PageHidesNothing
<1> SUFFICES ASSUME ViewInv, page # Unread PROVE PageHidesNothing
  BY DEF PageHidesNothing
<1>1. PICK b \in Batches : b = page.batchId
  BY DEF ViewInv, PageInv
<1>2. page.error = "404" => page.asked = 0
  BY DEF ViewInv, PageInv
<1>3. ASSUME Answered, NEW i \in 1..page.asked, IsHold(history[b][i])
      PROVE  ShownColdChain # "MAINTAINED"
  <2>1. /\ Earlier(page.history, history[b]) /\ page.asked <= Len(page.history)
        /\ page.asked \in 0..Len(history[b])
    BY <1>1, <1>3 DEF Answered, ViewInv, PageInv
  <2>2. i \in DOMAIN page.history /\ IsHold(page.history[i])
    BY <1>3, <2>1 DEF Earlier
  <2>3. Holds(page.history) # {}
    BY <2>2 DEF Holds
  <2> QED
    BY <2>3 DEF ShownColdChain, ColdChainStatus
<1> QED
  BY <1>1, <1>2, <1>3 DEF PageHidesNothing

LEMMA ViewInvTellsAMoment == ViewInv => PageWasTrue
<1> SUFFICES ASSUME ViewInv, Answered PROVE PageWasTrue
  BY DEF PageWasTrue
<1>1. PICK b \in Batches : b = page.batchId
  BY DEF Answered, ViewInv, PageInv
<1> DEFINE now == history[b]
           past == page.history
           m == Len(past)
           moments == {ColdChainAt(b, n) : n \in (page.asked .. Len(now)) \ {0}}
<1>2. now \in Seq(Batch) /\ GoodPast(now)
  BY DEF ViewInv, IInv, TypeOK, HistoriesGood
<1>3. /\ Earlier(past, now) /\ page.asked <= m /\ past # <<>> /\ page.asked \in 0..Len(now)
  BY <1>1 DEF Answered, ViewInv, PageInv
<1>4. PICK n \in 1..Len(now) : page.asked <= n /\ page.batch = now[n]
  BY <1>1 DEF Answered, ViewInv, PageInv
<1>5. past \in Seq(Batch) /\ m \in 1..Len(now) /\ past[m] = now[m]
  BY <1>2, <1>3 DEF Earlier
<1>6. ColdChainAt(b, n) \in moments /\ ColdChainAt(b, m) \in moments
  BY <1>2, <1>3, <1>4, <1>5
<1>7. CASE IsHold(now[n])
  <2>1. ShownColdChain = ColdChainAt(b, n)
    BY <1>4, <1>7 DEF ShownColdChain, ColdChainStatus, ColdChainAt, IsHold
  <2> QED
    BY <1>1, <1>6, <2>1 DEF PageWasTrue
<1>8. CASE ~IsHold(now[n]) /\ ~IsHold(now[m])
  <2>1. ShownColdChain = ColdChainOf(past, m)
    BY <1>2, <1>3, <1>4, <1>5, <1>8, EarlierGood, ColdChainOfPast DEF ShownColdChain, IsHold
  <2>2. ColdChainOf(past, m) = ColdChainOf(now, m)
    BY <1>2, <1>3, <1>5, EarlierGood
  <2>3. ColdChainOf(now, m) = ColdChainAt(b, m)
    BY DEF ColdChainOf, ColdChainAt
  <2> QED
    BY <1>1, <1>6, <2>1, <2>2, <2>3 DEF PageWasTrue
<1>9. CASE ~IsHold(now[n]) /\ IsHold(now[m])
  <2>1. m \in Holds(past) /\ \A i \in DOMAIN past : i <= m
    BY <1>5, <1>9 DEF Holds
  <2>2. ~ \E i \in DOMAIN past : \A h \in Holds(past) : h < i
    <3> SUFFICES ASSUME NEW i \in DOMAIN past, \A h \in Holds(past) : h < i PROVE FALSE
      OBVIOUS
    <3>1. m < i /\ i <= m /\ i \in Nat /\ m \in Nat
      BY <1>5, <2>1
    <3> QED
      BY <3>1
  <2>3. ShownColdChain = "UNRESOLVED_BREACH"
    BY <1>4, <1>9, <2>1, <2>2 DEF ShownColdChain, ColdChainStatus, IsHold
  <2>4. ColdChainAt(b, m) = "UNDER_INVESTIGATION"
    BY <1>9 DEF ColdChainAt
  <2> QED
    BY <1>1, <1>6, <2>3, <2>4 DEF PageWasTrue
<1> QED
  BY <1>7, <1>8, <1>9

\* On every ledger, what the page would infer from the statuses is what the
\* records and the evidence say: maintained exactly without unsafe evidence,
\* unresolved exactly after a recall out of a hold.
THEOREM InferenceIsRight == ViewSpec => []ColdChainInferred
BY ViewInvInfers, ViewInvariance, PTL

\* A page never hides a breach from before the request, and never reports a
\* batch missing that was there.
THEOREM PageNeverHides == ViewSpec => []PageHidesNothing
BY ViewInvHidesNothing, ViewInvariance, PTL

\* What a page says was so at a moment since the request, but for "unresolved"
\* about a batch whose hold was being lifted.
THEOREM PageTellsAMoment == ViewSpec => []PageWasTrue
BY ViewInvTellsAMoment, ViewInvariance, PTL

\* The same on the ledger seed.sh leaves behind, with any number of batches:
\* nothing about the page needs a ledger that starts empty.
THEOREM SeededPageTellsTheTruth ==
  ASSUME NEW CONSTANT regulator, NEW CONSTANT certificateOf, NEW CONSTANT roleOf,
         NEW CONSTANT keyOf,
         Consortium(regulator, certificateOf, roleOf, keyOf)
  PROVE  SeededInit(regulator, certificateOf, roleOf, keyOf) /\ page = Unread
           /\ [][ViewNext]_pageVars =>
             [](ColdChainInferred /\ PageHidesNothing /\ PageWasTrue)
<1> DEFINE Seeded == SeededInit(regulator, certificateOf, roleOf, keyOf) /\ page = Unread
<1>1. Seeded => ViewInv
  <2> SUFFICES ASSUME Seeded PROVE ViewInv
    OBVIOUS
  <2>1. IInv /\ RecordInv
    BY SeededLedgerIsGood DEF Good
  <2>2. HistoriesGood
    BY DEF SeededInit, HistoriesGood, GoodPast
  <2> QED
    BY <2>1, <2>2 DEF ViewInv, PageInv
<1>2. Seeded /\ [][ViewNext]_pageVars => []ViewInv
  <2> HIDE DEF Seeded
  <2> QED
    BY <1>1, ViewInvStep, PTL
<1> QED
  BY <1>2, ViewInvInfers, ViewInvHidesNothing, ViewInvTellsAMoment, PTL

=============================================================================
