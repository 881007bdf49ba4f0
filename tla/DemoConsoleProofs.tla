--------------------------- MODULE DemoConsoleProofs ---------------------------
(***************************************************************************)
(* Theorems about both consoles, for any number of clicks and buttons, any *)
(* batches and any number of tasks at once.                                *)
(*                                                                         *)
(* The simulation: every block stays committed on the one before it        *)
(* (Chained), so that, by induction along the chain, its hash as it reads  *)
(* now is the committed one exactly when no text up to it was edited; and  *)
(* every block that is added tells what it says and leaves the rest as it  *)
(* was told (Added).  The induction is the least-number principle on sets  *)
(* of places, from WFMin.                                                  *)
(*                                                                         *)
(* The live page: what a task has in hand fits what it waits for (Fits),   *)
(* whatever became of the page meanwhile, and the ledger forgets nothing.  *)
(***************************************************************************)
EXTENDS DemoConsole, FiniteSetTheorems, WellFoundedInduction, TLAPS

-----------------------------------------------------------------------------
(* Hashing.                                                                *)

LEMMA LeastMember ==
  ASSUME NEW T \in SUBSET Nat, T # {}
  PROVE  \E m \in T : \A k \in T : m <= k
<1>1. PICK less : less = OpToRel(<, Nat)
  OBVIOUS
<1>2. \A k, m \in Nat : k < m => <<k, m>> \in OpToRel(<, Nat)
  BY Zenon DEF OpToRel
<1>3. PICK m \in T : \A k \in T : ~ (<<k, m>> \in less)
  BY <1>1, WFMin, NatLessThanWellFounded, Zenon
<1>4. ASSUME NEW k \in T PROVE m <= k
  <2>1. k \in Nat /\ m \in Nat
    OBVIOUS
  <2>2. ~(k < m)
    BY <1>1, <1>2, <1>3, <2>1, Zenon
  <2> QED
    BY <2>1, <2>2
<1> QED
  BY <1>4

Hashing(hash, k, text, number) ==
  hash = [i \in 1..k |-> <<IF i = 1 THEN <<>> ELSE hash[i - 1], text[i], number[i]>>]

\* A chain can be hashed, whatever its blocks say.
LEMMA HashesExist ==
  ASSUME NEW text, NEW number
  PROVE  \A n \in Nat : \E hash : Hashing(hash, n, text, number)
<1> USE DEF Hashing
<1> DEFINE Hashes(hash, k) == Hashing(hash, k, text, number)
           T == {k \in Nat : ~ \E hash : Hashes(hash, k)}
<1>1. CASE T = {}
  BY <1>1
<1>2. CASE T # {}
  <2>1. PICK m \in T : \A k \in T : m <= k
    <3> HIDE DEF T
    <3>1. T \in SUBSET Nat
      BY DEF T
    <3> QED
      BY <1>2, <3>1, LeastMember
  <2>2. m # 0
    <3>1. Hashes([i \in 1..0 |-> 0], 0)
      OBVIOUS
    <3> QED
      BY <3>1
  <2>3. m \in Nat /\ m - 1 \in Nat /\ m - 1 \notin T
    <3>1. m \in Nat
      OBVIOUS
    <3> HIDE DEF T
    <3> QED
      BY <2>1, <2>2, <3>1
  <2>4. PICK hash : Hashes(hash, m - 1)
    BY <2>3
  <2>5. PICK next : next = [i \in 1..m |->
                             <<IF i = 1 THEN <<>> ELSE hash[i - 1], text[i], number[i]>>]
    OBVIOUS
  <2>6. \A i \in 1..(m - 1) : next[i] = hash[i]
    <3>1. \A i \in 1..(m - 1) :
            hash[i] = <<IF i = 1 THEN <<>> ELSE hash[i - 1], text[i], number[i]>>
      <4> HIDE DEF T
      <4> QED
        BY <2>4
    <3>2. \A i \in 1..m :
            next[i] = <<IF i = 1 THEN <<>> ELSE hash[i - 1], text[i], number[i]>>
      <4> HIDE DEF T, Hashes
      <4> QED
        BY <2>5
    <3> HIDE DEF T, Hashes
    <3>3. ASSUME NEW i \in 1..(m - 1) PROVE next[i] = hash[i]
      <4>1. i \in 1..m
        BY <2>3
      <4> QED
        BY <3>1, <3>2, <4>1, Zenon
    <3> QED
      BY <3>3
  <2>7. Hashes(next, m)
    <3>1. \A i \in 1..m : (IF i = 1 THEN <<>> ELSE hash[i - 1]) = (IF i = 1 THEN <<>> ELSE next[i - 1])
      BY <2>3, <2>6
    <3> QED
      BY <2>5, <3>1
  <2> QED
    BY <2>1, <2>7
<1> QED
  BY <1>1, <1>2

LEMMA Derivation ==
  ASSUME Len(blocks) \in Nat
  PROVE  /\ DOMAIN DerivedHash = 1..Len(blocks)
         /\ \A i \in 1..Len(blocks) :
              DerivedHash[i] = <<IF i = 1 THEN <<>> ELSE DerivedHash[i - 1], blocks[i].data, blocks[i].n>>
<1>1. PICK text, number : text = [i \in 1..Len(blocks) |-> blocks[i].data]
                          /\ number = [i \in 1..Len(blocks) |-> blocks[i].n]
  OBVIOUS
<1>2. PICK f : Hashing(f, Len(blocks), text, number)
  BY HashesExist
<1>3. f = [i \in 1..Len(blocks) |->
            <<IF i = 1 THEN <<>> ELSE f[i - 1], blocks[i].data, blocks[i].n>>]
  BY <1>1, <1>2 DEF Hashing
<1>4. DerivedHash = [i \in 1..Len(blocks) |->
        <<IF i = 1 THEN <<>> ELSE DerivedHash[i - 1], blocks[i].data, blocks[i].n>>]
  BY <1>3 DEF DerivedHash, FakeHash
<1> QED
  BY <1>4

-----------------------------------------------------------------------------
(* The chain.                                                              *)

IsSequence(s) == s \in Seq({s[i] : i \in DOMAIN s})

\* Each block was committed on the one before it, under its own hash.
Chained(chain) ==
  /\ IsSequence(chain) /\ Len(chain) >= 1
  /\ \A i \in DOMAIN chain :
       /\ DOMAIN chain[i] = {"n", "data", "originalData", "committedPrev", "committedHash"}
       /\ chain[i].n = i - 1
       /\ chain[i].committedPrev = IF i = 1 THEN <<>> ELSE chain[i - 1].committedHash
       /\ chain[i].committedHash =
            <<chain[i].committedPrev, chain[i].originalData, chain[i].n>>

LEMMA SequenceFacts ==
  ASSUME NEW s, IsSequence(s)
  PROVE  Len(s) \in Nat /\ DOMAIN s = 1..Len(s)
BY DEF IsSequence

\* A block's hash is the committed one exactly when no text up to it was edited.
LEMMA HashTellsEdits ==
  ASSUME Chained(blocks)
  PROVE  \A i \in 1..Len(blocks) :
           DerivedHash[i] = blocks[i].committedHash
             <=> \A j \in 1..i : blocks[j].data = blocks[j].originalData
<1> DEFINE Tells(i) == DerivedHash[i] = blocks[i].committedHash
                         <=> \A j \in 1..i : blocks[j].data = blocks[j].originalData
           T == {i \in 1..Len(blocks) : ~Tells(i)}
<1>1. Len(blocks) \in Nat /\ DOMAIN blocks = 1..Len(blocks)
  BY SequenceFacts DEF Chained
<1>2. \A i \in 1..Len(blocks) :
        DerivedHash[i] = <<IF i = 1 THEN <<>> ELSE DerivedHash[i - 1], blocks[i].data, blocks[i].n>>
  BY <1>1, Derivation
<1>3. \A i \in 1..Len(blocks) :
        blocks[i].committedHash =
          <<IF i = 1 THEN <<>> ELSE blocks[i - 1].committedHash, blocks[i].originalData, blocks[i].n>>
  BY <1>1 DEF Chained
<1>4. ASSUME NEW i \in 1..Len(blocks)
      PROVE  DerivedHash[i] = blocks[i].committedHash
               <=> /\ blocks[i].data = blocks[i].originalData
                   /\ i # 1 => DerivedHash[i - 1] = blocks[i - 1].committedHash
  <2>1. PICK p, q : /\ p = IF i = 1 THEN <<>> ELSE DerivedHash[i - 1]
                    /\ q = IF i = 1 THEN <<>> ELSE blocks[i - 1].committedHash
    OBVIOUS
  <2>2. p = q <=> (i # 1 => DerivedHash[i - 1] = blocks[i - 1].committedHash)
    BY <2>1
  <2>3. /\ DerivedHash[i] = <<p, blocks[i].data, blocks[i].n>>
        /\ blocks[i].committedHash = <<q, blocks[i].originalData, blocks[i].n>>
    BY <1>2, <1>3, <2>1
  <2>4. DerivedHash[i] = blocks[i].committedHash <=> p = q /\ blocks[i].data = blocks[i].originalData
    BY <2>3
  <2> QED
    BY <2>2, <2>4
<1>5. ASSUME NEW i \in 1..Len(blocks), i # 1 => Tells(i - 1)
      PROVE  Tells(i)
  <2>1. CASE i = 1
    BY <1>4, <2>1
  <2>2. CASE i # 1
    <3>1. DerivedHash[i - 1] = blocks[i - 1].committedHash
            <=> \A j \in 1..(i - 1) : blocks[j].data = blocks[j].originalData
      BY <1>5, <2>2
    <3>2. \A j \in 1..i : j \in 1..(i - 1) \/ j = i
      OBVIOUS
    <3>3. i \in 1..i /\ \A j \in 1..(i - 1) : j \in 1..i
      OBVIOUS
    <3> QED
      BY <1>4, <2>2, <3>1, <3>2, <3>3
  <2> QED
    BY <2>1, <2>2
<1> HIDE DEF Tells
<1>6. CASE T # {}
  <2>1. T \in SUBSET Nat
    BY <1>1
  <2>2. PICK m \in T : \A k \in T : m <= k
    <3> HIDE DEF T
    <3> QED
      BY <1>6, <2>1, LeastMember
  <2>3. m \in 1..Len(blocks) /\ ~Tells(m)
    OBVIOUS
  <2>4. m # 1 => m - 1 \in 1..Len(blocks) /\ m - 1 \notin T
    <3> HIDE DEF T
    <3> QED
      BY <1>1, <2>1, <2>2, <2>3
  <2>5. m # 1 => Tells(m - 1)
    BY <2>4
  <2> QED
    BY <1>5, <2>3, <2>5
<1>7. CASE T = {}
  <2>1. \A i \in 1..Len(blocks) : Tells(i)
    BY <1>7
  <2> QED
    BY <2>1 DEF Tells
<1> QED
  BY <1>6, <1>7

LEMMA ChainedBreaks ==
  ASSUME Chained(blocks)
  PROVE  EditsBreakLaterBlocks
<1>1. Len(blocks) \in Nat /\ DOMAIN blocks = 1..Len(blocks)
  BY SequenceFacts DEF Chained
<1>2. \A i \in 1..Len(blocks) :
        DerivedHash[i] = <<IF i = 1 THEN <<>> ELSE DerivedHash[i - 1], blocks[i].data, blocks[i].n>>
  BY <1>1, Derivation
<1>3. ASSUME NEW i \in 1..Len(blocks)
      PROVE  Valid(i) <=> DerivedHash[i] = blocks[i].committedHash
  <2>1. /\ blocks[i].committedPrev = IF i = 1 THEN <<>> ELSE blocks[i - 1].committedHash
        /\ blocks[i].committedHash =
             <<blocks[i].committedPrev, blocks[i].originalData, blocks[i].n>>
    BY <1>1 DEF Chained
  <2>2. DerivedHash[i] = blocks[i].committedHash
          => (IF i = 1 THEN <<>> ELSE DerivedHash[i - 1]) = blocks[i].committedPrev
    BY <1>2, <2>1
  <2> QED
    BY <2>2 DEF Valid
<1> QED
  BY <1>1, <1>3, HashTellsEdits DEF EditsBreakLaterBlocks

LEMMA AppendFacts ==
  ASSUME NEW s, IsSequence(s), NEW e
  PROVE  /\ IsSequence(Append(s, e)) /\ Len(Append(s, e)) = Len(s) + 1
         /\ \A i \in 1..Len(s) : Append(s, e)[i] = s[i]
         /\ Append(s, e)[Len(s) + 1] = e
<1>0. PICK S : S = {s[i] : i \in DOMAIN s} \cup {e}
  OBVIOUS
<1>1. s \in Seq(S) /\ e \in S
  <2>1. PICK R : R = {s[i] : i \in DOMAIN s}
    OBVIOUS
  <2>2. s \in Seq(R) /\ R \subseteq S
    BY <1>0, <2>1 DEF IsSequence
  <2>3. s \in Seq(S)
    BY <2>2
  <2>4. e \in S
    BY <1>0
  <2> QED
    BY <2>3, <2>4
<1>2. PICK t \in Seq(S) : t = Append(s, e)
  <2>1. Append(s, e) \in Seq(S)
    BY <1>1
  <2> QED
    BY <2>1
<1>3. /\ Len(t) = Len(s) + 1
      /\ \A i \in 1..Len(s) : t[i] = s[i]
      /\ t[Len(s) + 1] = e
  BY <1>1, <1>2
<1>4. t \in Seq({t[i] : i \in DOMAIN t})
  <2>1. PICK R : R = {t[i] : i \in DOMAIN t}
    OBVIOUS
  <2>2. \A i \in 1..Len(t) : t[i] \in R
    BY <2>1
  <2>3. t \in Seq(R)
    BY <1>2, <2>2
  <2> QED
    BY <2>1, <2>3
<1> QED
  BY <1>2, <1>3, <1>4 DEF IsSequence

LEMMA ExtendedChained ==
  ASSUME NEW chain, Chained(chain), NEW data
  PROVE  /\ Chained(Extended(chain, data))
         /\ Len(Extended(chain, data)) = Len(chain) + 1
         /\ \A i \in 1..Len(chain) : Extended(chain, data)[i] = chain[i]
         /\ Extended(chain, data)[Len(chain) + 1].originalData = data
<1>1. PICK e : e = Block(Len(chain), data, chain[Len(chain)].committedHash)
  OBVIOUS
<1>2. PICK t : t = Extended(chain, data)
  OBVIOUS
<1>3. /\ DOMAIN e = {"n", "data", "originalData", "committedPrev", "committedHash"}
      /\ e.n = Len(chain) /\ e.originalData = data
      /\ e.committedPrev = chain[Len(chain)].committedHash
      /\ e.committedHash = <<e.committedPrev, e.originalData, e.n>>
  BY <1>1 DEF Block, FakeHash
<1>4. Len(chain) \in Nat /\ DOMAIN chain = 1..Len(chain) /\ Len(chain) >= 1
  BY SequenceFacts DEF Chained
<1>5. t = Append(chain, e)
  BY <1>1, <1>2 DEF Extended
<1>6. /\ IsSequence(t) /\ Len(t) = Len(chain) + 1
      /\ \A i \in 1..Len(chain) : t[i] = chain[i]
      /\ t[Len(chain) + 1] = e
  BY <1>5, AppendFacts DEF Chained
<1>7. DOMAIN t = 1..(Len(chain) + 1)
  BY <1>6, SequenceFacts
<1>8. ASSUME NEW i \in DOMAIN t
      PROVE  /\ DOMAIN t[i] = {"n", "data", "originalData", "committedPrev", "committedHash"}
             /\ t[i].n = i - 1
             /\ t[i].committedPrev = IF i = 1 THEN <<>> ELSE t[i - 1].committedHash
             /\ t[i].committedHash = <<t[i].committedPrev, t[i].originalData, t[i].n>>
  <2>1. CASE i \in 1..Len(chain)
    <3>1. t[i] = chain[i] /\ (i # 1 => t[i - 1] = chain[i - 1])
      BY <1>4, <1>6, <2>1
    <3> QED
      BY <1>4, <2>1, <3>1 DEF Chained
  <2>2. CASE i = Len(chain) + 1
    <3>1. t[i] = e /\ t[i - 1] = chain[Len(chain)] /\ i # 1
      BY <1>4, <1>6, <2>2
    <3> QED
      BY <1>3, <1>4, <2>2, <3>1
  <2> QED
    BY <1>4, <1>7, <2>1, <2>2
<1>9. Chained(t)
  BY <1>4, <1>6, <1>8 DEF Chained
<1> QED
  BY <1>2, <1>3, <1>6, <1>9

\* Where a chain says something of this kind.
ToldIn(chain, what) == {i \in DOMAIN chain : chain[i].originalData.says = what}

LEMMA ExtendedTold ==
  ASSUME NEW chain, Chained(chain), NEW data, NEW what
  PROVE  /\ data.says = what =>
              ToldIn(Extended(chain, data), what) = ToldIn(chain, what) \cup {Len(chain) + 1}
         /\ data.says # what => ToldIn(Extended(chain, data), what) = ToldIn(chain, what)
         /\ ToldIn(chain, what) \in SUBSET (1..Len(chain))
<1>1. PICK t : t = Extended(chain, data)
  OBVIOUS
<1>2. Len(chain) \in Nat /\ DOMAIN chain = 1..Len(chain)
  BY SequenceFacts DEF Chained
<1>3. /\ DOMAIN t = 1..(Len(chain) + 1)
      /\ \A i \in 1..Len(chain) : t[i] = chain[i]
      /\ t[Len(chain) + 1].originalData = data
  BY <1>1, ExtendedChained, SequenceFacts DEF Chained
<1>4. \A i : i \in DOMAIN t <=> i \in DOMAIN chain \/ i = Len(chain) + 1
  BY <1>2, <1>3
<1>5. Len(chain) + 1 \notin DOMAIN chain
  BY <1>2
<1>6. \A i : i \in ToldIn(t, what) <=>
        i \in ToldIn(chain, what) \/ (i = Len(chain) + 1 /\ data.says = what)
  BY <1>2, <1>3, <1>4, <1>5 DEF ToldIn
<1> QED
  BY <1>1, <1>2, <1>6 DEF ToldIn

LEMMA ToldCounted ==
  ASSUME NEW chain, Chained(chain), NEW what
  PROVE  IsFiniteSet(ToldIn(chain, what)) /\ Cardinality(ToldIn(chain, what)) \in Nat
<1>1. Len(chain) \in Nat /\ DOMAIN chain = 1..Len(chain)
  BY SequenceFacts DEF Chained
<1>2. IsFiniteSet(1..Len(chain))
  BY <1>1, FS_Interval
<1>3. ToldIn(chain, what) \in SUBSET (1..Len(chain))
  BY <1>1 DEF ToldIn
<1> QED
  BY <1>2, <1>3, FS_Subset, FS_CardinalityType

LEMMA ExtendedCounted ==
  ASSUME NEW chain, Chained(chain), NEW data, NEW what
  PROVE  Cardinality(ToldIn(Extended(chain, data), what)) =
           IF data.says = what THEN Cardinality(ToldIn(chain, what)) + 1
           ELSE Cardinality(ToldIn(chain, what))
<1>1. Len(chain) \in Nat /\ Len(chain) + 1 \notin ToldIn(chain, what)
  <2>1. Len(chain) \in Nat /\ DOMAIN chain = 1..Len(chain)
    BY SequenceFacts DEF Chained
  <2> QED
    BY <2>1 DEF ToldIn
<1>2. IsFiniteSet(ToldIn(chain, what))
  BY ToldCounted
<1>3. Cardinality(ToldIn(chain, what) \cup {Len(chain) + 1}) = Cardinality(ToldIn(chain, what)) + 1
  BY <1>1, <1>2, FS_AddElement
<1> QED
  BY <1>3, ExtendedTold

TellsRegistered(chain, joined) ==
  joined = {chain[i].originalData.who : i \in ToldIn(chain, "registered")}

TellsStage(chain, at) ==
  at = Cardinality(ToldIn(chain, "created")) + Cardinality(ToldIn(chain, "step")) - 1

TellsRecalled(chain, was) ==
  was \in BOOLEAN /\ (was <=> ToldIn(chain, "recalled") # {})

Warm(reported) == reported.max > 5 \/ reported.min < 0

TellsBreach(chain, was) ==
  /\ was \in BOOLEAN
  /\ was <=> \E i \in ToldIn(chain, "anchored") :
               /\ Warm(chain[i].originalData.reported)
               /\ \A j \in ToldIn(chain, "cleared") : j < i

TellsAnchor(chain, last) ==
  IF ToldIn(chain, "anchored") = {} THEN last = NoAnchor
  ELSE \E i \in ToldIn(chain, "anchored") :
         /\ \A j \in ToldIn(chain, "anchored") : j <= i
         /\ last.hash = chain[i].originalData.hash
         /\ last.reported = chain[i].originalData.reported

\* What ChainTellsState says of any chain.
TellsAll(chain, joined, at, warm, back, last) ==
  /\ TellsRegistered(chain, joined) /\ TellsStage(chain, at) /\ TellsBreach(chain, warm)
  /\ TellsRecalled(chain, back) /\ TellsAnchor(chain, last)

LEMMA TellsAllIs ==
  TellsAll(blocks, reg, stage, breach, recalled, anchor) <=> ChainTellsState
<1>1. \A what : Told(what) = ToldIn(blocks, what)
  BY DEF Told, ToldIn, Says
<1>2. TellsRegistered(blocks, reg) <=> reg = {blocks[i].originalData.who : i \in Told("registered")}
  BY <1>1 DEF TellsRegistered
<1>3. TellsStage(blocks, stage)
        <=> stage = Cardinality(Told("created")) + Cardinality(Told("step")) - 1
  BY <1>1 DEF TellsStage
<1>4. TellsRecalled(blocks, recalled) <=> recalled = (Told("recalled") # {})
  BY <1>1 DEF TellsRecalled
<1>5. TellsBreach(blocks, breach) <=> breach = FlagStands
  BY <1>1 DEF TellsBreach, FlagStands, Flagged, Warm
<1>6. TellsAnchor(blocks, anchor)
        <=> IF Told("anchored") = {} THEN anchor = NoAnchor
            ELSE \E last \in Told("anchored") :
                   /\ \A i \in Told("anchored") : i <= last
                   /\ anchor.hash = blocks[last].originalData.hash
                   /\ anchor.reported = blocks[last].originalData.reported
  BY <1>1 DEF TellsAnchor
<1> QED
  BY <1>2, <1>3, <1>4, <1>5, <1>6 DEF TellsAll, ChainTellsState

LEMMA RegisteredTold ==
  ASSUME NEW chain, Chained(chain), NEW joined, TellsRegistered(chain, joined), NEW data
  PROVE  /\ data.says # "registered" => TellsRegistered(Extended(chain, data), joined)
         /\ data.says = "registered" =>
              TellsRegistered(Extended(chain, data), joined \cup {data.who})
<1>1. PICK t : t = Extended(chain, data)
  OBVIOUS
<1>2. Len(chain) \in Nat
  BY SequenceFacts DEF Chained
<1>3. /\ \A i \in 1..Len(chain) : t[i] = chain[i]
      /\ t[Len(chain) + 1].originalData = data
  BY <1>1, ExtendedChained
<1>4. PICK old, new : /\ old = ToldIn(chain, "registered") /\ new = ToldIn(t, "registered")
  OBVIOUS
<1>5. /\ old \in SUBSET (1..Len(chain))
      /\ data.says # "registered" => new = old
      /\ data.says = "registered" => new = old \cup {Len(chain) + 1}
  BY <1>1, <1>4, ExtendedTold
<1>6. \A i \in old : t[i].originalData.who = chain[i].originalData.who
  BY <1>3, <1>5
<1>7. joined = {chain[i].originalData.who : i \in old}
  BY <1>4 DEF TellsRegistered
<1>8. CASE data.says # "registered"
  <2>1. joined = {t[i].originalData.who : i \in new}
    BY <1>5, <1>6, <1>7, <1>8
  <2> QED
    BY <1>1, <1>4, <1>8, <2>1 DEF TellsRegistered
<1>9. CASE data.says = "registered"
  <2>1. \A who : who \in joined \cup {data.who} <=> \E i \in new : who = t[i].originalData.who
    BY <1>3, <1>5, <1>6, <1>7, <1>9
  <2>2. joined \cup {data.who} = {t[i].originalData.who : i \in new}
    BY <2>1
  <2> QED
    BY <1>1, <1>4, <1>9, <2>2 DEF TellsRegistered
<1> QED
  BY <1>8, <1>9

LEMMA StageTold ==
  ASSUME NEW chain, Chained(chain), NEW at, TellsStage(chain, at), NEW data
  PROVE  /\ at \in Int
         /\ data.says \notin {"created", "step"} => TellsStage(Extended(chain, data), at)
         /\ data.says \in {"created", "step"} => TellsStage(Extended(chain, data), at + 1)
<1>1. /\ Cardinality(ToldIn(chain, "created")) \in Nat /\ Cardinality(ToldIn(chain, "step")) \in Nat
  BY ToldCounted
<1> QED
  BY <1>1, ExtendedCounted DEF TellsStage

LEMMA RecalledTold ==
  ASSUME NEW chain, Chained(chain), NEW was, TellsRecalled(chain, was), NEW data
  PROVE  /\ data.says # "recalled" => TellsRecalled(Extended(chain, data), was)
         /\ data.says = "recalled" => TellsRecalled(Extended(chain, data), TRUE)
BY ExtendedTold DEF TellsRecalled

LEMMA BreachTold ==
  ASSUME NEW chain, Chained(chain), NEW was, TellsBreach(chain, was), NEW data
  PROVE  /\ was \in BOOLEAN
         /\ data.says \notin {"anchored", "cleared"} => TellsBreach(Extended(chain, data), was)
         /\ data.says = "cleared" => TellsBreach(Extended(chain, data), FALSE)
         /\ data.says = "anchored" =>
              \A now \in BOOLEAN : (now <=> was \/ Warm(data.reported))
                                    => TellsBreach(Extended(chain, data), now)
<1>1. PICK t : t = Extended(chain, data)
  OBVIOUS
<1>2. PICK n \in Nat : n = Len(chain)
  BY SequenceFacts DEF Chained
<1>3. /\ \A i \in 1..n : t[i] = chain[i]
      /\ t[n + 1].originalData = data
  BY <1>1, <1>2, ExtendedChained
<1>4. PICK hot, hot2, cold, cold2 :
        /\ hot = ToldIn(chain, "anchored") /\ hot2 = ToldIn(t, "anchored")
        /\ cold = ToldIn(chain, "cleared") /\ cold2 = ToldIn(t, "cleared")
  OBVIOUS
<1>5. /\ hot \in SUBSET (1..n) /\ cold \in SUBSET (1..n)
      /\ hot2 = IF data.says = "anchored" THEN hot \cup {n + 1} ELSE hot
      /\ cold2 = IF data.says = "cleared" THEN cold \cup {n + 1} ELSE cold
  BY <1>1, <1>2, <1>4, ExtendedTold
<1>6. /\ was \in BOOLEAN
      /\ was <=> \E i \in hot : /\ Warm(chain[i].originalData.reported)
                                /\ \A j \in cold : j < i
  BY <1>4 DEF TellsBreach
<1>7. \A i \in hot : chain[i] = t[i]
  BY <1>3, <1>5
<1>8. CASE data.says = "cleared"
  <2>1. ~ \E i \in hot2 : /\ Warm(t[i].originalData.reported)
                          /\ \A j \in cold2 : j < i
    BY <1>5, <1>8
  <2> QED
    BY <1>1, <1>4, <1>6, <1>8, <2>1 DEF TellsBreach
<1>9. CASE data.says = "anchored"
  <2>1. \A j \in cold2 : j < n + 1
    BY <1>5, <1>9
  <2>2. (\E i \in hot2 : /\ Warm(t[i].originalData.reported) /\ \A j \in cold2 : j < i)
          <=> was \/ Warm(data.reported)
    BY <1>3, <1>5, <1>6, <1>7, <1>9, <2>1
  <2> QED
    BY <1>1, <1>4, <1>6, <1>9, <2>2 DEF TellsBreach
<1>10. CASE data.says \notin {"anchored", "cleared"}
  <2>1. (\E i \in hot2 : /\ Warm(t[i].originalData.reported) /\ \A j \in cold2 : j < i) <=> was
    BY <1>5, <1>6, <1>7, <1>10
  <2> QED
    BY <1>1, <1>4, <1>6, <1>10, <2>1 DEF TellsBreach
<1> QED
  BY <1>6, <1>8, <1>9, <1>10

LEMMA AnchorTold ==
  ASSUME NEW chain, Chained(chain), NEW last, TellsAnchor(chain, last), NEW data
  PROVE  /\ data.says # "anchored" => TellsAnchor(Extended(chain, data), last)
         /\ data.says = "anchored" =>
              \A next : next.hash = data.hash /\ next.reported = data.reported
                          => TellsAnchor(Extended(chain, data), next)
<1>1. PICK t : t = Extended(chain, data)
  OBVIOUS
<1>2. PICK n \in Nat : n = Len(chain)
  BY SequenceFacts DEF Chained
<1>3. /\ \A i \in 1..n : t[i] = chain[i]
      /\ t[n + 1].originalData = data
  BY <1>1, <1>2, ExtendedChained
<1>4. PICK hot, hot2 : hot = ToldIn(chain, "anchored") /\ hot2 = ToldIn(t, "anchored")
  OBVIOUS
<1>5. /\ hot \in SUBSET (1..n)
      /\ hot2 = IF data.says = "anchored" THEN hot \cup {n + 1} ELSE hot
  BY <1>1, <1>2, <1>4, ExtendedTold
<1>6. \A i \in hot : chain[i] = t[i]
  BY <1>3, <1>5
<1>7. CASE data.says = "anchored"
  <2> SUFFICES ASSUME NEW next, next.hash = data.hash, next.reported = data.reported
               PROVE  TellsAnchor(t, next)
    BY <1>1, <1>7
  <2>1. n + 1 \in hot2 /\ \A j \in hot2 : j <= n + 1
    BY <1>5, <1>7
  <2> QED
    BY <1>3, <1>4, <2>1 DEF TellsAnchor
<1>8. CASE data.says # "anchored"
  BY <1>1, <1>4, <1>5, <1>6, <1>8 DEF TellsAnchor
<1> QED
  BY <1>7, <1>8

\* The signatures are still those of a preset.
Measured == \E t \in {DEFAULT_ROWS, UNSAFE_ROWS} : \A i \in 1..2 : rows[i].sig = t[i].celsius

SimInv ==
  /\ SimTypeOK
  /\ Chained(blocks)
  /\ TellsAll(blocks, reg, stage, breach, recalled, anchor)
  /\ stage = -1 => ToldIn(blocks, "anchored") = {}
  /\ Measured

\* A block that is added tells what it says, and leaves the rest as it was told.
LEMMA Added ==
  ASSUME SimInv, NEW data, AddBlock(data)
  PROVE  /\ Chained(blocks')
         /\ data.says # "registered" => TellsRegistered(blocks', reg)
         /\ data.says = "registered" => TellsRegistered(blocks', reg \cup {data.who})
         /\ data.says \notin {"created", "step"} => TellsStage(blocks', stage)
         /\ data.says \in {"created", "step"} => TellsStage(blocks', stage + 1)
         /\ data.says # "recalled" => TellsRecalled(blocks', recalled)
         /\ data.says = "recalled" => TellsRecalled(blocks', TRUE)
         /\ data.says \notin {"anchored", "cleared"} => TellsBreach(blocks', breach)
         /\ data.says = "cleared" => TellsBreach(blocks', FALSE)
         /\ data.says = "anchored" =>
              \A now \in BOOLEAN : (now <=> breach \/ Warm(data.reported))
                                    => TellsBreach(blocks', now)
         /\ data.says # "anchored" => TellsAnchor(blocks', anchor)
         /\ data.says = "anchored" =>
              \A next : next.hash = data.hash /\ next.reported = data.reported
                          => TellsAnchor(blocks', next)
         /\ data.says # "anchored" => ToldIn(blocks', "anchored") = ToldIn(blocks, "anchored")
         /\ \A i \in DOMAIN blocks' : blocks'[i].n = i - 1
<1>1. /\ Chained(blocks) /\ TellsRegistered(blocks, reg) /\ TellsStage(blocks, stage)
      /\ TellsBreach(blocks, breach) /\ TellsRecalled(blocks, recalled)
      /\ TellsAnchor(blocks, anchor)
  BY DEF SimInv, TellsAll
<1>2. PICK t : t = Extended(blocks, data) /\ blocks' = t
  BY DEF AddBlock
<1>3. Chained(t)
  BY <1>1, <1>2, ExtendedChained
<1>4. \A i \in DOMAIN t : t[i].n = i - 1
  BY <1>3 DEF Chained
<1>5. /\ data.says # "registered" => TellsRegistered(t, reg)
      /\ data.says = "registered" => TellsRegistered(t, reg \cup {data.who})
  BY <1>1, <1>2, RegisteredTold
<1>6. /\ data.says \notin {"created", "step"} => TellsStage(t, stage)
      /\ data.says \in {"created", "step"} => TellsStage(t, stage + 1)
  BY <1>1, <1>2, StageTold
<1>7. /\ data.says # "recalled" => TellsRecalled(t, recalled)
      /\ data.says = "recalled" => TellsRecalled(t, TRUE)
  BY <1>1, <1>2, RecalledTold
<1>8. /\ data.says \notin {"anchored", "cleared"} => TellsBreach(t, breach)
      /\ data.says = "cleared" => TellsBreach(t, FALSE)
      /\ data.says = "anchored" =>
           \A now \in BOOLEAN : (now <=> breach \/ Warm(data.reported)) => TellsBreach(t, now)
  BY <1>1, <1>2, BreachTold
<1>9. /\ data.says # "anchored" => TellsAnchor(t, anchor)
      /\ data.says = "anchored" =>
           \A next : next.hash = data.hash /\ next.reported = data.reported
                       => TellsAnchor(t, next)
  BY <1>1, <1>2, AnchorTold
<1>10. data.says # "anchored" => ToldIn(t, "anchored") = ToldIn(blocks, "anchored")
  BY <1>1, <1>2, ExtendedTold
<1> QED
  BY <1>2, <1>3, <1>4, <1>5, <1>6, <1>7, <1>8, <1>9, <1>10

\* Texts that were edited, or restored: what was committed stays.
LEMMA Edited ==
  ASSUME SimInv, UNCHANGED <<reg, batchVars, tableVars, anchor>>, clicks' \in [Kinds -> Nat],
         NEW t, blocks' = t, IsSequence(t), Len(t) = Len(blocks),
         \A i \in 1..Len(blocks) :
           /\ DOMAIN t[i] = DOMAIN blocks[i] /\ t[i].n = blocks[i].n
           /\ t[i].originalData = blocks[i].originalData
           /\ t[i].committedPrev = blocks[i].committedPrev
           /\ t[i].committedHash = blocks[i].committedHash
  PROVE  SimInv'
<1>1. /\ Len(blocks) \in Nat /\ DOMAIN blocks = 1..Len(blocks) /\ DOMAIN t = 1..Len(blocks)
      /\ Chained(blocks)
  BY SequenceFacts DEF SimInv, Chained
<1>2. Chained(t)
  <2>1. ASSUME NEW i \in DOMAIN t
        PROVE  /\ DOMAIN t[i] = {"n", "data", "originalData", "committedPrev", "committedHash"}
               /\ t[i].n = i - 1
               /\ t[i].committedPrev = IF i = 1 THEN <<>> ELSE t[i - 1].committedHash
               /\ t[i].committedHash = <<t[i].committedPrev, t[i].originalData, t[i].n>>
    <3>1. i # 1 => i - 1 \in 1..Len(blocks)
      BY <1>1
    <3>2. /\ DOMAIN blocks[i] = {"n", "data", "originalData", "committedPrev", "committedHash"}
          /\ blocks[i].n = i - 1
          /\ blocks[i].committedPrev = IF i = 1 THEN <<>> ELSE blocks[i - 1].committedHash
          /\ blocks[i].committedHash = <<blocks[i].committedPrev, blocks[i].originalData, blocks[i].n>>
      BY <1>1 DEF Chained
    <3> QED
      BY <1>1, <3>1, <3>2
  <2>2. Len(t) >= 1
    BY <1>1 DEF Chained
  <2> QED
    BY <2>1, <2>2 DEF Chained
<1>3. \A what : ToldIn(t, what) = ToldIn(blocks, what)
  BY <1>1 DEF ToldIn
<1>4. \A what : ToldIn(blocks, what) \in SUBSET (1..Len(blocks))
  BY <1>1 DEF ToldIn
<1>5. TellsRegistered(t, reg)
  <2>1. PICK told : told = ToldIn(blocks, "registered")
    OBVIOUS
  <2>2. told \in SUBSET (1..Len(blocks)) /\ told = ToldIn(t, "registered")
    BY <1>3, <1>4, <2>1
  <2>3. {t[i].originalData.who : i \in told} = {blocks[i].originalData.who : i \in told}
    BY <2>2
  <2> QED
    BY <2>1, <2>2, <2>3 DEF SimInv, TellsAll, TellsRegistered
<1>6. TellsStage(t, stage)
  BY <1>3 DEF SimInv, TellsAll, TellsStage
<1>7. TellsRecalled(t, recalled)
  BY <1>3 DEF SimInv, TellsAll, TellsRecalled
<1>8. TellsBreach(t, breach)
  BY <1>3, <1>4 DEF SimInv, TellsAll, TellsBreach
<1>9. TellsAnchor(t, anchor)
  BY <1>3, <1>4 DEF SimInv, TellsAll, TellsAnchor
<1>10. TellsAll(t, reg, stage, breach, recalled, anchor)
  BY <1>5, <1>6, <1>7, <1>8, <1>9 DEF TellsAll
<1>11. TellsAll(blocks', reg', stage', breach', recalled', anchor')
  BY <1>10 DEF batchVars
<1>12. SimTypeOK'
  <2>1. \A i \in DOMAIN t : t[i].n = i - 1
    BY <1>2 DEF Chained
  <2> QED
    BY <2>1 DEF SimInv, SimTypeOK, batchVars, tableVars
<1>13. Measured' /\ (stage' = -1 => ToldIn(blocks', "anchored") = {})
  BY <1>3 DEF SimInv, Measured, tableVars, batchVars
<1> QED
  BY <1>2, <1>11, <1>12, <1>13 DEF SimInv

LEMMA EditBlockKeeps ==
  ASSUME SimInv, NEW i \in DOMAIN blocks, NEW data, EditBlock(i, data)
  PROVE  SimInv'
<1>1. /\ IsSequence(blocks) /\ Len(blocks) \in Nat /\ DOMAIN blocks = 1..Len(blocks)
      /\ clicks \in [Kinds -> Nat]
  BY SequenceFacts DEF SimInv, SimTypeOK, Chained
<1>2. PICK t : t = [blocks EXCEPT ![i].data = data]
  OBVIOUS
<1>3. DOMAIN t = 1..Len(blocks)
  BY <1>1, <1>2
<1>4. IsSequence(t) /\ Len(t) = Len(blocks)
  <2>1. PICK R : R = {t[k] : k \in DOMAIN t}
    OBVIOUS
  <2>2. PICK n \in Nat : n = Len(blocks)
    BY <1>1
  <2>3. t = [k \in 1..n |-> t[k]]
    BY <1>1, <1>2, <2>2
  <2>4. \A k \in 1..n : t[k] \in R
    BY <1>3, <2>1, <2>2
  <2>5. t \in Seq(R) /\ Len(t) = n
    BY <2>3, <2>4
  <2> QED
    BY <2>1, <2>2, <2>5 DEF IsSequence
<1>5. \A k \in 1..Len(blocks) :
        /\ DOMAIN t[k] = DOMAIN blocks[k] /\ t[k].n = blocks[k].n
        /\ t[k].originalData = blocks[k].originalData
        /\ t[k].committedPrev = blocks[k].committedPrev
        /\ t[k].committedHash = blocks[k].committedHash
  BY <1>1, <1>2 DEF SimInv, Chained
<1>6. clicks' \in [Kinds -> Nat]
  BY <1>1 DEF EditBlock, Click, Kinds
<1>7. blocks' = t
  BY <1>2 DEF EditBlock
<1> QED
  BY <1>4, <1>5, <1>6, <1>7, Edited DEF EditBlock

LEMMA RestoreChainKeeps ==
  ASSUME SimInv, RestoreChain
  PROVE  SimInv'
<1>1. /\ IsSequence(blocks) /\ Len(blocks) \in Nat /\ DOMAIN blocks = 1..Len(blocks)
      /\ clicks \in [Kinds -> Nat]
  BY SequenceFacts DEF SimInv, SimTypeOK, Chained
<1>2. PICK n \in Nat : n = Len(blocks)
  BY <1>1
<1>3. PICK t : t = [k \in 1..n |-> [blocks[k] EXCEPT !.data = blocks[k].originalData]]
  OBVIOUS
<1>4. IsSequence(t) /\ Len(t) = Len(blocks)
  <2>1. PICK R : R = {t[k] : k \in DOMAIN t}
    OBVIOUS
  <2>3. t = [k \in 1..n |-> t[k]]
    BY <1>3
  <2>4. \A k \in 1..n : t[k] \in R
    BY <2>1, <2>3
  <2>5. t \in Seq(R) /\ Len(t) = n
    BY <2>3, <2>4
  <2> QED
    BY <1>2, <2>1, <2>5 DEF IsSequence
<1>5. \A k \in 1..Len(blocks) :
        /\ DOMAIN t[k] = DOMAIN blocks[k] /\ t[k].n = blocks[k].n
        /\ t[k].originalData = blocks[k].originalData
        /\ t[k].committedPrev = blocks[k].committedPrev
        /\ t[k].committedHash = blocks[k].committedHash
  BY <1>1, <1>2, <1>3 DEF SimInv, Chained
<1>6. clicks' \in [Kinds -> Nat]
  BY <1>1 DEF RestoreChain
<1>7. blocks' = t
  BY <1>1, <1>2, <1>3 DEF RestoreChain
<1> QED
  BY <1>4, <1>5, <1>6, <1>7, Edited DEF RestoreChain

LEMMA RegisterKeeps ==
  ASSUME SimInv, NEW who \in Registrable, Register(who)
  PROVE  SimInv'
<1>1. Joined(who).says = "registered" /\ Joined(who).who = who
  BY DEF Joined
<1>2. AddBlock(Joined(who))
  BY DEF Register
<1>3. /\ Chained(blocks') /\ TellsRegistered(blocks', reg \cup {who})
      /\ TellsStage(blocks', stage) /\ TellsRecalled(blocks', recalled)
      /\ TellsBreach(blocks', breach) /\ TellsAnchor(blocks', anchor)
      /\ ToldIn(blocks', "anchored") = ToldIn(blocks, "anchored")
      /\ \A i \in DOMAIN blocks' : blocks'[i].n = i - 1
  BY <1>1, <1>2, Added
<1>4. TellsAll(blocks', reg', stage', breach', recalled', anchor')
  BY <1>3 DEF Register, TellsAll, batchVars
<1>5. SimTypeOK'
  BY <1>3 DEF Register, Click, Kinds, SimInv, SimTypeOK, Registrable, ORGS, batchVars, tableVars
<1>6. Measured' /\ (stage' = -1 => ToldIn(blocks', "anchored") = {})
  BY <1>3 DEF Register, SimInv, Measured, tableVars, batchVars
<1> QED
  BY <1>3, <1>4, <1>5, <1>6 DEF SimInv

\* Everyone who is missing, one after the other.
JoinedBy(chain, who, there) == IF who \in there THEN chain ELSE Extended(chain, Joined(who))

LEMMA Joining ==
  ASSUME NEW chain, NEW joined, NEW at, NEW warm, NEW back, NEW last, Chained(chain),
         TellsAll(chain, joined, at, warm, back, last),
         NEW who, NEW there, there \subseteq joined
  PROVE  /\ Chained(JoinedBy(chain, who, there))
         /\ TellsAll(JoinedBy(chain, who, there), joined \cup {who}, at, warm, back, last)
         /\ ToldIn(JoinedBy(chain, who, there), "anchored") = ToldIn(chain, "anchored")
<1> PICK next : next = JoinedBy(chain, who, there)
  OBVIOUS
<1> USE DEF JoinedBy
<1>1. CASE who \in there
  <2>1. joined \cup {who} = joined
    BY <1>1
  <2> QED
    BY <1>1, <2>1
<1>2. CASE who \notin there
  <2>1. Joined(who).says = "registered" /\ Joined(who).who = who
    BY DEF Joined
  <2>2. Chained(next)
    BY <1>2, ExtendedChained
  <2>3. TellsRegistered(next, joined \cup {who})
    BY <1>2, <2>1, RegisteredTold DEF TellsAll
  <2>4. TellsStage(next, at)
    BY <1>2, <2>1, StageTold DEF TellsAll
  <2>5. TellsRecalled(next, back)
    BY <1>2, <2>1, RecalledTold DEF TellsAll
  <2>6. TellsBreach(next, warm)
    BY <1>2, <2>1, BreachTold DEF TellsAll
  <2>7. TellsAnchor(next, last)
    BY <1>2, <2>1, AnchorTold DEF TellsAll
  <2>8. ToldIn(next, "anchored") = ToldIn(chain, "anchored")
    BY <1>2, <2>1, ExtendedTold
  <2> QED
    BY <2>2, <2>3, <2>4, <2>5, <2>6, <2>7, <2>8 DEF TellsAll
<1> QED
  BY <1>1, <1>2

LEMMA RegisterAllKeeps ==
  ASSUME SimInv, RegisterAll
  PROVE  SimInv'
<1> DEFINE After(chain, who) == JoinedBy(chain, who, reg)
<1>1. PICK c1, c2, c3, c4, c5, c6, c7 :
        /\ c1 = After(blocks, "regulator") /\ c2 = After(c1, "farm") /\ c3 = After(c2, "processor")
        /\ c4 = After(c3, "logistics") /\ c5 = After(c4, "retailer") /\ c6 = After(c5, "oracle")
        /\ c7 = After(c6, "sensorKey")
  OBVIOUS
<1>2. blocks' = c7
  <2>1. /\ Len(ORDER) = 7
        /\ ORDER[1] = "regulator" /\ ORDER[2] = "farm" /\ ORDER[3] = "processor"
        /\ ORDER[4] = "logistics" /\ ORDER[5] = "retailer" /\ ORDER[6] = "oracle"
        /\ ORDER[7] = "sensorKey"
    BY DEF ORDER
  <2>2. PICK f : f = [i \in 0..7 |-> CASE i = 0 -> blocks [] i = 1 -> c1 [] i = 2 -> c2
                                       [] i = 3 -> c3 [] i = 4 -> c4 [] i = 5 -> c5
                                       [] i = 6 -> c6 [] i = 7 -> c7]
    OBVIOUS
  <2>3. /\ f[0] = blocks /\ f[1] = c1 /\ f[2] = c2 /\ f[3] = c3
        /\ f[4] = c4 /\ f[5] = c5 /\ f[6] = c6 /\ f[7] = c7
    BY <2>2
  <2>4. \A i \in 0..7 : f[i] = IF i = 0 THEN blocks ELSE After(f[i - 1], ORDER[i])
    <3>1. \A i \in 0..7 : i = 0 \/ i = 1 \/ i = 2 \/ i = 3 \/ i = 4 \/ i = 5 \/ i = 6 \/ i = 7
      OBVIOUS
    <3> HIDE DEF After
    <3> QED
      BY <1>1, <2>1, <2>3, <3>1
  <2>5. f = [i \in 0..Len(ORDER) |-> IF i = 0 THEN blocks
                                     ELSE IF ORDER[i] \in reg THEN f[i - 1]
                                     ELSE Extended(f[i - 1], Joined(ORDER[i]))]
    BY <2>1, <2>2, <2>4 DEF JoinedBy
  <2>6. PICK chain : /\ chain = [i \in 0..Len(ORDER) |-> IF i = 0 THEN blocks
                                     ELSE IF ORDER[i] \in reg THEN chain[i - 1]
                                     ELSE Extended(chain[i - 1], Joined(ORDER[i]))]
                     /\ blocks' = chain[Len(ORDER)]
    BY <2>5 DEF RegisterAll
  <2>7. \A i \in 0..7 : chain[i] = IF i = 0 THEN blocks ELSE After(chain[i - 1], ORDER[i])
    BY <2>1, <2>6 DEF JoinedBy
  <2> HIDE DEF After
  <2>8. chain[0] = blocks
    BY <2>7
  <2>9. chain[1] = c1
    BY <1>1, <2>1, <2>7, <2>8
  <2>10. chain[2] = c2
    BY <1>1, <2>1, <2>7, <2>9
  <2>11. chain[3] = c3
    BY <1>1, <2>1, <2>7, <2>10
  <2>12. chain[4] = c4
    BY <1>1, <2>1, <2>7, <2>11
  <2>13. chain[5] = c5
    BY <1>1, <2>1, <2>7, <2>12
  <2>14. chain[6] = c6
    BY <1>1, <2>1, <2>7, <2>13
  <2>15. chain[7] = c7
    BY <1>1, <2>1, <2>7, <2>14
  <2> QED
    BY <2>1, <2>6, <2>15
<1>3. /\ Chained(blocks) /\ TellsAll(blocks, reg, stage, breach, recalled, anchor)
  BY DEF SimInv
<1>4. PICK r0, at, warm, back, last :
        r0 = reg /\ at = stage /\ warm = breach /\ back = recalled /\ last = anchor
  OBVIOUS
<1>5. PICK r1, r2, r3, r4, r5, r6, r7 :
        /\ r1 = r0 \cup {"regulator"} /\ r2 = r1 \cup {"farm"} /\ r3 = r2 \cup {"processor"}
        /\ r4 = r3 \cup {"logistics"} /\ r5 = r4 \cup {"retailer"} /\ r6 = r5 \cup {"oracle"}
        /\ r7 = r6 \cup {"sensorKey"}
  OBVIOUS
<1> DEFINE Fine(chain, joined) ==
             /\ Chained(chain) /\ TellsAll(chain, joined, at, warm, back, last)
             /\ ToldIn(chain, "anchored") = ToldIn(blocks, "anchored")
<1>6. Fine(blocks, r0)
  BY <1>3, <1>4
<1>7. \A chain, joined, who :
        Fine(chain, joined) /\ r0 \subseteq joined => Fine(After(chain, who), joined \cup {who})
  <2> SUFFICES ASSUME NEW chain, NEW joined, NEW who, Fine(chain, joined), r0 \subseteq joined
               PROVE  Fine(After(chain, who), joined \cup {who})
    OBVIOUS
  <2>1. PICK next : next = JoinedBy(chain, who, r0)
    OBVIOUS
  <2>2. next = After(chain, who)
    BY <1>4, <2>1
  <2>3. /\ Chained(next) /\ TellsAll(next, joined \cup {who}, at, warm, back, last)
        /\ ToldIn(next, "anchored") = ToldIn(chain, "anchored")
    <3>1. Chained(chain) /\ TellsAll(chain, joined, at, warm, back, last)
      OBVIOUS
    <3> HIDE DEF Fine, After
    <3> QED
      BY <2>1, <3>1, Joining
  <2> HIDE DEF After
  <2>4. Fine(next, joined \cup {who})
    BY <2>3
  <2> HIDE DEF Fine
  <2> QED
    BY <2>2, <2>4
<1> HIDE DEF Fine, Next
<1>8. Fine(c1, r1)
  BY <1>1, <1>5, <1>6, <1>7
<1>9. Fine(c2, r2)
  BY <1>1, <1>5, <1>8, <1>7
<1>10. Fine(c3, r3)
  BY <1>1, <1>5, <1>9, <1>7
<1>11. Fine(c4, r4)
  BY <1>1, <1>5, <1>10, <1>7
<1>12. Fine(c5, r5)
  BY <1>1, <1>5, <1>11, <1>7
<1>13. Fine(c6, r6)
  BY <1>1, <1>5, <1>12, <1>7
<1>14. Fine(c7, r7)
  BY <1>1, <1>5, <1>13, <1>7
<1>15. r7 = Registrable
  BY <1>4, <1>5 DEF SimInv, SimTypeOK, Registrable, ORGS
<1>16. /\ Chained(c7) /\ TellsAll(c7, Registrable, stage, breach, recalled, anchor)
       /\ ToldIn(c7, "anchored") = ToldIn(blocks, "anchored")
  BY <1>4, <1>14, <1>15 DEF Fine
<1>17. TellsAll(blocks', reg', stage', breach', recalled', anchor')
  BY <1>2, <1>16 DEF RegisterAll, batchVars
<1>18. SimTypeOK'
  <2>1. \A i \in DOMAIN c7 : c7[i].n = i - 1
    BY <1>16 DEF Chained
  <2> QED
    BY <1>2, <2>1 DEF RegisterAll, SimInv, SimTypeOK, Registrable, ORGS, batchVars, tableVars
<1>19. Measured' /\ (stage' = -1 => ToldIn(blocks', "anchored") = {})
  BY <1>2, <1>16 DEF RegisterAll, SimInv, Measured, tableVars, batchVars
<1> QED
  BY <1>2, <1>16, <1>17, <1>18, <1>19 DEF SimInv

LEMMA CreateKeeps ==
  ASSUME SimInv, Create
  PROVE  SimInv'
<1>1. PICK data : data = [says |-> "created"]
  OBVIOUS
<1>2. data.says = "created" /\ AddBlock(data)
  BY <1>1 DEF Create
<1>3. /\ Chained(blocks') /\ TellsRegistered(blocks', reg)
      /\ TellsStage(blocks', stage + 1) /\ TellsRecalled(blocks', recalled)
      /\ TellsBreach(blocks', breach) /\ TellsAnchor(blocks', anchor)
      /\ ToldIn(blocks', "anchored") = ToldIn(blocks, "anchored")
      /\ \A i \in DOMAIN blocks' : blocks'[i].n = i - 1
  BY <1>2, Added
<1>4. stage + 1 = 0 /\ anchor = NoAnchor
  BY DEF Create, SimInv, SimTypeOK
<1>5. TellsAll(blocks', reg', stage', breach', recalled', anchor')
  BY <1>3, <1>4 DEF Create, TellsAll
<1>6. SimTypeOK'
  BY <1>3 DEF Create, SimInv, SimTypeOK, tableVars
<1>7. Measured' /\ (stage' = -1 => ToldIn(blocks', "anchored") = {})
  BY <1>3 DEF Create, SimInv, Measured, tableVars
<1> QED
  BY <1>3, <1>5, <1>6, <1>7 DEF SimInv

LEMMA StepToKeeps ==
  ASSUME SimInv, NEW i \in 1..3, StepTo(i)
  PROVE  SimInv'
<1>1. PICK data : data = [says |-> "step", to |-> i]
  OBVIOUS
<1>2. data.says = "step" /\ AddBlock(data)
  BY <1>1 DEF StepTo
<1>3. /\ Chained(blocks') /\ TellsRegistered(blocks', reg)
      /\ TellsStage(blocks', stage + 1) /\ TellsRecalled(blocks', recalled)
      /\ TellsBreach(blocks', breach) /\ TellsAnchor(blocks', anchor)
      /\ ToldIn(blocks', "anchored") = ToldIn(blocks, "anchored")
      /\ \A k \in DOMAIN blocks' : blocks'[k].n = k - 1
  BY <1>2, Added
<1>4. stage' = stage + 1
  BY DEF StepTo
<1>5. TellsAll(blocks', reg', stage', breach', recalled', anchor')
  BY <1>3, <1>4 DEF StepTo, TellsAll
<1>6. SimTypeOK'
  BY <1>3 DEF StepTo, SimInv, SimTypeOK, tableVars
<1>7. Measured' /\ (stage' = -1 => ToldIn(blocks', "anchored") = {})
  BY <1>3 DEF StepTo, SimInv, Measured, tableVars
<1> QED
  BY <1>3, <1>5, <1>6, <1>7 DEF SimInv

LEMMA RecallKeeps ==
  ASSUME SimInv, Recall
  PROVE  SimInv'
<1>1. PICK data : data = [says |-> "recalled"]
  OBVIOUS
<1>2. data.says = "recalled" /\ AddBlock(data)
  BY <1>1 DEF Recall
<1>3. /\ Chained(blocks') /\ TellsRegistered(blocks', reg)
      /\ TellsStage(blocks', stage) /\ TellsRecalled(blocks', TRUE)
      /\ TellsBreach(blocks', breach) /\ TellsAnchor(blocks', anchor)
      /\ ToldIn(blocks', "anchored") = ToldIn(blocks, "anchored")
      /\ \A i \in DOMAIN blocks' : blocks'[i].n = i - 1
  BY <1>2, Added
<1>5. TellsAll(blocks', reg', stage', breach', recalled', anchor')
  BY <1>3 DEF Recall, TellsAll
<1>6. SimTypeOK'
  BY <1>3 DEF Recall, SimInv, SimTypeOK, tableVars
<1>7. Measured' /\ (stage' = -1 => ToldIn(blocks', "anchored") = {})
  BY <1>3 DEF Recall, SimInv, Measured, tableVars
<1> QED
  BY <1>3, <1>5, <1>6, <1>7 DEF SimInv

LEMMA ClearFlagKeeps ==
  ASSUME SimInv, ClearFlag
  PROVE  SimInv'
<1>1. PICK data : data = [says |-> "cleared"]
  OBVIOUS
<1>2. data.says = "cleared" /\ AddBlock(data)
  BY <1>1 DEF ClearFlag
<1>3. /\ Chained(blocks') /\ TellsRegistered(blocks', reg)
      /\ TellsStage(blocks', stage) /\ TellsRecalled(blocks', recalled)
      /\ TellsBreach(blocks', FALSE) /\ TellsAnchor(blocks', anchor)
      /\ ToldIn(blocks', "anchored") = ToldIn(blocks, "anchored")
      /\ \A i \in DOMAIN blocks' : blocks'[i].n = i - 1
  BY <1>2, Added
<1>5. TellsAll(blocks', reg', stage', breach', recalled', anchor')
  BY <1>3 DEF ClearFlag, TellsAll
<1>6. SimTypeOK'
  BY <1>3 DEF ClearFlag, SimInv, SimTypeOK, tableVars
<1>7. Measured' /\ (stage' = -1 => ToldIn(blocks', "anchored") = {})
  BY <1>3 DEF ClearFlag, SimInv, Measured, tableVars
<1> QED
  BY <1>3, <1>5, <1>6, <1>7 DEF SimInv

LEMMA AnchorReadingsKeeps ==
  ASSUME SimInv, NEW reported, AnchorReadings(reported)
  PROVE  SimInv'
<1>1. PICK data : data = [says |-> "anchored", hash |-> Data(rows), reported |-> reported]
  OBVIOUS
<1>2. /\ data.says = "anchored" /\ data.hash = Data(rows) /\ data.reported = reported
      /\ AddBlock(data)
  BY <1>1 DEF AnchorReadings
<1>3. anchor' = [hash |-> Data(rows), reported |-> reported, count |-> Len(rows)]
  BY DEF AnchorReadings
<1>4. anchor'.hash = data.hash /\ anchor'.reported = data.reported
  BY <1>2, <1>3
<1>5. PICK now : now = Flagged(breach, reported)
  OBVIOUS
<1>6. breach \in BOOLEAN
  BY DEF SimInv, TellsAll, TellsBreach
<1>7. now \in BOOLEAN /\ (now <=> breach \/ Warm(data.reported)) /\ breach' = now
  <2>1. now \in BOOLEAN
    BY <1>5, Zenon DEF Flagged
  <2>2. breach' = now
    BY <1>5 DEF AnchorReadings
  <2>3. now <=> breach \/ Warm(data.reported)
    BY <1>2, <1>5 DEF Flagged, Warm
  <2> QED
    BY <2>1, <2>2, <2>3
<1>8. PICK next : next = anchor'
  OBVIOUS
<1>9. /\ Chained(blocks') /\ TellsRegistered(blocks', reg)
       /\ TellsStage(blocks', stage) /\ TellsRecalled(blocks', recalled)
       /\ TellsBreach(blocks', now) /\ TellsAnchor(blocks', next)
       /\ \A i \in DOMAIN blocks' : blocks'[i].n = i - 1
  BY <1>2, <1>4, <1>7, <1>8, Added
<1>10. TellsAll(blocks', reg', stage', breach', recalled', anchor')
  BY <1>7, <1>8, <1>9 DEF AnchorReadings, TellsAll, tableVars
<1>11. SimTypeOK'
  BY <1>9 DEF AnchorReadings, Click, Kinds, SimInv, SimTypeOK, tableVars
<1>12. Measured' /\ stage' # -1
  BY DEF AnchorReadings, SimInv, Measured, tableVars
<1> QED
  BY <1>9, <1>10, <1>11, <1>12 DEF SimInv

LEMMA DoVerifyKeeps ==
  ASSUME SimInv, DoVerify
  PROVE  SimInv'
<1>1. UNCHANGED <<reg, stage, breach, recalled, rows, preset, anchor, blocks, clicks>>
  BY DEF DoVerify, batchVars, tableVars
<1> QED
  BY <1>1 DEF SimInv, SimTypeOK, Measured

Reading == [celsius : Int, sig : Int]

LEMMA RowsTyped ==
  ASSUME SimInv
  PROVE  /\ rows \in Seq(Reading) /\ Len(rows) = 2 /\ DOMAIN rows = 1..2
         /\ \A i \in 1..2 : rows[i] \in Reading
<1>1. rows \in Seq(Reading) /\ Len(rows) = 2
  BY DEF SimInv, SimTypeOK, Reading
<1> QED
  BY <1>1

\* The table changes, but no signature.
LEMMA RowsOnly ==
  ASSUME SimInv, UNCHANGED <<reg, batchVars, anchor, blocks>>, clicks' \in [Kinds -> Nat],
         rows' \in Seq(Reading), Len(rows') = 2, Measured'
  PROVE  SimInv'
BY DEF SimInv, SimTypeOK, batchVars, Reading

LEMMA EditCellKeeps ==
  ASSUME SimInv, NEW i \in DOMAIN rows, NEW celsius \in Cells, EditCell(i, celsius)
  PROVE  SimInv'
<1>1. /\ rows \in Seq(Reading) /\ Len(rows) = 2 /\ DOMAIN rows = 1..2
      /\ \A k \in 1..2 : rows[k] \in Reading
      /\ celsius \in Int
  BY RowsTyped, CellsAssumption
<1>2. PICK row : row = [rows[i] EXCEPT !.celsius = celsius]
  OBVIOUS
<1>3. row \in Reading /\ row.sig = rows[i].sig
  BY <1>1, <1>2 DEF Reading
<1>4. PICK t : t = [rows EXCEPT ![i] = row]
  OBVIOUS
<1>5. t \in Seq(Reading) /\ Len(t) = 2
  <2>1. t = [k \in 1..2 |-> t[k]]
    BY <1>1, <1>4
  <2>2. \A k \in 1..2 : t[k] \in Reading
    BY <1>1, <1>3, <1>4
  <2> QED
    BY <2>1, <2>2
<1>6. \A k \in 1..2 : t[k].sig = rows[k].sig
  BY <1>1, <1>3, <1>4
<1>7. rows' = t
  BY <1>2, <1>4 DEF EditCell
<1>8. Measured'
  BY <1>6, <1>7 DEF SimInv, Measured
<1>9. clicks' \in [Kinds -> Nat]
  BY DEF EditCell, Click, Kinds, SimInv, SimTypeOK
<1> QED
  BY <1>5, <1>7, <1>8, <1>9, RowsOnly DEF EditCell

LEMMA SecretlyEditKeeps ==
  ASSUME SimInv, SecretlyEdit
  PROVE  SimInv'
<1>1. /\ rows \in Seq(Reading) /\ Len(rows) = 2 /\ DOMAIN rows = 1..2
      /\ \A i \in 1..2 : rows[i] \in Reading
  BY RowsTyped
<1>2. ASSUME NEW k \in 1..2
      PROVE  rows'[k] \in Reading /\ rows'[k].sig = rows[k].sig
  <2>1. rows[k] \in Reading
    BY <1>1
  <2>2. rows'[k] \in {rows[k], [rows[k] EXCEPT !.celsius = HIDDEN]}
    BY <1>1 DEF SecretlyEdit
  <2> QED
    BY <2>1, <2>2 DEF HIDDEN, Reading
<1>3. PICK t : t = rows'
  OBVIOUS
<1>4. t = [k \in 1..2 |-> t[k]]
  BY <1>1, <1>3 DEF SecretlyEdit
<1>5. t \in Seq(Reading) /\ Len(t) = 2
  BY <1>2, <1>3, <1>4
<1>6. Measured'
  BY <1>2 DEF SimInv, Measured
<1>7. clicks' \in [Kinds -> Nat]
  BY DEF SecretlyEdit, SimInv, SimTypeOK
<1> QED
  BY <1>3, <1>5, <1>6, <1>7, RowsOnly DEF SecretlyEdit

LEMMA PresetTyped ==
  ASSUME NEW t \in {DEFAULT_ROWS, UNSAFE_ROWS}
  PROVE  /\ t \in Seq(Reading) /\ Len(t) = 2
         /\ \A i \in 1..2 : t[i].sig = t[i].celsius
<1>1. PICK celsius \in {3, 8} : t = <<Sign(2), Sign(celsius)>>
  BY DEF DEFAULT_ROWS, UNSAFE_ROWS
<1>0. \A c \in Int : Sign(c) \in Reading /\ Sign(c).sig = Sign(c).celsius
  BY DEF Sign, Reading
<1>2. PICK a \in Reading : a = Sign(2) /\ a.sig = a.celsius
  BY <1>0
<1>3. PICK b \in Reading : b = Sign(celsius) /\ b.sig = b.celsius
  BY <1>0
<1>4. t = <<a, b>>
  BY <1>1, <1>2, <1>3
<1>5. t \in Seq(Reading) /\ Len(t) = 2 /\ t[1] = a /\ t[2] = b
  BY <1>4
<1>6. \A i \in 1..2 : i = 1 \/ i = 2
  OBVIOUS
<1> QED
  BY <1>2, <1>3, <1>5, <1>6

LEMMA PickPresetKeeps ==
  ASSUME SimInv, NEW id, PickPreset(id)
  PROVE  SimInv'
<1>1. PICK t \in {DEFAULT_ROWS, UNSAFE_ROWS} : rows' = t
  BY DEF PickPreset
<1>2. Measured'
  BY <1>1, PresetTyped DEF Measured
<1>3. clicks' \in [Kinds -> Nat]
  BY DEF PickPreset, SimInv, SimTypeOK
<1> QED
  BY <1>1, <1>2, <1>3, PresetTyped, RowsOnly DEF PickPreset

LEMMA SimStarts ==
  ASSUME SimState, clicks \in [Kinds -> Nat]
  PROVE  SimInv
<1>1. PICK g : g = Genesis
  OBVIOUS
<1>2. /\ DOMAIN g = {"n", "data", "originalData", "committedPrev", "committedHash"}
      /\ g.n = 0 /\ g.originalData = Start /\ g.committedPrev = <<>>
      /\ g.committedHash = <<g.committedPrev, g.originalData, g.n>>
  BY <1>1 DEF Genesis, Block, FakeHash
<1>3. blocks = <<g>>
  BY <1>1 DEF SimState
<1>4. DOMAIN blocks = {1} /\ blocks[1] = g /\ Len(blocks) = 1 /\ blocks \in Seq({g})
  BY <1>3
<1>5. Chained(blocks)
  <2>1. {blocks[i] : i \in DOMAIN blocks} = {g}
    BY <1>4
  <2> QED
    BY <1>2, <1>4, <2>1 DEF Chained, IsSequence
<1>6. \A what \in {"registered", "created", "step", "recalled", "cleared", "anchored"} :
        ToldIn(blocks, what) = {}
  BY <1>2, <1>4 DEF ToldIn, Start
<1>7. TellsAll(blocks, reg, stage, breach, recalled, anchor)
  <2>1. TellsStage(blocks, stage)
    <3>1. ToldIn(blocks, "created") = {} /\ ToldIn(blocks, "step") = {}
      BY <1>6
    <3>2. Cardinality({}) = 0
      BY FS_EmptySet, Zenon
    <3>3. Cardinality(ToldIn(blocks, "created")) = 0 /\ Cardinality(ToldIn(blocks, "step")) = 0
      BY <3>1, <3>2, Zenon
    <3> QED
      BY <3>3 DEF SimState, TellsStage
  <2>2. TellsRegistered(blocks, reg)
    BY <1>6 DEF SimState, TellsRegistered
  <2>3. TellsBreach(blocks, breach)
    BY <1>6 DEF SimState, TellsBreach
  <2>4. TellsRecalled(blocks, recalled)
    BY <1>6 DEF SimState, TellsRecalled
  <2>5. TellsAnchor(blocks, anchor)
    BY <1>6 DEF SimState, TellsAnchor
  <2> QED
    BY <2>1, <2>2, <2>3, <2>4, <2>5 DEF TellsAll
<1>8. SimTypeOK
  <2>1. rows \in Seq([celsius : Int, sig : Int]) /\ Len(rows) = 2
    BY PresetTyped DEF SimState, Reading
  <2> QED
    BY <1>2, <1>4, <2>1 DEF SimState, SimTypeOK
<1>9. Measured
  BY PresetTyped DEF SimState, Measured
<1> QED
  BY <1>5, <1>6, <1>7, <1>8, <1>9 DEF SimInv

LEMMA ResetKeeps ==
  ASSUME SimInv, Reset
  PROVE  SimInv'
<1>1. SimState'
  BY DEF Reset, SimState
<1>2. (clicks \in [Kinds -> Nat])'
  BY DEF Reset, Click, Kinds, SimInv, SimTypeOK
<1>3. SimState' /\ (clicks \in [Kinds -> Nat])' => SimInv'
  BY SimStarts, PTL
<1> QED
  BY <1>1, <1>2, <1>3

LEMMA SimStepKeeps ==
  ASSUME SimInv, SimNext \/ UNCHANGED simVars
  PROVE  SimInv'
<1>1. CASE UNCHANGED simVars
  BY <1>1 DEF simVars, SimInv, SimTypeOK, Measured
<1>2. CASE \E i \in DOMAIN blocks : EditBlock(i, [says |-> "rewritten"])
  BY <1>2, EditBlockKeeps
<1>3. CASE RestoreChain \/ RegisterAll \/ Create \/ Recall \/ ClearFlag \/ DoVerify
           \/ SecretlyEdit \/ RestoreRows \/ Reset
  BY <1>3, RestoreChainKeeps, RegisterAllKeeps, CreateKeeps, RecallKeeps, ClearFlagKeeps,
     DoVerifyKeeps, SecretlyEditKeeps, PickPresetKeeps, ResetKeeps DEF RestoreRows
<1>4. CASE \E who \in Registrable : Register(who)
  BY <1>4, RegisterKeeps
<1>5. CASE \E i \in 1..3 : StepTo(i)
  BY <1>5, StepToKeeps
<1>6. CASE \E reported \in Lies \cup {Stats(rows)} : AnchorReadings(reported)
  BY <1>6, AnchorReadingsKeeps
<1>7. CASE \E i \in DOMAIN rows, celsius \in Cells : EditCell(i, celsius)
  BY <1>7, EditCellKeeps
<1>8. CASE \E id \in {"compliant", "warm"} : PickPreset(id)
  BY <1>8, PickPresetKeeps
<1> QED
  BY <1>1, <1>2, <1>3, <1>4, <1>5, <1>6, <1>7, <1>8 DEF SimNext

-----------------------------------------------------------------------------
(* What a clean verification is worth.                                     *)

\* Nobody forged a reading, so that the table is a preset.
LEMMA UnforgedIsPreset ==
  ASSUME SimInv, SigOK = "yes"
  PROVE  rows \in {DEFAULT_ROWS, UNSAFE_ROWS}
<1>1. /\ rows \in Seq(Reading) /\ Len(rows) = 2 /\ DOMAIN rows = 1..2
      /\ \A i \in 1..2 : rows[i] \in Reading
  BY RowsTyped
<1>2. \A i \in 1..2 : rows[i].sig = rows[i].celsius
  BY <1>1 DEF SigOK, Forged
<1>3. PICK t \in {DEFAULT_ROWS, UNSAFE_ROWS} : \A i \in 1..2 : rows[i].sig = t[i].celsius
  BY DEF SimInv, Measured
<1>4. PICK celsius \in {3, 8} : t = <<Sign(2), Sign(celsius)>>
  BY <1>3 DEF DEFAULT_ROWS, UNSAFE_ROWS
<1>5. /\ t[1].celsius = 2 /\ t[2].celsius = celsius
  BY <1>4 DEF Sign
<1>6. rows[1] = Sign(2)
  <2>1. rows[1] = [celsius |-> rows[1].celsius, sig |-> rows[1].sig]
    BY <1>1 DEF Reading
  <2> QED
    BY <1>2, <1>3, <1>5, <2>1 DEF Sign
<1>7. rows[2] = Sign(celsius)
  <2>1. rows[2] = [celsius |-> rows[2].celsius, sig |-> rows[2].sig]
    BY <1>1 DEF Reading
  <2> QED
    BY <1>2, <1>3, <1>5, <2>1 DEF Sign
<1>8. rows = <<rows[1], rows[2]>>
  BY <1>1
<1> QED
  BY <1>3, <1>4, <1>6, <1>7, <1>8

LEMMA UnsafeIsWarm == Stats(UNSAFE_ROWS).max = 8
<1>1. \A i : i \in DOMAIN UNSAFE_ROWS <=> i \in {1, 2}
  BY DEF UNSAFE_ROWS
<1>2. UNSAFE_ROWS[1].celsius = 2 /\ UNSAFE_ROWS[2].celsius = 8
  BY DEF UNSAFE_ROWS, Sign
<1>3. {UNSAFE_ROWS[i].celsius : i \in DOMAIN UNSAFE_ROWS} = {2, 8}
  BY <1>1, <1>2
<1>4. (CHOOSE v \in {2, 8} : \A w \in {2, 8} : v >= w) = 8
  OBVIOUS
<1> QED
  BY <1>3, <1>4 DEF Stats

LEMMA VerifyIsHonest ==
  ASSUME SimInv, DoVerify, Clean(verify')
  PROVE  /\ rows \in {DEFAULT_ROWS, UNSAFE_ROWS}
         /\ rows = UNSAFE_ROWS =>
              \E i \in Told("anchored") : Flagged(FALSE, blocks[i].originalData.reported)
<1>1. PICK hashOK, statsOK \in BOOLEAN :
        /\ statsOK <=> Stats(rows) = anchor.reported
        /\ verify' = [hashOK |-> hashOK, statsOK |-> statsOK, sigOK |-> SigOK]
  BY Zenon DEF DoVerify
<1>2. statsOK /\ SigOK = "yes"
  BY <1>1 DEF Clean
<1>3. rows \in {DEFAULT_ROWS, UNSAFE_ROWS}
  BY <1>1, <1>2, UnforgedIsPreset
<1>4. Stats(rows) = anchor.reported /\ anchor # NoAnchor
  BY <1>1, <1>2 DEF DoVerify
<1>5. PICK i \in ToldIn(blocks, "anchored") : anchor.reported = blocks[i].originalData.reported
  BY <1>4 DEF SimInv, TellsAll, TellsAnchor
<1>6. i \in Told("anchored")
  BY <1>5 DEF Told, Says, ToldIn
<1>7. rows = UNSAFE_ROWS => Flagged(FALSE, blocks[i].originalData.reported)
  BY <1>4, <1>5, UnsafeIsWarm DEF Flagged
<1> QED
  BY <1>3, <1>6, <1>7

LEMMA CleanStep ==
  ASSUME SimInv, SimNext \/ UNCHANGED simVars, Clean(verify'), verify' # verify
  PROVE  /\ rows \in {DEFAULT_ROWS, UNSAFE_ROWS}
         /\ rows = UNSAFE_ROWS =>
              \E i \in Told("anchored") : Flagged(FALSE, blocks[i].originalData.reported)
<1>1. verify' # NoVerdict
  BY DEF Clean
<1>2. DoVerify
  BY <1>1 DEF SimNext, simVars, EditBlock, RestoreChain, RegisterAll, Register, Create, StepTo,
              Recall, ClearFlag, AnchorReadings, EditCell, SecretlyEdit, PickPreset, RestoreRows,
              Reset
<1> QED
  BY <1>2, VerifyIsHonest

-----------------------------------------------------------------------------
(* The live page.                                                          *)

Shown == [id : BatchIds, event : Nat]

Backend ==
  [events : [BatchIds -> Nat], evidence : SUBSET Ids, registry : SUBSET Joiners,
   database : [Ids -> Tables \cup {Nothing}], resetAsked : BOOLEAN]

Page ==
  [batchId : BatchIds, batch : Shown \cup {Nothing}, history : Shown \cup {Nothing},
   anchors : SUBSET Ids, registered : SUBSET Joiners, regEvents : SUBSET Joiners,
   rows : Tables, signedRows : Tables, preset : {"compliant", "warm", "db"},
   liveHash : Ids \cup {Nothing}, evidenceId : Ids \cup {Nothing},
   verify : [id : Ids, match : BOOLEAN] \cup {Nothing}]

Request == [table : Tables, live : Ids \cup {Nothing}, fake : BOOLEAN]

Awaits ==
  {"free", "probe", "batch", "history", "listed", "records", "post", "next", "write", "run",
   "submit", "hide", "list", "readings", "verify"}

TaskSet ==
  [job : ActJobs \cup {"none", "open", "refresh", "register", "registerAll", "write", "anchor",
                       "direct", "tamper", "load", "verify"},
   at : Awaits,
   id : BatchIds \cup Ids \cup {Nothing},
   arg : Joiners \cup Seq(Joiners) \cup Tables \cup Ids \cup Request \cup {Nothing},
   listed : SUBSET Ids]

\* What a task has in hand fits what it waits for; a history is asked for
\* when there is one.
Fits(task, events) ==
  /\ task.at = "free" => task = Free
  /\ task.at \notin {"free", "write"} => task.id \in BatchIds
  /\ task.at = "write" => task.id \in Ids /\ task.arg \in Tables
  /\ task.at = "run" => task.arg \in Request
  /\ task.at = "submit" => task.job = "direct"
  /\ task.at = "next" => task.job = "registerAll"
  /\ task.at = "list" => task.job \in {"load", "verify"}
  /\ task.at \in {"hide", "readings", "verify"} => task.arg \in Ids
  /\ task.at = "history" => events[task.id] > 0
  /\ task.job = "direct" => task.arg \in Ids
  /\ task.job = "register" => task.arg \in Joiners
  /\ task.job = "registerAll" => task.arg \in Seq(Joiners)

Typed ==
  /\ backend \in Backend /\ page \in Page /\ tasks \in [Slots -> TaskSet]
  /\ effect \in {"timer", "asked", "settled"} /\ outdated \subseteq BatchIds \X Tables

TasksFit == \A s \in Slots : Fits(tasks[s], backend.events)

LiveInv == Typed /\ TasksFit /\ FeedOnLedger /\ FingerprintFollowsTable

-----------------------------------------------------------------------------

\* The ledger forgets nothing.
Grows ==
  /\ \A id \in BatchIds : backend.events[id] <= backend'.events[id]
  /\ backend.evidence \subseteq backend'.evidence

\* What is shown as anchored, or as a batch's latest, is on the ledger.
Shows ==
  /\ page'.anchors \subseteq page.anchors \cup backend'.evidence
  /\ \A shown \in {page'.batch, page'.history} \ {page.batch, page.history, Nothing} :
       shown.event <= backend'.events[shown.id]
  /\ page'.history \notin {page.history, Nothing} => page'.history.event > 0

\* A change of what is covered starts the effect again.
Follows ==
  \/ effect' = "timer"
  \/ effect' = "asked"
  \/ effect' = effect /\ page'.batchId = page.batchId /\ page'.rows = page.rows
                      /\ page'.liveHash = page.liveHash
  \/ page'.liveHash.batch = page'.batchId /\ page'.liveHash.table = page'.rows

GoodStep ==
  /\ Typed' /\ Grows /\ Shows /\ Follows
  /\ \A s \in Slots : tasks'[s] = tasks[s] \/ Fits(tasks'[s], backend'.events)

LEMMA GoodStepKeeps ==
  ASSUME LiveInv, GoodStep
  PROVE  LiveInv'
<1>1. TasksFit'
  <2> SUFFICES ASSUME NEW s \in Slots PROVE Fits(tasks'[s], backend'.events)
    BY DEF TasksFit
  <2>1. PICK old \in [BatchIds -> Nat] : old = backend.events
    BY DEF LiveInv, Typed, Backend
  <2>2. PICK new \in [BatchIds -> Nat] : new = backend'.events
    BY DEF GoodStep, Typed, Backend
  <2>3. \A id \in BatchIds : old[id] <= new[id]
    BY <2>1, <2>2 DEF GoodStep, Grows
  <2>4. CASE tasks'[s] = tasks[s]
    <3>1. Fits(tasks[s], old)
      BY <2>1 DEF LiveInv, TasksFit
    <3>2. Fits(tasks[s], new)
      BY <2>3, <3>1 DEF Fits
    <3> QED
      BY <2>2, <2>4, <3>2
  <2> QED
    BY <2>4 DEF GoodStep
<1>2. FeedOnLedger'
  <2>1. page'.anchors \subseteq backend'.evidence
    BY DEF LiveInv, GoodStep, FeedOnLedger, Grows, Shows
  <2>2. ASSUME NEW shown \in {page'.batch, page'.history} \ {Nothing}
        PROVE  shown.event <= backend'.events[shown.id]
    <3>1. shown \in Shown
      BY <2>2 DEF GoodStep, Typed, Page
    <3>2. CASE shown \in {page.batch, page.history}
      <4>1. shown.event <= backend.events[shown.id]
        BY <2>2, <3>2 DEF LiveInv, FeedOnLedger
      <4>2. backend.events[shown.id] <= backend'.events[shown.id]
        BY <3>1 DEF GoodStep, Grows, Shown
      <4>3. backend.events[shown.id] \in Nat /\ backend'.events[shown.id] \in Nat /\ shown.event \in Nat
        BY <3>1 DEF LiveInv, GoodStep, Typed, Backend, Shown
      <4> QED
        BY <4>1, <4>2, <4>3
    <3> QED
      BY <2>2, <3>2 DEF GoodStep, Shows
  <2>3. page'.history # Nothing => page'.history.event > 0
    BY DEF LiveInv, FeedOnLedger, GoodStep, Shows
  <2> QED
    BY <2>1, <2>2, <2>3 DEF FeedOnLedger
<1>3. FingerprintFollowsTable'
  BY DEF LiveInv, GoodStep, Follows, FingerprintFollowsTable
<1> QED
  BY <1>1, <1>2, <1>3 DEF LiveInv, GoodStep

-----------------------------------------------------------------------------
(* Tasks.                                                                  *)

LEMMA TaskTyped ==
  ASSUME NEW job, NEW at, NEW id, NEW arg
  PROVE  LET t == Task(job, at, id, arg) IN
         t.job = job /\ t.at = at /\ t.id = id /\ t.arg = arg /\ t.listed = {}
BY DEF Task

LEMMA FreeFits ==
  /\ Free \in TaskSet
  /\ \A events : Fits(Free, events)
<1>1. Free \in TaskSet
  BY DEF Free, TaskSet, Awaits
<1>2. Free.at = "free" /\ Free.job = "none"
  BY DEF Free
<1> QED
  BY <1>1, <1>2 DEF Fits

LEMMA TaskStarts ==
  ASSUME Typed, NEW task \in TaskSet, Starts(task)
  PROVE  /\ tasks' \in [Slots -> TaskSet]
         /\ \A s \in Slots : tasks'[s] = tasks[s] \/ tasks'[s] = task
BY DEF Typed, Starts

LEMMA TaskEnds ==
  ASSUME Typed, NEW s \in Slots, Ends(s)
  PROVE  /\ tasks' \in [Slots -> TaskSet]
         /\ \A z \in Slots : tasks'[z] = tasks[z] \/ tasks'[z] = Free
BY FreeFits DEF Typed, Ends

LEMMA TaskGoes ==
  ASSUME Typed, NEW s \in Slots, NEW at \in Awaits, Goes(s, at)
  PROVE  /\ tasks' \in [Slots -> TaskSet]
         /\ \A z \in Slots \ {s} : tasks'[z] = tasks[z]
         /\ tasks'[s].at = at /\ tasks'[s].job = tasks[s].job /\ tasks'[s].id = tasks[s].id
         /\ tasks'[s].arg = tasks[s].arg /\ tasks'[s].listed = tasks[s].listed
<1>1. tasks[s] \in TaskSet /\ tasks' = [tasks EXCEPT ![s] = [tasks[s] EXCEPT !.at = at]]
  BY DEF Typed, Goes
<1>2. PICK t \in TaskSet : t = tasks[s]
  BY <1>1
<1>3. [t EXCEPT !.at = at] \in TaskSet
  BY DEF TaskSet
<1>4. PICK u \in TaskSet : u = [t EXCEPT !.at = at]
  BY <1>3
<1>5. u.at = at /\ u.job = t.job /\ u.id = t.id /\ u.arg = t.arg /\ u.listed = t.listed
  BY <1>4 DEF TaskSet
<1>6. tasks' = [tasks EXCEPT ![s] = u]
  BY <1>1, <1>2, <1>4
<1> QED
  BY <1>2, <1>5, <1>6 DEF Typed

\* Only the tasks change.
LEMMA TasksOnly ==
  ASSUME LiveInv, tasks' \in [Slots -> TaskSet], UNCHANGED <<backend, page, effectVars>>,
         \A s \in Slots : tasks'[s] = tasks[s] \/ Fits(tasks'[s], backend'.events)
  PROVE  GoodStep
<1>1. Typed'
  BY DEF LiveInv, Typed, effectVars
<1>2. Grows
  BY DEF LiveInv, Typed, Backend, Grows
<1>3. Shows /\ Follows
  BY DEF Shows, Follows, effectVars
<1> QED
  BY <1>1, <1>2, <1>3 DEF GoodStep

LEMMA PressFits ==
  ASSUME LiveInv, NEW kind, NEW task \in TaskSet, Fits(task, backend.events),
         StartsOnPress(kind, task)
  PROVE  GoodStep
<1>1. Starts(task) /\ UNCHANGED <<backend, page, effectVars>>
  BY DEF StartsOnPress
<1>2. /\ tasks' \in [Slots -> TaskSet]
      /\ \A s \in Slots : tasks'[s] = tasks[s] \/ tasks'[s] = task
  BY <1>1, TaskStarts DEF LiveInv
<1>3. \A s \in Slots : tasks'[s] = tasks[s] \/ Fits(tasks'[s], backend'.events)
  BY <1>1, <1>2
<1> QED
  BY <1>1, <1>2, <1>3, TasksOnly

LEMMA ActKeeps ==
  ASSUME LiveInv, NEW job \in ActJobs, Act(job)
  PROVE  GoodStep
<1>1. PICK t : t = Task(job, "post", page.batchId, Nothing)
  OBVIOUS
<1>2. t \in TaskSet /\ Fits(t, backend.events)
  BY <1>1 DEF LiveInv, Typed, Page, Task, TaskSet, Awaits, Fits, ActJobs
<1> QED
  BY <1>1, <1>2, PressFits DEF Act

LEMMA RefreshKeeps ==
  ASSUME LiveInv, Refresh
  PROVE  GoodStep
<1>1. PICK t : t = Task("refresh", "batch", page.batchId, Nothing)
  OBVIOUS
<1>2. t \in TaskSet /\ Fits(t, backend.events)
  BY <1>1 DEF LiveInv, Typed, Page, Task, TaskSet, Awaits, Fits, ActJobs
<1> QED
  BY <1>1, <1>2, PressFits DEF Refresh

LEMMA RegisterOneKeeps ==
  ASSUME LiveInv, NEW who \in Joiners, RegisterOne(who)
  PROVE  GoodStep
<1>1. PICK t : t = Task("register", "post", page.batchId, who)
  OBVIOUS
<1>2. t \in TaskSet /\ Fits(t, backend.events)
  BY <1>1 DEF LiveInv, Typed, Page, Task, TaskSet, Awaits, Fits, ActJobs
<1> QED
  BY <1>1, <1>2, PressFits DEF RegisterOne

LEMMA RegisterEveryoneKeeps ==
  ASSUME LiveInv, RegisterEveryone
  PROVE  GoodStep
<1>1. PICK t : t = Task("registerAll", "next", page.batchId, JoiningOrder)
  OBVIOUS
<1>2. t \in TaskSet /\ Fits(t, backend.events)
  <2>1. JoiningOrder \in Seq(Joiners)
    BY DEF JoiningOrder, Joiners
  <2> QED
    BY <1>1, <2>1 DEF LiveInv, Typed, Page, Task, TaskSet, Awaits, Fits, ActJobs
<1> QED
  BY <1>1, <1>2, PressFits DEF RegisterEveryone

LEMMA AnchorKeeps ==
  ASSUME LiveInv, NEW fake \in BOOLEAN, Anchor(fake)
  PROVE  GoodStep
<1>1. PICK request : request = [table |-> page.rows, live |-> page.liveHash, fake |-> fake]
  OBVIOUS
<1>2. request \in Request
  BY <1>1 DEF LiveInv, Typed, Page, Request
<1>3. PICK t : t = Task("anchor", "run", page.batchId, request)
  OBVIOUS
<1>4. t \in TaskSet /\ Fits(t, backend.events)
  BY <1>2, <1>3 DEF LiveInv, Typed, Page, Task, TaskSet, Awaits, Fits, ActJobs
<1> QED
  BY <1>1, <1>3, <1>4, PressFits DEF Anchor

LEMMA TamperDbKeeps ==
  ASSUME LiveInv, TamperDb
  PROVE  GoodStep
<1>1. PICK t : t = Task("tamper", "hide", page.batchId, page.evidenceId)
  OBVIOUS
<1>2. page.evidenceId \in Ids
  BY DEF LiveInv, Typed, Page, TamperDb
<1>3. t \in TaskSet /\ Fits(t, backend.events)
  BY <1>1, <1>2 DEF LiveInv, Typed, Page, Task, TaskSet, Awaits, Fits, ActJobs
<1> QED
  BY <1>1, <1>3, PressFits DEF TamperDb

LEMMA CheckReadingsKeeps ==
  ASSUME LiveInv, CheckReadings
  PROVE  GoodStep
<1>1. PICK t : t = IF page.evidenceId # Nothing
                   THEN Task("verify", "verify", page.batchId, page.evidenceId)
                   ELSE Task("verify", "list", page.batchId, Nothing)
  OBVIOUS
<1>2. page.evidenceId # Nothing => page.evidenceId \in Ids
  BY DEF LiveInv, Typed, Page
<1>3. t \in TaskSet /\ Fits(t, backend.events)
  BY <1>1, <1>2 DEF LiveInv, Typed, Page, Task, TaskSet, Awaits, Fits, ActJobs
<1> QED
  BY <1>1, <1>3, PressFits DEF CheckReadings

\* The page changes, the ledger does not.
LEMMA PageOnly ==
  ASSUME LiveInv, page' \in Page, tasks' \in [Slots -> TaskSet], backend' = backend,
         \A s \in Slots : tasks'[s] = tasks[s] \/ Fits(tasks'[s], backend.events),
         EffectFollows \/ UNCHANGED <<effectVars, Covered>>,
         page'.liveHash = page.liveHash, Shows
  PROVE  GoodStep
<1>1. Typed'
  <2>1. Covered \in BatchIds \X Tables
    BY DEF LiveInv, Typed, Page, Covered
  <2> QED
    BY <2>1 DEF LiveInv, Typed, EffectFollows, effectVars
<1>2. Grows
  BY DEF LiveInv, Typed, Backend, Grows
<1>3. Follows
  <2>1. CASE Covered' = Covered
    <3>1. page'.batchId = page.batchId /\ page'.rows = page.rows
      BY <2>1 DEF Covered
    <3> QED
      BY <2>1, <3>1 DEF EffectFollows, effectVars, Follows
  <2>2. CASE Covered' # Covered
    BY <2>2 DEF EffectFollows, Follows
  <2> QED
    BY <2>1, <2>2
<1> QED
  BY <1>1, <1>2, <1>3 DEF GoodStep

\* The table changes, the feed does not.
LEMMA TableOnly ==
  ASSUME LiveInv, page' \in Page, tasks' \in [Slots -> TaskSet], backend' = backend,
         \A s \in Slots : tasks'[s] = tasks[s] \/ Fits(tasks'[s], backend.events),
         EffectFollows,
         page'.liveHash = page.liveHash, page'.anchors = page.anchors,
         page'.batch = page.batch, page'.history = page.history
  PROVE  GoodStep
<1>1. Shows
  BY DEF Shows
<1> QED
  BY <1>1, PageOnly

LEMMA LoadPresetKeeps ==
  ASSUME LiveInv, NEW id \in {"compliant", "warm"}, LoadPreset(id)
  PROVE  GoodStep
<1>1. page \in Page /\ PresetRows(id) \in Tables
  BY DEF LiveInv, Typed, PresetRows, Tables
<1>2. page' = [page EXCEPT !.preset = id, !.rows = PresetRows(id), !.signedRows = PresetRows(id)]
  BY DEF LoadPreset, Loaded
<1>3. /\ page' \in Page
      /\ page'.liveHash = page.liveHash /\ page'.anchors = page.anchors
      /\ page'.batch = page.batch /\ page'.history = page.history
  BY <1>1, <1>2 DEF Page
<1> QED
  BY <1>3, TableOnly DEF LoadPreset, LiveInv, Typed

LEMMA TypeReadingKeeps ==
  ASSUME LiveInv, TypeReading
  PROVE  GoodStep
<1>1. page \in Page /\ EditedRows \in Tables
  BY DEF LiveInv, Typed, Tables
<1>2. /\ page' \in Page
      /\ page'.liveHash = page.liveHash /\ page'.anchors = page.anchors
      /\ page'.batch = page.batch /\ page'.history = page.history
  BY <1>1 DEF TypeReading, Page
<1> QED
  BY <1>2, TableOnly DEF TypeReading, LiveInv, Typed

LEMMA WriteThroughKeeps ==
  ASSUME LiveInv, NEW table \in Tables, WriteThrough(table)
  PROVE  /\ tasks' \in [Slots -> TaskSet]
         /\ \A s \in Slots : tasks'[s] = tasks[s] \/ Fits(tasks'[s], backend.events)
<1>1. PICK t : t = Task("write", "write", page.evidenceId, table)
  OBVIOUS
<1>2. CASE page.evidenceId = Nothing
  BY <1>2 DEF WriteThrough, LiveInv, Typed
<1>3. CASE page.evidenceId # Nothing
  <2>1. page.evidenceId \in Ids
    BY <1>3 DEF LiveInv, Typed, Page
  <2>2. t \in TaskSet /\ Fits(t, backend.events)
    BY <1>1, <2>1 DEF Task, TaskSet, Awaits, Fits, ActJobs
  <2>3. Starts(t)
    BY <1>1, <1>3 DEF WriteThrough
  <2>4. /\ tasks' \in [Slots -> TaskSet]
        /\ \A s \in Slots : tasks'[s] = tasks[s] \/ tasks'[s] = t
    BY <2>2, <2>3, TaskStarts DEF LiveInv
  <2> QED
    BY <2>2, <2>4
<1> QED
  BY <1>2, <1>3

LEMMA BlurKeeps ==
  ASSUME LiveInv, Blur
  PROVE  GoodStep
<1>1. page.rows \in Tables
  BY DEF LiveInv, Typed, Page
<1> QED
  BY <1>1, WriteThroughKeeps, TasksOnly DEF Blur

LEMMA RestoreSensorDataKeeps ==
  ASSUME LiveInv, RestoreSensorData
  PROVE  GoodStep
<1>1. PICK table \in Tables : table = PresetRows(page.preset)
  BY DEF PresetRows, Tables
<1>2. /\ tasks' \in [Slots -> TaskSet]
      /\ \A s \in Slots : tasks'[s] = tasks[s] \/ Fits(tasks'[s], backend.events)
  BY <1>1, WriteThroughKeeps DEF RestoreSensorData
<1>3. page \in Page /\ page' = [page EXCEPT !.rows = table, !.signedRows = table]
  BY <1>1 DEF RestoreSensorData, Loaded, LiveInv, Typed
<1>4. /\ page' \in Page
      /\ page'.liveHash = page.liveHash /\ page'.anchors = page.anchors
      /\ page'.batch = page.batch /\ page'.history = page.history
  BY <1>3 DEF Page
<1> QED
  BY <1>2, <1>4, TableOnly DEF RestoreSensorData

LEMMA LoadEvidenceKeeps ==
  ASSUME LiveInv, LoadEvidence
  PROVE  GoodStep
<1>1. PICK t : t = Task("load", "list", page.batchId, Nothing)
  OBVIOUS
<1>2. t \in TaskSet /\ Fits(t, backend.events)
  BY <1>1 DEF LiveInv, Typed, Page, Task, TaskSet, Awaits, Fits, ActJobs
<1>3. /\ tasks' \in [Slots -> TaskSet]
      /\ \A s \in Slots : tasks'[s] = tasks[s] \/ tasks'[s] = t
  BY <1>1, <1>2, TaskStarts DEF LoadEvidence, LiveInv
<1>4. page \in Page
  BY DEF LiveInv, Typed
<1>5. /\ page' \in Page
      /\ page'.liveHash = page.liveHash /\ page'.anchors = page.anchors
      /\ page'.batch = page.batch /\ page'.history = page.history
      /\ page'.batchId = page.batchId /\ page'.rows = page.rows
  BY <1>4 DEF LoadEvidence, Page
<1>6. EffectFollows
  BY <1>5 DEF LoadEvidence, EffectFollows, Covered
<1> QED
  BY <1>2, <1>3, <1>5, <1>6, TableOnly DEF LoadEvidence

LEMMA NewBatchKeeps ==
  ASSUME LiveInv, NEW id \in BatchIds, NewBatch(id)
  PROVE  GoodStep
<1>1. PICK t : t = Task("open", "probe", id, Nothing)
  OBVIOUS
<1>2. t \in TaskSet /\ Fits(t, backend.events)
  BY <1>1 DEF LiveInv, Typed, Page, Task, TaskSet, Awaits, Fits, ActJobs
<1>3. /\ tasks' \in [Slots -> TaskSet]
      /\ \A s \in Slots : tasks'[s] = tasks[s] \/ tasks'[s] = t
  BY <1>1, <1>2, TaskStarts DEF NewBatch, LiveInv
<1>4. page \in Page /\ backend \in Backend /\ Covered \in BatchIds \X Tables
  BY DEF LiveInv, Typed, Page, Covered
<1>5. Opened(id) \in Page
  BY DEF Opened, Page, Tables
<1>6. /\ page' \in Page /\ page'.liveHash = page.liveHash /\ page'.anchors = {}
      /\ page'.batch = Nothing /\ page'.history = Nothing
  BY <1>4, <1>5 DEF NewBatch, Page, Opened
<1>7. /\ backend' \in Backend /\ backend'.events = backend.events
      /\ backend'.evidence = backend.evidence
  BY <1>4 DEF NewBatch, Backend
<1>8. Typed' /\ Follows
  <2>1. CASE Covered' = Covered
    <3>1. page'.batchId = page.batchId /\ page'.rows = page.rows
      BY <2>1 DEF Covered
    <3> QED
      BY <1>3, <1>6, <1>7, <2>1, <3>1 DEF NewBatch, EffectFollows, effectVars, Follows, Typed, LiveInv
  <2>2. CASE Covered' # Covered
    BY <1>3, <1>4, <1>6, <1>7, <2>2 DEF NewBatch, EffectFollows, Follows, Typed, LiveInv
  <2> QED
    BY <2>1, <2>2
<1>9. Shows /\ Grows
  BY <1>4, <1>6, <1>7 DEF Shows, Grows, Backend
<1> QED
  BY <1>2, <1>3, <1>7, <1>8, <1>9 DEF GoodStep

LEMMA HashTimerKeeps ==
  ASSUME LiveInv, HashTimer
  PROVE  GoodStep
<1>1. Typed' /\ Grows
  BY DEF HashTimer, LiveInv, Typed, Grows, Backend
<1> QED
  BY <1>1 DEF HashTimer, GoodStep, Shows, Follows

LEMMA HashAnswerKeeps ==
  ASSUME LiveInv, NEW by \in {"helper", "page"}, HashAnswer(by)
  PROVE  GoodStep
<1>1. PICK hash : hash = Hash(page.batchId, page.rows, by)
  OBVIOUS
<1>2. page \in Page /\ hash \in Ids /\ hash.batch = page.batchId /\ hash.table = page.rows
  BY <1>1 DEF LiveInv, Typed, Page, Hash, Ids
<1>3. page' = [page EXCEPT !.liveHash = hash]
  BY <1>1 DEF HashAnswer
<1>4. /\ page' \in Page /\ page'.liveHash = hash /\ page'.batchId = page.batchId
      /\ page'.rows = page.rows /\ page'.anchors = page.anchors
      /\ page'.batch = page.batch /\ page'.history = page.history
  BY <1>2, <1>3 DEF Page
<1>5. Typed' /\ Grows
  BY <1>4 DEF HashAnswer, LiveInv, Typed, Grows, Backend
<1>6. Follows
  BY <1>2, <1>4 DEF Follows
<1> QED
  BY <1>4, <1>5, <1>6 DEF HashAnswer, GoodStep, Shows

LEMMA OutdatedAnswerKeeps ==
  ASSUME LiveInv, NEW asked \in outdated, OutdatedAnswer(asked)
  PROVE  GoodStep
<1>1. Typed' /\ Grows
  BY DEF OutdatedAnswer, LiveInv, Typed, Grows, Backend
<1> QED
  BY <1>1 DEF OutdatedAnswer, GoodStep, Shows, Follows

LEMMA ResetLandsKeeps ==
  ASSUME LiveInv, ResetLands
  PROVE  GoodStep
<1>1. backend \in Backend
  BY DEF LiveInv, Typed
<1>2. /\ backend' \in Backend /\ backend'.events = backend.events
      /\ backend'.evidence = backend.evidence
  BY <1>1 DEF ResetLands, Backend
<1>3. Typed' /\ Grows
  BY <1>1, <1>2 DEF ResetLands, LiveInv, Typed, Grows, Backend, effectVars
<1> QED
  BY <1>3 DEF ResetLands, GoodStep, Shows, Follows, effectVars

\* A task is through, or goes on to another request of the same kind.
LEMMA GoneFits ==
  ASSUME LiveInv, NEW s \in Slots, tasks[s].at \notin {"free", "write"},
         NEW at \in {"batch", "history", "listed", "readings", "verify", "next"}, Goes(s, at),
         at = "history" => backend'.events[tasks[s].id] > 0,
         at \in {"readings", "verify"} => tasks[s].arg \in Ids,
         at = "next" => tasks[s].job = "registerAll"
  PROVE  /\ tasks' \in [Slots -> TaskSet]
         /\ \A z \in Slots : tasks'[z] = tasks[z] \/ Fits(tasks'[z], backend'.events)
<1>1. /\ tasks' \in [Slots -> TaskSet]
      /\ \A z \in Slots \ {s} : tasks'[z] = tasks[z]
      /\ tasks'[s].at = at /\ tasks'[s].job = tasks[s].job /\ tasks'[s].id = tasks[s].id
      /\ tasks'[s].arg = tasks[s].arg /\ tasks'[s].listed = tasks[s].listed
  BY TaskGoes DEF LiveInv, Awaits
<1>2. Fits(tasks[s], backend.events)
  BY DEF LiveInv, TasksFit
<1>3. Fits(tasks'[s], backend'.events)
  <2>1. PICK t : t = tasks'[s]
    OBVIOUS
  <2>2. PICK u : u = tasks[s]
    OBVIOUS
  <2>3. PICK old : old = backend.events
    OBVIOUS
  <2>4. PICK new : new = backend'.events
    OBVIOUS
  <2>5. Fits(u, old)
    BY <1>2, <2>2, <2>3
  <2>6. Fits(t, new)
    BY <1>1, <2>1, <2>2, <2>4, <2>5 DEF Fits
  <2> QED
    BY <2>1, <2>4, <2>6
<1> QED
  BY <1>1, <1>3

LEMMA EndedFits ==
  ASSUME LiveInv, NEW s \in Slots, Ends(s)
  PROVE  /\ tasks' \in [Slots -> TaskSet]
         /\ \A z \in Slots : tasks'[z] = tasks[z] \/ Fits(tasks'[z], backend'.events)
<1>1. PICK new : new = backend'.events
  OBVIOUS
<1>2. Fits(Free, new)
  BY FreeFits
<1> QED
  BY <1>1, <1>2, TaskEnds DEF LiveInv

\* The feed is loaded, the table stays.
LEMMA FeedOnly ==
  ASSUME LiveInv, page' \in Page, tasks' \in [Slots -> TaskSet],
         UNCHANGED <<backend, effectVars>>,
         \A s \in Slots : tasks'[s] = tasks[s] \/ Fits(tasks'[s], backend'.events),
         page'.liveHash = page.liveHash, page'.batchId = page.batchId, page'.rows = page.rows,
         Shows
  PROVE  GoodStep
<1>1. UNCHANGED <<effectVars, Covered>>
  BY DEF Covered
<1> QED
  BY <1>1, PageOnly

LEMMA ProbeKeeps ==
  ASSUME LiveInv, NEW s \in Slots, Probe(s)
  PROVE  GoodStep
<1>1. /\ tasks' \in [Slots -> TaskSet]
      /\ \A z \in Slots : tasks'[z] = tasks[z] \/ Fits(tasks'[z], backend'.events)
  <2>1. tasks[s].at = "probe" /\ Goes(s, "batch")
    BY DEF Probe, At
  <2> QED
    BY <2>1, GoneFits
<1>2. page \in Page /\ backend \in Backend
  BY DEF LiveInv, Typed
<1>3. CASE UNCHANGED page
  BY <1>1, <1>3, TasksOnly DEF Probe
<1>4. CASE \E found \in SUBSET backend.registry : page' = [page EXCEPT !.registered = found]
  <2>1. /\ page' \in Page /\ page'.liveHash = page.liveHash /\ page'.batchId = page.batchId
        /\ page'.rows = page.rows /\ page'.anchors = page.anchors
        /\ page'.batch = page.batch /\ page'.history = page.history
    BY <1>2, <1>4 DEF Page, Backend
  <2>2. Shows
    BY <2>1 DEF Shows
  <2> QED
    BY <1>1, <2>1, <2>2, FeedOnly DEF Probe
<1> QED
  BY <1>3, <1>4 DEF Probe

LEMMA LatestShown ==
  ASSUME backend \in Backend, NEW id \in BatchIds
  PROVE  Latest(id) \in Shown /\ Latest(id).id = id /\ Latest(id).event = backend.events[id]
<1>1. PICK n \in Nat : n = backend.events[id]
  BY DEF Backend
<1>2. Latest(id) = [id |-> id, event |-> n]
  BY <1>1 DEF Latest
<1> QED
  BY <1>1, <1>2 DEF Shown

LEMMA RefreshBatchKeeps ==
  ASSUME LiveInv, NEW s \in Slots, RefreshBatch(s)
  PROVE  GoodStep
<1>1. page \in Page /\ backend \in Backend /\ tasks[s].id \in BatchIds /\ tasks[s].at = "batch"
  BY DEF LiveInv, Typed, TasksFit, Fits, RefreshBatch, At
<1>2. PICK id \in BatchIds : id = tasks[s].id
  BY <1>1
<1>3. CASE /\ backend.events[id] > 0
           /\ page' = [page EXCEPT !.batch = Latest(id)] /\ Goes(s, "history")
  <2>1. /\ tasks' \in [Slots -> TaskSet]
        /\ \A z \in Slots : tasks'[z] = tasks[z] \/ Fits(tasks'[z], backend'.events)
    <3>1. backend'.events[tasks[s].id] > 0
      BY <1>2, <1>3 DEF RefreshBatch
    <3> QED
      BY <1>1, <1>3, <3>1, GoneFits
  <2>2. PICK latest \in Shown : latest = Latest(id) /\ latest.id = id /\ latest.event = backend.events[id]
    BY <1>1, LatestShown
  <2>3. page' = [page EXCEPT !.batch = latest]
    BY <1>3, <2>2
  <2>4. /\ page' \in Page /\ page'.liveHash = page.liveHash /\ page'.batchId = page.batchId
        /\ page'.rows = page.rows /\ page'.anchors = page.anchors
        /\ page'.batch = latest /\ page'.history = page.history
    BY <1>1, <2>3 DEF Page
  <2>5. backend' = backend
    BY DEF RefreshBatch
  <2>6. latest.event <= backend'.events[latest.id]
    BY <1>1, <2>2, <2>5 DEF Backend
  <2>7. Shows
    BY <2>4, <2>6 DEF Shows
  <2> QED
    BY <2>1, <2>4, <2>7, FeedOnly DEF RefreshBatch
<1>4. CASE page' = [page EXCEPT !.batch = Nothing, !.history = Nothing] /\ Goes(s, "listed")
  <2>1. /\ tasks' \in [Slots -> TaskSet]
        /\ \A z \in Slots : tasks'[z] = tasks[z] \/ Fits(tasks'[z], backend'.events)
    BY <1>1, <1>4, GoneFits
  <2>2. /\ page' \in Page /\ page'.liveHash = page.liveHash /\ page'.batchId = page.batchId
        /\ page'.rows = page.rows /\ page'.anchors = page.anchors
        /\ page'.batch = Nothing /\ page'.history = Nothing
    BY <1>1, <1>4 DEF Page
  <2>3. Shows
    BY <2>2 DEF Shows
  <2> QED
    BY <2>1, <2>2, <2>3, FeedOnly DEF RefreshBatch
<1> QED
  BY <1>2, <1>3, <1>4 DEF RefreshBatch

LEMMA RefreshHistoryKeeps ==
  ASSUME LiveInv, NEW s \in Slots, RefreshHistory(s)
  PROVE  GoodStep
<1>1. /\ page \in Page /\ backend \in Backend /\ tasks[s].id \in BatchIds
      /\ tasks[s].at = "history" /\ backend.events[tasks[s].id] > 0
  BY DEF LiveInv, Typed, TasksFit, Fits, RefreshHistory, At
<1>2. PICK id \in BatchIds : id = tasks[s].id
  BY <1>1
<1>3. /\ tasks' \in [Slots -> TaskSet]
      /\ \A z \in Slots : tasks'[z] = tasks[z] \/ Fits(tasks'[z], backend'.events)
  <2>1. Goes(s, "listed")
    BY DEF RefreshHistory
  <2> QED
    BY <1>1, <2>1, GoneFits
<1>4. PICK latest \in Shown : latest = Latest(id) /\ latest.id = id /\ latest.event = backend.events[id]
  BY <1>1, LatestShown
<1>5. PICK found \in {latest, Nothing} : page' = [page EXCEPT !.history = found]
  BY <1>2, <1>4 DEF RefreshHistory
<1>6. /\ page' \in Page /\ page'.liveHash = page.liveHash /\ page'.batchId = page.batchId
      /\ page'.rows = page.rows /\ page'.anchors = page.anchors
      /\ page'.batch = page.batch /\ page'.history = found
  BY <1>1, <1>4, <1>5 DEF Page
<1>7. backend' = backend
  BY DEF RefreshHistory
<1>8. latest.event <= backend'.events[latest.id] /\ latest.event > 0
  BY <1>1, <1>2, <1>4, <1>7 DEF Backend
<1>9. Shows
  BY <1>5, <1>6, <1>8 DEF Shows
<1> QED
  BY <1>3, <1>6, <1>9, FeedOnly DEF RefreshHistory

LEMMA RefreshListedKeeps ==
  ASSUME LiveInv, NEW s \in Slots, RefreshListed(s)
  PROVE  GoodStep
<1>1. tasks[s] \in TaskSet /\ tasks[s].at = "listed" /\ Fits(tasks[s], backend.events)
  BY DEF LiveInv, Typed, TasksFit, RefreshListed, At
<1>2. PICK found \in SUBSET Ids :
        tasks' = [tasks EXCEPT ![s].at = "records", ![s].listed = found]
  BY DEF RefreshListed, Listed
<1>3. PICK old : old = tasks[s]
  OBVIOUS
<1>4. PICK new : new = [old EXCEPT !.at = "records", !.listed = found]
  OBVIOUS
<1>5. /\ new \in TaskSet /\ new.at = "records" /\ new.job = old.job /\ new.id = old.id
      /\ new.arg = old.arg
  BY <1>1, <1>3, <1>4 DEF TaskSet, Awaits
<1>6. tasks' = [tasks EXCEPT ![s] = new]
  BY <1>2, <1>3, <1>4
<1>7. Fits(new, backend.events)
  BY <1>1, <1>3, <1>5 DEF Fits
<1>8. /\ tasks' \in [Slots -> TaskSet]
      /\ \A z \in Slots : tasks'[z] = tasks[z] \/ tasks'[z] = new
  BY <1>5, <1>6 DEF LiveInv, Typed
<1> QED
  BY <1>7, <1>8, TasksOnly DEF RefreshListed

LEMMA RefreshRecordsKeeps ==
  ASSUME LiveInv, NEW s \in Slots, RefreshRecords(s)
  PROVE  GoodStep
<1>1. /\ page \in Page /\ backend \in Backend /\ tasks[s] \in TaskSet /\ tasks[s].at = "records"
      /\ Fits(tasks[s], backend.events)
  BY DEF LiveInv, Typed, TasksFit, RefreshRecords, At
<1>2. /\ tasks' \in [Slots -> TaskSet]
      /\ \A z \in Slots : tasks'[z] = tasks[z] \/ Fits(tasks'[z], backend'.events)
  BY <1>1, GoneFits, EndedFits DEF RefreshRecords
<1>3. PICK task : task = tasks[s]
  OBVIOUS
<1>4. /\ task.job = "direct" => task.arg \in Ids
      /\ task.job = "register" => task.arg \in Joiners
  BY <1>1, <1>3 DEF Fits
<1>5. PICK found \in SUBSET backend.evidence :
        page' = [page EXCEPT
          !.anchors = found,
          !.verify = IF task.job \in {"create", "step", "direct"} THEN Nothing ELSE @,
          !.evidenceId = IF task.job = "direct" THEN task.arg ELSE @,
          !.registered = IF task.job = "register" THEN @ \cup {task.arg} ELSE @,
          !.regEvents = IF task.job = "register" THEN @ \cup {task.arg} ELSE @]
  BY <1>3 DEF RefreshRecords, OnLedger
<1>6. /\ page' \in Page /\ page'.liveHash = page.liveHash /\ page'.batchId = page.batchId
      /\ page'.rows = page.rows /\ page'.anchors = found
      /\ page'.batch = page.batch /\ page'.history = page.history
  BY <1>1, <1>4, <1>5 DEF Page, Backend
<1>7. Shows
  BY <1>6 DEF Shows, RefreshRecords
<1> QED
  BY <1>2, <1>6, <1>7, FeedOnly DEF RefreshRecords

\* The ledger or the database changes, the page does not.
LEMMA LedgerOnly ==
  ASSUME LiveInv, backend' \in Backend, Grows, tasks' \in [Slots -> TaskSet],
         UNCHANGED <<page, effectVars>>,
         \A s \in Slots : tasks'[s] = tasks[s] \/ Fits(tasks'[s], backend'.events)
  PROVE  GoodStep
<1>1. Typed'
  BY DEF LiveInv, Typed, effectVars
<1>2. Shows /\ Follows
  BY DEF Shows, Follows, effectVars
<1> QED
  BY <1>1, <1>2 DEF GoodStep

LEMMA ActAnswerKeeps ==
  ASSUME LiveInv, NEW s \in Slots, ActAnswer(s)
  PROVE  GoodStep
<1>1. /\ backend \in Backend /\ tasks[s].id \in BatchIds /\ tasks[s].at = "post"
  BY DEF LiveInv, Typed, TasksFit, Fits, ActAnswer, At
<1>2. /\ tasks' \in [Slots -> TaskSet]
      /\ \A z \in Slots : tasks'[z] = tasks[z] \/ Fits(tasks'[z], backend'.events)
  BY <1>1, GoneFits, EndedFits DEF ActAnswer
<1>3. CASE UNCHANGED backend
  BY <1>2, <1>3, TasksOnly DEF ActAnswer
<1>4. CASE ~UNCHANGED backend
  <2>1. PICK id \in BatchIds : id = tasks[s].id
    BY <1>1
  <2>2. backend' = [backend EXCEPT !.events[id] = backend.events[id] + 1]
    BY <1>4, <2>1 DEF ActAnswer
  <2>3. backend' \in Backend /\ Grows
    BY <1>1, <2>2 DEF Backend, Grows
  <2> QED
    BY <1>2, <2>3, LedgerOnly DEF ActAnswer
<1> QED
  BY <1>3, <1>4

LEMMA RegistryGrows ==
  ASSUME backend \in Backend, NEW who \in Joiners,
         backend' = [backend EXCEPT !.registry = @ \cup {who}]
  PROVE  backend' \in Backend /\ Grows
BY DEF Backend, Grows

LEMMA RegisterAnswerKeeps ==
  ASSUME LiveInv, NEW s \in Slots, RegisterAnswer(s)
  PROVE  GoodStep
<1>1. backend \in Backend /\ tasks[s].arg \in Joiners /\ tasks[s].at = "post"
  BY DEF LiveInv, Typed, TasksFit, Fits, RegisterAnswer, At
<1>2. /\ tasks' \in [Slots -> TaskSet]
      /\ \A z \in Slots : tasks'[z] = tasks[z] \/ Fits(tasks'[z], backend'.events)
  BY <1>1, GoneFits, EndedFits DEF RegisterAnswer
<1>3. CASE UNCHANGED backend
  BY <1>2, <1>3, TasksOnly DEF RegisterAnswer
<1>4. CASE ~UNCHANGED backend
  BY <1>1, <1>2, <1>4, RegistryGrows, LedgerOnly DEF RegisterAnswer
<1> QED
  BY <1>3, <1>4

LEMMA RegisterNextKeeps ==
  ASSUME LiveInv, NEW s \in Slots, RegisterNext(s)
  PROVE  GoodStep
<1>1. /\ backend \in Backend /\ tasks[s] \in TaskSet /\ tasks[s].at = "next"
      /\ Fits(tasks[s], backend.events)
  BY DEF LiveInv, Typed, TasksFit, RegisterNext, At
<1>2. PICK old : old = tasks[s]
  OBVIOUS
<1>3. old.job = "registerAll" /\ old.arg \in Seq(Joiners) /\ old.id \in BatchIds
  BY <1>1, <1>2 DEF Fits
<1>4. /\ Tail(old.arg) \in Seq(Joiners) /\ Head(old.arg) \in Joiners
  BY <1>2, <1>3 DEF RegisterNext
<1>5. PICK new : /\ tasks' = [tasks EXCEPT ![s] = new]
                 /\ \/ \E at \in {"batch", "next"} : new = [old EXCEPT !.at = at, !.arg = Tail(old.arg)]
                    \/ new = [old EXCEPT !.arg = Tail(old.arg)]
  <2>1. CASE tasks' = [tasks EXCEPT ![s].arg = Tail(old.arg)]
    BY <1>2, <2>1
  <2>2. CASE \E at \in {"batch", "next"} :
               tasks' = [tasks EXCEPT ![s].at = at, ![s].arg = Tail(old.arg)]
    <3>1. PICK at \in {"batch", "next"} :
            tasks' = [tasks EXCEPT ![s].at = at, ![s].arg = Tail(old.arg)]
      BY <2>2
    <3>2. PICK u : u = [old EXCEPT !.at = at, !.arg = Tail(old.arg)]
      OBVIOUS
    <3>3. tasks' = [tasks EXCEPT ![s] = u]
      BY <1>2, <3>1, <3>2
    <3> QED
      BY <3>2, <3>3
  <2> QED
    BY <1>2, <2>1, <2>2 DEF RegisterNext
<1>6. old \in TaskSet /\ old.at = "next"
  BY <1>1, <1>2
<1>7. /\ new \in TaskSet /\ new.at \in {"batch", "next"} /\ new.job = old.job /\ new.id = old.id
      /\ new.arg \in Seq(Joiners)
  BY <1>4, <1>5, <1>6 DEF TaskSet, Awaits
<1>8. tasks' = [tasks EXCEPT ![s] = new]
  BY <1>5
<1>9. PICK events : events = backend'.events
  OBVIOUS
<1>10. Fits(new, events)
  BY <1>3, <1>7 DEF Fits
<1>11. /\ tasks' \in [Slots -> TaskSet]
       /\ \A z \in Slots : tasks'[z] = tasks[z] \/ Fits(tasks'[z], backend'.events)
  BY <1>7, <1>8, <1>9, <1>10 DEF LiveInv, Typed
<1>12. CASE UNCHANGED backend
  BY <1>11, <1>12, TasksOnly DEF RegisterNext
<1>13. CASE ~UNCHANGED backend
  <2>1. backend' = [backend EXCEPT !.registry = @ \cup {Head(old.arg)}]
    BY <1>2, <1>13 DEF RegisterNext
  <2>2. backend' \in Backend /\ Grows
    BY <1>1, <1>4, <2>1, RegistryGrows
  <2> QED
    BY <1>11, <2>2, LedgerOnly DEF RegisterNext
<1> QED
  BY <1>12, <1>13

LEMMA RegisteredAllKeeps ==
  ASSUME LiveInv, NEW s \in Slots, RegisteredAll(s)
  PROVE  GoodStep
<1>1. page \in Page
  BY DEF LiveInv, Typed
<1>2. /\ page' \in Page /\ page'.liveHash = page.liveHash /\ page'.batchId = page.batchId
      /\ page'.rows = page.rows /\ page'.anchors = page.anchors
      /\ page'.batch = page.batch /\ page'.history = page.history
  BY <1>1 DEF RegisteredAll, Page
<1>3. Shows
  BY <1>2 DEF Shows
<1> QED
  BY <1>2, <1>3, EndedFits, FeedOnly DEF RegisteredAll

LEMMA WrittenKeeps ==
  ASSUME LiveInv, NEW s \in Slots, Written(s)
  PROVE  GoodStep
<1>1. backend \in Backend /\ tasks[s].id \in Ids /\ tasks[s].arg \in Tables
  BY DEF LiveInv, Typed, TasksFit, Fits, Written, At
<1>2. backend' \in Backend /\ Grows
  <2>1. CASE UNCHANGED backend
    BY <1>1, <2>1 DEF Backend, Grows
  <2>2. CASE backend' = [backend EXCEPT !.database[tasks[s].id] = tasks[s].arg]
    BY <1>1, <2>2 DEF Backend, Grows
  <2> QED
    BY <2>1, <2>2 DEF Written
<1> QED
  BY <1>2, EndedFits, LedgerOnly DEF Written

\* The demo server only adds to the ledger.
LEMMA RunGrows ==
  ASSUME backend \in Backend, NEW task, task.id \in BatchIds, task.arg \in Request,
         backend' = AnchoredRun(task) \/ backend' \in BrokenOffRun(task)
  PROVE  backend' \in Backend /\ Grows /\ RunId(task) \in Ids
<1>1. PICK table \in Tables : table = task.arg.table
  BY DEF Request
<1>2. PICK id \in Ids : id = RunId(task)
  BY <1>1 DEF RunId, Hash, Ids
<1>3. PICK stored \in Backend : stored = [backend EXCEPT !.database[id] = table]
  BY DEF Backend
<1>4. stored.events = backend.events /\ stored.evidence = backend.evidence
  BY <1>3 DEF Backend
<1>5. StoredRun(task) = stored /\ AnchoredRun(task) = [stored EXCEPT !.evidence = @ \cup {id}]
  BY <1>1, <1>2, <1>3 DEF StoredRun, AnchoredRun
<1>6. CASE backend' = [stored EXCEPT !.evidence = @ \cup {id}]
  BY <1>2, <1>4, <1>6 DEF Backend, Grows
<1>7. CASE backend' \in {stored, backend}
  BY <1>2, <1>4, <1>7 DEF Backend, Grows
<1> QED
  BY <1>2, <1>5, <1>6, <1>7 DEF BrokenOffRun

LEMMA RunAnswerKeeps ==
  ASSUME LiveInv, NEW s \in Slots, RunAnswer(s)
  PROVE  GoodStep
<1>1. /\ backend \in Backend /\ page \in Page /\ tasks[s].at = "run"
      /\ tasks[s].id \in BatchIds /\ tasks[s].arg \in Request
  BY DEF LiveInv, Typed, TasksFit, Fits, RunAnswer, At
<1>2. /\ tasks' \in [Slots -> TaskSet]
      /\ \A z \in Slots : tasks'[z] = tasks[z] \/ Fits(tasks'[z], backend'.events)
  BY <1>1, GoneFits, EndedFits DEF RunAnswer
<1>3. backend' \in Backend /\ Grows /\ RunId(tasks[s]) \in Ids
  BY <1>1, RunGrows DEF RunAnswer
<1>4. CASE UNCHANGED page
  BY <1>2, <1>3, <1>4, LedgerOnly DEF RunAnswer
<1>5. CASE page' = [page EXCEPT !.evidenceId = RunId(tasks[s]), !.verify = Nothing]
  <2>1. /\ page' \in Page /\ page'.liveHash = page.liveHash /\ page'.batchId = page.batchId
        /\ page'.rows = page.rows /\ page'.anchors = page.anchors
        /\ page'.batch = page.batch /\ page'.history = page.history
    BY <1>1, <1>3, <1>5 DEF Page
  <2>2. Typed'
    BY <1>2, <1>3, <2>1 DEF LiveInv, Typed, RunAnswer, effectVars
  <2>3. Shows /\ Follows
    BY <2>1 DEF Shows, Follows, RunAnswer, effectVars
  <2> QED
    BY <1>2, <1>3, <2>2, <2>3 DEF GoodStep
<1> QED
  BY <1>4, <1>5 DEF RunAnswer

LEMMA RunUnansweredKeeps ==
  ASSUME LiveInv, NEW s \in Slots, RunUnanswered(s)
  PROVE  GoodStep
<1>1. backend \in Backend /\ tasks[s].id \in BatchIds /\ tasks[s].arg \in Request
  BY DEF LiveInv, Typed, TasksFit, Fits, RunUnanswered, At
<1>2. backend' \in Backend /\ Grows
  BY <1>1, RunGrows DEF RunUnanswered
<1>3. CASE Ends(s)
  BY <1>2, <1>3, EndedFits, LedgerOnly DEF RunUnanswered
<1>4. CASE ~Ends(s)
  <2>1. PICK t : t = Task("direct", "submit", tasks[s].id, tasks[s].arg.live)
    OBVIOUS
  <2>2. tasks' = [tasks EXCEPT ![s] = t] /\ tasks[s].arg.live # Nothing
    BY <1>4, <2>1 DEF RunUnanswered
  <2>3. tasks[s].arg.live \in Ids
    BY <1>1, <2>2 DEF Request
  <2>4. PICK events : events = backend'.events
    OBVIOUS
  <2>5. t \in TaskSet /\ Fits(t, events)
    BY <1>1, <2>1, <2>3 DEF Task, TaskSet, Awaits, Fits, ActJobs
  <2>6. /\ tasks' \in [Slots -> TaskSet]
        /\ \A z \in Slots : tasks'[z] = tasks[z] \/ tasks'[z] = t
    BY <2>2, <2>5 DEF LiveInv, Typed
  <2> QED
    BY <1>2, <2>4, <2>5, <2>6, LedgerOnly DEF RunUnanswered
<1> QED
  BY <1>3, <1>4

LEMMA DirectAnswerKeeps ==
  ASSUME LiveInv, NEW s \in Slots, DirectAnswer(s)
  PROVE  GoodStep
<1>1. backend \in Backend /\ tasks[s].arg \in Ids /\ tasks[s].at = "submit"
  BY DEF LiveInv, Typed, TasksFit, Fits, DirectAnswer, At
<1>2. /\ tasks' \in [Slots -> TaskSet]
      /\ \A z \in Slots : tasks'[z] = tasks[z] \/ Fits(tasks'[z], backend'.events)
  BY <1>1, GoneFits, EndedFits DEF DirectAnswer
<1>3. backend' \in Backend /\ Grows
  <2>1. CASE UNCHANGED backend
    BY <1>1, <2>1 DEF Backend, Grows
  <2>2. CASE backend' = [backend EXCEPT !.evidence = @ \cup {tasks[s].arg}]
    BY <1>1, <2>2 DEF Backend, Grows
  <2> QED
    BY <2>1, <2>2 DEF DirectAnswer
<1> QED
  BY <1>2, <1>3, LedgerOnly DEF DirectAnswer

LEMMA HiddenKeeps ==
  ASSUME LiveInv, NEW s \in Slots, Hidden(s)
  PROVE  GoodStep
<1>1. backend \in Backend /\ tasks[s].arg \in Ids /\ tasks[s].at = "hide"
  BY DEF LiveInv, Typed, TasksFit, Fits, Hidden, At
<1>2. /\ tasks' \in [Slots -> TaskSet]
      /\ \A z \in Slots : tasks'[z] = tasks[z] \/ Fits(tasks'[z], backend'.events)
  BY <1>1, GoneFits, EndedFits DEF Hidden
<1>3. backend' \in Backend /\ Grows
  <2>1. CASE UNCHANGED backend
    BY <1>1, <2>1 DEF Backend, Grows
  <2>2. CASE backend' = [backend EXCEPT !.database[tasks[s].arg] = HiddenRows]
    BY <1>1, <2>2 DEF Backend, Grows, Tables
  <2> QED
    BY <2>1, <2>2 DEF Hidden
<1> QED
  BY <1>2, <1>3, LedgerOnly DEF Hidden

LEMMA EvidenceListedKeeps ==
  ASSUME LiveInv, NEW s \in Slots, EvidenceListed(s)
  PROVE  GoodStep
<1>1. /\ page \in Page /\ backend \in Backend /\ tasks[s] \in TaskSet /\ tasks[s].at = "list"
      /\ Fits(tasks[s], backend.events)
  BY DEF LiveInv, Typed, TasksFit, EvidenceListed, At
<1>2. PICK e \in Ids \cup {Nothing} : page' = [page EXCEPT !.evidenceId = e]
  BY DEF EvidenceListed, Listed
<1>3. /\ page' \in Page /\ page'.liveHash = page.liveHash /\ page'.batchId = page.batchId
      /\ page'.rows = page.rows /\ page'.anchors = page.anchors
      /\ page'.batch = page.batch /\ page'.history = page.history
  BY <1>1, <1>2 DEF Page
<1>4. Shows
  BY <1>3 DEF Shows
<1>5. CASE Ends(s)
  BY <1>3, <1>4, <1>5, EndedFits, FeedOnly DEF EvidenceListed
<1>6. CASE ~Ends(s)
  <2>1. PICK id \in Ids : tasks' = [tasks EXCEPT ![s].at = "readings", ![s].arg = id]
    BY <1>6 DEF EvidenceListed, Listed
  <2>2. PICK old : old = tasks[s]
    OBVIOUS
  <2>3. PICK new : new = [old EXCEPT !.at = "readings", !.arg = id]
    OBVIOUS
  <2>4. /\ new \in TaskSet /\ new.at = "readings" /\ new.job = old.job /\ new.id = old.id
        /\ new.arg = id
    BY <1>1, <2>2, <2>3 DEF TaskSet, Awaits
  <2>5. tasks' = [tasks EXCEPT ![s] = new]
    BY <2>1, <2>2, <2>3
  <2>6. Fits(new, backend.events)
    BY <1>1, <2>2, <2>4 DEF Fits
  <2>7. /\ tasks' \in [Slots -> TaskSet]
        /\ \A z \in Slots : tasks'[z] = tasks[z] \/ tasks'[z] = new
    BY <2>4, <2>5 DEF LiveInv, Typed
  <2> QED
    BY <1>3, <1>4, <2>6, <2>7, FeedOnly DEF EvidenceListed
<1> QED
  BY <1>5, <1>6

LEMMA ReadingsLoadedKeeps ==
  ASSUME LiveInv, NEW s \in Slots, ReadingsLoaded(s)
  PROVE  GoodStep
<1>1. /\ page \in Page /\ backend \in Backend /\ tasks[s].arg \in Ids /\ tasks[s].at = "readings"
  BY DEF LiveInv, Typed, TasksFit, Fits, ReadingsLoaded, At
<1>2. /\ tasks' \in [Slots -> TaskSet]
      /\ \A z \in Slots : tasks'[z] = tasks[z] \/ Fits(tasks'[z], backend'.events)
  BY <1>1, GoneFits, EndedFits DEF ReadingsLoaded
<1>3. /\ page' \in Page
      /\ page'.liveHash = page.liveHash /\ page'.anchors = page.anchors
      /\ page'.batch = page.batch /\ page'.history = page.history
  <2>1. CASE UNCHANGED page
    BY <1>1, <2>1
  <2>2. CASE ~UNCHANGED page
    <3>1. PICK table : table = backend.database[tasks[s].arg]
      OBVIOUS
    <3>2. table \in Tables
      BY <1>1, <2>2, <3>1 DEF ReadingsLoaded, Backend
    <3>3. page' = [page EXCEPT !.rows = table, !.signedRows = table]
      BY <2>2, <3>1 DEF ReadingsLoaded, Loaded
    <3> QED
      BY <1>1, <3>2, <3>3 DEF Page
  <2> QED
    BY <2>1, <2>2
<1> QED
  BY <1>2, <1>3, TableOnly DEF ReadingsLoaded

LEMMA VerifiedKeeps ==
  ASSUME LiveInv, NEW s \in Slots, Verified(s)
  PROVE  GoodStep
<1>1. page \in Page /\ tasks[s].arg \in Ids
  BY DEF LiveInv, Typed, TasksFit, Fits, Verified, At
<1>2. CASE UNCHANGED page
  BY <1>2, EndedFits, TasksOnly DEF Verified
<1>3. CASE ~UNCHANGED page
  <2>1. PICK match \in BOOLEAN :
          page' = [page EXCEPT !.verify = [id |-> tasks[s].arg, match |-> match]]
    BY <1>3, Zenon DEF Verified
  <2>2. PICK verdict \in [id : Ids, match : BOOLEAN] : verdict = [id |-> tasks[s].arg, match |-> match]
    BY <1>1
  <2>3. /\ page' \in Page /\ page'.liveHash = page.liveHash /\ page'.batchId = page.batchId
        /\ page'.rows = page.rows /\ page'.anchors = page.anchors
        /\ page'.batch = page.batch /\ page'.history = page.history
    BY <1>1, <2>1, <2>2 DEF Page
  <2>4. Shows
    BY <2>3 DEF Shows
  <2> QED
    BY <2>3, <2>4, EndedFits, FeedOnly DEF Verified
<1> QED
  BY <1>2, <1>3

-----------------------------------------------------------------------------

LEMMA LiveStarts ==
  ASSUME LiveInit
  PROVE  LiveInv
<1>1. backend \in Backend
  <2>1. NewNetwork \in Backend
    BY DEF NewNetwork, Backend
  <2>2. UsedNetwork \in Backend
    <3>1. PICK anchored \in Ids : anchored = Hash(FirstBatch, UnsafeRows, "helper")
      BY FirstBatchAssumption DEF Hash, Ids, Tables
    <3>2. UsedNetwork =
            [events |-> [NewNetwork.events EXCEPT ![FirstBatch] = 1],
             evidence |-> {anchored}, registry |-> {"regulator"},
             database |-> [NewNetwork.database EXCEPT ![anchored] = UnsafeRows],
             resetAsked |-> FALSE]
      BY <3>1 DEF UsedNetwork
    <3>3. /\ [NewNetwork.events EXCEPT ![FirstBatch] = 1] \in [BatchIds -> Nat]
          /\ [NewNetwork.database EXCEPT ![anchored] = UnsafeRows] \in [Ids -> Tables \cup {Nothing}]
      BY <2>1, <3>1 DEF Backend, Tables
    <3> QED
      BY <3>1, <3>2, <3>3 DEF Backend, Joiners
  <2> QED
    BY <2>1, <2>2 DEF LiveInit
<1>2. /\ page \in Page /\ page.anchors = {} /\ page.batch = Nothing /\ page.history = Nothing
  BY FirstBatchAssumption DEF LiveInit, Opened, Page, Tables
<1>3. /\ tasks \in [Slots -> TaskSet]
      /\ \A s \in Slots : Fits(tasks[s], backend.events)
  <2>1. PICK t : t = Task("open", "probe", FirstBatch, Nothing)
    OBVIOUS
  <2>2. t \in TaskSet /\ Fits(t, backend.events)
    BY <2>1, FirstBatchAssumption DEF Task, TaskSet, Awaits, Fits, ActJobs
  <2>3. PICK slot \in Slots : tasks = [s \in Slots |-> IF s = slot THEN t ELSE Free]
    BY <2>1 DEF LiveInit
  <2>4. Free \in TaskSet /\ Fits(Free, backend.events)
    BY FreeFits
  <2> QED
    BY <2>2, <2>3, <2>4
<1>4. Typed
  BY <1>1, <1>2, <1>3 DEF Typed, LiveInit
<1>5. FeedOnLedger
  BY <1>2 DEF FeedOnLedger
<1>6. FingerprintFollowsTable
  BY DEF LiveInit, FingerprintFollowsTable
<1> QED
  BY <1>3, <1>4, <1>5, <1>6 DEF LiveInv, TasksFit

LEMMA PressingKeeps ==
  ASSUME LiveInv, Pressing
  PROVE  GoodStep
BY ActKeeps, RefreshKeeps, RegisterOneKeeps, RegisterEveryoneKeeps, LoadPresetKeeps,
   TypeReadingKeeps, BlurKeeps, RestoreSensorDataKeeps, AnchorKeeps, TamperDbKeeps,
   LoadEvidenceKeeps, CheckReadingsKeeps, NewBatchKeeps DEF Pressing

LEMMA AnswersKeep ==
  ASSUME LiveInv, Answers
  PROVE  GoodStep
<1>1. CASE \E s \in Slots :
        \/ Probe(s) \/ RefreshBatch(s) \/ RefreshHistory(s) \/ RefreshListed(s) \/ RefreshRecords(s)
        \/ ActAnswer(s) \/ RegisterAnswer(s) \/ RegisterNext(s) \/ RegisteredAll(s)
        \/ Written(s) \/ RunAnswer(s) \/ RunUnanswered(s) \/ DirectAnswer(s)
        \/ Hidden(s) \/ EvidenceListed(s) \/ ReadingsLoaded(s) \/ Verified(s)
  BY <1>1, ProbeKeeps, RefreshBatchKeeps, RefreshHistoryKeeps, RefreshListedKeeps,
     RefreshRecordsKeeps, ActAnswerKeeps, RegisterAnswerKeeps, RegisterNextKeeps,
     RegisteredAllKeeps, WrittenKeeps, RunAnswerKeeps, RunUnansweredKeeps, DirectAnswerKeeps,
     HiddenKeeps, EvidenceListedKeeps, ReadingsLoadedKeeps, VerifiedKeeps
<1>2. CASE HashTimer \/ ResetLands
  BY <1>2, HashTimerKeeps, ResetLandsKeeps
<1>3. CASE \E by \in {"helper", "page"} : HashAnswer(by)
  BY <1>3, HashAnswerKeeps
<1>4. CASE \E asked \in outdated : OutdatedAnswer(asked)
  BY <1>4, OutdatedAnswerKeeps
<1> QED
  BY <1>1, <1>2, <1>3, <1>4, Zenon DEF Answers

LEMMA LiveStepKeeps ==
  ASSUME LiveInv, LiveNext \/ UNCHANGED liveVars
  PROVE  LiveInv'
<1>1. CASE LiveNext
  BY <1>1, PressingKeeps, AnswersKeep, GoodStepKeeps DEF LiveNext
<1>2. CASE UNCHANGED liveVars
  <2>1. Typed' /\ FingerprintFollowsTable'
    BY <1>2 DEF liveVars, LiveInv, Typed, FingerprintFollowsTable
  <2>2. FeedOnLedger'
    BY <1>2 DEF liveVars, LiveInv, FeedOnLedger
  <2>3. TasksFit'
    BY <1>2 DEF liveVars, LiveInv, TasksFit
  <2> QED
    BY <2>1, <2>2, <2>3 DEF LiveInv
<1> QED
  BY <1>1, <1>2

LEMMA LiveInvGives ==
  ASSUME LiveInv
  PROVE  LiveTypeOK
BY DEF LiveInv, Typed, TasksFit, Fits, Page, LiveTypeOK, Idle

-----------------------------------------------------------------------------
(* Both.                                                                   *)

ConsoleInv == SimInv /\ LiveInv

LEMMA BothStart ==
  ASSUME Init
  PROVE  ConsoleInv
<1>1. clicks \in [Kinds -> Nat]
  BY ClicksAssumption DEF Init, SimInit
<1> QED
  BY <1>1, SimStarts, LiveStarts DEF Init, SimInit, ConsoleInv

LEMMA StepKeeps ==
  ASSUME ConsoleInv, [Next]_vars
  PROVE  ConsoleInv'
<1>1. SimNext \/ UNCHANGED simVars
  BY DEF Next, vars
<1>2. LiveNext \/ UNCHANGED liveVars
  BY DEF Next, vars
<1> QED
  BY <1>1, <1>2, SimStepKeeps, LiveStepKeeps DEF ConsoleInv

\* The inductive invariant of both modes: the simulated chain is linked and
\* tells the state, every live task holds what it read when its button was
\* pressed, and what the page shows of the ledger was there.
THEOREM Invariance == Spec => []ConsoleInv
BY BothStart, StepKeeps, PTL DEF Spec

\* Both consoles stay in their types: in the simulation nobody is registered
\* before the regulator and nothing happens to a batch that there is not; on
\* the live page an idle slot is empty (SimApp.tsx, LiveApp.tsx).
THEOREM TypeCorrect == Spec => []TypeOK
<1>1. ConsoleInv => TypeOK
  BY LiveInvGives DEF ConsoleInv, SimInv, TypeOK
<1> QED
  BY <1>1, Invariance, PTL

\* A block of the simulated chain is shown as valid exactly when no text up to
\* it differs from the one committed, for chains of any length, edited and
\* extended in any order (deriveChain, addBlock).
THEOREM EditsShow == Spec => []EditsBreakLaterBlocks
<1>1. ConsoleInv => EditsBreakLaterBlocks
  BY ChainedBreaks DEF ConsoleInv, SimInv
<1> QED
  BY <1>1, Invariance, PTL

\* The blocks as they were committed tell the whole state of the simulation:
\* no button changes the batch or the registry and forgets its block.
THEOREM ChainIsComplete == Spec => []ChainTellsState
<1>1. ConsoleInv => ChainTellsState
  BY TellsAllIs DEF ConsoleInv, SimInv
<1> QED
  BY <1>1, Invariance, PTL

\* A clean verification of the simulation is about readings as the sensor
\* measured them, and too warm ones were reported to the chain (doVerify).
THEOREM CleanReadings == Spec => CleanIsMeasured
<1>1. ConsoleInv /\ [Next]_vars
        => [Clean(verify') /\ verify' # verify =>
              /\ rows \in {DEFAULT_ROWS, UNSAFE_ROWS}
              /\ rows = UNSAFE_ROWS =>
                   \E i \in Told("anchored") :
                     Flagged(FALSE, blocks[i].originalData.reported)]_verify
  <2> SUFFICES ASSUME ConsoleInv, [Next]_vars, Clean(verify'), verify' # verify
               PROVE  /\ rows \in {DEFAULT_ROWS, UNSAFE_ROWS}
                      /\ rows = UNSAFE_ROWS =>
                           \E i \in Told("anchored") :
                             Flagged(FALSE, blocks[i].originalData.reported)
    OBVIOUS
  <2>1. SimNext \/ UNCHANGED simVars
    BY DEF Next, vars
  <2> QED
    BY <2>1, CleanStep DEF ConsoleInv
<1> QED
  BY <1>1, Invariance, PTL DEF Spec, CleanIsMeasured

\* The fingerprint in the live page's bar is that of the table and the batch
\* on the screen whenever the effect has settled, in whatever order the
\* answers came (LiveApp.tsx, the effect on rows and batchId).
THEOREM FingerprintFresh == Spec => []FingerprintFollowsTable
<1>1. ConsoleInv => FingerprintFollowsTable
  BY DEF ConsoleInv, LiveInv
<1> QED
  BY <1>1, Invariance, PTL

\* What the live feed shows of a batch and of its evidence is on the ledger,
\* for any interleaving of any number of tasks, also of refreshes that overtake
\* each other (refreshBatch).
THEOREM FeedIsOnLedger == Spec => []FeedOnLedger
<1>1. ConsoleInv => FeedOnLedger
  BY DEF ConsoleInv, LiveInv
<1> QED
  BY <1>1, Invariance, PTL

=============================================================================
