--------------------------- MODULE StartupProofs ----------------------------
(***************************************************************************)
(* Proofs about CacheStartup and RequestIndex, for any number of           *)
(* processes, threads, writers, documents and failures.                    *)
(***************************************************************************)
EXTENDS CacheStartup, RequestIndex, TLAPS

(* The collection                                                          *)

\* The types of the variables of CacheStartup.
StartupTypeOK ==
    /\ collection \in BOOLEAN
    /\ cached \in BOOLEAN
    /\ spc \in [Starters -> StarterSteps]
    /\ raised \in Nat
    /\ outages \in Nat

\* The two invariants made inductive: a 409 means that the collection exists.
StartupInductive ==
    /\ StartupTypeOK
    /\ ServiceHasCollection
    /\ OnlyOutagesRaise
    /\ \A x \in Starters : spc[x] = "verify" => collection

\* The initial states: no collection, no service.
LEMMA StartupInitInductive == StartupInit => StartupInductive
<1>1. StartupInit => collection \in BOOLEAN /\ cached \in BOOLEAN /\ ~cached
  BY Zenon DEF StartupInit
<1>2. StartupInit => spc \in [Starters -> StarterSteps] /\ raised = 0 /\ outages = 0
  BY DEF StartupInit, StarterSteps
<1>3. StartupInit => \A x \in Starters : spc[x] = "idle"
  BY DEF StartupInit
<1> QED
  BY <1>1, <1>2, <1>3
     DEF StartupInductive, StartupTypeOK, ServiceHasCollection, OnlyOutagesRaise

\* A step of x leaves the others where they are.
LEMMA PassStep ==
    ASSUME StartupTypeOK, NEW x \in Starters, NEW from, NEW to \in StarterSteps,
           Pass(x, from, to)
    PROVE  /\ spc' \in [Starters -> StarterSteps]
           /\ spc'[x] = to
           /\ \A y \in Starters : y # x => spc'[y] = spc[y]
  BY DEF Pass, StartupTypeOK

\* A step that keeps the collection, and takes x to a service or to "verify"
\* only if there is one, keeps the invariant.
LEMMA GoodStep ==
    ASSUME StartupInductive, NEW x \in Starters, NEW from, NEW to \in StarterSteps,
           Pass(x, from, to),
           collection' \in BOOLEAN, collection => collection',
           cached' \in BOOLEAN, cached' => cached \/ collection',
           to \in {"built", "ready", "verify"} => collection',
           raised' \in Nat, outages' \in Nat, raised' <= outages'
    PROVE  StartupInductive'
<1>1. /\ spc' \in [Starters -> StarterSteps]
      /\ spc'[x] = to
      /\ \A y \in Starters : y # x => spc'[y] = spc[y]
  BY PassStep DEF StartupInductive
<1>2. StartupTypeOK'
  BY <1>1 DEF StartupTypeOK
<1>3. \A y \in Starters : spc'[y] \in {"built", "ready", "verify"} => collection'
  BY <1>1 DEF StartupInductive, ServiceHasCollection
<1>4. cached' => collection'
  BY DEF StartupInductive, ServiceHasCollection
<1> QED
  BY <1>2, <1>3, <1>4 DEF StartupInductive, ServiceHasCollection, OnlyOutagesRaise

\* Every step keeps the inductive invariant.
LEMMA StartupStep ==
    ASSUME StartupInductive, [StartupNext]_startupVars
    PROVE  StartupInductive'
<1>1. /\ collection \in BOOLEAN /\ cached \in BOOLEAN /\ raised \in Nat /\ outages \in Nat
      /\ raised <= outages
      /\ cached => collection
      /\ \A x \in Starters : spc[x] \in {"built", "ready", "verify"} => collection
  BY DEF StartupInductive, StartupTypeOK, OnlyOutagesRaise, ServiceHasCollection
<1>2. ASSUME NEW x \in Starters,
             GetService(x) \/ NextRequest(x) \/ GetCollection(x) \/ CreateCollection(x)
      PROVE  StartupInductive'
  <2>1. \E from, to \in StarterSteps :
            /\ Pass(x, from, to)
            /\ to \in {"built", "ready", "verify"} => collection'
    BY <1>1, <1>2 DEF GetService, NextRequest, GetCollection, CreateCollection, StarterSteps
  <2>2. /\ collection' \in BOOLEAN /\ (collection => collection') /\ cached' = cached
        /\ raised' = raised /\ outages' = outages
    BY <1>1, <1>2 DEF GetService, NextRequest, GetCollection, CreateCollection
  <2> QED
    BY <1>1, <2>1, <2>2, GoodStep
<1>3. ASSUME NEW x \in Starters, VerifyCollection(x) \/ KeepService(x)
      PROVE  StartupInductive'
  <2>1. collection
    BY <1>1, <1>3 DEF VerifyCollection, KeepService, Pass, Raises
  <2>2. \E to \in StarterSteps :
            Pass(x, "verify", to) \/ Pass(x, "built", to)
    BY <1>3, <2>1 DEF VerifyCollection, KeepService, StarterSteps
  <2>3. collection' = collection /\ raised' = raised /\ outages' = outages
    BY <1>3, <2>1 DEF VerifyCollection, KeepService
  <2>4. cached' \in BOOLEAN
    BY <1>1, <1>3 DEF VerifyCollection, KeepService
  <2> QED
    BY <1>1, <2>1, <2>2, <2>3, <2>4, GoodStep
<1>4. ASSUME NEW x \in Starters, QdrantFails(x)
      PROVE  StartupInductive'
  <2>1. \E from : Raises(x, from) /\ (collection' = collection \/ collection' = TRUE)
    BY <1>4 DEF QdrantFails
  <2>2. \E from : \E to \in {"idle", "exited"} : Pass(x, from, to)
    BY <2>1 DEF Raises
  <2>3. raised' = raised + 1 /\ outages' = outages + 1 /\ cached' = cached
    BY <1>4 DEF QdrantFails, Raises
  <2>4. (collection' = collection \/ collection' = TRUE) /\ collection \in BOOLEAN
    BY <1>1, <2>1
  <2>5. collection' \in BOOLEAN /\ (collection => collection')
    <3>1. CASE collection' = collection
      BY <1>1, <3>1
    <3>2. CASE collection' = TRUE
      BY <3>2
    <3> QED
      BY <2>4, <3>1, <3>2
  <2> QED
    BY <1>1, <2>2, <2>3, <2>5, GoodStep DEF StarterSteps
<1>5. CASE UNCHANGED startupVars
  BY <1>5 DEF startupVars, StartupInductive, StartupTypeOK, ServiceHasCollection, OnlyOutagesRaise
<1> QED
  BY <1>2, <1>3, <1>4, <1>5 DEF StartupNext, StarterProceeds

\* Whoever has a SemanticCacheService has a collection to search, however many
\* processes create it at the same time.
THEOREM CollectionBeforeUse == StartupSpec => []ServiceHasCollection
<1>1. StartupInductive => ServiceHasCollection
  BY DEF StartupInductive
<1> QED
  BY <1>1, StartupInitInductive, StartupStep, PTL DEF StartupSpec

\* Constructors never fail because of each other.
THEOREM RacesDoNotRaise == StartupSpec => []OnlyOutagesRaise
<1>1. StartupInductive => OnlyOutagesRaise
  BY DEF StartupInductive
<1> QED
  BY <1>1, StartupInitInductive, StartupStep, PTL DEF StartupSpec

-----------------------------------------------------------------------------
(* The unique index                                                        *)

\* The initial states: no document.
LEMMA IndexInitInductive == IndexInit => IndexInductive
  BY IndexAssumption DEF IndexInit, IndexInductive, OneDocument

\* Two documents of a pair are duplicates.
LEMMA DuplicatesOrOne == pairOf \in [DocIds -> Pairs \cup {NoPair}] /\ ~Duplicates => OneDocument
  BY DEF Duplicates, DocsOf, OneDocument

\* An insertion that a unique index admits adds the first document of a pair.
LEMMA InsertKeepsOne ==
    ASSUME IndexInductive, NEW w \in Writers, InsertOne(w)
    PROVE  IndexInductive'
<1>1. absent[w] \in Pairs /\ absent' \in [Writers -> Pairs \cup {NoPair}]
  BY DEF InsertOne, IndexInductive
<1>2. UNCHANGED <<index, indexed>>
  BY DEF InsertOne
<1>3. CASE UNCHANGED pairOf
  BY <1>1, <1>2, <1>3 DEF IndexInductive, OneDocument
<1>4. ASSUME NEW d \in DocsOf(NoPair), pairOf' = [pairOf EXCEPT ![d] = absent[w]],
             index = "unique" => DocsOf(absent[w]) = {}
      PROVE  IndexInductive'
  <2>1. d \in DocIds /\ pairOf' \in [DocIds -> Pairs \cup {NoPair}]
    BY <1>1, <1>4 DEF DocsOf, IndexInductive
  <2>2. /\ pairOf'[d] = absent[w]
        /\ \A e \in DocIds : e # d => pairOf'[e] = pairOf[e]
    BY <1>4, <2>1 DEF IndexInductive
  <2>3. index = "unique" => \A e \in DocIds : pairOf[e] # absent[w]
    BY <1>4 DEF DocsOf
  <2>4. index = "unique" => OneDocument'
    BY <2>1, <2>2, <2>3 DEF IndexInductive, OneDocument
  <2> QED
    BY <1>1, <1>2, <2>1, <2>4 DEF IndexInductive
<1> QED
  BY <1>3, <1>4 DEF InsertOne

\* Every step keeps the inductive invariant.
LEMMA IndexStep ==
    ASSUME IndexInductive, [IndexNext]_indexVars
    PROVE  IndexInductive'
<1>1. ASSUME NEW p \in ApiProcesses, StartIndexed(p)
      PROVE  IndexInductive'
  BY <1>1, DuplicatesOrOne DEF StartIndexed, CreateIndex, IndexInductive, OneDocument
<1>2. ASSUME NEW p \in ApiProcesses, StartUnindexed(p) \/ StopProcess(p)
      PROVE  IndexInductive'
  BY <1>2 DEF StartUnindexed, StopProcess, IndexInductive, OneDocument
<1>3. ASSUME NEW w \in Writers, NEW k \in Pairs, FindNone(w, k)
      PROVE  IndexInductive'
  BY <1>3 DEF FindNone, IndexInductive, OneDocument
<1>4. CASE UNCHANGED indexVars
  BY <1>4 DEF indexVars, IndexInductive, OneDocument
<1> QED
  BY <1>1, <1>2, <1>3, <1>4, InsertKeepsOne DEF IndexNext

\* After one start-up that created the index, or with the script, documents
\* stay unique whatever was raced before and is raced afterwards.
THEOREM IndexedIsUnique == IndexSpec => []IndexedMeansOne
<1>1. IndexInductive => IndexedMeansOne
  BY DEF IndexInductive, IndexedMeansOne
<1> QED
  BY <1>1, IndexInitInductive, IndexStep, PTL DEF IndexSpec
=============================================================================
