------------------------- MODULE InfrastructureProofs -------------------------
(***************************************************************************)
(* The promises of ServicesProofs and LibrariesProofs for the              *)
(* specification that is checked, in which the initial state chooses the   *)
(* component that runs, and for any values of its constants.               *)
(***************************************************************************)
EXTENDS MCInfrastructure, ServicesProofs, LibrariesProofs

ServicesInv == TxInv /\ LockInv /\ TokenInv /\ IdemInv /\ PoolInv

\* A step of the whole is for each component a step of its own, or none.
LEMMA OneRuns ==
  ASSUME [MCNext]_allVars
  PROVE  /\ [Next]_vars /\ [Lock!Next]_(Lock!lockVars) /\ [Token!Next]_(Token!tokenVars)
         /\ [Idem!Next]_(Idem!idemVars) /\ [Pool!Next]_(Pool!vars)
<1> USE DEF lockState, tokenState, idemState, poolState, Lock!lockVars, Token!tokenVars,
            Idem!idemVars, Pool!vars
<1>1. CASE ServicesNext
  BY <1>1 DEF ServicesNext
<1>2. CASE UNCHANGED serviceVars
  BY <1>2 DEF serviceVars, vars
<1> QED BY <1>1, <1>2 DEF MCNext, allVars

LEMMA ServicesStart == ASSUME MCInit PROVE ServicesInv
<1>1. Init /\ Lock!Init /\ Token!Init /\ Idem!Init /\ Pool!Init
  BY DEF MCInit
<1> QED BY <1>1, ServicesAssumption, TxStarts, LockStarts, TokenStarts, IdemStarts, PoolStarts
           DEF ServicesInv

LEMMA ServicesStep ==
  ASSUME ServicesInv, [MCNext]_allVars PROVE ServicesInv' /\ Token!SentValid
<1>1. TxInv' /\ LockInv' /\ IdemInv' /\ PoolInv'
  BY OneRuns, ServicesAssumption, TxStep, LockStep, IdemStep, PoolStep DEF ServicesInv
<1>2. TokenInv' /\ Token!SentValid
  BY OneRuns, ServicesAssumption, TokenStep DEF ServicesInv
<1> QED BY <1>1, <1>2 DEF ServicesInv

LEMMA ServicesHold == MCSpec => []ServicesInv
<1>1. MCInit => ServicesInv
  BY ServicesStart
<1>2. ServicesInv /\ [MCNext]_allVars => ServicesInv'
  BY ServicesStep
<1> QED BY <1>1, <1>2, PTL DEF MCSpec

\* acquireLock and releaseLock: within the time that was granted the lock has one holder.
THEOREM HeldByOne == MCSpec => []Exclusive
<1>1. ServicesInv => Exclusive
  BY DEF ServicesInv, LockInv, HolderIsKey, Lock!Exclusive, Exclusive
<1> QED BY <1>1, ServicesHold, PTL

\* getAccessToken: no request is sent with a token that has expired.
THEOREM TokensFresh == MCSpec => NeverExpired
<1>1. ServicesInv /\ [MCNext]_allVars => [Token!SentValid]_(Token!tokenVars)
  BY ServicesStep
<1> QED BY <1>1, ServicesHold, PTL DEF MCSpec, NeverExpired, Token!NeverExpired

\* IdempotencyInterceptor: a repeated request is not carried out again.
THEOREM RepeatedOnce == MCSpec => []DoneOnce
<1>1. ServicesInv => DoneOnce
  BY DEF ServicesInv, IdemInv, Once, Idem!DoneOnce, DoneOnce
<1> QED BY <1>1, ServicesHold, PTL

\* parallelLimit and retry: the pool keeps its bounds and tells what has happened.
THEOREM PoolKept == MCSpec => []PoolFaithful
<1>1. ServicesInv => PoolFaithful
  BY ServicesAssumption, PoolPromises DEF ServicesInv, PoolFaithful
<1> QED BY <1>1, ServicesHold, PTL

------------------------------------------------------------------------------
(* The cache *)

LEMMA CacheRuns == ASSUME [MCNext]_allVars PROVE [Cache!Next]_(Cache!vars)
<1> USE DEF cacheState, Cache!vars
<1>1. CASE ServicesNext
  BY <1>1 DEF ServicesNext
<1>2. CASE UNCHANGED serviceVars
  BY <1>2 DEF serviceVars
<1> QED BY <1>1, <1>2 DEF MCNext, allVars

\* RedisService: no two are given the same number of a counter or the same element of a queue,
\* what reports success was carried out, what set writes vanishes, and callbacks miss nothing.
THEOREM CacheTold == MCSpec => []CacheTruthful
<1>1. MCInit => CacheInv
  BY ServicesAssumption, CacheStarts DEF MCInit
<1>2. CacheInv /\ [MCNext]_allVars => CacheInv'
  BY ServicesAssumption, CacheRuns, CacheStep
<1>3. CacheInv => CacheTruthful
  BY CachePromises DEF CacheTruthful
<1> QED BY <1>1, <1>2, <1>3, PTL DEF MCSpec

------------------------------------------------------------------------------
(* The database module *)

LEMMA DatabaseRuns == ASSUME [MCNext]_allVars PROVE [Database!Next]_(Database!vars)
<1> USE DEF databaseState, Database!vars
<1>1. CASE LibrariesNext
  BY <1>1 DEF LibrariesNext
<1>2. CASE UNCHANGED libraryVars
  BY <1>2 DEF libraryVars
<1> QED BY <1>1, <1>2 DEF MCNext, allVars

\* DatabaseService and DatabaseHealthService: a start that has ended has every connection, a
\* module that is closed holds none and has no timer, what the history of health tells is true,
\* and it holds the checks that ended last, as many as it takes, in the order of their end.
THEOREM HealthHolds == MCSpec => []HealthTruthful
<1>1. MCInit => HealthInv
  BY LibrariesAssumption, HealthStarts DEF MCInit, LibrariesInit
<1>2. HealthInv /\ [MCNext]_allVars => HealthInv'
  BY LibrariesAssumption, DatabaseRuns, HealthStep
<1>3. HealthInv => HealthTruthful
  BY LibrariesAssumption, HealthTold DEF HealthTruthful
<1> QED BY <1>1, <1>2, <1>3, PTL DEF MCSpec

------------------------------------------------------------------------------
(* The tables and collections *)

LEMMA TableRuns == ASSUME [MCNext]_allVars PROVE [Table!Next]_(Table!vars)
<1> USE DEF tableState, Table!vars
<1>1. CASE LibrariesNext
  BY <1>1 DEF LibrariesNext
<1>2. CASE UNCHANGED libraryVars
  BY <1>2 DEF libraryVars
<1> QED BY <1>1, <1>2 DEF MCNext, allVars

LEMMA StoreHolds == MCSpec => []StoreInv
<1>1. MCInit => StoreInv
  BY LibrariesAssumption, TableStarts DEF MCInit, LibrariesInit
<1>2. StoreInv /\ [MCNext]_allVars => StoreInv'
  BY LibrariesAssumption, TableRuns, TableStep
<1> QED BY <1>1, <1>2, PTL DEF MCSpec

\* findOrCreate, upsert and bulkUpsert of BaseMongoRepository and BasePostgresRepository: no
\* key has a second row where an index forbids it, whoever writes, and elsewhere none as long
\* as one caller is alone.
THEOREM RowsOnce == MCSpec => []OneRowPerKey
<1>1. StoreInv => OneRowPerKey
  BY TableOnce DEF OneRowPerKey
<1> QED BY <1>1, StoreHolds, PTL

\* What the bulk operations and the methods report is what they have done, and batchProcess
\* and stream get every row that matches all the time, once, unless rows come to match or, in
\* a job that was given no order, rows that match are written.
THEOREM StoreTold == MCSpec => []StoreTruthful
<1>1. StoreInv => StoreTruthful
  BY TableTruthful, TableCovers DEF StoreTruthful
<1> QED BY <1>1, StoreHolds, PTL

------------------------------------------------------------------------------
(* Money *)

LEMMA CashRuns == ASSUME [MCNext]_allVars PROVE [Cash!Next]_purse
<1> USE DEF moneyState
<1>1. CASE LibrariesNext
  BY <1>1 DEF LibrariesNext
<1>2. CASE UNCHANGED libraryVars
  BY <1>2 DEF libraryVars
<1> QED BY <1>1, <1>2 DEF MCNext, allVars

LEMMA MoneyHolds == MCSpec => []MoneyInv
<1>1. MCInit => MoneyInv
  BY LibrariesAssumption, MoneyStarts DEF MCInit, LibrariesInit
<1>2. MoneyInv /\ [MCNext]_allVars => MoneyInv'
  BY LibrariesAssumption, CashRuns, MoneyStep
<1> QED BY <1>1, <1>2, PTL DEF MCSpec

\* splitMoney, addMoney, percentOf and subtractMoney: whatever is split, added and deducted, in
\* whatever order, not a unit is lost or made, below zero neither.
THEOREM MoneySafe == MCSpec => MoneyKept
<1>1. MoneyInv /\ [MCNext]_allVars => [Cash!TotalOf(purse') = Cash!TotalOf(purse)]_purse
  BY LibrariesAssumption, CashRuns, MoneyStep
<1> QED BY <1>1, MoneyHolds, PTL DEF MCSpec, MoneyKept

------------------------------------------------------------------------------
(* The advice on queries *)

LEMMA AdvisorRuns == ASSUME [MCNext]_allVars PROVE [Advisor!Next]_(Advisor!vars)
<1> USE DEF advisorState, Advisor!vars
<1>1. CASE LibrariesNext
  BY <1>1 DEF LibrariesNext
<1>2. CASE UNCHANGED libraryVars
  BY <1>2 DEF libraryVars
<1> QED BY <1>1, <1>2 DEF MCNext, allVars

\* QueryOptimizationService: the figures are those of every query since the last clearing, the
\* history and the report hold the newest and the slowest of them, and what was slow and raises
\* an issue has left its suggestion.
THEOREM AdviceGiven == MCSpec => []AdviceTrue
<1>1. MCInit => AdviceInv
  BY LibrariesAssumption, AdviceStarts DEF MCInit, LibrariesInit
<1>2. AdviceInv /\ [MCNext]_allVars => AdviceInv'
  BY LibrariesAssumption, AdvisorRuns, AdviceStep
<1>3. AdviceInv => AdviceTrue
  BY LibrariesAssumption, AdviceKept DEF AdviceTrue
<1> QED BY <1>1, <1>2, <1>3, PTL DEF MCSpec

------------------------------------------------------------------------------
(* Types *)

\* Type correctness of the transactions, the lock, the token, the keys and the purse.
THEOREM ServicesTyped == MCSpec => []AllTypesOK
<1>1. ServicesInv /\ MoneyInv => AllTypesOK
  BY DEF ServicesInv, TxInv, LockInv, TokenInv, IdemInv, MoneyInv, Coins, Cash!TypeOK, AllTypesOK
<1> QED BY <1>1, ServicesHold, MoneyHolds, PTL
=============================================================================
