---------------------- MODULE SubscribeRegistryProofs ----------------------
(***************************************************************************)
(* Proofs about SubscribeRegistry for any number of RPCs, peers, queries,  *)
(* any threshold and any clock.                                            *)
(*                                                                         *)
(* NoPhantomConnections is not inductive: that the key of an RPC leaves    *)
(* the current manager needs that the deferred Remove and Add saw the same *)
(* manager whenever Add saw the current one (OneManager), which in turn    *)
(* needs that a manager about to be installed has never been used          *)
(* (Unborn).                                                               *)
(***************************************************************************)
EXTENDS SubscribeRegistry, TLAPS

\* Before the first manager exists nothing has been added anywhere.
NilManager ==
  manager = None =>
    \A s \in Sessions : /\ conns[s] = {} /\ added[s] = None /\ removes[s] = None
                        /\ pc[s] \in {"start", "make"}

\* A manager that is about to be allocated is referred to by nobody.
Unborn ==
  \A s \in Sessions : pc[s] = "make" =>
    /\ manager # s /\ conns[s] = {}
    /\ \A t \in Sessions : added[t] # s /\ removes[t] # s

\* What an RPC that owns a key knows: the managers and the key itself.
OneManager ==
  \A s \in Sessions :
    /\ pc[s] \in {"insert"} \cup Owning => added[s] \in Sessions
    /\ pc[s] \in {"run", "rmdel"} =>
         removes[s] \in Sessions /\ (added[s] = manager => removes[s] = manager)
    /\ pc[s] \in Owning \cup {"rmredis"} =>
         \E n \in 0..MaxSecond : key[s] = <<AddrOf[s], QueryOf[s], n>>

\* Every key of the current manager has a live owner that was added to it.
KeysOwned ==
  manager # None =>
    \A k \in conns[manager] :
      \E s \in Sessions : Live(s) /\ key[s] = k /\ added[s] = manager

\* The redis client exists before rows of this process are stored, and the
\* RPC that will create it has not passed that point.
RedisReady ==
  /\ ~rclient => redis \subseteq Stale
  /\ ~rclient /\ dbcfg /\ manager # None => \E s \in Sessions : pc[s] = "prepare"

Managers == TypeOK /\ NilManager /\ Unborn /\ OneManager

\* What createKey makes is a key.
LEMMA CreateKeyType ==
  ASSUME TypeOK, NEW s \in Sessions
  PROVE  createKey(s) \in Keys
<1>1. AddrOf[s] \in Addrs /\ QueryOf[s] \in Queries /\ now \in 0..MaxSecond
  BY RegistryAssumption DEF TypeOK, Queries
<1> QED
  BY <1>1 DEF createKey, Keys

\* Type correctness is preserved by every step.
LEMMA TypeStep ==
  ASSUME TypeOK /\ NilManager /\ OneManager, [Next]_vars
  PROVE  TypeOK'
<1> USE DEF TypeOK, PCs
<1>1. ASSUME NEW s \in Sessions, SetConnectionManager(s) PROVE TypeOK'
  BY <1>1, RegistryAssumption DEF SetConnectionManager, Goto
<1>2. ASSUME NEW s \in Sessions, MakeManager(s) PROVE TypeOK'
  BY <1>2, RegistryAssumption DEF MakeManager, Goto
<1>3. ASSUME NEW s \in Sessions, PrepareRedis(s) PROVE TypeOK'
  BY <1>3, RegistryAssumption, Zenon DEF PrepareRedis, Goto
<1>4. ASSUME NEW s \in Sessions, PrepareHGetAll(s) PROVE TypeOK'
  BY <1>4, RegistryAssumption DEF PrepareHGetAll, Goto
<1>5. ASSUME NEW s \in Sessions, PrepareHDel(s) PROVE TypeOK'
  BY <1>5, RegistryAssumption DEF PrepareHDel, Goto
<1>6. ASSUME NEW s \in Sessions, Register(s) PROVE TypeOK'
  BY <1>6, RegistryAssumption, Zenon DEF Register, Goto
<1>7. ASSUME NEW s \in Sessions, Unregister(s) PROVE TypeOK'
  BY <1>7, RegistryAssumption, Zenon DEF Unregister, Goto, Forget
<1>8. ASSUME NEW s \in Sessions, FirstMessageBad(s) PROVE TypeOK'
  BY <1>8, RegistryAssumption DEF FirstMessageBad, Goto
<1>9. ASSUME NEW s \in Sessions, AddCheck(s) PROVE TypeOK'
  BY <1>9, RegistryAssumption DEF AddCheck, Goto
<1>10. ASSUME NEW s \in Sessions, AddInsert(s) PROVE TypeOK'
  <2>1. createKey(s) \in Keys
    BY CreateKeyType
  <2>2. added[s] \in Sessions
    BY <1>10 DEF AddInsert, OneManager
  <2> QED
    BY <1>10, <2>1, <2>2 DEF AddInsert, Goto
<1>11. ASSUME NEW s \in Sessions, storeKeyRedis(s) PROVE TypeOK'
  <2>1. AddrOf[s] \in Addrs /\ QueryOf[s] \in Queries
    BY RegistryAssumption DEF Queries
  <2>2. PICK n \in 0..MaxSecond : key[s] = <<AddrOf[s], QueryOf[s], n>>
    BY <1>11 DEF storeKeyRedis, OneManager, Owning
  <2>3. key[s] \in Keys
    BY <2>1, <2>2 DEF Keys
  <2> QED
    BY <1>11, <2>3 DEF storeKeyRedis, Goto
<1>12. ASSUME NEW s \in Sessions, DeferRemove(s) PROVE TypeOK'
  BY <1>12, RegistryAssumption DEF DeferRemove, Goto
<1>13. ASSUME NEW s \in Sessions, RemoveCheck(s) PROVE TypeOK'
  BY <1>13, RegistryAssumption DEF RemoveCheck, Goto
<1>14. ASSUME NEW s \in Sessions, RemoveDelete(s) PROVE TypeOK'
  BY <1>14, RegistryAssumption, Zenon DEF RemoveDelete, Goto
<1>15. ASSUME NEW s \in Sessions, deleteKeyRedis(s) PROVE TypeOK'
  BY <1>15, RegistryAssumption DEF deleteKeyRedis, Goto
<1>16. CASE Tick
  BY <1>16, RegistryAssumption DEF Tick
<1>17. CASE UNCHANGED vars
  BY <1>17 DEF vars
<1> QED
  BY <1>1, <1>2, <1>3, <1>4, <1>5, <1>6, <1>7, <1>8, <1>9, <1>10, <1>11,
     <1>12, <1>13, <1>14, <1>15, <1>16, <1>17 DEF Next, Step

\* Only MakeManager installs a manager, and none is ever taken away.
LEMMA NilStep ==
  ASSUME TypeOK /\ NilManager, [Next]_vars
  PROVE  NilManager'
<1> USE DEF TypeOK, NilManager, PCs
<1>1. ASSUME NEW s \in Sessions, SetConnectionManager(s) PROVE NilManager'
  BY <1>1, RegistryAssumption DEF SetConnectionManager, Goto
<1>2. ASSUME NEW s \in Sessions, MakeManager(s) PROVE NilManager'
  BY <1>2, RegistryAssumption DEF MakeManager, Goto
<1>3. ASSUME NEW s \in Sessions, PrepareRedis(s) PROVE NilManager'
  BY <1>3, RegistryAssumption DEF PrepareRedis, Goto
<1>4. ASSUME NEW s \in Sessions, PrepareHGetAll(s) PROVE NilManager'
  BY <1>4, RegistryAssumption DEF PrepareHGetAll, Goto
<1>5. ASSUME NEW s \in Sessions, PrepareHDel(s) PROVE NilManager'
  BY <1>5, RegistryAssumption DEF PrepareHDel, Goto
<1>6. ASSUME NEW s \in Sessions, Register(s) PROVE NilManager'
  BY <1>6, RegistryAssumption DEF Register, Goto
<1>7. ASSUME NEW s \in Sessions, Unregister(s) PROVE NilManager'
  BY <1>7, RegistryAssumption DEF Unregister, Goto, Forget
<1>8. ASSUME NEW s \in Sessions, FirstMessageBad(s) PROVE NilManager'
  BY <1>8, RegistryAssumption DEF FirstMessageBad, Goto
<1>9. ASSUME NEW s \in Sessions, AddCheck(s) PROVE NilManager'
  BY <1>9, RegistryAssumption DEF AddCheck, Goto
<1>10. ASSUME NEW s \in Sessions, AddInsert(s) PROVE NilManager'
  BY <1>10, RegistryAssumption DEF AddInsert, Goto, createKey
<1>11. ASSUME NEW s \in Sessions, storeKeyRedis(s) PROVE NilManager'
  BY <1>11, RegistryAssumption DEF storeKeyRedis, Goto
<1>12. ASSUME NEW s \in Sessions, DeferRemove(s) PROVE NilManager'
  BY <1>12, RegistryAssumption DEF DeferRemove, Goto
<1>13. ASSUME NEW s \in Sessions, RemoveCheck(s) PROVE NilManager'
  BY <1>13, RegistryAssumption DEF RemoveCheck, Goto
<1>14. ASSUME NEW s \in Sessions, RemoveDelete(s) PROVE NilManager'
  BY <1>14, RegistryAssumption DEF RemoveDelete, Goto
<1>15. ASSUME NEW s \in Sessions, deleteKeyRedis(s) PROVE NilManager'
  BY <1>15, RegistryAssumption DEF deleteKeyRedis, Goto
<1>16. CASE Tick
  BY <1>16, RegistryAssumption DEF Tick
<1>17. CASE UNCHANGED vars
  BY <1>17 DEF vars
<1> QED
  BY <1>1, <1>2, <1>3, <1>4, <1>5, <1>6, <1>7, <1>8, <1>9, <1>10, <1>11,
     <1>12, <1>13, <1>14, <1>15, <1>16, <1>17 DEF Next, Step

\* Add and the deferred Remove only ever see the current manager.
LEMMA UnbornStep ==
  ASSUME TypeOK /\ NilManager /\ Unborn, [Next]_vars
  PROVE  Unborn'
<1> USE DEF TypeOK, NilManager, Unborn, PCs
<1>1. ASSUME NEW s \in Sessions, SetConnectionManager(s) PROVE Unborn'
  BY <1>1, RegistryAssumption DEF SetConnectionManager, Goto
<1>2. ASSUME NEW s \in Sessions, MakeManager(s) PROVE Unborn'
  BY <1>2, RegistryAssumption DEF MakeManager, Goto
<1>3. ASSUME NEW s \in Sessions, PrepareRedis(s) PROVE Unborn'
  BY <1>3, RegistryAssumption DEF PrepareRedis, Goto
<1>4. ASSUME NEW s \in Sessions, PrepareHGetAll(s) PROVE Unborn'
  BY <1>4, RegistryAssumption DEF PrepareHGetAll, Goto
<1>5. ASSUME NEW s \in Sessions, PrepareHDel(s) PROVE Unborn'
  BY <1>5, RegistryAssumption DEF PrepareHDel, Goto
<1>6. ASSUME NEW s \in Sessions, Register(s) PROVE Unborn'
  BY <1>6, RegistryAssumption DEF Register, Goto
<1>7. ASSUME NEW s \in Sessions, Unregister(s) PROVE Unborn'
  BY <1>7, RegistryAssumption DEF Unregister, Goto, Forget
<1>8. ASSUME NEW s \in Sessions, FirstMessageBad(s) PROVE Unborn'
  BY <1>8, RegistryAssumption DEF FirstMessageBad, Goto
<1>9. ASSUME NEW s \in Sessions, AddCheck(s) PROVE Unborn'
  BY <1>9, RegistryAssumption DEF AddCheck, Goto
<1>10. ASSUME NEW s \in Sessions, AddInsert(s) PROVE Unborn'
  BY <1>10, RegistryAssumption DEF AddInsert, Goto, createKey
<1>11. ASSUME NEW s \in Sessions, storeKeyRedis(s) PROVE Unborn'
  BY <1>11, RegistryAssumption DEF storeKeyRedis, Goto
<1>12. ASSUME NEW s \in Sessions, DeferRemove(s) PROVE Unborn'
  BY <1>12, RegistryAssumption DEF DeferRemove, Goto
<1>13. ASSUME NEW s \in Sessions, RemoveCheck(s) PROVE Unborn'
  BY <1>13, RegistryAssumption DEF RemoveCheck, Goto
<1>14. ASSUME NEW s \in Sessions, RemoveDelete(s) PROVE Unborn'
  BY <1>14, RegistryAssumption DEF RemoveDelete, Goto
<1>15. ASSUME NEW s \in Sessions, deleteKeyRedis(s) PROVE Unborn'
  BY <1>15, RegistryAssumption DEF deleteKeyRedis, Goto
<1>16. CASE Tick
  BY <1>16, RegistryAssumption DEF Tick
<1>17. CASE UNCHANGED vars
  BY <1>17 DEF vars
<1> QED
  BY <1>1, <1>2, <1>3, <1>4, <1>5, <1>6, <1>7, <1>8, <1>9, <1>10, <1>11,
     <1>12, <1>13, <1>14, <1>15, <1>16, <1>17 DEF Next, Step

\* An RPC whose Add saw the current manager removes from it.
LEMMA OneManagerStep ==
  ASSUME TypeOK /\ NilManager /\ Unborn /\ OneManager, [Next]_vars
  PROVE  OneManager'
<1> USE DEF TypeOK, NilManager, Unborn, OneManager, Owning, PCs
<1>1. ASSUME NEW s \in Sessions, SetConnectionManager(s) PROVE OneManager'
  BY <1>1, RegistryAssumption DEF SetConnectionManager, Goto
<1>2. ASSUME NEW s \in Sessions, MakeManager(s) PROVE OneManager'
  BY <1>2, RegistryAssumption DEF MakeManager, Goto
<1>3. ASSUME NEW s \in Sessions, PrepareRedis(s) PROVE OneManager'
  BY <1>3, RegistryAssumption DEF PrepareRedis, Goto
<1>4. ASSUME NEW s \in Sessions, PrepareHGetAll(s) PROVE OneManager'
  BY <1>4, RegistryAssumption DEF PrepareHGetAll, Goto
<1>5. ASSUME NEW s \in Sessions, PrepareHDel(s) PROVE OneManager'
  BY <1>5, RegistryAssumption DEF PrepareHDel, Goto
<1>6. ASSUME NEW s \in Sessions, Register(s) PROVE OneManager'
  BY <1>6, RegistryAssumption DEF Register, Goto
<1>7. ASSUME NEW s \in Sessions, Unregister(s) PROVE OneManager'
  BY <1>7, RegistryAssumption DEF Unregister, Goto, Forget
<1>8. ASSUME NEW s \in Sessions, FirstMessageBad(s) PROVE OneManager'
  BY <1>8, RegistryAssumption DEF FirstMessageBad, Goto
<1>9. ASSUME NEW s \in Sessions, AddCheck(s) PROVE OneManager'
  BY <1>9, RegistryAssumption DEF AddCheck, Goto
<1>10. ASSUME NEW s \in Sessions, AddInsert(s) PROVE OneManager'
  BY <1>10, RegistryAssumption DEF AddInsert, Goto, createKey
<1>11. ASSUME NEW s \in Sessions, storeKeyRedis(s) PROVE OneManager'
  BY <1>11, RegistryAssumption DEF storeKeyRedis, Goto
<1>12. ASSUME NEW s \in Sessions, DeferRemove(s) PROVE OneManager'
  BY <1>12, RegistryAssumption DEF DeferRemove, Goto
<1>13. ASSUME NEW s \in Sessions, RemoveCheck(s) PROVE OneManager'
  BY <1>13, RegistryAssumption DEF RemoveCheck, Goto
<1>14. ASSUME NEW s \in Sessions, RemoveDelete(s) PROVE OneManager'
  BY <1>14, RegistryAssumption DEF RemoveDelete, Goto
<1>15. ASSUME NEW s \in Sessions, deleteKeyRedis(s) PROVE OneManager'
  BY <1>15, RegistryAssumption DEF deleteKeyRedis, Goto
<1>16. CASE Tick
  BY <1>16, RegistryAssumption DEF Tick
<1>17. CASE UNCHANGED vars
  BY <1>17 DEF vars
<1> QED
  BY <1>1, <1>2, <1>3, <1>4, <1>5, <1>6, <1>7, <1>8, <1>9, <1>10, <1>11,
     <1>12, <1>13, <1>14, <1>15, <1>16, <1>17, Zenon DEF Next, Step

\* Remove takes the key out of the table that Add put it in.
LEMMA KeysOwnedStep ==
  ASSUME Managers /\ KeysOwned, [Next]_vars
  PROVE  KeysOwned'
<1> USE DEF Managers, TypeOK, NilManager, Unborn, OneManager, Owning, Live, KeysOwned, PCs
<1>1. ASSUME NEW s \in Sessions, SetConnectionManager(s) PROVE KeysOwned'
  BY <1>1, RegistryAssumption DEF SetConnectionManager, Goto
<1>2. ASSUME NEW s \in Sessions, MakeManager(s) PROVE KeysOwned'
  BY <1>2, RegistryAssumption DEF MakeManager, Goto
<1>3. ASSUME NEW s \in Sessions, PrepareRedis(s) PROVE KeysOwned'
  BY <1>3, RegistryAssumption DEF PrepareRedis, Goto
<1>4. ASSUME NEW s \in Sessions, PrepareHGetAll(s) PROVE KeysOwned'
  BY <1>4, RegistryAssumption DEF PrepareHGetAll, Goto
<1>5. ASSUME NEW s \in Sessions, PrepareHDel(s) PROVE KeysOwned'
  BY <1>5, RegistryAssumption DEF PrepareHDel, Goto
<1>6. ASSUME NEW s \in Sessions, Register(s) PROVE KeysOwned'
  BY <1>6, RegistryAssumption DEF Register, Goto
<1>7. ASSUME NEW s \in Sessions, Unregister(s) PROVE KeysOwned'
  BY <1>7, RegistryAssumption DEF Unregister, Goto, Forget
<1>8. ASSUME NEW s \in Sessions, FirstMessageBad(s) PROVE KeysOwned'
  BY <1>8, RegistryAssumption DEF FirstMessageBad, Goto
<1>9. ASSUME NEW s \in Sessions, AddCheck(s) PROVE KeysOwned'
  BY <1>9, RegistryAssumption DEF AddCheck, Goto
<1>10. ASSUME NEW s \in Sessions, AddInsert(s) PROVE KeysOwned'
  BY <1>10, RegistryAssumption DEF AddInsert, Goto, createKey
<1>11. ASSUME NEW s \in Sessions, storeKeyRedis(s) PROVE KeysOwned'
  BY <1>11, RegistryAssumption DEF storeKeyRedis, Goto
<1>12. ASSUME NEW s \in Sessions, DeferRemove(s) PROVE KeysOwned'
  BY <1>12, RegistryAssumption DEF DeferRemove, Goto
<1>13. ASSUME NEW s \in Sessions, RemoveCheck(s) PROVE KeysOwned'
  BY <1>13, RegistryAssumption DEF RemoveCheck, Goto
<1>14. ASSUME NEW s \in Sessions, RemoveDelete(s) PROVE KeysOwned'
  BY <1>14, RegistryAssumption DEF RemoveDelete, Goto
<1>15. ASSUME NEW s \in Sessions, deleteKeyRedis(s) PROVE KeysOwned'
  BY <1>15, RegistryAssumption DEF deleteKeyRedis, Goto
<1>16. CASE Tick
  BY <1>16, RegistryAssumption DEF Tick
<1>17. CASE UNCHANGED vars
  BY <1>17 DEF vars
<1> QED
  BY <1>1, <1>2, <1>3, <1>4, <1>5, <1>6, <1>7, <1>8, <1>9, <1>10, <1>11,
     <1>12, <1>13, <1>14, <1>15, <1>16, <1>17, Zenon DEF Next, Step

\* Nobody but its owner, or an RPC with the same peer and query, removes a key.
LEMMA CountedStep ==
  ASSUME Managers /\ RunningIsCounted, [Next]_vars
  PROVE  RunningIsCounted'
<1> USE DEF Managers, TypeOK, OneManager, Owning, SoleKey, RunningIsCounted, PCs
<1>1. ASSUME NEW s \in Sessions, SetConnectionManager(s) PROVE RunningIsCounted'
  BY <1>1, RegistryAssumption DEF SetConnectionManager, Goto
<1>2. ASSUME NEW s \in Sessions, MakeManager(s) PROVE RunningIsCounted'
  BY <1>2, RegistryAssumption DEF MakeManager, Goto
<1>3. ASSUME NEW s \in Sessions, PrepareRedis(s) PROVE RunningIsCounted'
  BY <1>3, RegistryAssumption DEF PrepareRedis, Goto
<1>4. ASSUME NEW s \in Sessions, PrepareHGetAll(s) PROVE RunningIsCounted'
  BY <1>4, RegistryAssumption DEF PrepareHGetAll, Goto
<1>5. ASSUME NEW s \in Sessions, PrepareHDel(s) PROVE RunningIsCounted'
  BY <1>5, RegistryAssumption DEF PrepareHDel, Goto
<1>6. ASSUME NEW s \in Sessions, Register(s) PROVE RunningIsCounted'
  BY <1>6, RegistryAssumption DEF Register, Goto
<1>7. ASSUME NEW s \in Sessions, Unregister(s) PROVE RunningIsCounted'
  BY <1>7, RegistryAssumption DEF Unregister, Goto, Forget
<1>8. ASSUME NEW s \in Sessions, FirstMessageBad(s) PROVE RunningIsCounted'
  BY <1>8, RegistryAssumption DEF FirstMessageBad, Goto
<1>9. ASSUME NEW s \in Sessions, AddCheck(s) PROVE RunningIsCounted'
  BY <1>9, RegistryAssumption DEF AddCheck, Goto
<1>10. ASSUME NEW s \in Sessions, AddInsert(s) PROVE RunningIsCounted'
  BY <1>10, RegistryAssumption DEF AddInsert, Goto, createKey
<1>11. ASSUME NEW s \in Sessions, storeKeyRedis(s) PROVE RunningIsCounted'
  BY <1>11, RegistryAssumption DEF storeKeyRedis, Goto
<1>12. ASSUME NEW s \in Sessions, DeferRemove(s) PROVE RunningIsCounted'
  BY <1>12, RegistryAssumption DEF DeferRemove, Goto
<1>13. ASSUME NEW s \in Sessions, RemoveCheck(s) PROVE RunningIsCounted'
  BY <1>13, RegistryAssumption DEF RemoveCheck, Goto
<1>14. ASSUME NEW s \in Sessions, RemoveDelete(s) PROVE RunningIsCounted'
  BY <1>14, RegistryAssumption DEF RemoveDelete, Goto
<1>15. ASSUME NEW s \in Sessions, deleteKeyRedis(s) PROVE RunningIsCounted'
  BY <1>15, RegistryAssumption DEF deleteKeyRedis, Goto
<1>16. CASE Tick
  BY <1>16, RegistryAssumption DEF Tick
<1>17. CASE UNCHANGED vars
  BY <1>17 DEF vars
<1> QED
  BY <1>1, <1>2, <1>3, <1>4, <1>5, <1>6, <1>7, <1>8, <1>9, <1>10, <1>11,
     <1>12, <1>13, <1>14, <1>15, <1>16, <1>17, Zenon DEF Next, Step

\* Rows are added by RPCs that will delete them and swept by PrepareRedis.
LEMMA RedisStep ==
  ASSUME Managers /\ RedisReady /\ RedisRowsOwned, [Next]_vars
  PROVE  (RedisReady /\ RedisRowsOwned)'
<1> USE DEF Managers, TypeOK, NilManager, OneManager, Owning, RedisReady, RedisRowsOwned, PCs
<1>1. ASSUME NEW s \in Sessions, SetConnectionManager(s) PROVE (RedisReady /\ RedisRowsOwned)'
  BY <1>1, RegistryAssumption DEF SetConnectionManager, Goto
<1>2. ASSUME NEW s \in Sessions, MakeManager(s) PROVE (RedisReady /\ RedisRowsOwned)'
  BY <1>2, RegistryAssumption DEF MakeManager, Goto
<1>3. ASSUME NEW s \in Sessions, PrepareRedis(s) PROVE (RedisReady /\ RedisRowsOwned)'
  BY <1>3, RegistryAssumption DEF PrepareRedis, Goto
<1>4. ASSUME NEW s \in Sessions, PrepareHGetAll(s) PROVE (RedisReady /\ RedisRowsOwned)'
  BY <1>4, RegistryAssumption DEF PrepareHGetAll, Goto
<1>5. ASSUME NEW s \in Sessions, PrepareHDel(s) PROVE (RedisReady /\ RedisRowsOwned)'
  BY <1>5, RegistryAssumption DEF PrepareHDel, Goto
<1>6. ASSUME NEW s \in Sessions, Register(s) PROVE (RedisReady /\ RedisRowsOwned)'
  BY <1>6, RegistryAssumption DEF Register, Goto
<1>7. ASSUME NEW s \in Sessions, Unregister(s) PROVE (RedisReady /\ RedisRowsOwned)'
  BY <1>7, RegistryAssumption DEF Unregister, Goto, Forget
<1>8. ASSUME NEW s \in Sessions, FirstMessageBad(s) PROVE (RedisReady /\ RedisRowsOwned)'
  BY <1>8, RegistryAssumption DEF FirstMessageBad, Goto
<1>9. ASSUME NEW s \in Sessions, AddCheck(s) PROVE (RedisReady /\ RedisRowsOwned)'
  BY <1>9, RegistryAssumption DEF AddCheck, Goto
<1>10. ASSUME NEW s \in Sessions, AddInsert(s) PROVE (RedisReady /\ RedisRowsOwned)'
  BY <1>10, RegistryAssumption DEF AddInsert, Goto, createKey
<1>11. ASSUME NEW s \in Sessions, storeKeyRedis(s) PROVE (RedisReady /\ RedisRowsOwned)'
  BY <1>11, RegistryAssumption DEF storeKeyRedis, Goto
<1>12. ASSUME NEW s \in Sessions, DeferRemove(s) PROVE (RedisReady /\ RedisRowsOwned)'
  BY <1>12, RegistryAssumption DEF DeferRemove, Goto
<1>13. ASSUME NEW s \in Sessions, RemoveCheck(s) PROVE (RedisReady /\ RedisRowsOwned)'
  BY <1>13, RegistryAssumption DEF RemoveCheck, Goto
<1>14. ASSUME NEW s \in Sessions, RemoveDelete(s) PROVE (RedisReady /\ RedisRowsOwned)'
  BY <1>14, RegistryAssumption DEF RemoveDelete, Goto
<1>15. ASSUME NEW s \in Sessions, deleteKeyRedis(s) PROVE (RedisReady /\ RedisRowsOwned)'
  BY <1>15, RegistryAssumption DEF deleteKeyRedis, Goto
<1>16. CASE Tick
  BY <1>16, RegistryAssumption DEF Tick
<1>17. CASE UNCHANGED vars
  BY <1>17 DEF vars
<1> QED
  BY <1>1, <1>2, <1>3, <1>4, <1>5, <1>6, <1>7, <1>8, <1>9, <1>10, <1>11,
     <1>12, <1>13, <1>14, <1>15, <1>16, <1>17, Zenon DEF Next, Step

\* An RPC empties the entry of its address before it returns.
LEMMA RegistryStep ==
  ASSUME TypeOK /\ RegistryHoldsActive, [Next]_vars
  PROVE  RegistryHoldsActive'
<1> USE DEF TypeOK, RegistryHoldsActive, PCs
<1>1. ASSUME NEW s \in Sessions, SetConnectionManager(s) PROVE RegistryHoldsActive'
  BY <1>1, RegistryAssumption DEF SetConnectionManager, Goto
<1>2. ASSUME NEW s \in Sessions, MakeManager(s) PROVE RegistryHoldsActive'
  BY <1>2, RegistryAssumption DEF MakeManager, Goto
<1>3. ASSUME NEW s \in Sessions, PrepareRedis(s) PROVE RegistryHoldsActive'
  BY <1>3, RegistryAssumption DEF PrepareRedis, Goto
<1>4. ASSUME NEW s \in Sessions, PrepareHGetAll(s) PROVE RegistryHoldsActive'
  BY <1>4, RegistryAssumption DEF PrepareHGetAll, Goto
<1>5. ASSUME NEW s \in Sessions, PrepareHDel(s) PROVE RegistryHoldsActive'
  BY <1>5, RegistryAssumption DEF PrepareHDel, Goto
<1>6. ASSUME NEW s \in Sessions, Register(s) PROVE RegistryHoldsActive'
  BY <1>6, RegistryAssumption DEF Register, Goto
<1>7. ASSUME NEW s \in Sessions, Unregister(s) PROVE RegistryHoldsActive'
  BY <1>7, RegistryAssumption DEF Unregister, Goto, Forget
<1>8. ASSUME NEW s \in Sessions, FirstMessageBad(s) PROVE RegistryHoldsActive'
  BY <1>8, RegistryAssumption DEF FirstMessageBad, Goto
<1>9. ASSUME NEW s \in Sessions, AddCheck(s) PROVE RegistryHoldsActive'
  BY <1>9, RegistryAssumption DEF AddCheck, Goto
<1>10. ASSUME NEW s \in Sessions, AddInsert(s) PROVE RegistryHoldsActive'
  BY <1>10, RegistryAssumption DEF AddInsert, Goto, createKey
<1>11. ASSUME NEW s \in Sessions, storeKeyRedis(s) PROVE RegistryHoldsActive'
  BY <1>11, RegistryAssumption DEF storeKeyRedis, Goto
<1>12. ASSUME NEW s \in Sessions, DeferRemove(s) PROVE RegistryHoldsActive'
  BY <1>12, RegistryAssumption DEF DeferRemove, Goto
<1>13. ASSUME NEW s \in Sessions, RemoveCheck(s) PROVE RegistryHoldsActive'
  BY <1>13, RegistryAssumption DEF RemoveCheck, Goto
<1>14. ASSUME NEW s \in Sessions, RemoveDelete(s) PROVE RegistryHoldsActive'
  BY <1>14, RegistryAssumption DEF RemoveDelete, Goto
<1>15. ASSUME NEW s \in Sessions, deleteKeyRedis(s) PROVE RegistryHoldsActive'
  BY <1>15, RegistryAssumption DEF deleteKeyRedis, Goto
<1>16. CASE Tick
  BY <1>16, RegistryAssumption DEF Tick
<1>17. CASE UNCHANGED vars
  BY <1>17 DEF vars
<1> QED
  BY <1>1, <1>2, <1>3, <1>4, <1>5, <1>6, <1>7, <1>8, <1>9, <1>10, <1>11,
     <1>12, <1>13, <1>14, <1>15, <1>16, <1>17, Zenon DEF Next, Step

\* The inductive invariant.
IInv == Managers /\ KeysOwned /\ RunningIsCounted /\ RedisReady
          /\ RedisRowsOwned /\ RegistryHoldsActive

\* Every initial state satisfies the inductive invariant.
LEMMA InitIInv == Init => IInv
<1> SUFFICES ASSUME Init PROVE IInv
  OBVIOUS
<1> USE DEF Init
<1>1. Stale \subseteq Keys
  BY RegistryAssumption DEF Keys
<1>2. TypeOK
  <2>1. now \in 1..MaxSecond /\ redis \subseteq Keys /\ pc \in [Sessions -> PCs]
    BY <1>1, RegistryAssumption DEF PCs
  <2>2. rclient \in BOOLEAN /\ dbcfg \in BOOLEAN
    BY Zenon  <2> QED
    BY <2>1, <2>2 DEF TypeOK
<1>3. NilManager /\ Unborn /\ OneManager /\ KeysOwned
  BY DEF NilManager, Unborn, OneManager, Owning, KeysOwned
<1>4. RunningIsCounted /\ RedisReady /\ RedisRowsOwned /\ RegistryHoldsActive
  BY DEF RunningIsCounted, RedisReady, RedisRowsOwned, RegistryHoldsActive
<1> QED
  BY <1>2, <1>3, <1>4 DEF IInv, Managers

\* Every step of an RPC, and of the clock, preserves it.
LEMMA NextIInv == IInv /\ [Next]_vars => IInv'
  BY TypeStep, NilStep, UnbornStep, OneManagerStep, KeysOwnedStep, CountedStep,
     RedisStep, RegistryStep DEF IInv, Managers

\* The inductive invariant holds in every reachable state.
LEMMA SpecIInv == Spec => []IInv
  BY InitIInv, NextIInv, PTL DEF Spec

\* The shared tables and every RPC's locals of setConnectionManager, Add,
\* Remove and Subscribe keep their types.
THEOREM TypeCorrect == Spec => []TypeOK
<1>1. IInv => TypeOK
  BY DEF IInv, Managers
<1> QED
  BY <1>1, SpecIInv, PTL

\* However the first RPCs race in setConnectionManager, the manager in place
\* never counts a connection whose RPC will not remove it again.
THEOREM NoPhantoms == Spec => []NoPhantomConnections
<1>1. IInv => NoPhantomConnections
  BY DEF IInv, KeysOwned, NoPhantomConnections
<1> QED
  BY <1>1, SpecIInv, PTL

\* An RPC alone with its peer and query is counted by the manager whose Add
\* accepted it for as long as its Run lasts.
THEOREM Counted == Spec => []RunningIsCounted
<1>1. IInv => RunningIsCounted
  BY DEF IInv
<1> QED
  BY <1>1, SpecIInv, PTL

\* TELEMETRY_CONNECTIONS holds no row that nobody will delete once
\* PrepareRedis has read the table.
THEOREM RowsOwned == Spec => []RedisRowsOwned
<1>1. IInv => RedisRowsOwned
  BY DEF IInv
<1> QED
  BY <1>1, SpecIInv, PTL

\* Subscribe's table of clients names no RPC that has returned, so closing a
\* duplicate closes a client that is still in use.
THEOREM HoldsActive == Spec => []RegistryHoldsActive
<1>1. IInv => RegistryHoldsActive
  BY DEF IInv
<1> QED
  BY <1>1, SpecIInv, PTL
=============================================================================
