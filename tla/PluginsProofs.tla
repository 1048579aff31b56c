---------------------------- MODULE PluginsProofs ----------------------------
(***************************************************************************)
(* Proofs about the plugins: what becomes of API keys, of the jobs that    *)
(* were taken, of translations, of a list that is read page by page, and   *)
(* of the windows of the rate limiter.                                     *)
(***************************************************************************)
EXTENDS ApiKeys, Translations, Jobs, Paging, RateWindow, FiniteSetTheorems, TLAPS

-----------------------------------------------------------------------------
(* API keys: what their calls and boots know of them. *)

KeyStates == {"unused", "live", "revoked", "deleted"}
MaybeKey == KeyIds \cup {NoKey}
KeyCalls == [op : {"none", "refresh", "invalidate", "sweep", "cleanup"},
             pc : {"idle", "create", "mark", "revoke", "sweep", "cleanup"},
             key : MaybeKey, new : MaybeKey, todo : SUBSET KeyIds, all : SUBSET KeyIds]
KeyBoots == [pc : {"off", "role", "addRole", "persist", "callback", "file", "env", "up"},
             key : MaybeKey]

KeysTypeOK == /\ keyState \in [KeyIds -> KeyStates]
              /\ replacedBy \in [KeyIds -> MaybeKey]
              /\ age \in [KeyIds -> {"new", "old", "lapsed"}]
              /\ call \in [Calls -> KeyCalls]
              /\ boot \in [Boots -> KeyBoots]
              /\ heirOf \in [KeyIds -> MaybeKey]
              /\ held \subseteq KeyIds /\ dropped \subseteq KeyIds
              /\ \A c \in Calls : /\ call[c].op = "refresh" <=> call[c].pc \in {"create", "mark"}
                                  /\ call[c].pc = "mark" => call[c].new \in KeyIds

Ever(k) == keyState[k] # "unused"
Spent(k) == keyState[k] \in {"revoked", "deleted"}

\* What a call read before an await is still so far true that acting on it does no harm.
CallIsSound(c) ==
    LET r == call[c]
    IN  /\ r.pc \in {"create", "mark"} => r.key \in KeyIds
        /\ r.key \in KeyIds => Ever(r.key)
        /\ r.pc = "cleanup" => \A k \in r.todo : Ever(k) /\ (age[k] = "lapsed" \/ Spent(k))
        /\ r.pc = "sweep" /\ Cardinality(r.all) <= KeyPage => \A k \in r.all \ r.todo : Spent(k)
CallsAreSound == \A c \in Calls : CallIsSound(c)

\* A boot has a key only between its row and the hand-over.
BootsCarryKeys ==
    \A b \in Boots : IF boot[b].pc \in {"callback", "file"} THEN boot[b].key \in KeyIds /\ Ever(boot[b].key)
                     ELSE boot[b].key = NoKey

\* A table with rows has had a first key, and that one was handed over, or is carried, or lost.
FirstKeyIsKnown ==
    (\E k \in KeyIds : Ever(k)) =>
        held # {} \/ dropped # {} \/ \E b \in Boots : boot[b].key # NoKey

UpHasRows == (\E b \in Boots : boot[b].pc = "up") => \E k \in KeyIds : Ever(k)

\* How far the refresh of a key has come.
Rotated(k) ==
    /\ \A c, d \in Refreshing(k) : c = d
    /\ \A c \in Refreshing(k) : Heirs(k) = IF call[c].pc = "create" THEN {} ELSE {call[c].new}
    /\ Refreshing(k) = {} /\ Heirs(k) # {} =>
           \E j \in KeyIds : /\ Heirs(k) = {j}
                             /\ keyState[k] = "deleted" \/ (keyState[k] = "revoked" /\ replacedBy[k] = j)
RotationsAreKnown == /\ \A k \in KeyIds \ raced : Rotated(k)
                     /\ \A k \in KeyIds : ~Ever(k) => heirOf[k] = NoKey

KeysInv == /\ KeysTypeOK /\ CallsAreSound /\ BootsCarryKeys /\ FirstKeyIsKnown
           /\ UpHasRows /\ RotationsAreKnown

-----------------------------------------------------------------------------
(* API keys: the steps. *)

\* A key of the table is one of the keys, an unused one is not in the table.
LEMMA KeysOfTheTable ==
    ASSUME KeysTypeOK
    PROVE  /\ \A k \in Stored : k \in KeyIds /\ keyState[k] \in {"live", "revoked"}
           /\ \A k \in In({"live"}) : k \in Stored /\ keyState[k] = "live"
           /\ \A k \in KeyIds : IsNext(k) => keyState[k] = "unused"
           /\ NoKey \notin KeyIds
  BY ApiKeysAssumption DEF Stored, In, IsNext, KeysTypeOK, KeyIds, NoKey

\* What a step may do to a key: it stays stored or spent as long as it was, is
\* deleted only when revoked or lapsed, and does not grow younger.
Onward == \A k \in KeyIds :
             /\ keyState[k] # "unused" => keyState'[k] # "unused"
             /\ keyState[k] = "revoked" => keyState'[k] \in {"revoked", "deleted"}
             /\ keyState[k] = "deleted" => keyState'[k] = "deleted"
             /\ keyState[k] = "live" /\ keyState'[k] = "deleted" => age[k] = "lapsed"
             /\ age[k] = "lapsed" => age'[k] = "lapsed"

\* The calls and boots of a step are of their types.
LEMMA KeyCallsTyped ==
    ASSUME NEW op \in {"none", "refresh", "invalidate", "sweep", "cleanup"},
           NEW pc \in {"idle", "create", "mark", "revoke", "sweep", "cleanup"},
           NEW k \in MaybeKey, NEW j \in MaybeKey,
           NEW S \in SUBSET KeyIds, NEW T \in SUBSET KeyIds
    PROVE  Call(op, pc, k, j, S, T) \in KeyCalls
  BY DEF Call, KeyCalls

\* Calls of the token service keep the types.
LEMMA CallsKeepTypes ==
    ASSUME KeysTypeOK, NEW c \in Calls,
           \/ CreateToken(c)
           \/ RefreshFinds(c) \/ RefreshCreates(c) \/ RefreshMarks(c)
           \/ InvalidateFinds(c) \/ InvalidateRevokes(c)
           \/ SweepLists(c) \/ SweepRevokes(c) \/ SweepEnds(c)
           \/ CleanupLists(c) \/ CleanupDeletes(c) \/ CleanupEnds(c)
           \/ CallDies(c)
    PROVE  KeysTypeOK'
<1> USE DEF KeysTypeOK
<1> NoCall \in KeyCalls /\ NoCall.op = "none" /\ NoCall.pc = "idle"
  BY DEF NoCall, Call, KeyCalls, MaybeKey
<1> call[c] \in KeyCalls
  OBVIOUS
<1>1. CASE CreateToken(c)
  BY <1>1 DEF CreateToken, Accept, IsNext, In, KeyStates, bootVars
<1>2. CASE RefreshFinds(c)
  <2>1. PICK k \in In({"live"}) :
            call' = [call EXCEPT ![c] = Call("refresh", "create", k, NoKey, {}, {})]
    BY <1>2 DEF RefreshFinds
  <2>2. k \in KeyIds
    BY <2>1 DEF In
  <2>3. Call("refresh", "create", k, NoKey, {}, {}) \in KeyCalls
    BY <2>2, KeyCallsTyped DEF MaybeKey
  <2>4. Call("refresh", "create", k, NoKey, {}, {}).op = "refresh" /\ Call("refresh", "create", k, NoKey, {}, {}).pc = "create"
    BY DEF Call
  <2> QED BY <1>2, <2>1, <2>3, <2>4 DEF RefreshFinds, rowVars, bootVars
<1>3. CASE RefreshCreates(c)
  <2>1. PICK k \in KeyIds : /\ IsNext(k)
                            /\ keyState' = [keyState EXCEPT ![k] = "live"]
                            /\ heirOf' = [heirOf EXCEPT ![k] = call[c].key]
                            /\ call' = [call EXCEPT ![c].pc = "mark", ![c].new = k]
    BY <1>3 DEF RefreshCreates
  <2>2. /\ call'[c] \in KeyCalls /\ call'[c].op = call[c].op /\ call'[c].pc = "mark"
        /\ call[c].key \in MaybeKey
    BY <2>1 DEF KeyCalls, MaybeKey
  <2>3. call'[c].new = k
    BY <2>1 DEF KeyCalls
  <2>4. call' = [call EXCEPT ![c] = call'[c]]
    BY <2>1
  <2>5. keyState' \in [KeyIds -> KeyStates] /\ heirOf' \in [KeyIds -> MaybeKey]
    BY <2>1, <2>2 DEF KeyStates
  <2>6. call' \in [Calls -> KeyCalls] /\ \A d \in Calls : d # c => call'[d] = call[d]
    BY <2>2, <2>4
  <2>7. UNCHANGED <<replacedBy, age, boot, held, dropped>> /\ call[c].pc = "create"
    BY <1>3 DEF RefreshCreates, bootVars
  <2> QED BY <2>1, <2>2, <2>3, <2>5, <2>6, <2>7
<1>4. CASE RefreshMarks(c)
  <2>1. call[c].new \in MaybeKey /\ call[c].key \in MaybeKey /\ \A k \in Stored : k \in KeyIds
    BY DEF KeyCalls, Stored, In
  <2>2. CASE call[c].key \in Stored
    <3>1. call[c].new \in KeyIds
      BY <1>4 DEF RefreshMarks
    <3>2. /\ keyState' = [keyState EXCEPT ![call[c].key] = "revoked"]
          /\ replacedBy' = [replacedBy EXCEPT ![call[c].key] = call[c].new]
          /\ held' = held \cup {call[c].new}
          /\ call' = [call EXCEPT ![c] = NoCall]
      BY <1>4, <2>2 DEF RefreshMarks, Answered
    <3>3. keyState' \in [KeyIds -> KeyStates] /\ replacedBy' \in [KeyIds -> MaybeKey]
      BY <2>1, <3>2 DEF KeyStates
    <3>4. call' \in [Calls -> KeyCalls] /\ \A d \in Calls : call'[d] \in {call[d], NoCall}
      BY <3>2
    <3>5. UNCHANGED <<age, boot, heirOf, dropped>>
      BY <1>4 DEF RefreshMarks, bootVars
    <3>6. held' \subseteq KeyIds
      BY <3>1, <3>2
    <3>7. \A d \in Calls : /\ call'[d].op = "refresh" <=> call'[d].pc \in {"create", "mark"}
                           /\ call'[d].pc = "mark" => call'[d].new \in KeyIds
      BY <3>4
    <3> QED BY <3>3, <3>4, <3>5, <3>6, <3>7
  <2>3. CASE call[c].key \notin Stored
    BY <1>4, <2>1, <2>3 DEF RefreshMarks, Answered, KeyStates, bootVars
  <2> QED BY <2>2, <2>3
<1>5. CASE InvalidateFinds(c)
  <2>1. PICK k \in Stored :
            call' = [call EXCEPT ![c] = Call("invalidate", "revoke", k, NoKey, {}, {})]
    BY <1>5 DEF InvalidateFinds
  <2>2. k \in KeyIds
    BY <2>1 DEF Stored, In
  <2>3. Call("invalidate", "revoke", k, NoKey, {}, {}) \in KeyCalls
    BY <2>2, KeyCallsTyped DEF MaybeKey
  <2>4. Call("invalidate", "revoke", k, NoKey, {}, {}).op = "invalidate" /\ Call("invalidate", "revoke", k, NoKey, {}, {}).pc = "revoke"
    BY DEF Call
  <2> QED BY <1>5, <2>1, <2>3, <2>4 DEF InvalidateFinds, rowVars, bootVars, historyVars
<1>6. CASE InvalidateRevokes(c)
  BY <1>6 DEF InvalidateRevokes, Answered, KeyStates, bootVars, historyVars
<1>7. CASE SweepLists(c)
  <2>1. PICK P \in SUBSET In({"live"}) :
            call' = [call EXCEPT ![c] = Call("sweep", "sweep", NoKey, NoKey, P, In({"live"}))]
    BY <1>7 DEF SweepLists
  <2>2. P \in SUBSET KeyIds /\ In({"live"}) \in SUBSET KeyIds
    BY <2>1 DEF In
  <2>3. Call("sweep", "sweep", NoKey, NoKey, P, In({"live"})) \in KeyCalls
    BY <2>2, KeyCallsTyped DEF MaybeKey
  <2>4. Call("sweep", "sweep", NoKey, NoKey, P, In({"live"})).op = "sweep" /\ Call("sweep", "sweep", NoKey, NoKey, P, In({"live"})).pc = "sweep"
    BY DEF Call
  <2> QED BY <1>7, <2>1, <2>3, <2>4 DEF SweepLists, rowVars, bootVars, historyVars
<1>8. CASE SweepRevokes(c)
  <2>1. PICK k \in call[c].todo :
            IF k \in Stored
            THEN /\ keyState' = [keyState EXCEPT ![k] = "revoked"]
                 /\ call' = [call EXCEPT ![c].todo = @ \ {k}]
            ELSE Answered(c) /\ UNCHANGED keyState
    BY <1>8 DEF SweepRevokes
  <2>2. k \in KeyIds
    BY <2>1 DEF KeyCalls
  <2>3. CASE k \in Stored
    <3>1. call'[c] \in KeyCalls /\ call'[c].op = call[c].op /\ call'[c].pc = call[c].pc
      BY <2>1, <2>3 DEF KeyCalls
    <3>2. call' = [call EXCEPT ![c] = call'[c]] /\ keyState' \in [KeyIds -> KeyStates]
      BY <2>1, <2>2, <2>3 DEF KeyStates
    <3> QED BY <1>8, <3>1, <3>2 DEF SweepRevokes, bootVars, historyVars
  <2>4. CASE k \notin Stored
    BY <1>8, <2>1, <2>4 DEF SweepRevokes, Answered, bootVars, historyVars
  <2> QED BY <2>3, <2>4
<1>9. CASE CleanupLists(c)
  <2> DEFINE D(P) == Call("cleanup", "cleanup", NoKey, NoKey, {k \in P : ToDelete(k)}, {})
  <2>1. PICK P \in SUBSET Stored : call' = [call EXCEPT ![c] = D(P)]
    BY <1>9 DEF CleanupLists
  <2>2. {k \in P : ToDelete(k)} \in SUBSET KeyIds
    BY <2>1 DEF Stored, In
  <2>3. D(P) \in KeyCalls
    BY <2>2, KeyCallsTyped DEF MaybeKey
  <2>4. D(P).op = "cleanup" /\ D(P).pc = "cleanup"
    BY DEF Call
  <2> HIDE DEF D
  <2> QED BY <1>9, <2>1, <2>3, <2>4 DEF CleanupLists, rowVars, bootVars, historyVars
<1>10. CASE CleanupDeletes(c)
  <2>1. PICK k \in call[c].todo :
            /\ keyState' = [keyState EXCEPT ![k] = "deleted"]
            /\ call' = [call EXCEPT ![c].todo = @ \ {k}]
    BY <1>10 DEF CleanupDeletes
  <2>2. call'[c] \in KeyCalls /\ call'[c].op = call[c].op /\ call'[c].pc = call[c].pc
    BY <2>1 DEF KeyCalls
  <2>3. call' = [call EXCEPT ![c] = call'[c]] /\ keyState' \in [KeyIds -> KeyStates]
    BY <2>1 DEF KeyStates
  <2> QED BY <1>10, <2>2, <2>3 DEF CleanupDeletes, bootVars, historyVars
<1>11. CASE SweepEnds(c) \/ CleanupEnds(c) \/ CallDies(c)
  BY <1>11 DEF SweepEnds, CleanupEnds, CallDies, Answered, rowVars, bootVars, historyVars
<1> QED BY <1>1, <1>2, <1>3, <1>4, <1>5, <1>6, <1>7, <1>8, <1>9, <1>10, <1>11

\* No step takes a key back.
LEMMA StepsGoOnward ==
    ASSUME KeysTypeOK, CallsAreSound, [ApiKeysNext]_apiKeyVars
    PROVE  Onward
<1>1. ASSUME UNCHANGED <<keyState, age>> PROVE Onward
  BY <1>1 DEF Onward
<1>2. ASSUME NEW k \in KeyIds, keyState[k] = "unused",
             keyState' = [keyState EXCEPT ![k] = "live"], UNCHANGED age
      PROVE  Onward
  BY <1>2 DEF Onward, KeysTypeOK
<1>3. ASSUME NEW k \in Stored, keyState' = [keyState EXCEPT ![k] = "revoked"], UNCHANGED age
      PROVE  Onward
  BY <1>3 DEF Onward, KeysTypeOK, Stored, In
<1>4. \A k \in KeyIds : IsNext(k) => keyState[k] = "unused"
  BY KeysOfTheTable
<1>5. ASSUME NEW c \in Calls, CreateToken(c) \/ RefreshCreates(c) PROVE Onward
  BY <1>2, <1>4, <1>5 DEF CreateToken, RefreshCreates
<1>6. ASSUME NEW c \in Calls, RefreshMarks(c) \/ InvalidateRevokes(c) PROVE Onward
  <2>1. CASE call[c].key \in Stored
    BY <1>3, <1>6, <2>1 DEF RefreshMarks, InvalidateRevokes
  <2>2. CASE call[c].key \notin Stored
    BY <1>1, <1>6, <2>2 DEF RefreshMarks, InvalidateRevokes
  <2> QED BY <2>1, <2>2
<1>7. ASSUME NEW c \in Calls, SweepRevokes(c) PROVE Onward
  <2>1. PICK k \in call[c].todo :
            IF k \in Stored
            THEN keyState' = [keyState EXCEPT ![k] = "revoked"]
            ELSE UNCHANGED keyState
    BY <1>7 DEF SweepRevokes
  <2>2. UNCHANGED age
    BY <1>7 DEF SweepRevokes
  <2> QED BY <1>1, <1>3, <2>1, <2>2
<1>8. ASSUME NEW c \in Calls, CleanupDeletes(c) PROVE Onward
  <2>1. PICK k \in call[c].todo : keyState' = [keyState EXCEPT ![k] = "deleted"]
    BY <1>8 DEF CleanupDeletes
  <2>2. k \in KeyIds /\ (age[k] = "lapsed" \/ Spent(k)) /\ UNCHANGED age
    BY <1>8, <2>1 DEF CleanupDeletes, CallsAreSound, CallIsSound, KeysTypeOK, KeyCalls
  <2> QED BY <2>1, <2>2 DEF Onward, KeysTypeOK, Spent
<1>9. ASSUME NEW k \in KeyIds, Ages(k) PROVE Onward
  BY <1>9 DEF Ages, Onward, KeysTypeOK
<1>10. ASSUME NEW b \in Boots, BootPersists(b) PROVE Onward
  BY <1>2, <1>4, <1>10 DEF BootPersists, Mint
<1>11. ASSUME NEW b \in Boots, BootTakesEnv(b) PROVE Onward
  BY <1>1, <1>2, <1>4, <1>11 DEF BootTakesEnv, Mint
<1>12. ASSUME NEW c \in Calls, \/ RefreshFinds(c) \/ InvalidateFinds(c) \/ SweepLists(c) \/ SweepEnds(c)
                               \/ CleanupLists(c) \/ CleanupEnds(c) \/ CallDies(c)
       PROVE  Onward
  BY <1>1, <1>12 DEF RefreshFinds, InvalidateFinds, SweepLists, SweepEnds, CleanupLists, CleanupEnds, CallDies, rowVars
<1>13. ASSUME NEW b \in Boots, \/ BootChecks(b) \/ BootFindsRole(b) \/ BootAddsRole(b) \/ BootHasNoFiles(b)
                               \/ BootCalls(b) \/ BootWrites(b) \/ BootIsReadOnly(b) \/ BootDies(b)
       PROVE  Onward
  BY <1>1, <1>13 DEF BootChecks, BootFindsRole, BootAddsRole, BootHasNoFiles, BootCalls, BootWrites, BootIsReadOnly, BootDies, rowVars
<1>14. CASE UNCHANGED apiKeyVars
  BY <1>1, <1>14 DEF apiKeyVars, rowVars
<1> QED
  BY <1>5, <1>6, <1>7, <1>8, <1>9, <1>10, <1>11, <1>12, <1>13, <1>14 DEF ApiKeysNext

\* Boots keep the types, and carry a key from its row to the hand-over.
LEMMA BootsKeepTypes ==
    ASSUME KeysTypeOK, BootsCarryKeys, Onward, NEW b \in Boots,
           \/ BootChecks(b) \/ BootFindsRole(b) \/ BootAddsRole(b)
           \/ BootPersists(b) \/ BootHasNoFiles(b)
           \/ BootCalls(b) \/ BootWrites(b) \/ BootIsReadOnly(b) \/ BootTakesEnv(b)
           \/ BootDies(b)
    PROVE  KeysTypeOK' /\ BootsCarryKeys'
<1> USE DEF KeysTypeOK
<1> DEFINE Carries(r) == IF r.pc \in {"callback", "file"} THEN r.key \in KeyIds ELSE r.key = NoKey
<1>1. NoKey \notin KeyIds /\ \A k \in KeyIds : IsNext(k) => keyState[k] = "unused"
  BY KeysOfTheTable
<1>2. UNCHANGED <<replacedBy, age, call, heirOf>>
  BY DEF BootChecks, BootFindsRole, BootAddsRole, BootPersists, BootHasNoFiles, BootCalls,
         BootWrites, BootIsReadOnly, BootTakesEnv, BootDies, rowVars, historyVars
<1>3. keyState' \in [KeyIds -> KeyStates]
  BY DEF BootChecks, BootFindsRole, BootAddsRole, BootPersists, BootHasNoFiles, BootCalls, Mint, KeyStates,
         BootWrites, BootIsReadOnly, BootTakesEnv, BootDies, rowVars
<1>4. \A pc \in {"off", "role", "addRole", "persist", "env", "up"} :
          BootAt(b, pc) => \E r \in KeyBoots : boot' = [boot EXCEPT ![b] = r] /\ r.pc = pc /\ Carries(r) /\ r.key = NoKey
  <2> SUFFICES ASSUME NEW pc \in {"off", "role", "addRole", "persist", "env", "up"}, BootAt(b, pc)
               PROVE  \E r \in KeyBoots : /\ boot' = [boot EXCEPT ![b] = r]
                                         /\ r.pc = pc /\ Carries(r) /\ r.key = NoKey
    OBVIOUS
  <2>1. PICK r : r = [pc |-> pc, key |-> NoKey]
    OBVIOUS
  <2>2. r \in KeyBoots
    BY <2>1 DEF KeyBoots, MaybeKey
  <2>3. r.pc = pc /\ r.key = NoKey
    BY <2>1
  <2>4. Carries(r)
    BY <2>3
  <2>5. boot' = [boot EXCEPT ![b] = r]
    BY <2>1 DEF BootAt
  <2> QED BY <2>2, <2>3, <2>4, <2>5
<1>5. \E r \in KeyBoots : /\ boot' = [boot EXCEPT ![b] = r] /\ Carries(r)
                          /\ r.key \in KeyIds => Ever(r.key)'
  <2>1. CASE BootPersists(b)
    <3>1. PICK k \in KeyIds, pc \in {"callback", "file"} : Mint(k) /\ boot' = [boot EXCEPT ![b] = [pc |-> pc, key |-> k]]
      BY <2>1 DEF BootPersists
    <3>2. keyState'[k] = "live"
      BY <3>1 DEF Mint
    <3>3. [pc |-> pc, key |-> k] \in KeyBoots
      BY DEF KeyBoots, MaybeKey
    <3>4. Carries([pc |-> pc, key |-> k]) /\ Ever(k)'
      BY <3>2 DEF Ever
    <3> QED BY <3>1, <3>3, <3>4
  <2>2. CASE BootTakesEnv(b)
    BY <1>1, <1>4, <2>2 DEF BootTakesEnv
  <2>3. CASE BootWrites(b)
    BY <1>1, <1>4, <2>3 DEF BootWrites, HandsOver
  <2>4. CASE \/ BootChecks(b) \/ BootFindsRole(b) \/ BootAddsRole(b) \/ BootHasNoFiles(b)
             \/ BootCalls(b) \/ BootIsReadOnly(b) \/ BootDies(b)
    BY <1>1, <1>4, <2>4 DEF BootChecks, BootFindsRole, BootAddsRole, BootHasNoFiles, BootCalls, BootIsReadOnly, BootDies, HandsOver
  <2> QED BY <2>1, <2>2, <2>3, <2>4
<1>6. PICK r \in KeyBoots : /\ boot' = [boot EXCEPT ![b] = r] /\ Carries(r)
                            /\ r.key \in KeyIds => Ever(r.key)'
  BY <1>5
<1>7. boot[b].pc \in {"callback", "file"} => boot[b].key \in KeyIds
  BY DEF BootsCarryKeys
<1>8. boot[b].key \in KeyIds \cup {NoKey}
  BY DEF KeyBoots, MaybeKey
<1>9. held' \subseteq KeyIds /\ dropped' \subseteq KeyIds
  <2>1. CASE BootWrites(b) \/ BootCalls(b) \/ BootIsReadOnly(b)
    BY <1>7, <2>1 DEF BootWrites, BootCalls, BootIsReadOnly, HandsOver
  <2>2. CASE BootTakesEnv(b)
    BY <2>2 DEF BootTakesEnv
  <2>3. CASE BootDies(b)
    BY <1>8, <2>3 DEF BootDies
  <2>4. CASE \/ BootChecks(b) \/ BootFindsRole(b) \/ BootAddsRole(b) \/ BootHasNoFiles(b) \/ BootPersists(b)
    BY <2>4 DEF BootChecks, BootFindsRole, BootAddsRole, BootHasNoFiles, BootPersists, historyVars
  <2> QED BY <2>1, <2>2, <2>3, <2>4
<1>10. KeysTypeOK'
  BY <1>2, <1>3, <1>6, <1>9
<1>11. BootsCarryKeys'
  <2> SUFFICES ASSUME NEW d \in Boots
               PROVE  IF boot'[d].pc \in {"callback", "file"} THEN boot'[d].key \in KeyIds /\ keyState'[boot'[d].key] # "unused"
                      ELSE boot'[d].key = NoKey
    BY DEF BootsCarryKeys, Ever
  <2>1. CASE d = b
    BY <1>6, <2>1 DEF Ever
  <2>2. CASE d # b
    <3>1. boot'[d] = boot[d]
      BY <1>6, <2>2
    <3> QED BY <3>1 DEF BootsCarryKeys, Onward, Ever
  <2> QED BY <2>1, <2>2
<1> QED BY <1>10, <1>11

\* A page with room for all rows holds all rows.
LEMMA PageHoldsAll ==
    ASSUME NEW S \in SUBSET KeyIds, NEW P, FirstPage(S, P), Cardinality(S) <= KeyPage
    PROVE  P = S
<1>1. IsFiniteSet(S) /\ Cardinality(S) \in Nat
  <2>1. IsFiniteSet(KeyIds)
    BY ApiKeysAssumption, FS_Interval DEF KeyIds
  <2> QED BY <2>1, FS_Subset, FS_CardinalityType
<1>2. ASSUME NEW k \in S, NEW T \in SUBSET S, k \notin T PROVE Cardinality(T) < KeyPage
  <2>1. T \in SUBSET (S \ {k}) /\ k \in S
    BY <1>2
  <2>2. IsFiniteSet(S \ {k}) /\ Cardinality(S \ {k}) = Cardinality(S) - 1
    BY <1>1, FS_RemoveElement
  <2>3. Cardinality(T) <= Cardinality(S \ {k})
    BY <2>1, <2>2, FS_Subset
  <2>4. Cardinality(T) \in Nat
    BY <2>1, <2>2, FS_Subset, FS_CardinalityType
  <2> QED BY <1>1, <2>2, <2>3, <2>4, ApiKeysAssumption
<1>3. \A k \in S : /\ Cardinality({j \in S : j > k}) < KeyPage
                   /\ Cardinality({j \in S : j < k}) < KeyPage
  <2> SUFFICES ASSUME NEW k \in S PROVE /\ Cardinality({j \in S : j > k}) < KeyPage
                                        /\ Cardinality({j \in S : j < k}) < KeyPage
    OBVIOUS
  <2>1. k \in Int
    BY ApiKeysAssumption DEF KeyIds
  <2>2. k \notin {j \in S : j > k} /\ k \notin {j \in S : j < k}
    BY <2>1
  <2> QED BY <1>2, <2>2
<1> QED BY <1>3 DEF FirstPage

\* What calls remember stays true while other calls run, and a call remembers
\* only what it has read.
LEMMA CallsStaySound ==
    ASSUME KeysTypeOK, CallsAreSound, KeysTypeOK', Onward, [ApiKeysNext]_apiKeyVars
    PROVE  CallsAreSound'
<1>1. ASSUME NEW d \in Calls, call'[d] = call[d] PROVE CallIsSound(d)'
  <2>1. CallIsSound(d) /\ call[d] \in KeyCalls
    BY DEF CallsAreSound, KeysTypeOK
  <2>2. \A k \in KeyIds : /\ Spent(k) => Spent(k)'
                          /\ Ever(k) => Ever(k)'
                          /\ age[k] = "lapsed" => age'[k] = "lapsed"
    BY DEF Onward, Spent, Ever
  <2>3. call[d].todo \subseteq KeyIds /\ call[d].all \subseteq KeyIds
    BY <2>1 DEF KeyCalls
  <2>4. call[d].key \in KeyIds => Ever(call[d].key)'
    BY <2>1, <2>2, <1>1 DEF CallIsSound, Ever
  <2>5. call[d].pc = "cleanup" => \A k \in call[d].todo : Ever(k)' /\ (age'[k] = "lapsed" \/ Spent(k)')
    BY <2>1, <2>2, <2>3 DEF CallIsSound
  <2>6. call[d].pc = "sweep" /\ Cardinality(call[d].all) <= KeyPage => \A k \in call[d].all \ call[d].todo : Spent(k)'
    BY <2>1, <2>2, <2>3 DEF CallIsSound
  <2> QED BY <1>1, <2>1, <2>4, <2>5, <2>6 DEF CallIsSound, Ever, Spent
<1>2. ASSUME NEW d \in Calls, call'[d].pc \in {"idle", "create", "mark", "revoke"},
             call'[d].pc \in {"create", "mark"} => call'[d].key \in KeyIds,
             call'[d].key \in KeyIds => keyState'[call'[d].key] # "unused"
      PROVE  CallIsSound(d)'
  BY <1>2 DEF CallIsSound, Ever
<1>3. NoCall.pc = "idle" /\ NoCall.key = NoKey /\ NoKey \notin KeyIds
  BY KeysOfTheTable DEF NoCall, Call
<1>4. ASSUME NEW c \in Calls, call' = [call EXCEPT ![c] = call'[c]], CallIsSound(c)'
      PROVE  CallsAreSound'
  <2>1. \A d \in Calls : d = c \/ call'[d] = call[d]
    BY <1>4 DEF KeysTypeOK
  <2> QED BY <1>1, <1>4, <2>1 DEF CallsAreSound
<1>5. ASSUME NEW c \in Calls, Answered(c) PROVE CallsAreSound'
  <2>1. call'[c] = NoCall /\ call' = [call EXCEPT ![c] = call'[c]]
    BY <1>5 DEF Answered, KeysTypeOK
  <2> QED BY <1>2, <1>3, <1>4, <2>1
<1>6. ASSUME UNCHANGED call PROVE CallsAreSound'
  BY <1>1, <1>6 DEF CallsAreSound
<1>7. \A k \in Stored : k \in KeyIds /\ keyState[k] # "unused"
  BY KeysOfTheTable
<1>8. ASSUME NEW c \in Calls, NEW k \in Stored, NEW op, NEW pc \in {"create", "revoke"},
             call' = [call EXCEPT ![c] = Call(op, pc, k, NoKey, {}, {})]
      PROVE  CallsAreSound'
  <2>1. call'[c] = Call(op, pc, k, NoKey, {}, {}) /\ call' = [call EXCEPT ![c] = call'[c]]
    BY <1>8 DEF KeysTypeOK
  <2>2. call'[c].pc = pc /\ call'[c].key = k
    BY <2>1 DEF Call
  <2>3. k \in KeyIds /\ keyState'[k] # "unused"
    BY <1>7 DEF Onward
  <2> QED BY <1>2, <1>4, <2>1, <2>2, <2>3
<1>9. ASSUME NEW c \in Calls, RefreshFinds(c) \/ InvalidateFinds(c) PROVE CallsAreSound'
  <2>1. In({"live"}) \subseteq Stored
    BY KeysOfTheTable
  <2>2. CASE RefreshFinds(c)
    BY <1>8, <2>1, <2>2 DEF RefreshFinds
  <2>3. CASE InvalidateFinds(c)
    BY <1>8, <2>3 DEF InvalidateFinds
  <2> QED BY <1>9, <2>2, <2>3
<1>10. ASSUME NEW c \in Calls, RefreshCreates(c) PROVE CallsAreSound'
  <2>1. PICK k \in KeyIds : call' = [call EXCEPT ![c].pc = "mark", ![c].new = k]
    BY <1>10 DEF RefreshCreates
  <2>2. call' = [call EXCEPT ![c] = call'[c]]
    BY <2>1 DEF KeysTypeOK
  <2>3. call'[c].pc = "mark" /\ call'[c].key = call[c].key
    BY <2>1 DEF KeysTypeOK, KeyCalls
  <2>4. call[c].key \in KeyIds /\ Ever(call[c].key)
    BY <1>10 DEF RefreshCreates, CallsAreSound, CallIsSound
  <2> QED BY <1>2, <1>4, <2>2, <2>3, <2>4 DEF Onward, Ever
<1>11. ASSUME NEW c \in Calls, SweepLists(c) PROVE CallsAreSound'
  <2> DEFINE S == In({"live"})
  <2>1. PICK P \in SUBSET S : /\ FirstPage(S, P)
                              /\ call' = [call EXCEPT ![c] = Call("sweep", "sweep", NoKey, NoKey, P, S)]
    BY <1>11 DEF SweepLists, SweepPage
  <2>2. call'[c] = Call("sweep", "sweep", NoKey, NoKey, P, S) /\ call' = [call EXCEPT ![c] = call'[c]]
    BY <2>1 DEF KeysTypeOK
  <2>3. call'[c].pc = "sweep" /\ call'[c].key = NoKey /\ call'[c].todo = P /\ call'[c].all = S
    BY <2>2 DEF Call
  <2>4. S \in SUBSET KeyIds
    BY DEF In
  <2> HIDE DEF S
  <2>5. Cardinality(S) <= KeyPage => P = S
    BY <2>1, <2>4, PageHoldsAll
  <2>6. CallIsSound(c)'
    BY <1>3, <2>3, <2>5 DEF CallIsSound
  <2> QED BY <1>4, <2>2, <2>6
<1>12. ASSUME NEW c \in Calls, SweepRevokes(c) PROVE CallsAreSound'
  <2>1. PICK k \in call[c].todo :
            IF k \in Stored
            THEN /\ keyState' = [keyState EXCEPT ![k] = "revoked"]
                 /\ call' = [call EXCEPT ![c].todo = @ \ {k}]
            ELSE Answered(c)
    BY <1>12 DEF SweepRevokes
  <2>2. CASE k \notin Stored
    BY <1>5, <2>1, <2>2
  <2>3. CASE k \in Stored
    <3>1. call' = [call EXCEPT ![c] = call'[c]]
      BY <2>1, <2>3 DEF KeysTypeOK
    <3>2. /\ call'[c].pc = "sweep" /\ call'[c].key = call[c].key
          /\ call'[c].todo = call[c].todo \ {k} /\ call'[c].all = call[c].all
      BY <1>12, <2>1, <2>3 DEF SweepRevokes, KeysTypeOK, KeyCalls
    <3>3. CallIsSound(c) /\ call[c].pc = "sweep" /\ call[c].all \subseteq KeyIds
      BY <1>12 DEF SweepRevokes, CallsAreSound, KeysTypeOK, KeyCalls
    <3>4. keyState'[k] = "revoked"
      BY <1>7, <2>1, <2>3 DEF KeysTypeOK
    <3>5. ASSUME Cardinality(call[c].all) <= KeyPage, NEW j \in call[c].all \ (call[c].todo \ {k})
          PROVE  keyState'[j] \in {"revoked", "deleted"}
      BY <3>3, <3>4, <3>5 DEF CallIsSound, Spent, Onward
    <3>6. call[c].key \in KeyIds => keyState'[call[c].key] # "unused"
      BY <3>3 DEF CallIsSound, Ever, Onward
    <3>7. CallIsSound(c)'
      BY <3>2, <3>5, <3>6 DEF CallIsSound, Spent, Ever
    <3> QED BY <1>4, <3>1, <3>7
  <2> QED BY <2>2, <2>3
<1>13. ASSUME NEW c \in Calls, CleanupLists(c) PROVE CallsAreSound'
  <2> DEFINE Stale(P) == {k \in P : ToDelete(k)}
  <2>1. PICK P \in SUBSET Stored : call' = [call EXCEPT ![c] = Call("cleanup", "cleanup", NoKey, NoKey, Stale(P), {})]
    BY <1>13 DEF CleanupLists
  <2>2. UNCHANGED <<keyState, age>>
    BY <1>13 DEF CleanupLists, rowVars
  <2>3. \A k \in Stale(P) : keyState[k] # "unused" /\ (age[k] = "lapsed" \/ keyState[k] = "revoked")
    BY <1>7 DEF ToDelete
  <2> HIDE DEF Stale
  <2>4. call'[c] = Call("cleanup", "cleanup", NoKey, NoKey, Stale(P), {}) /\ call' = [call EXCEPT ![c] = call'[c]]
    BY <2>1 DEF KeysTypeOK
  <2>5. call'[c].pc = "cleanup" /\ call'[c].key = NoKey /\ call'[c].todo = Stale(P)
    BY <2>4 DEF Call
  <2>6. CallIsSound(c)'
    BY <1>3, <2>2, <2>3, <2>5 DEF CallIsSound, Spent, Ever
  <2> QED BY <1>4, <2>4, <2>6
<1>14. ASSUME NEW c \in Calls, CleanupDeletes(c) PROVE CallsAreSound'
  <2>1. PICK k \in call[c].todo : call' = [call EXCEPT ![c].todo = @ \ {k}]
    BY <1>14 DEF CleanupDeletes
  <2>2. call' = [call EXCEPT ![c] = call'[c]]
    BY <2>1 DEF KeysTypeOK
  <2>3. call'[c].pc = "cleanup" /\ call'[c].key = call[c].key /\ call'[c].todo = call[c].todo \ {k}
    BY <1>14, <2>1 DEF CleanupDeletes, KeysTypeOK, KeyCalls
  <2>4. CallIsSound(c) /\ call[c].pc = "cleanup" /\ call[c].todo \subseteq KeyIds
    BY <1>14 DEF CleanupDeletes, CallsAreSound, KeysTypeOK, KeyCalls
  <2>5. \A j \in call[c].todo : /\ keyState'[j] # "unused"
                                /\ age'[j] = "lapsed" \/ keyState'[j] \in {"revoked", "deleted"}
    BY <2>4 DEF CallIsSound, Spent, Ever, Onward
  <2>6. call[c].key \in KeyIds => keyState'[call[c].key] # "unused"
    BY <2>4 DEF CallIsSound, Ever, Onward
  <2>7. CallIsSound(c)'
    BY <2>3, <2>5, <2>6 DEF CallIsSound, Spent, Ever
  <2> QED BY <1>4, <2>2, <2>7
<1>15. ASSUME NEW c \in Calls, \/ RefreshMarks(c) \/ InvalidateRevokes(c)
                               \/ SweepEnds(c) \/ CleanupEnds(c) \/ CallDies(c)
       PROVE  CallsAreSound'
  BY <1>5, <1>15 DEF RefreshMarks, InvalidateRevokes, SweepEnds, CleanupEnds, CallDies
<1>16. ASSUME \/ \E c \in Calls : CreateToken(c)
              \/ \E k \in KeyIds : Ages(k)
              \/ UNCHANGED apiKeyVars
       PROVE  CallsAreSound'
  BY <1>6, <1>16 DEF CreateToken, Ages, apiKeyVars
<1>17. ASSUME NEW b \in Boots, \/ BootChecks(b) \/ BootFindsRole(b) \/ BootAddsRole(b)
                               \/ BootPersists(b) \/ BootHasNoFiles(b)
                               \/ BootCalls(b) \/ BootWrites(b) \/ BootIsReadOnly(b) \/ BootTakesEnv(b)
                               \/ BootDies(b)
       PROVE  CallsAreSound'
  BY <1>6, <1>17 DEF BootChecks, BootFindsRole, BootAddsRole, BootPersists, BootHasNoFiles, BootCalls,
         BootWrites, BootIsReadOnly, BootTakesEnv, BootDies
<1> QED
  BY <1>9, <1>10, <1>11, <1>12, <1>13, <1>14, <1>15, <1>16, <1>17 DEF ApiKeysNext

\* Who holds the first key, or lost it, is known, and a process is up only over a table with keys.
LEMMA FirstKeyStaysKnown ==
    ASSUME KeysTypeOK, BootsCarryKeys, FirstKeyIsKnown, UpHasRows, CallsAreSound, Onward,
           [ApiKeysNext]_apiKeyVars
    PROVE  FirstKeyIsKnown' /\ UpHasRows'
<1> DEFINE Known == held # {} \/ dropped # {} \/ \E b \in Boots : boot[b].key # NoKey
           Rows == \E k \in KeyIds : Ever(k)
<1>1. Rows => Rows'
  BY DEF Onward, Ever
<1>2. ASSUME UNCHANGED boot, held \subseteq held', dropped \subseteq dropped', Rows' => Rows \/ Known'
      PROVE  FirstKeyIsKnown' /\ UpHasRows'
  BY <1>1, <1>2 DEF FirstKeyIsKnown, UpHasRows
<1>3. ASSUME UNCHANGED keyState PROVE Rows' => Rows
  BY <1>3 DEF Ever
<1>4. ASSUME NEW c \in Calls, \/ CreateToken(c)
                              \/ RefreshFinds(c) \/ RefreshCreates(c) \/ RefreshMarks(c)
                              \/ InvalidateFinds(c) \/ InvalidateRevokes(c)
                              \/ SweepLists(c) \/ SweepRevokes(c) \/ SweepEnds(c)
                              \/ CleanupLists(c) \/ CleanupDeletes(c) \/ CleanupEnds(c)
                              \/ CallDies(c)
      PROVE  FirstKeyIsKnown' /\ UpHasRows'
  <2>1. CASE CreateToken(c)
    BY <1>2, <2>1 DEF CreateToken, bootVars
  <2>2. CASE RefreshCreates(c)
    <3>1. Rows
      BY <2>2 DEF RefreshCreates, CallsAreSound, CallIsSound
    <3> HIDE DEF Rows
    <3> QED BY <1>2, <2>2, <3>1 DEF RefreshCreates, bootVars
  <2>3. CASE \/ RefreshFinds(c) \/ InvalidateFinds(c) \/ SweepLists(c) \/ SweepEnds(c)
             \/ CleanupLists(c) \/ CleanupEnds(c) \/ CallDies(c)
    BY <1>2, <1>3, <2>3 DEF RefreshFinds, InvalidateFinds, SweepLists, SweepEnds, CleanupLists, CleanupEnds, CallDies,
           rowVars, bootVars, historyVars
  <2>4. ASSUME NEW k \in KeyIds, Ever(k) PROVE Rows
    BY <2>4
  <2>5. CASE RefreshMarks(c)
    <3>1. Rows
      BY <2>5 DEF RefreshMarks, CallsAreSound, CallIsSound
    <3>2. held \subseteq held'
      BY <2>5 DEF RefreshMarks
    <3> HIDE DEF Rows
    <3> QED BY <1>2, <2>5, <3>1, <3>2 DEF RefreshMarks, bootVars
  <2>6. CASE InvalidateRevokes(c)
    <3>1. call[c].key \in Stored => Rows
      BY KeysOfTheTable DEF Ever
    <3>2. Rows' => Rows
      <4>1. CASE call[c].key \in Stored
        BY <3>1, <4>1
      <4>2. CASE call[c].key \notin Stored
        BY <1>3, <2>6, <4>2 DEF InvalidateRevokes
      <4> QED BY <4>1, <4>2
    <3> HIDE DEF Rows
    <3> QED BY <1>2, <2>6, <3>2 DEF InvalidateRevokes, bootVars, historyVars
  <2>7. CASE SweepRevokes(c)
    <3>1. PICK k \in call[c].todo : k \in Stored \/ UNCHANGED keyState
      BY <2>7 DEF SweepRevokes
    <3>2. Rows' => Rows
      <4>1. CASE k \in Stored
        BY <4>1, KeysOfTheTable DEF Ever
      <4>2. CASE k \notin Stored
        BY <1>3, <3>1, <4>2
      <4> QED BY <4>1, <4>2
    <3> HIDE DEF Rows
    <3> QED BY <1>2, <2>7, <3>2 DEF SweepRevokes, bootVars, historyVars
  <2>8. CASE CleanupDeletes(c)
    <3>1. PICK k \in call[c].todo : TRUE
      BY <2>8 DEF CleanupDeletes
    <3>2. k \in KeyIds /\ Ever(k)
      BY <2>8, <3>1 DEF CleanupDeletes, CallsAreSound, CallIsSound, KeysTypeOK, KeyCalls
    <3>3. Rows
      BY <3>2
    <3> HIDE DEF Rows
    <3> QED BY <1>2, <2>8, <3>3 DEF CleanupDeletes, bootVars, historyVars
  <2> QED BY <1>4, <2>1, <2>2, <2>3, <2>5, <2>6, <2>7, <2>8
<1>5. ASSUME \/ \E k \in KeyIds : Ages(k)
             \/ UNCHANGED apiKeyVars
      PROVE  FirstKeyIsKnown' /\ UpHasRows'
  BY <1>2, <1>3, <1>5 DEF Ages, apiKeyVars, rowVars, bootVars, historyVars
<1>6. ASSUME NEW b \in Boots, \/ BootChecks(b) \/ BootFindsRole(b) \/ BootAddsRole(b)
                              \/ BootPersists(b) \/ BootHasNoFiles(b)
                              \/ BootCalls(b) \/ BootWrites(b) \/ BootIsReadOnly(b) \/ BootTakesEnv(b)
                              \/ BootDies(b)
      PROVE  FirstKeyIsKnown' /\ UpHasRows'
  <2>1. boot[b] \in KeyBoots /\ NoKey \notin KeyIds
    BY KeysOfTheTable DEF KeysTypeOK
  <2>2. boot[b].key # NoKey <=> boot[b].pc \in {"callback", "file"}
    BY <2>1 DEF BootsCarryKeys
  <2>3. held \subseteq held' /\ dropped \subseteq dropped'
    BY <1>6 DEF BootChecks, BootFindsRole, BootAddsRole, BootPersists, BootHasNoFiles, BootCalls, BootWrites,
           BootIsReadOnly, BootTakesEnv, BootDies, HandsOver, historyVars
  <2>4. boot[b].key # NoKey => held' # {} \/ dropped' # {}
    <3>1. CASE BootCalls(b) \/ BootWrites(b) \/ BootIsReadOnly(b) \/ BootDies(b)
      BY <3>1 DEF BootCalls, BootWrites, BootIsReadOnly, BootDies, HandsOver
    <3>2. CASE \/ BootChecks(b) \/ BootFindsRole(b) \/ BootAddsRole(b)
               \/ BootPersists(b) \/ BootHasNoFiles(b) \/ BootTakesEnv(b)
      BY <2>2, <3>2 DEF BootChecks, BootFindsRole, BootAddsRole, BootPersists, BootHasNoFiles, BootTakesEnv
    <3> QED BY <1>6, <3>1, <3>2
  <2>5. UNCHANGED keyState \/ held' # {} \/ boot'[b].key # NoKey
    <3>1. CASE BootPersists(b)
      <4>1. PICK k \in KeyIds, pc \in {"callback", "file"} : boot' = [boot EXCEPT ![b] = [pc |-> pc, key |-> k]]
        BY <3>1 DEF BootPersists
      <4> QED BY <2>1, <4>1 DEF KeysTypeOK
    <3>2. CASE BootTakesEnv(b)
      BY <3>2 DEF BootTakesEnv
    <3>3. CASE \/ BootChecks(b) \/ BootFindsRole(b) \/ BootAddsRole(b) \/ BootHasNoFiles(b)
               \/ BootCalls(b) \/ BootWrites(b) \/ BootIsReadOnly(b) \/ BootDies(b)
      BY <3>3 DEF BootChecks, BootFindsRole, BootAddsRole, BootHasNoFiles, BootCalls, BootWrites,
             BootIsReadOnly, BootDies, rowVars
    <3> QED BY <1>6, <3>1, <3>2, <3>3
  <2>6. \A d \in Boots : d = b \/ boot'[d] = boot[d]
    <3>1. CASE BootPersists(b)
      BY <3>1 DEF BootPersists, KeysTypeOK
    <3>2. CASE BootTakesEnv(b) \/ BootWrites(b)
      BY <3>2 DEF BootTakesEnv, BootWrites, HandsOver, BootAt, KeysTypeOK
    <3>3. CASE \/ BootChecks(b) \/ BootFindsRole(b) \/ BootAddsRole(b) \/ BootHasNoFiles(b)
               \/ BootCalls(b) \/ BootIsReadOnly(b) \/ BootDies(b)
      BY <3>3 DEF BootChecks, BootFindsRole, BootAddsRole, BootHasNoFiles, BootCalls, HandsOver,
             BootIsReadOnly, BootDies, BootAt, KeysTypeOK
    <3> QED BY <1>6, <3>1, <3>2, <3>3
  <2>7. boot'[b].pc = "up" => Rows'
    <3>1. ASSUME NEW pc, BootAt(b, pc) PROVE boot'[b].pc = pc
      BY <3>1 DEF BootAt, KeysTypeOK
    <3>2. CASE BootChecks(b)
      <4>1. Stored # {} => Rows
        BY KeysOfTheTable DEF Ever
      <4>2. boot'[b].pc = "up" => Stored # {}
        BY <3>1, <3>2 DEF BootChecks
      <4> QED BY <1>1, <4>1, <4>2
    <3>3. CASE BootCalls(b) \/ BootWrites(b)
      <4>1. boot[b].key \in KeyIds /\ Ever(boot[b].key)
        BY <3>3 DEF BootCalls, BootWrites, BootsCarryKeys
      <4> QED BY <1>1, <4>1
    <3>4. CASE BootPersists(b)
      <4>1. PICK k \in KeyIds, pc \in {"callback", "file"} : boot' = [boot EXCEPT ![b] = [pc |-> pc, key |-> k]]
        BY <3>4 DEF BootPersists
      <4> QED BY <4>1 DEF KeysTypeOK
    <3>5. CASE BootTakesEnv(b)
      <4>1. CASE BootAt(b, "off")
        BY <3>1, <4>1
      <4>2. ASSUME NEW k \in KeyIds, Mint(k) PROVE Rows'
        BY <4>2 DEF Mint, Ever, KeysTypeOK
      <4> QED BY <3>5, <4>1, <4>2 DEF BootTakesEnv
    <3>6. CASE \/ BootFindsRole(b) \/ BootAddsRole(b) \/ BootHasNoFiles(b)
               \/ BootIsReadOnly(b) \/ BootDies(b)
      BY <3>1, <3>6 DEF BootFindsRole, BootAddsRole, BootHasNoFiles, BootIsReadOnly, BootDies
    <3> QED BY <1>6, <3>2, <3>3, <3>4, <3>5, <3>6
  <2>8. FirstKeyIsKnown'
    <3>1. CASE Rows
      BY <2>3, <2>4, <2>6, <3>1 DEF FirstKeyIsKnown
    <3>2. CASE ~Rows
      BY <1>3, <2>5, <3>2 DEF FirstKeyIsKnown
    <3> QED BY <3>1, <3>2
  <2>9. UpHasRows'
    BY <1>1, <2>6, <2>7 DEF UpHasRows
  <2> QED BY <2>8, <2>9
<1> QED BY <1>4, <1>5, <1>6 DEF ApiKeysNext

\* The refresh of a key is where it was after a step that leaves its calls and its row's heir.
LEMMA RotationStays ==
    ASSUME Onward, NEW k \in KeyIds, Rotated(k), Heirs(k)' = Heirs(k), replacedBy'[k] = replacedBy[k],
           \A d \in Calls : \/ call'[d] = call[d]
                            \/ /\ ~(call[d].op = "refresh" /\ call[d].key = k)
                               /\ ~(call'[d].op = "refresh" /\ call'[d].key = k)
    PROVE  Rotated(k)'
<1>1. Refreshing(k)' = Refreshing(k) /\ \A d \in Refreshing(k) : call'[d] = call[d]
  BY DEF Refreshing
<1>2. keyState[k] = "deleted" => keyState'[k] = "deleted"
  BY DEF Onward
<1>3. keyState[k] = "revoked" => keyState'[k] \in {"revoked", "deleted"}
  BY DEF Onward
<1> QED BY <1>1, <1>2, <1>3 DEF Rotated

\* How far every refresh has come stays known.
LEMMA RotationsStayKnown ==
    ASSUME KeysInv, KeysTypeOK', Onward, [ApiKeysNext]_apiKeyVars
    PROVE  RotationsAreKnown'
<1> USE DEF KeysInv
<1>1. ASSUME UNCHANGED <<heirOf, replacedBy, raced>>,
             \A d \in Calls : call'[d] = call[d] \/ (call[d].op # "refresh" /\ call'[d].op # "refresh")
      PROVE  RotationsAreKnown'
  <2>1. ASSUME NEW k \in KeyIds \ raced' PROVE Rotated(k)'
    <3>1. Rotated(k) /\ Heirs(k)' = Heirs(k) /\ replacedBy'[k] = replacedBy[k]
      BY <1>1, <2>1 DEF RotationsAreKnown, Heirs
    <3> QED BY <1>1, <3>1, RotationStays
  <2>2. \A k \in KeyIds : ~Ever(k)' => heirOf'[k] = NoKey
    BY <1>1 DEF RotationsAreKnown, Onward, Ever
  <2> QED BY <2>1, <2>2 DEF RotationsAreKnown
<1>2. \A d \in Calls : call[d].pc \notin {"create", "mark"} <=> call[d].op # "refresh"
  BY DEF KeysTypeOK
<1>3. \A d \in Calls : call'[d].pc \notin {"create", "mark"} <=> call'[d].op # "refresh"
  BY DEF KeysTypeOK
<1>4. ASSUME NEW c \in Calls, UNCHANGED <<heirOf, replacedBy, raced>>,
             call' = [call EXCEPT ![c] = call'[c]], call[c].op # "refresh", call'[c].op # "refresh"
      PROVE  RotationsAreKnown'
  <2>1. \A d \in Calls : d = c \/ call'[d] = call[d]
    BY <1>4 DEF KeysTypeOK
  <2> QED BY <1>1, <1>4, <2>1
<1>5. NoCall.op # "refresh" /\ NoCall.pc = "idle"
  BY DEF NoCall, Call
<1>6. ASSUME NEW c \in Calls, UNCHANGED <<heirOf, replacedBy, raced>>, Answered(c), call[c].op # "refresh"
      PROVE  RotationsAreKnown'
  <2>1. call'[c] = NoCall /\ call' = [call EXCEPT ![c] = call'[c]]
    BY <1>6 DEF Answered, KeysTypeOK
  <2> QED BY <1>4, <1>5, <1>6, <2>1
<1>7. ASSUME NEW c \in Calls, NEW r, UNCHANGED <<heirOf, replacedBy, raced>>, call[c].pc = "idle",
             call' = [call EXCEPT ![c] = r], r.op # "refresh"
      PROVE  RotationsAreKnown'
  <2>1. call'[c] = r /\ call' = [call EXCEPT ![c] = call'[c]]
    BY <1>7 DEF KeysTypeOK
  <2> QED BY <1>2, <1>4, <1>7, <2>1
<1>8. ASSUME NEW c \in Calls, InvalidateFinds(c) \/ SweepLists(c) \/ CleanupLists(c)
      PROVE  RotationsAreKnown'
  <2>1. UNCHANGED <<heirOf, replacedBy, raced>> /\ call[c].pc = "idle"
    BY <1>8 DEF InvalidateFinds, SweepLists, CleanupLists, Accept, rowVars, historyVars
  <2>2. \E r : call' = [call EXCEPT ![c] = r] /\ r.op # "refresh"
    <3>1. \A op \in {"invalidate", "sweep", "cleanup"} : \A pc, k, S, T : Call(op, pc, k, NoKey, S, T).op # "refresh"
      BY DEF Call
    <3>2. CASE InvalidateFinds(c)
      BY <3>1, <3>2 DEF InvalidateFinds
    <3>3. CASE SweepLists(c)
      BY <3>1, <3>3 DEF SweepLists
    <3>4. CASE CleanupLists(c)
      <4>1. PICK P \in SUBSET Stored :
                call' = [call EXCEPT ![c] = Call("cleanup", "cleanup", NoKey, NoKey, {k \in P : ToDelete(k)}, {})]
        BY <3>4 DEF CleanupLists
      <4> QED BY <3>1, <4>1
    <3> QED BY <1>8, <3>2, <3>3, <3>4
  <2> QED BY <1>7, <2>1, <2>2
<1>9. ASSUME NEW c \in Calls, SweepRevokes(c) \/ CleanupDeletes(c)
      PROVE  RotationsAreKnown'
  <2>1. UNCHANGED <<heirOf, replacedBy, raced>> /\ call[c].pc \in {"sweep", "cleanup"}
    BY <1>9 DEF SweepRevokes, CleanupDeletes, historyVars
  <2>2. CASE Answered(c)
    BY <1>2, <1>6, <2>1, <2>2
  <2>3. ASSUME NEW k, call' = [call EXCEPT ![c].todo = @ \ {k}]
        PROVE  RotationsAreKnown'
    <3>1. call' = [call EXCEPT ![c] = call'[c]] /\ call'[c].op = call[c].op
      BY <2>3 DEF KeysTypeOK, KeyCalls
    <3> QED BY <1>2, <1>4, <2>1, <3>1
  <2>4. CASE SweepRevokes(c)
    BY <2>2, <2>3, <2>4 DEF SweepRevokes
  <2>5. CASE CleanupDeletes(c)
    BY <2>3, <2>5 DEF CleanupDeletes
  <2> QED BY <1>9, <2>4, <2>5
<1>10. ASSUME NEW c \in Calls, InvalidateRevokes(c) \/ SweepEnds(c) \/ CleanupEnds(c)
       PROVE  RotationsAreKnown'
  <2>1. UNCHANGED <<heirOf, replacedBy, raced>> /\ call[c].pc \in {"revoke", "sweep", "cleanup"} /\ Answered(c)
    BY <1>10 DEF InvalidateRevokes, SweepEnds, CleanupEnds, rowVars, historyVars
  <2> QED BY <1>2, <1>6, <2>1
<1>11. ASSUME NEW c \in Calls, RefreshFinds(c) PROVE RotationsAreKnown'
  <2>1. PICK k \in In({"live"}) :
            /\ call' = [call EXCEPT ![c] = Call("refresh", "create", k, NoKey, {}, {})]
            /\ raced' = IF Refreshing(k) = {} THEN raced ELSE raced \cup {k}
    BY <1>11 DEF RefreshFinds
  <2>2. /\ UNCHANGED <<keyState, heirOf, replacedBy>> /\ call[c].op # "refresh"
        /\ k \in KeyIds /\ keyState[k] = "live"
    BY <1>2, <1>11 DEF RefreshFinds, Accept, rowVars, In
  <2>3. /\ call'[c].op = "refresh" /\ call'[c].pc = "create" /\ call'[c].key = k
        /\ \A d \in Calls : d = c \/ call'[d] = call[d]
    BY <2>1 DEF Call, KeysTypeOK
  <2>4. ASSUME NEW j \in KeyIds \ raced' PROVE Rotated(j)'
    <3>1. Rotated(j) /\ Heirs(j)' = Heirs(j) /\ replacedBy'[j] = replacedBy[j]
      BY <2>1, <2>2, <2>4 DEF RotationsAreKnown, Heirs
    <3>2. CASE j # k
      BY <2>2, <2>3, <3>1, <3>2, RotationStays
    <3>3. CASE j = k
      <4>1. Refreshing(k) = {}
        BY <2>1, <2>4, <3>3
      <4>2. Refreshing(k)' = {c}
        BY <2>2, <2>3, <4>1 DEF Refreshing
      <4>3. Heirs(k) = {}
        BY <2>2, <3>1, <3>3, <4>1 DEF Rotated
      <4> QED BY <2>3, <3>1, <3>3, <4>2, <4>3 DEF Rotated
    <3> QED BY <3>2, <3>3
  <2>5. \A j \in KeyIds : ~Ever(j)' => heirOf'[j] = NoKey
    BY <2>2 DEF RotationsAreKnown, Ever
  <2> QED BY <2>4, <2>5 DEF RotationsAreKnown
<1>12. ASSUME NEW c \in Calls, RefreshCreates(c) PROVE RotationsAreKnown'
  <2> DEFINE o == call[c].key
  <2>1. PICK n \in KeyIds : /\ IsNext(n)
                            /\ keyState' = [keyState EXCEPT ![n] = "live"]
                            /\ heirOf' = [heirOf EXCEPT ![n] = o]
                            /\ call' = [call EXCEPT ![c].pc = "mark", ![c].new = n]
    BY <1>12 DEF RefreshCreates
  <2>2. /\ UNCHANGED <<replacedBy, raced>> /\ call[c].pc = "create" /\ call[c].op = "refresh"
        /\ o \in KeyIds
    BY <1>2, <1>12 DEF RefreshCreates, CallsAreSound, CallIsSound
  <2>3. /\ call'[c].op = "refresh" /\ call'[c].pc = "mark" /\ call'[c].key = o /\ call'[c].new = n
        /\ \A d \in Calls : d = c \/ call'[d] = call[d]
    BY <2>1, <2>2 DEF KeysTypeOK, KeyCalls
  <2>4. ~Ever(n) /\ heirOf[n] = NoKey /\ o # NoKey /\ keyState'[n] = "live"
    BY <2>1, <2>2, KeysOfTheTable DEF RotationsAreKnown, Ever, KeysTypeOK
  <2>5. \A k \in KeyIds : heirOf'[k] = IF k = n THEN o ELSE heirOf[k]
    BY <2>1 DEF KeysTypeOK
  <2> HIDE DEF o
  <2>6. ASSUME NEW j \in KeyIds \ raced' PROVE Rotated(j)'
    <3>1. Rotated(j) /\ replacedBy'[j] = replacedBy[j]
      BY <2>2, <2>6 DEF RotationsAreKnown
    <3>2. CASE j # o
      <4>1. Heirs(j)' = Heirs(j)
        BY <2>4, <2>5, <2>6, <3>2, KeysOfTheTable DEF Heirs
      <4> QED BY <2>3, <3>1, <3>2, <4>1, RotationStays DEF o
    <3>3. CASE j = o
      <4>1. c \in Refreshing(j)
        BY <2>2, <3>3 DEF Refreshing, o
      <4>2. Refreshing(j) = {c} /\ Heirs(j) = {}
        BY <2>2, <3>1, <4>1 DEF Rotated
      <4>3. Refreshing(j)' = {c}
        BY <2>3, <3>3, <4>2 DEF Refreshing
      <4>4. Heirs(j)' = {n}
        BY <2>5, <3>3, <4>2 DEF Heirs
      <4> QED BY <2>3, <4>3, <4>4 DEF Rotated
    <3> QED BY <3>2, <3>3
  <2>7. \A k \in KeyIds : ~Ever(k)' => heirOf'[k] = NoKey
    BY <2>4, <2>5 DEF RotationsAreKnown, Onward, Ever
  <2> QED BY <2>6, <2>7 DEF RotationsAreKnown
<1>13. ASSUME NEW c \in Calls, RefreshMarks(c) PROVE RotationsAreKnown'
  <2> DEFINE o == call[c].key
             n == call[c].new
  <2>1. /\ UNCHANGED <<heirOf, raced>> /\ call[c].pc = "mark" /\ call[c].op = "refresh"
        /\ o \in KeyIds /\ n \in KeyIds /\ keyState[o] # "unused"
    BY <1>2, <1>13 DEF RefreshMarks, CallsAreSound, CallIsSound, KeysTypeOK, Ever
  <2>2. /\ call'[c] = NoCall
        /\ \A d \in Calls : d = c \/ call'[d] = call[d]
    BY <1>13 DEF RefreshMarks, Answered, KeysTypeOK
  <2>3. \/ keyState'[o] = "revoked" /\ replacedBy'[o] = n
        \/ keyState'[o] = "deleted"
    <3>1. CASE o \in Stored
      BY <1>13, <2>1, <3>1 DEF RefreshMarks, KeysTypeOK
    <3>2. CASE o \notin Stored
      <4>1. keyState[o] = "deleted"
        BY <2>1, <3>2 DEF Stored, In, KeysTypeOK, KeyStates
      <4> QED BY <2>1, <4>1 DEF Onward
    <3> QED BY <3>1, <3>2
  <2>4. \A k \in KeyIds : k # o => replacedBy'[k] = replacedBy[k]
    BY <1>13 DEF RefreshMarks, KeysTypeOK
  <2>5. ASSUME NEW j \in KeyIds \ raced' PROVE Rotated(j)'
    <3>1. Rotated(j) /\ Heirs(j)' = Heirs(j)
      BY <2>1, <2>5 DEF RotationsAreKnown, Heirs
    <3>2. CASE j # o
      BY <1>5, <2>2, <2>4, <2>5, <3>1, <3>2, RotationStays
    <3>3. CASE j = o
      <4>1. c \in Refreshing(j)
        BY <2>1, <3>3 DEF Refreshing
      <4>2. Refreshing(j) = {c} /\ Heirs(j) = {n}
        BY <2>1, <3>1, <4>1 DEF Rotated
      <4>3. Refreshing(j)' = {}
        BY <1>5, <2>2, <4>2 DEF Refreshing
      <4> QED BY <2>1, <2>3, <3>1, <3>3, <4>2, <4>3 DEF Rotated
    <3> QED BY <3>2, <3>3
  <2>6. \A k \in KeyIds : ~Ever(k)' => heirOf'[k] = NoKey
    BY <2>1 DEF RotationsAreKnown, Onward, Ever
  <2> QED BY <2>5, <2>6 DEF RotationsAreKnown
<1>14. ASSUME NEW c \in Calls, CallDies(c) PROVE RotationsAreKnown'
  <2> DEFINE o == call[c].key
  <2>1. /\ UNCHANGED <<keyState, heirOf, replacedBy>> /\ Answered(c) /\ raced \subseteq raced'
        /\ call[c].pc # "mark" => raced' = raced
        /\ call[c].pc = "mark" => o \in raced'
    BY <1>14 DEF CallDies, rowVars
  <2>2. CASE call[c].op # "refresh"
    BY <1>2, <1>6, <2>1, <2>2
  <2>3. CASE call[c].op = "refresh"
    <3>1. /\ call'[c] = NoCall
          /\ \A d \in Calls : d = c \/ call'[d] = call[d]
      BY <2>1 DEF Answered, KeysTypeOK
    <3>2. ASSUME NEW j \in KeyIds \ raced' PROVE Rotated(j)'
      <4>1. Rotated(j) /\ Heirs(j)' = Heirs(j) /\ replacedBy'[j] = replacedBy[j]
        BY <2>1, <3>2 DEF RotationsAreKnown, Heirs
      <4>2. CASE j # o
        BY <1>5, <3>1, <4>1, <4>2, RotationStays
      <4>3. CASE j = o
        <5>1. call[c].pc = "create"
          BY <1>2, <2>1, <2>3, <3>2, <4>3
        <5>2. c \in Refreshing(j)
          BY <2>3, <4>3 DEF Refreshing
        <5>3. Refreshing(j) = {c} /\ Heirs(j) = {}
          BY <4>1, <5>1, <5>2 DEF Rotated
        <5>4. Refreshing(j)' = {}
          BY <1>5, <3>1, <5>3 DEF Refreshing
        <5> QED BY <4>1, <5>3, <5>4 DEF Rotated
      <4> QED BY <4>2, <4>3
    <3>3. \A k \in KeyIds : ~Ever(k)' => heirOf'[k] = NoKey
      BY <2>1 DEF RotationsAreKnown, Ever
    <3> QED BY <3>2, <3>3 DEF RotationsAreKnown
  <2> QED BY <2>2, <2>3
<1>15. ASSUME \/ \E c \in Calls : CreateToken(c)
              \/ \E k \in KeyIds : Ages(k)
              \/ UNCHANGED apiKeyVars
       PROVE  RotationsAreKnown'
  BY <1>1, <1>15 DEF CreateToken, Ages, apiKeyVars, rowVars, historyVars
<1>16. ASSUME NEW b \in Boots, \/ BootChecks(b) \/ BootFindsRole(b) \/ BootAddsRole(b)
                               \/ BootPersists(b) \/ BootHasNoFiles(b)
                               \/ BootCalls(b) \/ BootWrites(b) \/ BootIsReadOnly(b) \/ BootTakesEnv(b)
                               \/ BootDies(b)
       PROVE  RotationsAreKnown'
  <2>1. UNCHANGED <<heirOf, replacedBy, raced, call>>
    BY <1>16 DEF BootChecks, BootFindsRole, BootAddsRole, BootPersists, BootHasNoFiles, BootCalls,
           BootWrites, BootIsReadOnly, BootTakesEnv, BootDies, rowVars, historyVars
  <2> QED BY <1>1, <2>1
<1> QED
  BY <1>8, <1>9, <1>10, <1>11, <1>12, <1>13, <1>14, <1>15, <1>16 DEF ApiKeysNext

\* At first there is no key, no call and no boot.
LEMMA KeysStart == ApiKeysInit => KeysInv
<1> SUFFICES ASSUME ApiKeysInit PROVE KeysInv
  OBVIOUS
<1> USE DEF ApiKeysInit
<1>1. NoKey \notin KeyIds
  BY ApiKeysAssumption DEF KeyIds, NoKey
<1>2. /\ NoCall \in KeyCalls /\ NoCall.op = "none" /\ NoCall.pc = "idle" /\ NoCall.key = NoKey
      /\ NoBoot \in KeyBoots /\ NoBoot.pc = "off" /\ NoBoot.key = NoKey
  BY DEF NoCall, Call, KeyCalls, MaybeKey, NoBoot, KeyBoots
<1>3. KeysTypeOK
  BY <1>2 DEF KeysTypeOK, KeyStates, MaybeKey
<1>4. CallsAreSound
  BY <1>1, <1>2 DEF CallsAreSound, CallIsSound
<1>5. BootsCarryKeys
  BY <1>2 DEF BootsCarryKeys
<1>6. FirstKeyIsKnown /\ UpHasRows
  BY <1>2 DEF FirstKeyIsKnown, UpHasRows, Ever
<1>7. RotationsAreKnown
  BY <1>1, <1>2 DEF RotationsAreKnown, Rotated, Refreshing, Heirs
<1> QED BY <1>3, <1>4, <1>5, <1>6, <1>7 DEF KeysInv

\* Every step keeps the invariant, and takes no key back.
LEMMA KeysStep == KeysInv /\ [ApiKeysNext]_apiKeyVars => KeysInv' /\ Onward
<1> SUFFICES ASSUME KeysInv, [ApiKeysNext]_apiKeyVars PROVE KeysInv' /\ Onward
  OBVIOUS
<1>1. Onward
  BY StepsGoOnward DEF KeysInv
<1>2. KeysTypeOK' /\ BootsCarryKeys'
  <2>1. ASSUME UNCHANGED boot PROVE BootsCarryKeys'
    BY <1>1, <2>1 DEF KeysInv, BootsCarryKeys, Onward, Ever
  <2>2. ASSUME NEW c \in Calls, \/ CreateToken(c)
                                \/ RefreshFinds(c) \/ RefreshCreates(c) \/ RefreshMarks(c)
                                \/ InvalidateFinds(c) \/ InvalidateRevokes(c)
                                \/ SweepLists(c) \/ SweepRevokes(c) \/ SweepEnds(c)
                                \/ CleanupLists(c) \/ CleanupDeletes(c) \/ CleanupEnds(c)
                                \/ CallDies(c)
        PROVE  KeysTypeOK' /\ BootsCarryKeys'
    <3>1. UNCHANGED boot
      BY <2>2 DEF CreateToken, RefreshFinds, RefreshCreates, RefreshMarks, InvalidateFinds, InvalidateRevokes,
             SweepLists, SweepRevokes, SweepEnds, CleanupLists, CleanupDeletes, CleanupEnds, CallDies, bootVars
    <3> QED BY <2>1, <2>2, <3>1, CallsKeepTypes DEF KeysInv
  <2>3. ASSUME NEW b \in Boots, \/ BootChecks(b) \/ BootFindsRole(b) \/ BootAddsRole(b)
                                \/ BootPersists(b) \/ BootHasNoFiles(b)
                                \/ BootCalls(b) \/ BootWrites(b) \/ BootIsReadOnly(b) \/ BootTakesEnv(b)
                                \/ BootDies(b)
        PROVE  KeysTypeOK' /\ BootsCarryKeys'
    BY <1>1, <2>3, BootsKeepTypes DEF KeysInv
  <2>4. ASSUME NEW k \in KeyIds, Ages(k) PROVE KeysTypeOK' /\ BootsCarryKeys'
    BY <2>1, <2>4 DEF Ages, KeysInv, KeysTypeOK, bootVars, historyVars
  <2>5. CASE UNCHANGED apiKeyVars
    BY <2>1, <2>5 DEF KeysInv, KeysTypeOK, apiKeyVars, rowVars, bootVars, historyVars
  <2> QED BY <2>2, <2>3, <2>4, <2>5 DEF ApiKeysNext
<1>3. CallsAreSound'
  BY <1>1, <1>2, CallsStaySound DEF KeysInv
<1>4. FirstKeyIsKnown' /\ UpHasRows'
  BY <1>1, FirstKeyStaysKnown DEF KeysInv
<1>5. RotationsAreKnown'
  BY <1>1, <1>2, RotationsStayKnown
<1> QED BY <1>1, <1>2, <1>3, <1>4, <1>5 DEF KeysInv

\* The invariant holds in every state the API keys reach.
LEMMA KeysStayKnown == ApiKeysSpec => []KeysInv
<1> QED BY KeysStart, KeysStep, PTL DEF ApiKeysSpec

\* No interleaving of refreshes, revocations, sweeps and cleanups brings a revoked
\* or deleted key back, or deletes one that is neither revoked nor long expired.
THEOREM KeysNeverReturn == ApiKeysSpec => KeysEndForGood
<1>1. KeysInv /\ [ApiKeysNext]_apiKeyVars =>
          [\A k \in KeyIds :
              /\ keyState[k] = "revoked" => keyState'[k] \in {"revoked", "deleted"}
              /\ keyState[k] = "deleted" => keyState'[k] = "deleted"
              /\ keyState[k] = "live" /\ keyState'[k] = "deleted" => age[k] = "lapsed"]_apiKeyVars
  BY KeysStep DEF Onward
<1> QED BY <1>1, KeysStayKnown, PTL DEF ApiKeysSpec, KeysEndForGood

\* A refresh that was not overlapped and did not die half way leaves one
\* successor and a revoked key that names it; a sweep that ended revoked all it
\* promised, if they fit on a page.
THEOREM CallsStayWhole == ApiKeysSpec => []CallsAreWhole
<1>1. KeysInv => CallsAreWhole
  <2> SUFFICES ASSUME KeysInv PROVE RotationIsLinear /\ SweepIsCompleteWithinPage
    BY DEF CallsAreWhole
  <2>1. ASSUME NEW k \in KeyIds, Heirs(k) # {}, k \notin raced
        PROVE  /\ Cardinality(Heirs(k)) = 1
               /\ Refreshing(k) = {} /\ keyState[k] # "deleted" =>
                      keyState[k] = "revoked" /\ replacedBy[k] \in Heirs(k)
    <3>1. Rotated(k)
      BY <2>1 DEF KeysInv, RotationsAreKnown
    <3>2. CASE Refreshing(k) = {}
      BY <2>1, <3>1, <3>2, FS_Singleton DEF Rotated
    <3>3. CASE Refreshing(k) # {}
      <4>1. PICK c \in Refreshing(k) : Heirs(k) = IF call[c].pc = "create" THEN {} ELSE {call[c].new}
        BY <3>1, <3>3 DEF Rotated
      <4>2. Heirs(k) = {call[c].new}
        BY <2>1, <4>1
      <4> QED BY <3>3, <4>2, FS_Singleton
    <3> QED BY <3>2, <3>3
  <2>2. RotationIsLinear
    BY <2>1 DEF RotationIsLinear
  <2>3. SweepIsCompleteWithinPage
    BY DEF KeysInv, CallsAreSound, CallIsSound, Spent, SweepIsCompleteWithinPage
  <2> QED BY <2>2, <2>3
<1> QED BY <1>1, KeysStayKnown, PTL

\* A process that is up over a table whose keys nobody holds follows a boot that
\* lost its key, or runs beside one that is about to hand it over.
THEOREM LockoutsAreExplained == ApiKeysSpec => []LockoutFollowsALostKey
<1>1. KeysInv => LockoutFollowsALostKey
  BY DEF KeysInv, UpHasRows, FirstKeyIsKnown, LockoutFollowsALostKey
<1> QED BY <1>1, KeysStayKnown, PTL

-----------------------------------------------------------------------------
(* Translations: what is on its way. *)

TextRows == [status : {"none", "pending", "in_progress", "complete", "error"}, text : Nat, of : Nat]
TextJobs == [pc : {"idle", "mark", "call", "save", "fail", "queue"}, of : Nat, reads : BOOLEAN, row : TextRows]

TextsTypeOK == /\ store \in Stores
               /\ source \in Nat /\ queue \in Nat /\ owed \in Nat /\ best \in Nat
               /\ variant \in TextRows
               /\ job \in [Workers -> TextJobs]
               /\ backfill \in TextJobs
               /\ overlapped \in BOOLEAN /\ cut \in BOOLEAN

\* An upsert has read only with the drizzle store, and only while it is under way.
ReadersAreUpserts ==
    /\ \A w \in Workers : job[w].reads => store = "drizzle" /\ job[w].pc # "idle"
    /\ backfill.reads => store = "drizzle" /\ backfill.pc = "mark"

\* Nothing is newer than the source, as long as there is one; without one, something was cut.
NothingIsNewer ==
    /\ source = 0 => cut
    /\ \A w \in AtWork : job[w].of # NoText
    /\ source # 0 => best <= source /\ owed <= source /\ \A w \in AtWork : job[w].of <= source

\* Jobs that do not overlap come one at a time, and meet the row they have read.
OneAtATime ==
    ~overlapped => /\ \A v, w \in AtWork : v = w
                   /\ \A w \in Workers : job[w].reads => job[w].row = variant
                   /\ backfill.reads => AtWork = {} /\ backfill.row = variant

\* And the row has the latest text, which the job at work does not go behind.
TextIsTheBest ==
    ~overlapped => variant.text = best /\ \A w \in AtWork : best <= job[w].of

\* What was asked for last is queued, at work, about to be queued, or done.
RequestIsOnItsWay ==
    ~overlapped /\ ~cut =>
        \/ queue > 0
        \/ backfill.pc = "queue"
        \/ AtWork # {} /\ \A w \in AtWork : owed <= job[w].of
        \/ AtWork = {} /\ (owed <= variant.text \/ variant.status = "error")

TextsInv == /\ TextsTypeOK /\ ReadersAreUpserts /\ NothingIsNewer /\ OneAtATime /\ TextIsTheBest
            /\ RequestIsOnItsWay /\ WaitingHasAJob

\* Jobs, and rows that were merged, are of their types.
LEMMA TextJobTyped ==
    ASSUME NEW pc \in {"idle", "mark", "call", "save", "fail", "queue"}, NEW of \in Nat
    PROVE  Job(pc, of) \in TextJobs /\ Job(pc, of).pc = pc /\ Job(pc, of).of = of /\ ~Job(pc, of).reads
<1>1. NoRow \in TextRows
  BY DEF NoRow, Row, TextRows, NoText
<1> QED BY <1>1 DEF Job, TextJobs

\* And so is a worker without a job.
LEMMA NoTextJob == NoJob \in TextJobs /\ NoJob.pc = "idle" /\ ~NoJob.reads
  BY TextJobTyped DEF NoJob

\* A merged row has the status given, and the text found unless one is given.
LEMMA MergedTyped ==
    ASSUME NEW f \in TextRows, NEW t \in Nat, NEW of \in Nat, t # NoText,
           NEW s \in {"pending", "in_progress", "complete", "error"}
    PROVE  Merged(f, s, t, of) \in TextRows /\ Merged(f, s, t, of).status = s /\ Merged(f, s, t, of).text = t
  BY DEF Merged, Row, TextRows, NoText

\* Without a text the row keeps the one it has.
LEMMA MergedKeepsText ==
    ASSUME NEW f \in TextRows, NEW of \in Nat,
           NEW s \in {"pending", "in_progress", "complete", "error"}
    PROVE  /\ Merged(f, s, NoText, of) \in TextRows /\ Merged(f, s, NoText, of).status = s
           /\ Merged(f, s, NoText, of).text = f.text
  BY DEF Merged, Row, TextRows, NoText

\* A worker that goes on changes nobody else's job.
LEMMA WorkerGoes ==
    ASSUME TextsTypeOK, NEW w \in Workers, NEW r \in TextJobs, Goes(w, r)
    PROVE  /\ job' \in [Workers -> TextJobs] /\ job'[w] = r
           /\ \A v \in Workers : v # w => job'[v] = job[v]
           /\ AtWork' = IF r.pc = "idle" THEN AtWork \ {w} ELSE AtWork \cup {w}
  BY DEF TextsTypeOK, Goes, AtWork

\* What an upsert writes back is what is in the row, unless jobs overlapped.
LEMMA UpsertsMeetTheRow ==
    ASSUME TextsInv
    PROVE  /\ \A w \in Workers : ~Reads(job[w]) =>
                  /\ Found(job[w]) \in TextRows
                  /\ ~overlapped => Found(job[w]) = variant
           /\ ~Reads(backfill) =>
                  /\ Found(backfill) \in TextRows
                  /\ ~overlapped => Found(backfill) = variant
<1> USE DEF TextsInv, TextsTypeOK
<1>1. ASSUME NEW w \in Workers, ~Reads(job[w])
      PROVE  Found(job[w]) \in TextRows /\ (~overlapped => Found(job[w]) = variant)
  <2>1. job[w] \in TextJobs /\ job[w].row \in TextRows
    BY DEF TextJobs
  <2>2. store = "drizzle" => job[w].reads
    BY <1>1, <2>1 DEF Reads
  <2> QED BY <2>1, <2>2 DEF Found, OneAtATime
<1>2. ASSUME ~Reads(backfill)
      PROVE  Found(backfill) \in TextRows /\ (~overlapped => Found(backfill) = variant)
  <2>1. backfill.row \in TextRows
    BY DEF TextJobs
  <2>2. store = "drizzle" => backfill.reads
    BY <1>2 DEF Reads
  <2> QED BY <2>1, <2>2 DEF Found, OneAtATime
<1> QED BY <1>1, <1>2

\* A job that goes on with the version it has, and leaves the row alone.
LEMMA JobGoesOn ==
    ASSUME TextsInv, NEW w \in Workers, NEW r \in TextJobs, job[w].pc # "idle", Goes(w, r),
           r.pc # "idle", r.of = job[w].of, r.reads => store = "drizzle" /\ r.row = variant,
           UNCHANGED <<store, source, variant, queue, queued, backfill, owed, best, overlapped, cut>>
    PROVE  TextsInv'
<1>1. /\ job' \in [Workers -> TextJobs] /\ job'[w] = r
      /\ \A v \in Workers : v # w => job'[v] = job[v]
      /\ AtWork' = AtWork
  <2>1. w \in AtWork
    BY DEF AtWork
  <2> QED BY <2>1, WorkerGoes DEF TextsInv
<1>2. \A v \in Workers : job'[v].of = job[v].of
  BY <1>1
<1>3. AtWork \subseteq Workers
  BY DEF AtWork
<1>4. TextsTypeOK'
  BY <1>1 DEF TextsInv, TextsTypeOK
<1>5. ReadersAreUpserts' /\ NothingIsNewer'
  BY <1>1, <1>2, <1>3 DEF TextsInv, ReadersAreUpserts, NothingIsNewer
<1>6. OneAtATime' /\ TextIsTheBest'
  BY <1>1, <1>2, <1>3 DEF TextsInv, OneAtATime, TextIsTheBest
<1>7. RequestIsOnItsWay' /\ WaitingHasAJob'
  BY <1>1, <1>2, <1>3 DEF TextsInv, RequestIsOnItsWay, WaitingHasAJob, Waiting
<1> QED BY <1>4, <1>5, <1>6, <1>7 DEF TextsInv

\* Reading the row, the provider's answer and a failed save are such steps.
LEMMA JobGoesOnSteps ==
    ASSUME TextsInv, NEW w \in Workers, JobReads(w) \/ ProviderAnswers(w) \/ SaveFails(w)
    PROVE  TextsInv'
<1>1. job[w] \in TextJobs /\ job[w].of \in Nat /\ variant \in TextRows
  BY DEF TextsInv, TextsTypeOK, TextJobs
<1>2. CASE JobReads(w)
  <2> DEFINE r == [job[w] EXCEPT !.reads = TRUE, !.row = variant]
  <2>1. r \in TextJobs /\ r.pc = job[w].pc /\ r.of = job[w].of /\ r.row = variant
    BY <1>1 DEF TextJobs
  <2>2. Goes(w, r) /\ store = "drizzle" /\ job[w].pc # "idle"
    BY <1>2 DEF JobReads, Reads
  <2>3. UNCHANGED <<store, source, variant, queue, queued, backfill, owed, best, overlapped, cut>>
    BY <1>2 DEF JobReads
  <2> HIDE DEF r
  <2> QED BY <2>1, <2>2, <2>3, JobGoesOn
<1>3. CASE ProviderAnswers(w) \/ SaveFails(w)
  <2>1. PICK pc \in {"save", "fail"} : Goes(w, Job(pc, job[w].of))
    BY <1>3 DEF ProviderAnswers, SaveFails
  <2>2. job[w].pc # "idle" /\ UNCHANGED <<store, source, variant, queue, queued, backfill, owed, best, overlapped, cut>>
    BY <1>3 DEF ProviderAnswers, SaveFails
  <2>3. /\ Job(pc, job[w].of) \in TextJobs /\ Job(pc, job[w].of).pc # "idle"
        /\ Job(pc, job[w].of).of = job[w].of /\ ~Job(pc, job[w].of).reads
    BY <1>1, TextJobTyped
  <2> QED BY <2>1, <2>2, <2>3, JobGoesOn
<1> QED BY <1>2, <1>3

\* A job is taken: it works on the source of that moment, which no request is ahead of.
LEMMA TakesKeepsTexts ==
    ASSUME TextsInv, NEW w \in Workers, Takes(w)
    PROVE  TextsInv'
<1> DEFINE r == IF source = 0 THEN NoJob ELSE Job("mark", source)
<1>1. /\ job[w].pc = "idle" /\ queue > 0 /\ queue' = queue - 1 /\ Goes(w, r)
      /\ overlapped' = (overlapped \/ AtWork # {} \/ backfill.reads)
      /\ UNCHANGED <<store, source, variant, backfill, owed, best, cut>>
  BY DEF Takes
<1>2. source \in Nat /\ queue \in Nat /\ TextsTypeOK /\ backfill.reads \in BOOLEAN
  BY DEF TextsInv, TextsTypeOK, TextJobs
<1>3. /\ r \in TextJobs /\ ~r.reads
      /\ source # 0 => r.pc = "mark" /\ r.of = source
      /\ source = 0 => r.pc = "idle"
  BY <1>2, TextJobTyped, NoTextJob
<1> HIDE DEF r
<1>4. /\ job' \in [Workers -> TextJobs] /\ job'[w] = r
      /\ \A v \in Workers : v # w => job'[v] = job[v]
      /\ AtWork' = IF source = 0 THEN AtWork ELSE AtWork \cup {w}
  <2>1. w \notin AtWork
    BY <1>1 DEF AtWork
  <2> QED BY <1>1, <1>2, <1>3, <2>1, WorkerGoes
<1>5. AtWork \subseteq Workers /\ w \notin AtWork
  BY <1>1 DEF AtWork
<1>6. ~overlapped' => ~overlapped /\ AtWork = {} /\ ~backfill.reads
  BY <1>1
<1>7. queue' \in Nat /\ overlapped' \in BOOLEAN
  BY <1>1, <1>2
<1>8. TextsTypeOK'
  BY <1>1, <1>2, <1>4, <1>7 DEF TextsTypeOK
<1>9. ReadersAreUpserts'
  BY <1>1, <1>3, <1>4 DEF TextsInv, ReadersAreUpserts
<1>10. NothingIsNewer'
  BY <1>1, <1>2, <1>3, <1>4, <1>5 DEF TextsInv, NothingIsNewer, NoText
<1>11. OneAtATime'
  BY <1>1, <1>3, <1>4, <1>5, <1>6 DEF TextsInv, OneAtATime
<1>12. TextIsTheBest'
  BY <1>1, <1>3, <1>4, <1>5, <1>6 DEF TextsInv, TextIsTheBest, NothingIsNewer
<1>13. source = 0 => cut'
  BY <1>1 DEF TextsInv, NothingIsNewer
<1>14. RequestIsOnItsWay'
  <2> SUFFICES ASSUME ~overlapped', ~cut' PROVE AtWork' # {} /\ \A v \in AtWork' : owed' <= job'[v].of
    BY DEF RequestIsOnItsWay
  <2>1. source # 0 /\ AtWork' = {w} /\ job'[w].of = source
    BY <1>3, <1>4, <1>6, <1>13
  <2> QED BY <1>1, <2>1 DEF TextsInv, NothingIsNewer
<1>15. WaitingHasAJob'
  BY <1>4, <1>13 DEF WaitingHasAJob
<1> QED BY <1>8, <1>9, <1>10, <1>11, <1>12, <1>14, <1>15 DEF TextsInv

\* The mark of a job changes the status and keeps the text.
LEMMA MarksKeepsTexts ==
    ASSUME TextsInv, NEW w \in Workers, Marks(w)
    PROVE  TextsInv'
<1> DEFINE r == Job("call", job[w].of)
<1>1. /\ job[w].pc = "mark" /\ ~Reads(job[w]) /\ Goes(w, r)
      /\ variant' = Merged(Found(job[w]), "in_progress", NoText, job[w].of)
      /\ UNCHANGED <<store, source, queue, backfill, owed, best, overlapped, cut>>
  BY DEF Marks, Writes
<1>2. job[w] \in TextJobs /\ job[w].of \in Nat /\ NoText \in Nat
  BY DEF TextsInv, TextsTypeOK, TextJobs, NoText
<1>3. r \in TextJobs /\ r.pc = "call" /\ r.of = job[w].of /\ ~r.reads
  BY <1>2, TextJobTyped
<1> HIDE DEF r
<1>4. Found(job[w]) \in TextRows /\ (~overlapped => Found(job[w]) = variant)
  BY <1>1, UpsertsMeetTheRow
<1>5. /\ variant' \in TextRows /\ variant'.status = "in_progress"
      /\ variant'.text = Found(job[w]).text
  <2> DEFINE f == Found(job[w])
             of == job[w].of
  <2>1. f \in TextRows /\ of \in Nat
    BY <1>2, <1>4
  <2>2. variant' = Merged(f, "in_progress", NoText, of)
    BY <1>1
  <2> HIDE DEF f, of
  <2>3. /\ Merged(f, "in_progress", NoText, of) \in TextRows
        /\ Merged(f, "in_progress", NoText, of).status = "in_progress"
        /\ Merged(f, "in_progress", NoText, of).text = f.text
    BY <2>1, MergedKeepsText
  <2> QED BY <2>2, <2>3 DEF f
<1>6. w \in AtWork /\ AtWork \subseteq Workers
  BY <1>1 DEF AtWork
<1>7. /\ job' \in [Workers -> TextJobs] /\ job'[w] = r
      /\ \A v \in Workers : v # w => job'[v] = job[v]
      /\ AtWork' = AtWork
  BY <1>1, <1>3, <1>6, WorkerGoes DEF TextsInv
<1>8. \A v \in Workers : job'[v].of = job[v].of
  BY <1>3, <1>7
<1>9. TextsTypeOK'
  BY <1>1, <1>5, <1>7 DEF TextsInv, TextsTypeOK
<1>10. ReadersAreUpserts' /\ NothingIsNewer'
  BY <1>1, <1>3, <1>6, <1>7, <1>8 DEF TextsInv, ReadersAreUpserts, NothingIsNewer
<1>11. OneAtATime'
  <2>1. ASSUME ~overlapped, NEW v \in Workers PROVE ~job'[v].reads
    <3>1. CASE v = w
      BY <1>3, <1>7, <3>1
    <3>2. CASE v # w
      <4>1. v \notin AtWork
        BY <1>6, <2>1, <3>2 DEF TextsInv, OneAtATime
      <4> QED BY <1>7, <3>2, <4>1 DEF TextsInv, ReadersAreUpserts, AtWork
    <3> QED BY <3>1, <3>2
  <2> QED BY <1>1, <1>6, <1>7, <2>1 DEF TextsInv, OneAtATime
<1>12. TextIsTheBest'
  BY <1>1, <1>4, <1>5, <1>6, <1>7, <1>8 DEF TextsInv, TextIsTheBest
<1>13. RequestIsOnItsWay'
  BY <1>1, <1>6, <1>7, <1>8 DEF TextsInv, RequestIsOnItsWay
<1>14. WaitingHasAJob'
  BY <1>6, <1>7 DEF WaitingHasAJob
<1> QED BY <1>9, <1>10, <1>11, <1>12, <1>13, <1>14 DEF TextsInv

\* The end of a job is a text of its version, the best so far unless jobs
\* overlapped, or an error over the text there was.
LEMMA JobEndKeepsTexts ==
    ASSUME TextsInv, NEW w \in Workers, Saves(w) \/ RecordsError(w)
    PROVE  TextsInv'
<1>1. /\ job[w].pc \in {"save", "fail"} /\ ~Reads(job[w]) /\ Goes(w, NoJob)
      /\ UNCHANGED <<store, source, queue, backfill, owed, overlapped, cut>>
  BY DEF Saves, RecordsError, Writes
<1>2. /\ job[w] \in TextJobs /\ job[w].of \in Nat /\ NoText \in Nat /\ best \in Nat /\ variant \in TextRows
      /\ variant.text \in Nat
  BY DEF TextsInv, TextsTypeOK, TextJobs, TextRows, NoText
<1>3. Found(job[w]) \in TextRows /\ (~overlapped => Found(job[w]) = variant)
  BY <1>1, UpsertsMeetTheRow
<1>4. w \in AtWork /\ AtWork \subseteq Workers
  BY <1>1 DEF AtWork
<1>5. job[w].of # NoText
  BY <1>4 DEF TextsInv, NothingIsNewer
<1>6. /\ variant' \in TextRows /\ variant'.status \in {"complete", "error"}
      /\ \/ variant'.text = job[w].of /\ best' = IF job[w].of > best THEN job[w].of ELSE best
         \/ variant'.text = Found(job[w]).text /\ best' = best /\ variant'.status = "error"
  <2>1. CASE Saves(w)
    <3>1. /\ variant' = Merged(Found(job[w]), "complete", job[w].of, job[w].of)
          /\ best' = IF job[w].of > best THEN job[w].of ELSE best
      BY <2>1 DEF Saves, Writes
    <3> DEFINE f == Found(job[w])
               of == job[w].of
    <3>2. f \in TextRows /\ of \in Nat /\ of # NoText
      BY <1>2, <1>3, <1>5
    <3>3. variant' = Merged(f, "complete", of, of)
      BY <3>1
    <3> HIDE DEF f, of
    <3>4. /\ Merged(f, "complete", of, of) \in TextRows
          /\ Merged(f, "complete", of, of).status = "complete"
          /\ Merged(f, "complete", of, of).text = of
      BY <3>2, MergedTyped
    <3> QED BY <3>1, <3>3, <3>4 DEF of
  <2>2. CASE RecordsError(w)
    <3>1. variant' = Merged(Found(job[w]), "error", NoText, job[w].of) /\ best' = best
      BY <2>2 DEF RecordsError, Writes
    <3> DEFINE f == Found(job[w])
               of == job[w].of
    <3>2. f \in TextRows /\ of \in Nat
      BY <1>2, <1>3
    <3>3. variant' = Merged(f, "error", NoText, of)
      BY <3>1
    <3> HIDE DEF f, of
    <3>4. /\ Merged(f, "error", NoText, of) \in TextRows
          /\ Merged(f, "error", NoText, of).status = "error"
          /\ Merged(f, "error", NoText, of).text = f.text
      BY <3>2, MergedKeepsText
    <3> QED BY <3>1, <3>3, <3>4 DEF f
  <2> QED BY <2>1, <2>2
<1>7. /\ job' \in [Workers -> TextJobs] /\ job'[w] = NoJob
      /\ \A v \in Workers : v # w => job'[v] = job[v]
      /\ AtWork' = AtWork \ {w}
  BY <1>1, NoTextJob, WorkerGoes DEF TextsInv
<1>8. ~overlapped => AtWork = {w} /\ AtWork' = {}
  BY <1>4, <1>7 DEF TextsInv, OneAtATime
<1>9. best' \in Nat
  BY <1>2, <1>6
<1>10. TextsTypeOK'
  BY <1>1, <1>6, <1>7, <1>9 DEF TextsInv, TextsTypeOK
<1>11. ReadersAreUpserts'
  BY <1>1, <1>7, NoTextJob DEF TextsInv, ReadersAreUpserts
<1>12. NothingIsNewer'
  BY <1>1, <1>2, <1>4, <1>6, <1>7 DEF TextsInv, NothingIsNewer
<1>13. OneAtATime'
  <2>1. ASSUME ~overlapped, NEW v \in Workers PROVE ~job'[v].reads
    BY <1>7, <1>8, <2>1, NoTextJob DEF TextsInv, ReadersAreUpserts, AtWork
  <2> QED BY <1>1, <1>4, <1>8, <2>1 DEF TextsInv, OneAtATime
<1>14. ~overlapped => best <= job[w].of /\ variant.text = best
  BY <1>4 DEF TextsInv, TextIsTheBest
<1>15. TextIsTheBest'
  BY <1>1, <1>2, <1>3, <1>6, <1>8, <1>14 DEF TextIsTheBest
<1>16. RequestIsOnItsWay'
  BY <1>1, <1>4, <1>6, <1>8 DEF TextsInv, RequestIsOnItsWay
<1>17. WaitingHasAJob'
  BY <1>6 DEF WaitingHasAJob, Waiting
<1> QED BY <1>10, <1>11, <1>12, <1>13, <1>15, <1>16, <1>17 DEF TextsInv

\* A job that dies is queued again, or is cut.
LEMMA JobDiesKeepsTexts ==
    ASSUME TextsInv, NEW w \in Workers, JobDies(w)
    PROVE  TextsInv'
<1>1. /\ job[w].pc # "idle" /\ Goes(w, NoJob)
      /\ UNCHANGED <<store, source, variant, backfill, owed, best, overlapped>>
      /\ \/ queue' = queue + 1 /\ UNCHANGED cut
         \/ cut' = TRUE /\ UNCHANGED queue
  BY DEF JobDies
<1>2. /\ job' \in [Workers -> TextJobs] /\ job'[w] = NoJob
      /\ \A v \in Workers : v # w => job'[v] = job[v]
      /\ AtWork' = AtWork \ {w}
  BY <1>1, NoTextJob, WorkerGoes DEF TextsInv
<1>3. queue' \in Nat /\ cut' \in BOOLEAN /\ (queue' > 0 \/ cut') /\ (cut => cut')
  <2>1. queue \in Nat /\ cut \in BOOLEAN
    BY DEF TextsInv, TextsTypeOK
  <2>2. CASE queue' = queue + 1 /\ UNCHANGED cut
    BY <2>1, <2>2
  <2>3. CASE cut' = TRUE /\ UNCHANGED queue
    BY <2>1, <2>3
  <2> QED BY <1>1, <2>2, <2>3
<1>4. AtWork \subseteq Workers
  BY DEF AtWork
<1>5. TextsTypeOK'
  BY <1>1, <1>2, <1>3 DEF TextsInv, TextsTypeOK
<1>6. ReadersAreUpserts'
  BY <1>1, <1>2, NoTextJob DEF TextsInv, ReadersAreUpserts
<1>7. NothingIsNewer'
  BY <1>1, <1>2, <1>3, <1>4 DEF TextsInv, NothingIsNewer
<1>8. OneAtATime' /\ TextIsTheBest'
  BY <1>1, <1>2, <1>4, NoTextJob DEF TextsInv, OneAtATime, TextIsTheBest
<1>9. RequestIsOnItsWay' /\ WaitingHasAJob'
  BY <1>3 DEF RequestIsOnItsWay, WaitingHasAJob
<1> QED BY <1>5, <1>6, <1>7, <1>8, <1>9 DEF TextsInv

\* Edits, deletions and requests for a job.
LEMMA AskingKeepsTexts ==
    ASSUME TextsInv, Edit \/ DeleteSource \/ PublishEnqueues \/ BackfillEnqueues
    PROVE  TextsInv'
<1> USE DEF TextsInv
<1>1. source \in Nat /\ queue \in Nat /\ owed \in Nat /\ best \in Nat /\ MaxVersion \in Nat
  BY TranslationsAssumption DEF TextsTypeOK
<1>2. UNCHANGED <<store, variant, job, best, overlapped>> /\ AtWork' = AtWork
  BY DEF Edit, DeleteSource, PublishEnqueues, BackfillEnqueues, AtWork
<1>3. \A w \in AtWork : job[w].of \in Nat
  BY DEF TextsTypeOK, TextJobs, AtWork
<1>4. CASE Edit
  <2>1. source # 0 /\ source' = source + 1 /\ UNCHANGED <<queue, backfill, owed, cut>>
    BY <1>1, <1>4 DEF Edit
  <2>2. TextsTypeOK'
    BY <1>1, <1>2, <2>1 DEF TextsTypeOK
  <2>3. NothingIsNewer'
    BY <1>1, <1>2, <1>3, <2>1 DEF NothingIsNewer
  <2>4. ReadersAreUpserts' /\ OneAtATime' /\ TextIsTheBest'
    BY <1>2, <2>1 DEF ReadersAreUpserts, OneAtATime, TextIsTheBest
  <2>5. RequestIsOnItsWay' /\ WaitingHasAJob'
    BY <1>2, <2>1 DEF RequestIsOnItsWay, WaitingHasAJob, Waiting
  <2> QED BY <2>2, <2>3, <2>4, <2>5
<1>5. CASE DeleteSource
  <2>1. source' = 0 /\ cut' = TRUE /\ UNCHANGED <<queue, backfill, owed>>
    BY <1>5 DEF DeleteSource
  <2>2. TextsTypeOK'
    BY <1>1, <1>2, <2>1 DEF TextsTypeOK
  <2>3. NothingIsNewer'
    BY <1>1, <1>2, <2>1 DEF NothingIsNewer
  <2>4. ReadersAreUpserts' /\ OneAtATime' /\ TextIsTheBest'
    BY <1>2, <2>1 DEF ReadersAreUpserts, OneAtATime, TextIsTheBest
  <2>5. RequestIsOnItsWay' /\ WaitingHasAJob'
    BY <2>1 DEF RequestIsOnItsWay, WaitingHasAJob
  <2> QED BY <2>2, <2>3, <2>4, <2>5
<1>6. CASE PublishEnqueues \/ BackfillEnqueues
  <2>1. /\ queue' = queue + 1 /\ owed' = source /\ UNCHANGED <<source, cut>>
        /\ backfill' \in {backfill, NoJob}
    BY <1>6 DEF PublishEnqueues, BackfillEnqueues, Enqueued
  <2>2. backfill' \in TextJobs /\ (backfill'.reads => backfill' = backfill)
    BY <2>1, NoTextJob DEF TextsTypeOK
  <2>3. TextsTypeOK'
    BY <1>1, <1>2, <2>1, <2>2 DEF TextsTypeOK
  <2>4. NothingIsNewer'
    BY <1>1, <1>2, <2>1 DEF NothingIsNewer
  <2>5. ReadersAreUpserts' /\ OneAtATime' /\ TextIsTheBest'
    BY <1>2, <2>2 DEF ReadersAreUpserts, OneAtATime, TextIsTheBest
  <2>6. queue' > 0
    BY <1>1, <2>1
  <2>7. RequestIsOnItsWay' /\ WaitingHasAJob'
    BY <2>6 DEF RequestIsOnItsWay, WaitingHasAJob
  <2> QED BY <2>3, <2>4, <2>5, <2>7
<1> QED BY <1>4, <1>5, <1>6

\* The backfill route finds the document, reads the row, marks it, or dies.
LEMMA BackfillKeepsTexts ==
    ASSUME TextsInv, BackfillLists \/ BackfillReads \/ BackfillMarks \/ BackfillDies
    PROVE  TextsInv'
<1> USE DEF TextsInv
<1>1. UNCHANGED <<store, source, queue, job, owed, best>> /\ AtWork' = AtWork
  BY DEF BackfillLists, BackfillReads, BackfillMarks, BackfillDies, AtWork
<1>2. backfill \in TextJobs /\ backfill.of \in Nat /\ source \in Nat /\ variant \in TextRows
  BY DEF TextsTypeOK, TextJobs
<1>3. CASE BackfillLists \/ BackfillDies
  <2>1. /\ backfill.pc # "queue" \/ cut' = TRUE
        /\ UNCHANGED <<variant, overlapped>> /\ (UNCHANGED cut \/ cut' = TRUE)
        /\ backfill' \in {Job("mark", source), NoJob}
        /\ backfill' = NoJob => cut'
    <3>1. CASE BackfillLists
      <4>1. Job("mark", source).pc = "mark"
        BY <1>2, TextJobTyped
      <4> QED BY <3>1, <4>1, NoTextJob DEF BackfillLists
    <3>2. CASE BackfillDies
      BY <3>2 DEF BackfillDies
    <3> QED BY <1>3, <3>1, <3>2
  <2>2. backfill' \in TextJobs /\ ~backfill'.reads /\ (backfill'.pc # "idle" \/ cut')
    BY <1>2, <2>1, TextJobTyped, NoTextJob
  <2>3. cut' \in BOOLEAN /\ (cut => cut')
    <3>1. cut \in BOOLEAN
      BY DEF TextsTypeOK
    <3>2. CASE cut' = cut
      BY <3>1, <3>2
    <3>3. CASE cut' = TRUE
      BY <3>3
    <3> QED BY <2>1, <3>2, <3>3
  <2>4. TextsTypeOK' /\ ReadersAreUpserts'
    BY <1>1, <2>1, <2>2, <2>3 DEF TextsTypeOK, ReadersAreUpserts
  <2>5. NothingIsNewer' /\ OneAtATime' /\ TextIsTheBest'
    BY <1>1, <2>1, <2>2, <2>3 DEF NothingIsNewer, OneAtATime, TextIsTheBest
  <2>6. RequestIsOnItsWay' /\ WaitingHasAJob'
    BY <1>1, <2>1, <2>2, <2>3 DEF RequestIsOnItsWay, WaitingHasAJob, Waiting
  <2> QED BY <2>4, <2>5, <2>6
<1>4. CASE BackfillReads
  <2>1. /\ backfill.pc = "mark" /\ store = "drizzle" /\ UNCHANGED <<variant, cut>>
        /\ backfill' = [backfill EXCEPT !.reads = TRUE, !.row = variant]
        /\ overlapped' = (overlapped \/ AtWork # {})
    BY <1>4 DEF BackfillReads, Reads
  <2>2. backfill' \in TextJobs /\ backfill'.pc = "mark" /\ backfill'.row = variant
    BY <1>2, <2>1 DEF TextJobs
  <2>3. overlapped' \in BOOLEAN /\ (~overlapped' => ~overlapped /\ AtWork = {})
    BY <2>1
  <2>4. TextsTypeOK' /\ ReadersAreUpserts'
    BY <1>1, <2>1, <2>2, <2>3 DEF TextsTypeOK, ReadersAreUpserts
  <2>5. NothingIsNewer' /\ OneAtATime' /\ TextIsTheBest'
    BY <1>1, <2>1, <2>2, <2>3 DEF NothingIsNewer, OneAtATime, TextIsTheBest
  <2>6. RequestIsOnItsWay' /\ WaitingHasAJob'
    BY <1>1, <2>1, <2>2, <2>3 DEF RequestIsOnItsWay, WaitingHasAJob, Waiting
  <2> QED BY <2>4, <2>5, <2>6
<1>5. CASE BackfillMarks
  <2> DEFINE f == Found(backfill)
             of == backfill.of
  <2>1. /\ ~Reads(backfill) /\ variant' = Merged(f, "pending", NoText, of)
        /\ backfill' = Job("queue", of) /\ UNCHANGED <<overlapped, cut>>
    BY <1>5 DEF BackfillMarks, Writes
  <2>2. f \in TextRows /\ (~overlapped => f = variant) /\ of \in Nat
    BY <1>2, <2>1, UpsertsMeetTheRow
  <2>3. /\ store = "drizzle" => backfill.reads
        /\ \A w \in Workers : job[w].reads => store = "drizzle" /\ w \in AtWork
    BY <1>2, <2>1 DEF Reads, ReadersAreUpserts, TextJobs, AtWork
  <2> HIDE DEF f, of
  <2>4. variant' \in TextRows /\ variant'.text = f.text
    BY <2>1, <2>2, MergedKeepsText
  <2>5. backfill' \in TextJobs /\ backfill'.pc = "queue" /\ ~backfill'.reads
    BY <2>1, <2>2, TextJobTyped
  <2>6. TextsTypeOK' /\ ReadersAreUpserts'
    BY <1>1, <2>1, <2>4, <2>5 DEF TextsTypeOK, ReadersAreUpserts
  <2>7. NothingIsNewer' /\ TextIsTheBest'
    BY <1>1, <2>1, <2>2, <2>4 DEF NothingIsNewer, TextIsTheBest
  <2>8. OneAtATime'
    BY <1>1, <2>1, <2>3, <2>5 DEF OneAtATime
  <2>9. RequestIsOnItsWay' /\ WaitingHasAJob'
    BY <2>5 DEF RequestIsOnItsWay, WaitingHasAJob
  <2> QED BY <2>6, <2>7, <2>8, <2>9
<1> QED BY <1>3, <1>4, <1>5

\* At first nothing is asked for.
LEMMA TextsStart == TranslationsInit => TextsInv
<1> SUFFICES ASSUME TranslationsInit PROVE TextsInv
  OBVIOUS
<1>1. NoRow \in TextRows /\ NoRow.text = 0 /\ NoRow.status = "none"
  BY DEF NoRow, Row, TextRows, NoText
<1>2. AtWork = {}
  BY NoTextJob DEF TranslationsInit, AtWork
<1>3. TextsTypeOK /\ ReadersAreUpserts
  BY <1>1, NoTextJob DEF TranslationsInit, TextsTypeOK, ReadersAreUpserts
<1>4. NothingIsNewer /\ OneAtATime /\ TextIsTheBest
  BY <1>1, <1>2, NoTextJob DEF TranslationsInit, NothingIsNewer, OneAtATime, TextIsTheBest
<1>5. RequestIsOnItsWay /\ WaitingHasAJob
  BY <1>1, <1>2 DEF TranslationsInit, RequestIsOnItsWay, WaitingHasAJob, Waiting
<1> QED BY <1>3, <1>4, <1>5 DEF TextsInv

\* Every step keeps the invariant.
LEMMA TextsStep == TextsInv /\ [TranslationsNext]_translationVars => TextsInv'
<1> SUFFICES ASSUME TextsInv, [TranslationsNext]_translationVars PROVE TextsInv'
  OBVIOUS
<1>1. ASSUME NEW w \in Workers, Works(w) \/ JobDies(w) PROVE TextsInv'
  BY <1>1, TakesKeepsTexts, JobGoesOnSteps, MarksKeepsTexts, JobEndKeepsTexts, JobDiesKeepsTexts DEF Works
<1>2. CASE UNCHANGED translationVars
  <2>1. AtWork' = AtWork
    BY <1>2 DEF translationVars, AtWork
  <2>2. TextsTypeOK' /\ ReadersAreUpserts' /\ NothingIsNewer'
    BY <1>2, <2>1 DEF translationVars, TextsInv, TextsTypeOK, ReadersAreUpserts, NothingIsNewer
  <2>3. OneAtATime' /\ TextIsTheBest' /\ RequestIsOnItsWay' /\ WaitingHasAJob'
    BY <1>2, <2>1 DEF translationVars, TextsInv, OneAtATime, TextIsTheBest, RequestIsOnItsWay, WaitingHasAJob, Waiting
  <2> QED BY <2>2, <2>3 DEF TextsInv
<1> QED BY <1>1, <1>2, AskingKeepsTexts, BackfillKeepsTexts DEF TranslationsNext

\* Whatever is edited, deleted, backfilled or dies meanwhile: with jobs that do not
\* overlap the last request is answered by a text of its version or an error, no
\* text is lost, and a variant that waits is waited for.
THEOREM TranslationsStayKept == TranslationsSpec => []TranslationsAreKept
<1>1. TextsInv => TranslationsAreKept
  <2> SUFFICES ASSUME TextsInv PROVE TranslationsAreKept
    OBVIOUS
  <2>1. owed \in Nat /\ best \in Nat /\ queue \in Nat /\ variant.text \in Nat
    BY DEF TextsInv, TextsTypeOK, TextRows
  <2>2. TranslatedUpToTheLastRequest
    BY <2>1 DEF TextsInv, RequestIsOnItsWay, TranslatedUpToTheLastRequest
  <2>3. TextIsLostOnlyByOverlap
    BY <2>1 DEF TextsInv, TextIsTheBest, TextIsLostOnlyByOverlap
  <2> QED BY <2>2, <2>3 DEF TextsInv, TranslationsAreKept
<1> QED BY <1>1, TextsStart, TextsStep, PTL DEF TranslationsSpec

-----------------------------------------------------------------------------
(* Jobs: what was taken, and what cold starts leave. *)

QueuedJobs == [job : Jobs, name : JobNames, tries : Nat]
Starts == [pc : {"new", "create", "done"}, todo : SUBSET JobNames, existing : SUBSET JobNames]

JobsTypeOK == /\ adapter \in Adapters
              /\ build \in Nat
              /\ messages \subseteq QueuedJobs
              /\ accepted \subseteq Jobs
              /\ ranBy \in [Jobs -> SUBSET Nat]
              /\ handlers \in [JobNames -> Nat]
              /\ schedules \in [JobNames -> Nat]
              /\ start \in [ColdStarts -> Starts]
              /\ crossed \in BOOLEAN

\* As long as cold starts do not overlap, what the one at work has still to do
\* and has not found does not exist.
StartsAreAlone ==
    ~crossed => /\ \A s, t \in ColdStarts : start[s].pc = "create" /\ start[t].pc = "create" => s = t
                /\ \A s \in ColdStarts : start[s].pc = "create" =>
                       \A n \in start[s].todo : n \in start[s].existing \/ schedules[n] = 0

JobsInv == JobsTypeOK /\ StartsAreAlone /\ AcceptedIsNotDropped /\ OneScheduleEach

\* What one delivery leaves: the job ran, waits for another delivery, or was given up.
LEMMA DeliveriesKeepJobs ==
    ASSUME JobsInv, NEW m \in messages, Delivered(m) \/ DeliveryFails(m)
    PROVE  JobsInv'
<1> USE DEF JobsInv
<1>1. /\ UNCHANGED <<adapter, build, handlers, accepted, schedules, start, crossed>>
      /\ Again(m) \/ (messages' = messages \ {m} /\ UNCHANGED given)
  BY DEF Delivered, DeliveryFails, Answers, Fails
<1>2. m \in QueuedJobs /\ m.job \in Jobs /\ m.name \in JobNames /\ m.tries \in Nat
  BY DEF JobsTypeOK, QueuedJobs
<1>3. DEFINE next == Message(m.job, m.name, m.tries + 1)
<1>4. next \in QueuedJobs /\ next.job = m.job
  BY <1>2 DEF Message, QueuedJobs
<1> HIDE DEF next
<1>5. /\ messages \ {m} \subseteq messages' /\ messages' \subseteq messages \cup {next}
      /\ given \subseteq given'
      /\ Again(m) => next \in messages' \/ m.job \in given'
  BY <1>1 DEF Again, next
<1>6. /\ ranBy' \in [Jobs -> SUBSET Nat] /\ \A j \in Jobs : ranBy[j] \subseteq ranBy'[j]
      /\ Delivered(m) => ranBy'[m.job] # {}
  <2>1. CASE Delivered(m)
    <3>1. ranBy' = [ranBy EXCEPT ![m.job] = @ \cup {build}]
      BY <2>1 DEF Delivered
    <3> QED BY <1>2, <3>1 DEF JobsTypeOK
  <2>2. CASE ~Delivered(m)
    BY <2>2 DEF DeliveryFails, JobsTypeOK
  <2> QED BY <2>1, <2>2
<1>7. JobsTypeOK'
  BY <1>1, <1>4, <1>5, <1>6 DEF JobsTypeOK
<1>8. StartsAreAlone' /\ OneScheduleEach'
  BY <1>1 DEF StartsAreAlone, OneScheduleEach
<1>9. AcceptedIsNotDropped'
  <2> SUFFICES ASSUME NEW j \in accepted
               PROVE  \/ ranBy'[j] # {} \/ j \in given'
                      \/ \E q \in messages' : q.job = j
                      \/ adapter = "none"
    BY <1>1 DEF AcceptedIsNotDropped
  <2>1. j \in Jobs
    BY DEF JobsTypeOK
  <2>2. CASE \E q \in messages \ {m} : q.job = j
    BY <1>5, <2>2
  <2>3. CASE j = m.job
    <3>1. Again(m) \/ Delivered(m)
      BY DEF DeliveryFails, Fails
    <3> QED BY <1>4, <1>5, <1>6, <2>3, <3>1
  <2>4. CASE ranBy[j] # {} \/ j \in given \/ adapter = "none"
    BY <1>5, <1>6, <2>1, <2>4
  <2> QED BY <2>2, <2>3, <2>4 DEF AcceptedIsNotDropped
<1> QED BY <1>7, <1>8, <1>9

\* What is enqueued ran, is with the queue, or was refused; only the adapter "none" drops it.
LEMMA EnqueuesKeepJobs ==
    ASSUME JobsInv, NEW j \in Jobs,
           \/ EnqueueToNone(j) \/ EnqueueToCronOnly(j)
           \/ \E n \in JobNames : EnqueueInProcess(j, n) \/ EnqueueToQueue(j, n)
    PROVE  JobsInv'
<1> USE DEF JobsInv
<1>1. UNCHANGED <<adapter, build, handlers, given, schedules, start, crossed>>
  BY DEF EnqueueToNone, EnqueueToCronOnly, EnqueueInProcess, EnqueueToQueue
<1>2. messages \subseteq messages' /\ messages' \subseteq QueuedJobs
  BY DEF EnqueueToNone, EnqueueToCronOnly, EnqueueInProcess, EnqueueToQueue, JobsTypeOK, Message, QueuedJobs
<1>3. ranBy' \in [Jobs -> SUBSET Nat] /\ \A k \in Jobs : ranBy[k] # {} => ranBy'[k] # {}
  <2>1. CASE UNCHANGED ranBy
    BY <2>1 DEF JobsTypeOK
  <2>2. ASSUME NEW n \in JobNames, EnqueueInProcess(j, n)
        PROVE  ranBy' \in [Jobs -> SUBSET Nat] /\ \A k \in Jobs : ranBy[k] # {} => ranBy'[k] # {}
    <3>1. handlers[n] \in Nat /\ ranBy' = [ranBy EXCEPT ![j] = {handlers[n]}]
      BY <2>2 DEF EnqueueInProcess, JobsTypeOK
    <3> QED BY <3>1 DEF JobsTypeOK
  <2> QED BY <2>1, <2>2 DEF EnqueueToNone, EnqueueToCronOnly, EnqueueToQueue
<1>4. /\ accepted' \subseteq accepted \cup {j}
      /\ j \in accepted' \ accepted =>
             \/ ranBy'[j] # {}
             \/ \E m \in messages' : m.job = j
             \/ adapter = "none"
  <2>1. CASE EnqueueToNone(j) \/ EnqueueToCronOnly(j)
    BY <2>1 DEF EnqueueToNone, EnqueueToCronOnly, Refuses
  <2>2. CASE \E n \in JobNames : EnqueueInProcess(j, n)
    BY <2>2 DEF EnqueueInProcess, JobsTypeOK
  <2>3. CASE \E n \in JobNames : EnqueueToQueue(j, n)
    <3>1. PICK n \in JobNames : messages' = messages \cup {Message(j, n, 0)} /\ accepted' = accepted \cup {j}
      BY <2>3 DEF EnqueueToQueue
    <3>2. Message(j, n, 0).job = j
      BY DEF Message
    <3> QED BY <3>1, <3>2
  <2> QED BY <2>1, <2>2, <2>3
<1>5. JobsTypeOK'
  BY <1>1, <1>2, <1>3, <1>4 DEF JobsTypeOK
<1>6. StartsAreAlone' /\ OneScheduleEach'
  BY <1>1 DEF StartsAreAlone, OneScheduleEach
<1>7. AcceptedIsNotDropped'
  BY <1>1, <1>2, <1>3, <1>4 DEF AcceptedIsNotDropped, JobsTypeOK
<1> QED BY <1>5, <1>6, <1>7

\* A cold start that is alone creates what is not there.
LEMMA StartsKeepJobs ==
    ASSUME JobsInv, NEW s \in ColdStarts,
           Lists(s) \/ StartDies(s) \/ \E n \in JobNames : CreateOrSkip(s, n)
    PROVE  JobsInv'
<1> USE DEF JobsInv
<1>1. UNCHANGED <<adapter, build, handlers, messages, accepted, ranBy, given>>
  BY DEF Lists, StartDies, CreateOrSkip
<1>2. AcceptedIsNotDropped'
  BY <1>1 DEF AcceptedIsNotDropped
<1>3. start[s] \in Starts
  BY DEF JobsTypeOK
<1>4. CASE Lists(s)
  <2> DEFINE r == [pc |-> "create", todo |-> JobNames, existing |-> {n \in JobNames : schedules[n] > 0}]
  <2>1. /\ start' = [start EXCEPT ![s] = r] /\ UNCHANGED schedules
        /\ crossed' = (crossed \/ \E t \in ColdStarts : start[t].pc = "create")
    BY <1>4 DEF Lists
  <2>2. r \in Starts /\ \A n \in JobNames : n \in r.existing \/ schedules[n] = 0
    BY DEF Starts, JobsTypeOK
  <2> HIDE DEF r
  <2>3. start'[s] = r /\ \A t \in ColdStarts : t # s => start'[t] = start[t]
    BY <2>1 DEF JobsTypeOK
  <2>4. crossed' \in BOOLEAN /\ (~crossed' => ~crossed /\ \A t \in ColdStarts : start[t].pc # "create")
    BY <2>1
  <2>5. JobsTypeOK' /\ OneScheduleEach'
    BY <1>1, <2>1, <2>2, <2>4 DEF JobsTypeOK, OneScheduleEach
  <2>6. r.todo \subseteq JobNames
    BY <2>2 DEF Starts
  <2>7. StartsAreAlone'
    BY <2>1, <2>2, <2>3, <2>4, <2>6 DEF StartsAreAlone
  <2> QED BY <1>2, <2>5, <2>7
<1>5. CASE StartDies(s)
  <2>1. UNCHANGED <<schedules, crossed>> /\ start' = [start EXCEPT ![s].pc = "done"]
    BY <1>5 DEF StartDies
  <2>2. start'[s] \in Starts /\ start'[s].pc = "done" /\ \A t \in ColdStarts : t # s => start'[t] = start[t]
    BY <1>3, <2>1 DEF JobsTypeOK, Starts
  <2>3. start' \in [ColdStarts -> Starts]
    BY <2>1, <2>2 DEF JobsTypeOK
  <2>4. JobsTypeOK' /\ OneScheduleEach'
    BY <1>1, <2>1, <2>3 DEF JobsTypeOK, OneScheduleEach
  <2>5. StartsAreAlone'
    BY <2>1, <2>2 DEF StartsAreAlone
  <2> QED BY <1>2, <2>4, <2>5
<1>6. ASSUME NEW n \in JobNames, CreateOrSkip(s, n) PROVE JobsInv'
  <2>1. /\ start[s].pc = "create" /\ n \in start[s].todo /\ UNCHANGED crossed
        /\ schedules' = [schedules EXCEPT ![n] = IF n \notin start[s].existing THEN @ + 1 ELSE @]
        /\ start' = [start EXCEPT ![s].todo = @ \ {n},
                                  ![s].pc = IF start[s].todo = {n} THEN "done" ELSE @]
    BY <1>6 DEF CreateOrSkip, Creates
  <2>2. /\ start'[s] \in Starts /\ start'[s].todo = start[s].todo \ {n}
        /\ start'[s].existing = start[s].existing
        /\ \A t \in ColdStarts : t # s => start'[t] = start[t]
    BY <1>3, <2>1 DEF JobsTypeOK, Starts
  <2>3. start' \in [ColdStarts -> Starts]
    BY <2>1, <2>2 DEF JobsTypeOK
  <2>4. /\ schedules' \in [JobNames -> Nat] /\ \A k \in JobNames : k # n => schedules'[k] = schedules[k]
        /\ schedules'[n] = IF n \notin start[s].existing THEN schedules[n] + 1 ELSE schedules[n]
    BY <2>1 DEF JobsTypeOK
  <2>5. JobsTypeOK'
    BY <1>1, <2>1, <2>3, <2>4 DEF JobsTypeOK
  <2>6. OneScheduleEach'
    <3>1. ~crossed => schedules'[n] <= 1
      BY <2>1, <2>4 DEF StartsAreAlone, OneScheduleEach, JobsTypeOK
    <3> QED BY <2>1, <2>4, <3>1 DEF OneScheduleEach
  <2>7. start[s].todo \subseteq JobNames
    BY <1>3 DEF Starts
  <2>8. StartsAreAlone'
    <3> SUFFICES ASSUME ~crossed PROVE /\ \A a, t \in ColdStarts : start'[a].pc = "create" /\ start'[t].pc = "create" => a = t
                                       /\ \A a \in ColdStarts : start'[a].pc = "create" =>
                                              \A k \in start'[a].todo : k \in start'[a].existing \/ schedules'[k] = 0
      BY <2>1 DEF StartsAreAlone
    <3>1. \A t \in ColdStarts : start'[t].pc = "create" => t = s
      BY <2>1, <2>2 DEF StartsAreAlone
    <3>2. \A k \in start'[s].todo : k \in start'[s].existing \/ schedules'[k] = 0
      BY <2>1, <2>2, <2>4, <2>7 DEF StartsAreAlone
    <3> QED BY <3>1, <3>2
  <2> QED BY <1>2, <2>5, <2>6, <2>8
<1> QED BY <1>4, <1>5, <1>6

\* Nothing was taken at first.
LEMMA JobsStart == JobsInit => JobsInv
<1> SUFFICES ASSUME JobsInit PROVE JobsInv
  OBVIOUS
<1>1. NoStart \in Starts /\ NoStart.pc = "new"
  BY DEF NoStart, Starts
<1>2. JobsTypeOK
  BY <1>1 DEF JobsInit, JobsTypeOK
<1>3. StartsAreAlone /\ AcceptedIsNotDropped /\ OneScheduleEach
  BY <1>1 DEF JobsInit, StartsAreAlone, AcceptedIsNotDropped, OneScheduleEach
<1> QED BY <1>2, <1>3 DEF JobsInv

\* Every step keeps the invariant.
LEMMA JobsStep == JobsInv /\ [JobsNext]_jobsVars => JobsInv'
<1> SUFFICES ASSUME JobsInv, [JobsNext]_jobsVars PROVE JobsInv'
  OBVIOUS
<1>1. ASSUME RebuildCMS \/ RestartProcess \/ \E n \in JobNames : RegisterJob(n)
      PROVE  JobsInv'
  <2>1. UNCHANGED <<adapter, messages, accepted, ranBy, given, schedules, start, crossed>>
    BY <1>1 DEF RebuildCMS, RestartProcess, RegisterJob
  <2>2. build' \in Nat /\ handlers' \in [JobNames -> Nat]
    BY <1>1 DEF RebuildCMS, RestartProcess, RegisterJob, Registers, JobsInv, JobsTypeOK
  <2> QED BY <2>1, <2>2 DEF JobsInv, JobsTypeOK, StartsAreAlone, AcceptedIsNotDropped, OneScheduleEach
<1>2. CASE UNCHANGED jobsVars
  BY <1>2 DEF jobsVars, JobsInv, JobsTypeOK, StartsAreAlone, AcceptedIsNotDropped, OneScheduleEach
<1> QED BY <1>1, <1>2, DeliveriesKeepJobs, EnqueuesKeepJobs, StartsKeepJobs DEF JobsNext

\* An enqueue that was answered leads to a run, a message or a job given up, and
\* cold starts that do not overlap leave one schedule of each entry.
THEOREM JobsStayKept == JobsSpec => []JobsAreKept
<1>1. JobsInv => JobsAreKept
  BY DEF JobsInv, JobsAreKept
<1> QED BY <1>1, JobsStart, JobsStep, PTL DEF JobsSpec

-----------------------------------------------------------------------------
(* Pages: the order of the rows and their ranks in it. *)

\* The order of a list is a strict total order of its rows.
LEMMA RowOrder ==
    ASSUME createdAt \in [Ids -> Int]
    PROVE  /\ \A a \in Ids : ~Precedes(a, a)
           /\ \A a, b, c \in Ids : Precedes(a, b) /\ Precedes(b, c) => Precedes(a, c)
           /\ \A a, b \in Ids : a = b \/ Precedes(a, b) \/ Precedes(b, a)
<1>1. ASSUME NEW a \in Ids, NEW b \in Ids
      PROVE  a \in Int /\ b \in Int /\ createdAt[a] \in Int /\ createdAt[b] \in Int
  BY PagingAssumption
<1>2. /\ \A a \in Ids : ~NewestFirst(a, a)
      /\ \A a, b, c \in Ids : NewestFirst(a, b) /\ NewestFirst(b, c) => NewestFirst(a, c)
      /\ \A a, b \in Ids : a = b \/ NewestFirst(a, b) \/ NewestFirst(b, a)
  BY <1>1 DEF NewestFirst
<1>3. /\ \A a \in Ids : ~OldestFirst(a, a)
      /\ \A a, b, c \in Ids : OldestFirst(a, b) /\ OldestFirst(b, c) => OldestFirst(a, c)
      /\ \A a, b \in Ids : a = b \/ OldestFirst(a, b) \/ OldestFirst(b, a)
  BY <1>1 DEF OldestFirst
<1> QED BY <1>2, <1>3 DEF Precedes

\* A set of rows is finite.
LEMMA RowsAreFinite ==
    ASSUME NEW S \in SUBSET Ids
    PROVE  IsFiniteSet(S) /\ Cardinality(S) \in Nat
  BY PagingAssumption, FS_Subset, FS_CardinalityType

\* A rank counts the rows before, so it grows along the order and is less than the length.
LEMMA RanksGrow ==
    ASSUME createdAt \in [Ids -> Int], NEW S \in SUBSET Ids
    PROVE  /\ \A a \in S : Rank(a, S) \in Nat /\ Rank(a, S) < Cardinality(S)
           /\ \A a, b \in S : Precedes(a, b) => Rank(a, S) < Rank(b, S)
<1> DEFINE Before(r) == {q \in S : Precedes(q, r)}
<1>1. ASSUME NEW a \in S PROVE Rank(a, S) \in Nat /\ Rank(a, S) < Cardinality(S)
  <2>1. Before(a) \in SUBSET (S \ {a})
    BY RowOrder
  <2>2. /\ IsFiniteSet(S \ {a}) /\ Cardinality(S \ {a}) = Cardinality(S) - 1
        /\ Cardinality(S) \in Nat
    BY RowsAreFinite, FS_RemoveElement
  <2>3. Cardinality(Before(a)) <= Cardinality(S \ {a}) /\ Cardinality(Before(a)) \in Nat
    BY <2>1, <2>2, FS_Subset, FS_CardinalityType
  <2>4. Rank(a, S) = Cardinality(Before(a))
    BY DEF Rank
  <2> HIDE DEF Before
  <2> QED BY <2>2, <2>3, <2>4
<1>2. ASSUME NEW a \in S, NEW b \in S, Precedes(a, b) PROVE Rank(a, S) < Rank(b, S)
  <2>1. Before(a) \in SUBSET Before(b)
    BY <1>2, RowOrder
  <2>2. a \in Before(b) /\ a \notin Before(a)
    BY <1>2, RowOrder
  <2>3. IsFiniteSet(Before(b)) /\ Cardinality(Before(a)) \in Nat /\ Cardinality(Before(b)) \in Nat
    <3>1. Before(a) \in SUBSET Ids /\ Before(b) \in SUBSET Ids
      OBVIOUS
    <3> QED BY <3>1, RowsAreFinite
  <2> HIDE DEF Before
  <2>4. Cardinality(Before(a)) <= Cardinality(Before(b))
    BY <2>1, <2>3, FS_Subset
  <2>5. Cardinality(Before(b)) # Cardinality(Before(a))
    BY <2>1, <2>2, <2>3, FS_Subset
  <2>6. Rank(a, S) = Cardinality(Before(a)) /\ Rank(b, S) = Cardinality(Before(b))
    BY DEF Rank, Before
  <2> QED BY <2>3, <2>4, <2>5, <2>6
<1> QED BY <1>1, <1>2

\* Some rows, but not none, have a first and a last among them.
LEMMA RowsHaveEnds ==
    ASSUME createdAt \in [Ids -> Int], NEW S \in SUBSET Ids, S # {}
    PROVE  /\ \E m \in S : \A q \in S : q = m \/ Precedes(q, m)
           /\ \E m \in S : \A q \in S : q = m \/ Precedes(m, q)
<1> DEFINE Before(r) == {q \in S : Precedes(q, r)}
           Later(r) == {q \in S : Precedes(r, q)}
           R == StrictSubsetOrdering(S)
<1>1. IsFiniteSet(S) /\ IsWellFoundedOn(R, SUBSET S)
  BY RowsAreFinite, FS_StrictSubsetOrderingWellFounded, FS_FiniteSubsetsOfFinite
<1>2. \E m \in S : \A q \in S : q = m \/ Precedes(q, m)
  <2> DEFINE T == {Later(r) : r \in S}
  <2>1. T \subseteq SUBSET S /\ T # {}
    OBVIOUS
  <2> HIDE DEF T, R
  <2>2. PICK X \in T : \A Y \in T : <<Y, X>> \notin R
    BY <1>1, <2>1, WFMin
  <2>3. PICK m \in S : X = Later(m)
    BY DEF T
  <2>4. ASSUME NEW q \in S, Precedes(m, q) PROVE FALSE
    <3>1. Later(q) \in SUBSET S /\ X \in SUBSET S /\ Later(q) \in T
      BY <2>3 DEF T
    <3>2. Later(q) \subseteq X /\ q \in X /\ q \notin Later(q)
      BY <2>3, <2>4, RowOrder
    <3> HIDE DEF Later
    <3>3. <<Later(q), X>> \in R
      BY <3>1, <3>2 DEF R, StrictSubsetOrdering
    <3> QED BY <2>2, <3>1, <3>3
  <2> QED BY <2>4, RowOrder
<1>3. \E m \in S : \A q \in S : q = m \/ Precedes(m, q)
  <2> DEFINE T == {Before(r) : r \in S}
  <2>1. T \subseteq SUBSET S /\ T # {}
    OBVIOUS
  <2> HIDE DEF T, R
  <2>2. PICK X \in T : \A Y \in T : <<Y, X>> \notin R
    BY <1>1, <2>1, WFMin
  <2>3. PICK m \in S : X = Before(m)
    BY DEF T
  <2>4. ASSUME NEW q \in S, Precedes(q, m) PROVE FALSE
    <3>1. Before(q) \in SUBSET S /\ X \in SUBSET S /\ Before(q) \in T
      BY <2>3 DEF T
    <3>2. Before(q) \subseteq X /\ q \in X /\ q \notin Before(q)
      BY <2>3, <2>4, RowOrder
    <3> HIDE DEF Before
    <3>3. <<Before(q), X>> \in R
      BY <3>1, <3>2 DEF R, StrictSubsetOrdering
    <3> QED BY <2>2, <3>1, <3>3
  <2> QED BY <2>4, RowOrder
<1> QED BY <1>2, <1>3

\* Every place of a list has a row.
LEMMA RanksAreAll ==
    ASSUME createdAt \in [Ids -> Int], NEW S \in SUBSET Ids, NEW i \in Nat, i < Cardinality(S)
    PROVE  \E r \in S : Rank(r, S) = i
<1> DEFINE n == Cardinality(S)
           f == [r \in S |-> Rank(r, S)]
           P == 0..(n - 1)
<1>1. IsFiniteSet(S) /\ n \in Nat
  BY RowsAreFinite
<1>2. \A a \in S : Rank(a, S) \in Nat /\ Rank(a, S) < n
  BY RanksGrow
<1>3. \A a, b \in S : Rank(a, S) = Rank(b, S) => a = b
  <2>1. ASSUME NEW a \in S, NEW b \in S, Rank(a, S) = Rank(b, S) PROVE a = b
    <3>1. ~Precedes(a, b) /\ ~Precedes(b, a)
      BY <1>2, <2>1, RanksGrow
    <3> QED BY <3>1, RowOrder
  <2> QED BY <2>1
<1> HIDE DEF n
<1>4. f \in [S -> P]
  BY <1>1, <1>2
<1>5. f \in Injection(S, P)
  BY <1>3, <1>4 DEF Injection, IsInjective
<1>6. IsFiniteSet(P) /\ Cardinality(P) = n
  BY <1>1, FS_Interval
<1>7. f \in Surjection(S, P)
  <2> HIDE DEF f, P
  <2> QED BY <1>5, <1>6, FS_Injection DEF n
<1>8. i \in P
  BY <1>1 DEF n
<1> QED BY <1>7, <1>8 DEF Surjection

\* A page that more follows has a last row, behind its other rows.
LEMMA PagesHaveALast ==
    ASSUME PagingTypeOK, HasMore
    PROVE  /\ LastItem \in PageItems
           /\ \A q \in PageItems : q = LastItem \/ Precedes(q, LastItem)
<1>1. createdAt \in [Ids -> Int] /\ Selected \in SUBSET Ids
  BY DEF PagingTypeOK, Selected
<1>2. Skipped \in Nat /\ PageSize \in Nat /\ PageSize > 0
  <2>1. page * PageSize \in Nat
    BY PagingAssumption DEF PagingTypeOK
  <2> QED BY <2>1, PagingAssumption DEF Skipped
<1>3. Cardinality(Selected) \in Nat
  BY <1>1, RowsAreFinite
<1>4. Skipped < Cardinality(Selected)
  BY <1>2, <1>3 DEF HasMore
<1>5. PICK m \in Selected : Rank(m, Selected) = Skipped
  BY <1>1, <1>2, <1>4, RanksAreAll
<1>6. m \in PageItems
  BY <1>2, <1>5 DEF PageItems
<1>7. PageItems \in SUBSET Ids /\ PageItems # {}
  BY <1>1, <1>6 DEF PageItems
<1>8. \E r \in PageItems : \A q \in PageItems : q = r \/ Precedes(q, r)
  BY <1>1, <1>7, RowsHaveEnds
<1> QED BY <1>8 DEF LastItem

\* One page of a list by cursor: the last page is all that is left, any other ends
\* with a row that is behind its rows and before all that is left.
LEMMA PagesArePrefixes ==
    ASSUME PagingTypeOK, walk # "pages"
    PROVE  /\ PageItems \subseteq Selected /\ Selected \subseteq rows
           /\ ~HasMore => PageItems = Selected
           /\ HasMore => /\ LastItem \in PageItems
                         /\ \A q \in PageItems : q = LastItem \/ Precedes(q, LastItem)
                         /\ \A r \in Selected \ PageItems : Precedes(LastItem, r)
<1>1. createdAt \in [Ids -> Int] /\ rows \subseteq Ids
  BY DEF PagingTypeOK
<1>2. PageItems \subseteq Selected /\ Selected \in SUBSET rows /\ Selected \in SUBSET Ids
  BY <1>1 DEF PageItems, Selected
<1>3. Skipped = 0 /\ PageSize \in Nat /\ PageSize > 0
  BY PagingAssumption DEF Skipped
<1>4. \A r \in Selected : Rank(r, Selected) \in Nat /\ Rank(r, Selected) < Cardinality(Selected)
  BY <1>1, <1>2, RanksGrow
<1>5. \A r \in Selected : r \in PageItems <=> Rank(r, Selected) < PageSize
  BY <1>3, <1>4 DEF PageItems
<1>6. Cardinality(Selected) \in Nat
  BY <1>2, RowsAreFinite
<1>7. ~HasMore => PageItems = Selected
  <2> SUFFICES ASSUME ~HasMore PROVE \A r \in Selected : r \in PageItems
    BY <1>2
  <2>1. Cardinality(Selected) <= PageSize
    BY <1>3, <1>6 DEF HasMore
  <2> QED BY <1>3, <1>4, <1>5, <1>6, <2>1
<1>8. ASSUME HasMore
      PROVE  /\ LastItem \in PageItems
             /\ \A q \in PageItems : q = LastItem \/ Precedes(q, LastItem)
             /\ \A r \in Selected \ PageItems : Precedes(LastItem, r)
  <2>6. LastItem \in PageItems /\ \A q \in PageItems : q = LastItem \/ Precedes(q, LastItem)
    BY <1>8, PagesHaveALast
  <2>7. ASSUME NEW r \in Selected \ PageItems PROVE Precedes(LastItem, r)
    <3>1. ~Precedes(r, LastItem)
      <4>1. Precedes(r, LastItem) => Rank(r, Selected) < Rank(LastItem, Selected)
        BY <1>1, <1>2, <2>6, <2>7, RanksGrow
      <4>2. LastItem \in Selected /\ Rank(LastItem, Selected) < PageSize
        BY <1>2, <1>5, <2>6
      <4>3. ~(Rank(r, Selected) < PageSize)
        BY <1>5, <2>7
      <4> QED BY <1>3, <1>4, <2>7, <4>1, <4>2, <4>3
    <3>2. LastItem \in Ids /\ r \in Ids /\ r # LastItem
      BY <1>2, <2>6, <2>7
    <3> QED BY <1>1, <3>1, <3>2, RowOrder
  <2> QED BY <2>6, <2>7
<1> QED BY <1>2, <1>7, <1>8

-----------------------------------------------------------------------------
(* Pages: a walk by cursor. *)

\* A walk begins with nothing read, what is due is stored, and a cursor was read.
WalkIsOrderly ==
    /\ phase = "ready" => cursor = NoCursor /\ seen = {} /\ again = {} /\ page = 0 /\ added = {} /\ removed = {}
    /\ due \subseteq rows
    /\ cursor = NoCursor \/ cursor \in seen

\* What is due and not read yet is ahead of the cursor.
RestIsAhead ==
    Promised /\ phase = "walking" /\ cursor # NoCursor => \A d \in due \ seen : AfterCursor(d)

WalkInv == PagingTypeOK /\ WalkIsOrderly /\ RestIsAhead

\* The types, and what holds of every way to walk.
LEMMA PagingKeepsTypes ==
    ASSUME PagingTypeOK, WalkIsOrderly, [PagingNext]_pagingVars
    PROVE  PagingTypeOK' /\ WalkIsOrderly'
<1> USE DEF PagingTypeOK, WalkIsOrderly
<1>1. CASE UNCHANGED pagingVars
  BY <1>1 DEF pagingVars, table, reader
<1>2. ASSUME NEW r \in Ids, AddRow(r) PROVE PagingTypeOK' /\ WalkIsOrderly'
  <2>1. /\ rows' = rows \cup {r} /\ used' = used \cup {r}
        /\ createdAt' = [createdAt EXCEPT ![r] = clock]
        /\ added' \in {added, added \cup {r}} /\ (phase # "walking" => added' = added)
        /\ UNCHANGED <<clock, walk, phase, cursor, page, seen, again, due, removed>>
    BY <1>2 DEF AddRow, reader
  <2>2. PagingTypeOK'
    BY <2>1
  <2>3. WalkIsOrderly'
    BY <2>1
  <2> QED BY <2>2, <2>3
<1>3. ASSUME NEW r \in Ids, RemoveRow(r) PROVE PagingTypeOK' /\ WalkIsOrderly'
  <2>1. /\ r \in rows /\ rows' = rows \ {r} /\ due' = due \ {r}
        /\ removed' \in {removed, removed \cup {r}} /\ (phase # "walking" => removed' = removed)
        /\ UNCHANGED <<used, createdAt, clock, walk, phase, cursor, page, seen, again, added>>
    BY <1>3 DEF RemoveRow, reader
  <2>2. PagingTypeOK'
    BY <2>1
  <2>3. WalkIsOrderly'
    BY <2>1
  <2> QED BY <2>2, <2>3
<1>4. CASE TickClock
  BY <1>4, PagingAssumption DEF TickClock, table, reader
<1>5. CASE BeginWalk
  BY <1>5 DEF BeginWalk, table
<1>6. CASE ReadPage
  <2>1. PageItems \subseteq rows /\ PageItems \subseteq used
    BY DEF PageItems, Selected
  <2>2. /\ phase = "walking" /\ phase' \in {"walking", "done"}
        /\ seen' = seen \cup PageItems /\ again' \subseteq again \cup seen
        /\ page' \in {page, page + 1}
        /\ UNCHANGED <<rows, used, createdAt, clock, walk, due, added, removed>>
    BY <1>6 DEF ReadPage, table
  <2>3. /\ cursor' = IF HasMore THEN LastItem ELSE cursor
        /\ page' = IF walk = "pages" THEN page + 1 ELSE page
    BY <1>6 DEF ReadPage
  <2>4. HasMore => LastItem \in PageItems
    BY PagesHaveALast
  <2> QED BY <2>1, <2>2, <2>3, <2>4
<1> QED BY <1>1, <1>2, <1>3, <1>4, <1>5, <1>6 DEF PagingNext

\* After a page, what is due was read or is ahead of the new cursor.
LEMMA PagesLeaveTheRestAhead ==
    ASSUME WalkInv, ReadPage, Promised
    PROVE  /\ HasMore => \A d \in due \ seen' : AfterCursor(d)'
           /\ ~HasMore => due \subseteq seen'
<1> USE DEF WalkInv
<1>1. /\ phase = "walking" /\ seen' = seen \cup PageItems
      /\ cursor' = IF HasMore THEN LastItem ELSE cursor
      /\ UNCHANGED <<rows, createdAt, walk, due>>
  BY DEF ReadPage, table
<1>2. walk \in {"memory", "keyset"}
  BY DEF Promised
<1>3. /\ PageItems \subseteq Selected /\ Selected \subseteq rows
      /\ ~HasMore => PageItems = Selected
      /\ HasMore => \A r \in Selected \ PageItems : Precedes(LastItem, r)
  BY <1>2, PagesArePrefixes
<1>4. \A d \in due \ seen : d \in Selected
  BY <1>1 DEF RestIsAhead, WalkIsOrderly, Selected
<1>5. ASSUME HasMore, NEW d \in due \ seen' PROVE AfterCursor(d)'
  <2>1. Precedes(LastItem, d)
    BY <1>1, <1>3, <1>4, <1>5
  <2>2. cursor' = LastItem
    BY <1>1, <1>5
  <2>3. CASE walk = "keyset"
    <3>1. NewestFirst(LastItem, d)
      BY <2>1, <2>3 DEF Precedes
    <3>2. AfterKeyset(d)'
      BY <1>1, <2>2, <3>1 DEF AfterKeyset, NewestFirst
    <3> QED BY <1>1, <2>3, <3>2 DEF AfterCursor
  <2>4. CASE walk = "memory"
    <3>1. OldestFirst(LastItem, d)
      BY <2>1, <2>4 DEF Precedes
    <3>2. AfterFound(d)'
      BY <1>1, <2>2, <3>1 DEF AfterFound, OldestFirst
    <3> QED BY <1>1, <2>4, <3>2 DEF AfterCursor
  <2> QED BY <1>2, <2>3, <2>4
<1> QED BY <1>1, <1>3, <1>4, <1>5

\* What is due stays ahead of the cursor while rows come and go, also the cursor's own.
LEMMA WalkStep == WalkInv /\ [PagingNext]_pagingVars => WalkInv'
<1> SUFFICES ASSUME WalkInv, [PagingNext]_pagingVars PROVE WalkInv'
  OBVIOUS
<1> USE DEF WalkInv
<1>1. PagingTypeOK' /\ WalkIsOrderly'
  BY PagingKeepsTypes
<1>2. ASSUME UNCHANGED <<walk, phase, cursor, seen>>, due' \subseteq due,
             cursor \in rows' => cursor \in rows \/ cursor = NoCursor,
             cursor = NoCursor \/ createdAt'[cursor] = createdAt[cursor],
             \A d \in due : createdAt'[d] = createdAt[d]
      PROVE  RestIsAhead'
  <2> SUFFICES ASSUME Promised, phase = "walking", cursor # NoCursor, NEW d \in due' \ seen
               PROVE  AfterCursor(d)'
    BY <1>2 DEF RestIsAhead, Promised
  <2>1. AfterCursor(d) /\ createdAt'[d] = createdAt[d] /\ createdAt'[cursor] = createdAt[cursor]
    BY <1>2 DEF RestIsAhead
  <2>2. CASE walk = "keyset"
    <3>1. AfterKeyset(d)
      BY <2>1, <2>2 DEF AfterCursor
    <3>2. AfterKeyset(d)'
      BY <1>2, <2>1, <3>1 DEF AfterKeyset, NewestFirst
    <3> QED BY <1>2, <2>2, <3>2 DEF AfterCursor
  <2>3. CASE walk = "memory"
    <3>1. AfterFound(d)
      BY <2>1, <2>3 DEF AfterCursor
    <3>2. AfterFound(d)'
      BY <1>2, <2>1, <3>1 DEF AfterFound, OldestFirst
    <3> QED BY <1>2, <2>3, <3>2 DEF AfterCursor
  <2> QED BY <2>2, <2>3 DEF Promised
<1>3. CASE UNCHANGED pagingVars
  <2>1. UNCHANGED <<rows, createdAt, walk, phase, cursor, seen, due>>
    BY <1>3 DEF pagingVars, table, reader
  <2> QED BY <1>1, <1>2, <2>1
<1>4. ASSUME NEW r \in Ids, AddRow(r) PROVE RestIsAhead'
  <2>1. /\ r \notin used /\ rows' = rows \cup {r} /\ createdAt' = [createdAt EXCEPT ![r] = clock]
        /\ UNCHANGED <<walk, phase, cursor, seen, due>>
    BY <1>4 DEF AddRow, reader
  <2>2. cursor = NoCursor \/ (cursor \in used /\ cursor # r)
    BY <2>1 DEF PagingTypeOK, WalkIsOrderly
  <2>3. \A d \in due : d # r /\ d \in Ids
    BY <2>1 DEF PagingTypeOK
  <2>4. cursor = NoCursor \/ createdAt'[cursor] = createdAt[cursor]
    BY <2>1, <2>2 DEF PagingTypeOK
  <2>5. \A d \in due : createdAt'[d] = createdAt[d]
    BY <2>1, <2>3 DEF PagingTypeOK
  <2> QED BY <1>2, <2>1, <2>2, <2>4, <2>5
<1>5. ASSUME NEW r \in Ids, RemoveRow(r) PROVE RestIsAhead'
  BY <1>2, <1>5 DEF RemoveRow, reader
<1>6. CASE TickClock
  <2>1. UNCHANGED <<rows, createdAt, walk, phase, cursor, seen, due>>
    BY <1>6 DEF TickClock, table, reader
  <2> QED BY <1>1, <1>2, <2>1
<1>7. CASE BeginWalk
  <2>1. phase = "ready" /\ UNCHANGED cursor
    BY <1>7 DEF BeginWalk
  <2>2. cursor' = NoCursor
    BY <2>1 DEF WalkIsOrderly
  <2> QED BY <1>1, <2>2 DEF RestIsAhead
<1>8. CASE ReadPage
  <2>1. UNCHANGED <<walk, due>> /\ (phase' = "walking" => HasMore)
    BY <1>8 DEF ReadPage, table
  <2>2. Promised' => Promised
    BY <2>1 DEF Promised
  <2> SUFFICES ASSUME Promised', phase' = "walking", NEW d \in due' \ seen' PROVE AfterCursor(d)'
    BY <1>1 DEF RestIsAhead
  <2>3. d \in due \ seen' /\ HasMore
    BY <2>1
  <2> QED BY <1>8, <2>2, <2>3, PagesLeaveTheRestAhead
<1> QED BY <1>1, <1>3, <1>4, <1>5, <1>6, <1>7, <1>8 DEF PagingNext

\* At first nothing was read.
LEMMA WalkStart == PagingInit => WalkInv
  BY PagingAssumption DEF PagingInit, WalkInv, PagingTypeOK, WalkIsOrderly, RestIsAhead

\* A walk by the cursors of the memory adapter, or of an SQL adapter with both
\* columns of the key, does what Listing says: its end has returned all that was
\* stored from its beginning to its end.
THEOREM WalksAreListings == PagingSpec => WalkImplementsListing
<1>1. PagingInit => L!Init
  BY DEF PagingInit, L!Init
<1>2. WalkInv /\ [PagingNext]_pagingVars => [L!Next]_(L!vars)
  <2> SUFFICES ASSUME WalkInv, [PagingNext]_pagingVars PROVE [L!Next]_(L!vars)
    OBVIOUS
  <2> USE DEF L!Next, L!vars
  <2>1. CASE UNCHANGED pagingVars
    BY <2>1 DEF pagingVars, table, reader, Promised
  <2>2. ASSUME NEW r \in Ids, AddRow(r) PROVE L!Next
    BY <2>2 DEF AddRow, reader, L!Add, Promised
  <2>3. ASSUME NEW r \in Ids, RemoveRow(r) PROVE L!Next
    BY <2>3 DEF RemoveRow, reader, L!Remove, Promised
  <2>4. CASE TickClock
    BY <2>4 DEF TickClock, table, reader, Promised
  <2>5. CASE BeginWalk
    <3>1. CASE Promised
      BY <2>5, <3>1 DEF BeginWalk, table, Promised, L!Begin
    <3>2. CASE ~Promised
      BY <2>5, <3>2 DEF BeginWalk, table, Promised
    <3> QED BY <3>1, <3>2
  <2>6. CASE ReadPage
    <3>1. UNCHANGED <<rows, walk, due>>
      BY <2>6 DEF ReadPage, table
    <3>2. Promised' <=> Promised
      BY <3>1 DEF Promised
    <3>3. CASE Promised
      <4>1. PageItems \subseteq rows /\ PageItems \in SUBSET Ids
        BY DEF PageItems, Selected, WalkInv, PagingTypeOK
      <4>2. /\ phase = "walking" /\ seen' = seen \cup PageItems
            /\ phase' = IF HasMore THEN phase ELSE "done"
        BY <2>6 DEF ReadPage
      <4>3. ~HasMore => due \subseteq seen'
        BY <2>6, <3>3, PagesLeaveTheRestAhead
      <4>4. L!Page(PageItems, ~HasMore)
        BY <3>1, <3>2, <3>3, <4>1, <4>2, <4>3 DEF L!Page
      <4> QED BY <4>1, <4>4
    <3>4. CASE ~Promised
      BY <3>1, <3>2, <3>4
    <3> QED BY <3>3, <3>4
  <2> QED BY <2>1, <2>2, <2>3, <2>4, <2>5, <2>6 DEF PagingNext
<1> QED BY <1>1, <1>2, WalkStart, WalkStep, PTL DEF PagingSpec, WalkImplementsListing, L!Spec

-----------------------------------------------------------------------------
(* Paging: how the other ways to walk go wrong. *)

\* Read already, and on a page that is still to come.
Late == {s \in seen \cap rows : Rank(s, rows) >= page * PageSize}

\* Due, not read, and on a page that was read.
Missed == {d \in due \ seen : Rank(d, rows) < page * PageSize}

TopRows == {r \in rows : Rank(r, rows) < PageSize}

\* While a cursor still means its place, what was read is at it or before it.
Placed == walk = "keyset" \/ (walk = "memory" /\ removed \cap seen = {})

CursorWalks ==
    /\ removed \cap rows = {}
    /\ phase = "walking" => seen \subseteq rows \cup removed
    /\ Placed => again = {}
    /\ Placed /\ phase = "walking" /\ cursor = NoCursor => seen = {}
    /\ Placed /\ phase = "walking" => \A s \in seen : s = cursor \/ Precedes(s, cursor)

\* Every row that comes again was pushed there by a new row, every one missed was
\* pulled by a deletion.
NumberedWalks ==
    walk = "pages" =>
        /\ Cardinality(again) <= Cardinality(added)
        /\ phase = "walking" => Cardinality(again \cup Late) <= Cardinality(added)
        /\ phase = "walking" => Cardinality(Missed) <= Cardinality(removed)
        /\ phase = "done" => Cardinality(due \ seen) <= Cardinality(removed)

LogWalks ==
    walk = "log" /\ added \cup removed = {} =>
        /\ Cardinality(seen) <= PageSize
        /\ phase = "walking" => seen \subseteq TopRows

\* What a walk by hours has left out shares its hour with a row that it has read.
Witnessed(d) == \E s \in seen : Hour(s) = Hour(d)

HourWalks ==
    walk = "hours" =>
        /\ phase = "walking" /\ cursor # NoCursor =>
               \A d \in due \ seen : Hour(d) < Hour(cursor) \/ Witnessed(d)
        /\ phase = "done" => \A d \in due \ seen : Witnessed(d)

OddInv == /\ PagingTypeOK
          /\ WalkIsOrderly
          /\ CursorWalks
          /\ NumberedWalks
          /\ LogWalks
          /\ HourWalks

\* No two rows of a list have one rank.
LEMMA RanksAreOwn ==
    ASSUME createdAt \in [Ids -> Int], NEW S \in SUBSET Ids,
           NEW a \in S, NEW b \in S, Rank(a, S) = Rank(b, S)
    PROVE  a = b
<1>1. ~(Rank(a, S) < Rank(b, S)) /\ ~(Rank(b, S) < Rank(a, S))
  <2>1. Rank(a, S) \in Nat
    BY RanksGrow
  <2> QED BY <2>1
<1>2. ~Precedes(a, b) /\ ~Precedes(b, a)
  BY <1>1, RanksGrow
<1> QED BY <1>2, RowOrder

\* What a set gains among the rows of one rank is one row at most.
LEMMA OneRowMore ==
    ASSUME createdAt \in [Ids -> Int], rows \in SUBSET Ids, NEW i \in Int,
           NEW S \in SUBSET Ids, NEW T \in SUBSET Ids,
           T \subseteq S \cup {q \in rows : Rank(q, rows) = i}
    PROVE  Cardinality(T) <= Cardinality(S) + 1
<1>1. IsFiniteSet(S) /\ Cardinality(S) \in Nat /\ Cardinality(T) \in Nat
  BY RowsAreFinite
<1>2. CASE \E q \in rows : Rank(q, rows) = i
  <2>1. PICK q \in rows : Rank(q, rows) = i
    BY <1>2
  <2>2. T \subseteq S \cup {q}
    BY <2>1, RanksAreOwn
  <2>3. S \cup {q} \in SUBSET Ids
    BY <2>1
  <2>4. IsFiniteSet(S \cup {q}) /\ Cardinality(S \cup {q}) \in Nat
    BY <2>3, RowsAreFinite
  <2>5. Cardinality(T) <= Cardinality(S \cup {q})
    BY <2>2, <2>4, FS_Subset
  <2>6. Cardinality(S \cup {q}) <= Cardinality(S) + 1
    <3>1. CASE q \in S
      BY <1>1, <3>1, S \cup {q} = S
    <3>2. CASE q \notin S
      <4>1. Cardinality(S \cup {q}) = Cardinality(S) + 1
        BY <1>1, <3>2, FS_AddElement
      <4> QED BY <1>1, <4>1
    <3> QED BY <3>1, <3>2
  <2> QED BY <1>1, <2>4, <2>5, <2>6
<1>3. CASE ~\E q \in rows : Rank(q, rows) = i
  <2>1. T \subseteq S
    BY <1>3
  <2>2. Cardinality(T) <= Cardinality(S)
    BY <1>1, <2>1, FS_Subset
  <2> QED BY <1>1, <2>2
<1> QED BY <1>2, <1>3

\* A new row moves another one down by a place, or not.
LEMMA RowsMakeRoom ==
    ASSUME PagingTypeOK, NEW r \in Ids, AddRow(r)
    PROVE  /\ r \notin used /\ rows' = rows \cup {r} /\ UNCHANGED walk
           /\ \A q \in used : createdAt'[q] = createdAt[q]
           /\ \A s \in rows : Rank(s, rows) \in Nat
           /\ \A s \in rows : Rank(s, rows)' \in {Rank(s, rows), Rank(s, rows) + 1}
<1>1. /\ r \notin used /\ rows' = rows \cup {r} /\ walk' = walk
      /\ createdAt' = [createdAt EXCEPT ![r] = clock]
  BY DEF AddRow, reader
<1>2. /\ createdAt \in [Ids -> Int] /\ rows \in SUBSET Ids /\ rows \subseteq used
      /\ \A q \in used : createdAt'[q] = createdAt[q]
  <2>1. createdAt \in [Ids -> 0..MaxClock] /\ rows \subseteq used /\ used \subseteq Ids
    BY DEF PagingTypeOK
  <2>2. createdAt \in [Ids -> Int] /\ rows \in SUBSET Ids
    BY <2>1, PagingAssumption
  <2>3. \A q \in used : q \in Ids /\ q # r
    BY <1>1, <2>1
  <2> QED BY <1>1, <2>1, <2>2, <2>3
<1>3. \A s \in rows : Rank(s, rows) \in Nat
  BY <1>2, RanksGrow
<1>4. ASSUME NEW s \in rows PROVE Rank(s, rows)' \in {Rank(s, rows), Rank(s, rows) + 1}
  <2> DEFINE B == {q \in rows : Precedes(q, s)}
             C == {q \in rows' : Precedes(q, s)'}
  <2>1. \A q \in rows : Precedes(q, s)' <=> Precedes(q, s)
    <3> SUFFICES ASSUME NEW q \in rows PROVE Precedes(q, s)' <=> Precedes(q, s)
      OBVIOUS
    <3>1. createdAt'[q] = createdAt[q] /\ createdAt'[s] = createdAt[s]
      BY <1>2, <1>4
    <3> QED BY <1>1, <3>1 DEF Precedes, NewestFirst, OldestFirst
  <2>2. C = B \/ C = B \cup {r}
    BY <1>1, <2>1
  <2>3. IsFiniteSet(B) /\ Cardinality(B) \in Nat /\ r \notin B
    BY <1>1, <1>2, RowsAreFinite
  <2>4. Rank(s, rows) = Cardinality(B) /\ Rank(s, rows)' = Cardinality(C)
    BY DEF Rank
  <2> HIDE DEF B, C
  <2>5. Cardinality(B \cup {r}) = Cardinality(B) + 1
    BY <2>3, FS_AddElement
  <2> QED BY <2>2, <2>4, <2>5
<1> QED BY <1>1, <1>2, <1>3, <1>4

\* A row that goes moves another one up by a place, or not.
LEMMA RowsCloseUp ==
    ASSUME PagingTypeOK, NEW r \in Ids, RemoveRow(r)
    PROVE  /\ r \in rows /\ rows' = rows \ {r} /\ UNCHANGED <<walk, createdAt>>
           /\ \A s \in rows : Rank(s, rows) \in Nat
           /\ \A s \in rows \ {r} : Rank(s, rows)' \in {Rank(s, rows), Rank(s, rows) - 1}
<1>1. r \in rows /\ rows' = rows \ {r} /\ UNCHANGED <<walk, createdAt>>
  BY DEF RemoveRow, reader
<1>2. createdAt \in [Ids -> Int] /\ rows \in SUBSET Ids
  BY PagingAssumption DEF PagingTypeOK
<1>3. \A s \in rows : Rank(s, rows) \in Nat
  BY <1>2, RanksGrow
<1>4. ASSUME NEW s \in rows \ {r} PROVE Rank(s, rows)' \in {Rank(s, rows), Rank(s, rows) - 1}
  <2> DEFINE B == {q \in rows : Precedes(q, s)}
             C == {q \in rows' : Precedes(q, s)'}
  <2>1. \A q \in rows : Precedes(q, s)' <=> Precedes(q, s)
    BY <1>1 DEF Precedes, NewestFirst, OldestFirst
  <2>2. C = B \/ (r \in B /\ C = B \ {r})
    BY <1>1, <2>1
  <2>3. IsFiniteSet(B) /\ Cardinality(B) \in Nat
    BY <1>1, <1>2, RowsAreFinite
  <2>4. Rank(s, rows) = Cardinality(B) /\ Rank(s, rows)' = Cardinality(C)
    BY DEF Rank
  <2> HIDE DEF B, C
  <2>5. r \in B => Cardinality(B \ {r}) = Cardinality(B) - 1
    BY <2>3, FS_RemoveElement
  <2> QED BY <2>2, <2>4, <2>5
<1> QED BY <1>1, <1>3, <1>4

\* What the actions of the writers and of the reader leave alone.
LEMMA WritersAndReader ==
    ASSUME PagingTypeOK, WalkIsOrderly, [PagingNext]_pagingVars
    PROVE  \/ UNCHANGED <<rows, createdAt, walk, phase, cursor, page, seen, again, due, added, removed>>
           \/ \E r \in Ids :
                  /\ AddRow(r)
                  /\ UNCHANGED <<walk, phase, cursor, page, seen, again, due, removed>>
                  /\ added' = IF phase = "walking" THEN added \cup {r} ELSE added
           \/ \E r \in Ids :
                  /\ RemoveRow(r)
                  /\ UNCHANGED <<walk, phase, cursor, page, seen, again, added, createdAt>>
                  /\ due' = due \ {r}
                  /\ removed' = IF phase = "walking" THEN removed \cup {r} ELSE removed
           \/ /\ phase = "ready" /\ phase' = "walking" /\ due' = rows
              /\ cursor' = NoCursor /\ page' = 0 /\ seen' = {} /\ again' = {}
              /\ added' = {} /\ removed' = {}
              /\ UNCHANGED <<rows, createdAt, walk>>
           \/ ReadPage
<1>1. CASE UNCHANGED pagingVars
  BY <1>1 DEF pagingVars, table, reader
<1>2. ASSUME NEW r \in Ids, AddRow(r) PROVE UNCHANGED <<walk, phase, cursor, page, seen, again, due, removed>>
  BY <1>2 DEF AddRow, reader
<1>3. ASSUME NEW r \in Ids, RemoveRow(r)
      PROVE UNCHANGED <<walk, phase, cursor, page, seen, again, added, createdAt>>
  BY <1>3 DEF RemoveRow, reader
<1>4. CASE TickClock
  BY <1>4 DEF TickClock, table, reader
<1>5. CASE BeginWalk
  BY <1>5 DEF BeginWalk, table, WalkIsOrderly
<1>6. ASSUME NEW r \in Ids, AddRow(r)
      PROVE  added' = IF phase = "walking" THEN added \cup {r} ELSE added
  BY <1>6 DEF AddRow
<1>7. ASSUME NEW r \in Ids, RemoveRow(r)
      PROVE  due' = due \ {r} /\ removed' = IF phase = "walking" THEN removed \cup {r} ELSE removed
  BY <1>7 DEF RemoveRow
<1> QED BY <1>1, <1>2, <1>3, <1>4, <1>5, <1>6, <1>7 DEF PagingNext

\* A page goes on behind what was read, as long as the cursor means its place.
LEMMA PagesGoOn ==
    ASSUME OddInv, ReadPage, Placed, NEW s \in seen, NEW q \in PageItems
    PROVE  Precedes(s, q)
<1> USE DEF OddInv
<1>1. phase = "walking" /\ cursor # NoCursor /\ walk \in {"memory", "keyset"}
  BY DEF ReadPage, Placed, CursorWalks
<1>2. createdAt \in [Ids -> Int] /\ s \in Ids /\ q \in Ids /\ cursor \in Ids /\ cursor \in seen
  <2>1. createdAt \in [Ids -> Int]
    BY PagingAssumption DEF PagingTypeOK
  <2>2. seen \subseteq Ids /\ rows \subseteq Ids
    BY DEF PagingTypeOK
  <2>3. q \in rows
    BY DEF PageItems, Selected
  <2>4. cursor \in seen
    BY <1>1 DEF WalkIsOrderly
  <2> QED BY <2>1, <2>2, <2>3, <2>4
<1>3. AfterCursor(q)
  BY <1>1 DEF PageItems, Selected
<1>4. Precedes(cursor, q)
  <2>1. CASE walk = "keyset"
    BY <1>3, <2>1 DEF AfterCursor, AfterKeyset, Precedes
  <2>2. CASE walk = "memory"
    <3>1. removed \cap seen = {}
      BY <2>2 DEF Placed
    <3>2. cursor \in rows
      BY <1>1, <1>2, <3>1 DEF CursorWalks
    <3> QED BY <1>3, <2>2, <3>2 DEF AfterCursor, AfterFound, Precedes
  <2> QED BY <1>1, <2>1, <2>2
<1>5. s = cursor \/ Precedes(s, cursor)
  BY <1>1 DEF CursorWalks
<1> QED BY <1>2, <1>4, <1>5, RowOrder

\* A walk by a cursor that means its place repeats nothing.
LEMMA CursorStep == OddInv /\ PagingTypeOK' /\ [PagingNext]_pagingVars => CursorWalks'
<1> SUFFICES ASSUME OddInv, PagingTypeOK', [PagingNext]_pagingVars PROVE CursorWalks'
  OBVIOUS
<1> USE DEF OddInv
<1>0. createdAt \in [Ids -> Int] /\ rows \subseteq used /\ seen \subseteq used /\ removed \subseteq used
  BY PagingAssumption DEF PagingTypeOK
<1>1. CASE UNCHANGED <<rows, createdAt, walk, phase, cursor, page, seen, again, due, added, removed>>
  <2>1. Placed' = Placed /\ \A s : Precedes(s, cursor)' <=> Precedes(s, cursor)
    BY <1>1 DEF Placed, Precedes, NewestFirst, OldestFirst
  <2> QED BY <1>1, <2>1 DEF CursorWalks
<1>2. ASSUME NEW r \in Ids, AddRow(r),
             UNCHANGED <<walk, phase, cursor, page, seen, again, due, removed>>
      PROVE  CursorWalks'
  <2>1. r \notin used /\ rows' = rows \cup {r} /\ \A q \in used : createdAt'[q] = createdAt[q]
    BY <1>2, RowsMakeRoom
  <2>2. Placed' = Placed
    BY <1>2 DEF Placed
  <2>3. \A s, t \in used : Precedes(s, t)' <=> Precedes(s, t)
    BY <1>2, <2>1 DEF Precedes, NewestFirst, OldestFirst
  <2>4. cursor = NoCursor \/ cursor \in used
    BY <1>0 DEF WalkIsOrderly
  <2>5. Placed' /\ phase' = "walking" => \A s \in seen' : s = cursor' \/ Precedes(s, cursor)'
    BY <1>0, <1>2, <2>2, <2>3, <2>4 DEF CursorWalks
  <2>6. removed' \cap rows' = {} /\ (phase' = "walking" => seen' \subseteq rows' \cup removed')
    BY <1>0, <1>2, <2>1 DEF CursorWalks
  <2>7. /\ Placed' => again' = {}
        /\ Placed' /\ phase' = "walking" /\ cursor' = NoCursor => seen' = {}
    BY <1>2, <2>2 DEF CursorWalks
  <2> QED BY <2>5, <2>6, <2>7 DEF CursorWalks
<1>3. ASSUME NEW r \in Ids, RemoveRow(r),
             UNCHANGED <<walk, phase, cursor, page, seen, again, added, createdAt>>,
             removed' = IF phase = "walking" THEN removed \cup {r} ELSE removed
      PROVE  CursorWalks'
  <2>1. r \in rows /\ rows' = rows \ {r}
    BY <1>3, RowsCloseUp
  <2>2. removed \subseteq removed' /\ (Placed' => Placed)
    BY <1>3 DEF Placed
  <2>3. \A s, t \in used : Precedes(s, t)' <=> Precedes(s, t)
    BY <1>3 DEF Precedes, NewestFirst, OldestFirst
  <2>4. cursor = NoCursor \/ cursor \in used
    BY <1>0 DEF WalkIsOrderly
  <2>5. Placed' /\ phase' = "walking" => \A s \in seen' : s = cursor' \/ Precedes(s, cursor)'
    BY <1>0, <1>3, <2>2, <2>3, <2>4 DEF CursorWalks
  <2>6. removed' \cap rows' = {} /\ (phase' = "walking" => seen' \subseteq rows' \cup removed')
    BY <1>3, <2>1 DEF CursorWalks
  <2>7. /\ Placed' => again' = {}
        /\ Placed' /\ phase' = "walking" /\ cursor' = NoCursor => seen' = {}
    BY <1>3, <2>2 DEF CursorWalks
  <2> QED BY <2>5, <2>6, <2>7 DEF CursorWalks
<1>4. ASSUME phase' = "walking", cursor' = NoCursor, seen' = {}, again' = {}, removed' = {}
      PROVE  CursorWalks'
  BY <1>4 DEF CursorWalks
<1>5. CASE ReadPage
  <2>1. /\ seen' = seen \cup PageItems /\ again' = again \cup (seen \cap PageItems)
        /\ phase = "walking" /\ PageItems \subseteq rows
        /\ UNCHANGED <<rows, createdAt, walk, removed>>
    BY <1>5 DEF ReadPage, table, PageItems, Selected
  <2>2. Placed' => Placed
    BY <2>1 DEF Placed
  <2>3. removed' \cap rows' = {} /\ (phase' = "walking" => seen' \subseteq rows' \cup removed')
    BY <2>1 DEF CursorWalks
  <2>4. ASSUME Placed' PROVE again' = {}
    <3>1. ASSUME NEW s \in seen \cap PageItems PROVE FALSE
      <4>1. Precedes(s, s)
        BY <1>5, <2>2, <2>4, PagesGoOn
      <4> QED BY <1>0, <4>1, RowOrder DEF PagingTypeOK
    <3>2. again = {}
      BY <2>2, <2>4 DEF CursorWalks
    <3> QED BY <2>1, <3>1, <3>2
  <2>5. ASSUME Placed', phase' = "walking"
        PROVE  cursor' \in seen' /\ \A s \in seen' : s = cursor' \/ Precedes(s, cursor)'
    <3>1. HasMore /\ cursor' = LastItem
      BY <1>5, <2>5 DEF ReadPage
    <3>2. walk \in {"memory", "keyset"}
      BY <2>2, <2>5 DEF Placed
    <3>3. LastItem \in PageItems /\ \A q \in PageItems : q = LastItem \/ Precedes(q, LastItem)
      BY <1>5, <3>1, <3>2, PagesArePrefixes DEF ReadPage
    <3>4. \A s \in seen' : s = LastItem \/ Precedes(s, LastItem)
      BY <1>5, <2>1, <2>2, <2>5, <3>3, PagesGoOn
    <3>5. \A s \in Ids : Precedes(s, cursor)' <=> Precedes(s, LastItem)
      BY <2>1, <3>1 DEF Precedes, NewestFirst, OldestFirst
    <3>6. \A s \in seen' : s \in Ids
      BY DEF PagingTypeOK
    <3> QED BY <2>1, <3>1, <3>3, <3>4, <3>5, <3>6
  <2>6. cursor' \in seen' => cursor' # NoCursor
    BY NoCursorAssumption DEF PagingTypeOK
  <2> QED BY <2>3, <2>4, <2>5, <2>6 DEF CursorWalks
<1> QED BY <1>1, <1>2, <1>3, <1>4, <1>5, WritersAndReader

\* Fewer rows are fewer.
LEMMA FewerRows ==
    ASSUME NEW S \in SUBSET Ids, NEW T \in SUBSET S
    PROVE  Cardinality(T) \in Nat /\ Cardinality(S) \in Nat /\ Cardinality(T) <= Cardinality(S)
  BY RowsAreFinite, FS_Subset

\* One row more is one more.
LEMMA MoreRows ==
    ASSUME NEW S \in SUBSET Ids, NEW r \in Ids \ S
    PROVE  Cardinality(S \cup {r}) = Cardinality(S) + 1 /\ Cardinality(S) \in Nat
  BY RowsAreFinite, FS_AddElement

\* The sets that a walk keeps.
LEMMA PagingSets ==
    ASSUME OddInv
    PROVE  /\ createdAt \in [Ids -> Int]
           /\ page \in Nat /\ page * PageSize \in Int /\ PageSize \in Nat /\ PageSize > 0
           /\ rows \in SUBSET Ids /\ again \in SUBSET Ids /\ seen \in SUBSET Ids
           /\ due \in SUBSET Ids /\ removed \in SUBSET Ids /\ added \in SUBSET Ids
           /\ rows \subseteq used /\ added \subseteq used /\ seen \subseteq used
           /\ due \subseteq rows /\ removed \cap rows = {}
<1> USE DEF OddInv
<1>1. createdAt \in [Ids -> Int]
  BY PagingAssumption DEF PagingTypeOK
<1>2. rows \subseteq used /\ used \subseteq Ids /\ \A S \in {seen, again, due, added, removed} : S \subseteq used
  BY DEF PagingTypeOK
<1>3. page \in Nat /\ PageSize \in Nat /\ PageSize > 0
  BY PagingAssumption DEF PagingTypeOK
<1>4. due \subseteq rows /\ removed \cap rows = {}
  BY DEF WalkIsOrderly, CursorWalks
<1> HIDE DEF OddInv
<1>5. page * PageSize \in Int
  BY <1>3
<1> QED BY <1>1, <1>2, <1>3, <1>4, <1>5

\* A new row pushes one row at most behind the pages read.
LEMMA NewRowsPush ==
    ASSUME OddInv, walk = "pages", NEW r \in Ids, AddRow(r),
           UNCHANGED <<walk, phase, cursor, page, seen, again, due, removed>>,
           added' = IF phase = "walking" THEN added \cup {r} ELSE added
    PROVE  NumberedWalks'
<1> USE DEF OddInv
<1> DEFINE n == page * PageSize
<1>1. /\ createdAt \in [Ids -> Int] /\ n \in Int
      /\ rows \in SUBSET Ids /\ again \in SUBSET Ids /\ seen \in SUBSET Ids /\ added \in SUBSET Ids
      /\ due \in SUBSET Ids /\ removed \in SUBSET Ids
      /\ rows \subseteq used /\ added \subseteq used /\ due \subseteq rows /\ seen \subseteq used
  BY PagingSets
<1>2. /\ r \notin used /\ rows' = rows \cup {r}
      /\ \A s \in rows : Rank(s, rows) \in Nat
      /\ \A s \in rows : Rank(s, rows)' \in {Rank(s, rows), Rank(s, rows) + 1}
  BY RowsMakeRoom
<1>3. Late' = {s \in seen \cap rows' : Rank(s, rows)' >= n} /\ Late = {s \in seen \cap rows : Rank(s, rows) >= n}
  BY DEF Late
<1>4. Missed' = {d \in due \ seen : Rank(d, rows)' < n} /\ Missed = {d \in due \ seen : Rank(d, rows) < n}
  BY DEF Missed
<1> HIDE DEF n
<1>5. /\ Cardinality(again) <= Cardinality(added)
      /\ phase = "walking" => Cardinality(again \cup Late) <= Cardinality(added)
      /\ phase = "walking" => Cardinality(Missed) <= Cardinality(removed)
      /\ phase = "done" => Cardinality(due \ seen) <= Cardinality(removed)
  BY DEF NumberedWalks
<1>6. /\ Cardinality(added) \in Nat /\ Cardinality(again) \in Nat
      /\ Cardinality(removed) \in Nat
  BY <1>1, RowsAreFinite
<1>7. ASSUME phase = "walking"
      PROVE  /\ Cardinality(again \cup Late') <= Cardinality(added')
             /\ Cardinality(again) <= Cardinality(added')
             /\ Cardinality(Missed') <= Cardinality(removed)
  <2>1. Cardinality(added') = Cardinality(added) + 1
    BY <1>1, <1>2, <1>7, MoreRows
  <2>2. ASSUME NEW s \in Late' PROVE s \in Late \cup {q \in rows : Rank(q, rows) = n - 1}
    <3>1. s \in seen \cap rows /\ Rank(s, rows)' >= n
      BY <1>1, <1>2, <1>3
    <3>2. Rank(s, rows) \in Nat /\ Rank(s, rows)' \in {Rank(s, rows), Rank(s, rows) + 1}
      BY <1>2, <3>1
    <3>3. Rank(s, rows) >= n \/ Rank(s, rows) = n - 1
      BY <1>1, <3>1, <3>2
    <3> QED BY <1>3, <3>1, <3>3
  <2>3. again \cup Late \in SUBSET Ids /\ again \cup Late' \in SUBSET Ids
    BY <1>1, <1>3
  <2>4. again \cup Late' \subseteq (again \cup Late) \cup {q \in rows : Rank(q, rows) = n - 1}
    BY <2>2
  <2>5. Cardinality(again \cup Late') <= Cardinality(again \cup Late) + 1
    BY <1>1, <2>3, <2>4, OneRowMore
  <2>6. Cardinality(again \cup Late') \in Nat /\ Cardinality(again \cup Late) \in Nat
    BY <2>3, RowsAreFinite
  <2>7. Missed' \subseteq Missed
    <3> SUFFICES ASSUME NEW d \in due \ seen, Rank(d, rows)' < n PROVE Rank(d, rows) < n
      BY <1>4
    <3>1. Rank(d, rows) \in Nat /\ Rank(d, rows)' \in {Rank(d, rows), Rank(d, rows) + 1}
      BY <1>1, <1>2
    <3> QED BY <1>1, <3>1
  <2>8. Missed \in SUBSET Ids
    BY <1>1, <1>4
  <2>9. /\ Cardinality(Missed') <= Cardinality(Missed)
        /\ Cardinality(Missed') \in Nat /\ Cardinality(Missed) \in Nat
    BY <2>7, <2>8, FewerRows
  <2> QED BY <1>5, <1>6, <1>7, <2>1, <2>5, <2>6, <2>9
<1>8. phase # "walking" => added' = added
  OBVIOUS
<1>9. /\ Cardinality(again') <= Cardinality(added')
      /\ phase' = "walking" => Cardinality(again' \cup Late') <= Cardinality(added')
      /\ phase' = "walking" => Cardinality(Missed') <= Cardinality(removed')
      /\ phase' = "done" => Cardinality(due' \ seen') <= Cardinality(removed')
  BY <1>5, <1>7, <1>8
<1> QED BY <1>9 DEF NumberedWalks

\* A deletion pulls one row at most into the pages read.
LEMMA DeletedRowsPull ==
    ASSUME OddInv, walk = "pages", NEW r \in Ids, RemoveRow(r),
           UNCHANGED <<walk, phase, cursor, page, seen, again, added, createdAt>>,
           due' = due \ {r},
           removed' = IF phase = "walking" THEN removed \cup {r} ELSE removed
    PROVE  NumberedWalks'
<1> USE DEF OddInv
<1> DEFINE n == page * PageSize
<1>1. /\ createdAt \in [Ids -> Int] /\ n \in Int
      /\ rows \in SUBSET Ids /\ again \in SUBSET Ids /\ seen \in SUBSET Ids
      /\ due \in SUBSET Ids /\ removed \in SUBSET Ids /\ added \in SUBSET Ids
      /\ due \subseteq rows /\ removed \cap rows = {}
  BY PagingSets
<1>2. /\ r \in rows /\ rows' = rows \ {r}
      /\ \A s \in rows : Rank(s, rows) \in Nat
      /\ \A s \in rows \ {r} : Rank(s, rows)' \in {Rank(s, rows), Rank(s, rows) - 1}
  BY RowsCloseUp
<1>3. Late' = {s \in seen \cap rows' : Rank(s, rows)' >= n} /\ Late = {s \in seen \cap rows : Rank(s, rows) >= n}
  BY DEF Late
<1>4. Missed' = {d \in due' \ seen : Rank(d, rows)' < n} /\ Missed = {d \in due \ seen : Rank(d, rows) < n}
  BY DEF Missed
<1> HIDE DEF n
<1>5. /\ Cardinality(again) <= Cardinality(added)
      /\ phase = "walking" => Cardinality(again \cup Late) <= Cardinality(added)
      /\ phase = "walking" => Cardinality(Missed) <= Cardinality(removed)
      /\ phase = "done" => Cardinality(due \ seen) <= Cardinality(removed)
  BY DEF NumberedWalks
<1>6. Cardinality(added) \in Nat /\ Cardinality(removed) \in Nat
  BY <1>1, RowsAreFinite
<1>7. ASSUME phase = "walking"
      PROVE  /\ Cardinality(again \cup Late') <= Cardinality(added)
             /\ Cardinality(Missed') <= Cardinality(removed')
  <2>1. Cardinality(removed') = Cardinality(removed) + 1
    BY <1>1, <1>2, <1>7, MoreRows
  <2>2. Late' \subseteq Late
    <3> SUFFICES ASSUME NEW s \in seen \cap rows', Rank(s, rows)' >= n
                 PROVE  s \in rows /\ Rank(s, rows) >= n
      BY <1>3
    <3>1. Rank(s, rows) \in Nat /\ Rank(s, rows)' \in {Rank(s, rows), Rank(s, rows) - 1}
      BY <1>2
    <3> QED BY <1>1, <1>2, <3>1
  <2>3. again \cup Late \in SUBSET Ids /\ again \cup Late' \in SUBSET (again \cup Late)
    BY <1>1, <1>3, <2>2
  <2>4. /\ Cardinality(again \cup Late') <= Cardinality(again \cup Late)
        /\ Cardinality(again \cup Late') \in Nat /\ Cardinality(again \cup Late) \in Nat
    BY <2>3, FewerRows
  <2>5. ASSUME NEW d \in Missed' PROVE d \in Missed \cup {q \in rows : Rank(q, rows) = n}
    <3>1. d \in due \ seen /\ d \in rows \ {r} /\ Rank(d, rows)' < n
      BY <1>1, <1>4
    <3>2. Rank(d, rows) \in Nat /\ Rank(d, rows)' \in {Rank(d, rows), Rank(d, rows) - 1}
      BY <1>2, <3>1
    <3>3. Rank(d, rows) < n \/ Rank(d, rows) = n
      BY <1>1, <3>1, <3>2
    <3> QED BY <1>4, <3>1, <3>3
  <2>6. Missed \in SUBSET Ids /\ Missed' \in SUBSET Ids
    BY <1>1, <1>4
  <2>7. Missed' \subseteq Missed \cup {q \in rows : Rank(q, rows) = n}
    BY <2>5
  <2>8. Cardinality(Missed') <= Cardinality(Missed) + 1
    BY <1>1, <2>6, <2>7, OneRowMore
  <2>9. Cardinality(Missed') \in Nat /\ Cardinality(Missed) \in Nat
    BY <2>6, RowsAreFinite
  <2> QED BY <1>5, <1>6, <1>7, <2>1, <2>4, <2>8, <2>9
<1>8. ASSUME phase = "done" PROVE Cardinality(due' \ seen') <= Cardinality(removed')
  <2>1. due \ seen \in SUBSET Ids /\ due' \ seen' \in SUBSET (due \ seen)
    BY <1>1
  <2>2. /\ Cardinality(due' \ seen') <= Cardinality(due \ seen)
        /\ Cardinality(due' \ seen') \in Nat /\ Cardinality(due \ seen) \in Nat
    BY <2>1, FewerRows
  <2>3. removed' = removed
    BY <1>8
  <2> QED BY <1>5, <1>6, <1>8, <2>2, <2>3
<1>9. /\ Cardinality(again') <= Cardinality(added')
      /\ phase' = "walking" => Cardinality(again' \cup Late') <= Cardinality(added')
      /\ phase' = "walking" => Cardinality(Missed') <= Cardinality(removed')
      /\ phase' = "done" => Cardinality(due' \ seen') <= Cardinality(removed')
  BY <1>5, <1>7, <1>8
<1> QED BY <1>9 DEF NumberedWalks

\* A page read repeats only what was pushed onto it, and leaves out only what was pulled before it.
LEMMA NumberedPages ==
    ASSUME OddInv, walk = "pages", ReadPage
    PROVE  NumberedWalks'
<1> USE DEF OddInv
<1> DEFINE n == page * PageSize
<1>1. /\ createdAt \in [Ids -> Int] /\ n \in Int /\ page \in Nat
      /\ PageSize \in Nat /\ PageSize > 0
      /\ rows \in SUBSET Ids /\ again \in SUBSET Ids /\ seen \in SUBSET Ids
      /\ due \in SUBSET Ids /\ removed \in SUBSET Ids /\ added \in SUBSET Ids
      /\ due \subseteq rows
  BY PagingSets
<1>2. /\ phase = "walking" /\ seen' = seen \cup PageItems /\ again' = again \cup (seen \cap PageItems)
      /\ page' = page + 1 /\ phase' = IF HasMore THEN phase ELSE "done"
      /\ UNCHANGED <<rows, createdAt, walk, due, added, removed>>
  BY DEF ReadPage, table
<1>3. Selected = rows /\ Skipped = n
  BY DEF Selected, AfterCursor, Skipped
<1>4. page' * PageSize = n + PageSize
  BY <1>1, <1>2
<1>5. \A s \in rows : Rank(s, rows) \in Nat /\ Rank(s, rows) < Cardinality(rows)
  BY <1>1, RanksGrow
<1>6. \A s : Rank(s, rows)' = Rank(s, rows)
  BY <1>2 DEF Rank, Precedes, NewestFirst, OldestFirst
<1>7. Late' = {s \in seen' \cap rows : Rank(s, rows) >= n + PageSize} /\ Late = {s \in seen \cap rows : Rank(s, rows) >= n}
  BY <1>2, <1>4, <1>6 DEF Late
<1>8. Missed' = {d \in due \ seen' : Rank(d, rows) < n + PageSize} /\ Missed = {d \in due \ seen : Rank(d, rows) < n}
  BY <1>2, <1>4, <1>6 DEF Missed
<1> HIDE DEF n
<1>9. PageItems = {r \in rows : Rank(r, rows) >= n /\ Rank(r, rows) < n + PageSize}
  BY <1>1, <1>3, <1>5 DEF PageItems
<1>10. /\ Cardinality(again \cup Late) <= Cardinality(added)
       /\ Cardinality(Missed) <= Cardinality(removed)
  BY <1>2 DEF NumberedWalks
<1>11. Cardinality(added) \in Nat /\ Cardinality(removed) \in Nat /\ Cardinality(rows) \in Nat
  BY <1>1, RowsAreFinite
<1>12. Cardinality(again' \cup Late') <= Cardinality(added) /\ Cardinality(again') <= Cardinality(added)
  <2>1. again' \subseteq again \cup Late
    BY <1>1, <1>2, <1>7, <1>9
  <2>2. Late' \subseteq Late
    <3> SUFFICES ASSUME NEW s \in seen' \cap rows, Rank(s, rows) >= n + PageSize
                 PROVE  s \in seen /\ Rank(s, rows) >= n
      BY <1>7
    <3>1. Rank(s, rows) \in Nat
      BY <1>5
    <3>2. s \notin PageItems /\ Rank(s, rows) >= n
      BY <1>1, <1>9, <3>1
    <3> QED BY <1>2, <3>2
  <2>3. again \cup Late \in SUBSET Ids
    BY <1>1, <1>7
  <2>4. again' \cup Late' \in SUBSET (again \cup Late) /\ again' \in SUBSET (again \cup Late)
    BY <2>1, <2>2
  <2>5. /\ Cardinality(again' \cup Late') <= Cardinality(again \cup Late)
        /\ Cardinality(again') <= Cardinality(again \cup Late)
        /\ Cardinality(again') \in Nat /\ Cardinality(again' \cup Late') \in Nat
        /\ Cardinality(again \cup Late) \in Nat
    BY <2>3, <2>4, FewerRows
  <2> QED BY <1>10, <1>11, <2>5
<1>13. Cardinality(Missed') <= Cardinality(removed) /\ Cardinality(Missed') \in Nat
  <2>1. Missed' \subseteq Missed
    <3> SUFFICES ASSUME NEW d \in due \ seen', Rank(d, rows) < n + PageSize
                 PROVE  d \notin seen /\ Rank(d, rows) < n
      BY <1>8
    <3>1. d \in rows /\ d \notin PageItems /\ Rank(d, rows) \in Nat /\ d \notin seen
      BY <1>1, <1>2, <1>5
    <3> QED BY <1>1, <1>9, <3>1
  <2>2. Missed \in SUBSET Ids
    BY <1>1, <1>8
  <2>3. /\ Cardinality(Missed') <= Cardinality(Missed)
        /\ Cardinality(Missed') \in Nat /\ Cardinality(Missed) \in Nat
    BY <2>1, <2>2, FewerRows
  <2> QED BY <1>10, <1>11, <2>3
<1>14. phase' = "done" => due \ seen' = Missed'
  <2> SUFFICES ASSUME phase' = "done", NEW d \in due \ seen' PROVE Rank(d, rows) < n + PageSize
    BY <1>8
  <2>1. ~HasMore
    BY <1>2
  <2>2. Cardinality(rows) <= n + PageSize
    BY <1>1, <1>3, <1>11, <2>1 DEF HasMore
  <2>3. Rank(d, rows) \in Nat /\ Rank(d, rows) < Cardinality(rows)
    BY <1>1, <1>5
  <2> QED BY <1>1, <1>11, <2>2, <2>3
<1>15. /\ Cardinality(again') <= Cardinality(added')
       /\ phase' = "walking" => Cardinality(again' \cup Late') <= Cardinality(added')
       /\ phase' = "walking" => Cardinality(Missed') <= Cardinality(removed')
       /\ phase' = "done" => Cardinality(due' \ seen') <= Cardinality(removed')
  BY <1>2, <1>12, <1>13, <1>14
<1> QED BY <1>15 DEF NumberedWalks

\* Rows that come and go explain what numbered pages repeat and leave out.
LEMMA NumberedStep == OddInv /\ PagingTypeOK' /\ [PagingNext]_pagingVars => NumberedWalks'
<1> SUFFICES ASSUME OddInv, PagingTypeOK', [PagingNext]_pagingVars, walk' = "pages" PROVE NumberedWalks'
  BY DEF NumberedWalks
<1> USE DEF OddInv
<1>1. CASE UNCHANGED <<rows, createdAt, walk, phase, cursor, page, seen, again, due, added, removed>>
  <2>1. \A s : Rank(s, rows)' = Rank(s, rows)
    BY <1>1 DEF Rank, Precedes, NewestFirst, OldestFirst
  <2>2. Late' = Late /\ Missed' = Missed
    BY <1>1, <2>1 DEF Late, Missed
  <2> QED BY <1>1, <2>2 DEF NumberedWalks
<1>2. ASSUME phase' = "walking", due' = rows, page' = 0, seen' = {}, again' = {},
             added' = {}, removed' = {}, UNCHANGED <<rows, createdAt, walk>>
      PROVE  NumberedWalks'
  <2>1. Late' = {} /\ Cardinality({}) = 0
    BY <1>2, FS_EmptySet DEF Late
  <2>2. \A s \in rows : Rank(s, rows) \in Nat
    BY PagingAssumption, RanksGrow DEF PagingTypeOK
  <2>3. \A s : Rank(s, rows)' = Rank(s, rows)
    BY <1>2 DEF Rank, Precedes, NewestFirst, OldestFirst
  <2>4. 0 * PageSize = 0
    BY PagingAssumption
  <2>5. Missed' = {}
    <3> SUFFICES ASSUME NEW d \in Missed' PROVE FALSE
      OBVIOUS
    <3>1. d \in rows /\ Rank(d, rows) < 0
      BY <1>2, <2>3, <2>4 DEF Missed
    <3> QED BY <2>2, <3>1
  <2>6. again' \cup Late' = {}
    BY <1>2, <2>1
  <2> QED BY <1>2, <2>1, <2>5, <2>6 DEF NumberedWalks
<1>3. CASE ReadPage
  <2>1. walk = "pages"
    BY <1>3 DEF ReadPage
  <2> QED BY <1>3, <2>1, NumberedPages
<1> QED BY <1>1, <1>2, <1>3, WritersAndReader, NewRowsPush, DeletedRowsPull

\* The first page has as many places as the limit of the query says.
LEMMA TopRowsAreShort ==
    ASSUME createdAt \in [Ids -> Int], rows \in SUBSET Ids
    PROVE  Cardinality(TopRows) <= PageSize /\ Cardinality(TopRows) \in Nat
<1> DEFINE P == 0..(PageSize - 1)
           f == [r \in TopRows |-> Rank(r, rows)]
<1>1. PageSize \in Nat /\ PageSize > 0
  BY PagingAssumption
<1>2. TopRows \in SUBSET rows
  BY DEF TopRows
<1>3. \A r \in TopRows : Rank(r, rows) \in P
  <2> SUFFICES ASSUME NEW r \in TopRows PROVE Rank(r, rows) \in P
    OBVIOUS
  <2>1. Rank(r, rows) \in Nat /\ Rank(r, rows) < PageSize
    BY <1>2, RanksGrow DEF TopRows
  <2> QED BY <1>1, <2>1
<1>4. \A a, b \in TopRows : Rank(a, rows) = Rank(b, rows) => a = b
  BY <1>2, RanksAreOwn
<1>5. f \in [TopRows -> P]
  BY <1>3
<1>6. f \in Injection(TopRows, P)
  BY <1>4, <1>5 DEF Injection, IsInjective
<1>7. IsFiniteSet(P) /\ Cardinality(P) = PageSize
  BY <1>1, FS_Interval
<1>8. IsFiniteSet(TopRows) /\ Cardinality(TopRows) \in Nat
  BY <1>2, RowsAreFinite
<1>9. Cardinality(TopRows) <= Cardinality(P)
  <2> HIDE DEF P, f
  <2> QED BY <1>6, <1>7, <1>8, FS_Injection
<1> QED BY <1>7, <1>8, <1>9

\* Page after page, the audit log in memory returns its first page.
LEMMA LogStep == OddInv /\ PagingTypeOK' /\ [PagingNext]_pagingVars => LogWalks'
<1> SUFFICES ASSUME OddInv, PagingTypeOK', [PagingNext]_pagingVars,
                    walk' = "log", added' \cup removed' = {}
             PROVE  /\ Cardinality(seen') <= PageSize
                    /\ phase' = "walking" => seen' \subseteq TopRows'
  BY DEF LogWalks
<1> USE DEF OddInv
<1>1. /\ createdAt \in [Ids -> Int] /\ rows \in SUBSET Ids /\ PageSize \in Nat
  BY PagingSets
<1>2. ASSUME UNCHANGED <<rows, createdAt, walk>> PROVE TopRows' = TopRows
  <2>1. \A s : Rank(s, rows)' = Rank(s, rows)
    BY <1>2 DEF Rank, Precedes, NewestFirst, OldestFirst
  <2> QED BY <1>2, <2>1 DEF TopRows
<1>3. CASE UNCHANGED <<rows, createdAt, walk, phase, cursor, page, seen, again, due, added, removed>>
  BY <1>2, <1>3 DEF LogWalks
<1>4. ASSUME UNCHANGED <<walk, phase, seen>>, phase # "walking", added' = added, removed' = removed
      PROVE  Cardinality(seen') <= PageSize
  BY <1>4 DEF LogWalks
<1>5. ASSUME NEW r \in Ids, UNCHANGED <<walk, phase, seen, removed>>,
             added' = IF phase = "walking" THEN added \cup {r} ELSE added
      PROVE  Cardinality(seen') <= PageSize /\ phase' # "walking"
  BY <1>4, <1>5
<1>6. ASSUME NEW r \in Ids, UNCHANGED <<walk, phase, seen, added>>,
             removed' = IF phase = "walking" THEN removed \cup {r} ELSE removed
      PROVE  Cardinality(seen') <= PageSize /\ phase' # "walking"
  BY <1>4, <1>6
<1>7. ASSUME seen' = {} PROVE Cardinality(seen') <= PageSize /\ seen' \subseteq TopRows'
  BY <1>1, <1>7, FS_EmptySet
<1>8. CASE ReadPage
  <2>1. /\ phase = "walking" /\ seen' = seen \cup PageItems
        /\ UNCHANGED <<rows, createdAt, walk, added, removed>>
    BY <1>8 DEF ReadPage, table
  <2>2. Selected = rows /\ Skipped = 0
    BY <2>1 DEF Selected, AfterCursor, NeverFound, Skipped
  <2>3. \A s \in rows : Rank(s, rows) \in Nat
    BY <1>1, RanksGrow
  <2>4. PageItems \subseteq TopRows
    BY <1>1, <2>2, <2>3 DEF PageItems, TopRows
  <2>5. seen' \subseteq TopRows
    BY <2>1, <2>4 DEF LogWalks
  <2>6. TopRows \in SUBSET Ids
    BY <1>1 DEF TopRows
  <2>7. Cardinality(seen') <= Cardinality(TopRows) /\ Cardinality(seen') \in Nat
    BY <2>5, <2>6, FewerRows
  <2> QED BY <1>1, <1>2, <2>1, <2>5, <2>7, TopRowsAreShort
<1> QED BY <1>3, <1>5, <1>6, <1>7, <1>8, WritersAndReader

\* A later time is in a later hour or the same.
LEMMA HoursGrow ==
    ASSUME NEW a \in Nat, NEW b \in Nat, a >= b
    PROVE  a \div PerHour \in Nat /\ b \div PerHour \in Nat /\ a \div PerHour >= b \div PerHour
<1>0. PerHour \in Nat /\ PerHour > 0
  BY PagingAssumption
<1> DEFINE p == a \div PerHour
           q == b \div PerHour
<1>1. p \in Nat /\ q \in Nat
  BY <1>0
<1>2. a = PerHour * p + (a % PerHour) /\ a % PerHour \in 0..(PerHour - 1)
  BY <1>0
<1>3. b = PerHour * q + (b % PerHour) /\ b % PerHour \in 0..(PerHour - 1)
  BY <1>0
<1>4. p >= q
  <2> HIDE DEF p, q
  <2> SUFFICES ASSUME p + 1 <= q PROVE FALSE
    BY <1>1
  <2>1. PerHour * (p + 1) <= PerHour * q
    BY <1>0, <1>1
  <2>2. PerHour * (p + 1) = PerHour * p + PerHour
    BY <1>0, <1>1
  <2> QED BY <1>0, <1>1, <1>2, <1>3, <2>1, <2>2
<1> QED BY <1>1, <1>4

\* What a walk by hours leaves out shares its hour with a row it has read.
LEMMA HourStep == OddInv /\ PagingTypeOK' /\ [PagingNext]_pagingVars => HourWalks'
<1> SUFFICES ASSUME OddInv, PagingTypeOK', [PagingNext]_pagingVars, walk' = "hours"
             PROVE  /\ phase' = "walking" /\ cursor' # NoCursor =>
                           \A d \in due' \ seen' : Hour(d)' < Hour(cursor)' \/ Witnessed(d)'
                    /\ phase' = "done" => \A d \in due' \ seen' : Witnessed(d)'
  BY DEF HourWalks
<1> USE DEF OddInv
<1>1. /\ rows \subseteq used /\ seen \subseteq used /\ due \subseteq used /\ due \subseteq rows /\ used \subseteq Ids
      /\ cursor = NoCursor \/ cursor \in used
  BY PagingSets DEF PagingTypeOK, WalkIsOrderly
<1>2. ASSUME UNCHANGED <<walk, phase, cursor, seen>>, due' \subseteq due,
             \A q \in used : createdAt'[q] = createdAt[q]
      PROVE  /\ phase' = "walking" /\ cursor' # NoCursor =>
                    \A d \in due' \ seen' : Hour(d)' < Hour(cursor)' \/ Witnessed(d)'
             /\ phase' = "done" => \A d \in due' \ seen' : Witnessed(d)'
  <2>1. \A q \in used : Hour(q)' = Hour(q)
    BY <1>2 DEF Hour
  <2>2. \A d \in due : Witnessed(d) => Witnessed(d)'
    BY <1>1, <1>2, <2>1 DEF Witnessed
  <2>3. cursor # NoCursor => Hour(cursor)' = Hour(cursor)
    BY <1>1, <1>2, <2>1 DEF Hour
  <2> QED BY <1>1, <1>2, <2>1, <2>2, <2>3 DEF HourWalks
<1>3. ASSUME NEW r \in Ids, AddRow(r), UNCHANGED <<walk, phase, cursor, seen, due>>
      PROVE  /\ phase' = "walking" /\ cursor' # NoCursor =>
                    \A d \in due' \ seen' : Hour(d)' < Hour(cursor)' \/ Witnessed(d)'
             /\ phase' = "done" => \A d \in due' \ seen' : Witnessed(d)'
  <2>1. \A q \in used : createdAt'[q] = createdAt[q]
    BY <1>3, RowsMakeRoom
  <2> QED BY <1>2, <1>3, <2>1
<1>4. CASE ReadPage
  <2>1. /\ phase = "walking" /\ seen' = seen \cup PageItems
        /\ cursor' = IF HasMore THEN LastItem ELSE cursor
        /\ phase' = IF HasMore THEN phase ELSE "done"
        /\ UNCHANGED <<rows, createdAt, walk, due>>
    BY <1>4 DEF ReadPage, table
  <2>2. \A q : Hour(q)' = Hour(q)
    BY <2>1 DEF Hour
  <2>3. \A d : Witnessed(d) => Witnessed(d)'
    BY <2>1, <2>2 DEF Witnessed
  <2>4. /\ PageItems \subseteq Selected /\ Selected \subseteq rows
        /\ ~HasMore => PageItems = Selected
        /\ HasMore => LastItem \in PageItems /\ \A r \in Selected \ PageItems : Precedes(LastItem, r)
    BY <2>1, PagesArePrefixes
  <2>5. \A d \in due \ seen' : d \in Selected \/ Witnessed(d)
    BY <1>1, <2>1 DEF HourWalks, Selected, AfterCursor, AfterHour
  <2>6. ASSUME HasMore, NEW d \in due \ seen' PROVE Hour(d)' < Hour(cursor)' \/ Witnessed(d)'
    <3>1. CASE Witnessed(d)
      BY <2>3, <3>1
    <3>2. CASE d \in Selected
      <4>1. Precedes(LastItem, d) /\ LastItem \in PageItems /\ LastItem \in rows
        BY <2>1, <2>4, <2>6, <3>2
      <4>2. createdAt[LastItem] \in Nat /\ createdAt[d] \in Nat
        BY <1>1, <4>1, PagingAssumption DEF PagingTypeOK
      <4>3. createdAt[LastItem] >= createdAt[d]
        BY <2>1, <4>1, <4>2 DEF Precedes, NewestFirst
      <4>4. Hour(LastItem) \in Nat /\ Hour(d) \in Nat /\ Hour(LastItem) >= Hour(d)
        BY <4>2, <4>3, HoursGrow DEF Hour
      <4>5. Hour(LastItem) = Hour(d) => Witnessed(d)'
        BY <2>1, <2>2, <4>1 DEF Witnessed
      <4>6. Hour(d)' = Hour(d) /\ Hour(cursor)' = Hour(LastItem)
        BY <2>1, <2>6 DEF Hour
      <4> QED BY <4>4, <4>5, <4>6
    <3> QED BY <2>5, <2>6, <3>1, <3>2
  <2>7. ASSUME ~HasMore, NEW d \in due \ seen' PROVE Witnessed(d)'
    BY <2>1, <2>3, <2>4, <2>5, <2>7
  <2> QED BY <2>1, <2>6, <2>7
<1>5. ASSUME phase' = "walking", cursor' = NoCursor
      PROVE  /\ phase' = "walking" /\ cursor' # NoCursor =>
                    \A d \in due' \ seen' : Hour(d)' < Hour(cursor)' \/ Witnessed(d)'
             /\ phase' = "done" => \A d \in due' \ seen' : Witnessed(d)'
  BY <1>5
<1> QED BY <1>2, <1>3, <1>4, <1>5, WritersAndReader

\* At first nothing was read, repeated or missed.
LEMMA OddStart == PagingInit => OddInv
<1> SUFFICES ASSUME PagingInit PROVE OddInv
  OBVIOUS
<1>1. PagingTypeOK /\ WalkIsOrderly
  BY WalkStart DEF WalkInv
<1>2. /\ rows = {} /\ seen = {} /\ again = {} /\ due = {} /\ added = {} /\ removed = {} /\ phase = "ready"
  BY DEF PagingInit
<1>3. Cardinality({}) = 0 /\ PageSize \in Nat
  BY FS_EmptySet, PagingAssumption
<1>4. CursorWalks /\ LogWalks /\ HourWalks
  BY <1>2, <1>3 DEF CursorWalks, LogWalks, HourWalks
<1>5. NumberedWalks
  BY <1>2, <1>3 DEF NumberedWalks
<1> QED BY <1>1, <1>4, <1>5 DEF OddInv

\* No step loses the reasons.
LEMMA OddStep == OddInv /\ [PagingNext]_pagingVars => OddInv'
<1> SUFFICES ASSUME OddInv, [PagingNext]_pagingVars PROVE OddInv'
  OBVIOUS
<1>1. PagingTypeOK' /\ WalkIsOrderly'
  BY PagingKeepsTypes DEF OddInv
<1> QED BY <1>1, CursorStep, NumberedStep, LogStep, HourStep DEF OddInv

\* The walks that go wrong do so for the reasons named and to the extent named:
\* for every set of rows, page size, clock and length of an hour.
THEOREM OddWalksStayExplained == PagingSpec => []OddWalksAreExplained
<1>1. OddInv => OddWalksAreExplained
  <2> SUFFICES ASSUME OddInv PROVE OddWalksAreExplained
    OBVIOUS
  <2>1. /\ walk = "keyset" => again = {}
        /\ walk = "memory" /\ again # {} => removed \cap seen # {}
    BY DEF OddInv, CursorWalks, Placed
  <2>2. /\ walk = "pages" => Cardinality(again) <= Cardinality(added)
        /\ walk = "pages" /\ phase = "done" => Cardinality(due \ seen) <= Cardinality(removed)
    BY DEF OddInv, NumberedWalks
  <2>3. walk = "log" /\ added \cup removed = {} => Cardinality(seen) <= PageSize
    BY DEF OddInv, LogWalks
  <2>4. walk = "hours" /\ phase = "done" => \A d \in due \ seen : \E s \in seen : Hour(s) = Hour(d)
    BY DEF OddInv, HourWalks, Witnessed
  <2>5. RepeatsAreExplained
    BY <2>1, <2>2 DEF RepeatsAreExplained
  <2>6. AuditCursorIsCutShort
    BY <2>3, <2>4 DEF AuditCursorIsCutShort
  <2>7. PagesMissAtMostTheDeleted
    BY <2>2 DEF PagesMissAtMostTheDeleted
  <2> QED BY <2>5, <2>6, <2>7 DEF OddWalksAreExplained
<1> QED BY <1>1, OddStart, OddStep, PTL DEF PagingSpec

-----------------------------------------------------------------------------
(* The rate limiter: every log is a set of charges of what passed. *)

Charges == [nth : Nat, end : Nat]
Passings == [scope : Scopes, at : Nat]

RateTypes ==
    /\ policy \in Policies /\ failOpen \in BOOLEAN
    /\ minute \in Nat /\ throws \in Nat
    /\ passed \in Seq(Passings)
    /\ ends \in [Prefixes -> SUBSET Charges]
    /\ \A p \in Prefixes : IsFiniteSet(ends[p])
    /\ ahead \in [Pending -> Seq(Scopes)]
    /\ resetAt \in [Prefixes -> Nat]

\* When the charge of a passing ends.
EndOf(i) == passed[i].at + policy[passed[i].scope].window

\* A charge is of the passing it is numbered by.
ChargesAreOfPassings ==
    \A p \in Prefixes : \A e \in ends[p] :
        e.nth \in DOMAIN passed /\ Prefix(passed[e.nth].scope) = p /\ e.end = EndOf(e.nth)

\* What passed and still counts, though it is in no log: as often as the cache failed open.
Uncharged == {i \in DOMAIN passed : /\ EndOf(i) > minute
                                    /\ \A e \in ends[Prefix(passed[i].scope)] : e.nth # i}
UnchargedByFailures == Cardinality(Uncharged) <= (IF failOpen THEN throws ELSE 0)

\* What counts of a scope in the log, which others may share.
Counted(s) == {e \in Recent(Prefix(s)) : passed[e.nth].scope = s}
ScopesAreWithin == \A s \in Scopes : Cardinality(Counted(s)) <= policy[s].limit

\* A log of one limit is within it, and one charge below at the time it promised.
LogsAreWithin ==
    \A s \in Scopes : Uniform(Prefix(s)) =>
        /\ Cardinality(Recent(Prefix(s))) <= policy[s].limit
        /\ policy[s].limit > 0 /\ resetAt[Prefix(s)] # 0 =>
               Cardinality({e \in ends[Prefix(s)] : e.end > resetAt[Prefix(s)]}) < policy[s].limit

RateInv == /\ RateTypes
           /\ ChargesAreOfPassings
           /\ UnchargedByFailures
           /\ ScopesAreWithin
           /\ LogsAreWithin

-----------------------------------------------------------------------------

\* Types of what the limiter looks at.
LEMMA RateTyped ==
    ASSUME RateTypes
    PROVE  /\ \A s \in Scopes : /\ policy[s].limit \in Nat /\ policy[s].window \in Nat \ {0}
                                /\ Prefix(s) \in Prefixes
           /\ \A i \in DOMAIN passed : passed[i] \in Passings /\ passed[i].scope \in Scopes
                                       /\ passed[i].at \in Nat /\ EndOf(i) \in Nat
           /\ DOMAIN passed = 1..Len(passed) /\ Len(passed) \in Nat
           /\ \A p \in Prefixes : /\ IsFiniteSet(ends[p]) /\ IsFiniteSet(Recent(p))
                                  /\ Recent(p) \subseteq ends[p] /\ ends[p] \subseteq Charges
                                  /\ Cardinality(Recent(p)) \in Nat
<1>1. \A s \in Scopes : policy[s].limit \in Nat /\ policy[s].window \in Nat \ {0}
  BY RateWindowAssumption DEF RateTypes
<1>2. \A s \in Scopes : Prefix(s) \in Prefixes
  BY DEF Prefix, Prefixes
<1>3. DOMAIN passed = 1..Len(passed) /\ Len(passed) \in Nat
  BY DEF RateTypes
<1>4. \A i \in DOMAIN passed : passed[i] \in Passings
  BY DEF RateTypes
<1>5. \A x \in Passings : x.scope \in Scopes /\ x.at \in Nat
  BY DEF Passings
<1>6. \A i \in DOMAIN passed : EndOf(i) \in Nat
  BY <1>1, <1>4, <1>5 DEF EndOf
<1>7. ASSUME NEW p \in Prefixes
      PROVE  /\ IsFiniteSet(ends[p]) /\ IsFiniteSet(Recent(p)) /\ Recent(p) \subseteq ends[p]
             /\ ends[p] \subseteq Charges /\ Cardinality(Recent(p)) \in Nat
  <2>1. Recent(p) \subseteq ends[p]
    BY DEF Recent
  <2>2. IsFiniteSet(ends[p]) /\ ends[p] \subseteq Charges
    BY DEF RateTypes
  <2>3. QED
    BY <2>1, <2>2, FS_Subset, FS_CardinalityType
<1>8. QED
  BY <1>1, <1>2, <1>3, <1>4, <1>5, <1>6, <1>7

\* The passings that count, and the charges that count, are finitely many.
LEMMA CountsAreFinite ==
    ASSUME RateTypes
    PROVE  /\ IsFiniteSet(Uncharged) /\ Cardinality(Uncharged) \in Nat
           /\ \A s \in Scopes : IsFiniteSet(Counted(s)) /\ Cardinality(Counted(s)) \in Nat
<1>1. IsFiniteSet(1..Len(passed)) /\ Uncharged \subseteq 1..Len(passed)
  <2>1. Len(passed) \in Nat /\ DOMAIN passed = 1..Len(passed)
    BY RateTyped
  <2>2. IsFiniteSet(1..Len(passed))
    BY <2>1, FS_Interval
  <2>3. Uncharged \subseteq DOMAIN passed
    BY DEF Uncharged
  <2>4. QED
    BY <2>1, <2>2, <2>3
<1>2. IsFiniteSet(Uncharged) /\ Cardinality(Uncharged) \in Nat
  BY <1>1, FS_Subset, FS_CardinalityType
<1>3. ASSUME NEW s \in Scopes PROVE IsFiniteSet(Counted(s)) /\ Cardinality(Counted(s)) \in Nat
  <2>1. Counted(s) \subseteq Recent(Prefix(s)) /\ IsFiniteSet(Recent(Prefix(s)))
    BY RateTyped DEF Counted
  <2>2. QED
    BY <2>1, FS_Subset, FS_CardinalityType
<1>4. QED
  BY <1>2, <1>3

\* A smaller set of finitely many counts for no more.
LEMMA FewerCount ==
    ASSUME NEW S, NEW T, IsFiniteSet(S), T \subseteq S
    PROVE  /\ IsFiniteSet(T) /\ Cardinality(T) \in Nat /\ Cardinality(S) \in Nat
           /\ Cardinality(T) <= Cardinality(S)
  BY FS_Subset, FS_CardinalityType

\* The oldest of the charges that count is one of them.
LEMMA OldestIsOne ==
    ASSUME NEW S \in SUBSET Charges, S # {}
    PROVE  Oldest(S) \in S
<1> DEFINE R == OpToRel(<, Nat)
           T == {e.nth : e \in S}
<1>1. T \subseteq Nat /\ T # {}
  BY DEF Charges
<1>2. IsWellFoundedOn(R, Nat)
  BY NatLessThanWellFounded
<1> HIDE DEF R, T
<1>3. PICK n \in T : \A m \in T : <<m, n>> \notin R
  BY <1>1, <1>2, WFMin
<1>4. \A m \in T : n <= m
  <2> TAKE m \in T
  <2>1. m \in Nat /\ n \in Nat /\ ~(m < n)
    BY <1>1, <1>3 DEF R, OpToRel
  <2>2. QED
    BY <2>1
<1>5. PICK e \in S : e.nth = n
  BY DEF T
<1>6. \A f \in S : e.nth <= f.nth
  BY <1>4, <1>5 DEF T
<1>7. QED
  BY <1>6 DEF Oldest

\* Time passes and logs drop what has ended: what counted counts no more than before.
LEMMA LogsShrink ==
    ASSUME RateInv, policy' = policy, failOpen' = failOpen, passed' = passed,
           minute' \in Nat, minute' >= minute, throws' \in Nat, throws' >= throws,
           ends' \in [Prefixes -> SUBSET Charges],
           \A p \in Prefixes : /\ ends'[p] \subseteq ends[p]
                               /\ \A e \in ends[p] : e.end > minute' => e \in ends'[p]
    PROVE  /\ \A p \in Prefixes : IsFiniteSet(ends'[p])
           /\ ChargesAreOfPassings' /\ UnchargedByFailures' /\ ScopesAreWithin'
           /\ \A p \in Prefixes : Recent(p)' \subseteq Recent(p)
<1> RateTypes /\ ChargesAreOfPassings /\ UnchargedByFailures /\ ScopesAreWithin
  BY DEF RateInv
<1>1. \A s \in Scopes : Prefix(s)' = Prefix(s) /\ Prefix(s) \in Prefixes
  BY RateTyped DEF Prefix
<1>2. Prefixes' = Prefixes /\ \A i : EndOf(i)' = EndOf(i)
  BY DEF Prefixes, EndOf
<1>3. \A p \in Prefixes : \A e \in ends[p] : e.end \in Nat /\ e \in Charges
  BY RateTyped DEF Charges
<1>4. minute \in Nat
  BY DEF RateTypes
<1>5. \A p \in Prefixes : Recent(p)' \subseteq Recent(p)
  BY <1>3, <1>4 DEF Recent
<1>6. \A p \in Prefixes : IsFiniteSet(ends'[p])
  BY RateTyped, FS_Subset
<1>7. ChargesAreOfPassings'
  <2> SUFFICES ASSUME NEW p \in Prefixes, NEW e \in ends'[p]
               PROVE  /\ e.nth \in DOMAIN passed' /\ (Prefix(passed[e.nth].scope) = p)'
                      /\ e.end = EndOf(e.nth)'
    BY <1>2 DEF ChargesAreOfPassings
  <2>1. e \in ends[p]
    OBVIOUS
  <2>2. e.nth \in DOMAIN passed /\ Prefix(passed[e.nth].scope) = p /\ e.end = EndOf(e.nth)
    BY <2>1 DEF ChargesAreOfPassings
  <2>3. passed[e.nth].scope \in Scopes
    BY <2>2, RateTyped
  <2>4. QED
    BY <1>1, <1>2, <2>2, <2>3 DEF Prefix
<1>8. UnchargedByFailures'
  <2>1. Uncharged' \subseteq Uncharged
    <3> SUFFICES ASSUME NEW i \in DOMAIN passed, EndOf(i) > minute',
                        \A e \in ends'[Prefix(passed[i].scope)] : e.nth # i
                 PROVE  i \in Uncharged
      BY <1>2 DEF Uncharged, Prefix
    <3>1. passed[i].scope \in Scopes /\ EndOf(i) \in Nat
      BY RateTyped
    <3>2. PICK p \in Prefixes : p = Prefix(passed[i].scope)
      BY <3>1, <1>1
    <3>3. EndOf(i) > minute
      BY <3>1, <1>4
    <3>4. ASSUME NEW e \in ends[p], e.nth = i PROVE FALSE
      <4>1. e.end = EndOf(i)
        BY <3>4 DEF ChargesAreOfPassings
      <4>2. e \in ends'[p]
        BY <4>1
      <4>3. QED
        BY <3>2, <3>4, <4>2
    <3>5. QED
      BY <3>2, <3>3, <3>4 DEF Uncharged
  <2>2. /\ Cardinality(Uncharged') <= Cardinality(Uncharged)
        /\ Cardinality(Uncharged') \in Nat /\ Cardinality(Uncharged) \in Nat
    BY <2>1, CountsAreFinite, FewerCount
  <2>3. throws \in Nat
    BY DEF RateTypes
  <2>4. QED
    BY <2>2, <2>3 DEF UnchargedByFailures
<1>9. ScopesAreWithin'
  <2> SUFFICES ASSUME NEW s \in Scopes PROVE Cardinality(Counted(s)') <= policy[s].limit
    BY DEF ScopesAreWithin
  <2>1. Counted(s)' \subseteq Counted(s)
    BY <1>1, <1>5 DEF Counted
  <2>2. /\ Cardinality(Counted(s)') <= Cardinality(Counted(s))
        /\ Cardinality(Counted(s)') \in Nat /\ Cardinality(Counted(s)) \in Nat
    BY <2>1, CountsAreFinite, FewerCount
  <2>3. policy[s].limit \in Nat /\ Cardinality(Counted(s)) <= policy[s].limit
    BY RateTyped DEF ScopesAreWithin
  <2>4. QED
    BY <2>2, <2>3
<1>10. QED
  BY <1>5, <1>6, <1>7, <1>8, <1>9

\* The logs stay within their limits where they shrink and promise what they did.
LEMMA PromisesStay ==
    ASSUME RateInv, policy' = policy, NEW p \in Prefixes, resetAt'[p] = resetAt[p],
           ends'[p] \subseteq ends[p], Recent(p)' \subseteq Recent(p)
    PROVE  \A s \in Scopes : Prefix(s) = p /\ Uniform(p)' =>
               /\ Cardinality(Recent(p)') <= policy[s].limit
               /\ policy[s].limit > 0 /\ resetAt'[p] # 0 =>
                      Cardinality({e \in ends'[p] : e.end > resetAt'[p]}) < policy[s].limit
<1> SUFFICES ASSUME NEW s \in Scopes, Prefix(s) = p, Uniform(p)'
             PROVE  /\ Cardinality(Recent(p)') <= policy[s].limit
                    /\ policy[s].limit > 0 /\ resetAt'[p] # 0 =>
                           Cardinality({e \in ends'[p] : e.end > resetAt'[p]}) < policy[s].limit
  OBVIOUS
<1> RateTypes /\ LogsAreWithin
  BY DEF RateInv
<1>1. Uniform(p)
  BY DEF Uniform, Prefix
<1>2. /\ Cardinality(Recent(p)) <= policy[s].limit
      /\ policy[s].limit > 0 /\ resetAt[p] # 0 =>
             Cardinality({e \in ends[p] : e.end > resetAt[p]}) < policy[s].limit
  BY <1>1 DEF LogsAreWithin
<1>3. policy[s].limit \in Nat /\ IsFiniteSet(Recent(p)) /\ IsFiniteSet(ends[p])
  BY RateTyped
<1>4. Cardinality(Recent(p)') <= policy[s].limit
  BY <1>2, <1>3, FewerCount
<1>5. ASSUME policy[s].limit > 0, resetAt'[p] # 0
      PROVE  Cardinality({e \in ends'[p] : e.end > resetAt'[p]}) < policy[s].limit
  <2> DEFINE S == {e \in ends[p] : e.end > resetAt[p]}
             T == {e \in ends'[p] : e.end > resetAt'[p]}
  <2>1. T \subseteq S /\ S \subseteq ends[p]
    OBVIOUS
  <2>2. Cardinality(S) < policy[s].limit
    BY <1>2, <1>5
  <2> HIDE DEF S, T
  <2>3. IsFiniteSet(S)
    BY <1>3, <2>1, FewerCount
  <2>4. Cardinality(T) <= Cardinality(S) /\ Cardinality(T) \in Nat /\ Cardinality(S) \in Nat
    BY <2>1, <2>3, FewerCount
  <2>5. Cardinality(T) < policy[s].limit
    BY <1>3, <2>2, <2>4
  <2>6. QED
    BY <2>5 DEF T
<1>6. QED
  BY <1>4, <1>5

\* Time passes and logs drop what has ended, whatever else goes on: the limiter's
\* invariant holds on, unless a promise changes.
LEMMA ShrunkLogsKeep ==
    ASSUME RateInv, policy' = policy, failOpen' = failOpen, passed' = passed,
           resetAt' = resetAt, ahead' \in [Pending -> Seq(Scopes)],
           minute' \in Nat, minute' >= minute, throws' \in Nat, throws' >= throws,
           ends' \in [Prefixes -> SUBSET Charges],
           \A p \in Prefixes : /\ ends'[p] \subseteq ends[p]
                               /\ \A e \in ends[p] : e.end > minute' => e \in ends'[p]
    PROVE  RateInv'
<1> RateTypes
  BY DEF RateInv
<1>1. /\ \A p \in Prefixes : IsFiniteSet(ends'[p])
      /\ ChargesAreOfPassings' /\ UnchargedByFailures' /\ ScopesAreWithin'
      /\ \A p \in Prefixes : Recent(p)' \subseteq Recent(p)
  BY LogsShrink
<1>2. Prefixes' = Prefixes /\ Passings' = Passings /\ Charges' = Charges
  BY DEF Prefixes, Passings, Charges
<1>3. RateTypes'
  BY <1>1, <1>2 DEF RateTypes
<1>4. LogsAreWithin'
  <2> SUFFICES ASSUME NEW s \in Scopes, Uniform(Prefix(s))'
               PROVE  /\ Cardinality(Recent(Prefix(s))') <= policy[s].limit
                      /\ policy[s].limit > 0 /\ resetAt'[Prefix(s)] # 0 =>
                             Cardinality({e \in ends'[Prefix(s)] : e.end > resetAt'[Prefix(s)]})
                                 < policy[s].limit
    BY DEF LogsAreWithin, Prefix
  <2>1. PICK p \in Prefixes : p = Prefix(s)
    BY RateTyped
  <2>2. Uniform(p)' /\ Recent(p)' = Recent(Prefix(s))'
    BY <2>1 DEF Prefix
  <2>3. Recent(p)' \subseteq Recent(p) /\ resetAt'[p] = resetAt[p] /\ ends'[p] \subseteq ends[p]
    BY <1>1
  <2>4. /\ Cardinality(Recent(p)') <= policy[s].limit
        /\ policy[s].limit > 0 /\ resetAt'[p] # 0 =>
               Cardinality({e \in ends'[p] : e.end > resetAt'[p]}) < policy[s].limit
    BY <2>1, <2>2, <2>3, PromisesStay
  <2>5. QED
    BY <2>1, <2>2, <2>4
<1>5. QED
  BY <1>1, <1>3, <1>4 DEF RateInv

\* What passes is numbered after all that passed before it, which stays as it was.
LEMMA OneMorePasses ==
    ASSUME RateTypes, policy' = policy, NEW s \in Scopes, LetsThrough(s),
           NEW n \in Nat, n = Len(passed) + 1
    PROVE  /\ DOMAIN passed' = DOMAIN passed \cup {n} /\ n \notin DOMAIN passed
           /\ passed'[n] = [scope |-> s, at |-> minute]
           /\ EndOf(n)' = minute + policy[s].window
           /\ \A i \in DOMAIN passed : passed'[i] = passed[i] /\ EndOf(i)' = EndOf(i)
           /\ passed' \in Seq(Passings)
<1>1. passed \in Seq(Passings) /\ minute \in Nat
  BY DEF RateTypes
<1> DEFINE y == [scope |-> s, at |-> minute]
<1>2. y \in Passings
  BY <1>1 DEF Passings
<1>3. passed' = Append(passed, y)
  BY DEF LetsThrough
<1> HIDE DEF y
<1>4. passed' \in Seq(Passings) /\ Len(passed') = Len(passed) + 1 /\ passed'[n] = y
  BY <1>1, <1>2, <1>3
<1>5. DOMAIN passed = 1..Len(passed) /\ DOMAIN passed' = 1..Len(passed') /\ Len(passed) \in Nat
  BY <1>1, <1>4
<1>6. \A i \in DOMAIN passed : passed'[i] = passed[i]
  BY <1>1, <1>2, <1>3
<1>7. \A i \in DOMAIN passed : EndOf(i)' = EndOf(i)
  BY <1>6 DEF EndOf
<1>8. EndOf(n)' = minute + policy[s].window
  BY <1>4, <1>5 DEF EndOf, y
<1>9. DOMAIN passed' = DOMAIN passed \cup {n} /\ n \notin DOMAIN passed
  BY <1>4, <1>5
<1>10. QED
  BY <1>4, <1>6, <1>7, <1>8, <1>9 DEF y

\* The middleware a request is at is of a scope.
LEMMA AheadIsAScope ==
    ASSUME RateTypes, NEW c \in Pending, ahead[c] # << >>
    PROVE  /\ Head(ahead[c]) \in Scopes
           /\ Prefix(Head(ahead[c])) \in Prefixes
           /\ Tail(ahead[c]) \in Seq(Scopes) /\ << >> \in Seq(Scopes)
<1>1. ahead[c] \in Seq(Scopes)
  BY DEF RateTypes
<1>2. Head(ahead[c]) \in Scopes /\ Tail(ahead[c]) \in Seq(Scopes) /\ << >> \in Seq(Scopes)
  BY <1>1
<1>3. QED
  BY <1>2, RateTyped

\* A charge below the limit: the window of its scope, and the log of its prefix, take
\* one more and are still within the limit.
LEMMA ChargeKeeps ==
    ASSUME RateInv, NEW c \in Pending, Charge(c)
    PROVE  RateInv'
<1> RateTypes /\ ChargesAreOfPassings /\ UnchargedByFailures /\ ScopesAreWithin /\ LogsAreWithin
  BY DEF RateInv
<1>1. ahead[c] # << >>
  BY DEF Charge
<1>2. PICK s \in Scopes : s = Head(ahead[c])
  BY <1>1, AheadIsAScope
<1>3. PICK p \in Prefixes : p = Prefix(s)
  BY RateTyped
<1>4. PICK n \in Nat : n = Len(passed) + 1
  BY RateTyped
<1>5. policy[s].limit \in Nat /\ policy[s].window \in Nat \ {0} /\ minute \in Nat
  BY RateTyped DEF RateTypes
<1>6. PICK x \in Charges : x = [nth |-> n, end |-> minute + policy[s].window]
  <2>1. PICK w \in Nat \ {0} : w = policy[s].window
    BY <1>5
  <2>2. PICK z \in Nat : z = minute + w
    BY <1>5, <2>1
  <2>3. [nth |-> n, end |-> z] \in Charges
    BY DEF Charges
  <2>4. QED
    BY <2>1, <2>2, <2>3
<1>7. x.nth = n /\ x.end = minute + policy[s].window /\ x.end > minute /\ x.end \in Nat
  <2>1. x.nth = n /\ x.end = minute + policy[s].window
    BY <1>6
  <2>2. PICK w \in Nat \ {0} : w = policy[s].window
    BY <1>5
  <2>3. QED
    BY <1>5, <2>1, <2>2
<1>8. /\ ~IsFull(s) /\ LetsThrough(s)
      /\ ends' = [ends EXCEPT ![p] = Recent(p) \cup {x}]
      /\ resetAt' = [resetAt EXCEPT ![p] = 0]
      /\ ahead' = [ahead EXCEPT ![c] = Tail(@)]
      /\ policy' = policy /\ failOpen' = failOpen /\ minute' = minute /\ throws' = throws
  BY <1>2, <1>3, <1>4, <1>6 DEF Charge
<1>9. /\ DOMAIN passed' = DOMAIN passed \cup {n} /\ n \notin DOMAIN passed
      /\ passed'[n] = [scope |-> s, at |-> minute]
      /\ EndOf(n)' = minute + policy[s].window
      /\ \A i \in DOMAIN passed : passed'[i] = passed[i] /\ EndOf(i)' = EndOf(i)
      /\ passed' \in Seq(Passings)
  BY <1>4, <1>8, OneMorePasses
<1>10. Prefixes' = Prefixes /\ Passings' = Passings /\ Charges' = Charges
       /\ \A t \in Scopes : Prefix(t)' = Prefix(t)
  BY <1>8 DEF Prefixes, Passings, Charges, Prefix
<1>11. ends \in [Prefixes -> SUBSET Charges]
  BY DEF RateTypes
<1>12. Recent(p) \subseteq ends[p] /\ Recent(p) \subseteq Charges /\ IsFiniteSet(Recent(p))
  BY RateTyped
<1>13. ends'[p] = Recent(p) \cup {x} /\ \A q \in Prefixes \ {p} : ends'[q] = ends[q]
  BY <1>8, <1>11
<1>14. resetAt'[p] = 0 /\ \A q \in Prefixes \ {p} : resetAt'[q] = resetAt[q]
  BY <1>8 DEF RateTypes
<1>15. ends' \in [Prefixes -> SUBSET Charges]
  BY <1>8, <1>11, <1>12
<1>16. x \notin Recent(p) /\ IsFiniteSet(Recent(p) \cup {x})
       /\ Cardinality(Recent(p) \cup {x}) = Cardinality(Recent(p)) + 1
  <2>1. x \notin Recent(p)
    BY <1>7, <1>9, <1>12 DEF ChargesAreOfPassings
  <2>2. QED
    BY <1>12, <2>1, FS_AddElement
<1>17. \A q \in Prefixes : IsFiniteSet(ends'[q])
  BY <1>13, <1>16 DEF RateTypes
<1>18. RateTypes'
  <2>1. ahead' \in [Pending -> Seq(Scopes)]
    BY <1>1, <1>8, AheadIsAScope DEF RateTypes
  <2>2. resetAt' \in [Prefixes -> Nat]
    BY <1>8 DEF RateTypes
  <2>3. QED
    BY <1>8, <1>9, <1>10, <1>15, <1>17, <2>1, <2>2 DEF RateTypes
<1>19. ChargesAreOfPassings'
  <2> SUFFICES ASSUME NEW q \in Prefixes, NEW e \in ends'[q]
               PROVE  /\ e.nth \in DOMAIN passed' /\ Prefix(passed'[e.nth].scope) = q
                      /\ e.end = EndOf(e.nth)'
    BY <1>8, <1>10 DEF ChargesAreOfPassings, Prefix
  <2>1. CASE e \in ends[q]
    <3>1. e.nth \in DOMAIN passed /\ Prefix(passed[e.nth].scope) = q /\ e.end = EndOf(e.nth)
      BY <2>1 DEF ChargesAreOfPassings
    <3>2. QED
      BY <1>9, <3>1
  <2>2. CASE e \notin ends[q]
    <3>1. q = p /\ e = x
      BY <1>12, <1>13, <2>2
    <3>2. QED
      BY <1>3, <1>7, <1>9, <3>1
  <2>3. QED
    BY <2>1, <2>2
<1>20. UnchargedByFailures'
  <2>1. Uncharged' \subseteq Uncharged
    <3> SUFFICES ASSUME NEW i \in DOMAIN passed', EndOf(i)' > minute,
                        \A e \in ends'[Prefix(passed'[i].scope)] : e.nth # i
                 PROVE  i \in Uncharged
      BY <1>8 DEF Uncharged, Prefix
    <3>1. i # n
      <4> SUFFICES ASSUME i = n PROVE FALSE
        OBVIOUS
      <4>1. Prefix(passed'[i].scope) = p
        BY <1>3, <1>9
      <4>2. x \in ends'[p] /\ x.nth = i
        BY <1>7, <1>13
      <4>3. QED
        BY <4>1, <4>2
    <3>2. i \in DOMAIN passed /\ passed'[i] = passed[i] /\ EndOf(i)' = EndOf(i)
      BY <1>9, <3>1
    <3>3. PICK q \in Prefixes : q = Prefix(passed[i].scope)
      BY <3>2, RateTyped
    <3>4. ASSUME NEW e \in ends[q], e.nth = i PROVE FALSE
      <4>1. e.end = EndOf(i)
        BY <3>4 DEF ChargesAreOfPassings
      <4>2. e \in ends'[q]
        BY <1>13, <3>2, <4>1 DEF Recent
      <4>3. QED
        BY <3>2, <3>3, <3>4, <4>2
    <3>5. QED
      BY <3>2, <3>3, <3>4 DEF Uncharged
  <2>2. /\ Cardinality(Uncharged') <= Cardinality(Uncharged)
        /\ Cardinality(Uncharged') \in Nat /\ Cardinality(Uncharged) \in Nat
    BY <2>1, CountsAreFinite, FewerCount
  <2>3. throws \in Nat
    BY DEF RateTypes
  <2>4. QED
    BY <1>8, <2>2, <2>3 DEF UnchargedByFailures
<1>21. Recent(p)' = Recent(p) \cup {x} /\ \A q \in Prefixes \ {p} : Recent(q)' = Recent(q)
  <2>1. \A q \in Prefixes \ {p} : Recent(q)' = Recent(q)
    BY <1>8, <1>13 DEF Recent
  <2>2. Recent(p)' = {e \in Recent(p) \cup {x} : e.end > minute}
    BY <1>8, <1>13 DEF Recent
  <2>3. \A e \in Recent(p) : e.end > minute
    BY DEF Recent
  <2>4. QED
    BY <1>7, <2>1, <2>2, <2>3
<1>22. Cardinality(Recent(p)') <= policy[s].limit /\ IsFiniteSet(Recent(p)')
  <2>1. Cardinality(Recent(p)) \in Nat /\ ~(Cardinality(Recent(p)) >= policy[s].limit)
    BY <1>3, <1>8, RateTyped DEF IsFull
  <2>2. QED
    BY <1>5, <1>16, <1>21, <2>1
<1>23. ScopesAreWithin'
  <2> SUFFICES ASSUME NEW t \in Scopes PROVE Cardinality(Counted(t)') <= policy[t].limit
    BY <1>8 DEF ScopesAreWithin
  <2>1. policy[t].limit \in Nat /\ Cardinality(Counted(t)) <= policy[t].limit
    BY RateTyped DEF ScopesAreWithin
  <2>2. CASE t = s
    <3>1. Counted(t)' \subseteq Recent(p)'
      BY <1>3, <1>10, <2>2 DEF Counted
    <3>2. Cardinality(Counted(t)') <= Cardinality(Recent(p)')
          /\ Cardinality(Counted(t)') \in Nat /\ Cardinality(Recent(p)') \in Nat
      BY <1>22, <3>1, FewerCount
    <3>3. QED
      BY <1>22, <2>1, <2>2, <3>2
  <2>3. CASE t # s
    <3>1. PICK q \in Prefixes : q = Prefix(t)
      BY RateTyped
    <3>2. \A e \in Recent(q) : e.nth \in DOMAIN passed
      BY RateTyped DEF ChargesAreOfPassings
    <3>3. Recent(q)' \subseteq Recent(q) \cup {x}
      BY <1>21
    <3>4. Counted(t)' = {e \in Recent(q)' : passed'[e.nth].scope = t}
      BY <1>10, <3>1 DEF Counted
    <3>5. Counted(t) = {e \in Recent(q) : passed[e.nth].scope = t}
      BY <3>1 DEF Counted
    <3>6. passed'[x.nth].scope = s
      BY <1>7, <1>9
    <3>7. Counted(t)' \subseteq Counted(t)
      BY <1>9, <2>3, <3>2, <3>3, <3>4, <3>5, <3>6
    <3>8. Cardinality(Counted(t)') <= Cardinality(Counted(t))
          /\ Cardinality(Counted(t)') \in Nat /\ Cardinality(Counted(t)) \in Nat
      BY <3>7, CountsAreFinite, FewerCount
    <3>9. QED
      BY <2>1, <3>8
  <2>4. QED
    BY <2>2, <2>3
<1>24. LogsAreWithin'
  <2> SUFFICES ASSUME NEW t \in Scopes, Uniform(Prefix(t))'
               PROVE  /\ Cardinality(Recent(Prefix(t))') <= policy[t].limit
                      /\ policy[t].limit > 0 /\ resetAt'[Prefix(t)] # 0 =>
                             Cardinality({e \in ends'[Prefix(t)] : e.end > resetAt'[Prefix(t)]})
                                 < policy[t].limit
    BY <1>8 DEF LogsAreWithin, Prefix
  <2>1. PICK q \in Prefixes : q = Prefix(t)
    BY RateTyped
  <2>2. Uniform(q)' /\ Recent(q)' = Recent(Prefix(t))'
    BY <1>8, <2>1 DEF Prefix
  <2>3. CASE q = p
    <3>1. policy[t] = policy[s]
      BY <1>3, <1>8, <2>1, <2>2, <2>3 DEF Uniform, Prefix
    <3>2. QED
      BY <1>14, <1>22, <2>1, <2>2, <2>3, <3>1
  <2>4. CASE q # p
    <3>1. Recent(q)' \subseteq Recent(q) /\ resetAt'[q] = resetAt[q] /\ ends'[q] \subseteq ends[q]
      BY <1>13, <1>14, <1>21, <2>4
    <3>2. /\ Cardinality(Recent(q)') <= policy[t].limit
          /\ policy[t].limit > 0 /\ resetAt'[q] # 0 =>
                 Cardinality({e \in ends'[q] : e.end > resetAt'[q]}) < policy[t].limit
      BY <1>8, <2>1, <2>2, <3>1, PromisesStay
    <3>3. QED
      BY <2>1, <2>2, <3>2
  <2>5. QED
    BY <2>3, <2>4
<1>25. QED
  BY <1>18, <1>19, <1>20, <1>23, <1>24 DEF RateInv

\* A refusal: the log keeps what counts and takes nothing, and once the oldest charge
\* that counts has ended, fewer are left than the limit.
LEMMA RefuseKeeps ==
    ASSUME RateInv, NEW c \in Pending, Refuse(c)
    PROVE  RateInv'
<1> RateTypes /\ LogsAreWithin
  BY DEF RateInv
<1>1. ahead[c] # << >>
  BY DEF Refuse
<1>2. PICK s \in Scopes : s = Head(ahead[c])
  BY <1>1, AheadIsAScope
<1>3. PICK p \in Prefixes : p = Prefix(s)
  BY RateTyped
<1>4. policy[s].limit \in Nat /\ policy[s].window \in Nat \ {0} /\ minute \in Nat /\ throws \in Nat
  BY RateTyped DEF RateTypes
<1>5. PICK f : f = FreesAt(s)
  OBVIOUS
<1>6. /\ IsFull(s)
      /\ ends' = [ends EXCEPT ![p] = Recent(p)]
      /\ resetAt' = [resetAt EXCEPT ![p] = f]
      /\ ahead' = [ahead EXCEPT ![c] = << >>]
      /\ policy' = policy /\ failOpen' = failOpen /\ minute' = minute /\ throws' = throws
      /\ passed' = passed
  BY <1>2, <1>3, <1>5 DEF Refuse
<1>7. ends \in [Prefixes -> SUBSET Charges]
  BY DEF RateTypes
<1>8. /\ Recent(p) \subseteq ends[p] /\ Recent(p) \subseteq Charges /\ IsFiniteSet(Recent(p))
      /\ Cardinality(Recent(p)) \in Nat
  BY RateTyped
<1>9. ends'[p] = Recent(p) /\ \A q \in Prefixes \ {p} : ends'[q] = ends[q]
  BY <1>6, <1>7
<1>10. ends' \in [Prefixes -> SUBSET Charges]
  BY <1>6, <1>7, <1>8
<1>11. f \in Nat
  <2>1. CASE Recent(p) = {}
    <3>1. f = minute + policy[s].window
      BY <1>3, <1>5, <2>1 DEF FreesAt
    <3>2. PICK w \in Nat \ {0} : w = policy[s].window
      BY <1>4
    <3>3. QED
      BY <1>4, <3>1, <3>2
  <2>2. CASE Recent(p) # {}
    <3>1. Oldest(Recent(p)) \in Charges
      BY <1>8, <2>2, OldestIsOne
    <3>2. f = Oldest(Recent(p)).end
      BY <1>3, <1>5, <2>2 DEF FreesAt
    <3>3. QED
      BY <3>1, <3>2 DEF Charges
  <2>3. QED
    BY <2>1, <2>2
<1>12. resetAt' \in [Prefixes -> Nat]
  BY <1>6, <1>11 DEF RateTypes
<1>13. resetAt'[p] = f /\ \A q \in Prefixes \ {p} : resetAt'[q] = resetAt[q]
  BY <1>6 DEF RateTypes
<1>14. \A q \in Prefixes : /\ ends'[q] \subseteq ends[q]
                           /\ \A e \in ends[q] : e.end > minute' => e \in ends'[q]
  BY <1>6, <1>8, <1>9 DEF Recent
<1>15. /\ \A q \in Prefixes : IsFiniteSet(ends'[q])
       /\ ChargesAreOfPassings' /\ UnchargedByFailures' /\ ScopesAreWithin'
       /\ \A q \in Prefixes : Recent(q)' \subseteq Recent(q)
  BY <1>4, <1>6, <1>10, <1>14, LogsShrink
<1>16. Prefixes' = Prefixes /\ Passings' = Passings /\ Charges' = Charges
  BY <1>6 DEF Prefixes, Passings, Charges
<1>17. RateTypes'
  <2>1. ahead' \in [Pending -> Seq(Scopes)]
    BY <1>1, <1>6, AheadIsAScope DEF RateTypes
  <2>2. QED
    BY <1>6, <1>10, <1>12, <1>15, <1>16, <2>1 DEF RateTypes
<1>18. LogsAreWithin'
  <2> SUFFICES ASSUME NEW t \in Scopes, Uniform(Prefix(t))'
               PROVE  /\ Cardinality(Recent(Prefix(t))') <= policy[t].limit
                      /\ policy[t].limit > 0 /\ resetAt'[Prefix(t)] # 0 =>
                             Cardinality({e \in ends'[Prefix(t)] : e.end > resetAt'[Prefix(t)]})
                                 < policy[t].limit
    BY <1>6 DEF LogsAreWithin, Prefix
  <2>1. PICK q \in Prefixes : q = Prefix(t)
    BY RateTyped
  <2>2. Uniform(q)' /\ Uniform(q) /\ Recent(q)' = Recent(Prefix(t))'
    BY <1>6, <2>1 DEF Prefix, Uniform
  <2>3. CASE q = p
    <3>1. policy[t] = policy[s] /\ policy[t].limit = policy[s].limit
      BY <1>3, <2>1, <2>2, <2>3 DEF Uniform
    <3>2. Cardinality(Recent(p)) <= policy[t].limit
      BY <2>1, <2>2, <2>3 DEF LogsAreWithin
    <3>3. Cardinality(Recent(p)') <= policy[t].limit
      <4>1. Cardinality(Recent(p)') <= Cardinality(Recent(p)) /\ Cardinality(Recent(p)') \in Nat
        BY <1>8, <1>15, FewerCount
      <4>2. QED
        BY <1>4, <1>8, <3>1, <3>2, <4>1
    <3>4. ASSUME policy[t].limit > 0
          PROVE  Cardinality({e \in ends'[p] : e.end > f}) < policy[t].limit
      <4> DEFINE T == {e \in ends'[p] : e.end > f}
      <4>1. Cardinality(Recent(p)) >= policy[s].limit
        BY <1>3, <1>6 DEF IsFull
      <4>2. Cardinality(Recent(p)) > 0
        BY <1>4, <1>8, <3>1, <3>4, <4>1
      <4>3. Recent(p) # {}
        BY <4>2, FS_EmptySet
      <4>4. PICK o \in Recent(p) : o = Oldest(Recent(p))
        BY <1>8, <4>3, OldestIsOne
      <4>5. f = o.end
        BY <1>3, <1>5, <4>3, <4>4 DEF FreesAt
      <4>6. T \subseteq Recent(p) \ {o}
        BY <1>9, <1>11, <4>5
      <4> HIDE DEF T
      <4>7. /\ IsFiniteSet(Recent(p) \ {o})
            /\ Cardinality(Recent(p) \ {o}) = Cardinality(Recent(p)) - 1
        BY <1>8, FS_RemoveElement
      <4>8. Cardinality(T) <= Cardinality(Recent(p) \ {o}) /\ Cardinality(T) \in Nat
        BY <4>6, <4>7, FewerCount
      <4>9. Cardinality(T) < policy[t].limit
        BY <1>4, <1>8, <3>1, <3>2, <4>7, <4>8
      <4>10. QED
        BY <4>9 DEF T
    <3>5. QED
      BY <1>13, <2>1, <2>2, <2>3, <3>3, <3>4
  <2>4. CASE q # p
    <3>1. Recent(q)' \subseteq Recent(q) /\ resetAt'[q] = resetAt[q] /\ ends'[q] \subseteq ends[q]
      BY <1>9, <1>13, <1>15, <2>4
    <3>2. /\ Cardinality(Recent(q)') <= policy[t].limit
          /\ policy[t].limit > 0 /\ resetAt'[q] # 0 =>
                 Cardinality({e \in ends'[q] : e.end > resetAt'[q]}) < policy[t].limit
      BY <1>6, <2>1, <2>2, <3>1, PromisesStay
    <3>3. QED
      BY <2>1, <2>2, <3>2
  <2>5. QED
    BY <2>3, <2>4
<1>19. QED
  BY <1>15, <1>17, <1>18 DEF RateInv

\* A failing cache: what it lets through is in no log, and is one more for one more
\* failure.
LEMMA CacheThrowsKeeps ==
    ASSUME RateInv, NEW c \in Pending, CacheThrows(c)
    PROVE  RateInv'
<1> RateTypes /\ ChargesAreOfPassings /\ UnchargedByFailures /\ ScopesAreWithin /\ LogsAreWithin
  BY DEF RateInv
<1>1. /\ ahead[c] # << >> /\ throws' = throws + 1
      /\ policy' = policy /\ failOpen' = failOpen /\ minute' = minute
      /\ ends' = ends /\ resetAt' = resetAt
  BY DEF CacheThrows
<1>2. minute \in Nat /\ throws \in Nat /\ ends \in [Prefixes -> SUBSET Charges]
  BY DEF RateTypes
<1>3. CASE ~failOpen
  <2>1. ahead' = [ahead EXCEPT ![c] = << >>] /\ passed' = passed
    BY <1>3 DEF CacheThrows
  <2>2. ahead' \in [Pending -> Seq(Scopes)]
    BY <1>1, <2>1, AheadIsAScope DEF RateTypes
  <2>3. QED
    BY <1>1, <1>2, <2>1, <2>2, ShrunkLogsKeep
<1>4. CASE failOpen
  <2>1. PICK s \in Scopes : s = Head(ahead[c])
    BY <1>1, AheadIsAScope
  <2>2. PICK n \in Nat : n = Len(passed) + 1
    BY RateTyped
  <2>3. LetsThrough(s) /\ ahead' = [ahead EXCEPT ![c] = Tail(@)]
    BY <1>4, <2>1 DEF CacheThrows
  <2>4. /\ DOMAIN passed' = DOMAIN passed \cup {n} /\ n \notin DOMAIN passed
        /\ \A i \in DOMAIN passed : passed'[i] = passed[i] /\ EndOf(i)' = EndOf(i)
        /\ passed' \in Seq(Passings)
    BY <1>1, <2>2, <2>3, OneMorePasses
  <2>5. /\ Prefixes' = Prefixes /\ Passings' = Passings /\ Charges' = Charges
        /\ \A t \in Scopes : Prefix(t)' = Prefix(t) /\ Recent(Prefix(t))' = Recent(Prefix(t))
    BY <1>1 DEF Prefixes, Passings, Charges, Prefix, Recent
  <2>6. RateTypes'
    <3>1. ahead' \in [Pending -> Seq(Scopes)]
      BY <1>1, <2>3, AheadIsAScope DEF RateTypes
    <3>2. QED
      BY <1>1, <2>4, <2>5, <3>1 DEF RateTypes
  <2>7. ChargesAreOfPassings'
    <3> SUFFICES ASSUME NEW q \in Prefixes, NEW e \in ends[q]
                 PROVE  /\ e.nth \in DOMAIN passed' /\ Prefix(passed'[e.nth].scope) = q
                        /\ e.end = EndOf(e.nth)'
      BY <1>1, <2>5 DEF ChargesAreOfPassings, Prefix
    <3>1. e.nth \in DOMAIN passed /\ Prefix(passed[e.nth].scope) = q /\ e.end = EndOf(e.nth)
      BY DEF ChargesAreOfPassings
    <3>2. QED
      BY <2>4, <3>1
  <2>8. UnchargedByFailures'
    <3>1. Uncharged' \subseteq Uncharged \cup {n}
      <4> SUFFICES ASSUME NEW i \in DOMAIN passed', EndOf(i)' > minute, i # n,
                          \A e \in ends[Prefix(passed'[i].scope)] : e.nth # i
                   PROVE  i \in Uncharged
        BY <1>1 DEF Uncharged, Prefix
      <4>1. i \in DOMAIN passed /\ passed'[i] = passed[i] /\ EndOf(i)' = EndOf(i)
        BY <2>4
      <4>2. QED
        BY <4>1 DEF Uncharged
    <3>2. /\ IsFiniteSet(Uncharged) /\ Cardinality(Uncharged) \in Nat
          /\ Cardinality(Uncharged) <= throws
      BY <1>4, CountsAreFinite DEF UnchargedByFailures
    <3>3. /\ IsFiniteSet(Uncharged \cup {n})
          /\ Cardinality(Uncharged \cup {n}) <= Cardinality(Uncharged) + 1
      <4>1. /\ IsFiniteSet(Uncharged \cup {n})
            /\ Cardinality(Uncharged \cup {n}) =
                   IF n \in Uncharged THEN Cardinality(Uncharged) ELSE Cardinality(Uncharged) + 1
        BY <3>2, FS_AddElement
      <4>2. QED
        BY <3>2, <4>1
    <3>4. /\ Cardinality(Uncharged') <= Cardinality(Uncharged \cup {n})
          /\ Cardinality(Uncharged') \in Nat /\ Cardinality(Uncharged \cup {n}) \in Nat
      BY <3>1, <3>3, FewerCount
    <3>5. Cardinality(Uncharged') <= throws'
      BY <1>1, <1>2, <3>2, <3>3, <3>4
    <3>6. QED
      BY <1>1, <1>4, <3>5 DEF UnchargedByFailures
  <2>9. ScopesAreWithin'
    <3> SUFFICES ASSUME NEW t \in Scopes PROVE Cardinality(Counted(t)') <= policy[t].limit
      BY <1>1 DEF ScopesAreWithin
    <3>1. \A e \in Recent(Prefix(t)) : e.nth \in DOMAIN passed
      BY RateTyped DEF ChargesAreOfPassings
    <3>2. Counted(t)' = {e \in Recent(Prefix(t)) : passed'[e.nth].scope = t}
      BY <2>5 DEF Counted
    <3>3. Counted(t)' = Counted(t)
      BY <2>4, <3>1, <3>2 DEF Counted
    <3>4. QED
      BY <3>3 DEF ScopesAreWithin
  <2>10. LogsAreWithin'
    <3> SUFFICES ASSUME NEW t \in Scopes, Uniform(Prefix(t))'
                 PROVE  /\ Cardinality(Recent(Prefix(t))') <= policy[t].limit
                        /\ policy[t].limit > 0 /\ resetAt'[Prefix(t)] # 0 =>
                               Cardinality({e \in ends'[Prefix(t)] : e.end > resetAt'[Prefix(t)]})
                                   < policy[t].limit
      BY <1>1 DEF LogsAreWithin, Prefix
    <3>1. Uniform(Prefix(t))
      BY <1>1 DEF Uniform, Prefix
    <3>2. QED
      BY <1>1, <2>5, <3>1 DEF LogsAreWithin
  <2>11. QED
    BY <2>6, <2>7, <2>8, <2>9, <2>10 DEF RateInv
<1>5. QED
  BY <1>3, <1>4 DEF RateTypes

\* The limiter as it starts, at whatever time and after whatever failures.
EmptyLogs == /\ policy \in Policies /\ failOpen \in BOOLEAN
             /\ minute \in Nat /\ throws \in Nat
             /\ ends = [p \in Prefixes |-> {}]
             /\ ahead = [c \in Pending |-> << >>]
             /\ passed = << >>
             /\ resetAt = [p \in Prefixes |-> 0]

\* The limiter with empty logs and nothing let through has kept every limit.
LEMMA EmptyLogsKeep == EmptyLogs => RateInv
<1> SUFFICES ASSUME EmptyLogs PROVE RateInv
  OBVIOUS
<1> /\ policy \in Policies /\ failOpen \in BOOLEAN /\ minute \in Nat /\ throws \in Nat
    /\ ends = [p \in Prefixes |-> {}] /\ ahead = [c \in Pending |-> << >>]
    /\ passed = << >> /\ resetAt = [p \in Prefixes |-> 0]
  BY DEF EmptyLogs
<1>1. IsFiniteSet({}) /\ Cardinality({}) = 0
  BY FS_EmptySet
<1>2. << >> \in Seq(Passings) /\ << >> \in Seq(Scopes) /\ DOMAIN << >> = {}
  OBVIOUS
<1>3. \A s \in Scopes : Prefix(s) \in Prefixes
  BY DEF Prefix, Prefixes
<1>4. RateTypes
  BY <1>1, <1>2 DEF RateTypes
<1>5. ChargesAreOfPassings
  BY DEF ChargesAreOfPassings
<1>6. Uncharged = {}
  BY <1>2 DEF Uncharged
<1>7. UnchargedByFailures
  BY <1>1, <1>6 DEF UnchargedByFailures
<1>8. \A s \in Scopes : Recent(Prefix(s)) = {} /\ Counted(s) = {} /\ policy[s].limit \in Nat
  BY <1>3, RateWindowAssumption DEF Recent, Counted
<1>9. \A s \in Scopes : 0 <= policy[s].limit /\ resetAt[Prefix(s)] = 0
  BY <1>3, <1>8
<1>10. ScopesAreWithin /\ LogsAreWithin
  <2>1. \A s \in Scopes : Cardinality(Counted(s)) = 0 /\ Cardinality(Recent(Prefix(s))) = 0
    BY <1>1, <1>8
  <2>2. ScopesAreWithin
    BY <1>9, <2>1 DEF ScopesAreWithin
  <2>3. LogsAreWithin
    BY <1>9, <2>1 DEF LogsAreWithin
  <2>4. QED
    BY <2>2, <2>3
<1>11. QED
  BY <1>4, <1>5, <1>7, <1>10 DEF RateInv

\* The same of the state after a step.
LEMMA EmptiedLogsKeep == EmptyLogs' => RateInv'
  BY EmptyLogsKeep, PTL

\* Every step of the limiter keeps its invariant.
LEMMA RateNext ==
    ASSUME RateInv, [RateWindowNext]_rateVars
    PROVE  RateInv'
<1> RateTypes
  BY DEF RateInv
<1>1. /\ minute \in Nat /\ throws \in Nat /\ minute >= minute /\ throws >= throws
      /\ ends \in [Prefixes -> SUBSET Charges] /\ ahead \in [Pending -> Seq(Scopes)]
  BY DEF RateTypes
<1>2. ASSUME NEW c \in Pending, Arrive(c) PROVE RateInv'
  <2>1. /\ policy' = policy /\ failOpen' = failOpen /\ minute' = minute /\ throws' = throws
        /\ ends' = ends /\ resetAt' = resetAt /\ passed' = passed
    BY <1>2 DEF Arrive
  <2>2. \A route \in Routes : route \in Seq(Scopes)
    <3>1. "mutations" \in Scopes /\ "media" \in Scopes
      BY DEF Scopes
    <3>2. /\ <<"mutations">> \in Seq(Scopes) /\ <<"media">> \in Seq(Scopes)
          /\ <<"mutations", "media">> \in Seq(Scopes)
      BY <3>1
    <3>3. QED
      BY <3>2 DEF Routes
  <2>3. PICK route \in Routes : ahead' = [ahead EXCEPT ![c] = route]
    BY <1>2 DEF Arrive
  <2>4. ahead' \in [Pending -> Seq(Scopes)]
    BY <1>1, <2>2, <2>3
  <2>5. QED
    BY <1>1, <2>1, <2>4, ShrunkLogsKeep
<1>3. CASE Sweep
  <2>1. /\ policy' = policy /\ failOpen' = failOpen /\ minute' = minute /\ throws' = throws
        /\ resetAt' = resetAt /\ passed' = passed /\ ahead' = ahead
        /\ ends' = [p \in Prefixes |-> Recent(p)]
    BY <1>3 DEF Sweep
  <2>2. \A p \in Prefixes : Recent(p) \subseteq ends[p] /\ Recent(p) \subseteq Charges
    BY RateTyped
  <2>3. ends' \in [Prefixes -> SUBSET Charges]
    BY <2>1, <2>2
  <2>4. \A p \in Prefixes : /\ ends'[p] \subseteq ends[p]
                            /\ \A e \in ends[p] : e.end > minute' => e \in ends'[p]
    BY <2>1, <2>2 DEF Recent
  <2>5. QED
    BY <1>1, <2>1, <2>3, <2>4, ShrunkLogsKeep
<1>4. CASE Tick
  <2>1. /\ policy' = policy /\ failOpen' = failOpen /\ minute' = minute + 1 /\ throws' = throws
        /\ resetAt' = resetAt /\ passed' = passed /\ ahead' = ahead /\ ends' = ends
    BY <1>4 DEF Tick
  <2>2. minute' \in Nat /\ minute' >= minute
    BY <1>1, <2>1
  <2>3. QED
    BY <1>1, <2>1, <2>2, ShrunkLogsKeep
<1>5. CASE Restart
  <2>1. /\ policy' = policy /\ failOpen' = failOpen /\ minute' = minute /\ throws' = throws
        /\ ends' = [p \in Prefixes |-> {}] /\ ahead' = [c \in Pending |-> << >>]
        /\ passed' = << >> /\ resetAt' = [p \in Prefixes |-> 0]
        /\ policy \in Policies /\ failOpen \in BOOLEAN
    BY <1>5 DEF Restart, RateTypes
  <2>2. Prefixes' = Prefixes
    BY <2>1 DEF Prefixes
  <2>3. EmptyLogs'
    BY <1>1, <2>1, <2>2 DEF EmptyLogs
  <2>4. QED
    BY <2>3, EmptiedLogsKeep
<1>6. CASE UNCHANGED rateVars
  BY <1>1, <1>6, ShrunkLogsKeep DEF rateVars
<1>7. QED
  BY <1>2, <1>3, <1>4, <1>5, <1>6, ChargeKeeps, RefuseKeeps, CacheThrowsKeeps
     DEF RateWindowNext

\* What passed within a window is in the log under its prefix, or passed because the
\* cache failed open: that is within the limit and the failures.  At the time of the
\* reset what still counts has outlived the oldest charge, so the log has room.
LEMMA RateInvKeepsTheLimits ==
    ASSUME RateInv
    PROVE  LimitsAreKept
<1> RateTypes /\ ChargesAreOfPassings /\ UnchargedByFailures /\ ScopesAreWithin /\ LogsAreWithin
  BY DEF RateInv
<1>1. WindowsAreKept
  <2> SUFFICES ASSUME NEW s \in Scopes
               PROVE  Cardinality(InWindow(s))
                          <= policy[s].limit + (IF failOpen THEN throws ELSE 0)
    BY DEF WindowsAreKept
  <2> DEFINE C == Counted(s)
             N == {e.nth : e \in C}
             f == [e \in C |-> e.nth]
  <2>1. InWindow(s) \subseteq Uncharged \cup N
    <3> SUFFICES ASSUME NEW i \in DOMAIN passed, passed[i].scope = s,
                        passed[i].at + policy[s].window > minute, i \notin Uncharged
                 PROVE  \E e \in C : e.nth = i
      BY DEF InWindow
    <3>1. EndOf(i) > minute
      BY DEF EndOf
    <3>2. PICK e \in ends[Prefix(s)] : e.nth = i
      BY <3>1 DEF Uncharged
    <3>3. e.end = EndOf(i)
      BY <3>2, RateTyped DEF ChargesAreOfPassings
    <3>4. e \in C
      BY <3>1, <3>2, <3>3 DEF Counted, Recent
    <3>5. QED
      BY <3>2, <3>4
  <2>2. IsFiniteSet(C) /\ Cardinality(C) \in Nat
    BY CountsAreFinite
  <2>3. Cardinality(C) <= policy[s].limit /\ policy[s].limit \in Nat
    BY RateTyped DEF ScopesAreWithin
  <2> HIDE DEF C
  <2>4. f \in Surjection(C, N)
    BY DEF Surjection
  <2> HIDE DEF f, N
  <2>5. IsFiniteSet(N) /\ Cardinality(N) <= Cardinality(C)
    BY <2>2, <2>4, FS_Surjection
  <2>6. Cardinality(N) \in Nat
    BY <2>5, FS_CardinalityType
  <2>7. IsFiniteSet(Uncharged) /\ Cardinality(Uncharged) \in Nat
    BY CountsAreFinite
  <2>8. /\ IsFiniteSet(Uncharged \cup N)
        /\ Cardinality(Uncharged \cup N) <= Cardinality(Uncharged) + Cardinality(N)
    <3>1. /\ IsFiniteSet(Uncharged \cup N)
          /\ Cardinality(Uncharged \cup N) =
                 Cardinality(Uncharged) + Cardinality(N) - Cardinality(Uncharged \cap N)
      BY <2>5, <2>7, FS_Union
    <3>2. Cardinality(Uncharged \cap N) \in Nat
      BY <2>7, FewerCount
    <3>3. QED
      BY <2>6, <2>7, <3>1, <3>2
  <2>9. /\ Cardinality(InWindow(s)) <= Cardinality(Uncharged \cup N)
        /\ Cardinality(InWindow(s)) \in Nat /\ Cardinality(Uncharged \cup N) \in Nat
    BY <2>1, <2>8, FewerCount
  <2>10. PICK m : m = IF failOpen THEN throws ELSE 0
    OBVIOUS
  <2>11. m \in Nat /\ Cardinality(Uncharged) <= m
    BY <2>10 DEF UnchargedByFailures, RateTypes
  <2>12. Cardinality(InWindow(s)) <= policy[s].limit + m
    BY <2>2, <2>3, <2>5, <2>6, <2>7, <2>8, <2>9, <2>11
  <2>13. QED
    BY <2>10, <2>12
<1>2. ResetsAreTrue
  <2> SUFFICES ASSUME NEW s \in Scopes, Uniform(Prefix(s)), policy[s].limit > 0,
                      resetAt[Prefix(s)] # 0, minute >= resetAt[Prefix(s)]
               PROVE  ~(Cardinality(Recent(Prefix(s))) >= policy[s].limit)
    BY DEF ResetsAreTrue, IsFull
  <2>1. PICK p \in Prefixes : p = Prefix(s)
    BY RateTyped
  <2> DEFINE T == {e \in ends[p] : e.end > resetAt[p]}
  <2>2. Cardinality(T) < policy[s].limit
    BY <2>1 DEF LogsAreWithin
  <2>3. resetAt[p] \in Nat /\ minute \in Nat
    BY DEF RateTypes
  <2>4. Recent(p) \subseteq T
    <3> SUFFICES ASSUME NEW e \in ends[p], e.end > minute PROVE e.end > resetAt[p]
      BY DEF Recent
    <3>1. e.end \in Nat
      BY RateTyped DEF Charges
    <3>2. QED
      BY <2>1, <2>3, <3>1
  <2>5. T \subseteq ends[p] /\ IsFiniteSet(ends[p])
    BY RateTyped
  <2> HIDE DEF T
  <2>6. IsFiniteSet(T)
    BY <2>5, FewerCount
  <2>7. /\ Cardinality(Recent(p)) <= Cardinality(T)
        /\ Cardinality(Recent(p)) \in Nat /\ Cardinality(T) \in Nat
    BY <2>4, <2>6, FewerCount
  <2>8. policy[s].limit \in Nat
    BY RateTyped
  <2>9. QED
    BY <2>1, <2>2, <2>7, <2>8
<1>3. QED
  BY <1>1, <1>2 DEF LimitsAreKept

\* The limiter keeps to its windows and to its word, whatever the limits, the windows,
\* the scopes that share a prefix, the requests in flight and the failures of the cache
\* (packages/plugins/rate-limit, checkRateLimit of the memory cache).
THEOREM LimitsStayKept == RateWindowSpec => []LimitsAreKept
<1>1. RateWindowInit => RateInv
  <2> SUFFICES ASSUME RateWindowInit PROVE RateInv
    OBVIOUS
  <2>1. minute \in Nat /\ throws \in Nat
    BY DEF RateWindowInit
  <2>2. QED
    BY <2>1, EmptyLogsKeep DEF RateWindowInit, EmptyLogs
<1>2. RateInv /\ [RateWindowNext]_rateVars => RateInv'
  BY RateNext
<1>3. RateInv => LimitsAreKept
  BY RateInvKeepsTheLimits
<1>4. QED
  BY <1>1, <1>2, <1>3, PTL DEF RateWindowSpec
=============================================================================
