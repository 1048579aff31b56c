------------------------------ MODULE ApiKeys ------------------------------
(***************************************************************************)
(* The life of API keys: minted, refreshed (a successor is created, then   *)
(* the old row is marked), revoked one by one or by a sweep, cleaned up    *)
(* once stale; and the first key of an empty table, which the plugin       *)
(* creates while it boots and hands over through the channel it finds.     *)
(*                                                                         *)
(* Every call is the sequence of its database calls; other calls run in    *)
(* between, and a call or a boot may end after any of them, undone         *)
(* nowhere.  Keys are numbered in the order of their creation.               *)
(***************************************************************************)
EXTENDS Integers, FiniteSets

CONSTANTS
    MaxKeys,    \* keys ever created
    Calls,      \* calls of the token service in flight at one time
    Boots,      \* processes that install the plugin, each once at a time
    Budgets,    \* how many calls and boots there may be: pairs of bounds
    KeyPage     \* rows a list returns: 100, whatever limit is asked for

ASSUME ApiKeysAssumption == /\ MaxKeys \in Nat
                            /\ Budgets \subseteq Nat \X Nat
                            /\ KeyPage \in Nat \ {0}

KeyIds == 1..MaxKeys
NoKey == 0

VARIABLES
    keyState,   \* "unused", "live", "revoked" or "deleted"
    replacedBy, \* the column of that name
    age,        \* "new", "old": created before the threshold of cleanup,
                \* or "lapsed": even expired before it
    call,       \* what each call is doing
    calls,      \* calls still to come
    boot,       \* what each boot is doing
    boots,      \* boots still to come
    rootRoles,  \* rows of the root role
    keyFile,    \* there is a .cms-bootstrap-key
    heirOf,     \* heirOf[k]: the key that k was created to replace (history)
    raced,      \* keys refreshed again before a refresh of theirs had ended, or
                \* after one that died (history)
    held,       \* keys whose token was handed over (history)
    dropped     \* keys of boots that ended before handing them over (history)

rowVars == <<keyState, replacedBy, age>>
bootVars == <<boot, boots, rootRoles, keyFile>>
historyVars == <<heirOf, raced, held, dropped>>
apiKeyVars == <<rowVars, call, calls, bootVars, historyVars>>

Call(op, pc, k, new, todo, all) ==
    [op |-> op, pc |-> pc, key |-> k, new |-> new, todo |-> todo, all |-> all]

NoCall == Call("none", "idle", NoKey, NoKey, {}, {})
NoBoot == [pc |-> "off", key |-> NoKey]

ApiKeysInit == /\ keyState = [k \in KeyIds |-> "unused"]
               /\ replacedBy = [k \in KeyIds |-> NoKey]
               /\ age = [k \in KeyIds |-> "new"]
               /\ call = [c \in Calls |-> NoCall]
               /\ \E bound \in Budgets : calls = bound[1] /\ boots = bound[2]
               /\ boot = [b \in Boots |-> NoBoot]
               /\ rootRoles = 0
               /\ keyFile \in BOOLEAN
               /\ heirOf = [k \in KeyIds |-> NoKey]
               /\ raced = {}
               /\ held = {}
               /\ dropped = {}

In(states) == {k \in KeyIds : keyState[k] \in states}

Stored == In({"live", "revoked"})

IsNext(k) == /\ k \in In({"unused"})
             /\ \A j \in In({"unused"}) : k <= j

\* The default order of a list: newest first with SQL, oldest first in memory.
FirstPage(S, P) ==
    \/ P = {k \in S : Cardinality({j \in S : j > k}) < KeyPage}
    \/ P = {k \in S : Cardinality({j \in S : j < k}) < KeyPage}

Answered(c) == call' = [call EXCEPT ![c] = NoCall]

Accept(c) == /\ call[c].pc = "idle"
             /\ calls > 0
             /\ calls' = calls - 1

-----------------------------------------------------------------------------
(* createToken, refresh and the two revocations by token or id. *)

CreateToken(c) ==
    /\ Accept(c)
    /\ \E k \in KeyIds : /\ IsNext(k)
                       /\ keyState' = [keyState EXCEPT ![k] = "live"]
                       /\ held' = held \cup {k}
    /\ UNCHANGED <<replacedBy, age, call, bootVars, heirOf, raced, dropped>>

Refreshing(k) == {c \in Calls : call[c].op = "refresh" /\ call[c].key = k}

\* The row is found and live; otherwise refresh answers with the reason.
RefreshFinds(c) ==
    /\ Accept(c)
    /\ \E k \in In({"live"}) :
           /\ call' = [call EXCEPT ![c] = Call("refresh", "create", k, NoKey, {}, {})]
           /\ raced' = IF Refreshing(k) = {} THEN raced ELSE raced \cup {k}
    /\ UNCHANGED <<rowVars, bootVars, heirOf, held, dropped>>

RefreshCreates(c) ==
    /\ call[c].pc = "create"
    /\ \E k \in KeyIds : /\ IsNext(k)
                       /\ keyState' = [keyState EXCEPT ![k] = "live"]
                       /\ heirOf' = [heirOf EXCEPT ![k] = call[c].key]
                       /\ call' = [call EXCEPT ![c].pc = "mark", ![c].new = k]
    /\ UNCHANGED <<replacedBy, age, calls, bootVars, raced, held, dropped>>

\* Variants with a bug: the old row stays live, or an upsert brings back a row
\* that is gone.
RefreshForgetsToRevoke(c) ==
    /\ call[c].pc = "mark"
    /\ replacedBy' = [replacedBy EXCEPT ![call[c].key] = call[c].new]
    /\ held' = held \cup {call[c].new}
    /\ Answered(c)
    /\ UNCHANGED <<keyState, age, calls, bootVars, heirOf, raced, dropped>>

InvalidateInserts(c) ==
    /\ call[c].pc = "revoke"
    /\ keyState' = [keyState EXCEPT ![call[c].key] = "revoked"]
    /\ Answered(c)
    /\ UNCHANGED <<replacedBy, age, calls, bootVars, historyVars>>

\* update throws when the row is gone: a 500, and the new token is not handed over.
RefreshMarks(c) ==
    /\ call[c].pc = "mark"
    /\ IF call[c].key \in Stored
       THEN /\ keyState' = [keyState EXCEPT ![call[c].key] = "revoked"]
            /\ replacedBy' = [replacedBy EXCEPT ![call[c].key] = call[c].new]
            /\ held' = held \cup {call[c].new}
       ELSE UNCHANGED <<keyState, replacedBy, held>>
    /\ Answered(c)
    /\ UNCHANGED <<age, calls, bootVars, heirOf, raced, dropped>>

\* invalidate and invalidateById look at nothing but whether the row exists.
InvalidateFinds(c) ==
    /\ Accept(c)
    /\ \E k \in Stored :
           call' = [call EXCEPT ![c] = Call("invalidate", "revoke", k, NoKey, {}, {})]
    /\ UNCHANGED <<rowVars, bootVars, historyVars>>

InvalidateRevokes(c) ==
    /\ call[c].pc = "revoke"
    /\ keyState' = IF call[c].key \in Stored
                   THEN [keyState EXCEPT ![call[c].key] = "revoked"] ELSE keyState
    /\ Answered(c)
    /\ UNCHANGED <<replacedBy, age, calls, bootVars, historyVars>>

-----------------------------------------------------------------------------
(* invalidateAll and cleanup: a page, then its rows one after the other. *)

SweepPage(P) == FirstPage(In({"live"}), P)

SweepLists(c) ==
    /\ Accept(c)
    /\ \E P \in SUBSET In({"live"}) :
           /\ SweepPage(P)
           /\ call' = [call EXCEPT ![c] =
                  Call("sweep", "sweep", NoKey, NoKey, P, In({"live"}))]
    /\ UNCHANGED <<rowVars, bootVars, historyVars>>

\* An update of a row deleted meanwhile throws and ends the sweep.
SweepRevokes(c) ==
    /\ call[c].pc = "sweep"
    /\ \E k \in call[c].todo :
           IF k \in Stored
           THEN /\ keyState' = [keyState EXCEPT ![k] = "revoked"]
                /\ call' = [call EXCEPT ![c].todo = @ \ {k}]
           ELSE Answered(c) /\ UNCHANGED keyState
    /\ UNCHANGED <<replacedBy, age, calls, bootVars, historyVars>>

SweepEnds(c) ==
    /\ call[c].pc = "sweep" /\ call[c].todo = {}
    /\ Answered(c)
    /\ UNCHANGED <<rowVars, calls, bootVars, historyVars>>

\* Stale: revoked and created before the threshold, or expired before it.
ToDelete(k) == \/ age[k] = "lapsed"
               \/ age[k] = "old" /\ keyState[k] = "revoked"

CleanupLists(c) ==
    /\ Accept(c)
    /\ \E P \in SUBSET Stored :
           /\ FirstPage(Stored, P)
           /\ call' = [call EXCEPT ![c] =
                  Call("cleanup", "cleanup", NoKey, NoKey, {k \in P : ToDelete(k)}, {})]
    /\ UNCHANGED <<rowVars, bootVars, historyVars>>

CleanupDeletes(c) ==
    /\ call[c].pc = "cleanup"
    /\ \E k \in call[c].todo :
           /\ keyState' = [keyState EXCEPT ![k] = "deleted"]
           /\ call' = [call EXCEPT ![c].todo = @ \ {k}]
    /\ UNCHANGED <<replacedBy, age, calls, bootVars, historyVars>>

CleanupEnds(c) ==
    /\ call[c].pc = "cleanup" /\ call[c].todo = {}
    /\ Answered(c)
    /\ UNCHANGED <<rowVars, calls, bootVars, historyVars>>

\* Time passes for a row; what it means depends on the row's expiresAt.
Ages(k) == /\ k \in Stored
           /\ age[k] # "lapsed"
           /\ \E a \in {"old", "lapsed"} \ {age[k]} : age' = [age EXCEPT ![k] = a]
           /\ UNCHANGED <<keyState, replacedBy, call, calls, bootVars, historyVars>>

\* The call ends where it is: a database error, or the process is gone.
CallDies(c) == /\ call[c].pc # "idle"
               /\ raced' = IF call[c].pc = "mark" THEN raced \cup {call[c].key} ELSE raced
               /\ Answered(c)
               /\ UNCHANGED <<rowVars, calls, bootVars, heirOf, held, dropped>>

-----------------------------------------------------------------------------
(* runBootstrap: the first key of an empty table. *)

BootAt(b, pc) == boot' = [boot EXCEPT ![b] = [pc |-> pc, key |-> NoKey]]

\* The bug of an unconditional skip once the role is there.
BootSkipsOnRole(b) == /\ boot[b].pc = "off"
                      /\ boots > 0
                      /\ boots' = boots - 1
                      /\ BootAt(b, IF Stored # {} \/ rootRoles # 0 THEN "up" ELSE "role")
                      /\ UNCHANGED <<rowVars, call, calls, rootRoles, keyFile, historyVars>>

\* Any row will do, revoked or not.
BootChecks(b) == /\ boot[b].pc = "off"
                 /\ boots > 0
                 /\ boots' = boots - 1
                 /\ BootAt(b, IF Stored # {} THEN "up" ELSE "role")
                 /\ UNCHANGED <<rowVars, call, calls, rootRoles, keyFile, historyVars>>

BootFindsRole(b) == /\ boot[b].pc = "role"
                    /\ BootAt(b, IF rootRoles = 0 THEN "addRole" ELSE "persist")
                    /\ UNCHANGED <<rowVars, call, calls, boots, rootRoles, keyFile, historyVars>>

BootAddsRole(b) == /\ boot[b].pc = "addRole"
                   /\ rootRoles' = rootRoles + 1
                   /\ BootAt(b, "persist")
                   /\ UNCHANGED <<rowVars, call, calls, boots, keyFile, historyVars>>

Mint(k) == /\ IsNext(k)
           /\ keyState' = [keyState EXCEPT ![k] = "live"]

\* With a callback or a file system the row comes before the hand-over.
BootPersists(b) ==
    /\ boot[b].pc = "persist"
    /\ \E k \in KeyIds, pc \in {"callback", "file"} :
           Mint(k) /\ boot' = [boot EXCEPT ![b] = [pc |-> pc, key |-> k]]
    /\ UNCHANGED <<replacedBy, age, call, calls, boots, rootRoles, keyFile, historyVars>>

\* No file system at all: straight to the key in the environment.
BootHasNoFiles(b) == /\ boot[b].pc = "persist"
                     /\ BootAt(b, "env")
                     /\ UNCHANGED <<rowVars, call, calls, boots, rootRoles, keyFile, historyVars>>

HandsOver(b) == /\ held' = held \cup {boot[b].key}
                /\ BootAt(b, "up")

\* The callback may throw (BootDies).
BootCalls(b) == /\ boot[b].pc = "callback"
                /\ HandsOver(b)
                /\ UNCHANGED <<rowVars, call, calls, boots, rootRoles, keyFile, heirOf, raced, dropped>>

\* An existing file is never overwritten: the throw leaves the row behind.
BootWrites(b) ==
    /\ boot[b].pc = "file"
    /\ IF keyFile
       THEN BootAt(b, "off") /\ dropped' = dropped \cup {boot[b].key} /\ UNCHANGED <<held, keyFile>>
       ELSE HandsOver(b) /\ keyFile' = TRUE /\ UNCHANGED dropped
    /\ UNCHANGED <<rowVars, call, calls, boots, rootRoles, heirOf, raced>>

\* EROFS or EACCES: on to the environment, with the row in place.
BootIsReadOnly(b) == /\ boot[b].pc = "file"
                     /\ dropped' = dropped \cup {boot[b].key}
                     /\ BootAt(b, "env")
                     /\ UNCHANGED <<rowVars, call, calls, boots, rootRoles, keyFile, heirOf, raced, held>>

\* CMS_BOOTSTRAP_KEY is set, and known to who set it; or the boot throws.
BootTakesEnv(b) ==
    /\ boot[b].pc = "env"
    /\ \/ \E k \in KeyIds : Mint(k) /\ held' = held \cup {k} /\ BootAt(b, "up")
       \/ BootAt(b, "off") /\ UNCHANGED <<keyState, held>>
    /\ UNCHANGED <<replacedBy, age, call, calls, boots, rootRoles, keyFile, heirOf, raced, dropped>>

BootDies(b) == /\ boot[b].pc \notin {"off"}
               /\ BootAt(b, "off")
               /\ dropped' = IF boot[b].key = NoKey THEN dropped ELSE dropped \cup {boot[b].key}
               /\ UNCHANGED <<rowVars, call, calls, boots, rootRoles, keyFile, heirOf, raced, held>>

ApiKeysNext ==
    \/ \E c \in Calls :
          \/ CreateToken(c)
          \/ RefreshFinds(c) \/ RefreshCreates(c) \/ RefreshMarks(c)
          \/ InvalidateFinds(c) \/ InvalidateRevokes(c)
          \/ SweepLists(c) \/ SweepRevokes(c) \/ SweepEnds(c)
          \/ CleanupLists(c) \/ CleanupDeletes(c) \/ CleanupEnds(c)
          \/ CallDies(c)
    \/ \E k \in KeyIds : Ages(k)
    \/ \E b \in Boots :
          \/ BootChecks(b) \/ BootFindsRole(b) \/ BootAddsRole(b)
          \/ BootPersists(b) \/ BootHasNoFiles(b)
          \/ BootCalls(b) \/ BootWrites(b) \/ BootIsReadOnly(b) \/ BootTakesEnv(b)
          \/ BootDies(b)

ApiKeysSpec == ApiKeysInit /\ [][ApiKeysNext]_apiKeyVars

-----------------------------------------------------------------------------

\* A key that is revoked never comes back to life, nor does a deleted one: every
\* call writes its own columns and none puts back a row it read before an await.
\* And whatever happens between the list of cleanup and its deletions, no key is
\* deleted that is neither revoked nor long expired.
KeysEndForGood ==
    [][\A k \in KeyIds :
          /\ keyState[k] = "revoked" => keyState'[k] \in {"revoked", "deleted"}
          /\ keyState[k] = "deleted" => keyState'[k] = "deleted"
          /\ keyState[k] = "live" /\ keyState'[k] = "deleted" => age[k] = "lapsed"]_apiKeyVars

Heirs(k) == {j \in KeyIds : heirOf[j] = k}

\* Refreshing is linear unless refreshes of one token overlap or one dies half
\* way: a key has one successor, it names it, and the two are not both live
\* (tokens.ts refresh).
RotationIsLinear ==
    \A k \in KeyIds : Heirs(k) # {} /\ k \notin raced =>
        /\ Cardinality(Heirs(k)) = 1
        /\ Refreshing(k) = {} /\ keyState[k] # "deleted" =>
               keyState[k] = "revoked" /\ replacedBy[k] \in Heirs(k)

\* A sweep that reached its end revoked every key that was live when it began,
\* as long as they fit on one page: rows revoked earlier take no room on it.
SweepIsCompleteWithinPage ==
    \A c \in Calls : /\ call[c].pc = "sweep" /\ call[c].todo = {}
                     /\ Cardinality(call[c].all) <= KeyPage
                     => \A k \in call[c].all : keyState[k] # "live"

\* What refresh and invalidateAll say they have done is done.
CallsAreWhole == RotationIsLinear /\ SweepIsCompleteWithinPage

\* Nobody is left without a key by a boot that went well: a process that is up
\* over a table with rows, of which nobody holds a token, follows a boot that
\* ended, or found no way to hand its key over, after it had stored the row.
LockoutFollowsALostKey ==
    (\E b \in Boots : boot[b].pc = "up") /\ held = {} =>
        dropped # {} \/ \E b \in Boots : boot[b].key # NoKey
=============================================================================
