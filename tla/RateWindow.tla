----------------------------- MODULE RateWindow -----------------------------
(***************************************************************************)
(* The rate-limit plugin over the sliding log of the memory cache.  A      *)
(* request passes the middleware of every scope that guards its route, one *)
(* after the other, and each charges the window of its prefix; the call of *)
(* the cache is awaited, so requests interleave between middlewares.  The  *)
(* log of a prefix is the set of its charges: when each one ends, and as   *)
(* the how manieth it let a request through, which is their order in it.   *)
(* One client is modelled: every client has logs of its own.               *)
(***************************************************************************)
EXTENDS Integers, Sequences, FiniteSets

CONSTANTS
    Pending,     \* requests of the client in flight at one time
    Policies,    \* configurations of the plugin: by scope, prefix, limit and window
    MaxPending,  \* bound on the requests
    MaxThrows,   \* bound on the failures of the cache
    MaxMinute    \* bound on the clock

Scopes == {"mutations", "media"}

ASSUME RateWindowAssumption ==
    /\ \A p \in Policies, s \in Scopes : p[s].limit \in Nat /\ p[s].window \in Nat \ {0}
    /\ MaxPending \in Nat /\ MaxThrows \in Nat /\ MaxMinute \in Nat

VARIABLES
    policy,    \* the configuration
    failOpen,  \* a failing cache lets requests through
    minute,    \* the clock
    ends,      \* by prefix, the log, of charges [nth, end]
    ahead,     \* by request, the scopes whose middleware is still ahead
    requested, \* requests so far
    throws,    \* failures of the cache so far
    passed,    \* by which scopes requests were let through, and when (history variable)
    resetAt    \* by prefix, what the last refusal promised, 0 if a request was let
               \* through since (history variable)

rateVars == <<policy, failOpen, minute, ends, ahead, requested, throws, passed, resetAt>>

Prefix(s) == policy[s].prefix
Prefixes == {policy[s].prefix : s \in Scopes}

\* A write to content, a read of media, and a write to media, which both scopes guard.
Routes == {<<"mutations">>, <<"media">>, <<"mutations", "media">>}

RateWindowInit ==
    /\ policy \in Policies
    /\ failOpen \in BOOLEAN
    /\ minute = 0
    /\ ends = [p \in Prefixes |-> {}]
    /\ ahead = [c \in Pending |-> << >>]
    /\ requested = 0
    /\ throws = 0
    /\ passed = << >>
    /\ resetAt = [p \in Prefixes |-> 0]

Arrive(c) == /\ ahead[c] = << >>
             /\ requested < MaxPending
             /\ requested' = requested + 1
             /\ \E route \in Routes : ahead' = [ahead EXCEPT ![c] = route]
             /\ UNCHANGED <<policy, failOpen, minute, ends, throws, passed, resetAt>>

\* Mutant: a charge still counts at the moment it ends.
RecentOrEnding(p) == {e \in ends[p] : e.end >= minute}

\* timestamps.filter((timestamp) => timestamp > now)
Recent(p) == {e \in ends[p] : e.end > minute}

\* recent[0]
Oldest(charges) == CHOOSE e \in charges : \A f \in charges : e.nth <= f.nth

\* resetAt: when the oldest charge that counts ends.
FreesAt(s) == IF Recent(Prefix(s)) = {} THEN minute + policy[s].window
              ELSE Oldest(Recent(Prefix(s))).end

IsFull(s) == Cardinality(Recent(Prefix(s))) >= policy[s].limit

LetsThrough(s) == passed' = Append(passed, [scope |-> s, at |-> minute])

\* checkRateLimit, within the limit: on to the next middleware.
Charge(c) ==
    /\ ahead[c] # << >>
    /\ LET s == Head(ahead[c])
           p == Prefix(s)
       IN  /\ ~IsFull(s)
           /\ ends' = [ends EXCEPT ![p] = Recent(p) \cup
                          {[nth |-> Len(passed) + 1, end |-> minute + policy[s].window]}]
           /\ LetsThrough(s)
           /\ resetAt' = [resetAt EXCEPT ![p] = 0]
           /\ ahead' = [ahead EXCEPT ![c] = Tail(@)]
    /\ UNCHANGED <<policy, failOpen, minute, requested, throws>>

\* checkRateLimit, above the limit: 429 with the time of the reset.
Refuse(c) ==
    /\ ahead[c] # << >>
    /\ LET s == Head(ahead[c])
           p == Prefix(s)
       IN  /\ IsFull(s)
           /\ ends' = [ends EXCEPT ![p] = Recent(p)]
           /\ resetAt' = [resetAt EXCEPT ![p] = FreesAt(s)]
           /\ ahead' = [ahead EXCEPT ![c] = << >>]
    /\ UNCHANGED <<policy, failOpen, minute, requested, throws, passed>>

\* The cache has no limiter, or throws: on if the plugin fails open, 429 if not.
CacheThrows(c) ==
    /\ ahead[c] # << >>
    /\ throws < MaxThrows
    /\ throws' = throws + 1
    /\ IF failOpen
       THEN /\ LetsThrough(Head(ahead[c]))
            /\ ahead' = [ahead EXCEPT ![c] = Tail(@)]
       ELSE /\ ahead' = [ahead EXCEPT ![c] = << >>]
            /\ UNCHANGED passed
    /\ UNCHANGED <<policy, failOpen, minute, ends, requested, resetAt>>

\* The timer of the memory cache drops the charges that have ended.
Sweep == /\ \E p \in Prefixes : Recent(p) # ends[p]
         /\ ends' = [p \in Prefixes |-> Recent(p)]
         /\ UNCHANGED <<policy, failOpen, minute, ahead, requested, throws, passed, resetAt>>

Tick == /\ minute < MaxMinute
        /\ minute' = minute + 1
        /\ UNCHANGED <<policy, failOpen, ends, ahead, requested, throws, passed, resetAt>>

\* The logs are in the process: they begin anew with it.
Restart == /\ \E p \in Prefixes : ends[p] # {}
           /\ ends' = [p \in Prefixes |-> {}]
           /\ ahead' = [c \in Pending |-> << >>]
           /\ passed' = << >>
           /\ resetAt' = [p \in Prefixes |-> 0]
           /\ UNCHANGED <<policy, failOpen, minute, requested, throws>>

RateWindowNext == \/ \E c \in Pending : Arrive(c) \/ Charge(c) \/ Refuse(c) \/ CacheThrows(c)
                  \/ Sweep \/ Tick \/ Restart

RateWindowSpec == RateWindowInit /\ [][RateWindowNext]_rateVars

-----------------------------------------------------------------------------

InWindow(s) == {i \in DOMAIN passed : passed[i].scope = s
                                      /\ passed[i].at + policy[s].window > minute}

\* However requests and sweeps interleave, no window of a scope holds more requests than
\* its limit, and one more for each failure of a cache that fails open; a prefix shared
\* with another scope only makes the window narrower (checkRateLimit).
WindowsAreKept ==
    \A s \in Scopes :
        Cardinality(InWindow(s)) <= policy[s].limit + (IF failOpen THEN throws ELSE 0)

\* One limit and one window are counted under the prefix.
Uniform(p) == \A s, t \in Scopes : Prefix(s) = p /\ Prefix(t) = p => policy[s] = policy[t]

\* A client that was refused and comes back at the time it was told is not refused
\* again, if no request came before it; scopes that share a prefix and not the window
\* can break that promise (resetAt, Retry-After).
ResetsAreTrue ==
    \A s \in Scopes :
        LET p == Prefix(s)
        IN  Uniform(p) /\ policy[s].limit > 0 /\ resetAt[p] # 0 /\ minute >= resetAt[p]
            => ~IsFull(s)

\* The limiter keeps to its windows and to its word.
LimitsAreKept == WindowsAreKept /\ ResetsAreTrue
=============================================================================
