----------------------------- MODULE MCPlugins -----------------------------
(* Plugins that keep rows or jobs of their own (drafts, API tokens,         *)
(* translations, the job runtime), the walks over the pages of a list, and  *)
(* the rate limits in front of them.                                        *)
(* They are looked at one at a time: `part' says which one moves.           *)
EXTENDS MCDrafts, ApiKeys, Translations, Jobs, Paging, RateWindow

VARIABLE part

MCBudgets == {<<4, 0>>, <<1, 3>>}

\* A limit for each scope, one shared by both, and two under one prefix.
Policy(p, q) == [s \in Scopes |-> IF s = "media" THEN q ELSE p]
Rate(prefix, limit, window) == [prefix |-> prefix, limit |-> limit, window |-> window]

MCPolicies == {Policy(Rate("mutations", 2, 2), Rate("media", 1, 1)),
               Policy(Rate("all", 2, 2), Rate("all", 2, 2)),
               Policy(Rate("all", 2, 2), Rate("all", 1, 1))}

\* A part that is not looked at has one beginning.
MCInit == /\ Init /\ ApiKeysInit /\ TranslationsInit /\ JobsInit /\ PagingInit
          /\ RateWindowInit
          /\ part \in {"drafts", "tokens", "i18n", "jobs", "paging", "rates"}
          /\ part # "drafts" => promoter = "drafts" /\ \A d \in Docs : status[d] = "gone"
          /\ part # "tokens" => boots = 0 /\ ~keyFile
          /\ part # "i18n" => store = "memory"
          /\ part # "jobs" => adapter = "memory"
          /\ part # "paging" => walk = "memory"
          /\ part # "rates" => failOpen /\ policy = CHOOSE p \in Policies : TRUE

MCNext ==
    \/ part = "drafts" /\ Next
       /\ UNCHANGED <<apiKeyVars, translationVars, jobsVars, pagingVars, rateVars, part>>
    \/ part = "tokens" /\ ApiKeysNext
       /\ UNCHANGED <<vars, translationVars, jobsVars, pagingVars, rateVars, part>>
    \/ part = "i18n" /\ TranslationsNext
       /\ UNCHANGED <<vars, apiKeyVars, jobsVars, pagingVars, rateVars, part>>
    \/ part = "jobs" /\ JobsNext
       /\ UNCHANGED <<vars, apiKeyVars, translationVars, pagingVars, rateVars, part>>
    \/ part = "paging" /\ PagingNext
       /\ UNCHANGED <<vars, apiKeyVars, translationVars, jobsVars, rateVars, part>>
    \/ part = "rates" /\ RateWindowNext
       /\ UNCHANGED <<vars, apiKeyVars, translationVars, jobsVars, pagingVars, part>>

MCSpec == MCInit /\ [][MCNext]_<<vars, apiKeyVars, translationVars, jobsVars, pagingVars, rateVars, part>>
=============================================================================
