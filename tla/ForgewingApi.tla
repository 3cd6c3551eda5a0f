---------------------------- MODULE ForgewingApi ----------------------------
(***************************************************************************)
(* The client of the Forgewing API (capabilities/forgewing_api): calls of  *)
(* several threads share one cached key, which the platform rotates; a     *)
(* refused call drops the cached key and is sent once more if another key  *)
(* could be fetched.  The look at the cache, the fetch, what is stored of  *)
(* it and the key that is then read are four points the threads share.     *)
(***************************************************************************)
EXTENDS Naturals

CONSTANTS Caller,    \* the threads that call the API
          Rotations  \* bound: how often the platform rotates the key

VARIABLES
    keyInForce,  \* the key the platform accepts; keys are numbered, 0 is none
    keyCache,    \* _api_key_cache, as a set: empty, or a key, no key if fetching failed
    apiCall,     \* per caller, where its call is and the keys it holds
    disturbed    \* the callers whose call met a rotation, a bad store or a dropped cache

apiVars == <<keyInForce, keyCache, apiCall, disturbed>>

NoKey == 0

NoCall == [at |-> "idle", again |-> FALSE, fetched |-> NoKey, key |-> NoKey, answer |-> "none"]

ApiInit ==
    /\ keyInForce = 1
    /\ keyCache = {}
    /\ apiCall = [c \in Caller |-> NoCall]
    /\ disturbed = {}

AtRest == {"idle", "done"}

CallIs(c, place) == apiCall[c].at = place
UnderWay == {c \in Caller : apiCall[c].at \notin AtRest}

CallBecomes(c, record) == apiCall' = [apiCall EXCEPT ![c] = record]
CallGoes(c, place) == CallBecomes(c, [apiCall[c] EXCEPT !.at = place])
CallEnds(c, answer) == CallBecomes(c, [NoCall EXCEPT !.at = "done", !.answer = answer])

StartCall(c) ==
    /\ apiCall[c].at \in AtRest
    /\ CallBecomes(c, [NoCall EXCEPT !.at = "look"])
    /\ disturbed' = disturbed \ {c}
    /\ UNCHANGED <<keyInForce, keyCache>>

-----------------------------------------------------------------------------
(* _get_api_key                                                            *)

LooksUp(c) ==
    /\ CallIs(c, "look")
    /\ CallGoes(c, IF keyCache = {} THEN "fetch" ELSE "read")
    /\ UNCHANGED <<keyInForce, keyCache, disturbed>>

\* get_secret_value, which may fail.
Fetches(c) ==
    /\ CallIs(c, "fetch")
    /\ \E k \in {keyInForce, NoKey} :
         CallBecomes(c, [apiCall[c] EXCEPT !.at = "store", !.fetched = k])
    /\ UNCHANGED <<keyInForce, keyCache, disturbed>>

\* What was fetched is cached, also when it has become an old key meanwhile and a
\* newer one is there.
Stores(c) ==
    /\ CallIs(c, "store")
    /\ keyCache' = {apiCall[c].fetched}
    /\ disturbed' = IF apiCall[c].fetched = keyInForce THEN disturbed
                    ELSE disturbed \union UnderWay
    /\ CallBecomes(c, [apiCall[c] EXCEPT !.at = "read", !.fetched = NoKey])
    /\ UNCHANGED keyInForce

\* The cache as it is when _get_api_key returns.
Returned == IF keyCache = {} THEN NoKey ELSE CHOOSE k \in keyCache : TRUE

-----------------------------------------------------------------------------
(* call_api                                                                *)

Sends(c) ==
    /\ CallIs(c, "read") /\ ~apiCall[c].again
    /\ CallBecomes(c, [apiCall[c] EXCEPT !.at = "sent", !.key = Returned])
    /\ UNCHANGED <<keyInForce, keyCache, disturbed>>

\* Sent once more with another key; without one the first answer stands.
Resends(c) ==
    /\ CallIs(c, "read") /\ apiCall[c].again
    /\ IF Returned \notin {NoKey, apiCall[c].key}
       THEN CallBecomes(c, [apiCall[c] EXCEPT !.at = "sent", !.key = Returned])
       ELSE CallEnds(c, "refused")
    /\ UNCHANGED <<keyInForce, keyCache, disturbed>>

\* Mutant: the refused key stays cached.
RefusedKept(c) ==
    /\ CallIs(c, "sent") /\ ~apiCall[c].again
    /\ apiCall[c].key # keyInForce
    /\ CallBecomes(c, [apiCall[c] EXCEPT !.at = "look", !.again = TRUE])
    /\ UNCHANGED <<keyInForce, keyCache, disturbed>>

\* _invalidate_key_cache, perhaps under another caller that is about to read it.
Refused(c) ==
    /\ CallIs(c, "sent") /\ ~apiCall[c].again
    /\ apiCall[c].key # keyInForce
    /\ keyCache' = {}
    /\ disturbed' = disturbed \union {d \in Caller : CallIs(d, "read")}
    /\ CallBecomes(c, [apiCall[c] EXCEPT !.at = "look", !.again = TRUE])
    /\ UNCHANGED keyInForce

\* The request is answered, refused for its key a second time, or lost.
Answered(c) ==
    /\ CallIs(c, "sent")
    /\ \/ apiCall[c].key = keyInForce /\ CallEnds(c, "ok")
       \/ apiCall[c].key # keyInForce /\ apiCall[c].again /\ CallEnds(c, "refused")
       \/ CallEnds(c, "lost")
    /\ UNCHANGED <<keyInForce, keyCache, disturbed>>

Rotate ==
    /\ keyInForce <= Rotations
    /\ keyInForce' = keyInForce + 1
    /\ disturbed' = disturbed \union UnderWay
    /\ UNCHANGED <<keyCache, apiCall>>

ApiNext ==
    \/ \E c \in Caller :
         \/ StartCall(c) \/ LooksUp(c) \/ Fetches(c) \/ Stores(c)
         \/ Sends(c) \/ Refused(c) \/ Resends(c) \/ Answered(c)
    \/ Rotate

ApiSpec == ApiInit /\ [][ApiNext]_apiVars

-----------------------------------------------------------------------------
\* However stale the shared cache is when a call begins, the call comes back
\* refused only when, while it was under way, the key was rotated, somebody's fetch
\* failed, a slow one put back the key from before a rotation, or another caller
\* dropped the cache this one was about to read.
RefusedOnlyWhenDisturbed ==
    \A c \in Caller : apiCall[c].answer = "refused" => c \in disturbed
=============================================================================
