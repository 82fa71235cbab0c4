------------------------------ MODULE TokenCache ------------------------------
(***************************************************************************)
(* The access token that the uploads and trackers of one load Job share.   *)
(* Every API request asks access_token() first: under TOKEN_LOCK it reads  *)
(* the clock and returns the cached token, or it fetches a new one from    *)
(* Keycloak while time passes and the other threads wait for the lock.     *)
(***************************************************************************)
EXTENDS Integers

CONSTANTS Threads,      \* the uploads and trackers of the Job
          Lifetimes,    \* the lifetimes Keycloak may give a token
          MINLIFE,      \* the shortest lifetime the code reckons with
          MARGIN,       \* how long before its end a token is given up
          FLOOR,        \* how long a token is cached at least
          TIMEOUT,      \* how long one token request may take
          MAXTIME       \* bound on the clock

\* 60, 30, 30 and 20 seconds in the code; Keycloak's lifetimes are not shorter
\* than the code reckons with.
ASSUME TokenConstants ==
  /\ {MINLIFE, MARGIN, FLOOR, TIMEOUT, MAXTIME} \subseteq Nat
  /\ FLOOR > 0
  /\ FLOOR + MARGIN <= MINLIFE
  /\ MARGIN + TIMEOUT < MINLIFE
  /\ \A life \in Lifetimes : life \in Nat /\ life >= MINLIFE

VARIABLES now,      \* the clock
          token,    \* TOKEN: when the cache and when Keycloak let it expire
          holder,   \* the threads inside TOKEN_LOCK
          read,     \* the clock as a thread has read it under the lock
          stage,    \* where each thread is in its API request
          dies,     \* when the token in the thread's request expires
          issued    \* the tokens the Job has been given

cacheVars == <<now, token, holder, read, stage, dies, issued>>

CacheInit == /\ now = 0
             /\ token = [expires_at |-> 0, dies |-> 0]
             /\ holder = {}
             /\ read = [t \in Threads |-> 0]
             /\ stage = [t \in Threads |-> "working"]
             /\ dies = [t \in Threads |-> 0]
             /\ issued = 0

\* One unit of time; a token request ends before it is over its timeout.
Tick == /\ now < MAXTIME
        /\ \A t \in Threads : stage[t] = "fetching" => now < read[t] + TIMEOUT
        /\ now' = now + 1
        /\ UNCHANGED <<token, holder, read, stage, dies, issued>>

\* A thread wants to send an API request and waits for the lock.
Ask(t) == /\ stage[t] = "working"
          /\ stage' = [stage EXCEPT ![t] = "waiting"]
          /\ UNCHANGED <<now, token, holder, read, dies, issued>>

\* TOKEN["value"] is set and has not expired by the cache's own reckoning.
Cached == now < token.expires_at

\* The lock is taken and given back, and the cached token goes into the request.
UseCached(t) == /\ stage[t] = "waiting"
                /\ holder = {}
                /\ Cached
                /\ stage' = [stage EXCEPT ![t] = "sending"]
                /\ dies' = [dies EXCEPT ![t] = token.dies]
                /\ UNCHANGED <<now, token, holder, read, issued>>

\* The lock is taken and kept while Keycloak is asked.
Fetch(t) == /\ ~Cached
            /\ holder' = holder \cup {t}
            /\ read' = [read EXCEPT ![t] = now]
            /\ stage' = [stage EXCEPT ![t] = "fetching"]
            /\ UNCHANGED <<now, token, dies, issued>>

MutantStartFetch(t) == stage[t] = "waiting" /\ Fetch(t)

StartFetch(t) == /\ stage[t] = "waiting"
                 /\ holder = {}
                 /\ Fetch(t)

Larger(a, b) == IF a > b THEN a ELSE b

\* When the cache gives up a token of this lifetime, asked for at that time.
MutantExpiresAt(asked, life) == asked + Larger(FLOOR, Larger(MINLIFE, life))
ExpiresAt(asked, life) == asked + Larger(FLOOR, Larger(MINLIFE, life) - MARGIN)

\* Keycloak answers with a token it issued some time since it was asked.
Fetched(t) ==
  /\ stage[t] = "fetching"
  /\ \E life \in Lifetimes, at \in read[t] .. now :
       /\ token' = [expires_at |-> ExpiresAt(read[t], life), dies |-> at + life]
       /\ dies' = [dies EXCEPT ![t] = at + life]
  /\ holder' = holder \ {t}
  /\ stage' = [stage EXCEPT ![t] = "sending"]
  /\ issued' = issued + 1
  /\ UNCHANGED <<now, read>>

\* The token request fails, times out or returns no token; the API request is
\* not sent and the cached token stays.
FetchFails(t) == /\ stage[t] = "fetching"
                 /\ holder' = holder \ {t}
                 /\ stage' = [stage EXCEPT ![t] = "working"]
                 /\ UNCHANGED <<now, token, read, dies, issued>>

\* The API request ends, with whatever result.
Finish(t) == /\ stage[t] = "sending"
             /\ stage' = [stage EXCEPT ![t] = "working"]
             /\ UNCHANGED <<now, token, holder, read, dies, issued>>

CacheNext == \/ Tick
             \/ \E t \in Threads : \/ Ask(t) \/ UseCached(t) \/ StartFetch(t)
                                   \/ Fetched(t) \/ FetchFails(t) \/ Finish(t)

CacheSpec == CacheInit /\ [][CacheNext]_cacheVars
-----------------------------------------------------------------------------
(* Properties. *)

\* TOKEN_LOCK is held exactly while its one holder asks Keycloak, so that no
\* thread leaves it locked behind itself.
CacheTypeOK == /\ now \in Nat /\ issued \in Nat
               /\ token \in [expires_at : Nat, dies : Nat]
               /\ read \in [Threads -> Nat] /\ dies \in [Threads -> Nat]
               /\ stage \in [Threads -> {"working", "waiting", "fetching", "sending"}]
               /\ holder = {t \in Threads : stage[t] = "fetching"}

\* A request starts with a token that Keycloak honours for MARGIN longer, however
\* late the token request was answered and however long the thread waited.
HandedOutFresh ==
  [][\A t \in Threads : stage[t] # "sending" /\ stage'[t] = "sending"
                          => dies'[t] > now + MARGIN]_cacheVars

\* Threads that find the token expired together do not ask Keycloak one after
\* the other: the Job is given at most one token per FLOOR.
TokensBounded == issued > 0 => (issued - 1) * FLOOR <= now
=============================================================================
