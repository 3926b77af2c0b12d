------------------------------ MODULE CacheLayer ------------------------------
(***************************************************************************)
(* core/blockchain/CacheLayer.ts: the entries of the cache and the two        *)
(* records kept beside them for the eviction policies.  The value of an        *)
(* entry plays no part: compress, encrypt and their inverses return what they  *)
(* are given.  mget, mset, warmUp and import are repeated calls of get, set     *)
(* and clear.                                                                  *)
(***************************************************************************)
EXTENDS Integers, Sequences, FiniteSets, Maps

CONSTANTS
    Keys,
    MaxSize,   \* config.maxSize
    DefaultTTL, \* config.ttl
    TTLs,      \* what callers of set ask for; 0 stands for the default
    MaxUse,    \* bound: uses of one entry and of one key
    MaxClock   \* bound: the clock

VARIABLES
    clock,
    cache,           \* key -> [timestamp, ttl, accessCount]
    accessOrder,     \* kept under LRU
    accessFrequency, \* kept under LFU
    evictionPolicy,
    reconfigured     \* whether updateConfig has changed the policy

cacheVars == <<clock, cache, accessOrder, accessFrequency, evictionPolicy, reconfigured>>

Policies == {"LRU", "LFU", "FIFO", "RANDOM"}

Init ==
    /\ clock = 0
    /\ cache = Empty /\ accessFrequency = Empty /\ accessOrder = <<>>
    /\ evictionPolicy \in Policies /\ reconfigured = FALSE

Expired(k) == clock - cache[k].timestamp > cache[k].ttl

Without(order, keys) == Kept(order, {i \in DOMAIN order : order[i] \notin keys})

\* updateAccessOrder and updateAccessFrequency
Touch(order, k) == IF evictionPolicy = "LRU" THEN Append(Without(order, {k}), k) ELSE order
Count(frequency, k) ==
    IF evictionPolicy = "LFU" THEN Put(frequency, k, Get(frequency, k, 0) + 1) ELSE frequency

-----------------------------------------------------------------------------
\* get: a hit counts as a use; an expired entry goes, but its frequency stays.
Lookup(k) ==
    /\ k \in DOMAIN cache
    /\ IF Expired(k)
       THEN /\ cache' = Drop(cache, {k}) /\ accessOrder' = Without(accessOrder, {k})
            /\ UNCHANGED accessFrequency
       ELSE /\ cache[k].accessCount < MaxUse /\ Get(accessFrequency, k, 0) < MaxUse
            /\ cache' = [cache EXCEPT ![k].accessCount = @ + 1]
            /\ accessOrder' = Touch(accessOrder, k)
            /\ accessFrequency' = Count(accessFrequency, k)
    /\ UNCHANGED <<clock, evictionPolicy, reconfigured>>

\* evictLRU shifts the order, evictLFU, evictFIFO and evictRandom choose among
\* the entries, the first two by rank; equal ones in any order.
Rank(k) == IF evictionPolicy = "LFU" THEN Get(accessFrequency, k, 0) ELSE cache[k].timestamp

Victims ==
    CASE evictionPolicy = "LRU" -> IF accessOrder = <<>> THEN {} ELSE {accessOrder[1]}
      [] evictionPolicy \in {"LFU", "FIFO"} -> {k \in DOMAIN cache : \A j \in DOMAIN cache : Rank(k) <= Rank(j)}
      [] evictionPolicy = "RANDOM" -> DOMAIN cache

\* set, for up to ten entries: evictEntries makes room for one (a tenth of
\* maxSize, rounded up) and makes none when the order it goes by is empty.
Store(k, ttl) ==
    /\ \E gone \in IF Cardinality(DOMAIN cache) >= MaxSize /\ k \notin DOMAIN cache /\ Victims # {}
                   THEN {{v} : v \in Victims} ELSE {{}} :
        LET entry == [timestamp |-> clock, ttl |-> IF ttl = 0 THEN DefaultTTL ELSE ttl, accessCount |-> 1]
            left == Drop(accessFrequency, gone)
        IN  /\ Get(left, k, 0) < MaxUse
            /\ cache' = Put(Drop(cache, gone), k, entry)
            /\ accessOrder' = Touch(Without(accessOrder, gone), k)
            /\ accessFrequency' = Count(left, k)
    /\ UNCHANGED <<clock, evictionPolicy, reconfigured>>

Delete(k) ==
    /\ k \in DOMAIN cache
    /\ cache' = Drop(cache, {k}) /\ accessOrder' = Without(accessOrder, {k})
    /\ accessFrequency' = Drop(accessFrequency, {k})
    /\ UNCHANGED <<clock, evictionPolicy, reconfigured>>

\* clear, which stop calls as well
Clear ==
    /\ cache' = Empty /\ accessFrequency' = Empty /\ accessOrder' = <<>>
    /\ UNCHANGED <<clock, evictionPolicy, reconfigured>>

\* Mutant of Cleanup: the expired keys stay in the order of use.
CleanupCacheOnly ==
    LET gone == {k \in DOMAIN cache : Expired(k)}
    IN  /\ gone # {}
        /\ cache' = Drop(cache, gone)
        /\ accessFrequency' = Drop(accessFrequency, gone)
        /\ UNCHANGED <<clock, accessOrder, evictionPolicy, reconfigured>>

\* cleanup, every minute
Cleanup ==
    LET gone == {k \in DOMAIN cache : Expired(k)}
    IN  /\ gone # {}
        /\ cache' = Drop(cache, gone)
        /\ accessOrder' = Without(accessOrder, gone)
        /\ accessFrequency' = Drop(accessFrequency, gone)
        /\ UNCHANGED <<clock, evictionPolicy, reconfigured>>

\* updateConfig with another policy: what the new one goes by is not rebuilt.
\* (The model changes the policy once.)
UpdateConfig(policy) ==
    /\ ~reconfigured /\ policy # evictionPolicy
    /\ evictionPolicy' = policy /\ reconfigured' = TRUE
    /\ UNCHANGED <<clock, cache, accessOrder, accessFrequency>>

Tick ==
    /\ clock < MaxClock /\ clock' = clock + 1
    /\ UNCHANGED <<cache, accessOrder, accessFrequency, evictionPolicy, reconfigured>>

Next ==
    \/ \E k \in Keys : Lookup(k) \/ Delete(k) \/ \E ttl \in TTLs : Store(k, ttl)
    \/ Clear \/ Cleanup \/ Tick
    \/ \E p \in Policies : UpdateConfig(p)

Spec == Init /\ [][Next]_cacheVars

-----------------------------------------------------------------------------
TypeOK ==
    /\ clock \in 0..MaxClock
    /\ IsMap(cache, Keys, [timestamp : 0..MaxClock, ttl : TTLs \cup {DefaultTTL}, accessCount : 1..MaxUse])
    /\ accessOrder \in Seq(Keys) /\ IsMap(accessFrequency, Keys, 1..MaxUse)
    /\ evictionPolicy \in Policies /\ reconfigured \in BOOLEAN

\* While the policy stays what it was, the cache keeps within maxSize and the
\* policy's own record agrees with it: under LRU the order lists the keys of
\* the cache, each once; under LFU no key counts less than its entry was used.
EvictionKeepsUp ==
    ~reconfigured =>
        /\ Cardinality(DOMAIN cache) <= MaxSize
        /\ evictionPolicy = "LRU" =>
            ToSet(accessOrder) = DOMAIN cache /\ Len(accessOrder) = Cardinality(DOMAIN cache)
        /\ evictionPolicy = "LFU" =>
            \A k \in DOMAIN cache : Get(accessFrequency, k, 0) >= cache[k].accessCount

\* Whatever the policies have been, the order never names a key twice, and
\* under a policy that does not go by it no key is in it that is not cached.
OrderHasNoStrays ==
    /\ Len(accessOrder) = Cardinality(ToSet(accessOrder))
    /\ ToSet(accessOrder) \subseteq DOMAIN cache
=============================================================================
