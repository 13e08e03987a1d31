---------------------------- MODULE DNSResolver -----------------------------
(***************************************************************************)
(* The DNS cache resolver (05-day): a caller that resolves domains and     *)
(* adds records, the cleanup goroutine that deletes expired records, and   *)
(* the store both use without a lock: Go's map, or a hash table of chains  *)
(* that grows.  Store operations do not overlap here; in the program       *)
(* nothing but luck keeps them apart.  A domain is its labels.             *)
(***************************************************************************)
EXTENDS Integers, Sequences, FiniteSets

CONSTANTS
  Domains,      \* the domains resolved
  Added,        \* the domains AddRecord is given, wildcards among them
  TTLs,         \* the TTLs AddRecord is given
  DefaultTTL,   \* defaultTTL
  BucketCount,  \* defaultBucketCount, 8 in the code
  Hash(_),      \* hashString
  MaxNow,       \* bound on the clock
  MaxCalls      \* bound on the caller's calls

\* wildcardCandidates: the first labels replaced by a star, down to two labels after it.
wildcardCandidates(domain) ==
  [i \in 1..(Len(domain) - 2) |-> <<"*">> \o SubSeq(domain, i + 1, Len(domain))]

\* The names a domain is looked up by, the exact one first.
Names(domain) == <<domain>> \o wildcardCandidates(domain)

\* The names that are looked up or stored.
Keys == Added \cup UNION {{Names(d)[i] : i \in DOMAIN Names(d)} : d \in Domains}

ASSUME DNSConstants ==
  /\ \A d \in Domains : Len(d) \in Nat
  /\ TTLs \subseteq Nat /\ DefaultTTL \in Nat /\ BucketCount \in Nat \ {0}
  /\ \A k \in Keys : Hash(k) \in Nat

VARIABLES
  store,    \* Resolver.Store
  dnsNow,   \* the clock
  caller,   \* where the caller is: "idle", "lookup", "hit", "upstream"
  query,    \* [domain, left: the names still to look up, at: when Resolve was called]
  found,    \* <<>>, or the record the lookup found
  calls,    \* calls so far
  stats,    \* [hits, misses]
  cleaner,  \* the keys the cleanup still has to look at, and "at" the sweep's time
  condemned,\* the key it is about to delete, or <<>>
  written,  \* what was last written for a name, counting its hits, or None: nothing is ever lost here
  swept     \* names whose record the cleanup deleted though it was valid

dnsVars == <<store, dnsNow, caller, query, found, calls, stats, cleaner, condemned, written, swept>>

None == [ip |-> "none"]
NoQuery == [domain |-> <<>>, left |-> <<>>, at |-> 0]

\* DNSRecord.IsExpired, off by one.
IsExpired_Late(r, t) == t - r.created > r.ttl

IsExpired(r, t) == t - r.created >= r.ttl

-----------------------------------------------------------------------------
(* The stores: a chain of entries in each bucket, the latest first; or a map. *)

Custom(n) == [kind |-> "custom", buckets |-> [b \in 0..(n - 1) |-> <<>>], size |-> 0]
Inbuilt == [kind |-> "inbuilt", items |-> [k \in Keys |-> None]]

Buckets(s) == Cardinality(DOMAIN s.buckets)
bucketIndex(s, k) == Hash(k) % Buckets(s)
Places(s, k) == {i \in DOMAIN s.buckets[bucketIndex(s, k)] : s.buckets[bucketIndex(s, k)][i].key = k}

\* The entry of k that is found first.
Place(s, k) == CHOOSE i \in Places(s, k) : \A j \in Places(s, k) : i <= j

Get(s, k) ==
  IF s.kind = "inbuilt" THEN s.items[k]
  ELSE IF Places(s, k) = {} THEN None
  ELSE s.buckets[bucketIndex(s, k)][Place(s, k)].value

\* Set in a table that has room: the entry's value, or a new entry at the head of its chain.
Entered(s, k, r) ==
  LET b == bucketIndex(s, k)
  IN  IF Places(s, k) # {}
      THEN [s EXCEPT !.buckets[b] = [@ EXCEPT ![Place(s, k)] = [key |-> k, value |-> r]]]
      ELSE [s EXCEPT !.buckets[b] = <<[key |-> k, value |-> r]>> \o @, !.size = @ + 1]

\* The entries in the order of the buckets.
Chained(s) ==
  LET upTo[b \in 0..Buckets(s)] == IF b = 0 THEN <<>> ELSE upTo[b - 1] \o s.buckets[b - 1]
  IN  upTo[Buckets(s)]

\* resize: the entries enter a table of twice as many buckets, one by one.
Resized(s) ==
  LET entries == Chained(s)
      table[i \in 0..Len(entries)] ==
        IF i = 0 THEN Custom(2 * Buckets(s)) ELSE Entered(table[i - 1], entries[i].key, entries[i].value)
  IN  table[Len(entries)]

\* Set: maxLoadFactor is 3/4.
Set(s, k, r) ==
  IF s.kind = "inbuilt" THEN [s EXCEPT !.items[k] = r]
  ELSE Entered(IF 4 * (s.size + 1) > 3 * Buckets(s) THEN Resized(s) ELSE s, k, r)

Delete(s, k) ==
  IF s.kind = "inbuilt" THEN [s EXCEPT !.items[k] = None]
  ELSE IF Places(s, k) = {} THEN s
  ELSE [s EXCEPT !.buckets[bucketIndex(s, k)] =
                   SubSeq(@, 1, Place(s, k) - 1) \o SubSeq(@, Place(s, k) + 1, Len(@)),
                 !.size = @ - 1]

StoreKeys(s) == {k \in Keys : Get(s, k) # None}

StoreLen(s) == IF s.kind = "inbuilt" THEN Cardinality(StoreKeys(s)) ELSE s.size

-----------------------------------------------------------------------------

DNSInit ==
  /\ store \in {Custom(BucketCount), Inbuilt}
  /\ dnsNow = 0 /\ caller = "idle" /\ query = NoQuery /\ found = <<>> /\ calls = 0
  /\ stats = [hits |-> 0, misses |-> 0]
  /\ cleaner = [keys |-> {}, at |-> 0] /\ condemned = <<>>
  /\ written = [k \in Keys |-> None] /\ swept = {}

\* Resolve is called.
Resolve ==
  /\ caller = "idle" /\ calls < MaxCalls
  /\ \E d \in Domains : query' = [domain |-> d, left |-> Names(d), at |-> dnsNow]
  /\ caller' = "lookup" /\ calls' = calls + 1
  /\ UNCHANGED <<store, dnsNow, found, stats, cleaner, condemned, written, swept>>

\* One lookupValidRecord.
Lookup ==
  /\ caller = "lookup" /\ query.left # <<>>
  /\ LET k == Head(query.left)
         r == Get(store, k)
     IN  IF r # None /\ ~IsExpired(r, query.at)
         THEN caller' = "hit" /\ found' = <<k, r>> /\ UNCHANGED <<store, query>>
         ELSE /\ query' = [query EXCEPT !.left = Tail(@)]
              /\ store' = IF r # None THEN Delete(store, k) ELSE store
              /\ UNCHANGED <<caller, found>>
  /\ UNCHANGED <<dnsNow, calls, stats, cleaner, condemned, written, swept>>

\* The record is stored again with its hit counted, whether or not it is still there.
Hit ==
  /\ caller = "hit"
  /\ store' = Set(store, found[1], [found[2] EXCEPT !.hits = @ + 1])
  /\ stats' = [stats EXCEPT !.hits = @ + 1]
  /\ written' = [written EXCEPT ![found[1]].hits = @ + 1] /\ swept' = swept \ {found[1]}
  /\ caller' = "idle" /\ found' = <<>> /\ query' = NoQuery
  /\ UNCHANGED <<dnsNow, calls, cleaner, condemned>>

Miss ==
  /\ caller = "lookup" /\ query.left = <<>>
  /\ stats' = [stats EXCEPT !.misses = @ + 1] /\ caller' = "upstream"
  /\ UNCHANGED <<store, dnsNow, query, found, calls, cleaner, condemned, written, swept>>

Write(k, r) ==
  /\ store' = Set(store, k, r)
  /\ written' = [written EXCEPT ![k] = r] /\ swept' = swept \ {k}

\* The upstream's answer is as old as the call.
UpstreamAnswers ==
  /\ caller = "upstream"
  /\ Write(query.domain, [ip |-> "upstream", ttl |-> DefaultTTL, created |-> query.at, hits |-> 0])
  /\ caller' = "idle" /\ query' = NoQuery
  /\ UNCHANGED <<dnsNow, found, calls, stats, cleaner, condemned>>

UpstreamFails ==
  /\ caller = "upstream"
  /\ caller' = "idle" /\ query' = NoQuery
  /\ UNCHANGED <<store, dnsNow, found, calls, stats, cleaner, condemned, written, swept>>

AddRecord ==
  /\ caller = "idle" /\ calls < MaxCalls
  /\ \E k \in Added, ttl \in TTLs : Write(k, [ip |-> "added", ttl |-> ttl, created |-> dnsNow, hits |-> 0])
  /\ calls' = calls + 1
  /\ UNCHANGED <<dnsNow, caller, query, found, stats, cleaner, condemned>>

-----------------------------------------------------------------------------
(* cleanupExpired *)

StartSweep ==
  /\ cleaner.keys = {} /\ condemned = <<>> /\ StoreKeys(store) # {}
  /\ cleaner' = [keys |-> StoreKeys(store), at |-> dnsNow]
  /\ UNCHANGED <<store, dnsNow, caller, query, found, calls, stats, condemned, written, swept>>

SweepGet ==
  /\ condemned = <<>>
  /\ \E k \in cleaner.keys :
       LET r == Get(store, k)
       IN  /\ condemned' = IF r # None /\ IsExpired(r, cleaner.at) THEN <<k>> ELSE <<>>
           /\ cleaner' = [cleaner EXCEPT !.keys = @ \ {k}]
  /\ UNCHANGED <<store, dnsNow, caller, query, found, calls, stats, written, swept>>

\* The caller may have written a new record since.
SweepDelete ==
  /\ condemned # <<>>
  /\ LET k == condemned[1]
         r == Get(store, k)
     IN  /\ store' = Delete(store, k)
         /\ swept' = IF r # None /\ ~IsExpired(r, cleaner.at) THEN swept \cup {k} ELSE swept
  /\ condemned' = <<>>
  /\ UNCHANGED <<dnsNow, caller, query, found, calls, stats, cleaner, written>>

Second ==
  /\ dnsNow < MaxNow /\ dnsNow' = dnsNow + 1
  /\ UNCHANGED <<store, caller, query, found, calls, stats, cleaner, condemned, written, swept>>

DNSNext ==
  \/ Resolve \/ Lookup \/ Hit \/ Miss \/ UpstreamAnswers \/ UpstreamFails \/ AddRecord
  \/ StartSweep \/ SweepGet \/ SweepDelete \/ Second

DNSSpec == DNSInit /\ [][DNSNext]_dnsVars

-----------------------------------------------------------------------------

\* The last record written for k lives its TTL and no longer.
Valid(k, t) == written[k] # None /\ t < written[k].created + written[k].ttl

\* The store has each name's last record, hits and all, until it expires, and counts right.
StoreSound ==
  /\ \A k \in Keys : Get(store, k) \in {None, written[k]}
  /\ \A k \in Keys : Valid(k, dnsNow) => Get(store, k) # None \/ k \in swept
  /\ StoreLen(store) = Cardinality(StoreKeys(store))

\* The name's record could still answer, and the cleanup has not thrown it away.
Answers(k) == Valid(k, dnsNow) /\ k \notin swept

\* A hit serves the last record written for its name, unexpired when the call began; neither a
\* wildcard nor the upstream answers while a more exact record could.
AnswersCurrent ==
  [][/\ caller = "hit" /\ caller' = "idle" =>
          /\ found[2] = written[found[1]] /\ Valid(found[1], query.at)
          /\ \A i \in DOMAIN Names(query.domain) :
               (\A j \in 1..i : Names(query.domain)[j] # found[1]) => ~Answers(Names(query.domain)[i])
     /\ caller = "lookup" /\ caller' = "upstream" =>
          \A i \in DOMAIN Names(query.domain) : ~Answers(Names(query.domain)[i])
    ]_dnsVars

\* CacheExact: the cache serves what was written last and nothing expired, whichever store it
\* uses, whatever the table's growth and the sweeps do in the middle of a call.
CacheExact == []StoreSound /\ AnswersCurrent
=============================================================================
