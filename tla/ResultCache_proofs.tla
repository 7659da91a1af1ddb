------------------------- MODULE ResultCache_proofs -------------------------
(***************************************************************************)
(* Proofs about ResultCache: for any images, hashes, workers and releases  *)
(* the entries that releases share give no result a foreign prompt, a      *)
(* foreign whitelist or a field its release does not know.                 *)
(***************************************************************************)
EXTENDS ResultCache, TLAPS

\* A raw extraction with the prompt v.
RawOf(v) == {e \in Invoices : e.psv = v /\ e.names = Raw}

CacheInv ==
  cache \in [Hashes -> [Versions -> Invoices \union {None}]]
    /\ \A h \in Hashes : \A v \in Versions : cache[h][v] \in RawOf(v) \union {None}

\* What a job carries is raw, of the prompt of its release, and validated by it.
Fits(r, e) == e \in RawOf(r.psv) /\ e.schema <= r.schema
JobInv ==
  /\ release \in [Workers -> Releases]
  /\ job \in [Workers -> Jobs \union {None}]
  /\ \A w \in Workers : job[w].kind \in {"store", "postprocess"} => Fits(release[w], job[w].invoice)

ResultInv == OwnPrompt /\ OwnWhitelist /\ KnownFields

VersionInv ==
  /\ CacheInv /\ JobInv /\ ResultInv
  /\ DOMAIN result = Workers

LEMMA ReleaseFields ==
  ASSUME JobInv, NEW w \in Workers
  PROVE  /\ release[w].psv \in Versions /\ release[w].schema \in Nat
         /\ release[w].whitelist \in Whitelists
BY CacheAssumption DEF JobInv, Schemas

LEMMA VersionInit == Init => VersionInv
BY DEF Init, VersionInv, CacheInv, JobInv, ResultInv, OwnPrompt, OwnWhitelist, KnownFields,
       Results, None

LEMMA TakeStep == ASSUME VersionInv, NEW w \in Workers, Take(w) PROVE VersionInv'
<1>1. PICK image \in Images : job' = [job EXCEPT ![w] = [kind |-> "lookup", image |-> image]]
  BY DEF Take
<1>2. UNCHANGED <<release, cache, result>>
  BY DEF Take
<1>3. JobInv'
  <2>1. [kind |-> "lookup", image |-> image] \in Jobs
    BY DEF Jobs
  <2> QED
    BY <1>1, <1>2, <2>1 DEF VersionInv, JobInv
<1>4. CacheInv'
  BY <1>2 DEF VersionInv, CacheInv
<1>5. ResultInv' /\ DOMAIN result' = Workers
  BY <1>2 DEF VersionInv, ResultInv, OwnPrompt, OwnWhitelist, KnownFields, Results
<1> QED
  BY <1>3, <1>4, <1>5 DEF VersionInv

\* A hit is an entry of the release's own version that it validates.
LEMMA LookupStep == ASSUME VersionInv, NEW w \in Workers, CacheLookup(w) PROVE VersionInv'
<1> DEFINE image == job[w].image
           entry == cache[Hash[image]][KeyVersion(w)]
<1>1. /\ job[w].kind = "lookup" /\ UNCHANGED <<release, cache, result>>
      /\ \/ /\ entry # None /\ Validates(w, entry)
            /\ job' = [job EXCEPT ![w] =
                 [kind |-> "postprocess", image |-> image, invoice |-> entry]]
         \/ job' = [job EXCEPT ![w] = [kind |-> "extract", image |-> image]]
  BY DEF CacheLookup
<1>2. image \in Images
  <2>1. job[w] \in Jobs
    BY <1>1 DEF VersionInv, JobInv, None
  <2> QED
    BY <2>1 DEF Jobs
<1>3. entry \in RawOf(release[w].psv) \union {None}
  <2>1. Hash[image] \in Hashes /\ KeyVersion(w) = release[w].psv /\ release[w].psv \in Versions
    BY <1>2, ReleaseFields, CacheAssumption DEF VersionInv, KeyVersion
  <2> QED
    BY <2>1 DEF VersionInv, CacheInv
<1> HIDE DEF image, entry
<1>4. JobInv'
  <2>1. CASE /\ entry # None /\ Validates(w, entry)
             /\ job' = [job EXCEPT ![w] =
                  [kind |-> "postprocess", image |-> image, invoice |-> entry]]
    <3>1. Fits(release[w], entry) /\ entry \in Invoices
      BY <2>1, <1>3 DEF Validates, Fits, RawOf
    <3>2. [kind |-> "postprocess", image |-> image, invoice |-> entry] \in Jobs
      BY <1>2, <3>1 DEF Jobs
    <3> QED
      BY <2>1, <3>1, <3>2, <1>1 DEF VersionInv, JobInv
  <2>2. CASE job' = [job EXCEPT ![w] = [kind |-> "extract", image |-> image]]
    <3>1. [kind |-> "extract", image |-> image] \in Jobs
      BY <1>2 DEF Jobs
    <3> QED
      BY <2>2, <3>1, <1>1 DEF VersionInv, JobInv
  <2> QED
    BY <1>1, <2>1, <2>2
<1>5. CacheInv'
  BY <1>1 DEF VersionInv, CacheInv
<1>6. ResultInv' /\ DOMAIN result' = Workers
  BY <1>1 DEF VersionInv, ResultInv, OwnPrompt, OwnWhitelist, KnownFields, Results
<1> QED
  BY <1>4, <1>5, <1>6 DEF VersionInv

LEMMA ExtractStep == ASSUME VersionInv, NEW w \in Workers, Extract(w) PROVE VersionInv'
<1> DEFINE image == job[w].image
           invoice == [kind |-> "invoice", of |-> image, psv |-> release[w].psv,
                       schema |-> release[w].schema, names |-> Raw]
<1>1. /\ job[w].kind = "extract" /\ UNCHANGED <<release, cache, result>>
      /\ job' = [job EXCEPT ![w] = [kind |-> "store", image |-> image, invoice |-> invoice]]
  BY DEF Extract
<1>2. image \in Images
  <2>1. job[w] \in Jobs
    BY <1>1 DEF VersionInv, JobInv, None
  <2> QED
    BY <2>1 DEF Jobs
<1>3. invoice \in Invoices
  BY <1>2, ReleaseFields DEF VersionInv, Invoices, Schemas
<1>4. Fits(release[w], invoice)
  BY <1>3, ReleaseFields DEF VersionInv, Fits, RawOf
<1> HIDE DEF image, invoice
<1>5. JobInv'
  <2>1. [kind |-> "store", image |-> image, invoice |-> invoice] \in Jobs
    BY <1>2, <1>3 DEF Jobs
  <2> QED
    BY <2>1, <1>1, <1>4 DEF VersionInv, JobInv
<1>6. CacheInv'
  BY <1>1 DEF VersionInv, CacheInv
<1>7. ResultInv' /\ DOMAIN result' = Workers
  BY <1>1 DEF VersionInv, ResultInv, OwnPrompt, OwnWhitelist, KnownFields, Results
<1> QED
  BY <1>5, <1>6, <1>7 DEF VersionInv

\* What is stored is raw, under the version it was extracted with.
LEMMA StoreStep == ASSUME VersionInv, NEW w \in Workers, Store(w) PROVE VersionInv'
<1> DEFINE h == Hash[job[w].image]
           v == release[w].psv
<1>1. /\ job[w].kind = "store" /\ UNCHANGED <<release, result>>
      /\ job' = [job EXCEPT ![w].kind = "postprocess"]
      /\ cache' = [cache EXCEPT ![h][v] = job[w].invoice] \/ cache' = cache
  BY DEF Store, KeyVersion, Kept
<1>2. job[w] \in [kind : {"store", "postprocess"}, image : Images, invoice : Invoices]
  <2>1. job[w] \in Jobs
    BY <1>1 DEF VersionInv, JobInv, None
  <2> QED
    BY <2>1, <1>1 DEF Jobs
<1>3. Fits(release[w], job[w].invoice)
  BY <1>1 DEF VersionInv, JobInv
<1>4. h \in Hashes /\ v \in Versions
  BY <1>2, ReleaseFields, CacheAssumption DEF VersionInv
<1>5. CacheInv'
  <2>1. job[w].invoice \in RawOf(v)
    BY <1>3 DEF Fits
  <2>2. job[w].invoice \in Invoices
    BY <1>2
  <2> HIDE DEF h, v
  <2>3. CASE cache' = [cache EXCEPT ![h][v] = job[w].invoice]
    BY <2>1, <2>2, <2>3, <1>4 DEF VersionInv, CacheInv
  <2>4. CASE cache' = cache
    BY <2>4 DEF VersionInv, CacheInv
  <2> QED
    BY <1>1, <2>3, <2>4
<1>6. JobInv'
  <2>1. [job[w] EXCEPT !.kind = "postprocess"] \in Jobs
    BY <1>2 DEF Jobs
  <2>2. [job[w] EXCEPT !.kind = "postprocess"].invoice = job[w].invoice
    BY <1>2
  <2>3. job' = [job EXCEPT ![w] = [job[w] EXCEPT !.kind = "postprocess"]]
    BY <1>1
  <2> QED
    BY <1>1, <1>3, <2>1, <2>2, <2>3 DEF VersionInv, JobInv
<1>7. ResultInv' /\ DOMAIN result' = Workers
  BY <1>1 DEF VersionInv, ResultInv, OwnPrompt, OwnWhitelist, KnownFields, Results
<1> QED
  BY <1>5, <1>6, <1>7 DEF VersionInv

LEMMA PersistStep == ASSUME VersionInv, NEW w \in Workers, Persist(w) PROVE VersionInv'
<1> DEFINE e == job[w].invoice
           persisted == [Postprocessed(w, e) EXCEPT !.kind = "result"]
<1>1. /\ job[w].kind = "postprocess" /\ UNCHANGED <<release, cache>>
      /\ job' = [job EXCEPT ![w] = None]
      /\ result' = [result EXCEPT ![w] = persisted]
  BY DEF Persist
<1>2. Fits(release[w], e) /\ e \in Invoices
  BY <1>1 DEF VersionInv, JobInv, Fits, RawOf
<1>3. /\ persisted.psv = release[w].psv /\ persisted.names = release[w].whitelist
      /\ persisted.schema <= release[w].schema
  BY <1>2 DEF Fits, RawOf, Postprocessed, Invoices
<1> HIDE DEF e, persisted
<1>4. JobInv'
  BY <1>1 DEF VersionInv, JobInv, None
<1>5. CacheInv'
  BY <1>1 DEF VersionInv, CacheInv
<1>6. ResultInv' /\ DOMAIN result' = Workers
  BY <1>1, <1>3 DEF VersionInv, ResultInv, OwnPrompt, OwnWhitelist, KnownFields, Results
<1> QED
  BY <1>4, <1>5, <1>6 DEF VersionInv

LEMMA DeployStep == ASSUME VersionInv, NEW w \in Workers, Deploy(w) PROVE VersionInv'
<1>1. PICK r \in Releases : release' = [release EXCEPT ![w] = r]
  BY DEF Deploy
<1>2. /\ job' = [job EXCEPT ![w] = None] /\ result' = [result EXCEPT ![w] = None]
      /\ cache' = cache
  BY DEF Deploy
<1>3. JobInv'
  BY <1>1, <1>2 DEF VersionInv, JobInv, None
<1>4. CacheInv'
  BY <1>2 DEF VersionInv, CacheInv
<1>5. ResultInv' /\ DOMAIN result' = Workers
  BY <1>1, <1>2 DEF VersionInv, JobInv, ResultInv, OwnPrompt, OwnWhitelist, KnownFields, Results
<1> QED
  BY <1>3, <1>4, <1>5 DEF VersionInv

LEMMA ExpireStep == VersionInv /\ Expire => VersionInv'
<1> SUFFICES ASSUME VersionInv, Expire PROVE VersionInv'
  OBVIOUS
<1>1. PICK h \in Hashes, v \in Versions : cache' = [cache EXCEPT ![h][v] = None]
  BY DEF Expire
<1>2. UNCHANGED <<release, job, result>>
  BY DEF Expire
<1>3. CacheInv'
  BY <1>1 DEF VersionInv, CacheInv
<1>4. JobInv' /\ ResultInv' /\ DOMAIN result' = Workers
  BY <1>2 DEF VersionInv, JobInv, ResultInv, OwnPrompt, OwnWhitelist, KnownFields, Results
<1> QED
  BY <1>3, <1>4 DEF VersionInv

LEMMA VersionInductive == VersionInv /\ [Next]_vars => VersionInv'
<1>1. VersionInv /\ UNCHANGED vars => VersionInv'
  BY DEF vars, VersionInv, CacheInv, JobInv, ResultInv, OwnPrompt, OwnWhitelist, KnownFields,
         Results
<1> QED
  BY <1>1, TakeStep, LookupStep, ExtractStep, StoreStep, PersistStep, DeployStep, ExpireStep
  DEF Next

\* In a rolling deployment of any releases no result is made of an extraction
\* with another prompt. (phash_cache_key)
THEOREM ResultsOfOwnPrompt == Spec => []OwnPrompt
<1> QED
  BY VersionInit, VersionInductive, PTL DEF Spec, VersionInv, ResultInv

\* Nor are its names those of another release's whitelist, on a cache hit or
\* not. (the cache keeps what is raw)
THEOREM ResultsOfOwnWhitelist == Spec => []OwnWhitelist
<1> QED
  BY VersionInit, VersionInductive, PTL DEF Spec, VersionInv, ResultInv

\* Nor does it hold a field its worker does not know, when releases with
\* different schemas share a prompt. (the validation of a cache hit)
THEOREM ResultsOfKnownFields == Spec => []KnownFields
<1> QED
  BY VersionInit, VersionInductive, PTL DEF Spec, VersionInv, ResultInv
=============================================================================
