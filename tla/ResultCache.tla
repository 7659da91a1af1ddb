----------------------------- MODULE ResultCache -----------------------------
(***************************************************************************)
(* The cache of raw extractions across releases: workers of several        *)
(* releases run at once during a rolling deployment, share the entries     *)
(* that Redis keeps under a perceptual hash and a prompt version, and      *)
(* postprocess what they find with their own whitelists.                   *)
(*                                                                         *)
(* A release is its prompt version, the fields that its InvoiceResult      *)
(* knows (a higher schema knows those of the lower ones and more) and its  *)
(* whitelists.  The job around these steps is in JobLifecycle.             *)
(*                                                                         *)
(* A name with _Bad is a wrong variant of the definition that follows it.  *)
(***************************************************************************)
EXTENDS Integers

CONSTANTS
  Workers,
  Images, Hashes, Hash,   \* images and their perceptual hashes
  Versions,               \* values of PROMPT_SEMANTIC_VERSION
  Whitelists,
  Releases                \* what may be deployed

Schemas == Nat

ASSUME CacheAssumption ==
  /\ Hash \in [Images -> Hashes]
  /\ Releases \subseteq [psv : Versions, schema : Schemas, whitelist : Whitelists]

VARIABLES
  release,   \* the release that each worker runs
  cache,     \* the entries, by hash and prompt version
  job,       \* the job of each worker between the lookup and the result
  result     \* the last result that each worker persisted

vars == <<release, cache, job, result>>

None == [kind |-> "none"]
Raw == "raw"   \* not matched against a whitelist

\* An InvoiceResult: what it was extracted from, with which prompt and schema,
\* and the whitelist its names were matched against.
Invoices == [kind : {"invoice"}, of : Images, psv : Versions, schema : Schemas,
             names : Whitelists \union {Raw}]
Jobs == [kind : {"lookup", "extract"}, image : Images]
          \union [kind : {"store", "postprocess"}, image : Images, invoice : Invoices]

Init ==
  /\ release \in [Workers -> Releases]
  /\ cache = [h \in Hashes |-> [v \in Versions |-> None]]
  /\ job = [w \in Workers |-> None]
  /\ result = [w \in Workers |-> None]

-----------------------------------------------------------------------------

\* phash_cache_key: the version is part of the key.
\* All versions share an entry.
KeyVersion_BadShared(w) == CHOOSE v \in Versions : TRUE
KeyVersion(w) == release[w].psv

\* model_validate: missing fields get their default, fields that are not known
\* are refused.
\* Unknown fields are ignored.
Validates_BadIgnore(w, e) == TRUE
Validates(w, e) == e.schema <= release[w].schema

Take(w) ==
  /\ job[w] = None
  /\ \E image \in Images : job' = [job EXCEPT ![w] = [kind |-> "lookup", image |-> image]]
  /\ UNCHANGED <<release, cache, result>>

\* get_phash_cache and the validation of what it returns. A failing Redis is a
\* miss.
CacheLookup(w) ==
  /\ job[w].kind = "lookup"
  /\ LET entry == cache[Hash[job[w].image]][KeyVersion(w)] IN
     \/ /\ entry # None /\ Validates(w, entry)
        /\ job' = [job EXCEPT ![w] =
             [kind |-> "postprocess", image |-> job[w].image, invoice |-> entry]]
     \/ job' = [job EXCEPT ![w] = [kind |-> "extract", image |-> job[w].image]]
  /\ UNCHANGED <<release, cache, result>>

Extract(w) ==
  /\ job[w].kind = "extract"
  /\ job' = [job EXCEPT ![w] =
       [kind |-> "store", image |-> job[w].image,
        invoice |-> [kind |-> "invoice", of |-> job[w].image, psv |-> release[w].psv,
                     schema |-> release[w].schema, names |-> Raw]]]
  /\ UNCHANGED <<release, cache, result>>

\* postprocess: names are matched against the whitelist, those that were
\* matched before stay as they are.
Postprocessed(w, e) == IF e.names = Raw THEN [e EXCEPT !.names = release[w].whitelist] ELSE e

\* What is kept in the cache is the raw extraction.
\* The result is kept.
Kept_BadFinal(w, e) == Postprocessed(w, e)
Kept(w, e) == e

\* set_phash_cache; a failure is passed over.
Store(w) ==
  /\ job[w].kind = "store"
  /\ \/ cache' = [cache EXCEPT ![Hash[job[w].image]][KeyVersion(w)] = Kept(w, job[w].invoice)]
     \/ UNCHANGED cache
  /\ job' = [job EXCEPT ![w].kind = "postprocess"]
  /\ UNCHANGED <<release, result>>

Persist(w) ==
  /\ job[w].kind = "postprocess"
  /\ result' = [result EXCEPT ![w] =
       [Postprocessed(w, job[w].invoice) EXCEPT !.kind = "result"]]
  /\ job' = [job EXCEPT ![w] = None]
  /\ UNCHANGED <<release, cache>>

-----------------------------------------------------------------------------

\* A worker is replaced by one of another release; its job goes back to the
\* queue or is swept, and its result stays with the release that made it.
Deploy(w) ==
  /\ \E r \in Releases : release' = [release EXCEPT ![w] = r]
  /\ job' = [job EXCEPT ![w] = None]
  /\ result' = [result EXCEPT ![w] = None]
  /\ UNCHANGED cache

\* The TTL of an entry.
Expire ==
  /\ \E h \in Hashes, v \in Versions : cache' = [cache EXCEPT ![h][v] = None]
  /\ UNCHANGED <<release, job, result>>

Next ==
  \/ \E w \in Workers : \/ Take(w) \/ CacheLookup(w) \/ Extract(w)
                        \/ Store(w) \/ Persist(w) \/ Deploy(w)
  \/ Expire

Spec == Init /\ [][Next]_vars

-----------------------------------------------------------------------------
(* Properties.                                                             *)

Results == {w \in Workers : result[w] # None}

\* A result comes from an extraction with the prompt of the worker's release,
\* whoever extracted it. (the version in the key)
OwnPrompt == \A w \in Results : result[w].psv = release[w].psv

\* Its names are matched against the whitelist of the worker's release, also on
\* a cache hit. (the cache keeps what is raw)
OwnWhitelist == \A w \in Results : result[w].names = release[w].whitelist

\* It has no field that the worker's release does not know. (extra="forbid")
KnownFields == \A w \in Results : result[w].schema <= release[w].schema
=============================================================================
