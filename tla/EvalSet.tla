------------------------------- MODULE EvalSet -------------------------------
(***************************************************************************)
(* The two scripts that read the verified labels: split_eval_set.py cuts   *)
(* them into a dev set and a test set, type by type, and                   *)
(* extract_whitelist.py collects the names that WhitelistIndex loads.      *)
(* Either may be killed between two of its files and be run again, with    *)
(* another seed.                                                           *)
(*                                                                         *)
(* A name with _Bad is a wrong variant of the definition that follows it.  *)
(***************************************************************************)
EXTENDS Integers, SequencesExt

CONSTANTS
  Labels,         \* records: type, _verify_status, whether complete, names
  MaxLabels,      \* bound of the runs: records of the label file
  Lowered,        \* lower() of a type
  Nfc,            \* nfc() of a name
  Uncorrectable,  \* UNCORRECTABLE_IDX
  TestParts,      \* --test-ratio is TestParts / RatioParts
  RatioParts,
  MaxRuns         \* bound of the runs: how often each script is run

ASSUME EvalSetAssumption ==
  /\ MaxLabels \in Nat /\ MaxRuns \in Nat
  /\ TestParts \in Nat /\ RatioParts \in Nat \ {0}
  /\ \A l \in Labels : /\ l.type \in DOMAIN Lowered
                       /\ l.stores \union l.products \subseteq DOMAIN Nfc

VARIABLES
  labels,     \* label_verified.json
  cutting,    \* where the split stands
  types,      \* the types that are still to be cut
  dev, test,  \* dev_items and test_items
  disk,       \* the files, and which run has written each
  runs,       \* how often each script was started
  listing     \* where the whitelist script stands

set == <<labels, cutting, types, dev, test, disk, runs, listing>>

Unwritten == [run |-> 0, items |-> {}]

SetInit ==
  /\ labels \in UNION {[1..n -> Labels] : n \in 0..MaxLabels}
  /\ cutting = "stopped" /\ listing = "stopped"
  /\ types = {} /\ dev = {} /\ test = {}
  /\ disk = [f \in {"dev_set", "test_set", "stores", "products"} |-> Unwritten]
  /\ runs = [split |-> 0, list |-> 0]

Goldens == DOMAIN labels
Statuses == {"verified_ok", "corrected"}

Saved(name, run, content) == disk' = [disk EXCEPT ![name] = [run |-> run, items |-> content]]

-----------------------------------------------------------------------------
(* split_eval_set.py.                                                      *)

Usable == {i \in Goldens \ Uncorrectable : labels[i].status \in Statuses /\ labels[i].complete}
TypeOf(i) == Lowered[labels[i].type]
ByType(t) == {i \in Usable : TypeOf(i) = t}

BeginSplit ==
  /\ cutting = "stopped" /\ runs.split < MaxRuns
  /\ runs' = [runs EXCEPT !.split = @ + 1]
  /\ cutting' = "cutting" /\ types' = {TypeOf(i) : i \in Usable}
  /\ dev' = {} /\ test' = {}
  /\ UNCHANGED <<labels, disk, listing>>

NumTest(t) ==
  LET share == (Cardinality(ByType(t)) * TestParts) \div RatioParts
  IN  IF t = "coopxtra" /\ share < 2 THEN 2 ELSE share

\* Where a slice of Python that ends, or begins, at k is cut: below 0 it counts
\* from the end.
Place(n, k) == IF k >= 0 THEN (IF k < n THEN k ELSE n) ELSE (IF n + k > 0 THEN n + k ELSE 0)
Until(items, k) == SubSeq(items, 1, Place(Len(items), k))
\* The cut falls behind the item.
From_BadNext(items, k) == SubSeq(items, Place(Len(items), k) + 2, Len(items))
From(items, k) == SubSeq(items, Place(Len(items), k) + 1, Len(items))

\* One turn of the loop; the items of a type are in any order.
CutType ==
  /\ cutting = "cutting"
  /\ \E t \in types : \E items \in SetToSeqs(ByType(t)) :
       LET n_dev == Len(items) - NumTest(t) IN
       /\ dev' = dev \union ToSet(Until(items, n_dev))
       /\ test' = test \union ToSet(From(items, n_dev))
       /\ types' = types \ {t}
  /\ UNCHANGED <<labels, cutting, disk, runs, listing>>

\* Without the assertion the script ends before it writes, as if killed.
WriteSplit ==
  /\ \/ /\ cutting = "cutting" /\ types = {} /\ dev \intersect test = {}
        /\ Saved("dev_set", runs.split, dev) /\ cutting' = "written"
     \/ /\ cutting = "written"
        /\ Saved("test_set", runs.split, test) /\ cutting' = "stopped"
  /\ UNCHANGED <<labels, types, dev, test, runs, listing>>

-----------------------------------------------------------------------------
(* extract_whitelist.py.                                                   *)

\* The default of --status-filter.
\* Labels that were corrected are left out.
Allowed_BadOk == {"verified_ok"}
Allowed == {"verified_ok", "corrected"}

Collected(kind) ==
  UNION {{Nfc[n] : n \in labels[i][kind]} : i \in {j \in Goldens : labels[j].status \in Allowed}}

BeginList ==
  /\ listing = "stopped" /\ runs.list < MaxRuns
  /\ runs' = [runs EXCEPT !.list = @ + 1]
  /\ listing' = "stores"
  /\ UNCHANGED <<labels, cutting, types, dev, test, disk>>

WriteList ==
  /\ listing # "stopped"
  /\ Saved(listing, runs.list, Collected(listing))
  /\ listing' = IF listing = "stores" THEN "products" ELSE "stopped"
  /\ UNCHANGED <<labels, cutting, types, dev, test, runs>>

-----------------------------------------------------------------------------

Killed ==
  /\ \/ cutting # "stopped" /\ cutting' = "stopped" /\ UNCHANGED listing
     \/ listing # "stopped" /\ listing' = "stopped" /\ UNCHANGED cutting
  /\ UNCHANGED <<labels, types, dev, test, disk, runs>>

SetNext == BeginSplit \/ CutType \/ WriteSplit \/ BeginList \/ WriteList \/ Killed

SetSpec == SetInit /\ [][SetNext]_set

-----------------------------------------------------------------------------
(* Properties.                                                             *)

\* The two files of one run share no record and miss no usable one, a type with
\* fewer records than its floor in the test set included.
\* (the slices at n_dev, main of split_eval_set.py)
SplitIsWhole ==
  LET d == disk["dev_set"]
      t == disk["test_set"]
  IN  d.run > 0 /\ d.run = t.run =>
        d.items \intersect t.items = {} /\ d.items \union t.items = Usable

\* The names that a set expects are in the lists that the workers match names
\* against: the filter of one script passes whatever that of the other passes.
LabelsAreListed ==
  \A f \in {"dev_set", "test_set"} : \A kind \in {"stores", "products"} :
    disk[kind].run > 0 =>
      \A i \in disk[f].items : \A n \in labels[i][kind] : Nfc[n] \in disk[kind].items
=============================================================================
