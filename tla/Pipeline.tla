------------------------------ MODULE Pipeline ------------------------------
(***************************************************************************)
(* What execute_task_lifecycle (src/worker/loop.py) does with the data of  *)
(* a job, before and behind Gemini: its image becomes a crop               *)
(* (ReceiptImage), and each field of the extraction is postprocessed       *)
(* (Postprocessor).  What Gemini reads in a crop may be anything, so that  *)
(* a behaviour goes one of the two ways.                                   *)
(***************************************************************************)
EXTENDS Postprocessor, ReceiptImage

\* The image is behind the job, or there is no field yet.
PipeInit ==
  \/ /\ PostInit
     /\ stage = "extracted" /\ met = "none" /\ fate = "open"
     /\ photo = Unknown /\ pic = Unknown /\ box = NoSpans /\ crop = NoSpans
  \/ /\ ImageInit
     /\ Init /\ AnyList
     /\ field = "image" /\ raw = Blank /\ out = Pending

PipeNext ==
  \/ ImageNext /\ UNCHANGED <<vars, field, raw, out>>
  \/ field # "image" /\ PostNext /\ UNCHANGED image

PipeSpec == PipeInit /\ [][PipeNext]_<<vars, field, raw, out, image>>
=============================================================================
