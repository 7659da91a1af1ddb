---------------------------- MODULE ReceiptImage -----------------------------
(***************************************************************************)
(* From the URL of a job to the crop that Gemini reads: download_image     *)
(* (src/storage/http_client.py), preprocess_image and detect_invoice       *)
(* (src/pipeline), and how execute_task_lifecycle takes what they raise.   *)
(* A behaviour takes one image through them.  Coordinates are exact here,  *)
(* where the code has floats.                                              *)
(*                                                                         *)
(* A name with _Bad is a wrong variant of the definition that follows it.  *)
(***************************************************************************)
EXTENDS Integers

CONSTANTS
  Size,     \* the side of the canvas: _IMG_SIZE
  MaxDim,   \* settings.MAX_IMAGE_DIMENSION
  PadPart,  \* 1 / settings.YOLO_CROP_PAD_PERCENT
  Sides,    \* the widths and heights of photos
  Edges     \* edges of boxes on the canvas, in half pixels

ASSUME ImageAssumption ==
  /\ Size \in Nat \ {0} /\ MaxDim \in Nat \ {0} /\ PadPart \in Nat \ {0}
  /\ Sides \subseteq Nat \ {0} /\ Edges \subseteq Int

VARIABLES
  stage,  \* what is next for the image
  met,    \* what the last stage met: an answer of the CDN, of PIL or of Triton
  photo,  \* width and height as they were uploaded
  pic,    \* width and height after the preprocessing
  box,    \* the span of the best box in both directions
  crop,   \* the span of the crop in both directions
  fate    \* how the image ended

image == <<stage, met, photo, pic, box, crop, fate>>

Axes == {1, 2}
Unknown == <<0, 0>>
NoSpans == <<Unknown, Unknown>>

ImageInit ==
  /\ stage = "download" /\ met = "none" /\ fate = "open"
  /\ photo = Unknown /\ pic = Unknown /\ box = NoSpans /\ crop = NoSpans

\* "permanent": failed for good; "requeue": counted and tried again;
\* "uncaught": failed by the last handler of the lifecycle.
Ends(what, how) == stage' = "done" /\ met' = what /\ fate' = how
Passes(what, next) == stage' = next /\ met' = what /\ UNCHANGED fate

-----------------------------------------------------------------------------
(* download_image.                                                         *)

Success == {"200"}
Redirects == {"302", "304"}
ClientErrors == {"404", "429"}
ServerErrors == {"500", "503"}

\* httpx follows redirects that name a target; raise_for_status raises for the
\* others, and its HTTPStatusError is raised again, past the clauses for
\* downloads in the lifecycle, as is what httpx raises for no URL.
Download ==
  /\ stage = "download"
  /\ \/ \E status \in ServerErrors \union {"no answer"} : Ends(status, "requeue")
     \/ \E status \in ClientErrors : Ends(status, "permanent")
     \/ \E status \in Redirects \union {"no URL"} : Ends(status, "uncaught")
     \/ \E status \in Success :
          Passes(status, "preprocess") \/ Ends(status, "permanent")  \* too large
  /\ UNCHANGED <<photo, pic, box, crop>>

-----------------------------------------------------------------------------
(* preprocess_image.                                                       *)

Shorter(size) == IF size[1] < size[2] THEN size[1] ELSE size[2]
Longer(size) == IF size[1] < size[2] THEN size[2] ELSE size[1]

\* thumbnail of PIL: the longer side becomes MaxDim, the shorter one is rounded
\* to a neighbour, but at least 1.
Thumbnails(size) ==
  IF Longer(size) <= MaxDim THEN {size}
  ELSE {t \in (1..MaxDim) \X (1..MaxDim) :
          \A a \in Axes :
            IF size[a] = Longer(size) THEN t[a] = MaxDim
            ELSE \/ t[a] \in (MaxDim * size[a]) \div Longer(size)
                             .. -((-MaxDim * size[a]) \div Longer(size))
                 \/ t[a] = 1 /\ MaxDim * size[a] < Longer(size)}

\* PIL opens and loads the image, or raises one of the two classes that are
\* caught, or any other. The image is turned, converted, made smaller and hashed
\* where nothing is caught.
Preprocess ==
  /\ stage = "preprocess"
  /\ \/ \E size \in Sides \X Sides :
          /\ photo' = size
          /\ \/ pic' \in Thumbnails(size) /\ Passes("photo", "detect")
             \/ Ends("photo", "uncaught") /\ UNCHANGED pic
     \/ \E how \in {"permanent", "uncaught"} : Ends("junk", how) /\ UNCHANGED <<photo, pic>>
  /\ UNCHANGED <<box, crop>>

-----------------------------------------------------------------------------
(* detect_invoice.                                                         *)

\* round of Python, of n / d.
Rounded(n, d) ==
  LET floor == n \div d
      twice == 2 * (n % d)
  IN  IF twice < d \/ (twice = d /\ floor % 2 = 0) THEN floor ELSE floor + 1

\* The picture is centred on the canvas: how many pixels it takes and where it
\* begins.
\* The pixels are counted without rounding.
Taken_BadFloor(a) == (pic[a] * Size) \div Longer(pic)
Taken(a) == Rounded(pic[a] * Size, Longer(pic))
Begin(a) == (Size - Taken(a)) \div 2

\* An edge of the box on the picture, in parts of 1 / (2 * Size) pixel.
\* The picture is taken to begin in the corner.
Back_BadCorner(a, edge) == edge * Longer(pic)
Back(a, edge) == (edge - 2 * Begin(a)) * Longer(pic)

Cropped(a, span) ==
  LET from == Back(a, span[1])
      to == Back(a, span[2])
      low == Rounded(PadPart * from - (to - from), 2 * Size * PadPart)
      high == Rounded(PadPart * to + (to - from), 2 * Size * PadPart)
  IN  <<IF low > 0 THEN low ELSE 0, IF high < pic[a] THEN high ELSE pic[a]>>

Spans == {s \in Edges \X Edges : s[1] <= s[2]}

\* PIL cannot resize to a side of 0 pixels: _letterbox raises. Triton may be
\* away, answer without the tensor or with one of another shape, and its best
\* box may be unsure or hold no numbers.
Detect ==
  /\ stage = "detect"
  /\ \/ (\E a \in Axes : Taken(a) = 0) /\ Ends("thread", "uncaught") /\ UNCHANGED <<box, crop>>
     \/ /\ \A a \in Axes : Taken(a) > 0
        /\ \/ Ends("unavailable", "requeue") /\ UNCHANGED <<box, crop>>
           \/ \E reply \in {"no tensor", "no numbers"} :
                Ends(reply, "uncaught") /\ UNCHANGED <<box, crop>>
           \/ \E reply \in {"other shape", "unsure"} :
                Ends(reply, "permanent") /\ UNCHANGED <<box, crop>>
           \/ \E spans \in Spans \X Spans :
                LET found == [a \in Axes |-> Cropped(a, spans[a])]
                IN  /\ box' = spans
                    /\ IF \A a \in Axes : found[a][1] < found[a][2]
                       THEN crop' = found /\ Ends("box", "cropped")
                       ELSE Ends("box", "permanent") /\ UNCHANGED crop
  /\ UNCHANGED <<photo, pic>>

-----------------------------------------------------------------------------

ImageNext == Download \/ Preprocess \/ Detect

ImageSpec == ImageInit /\ [][ImageNext]_image

-----------------------------------------------------------------------------
(* Properties.                                                             *)

\* Where pixel i of the picture begins on the canvas, in half pixels times the
\* length of the side: the way of _letterbox, forwards.
At(a, i) == 2 * (Begin(a) * pic[a] + i * Taken(a))

InBox(a, i) == box[a][1] * pic[a] <= At(a, i) /\ At(a, i + 1) <= box[a][2] * pic[a]

\* Pixel i lies in the box with its padding, in part at least.
NearBox(a, i) ==
  LET pad == box[a][2] - box[a][1]
  IN  /\ PadPart * At(a, i + 1) >= (PadPart * box[a][1] - pad) * pic[a]
      /\ PadPart * At(a, i) <= (PadPart * box[a][2] + pad) * pic[a]

\* How far off the two roundings may be: less than two pixels of a picture that
\* is at most two and a half times as long as the canvas, as in the settings.
Blur == 1

\* The crop shows what the model has framed: the pixels whose place on the
\* canvas is in the box, and none that is further away than the padding, but
\* for the blur of the two roundings; a box is thrown away only if it frames no
\* more than the blur. (detect_invoice against _letterbox)
CropShowsBox ==
  /\ fate = "cropped" =>
       \A a \in Axes : \A i \in 0..pic[a] - 1 :
         /\ InBox(a, i) => crop[a][1] - Blur <= i /\ i < crop[a][2] + Blur
         /\ crop[a][1] <= i /\ i < crop[a][2] =>
              \E d \in -Blur..Blur : NearBox(a, i + d)
  /\ fate = "permanent" /\ met = "box" =>
       \E a \in Axes : ~\E i \in 0..pic[a] - 1 - 2 * Blur : InBox(a, i) /\ InBox(a, i + 2 * Blur)

\* A picture of which nothing is left on the canvas was uploaded more than Size
\* times as long as wide: the thumbnail and the letterbox, which both round its
\* shorter side, lose no other. (thumbnail in preprocess_image, _letterbox)
OnlyThreadsVanish == met = "thread" => Longer(photo) > Size * Shorter(photo)
=============================================================================
