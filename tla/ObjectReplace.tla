---------------------------- MODULE ObjectReplace ----------------------------
(***************************************************************************)
(* One object replacement from its request to its picture: what the API    *)
(* checks, and which mask the pipeline gives to the fill model.            *)
(*                                                                         *)
(* "direct" is POST /object-replace, which runs the pipeline in the        *)
(* request; "queued" is POST /from-upload, whose pipeline runs in the      *)
(* worker, possibly more than once, and paints a mask of its own when the  *)
(* segmentation model gives none.  Nobody reads the picture's size: the    *)
(* client may declare it, and need not be right.  Credits and the row are  *)
(* in DesignRequests.                                                      *)
(***************************************************************************)
EXTENDS Integers

CONSTANTS
    Pictures, \* sizes of pictures, <<width, height>>
    Sides,    \* widths and heights a client may declare
    Taps,     \* coordinates of the tapped pixel
    None      \* not declared, not known

DefaultSide == 1024
MaxSide == 8192

ASSUME SizesAssumption ==
    /\ Pictures \subseteq (1..MaxSide) \X (1..MaxSide)
    /\ Sides \subseteq Int /\ Taps \subseteq Int
    /\ None \notin Int

VARIABLES
    kind,      \* "direct" or "queued"
    sam,       \* the segmentation model is SAM 3.1
    picture,   \* the size of the picture
    declared,  \* <<image_width, image_height>> of the request
    tap,       \* <<x, y>>
    size,      \* the size the pipeline works with
    charged,
    pc,
    mask,      \* the mask the fill model gets
    cause      \* what the pipeline failed at

requestVars == <<kind, sam, picture, declared, tap>>
vars == <<kind, sam, picture, declared, tap, size, charged, pc, mask, cause>>

Lesser(a, b) == IF a < b THEN a ELSE b
Greater(a, b) == IF a > b THEN a ELSE b

\* The validators of schemas.py and the checks of the router.
Valid ==
    \A i \in {1, 2} :
        /\ tap[i] \in 0..(MaxSide - 1)
        /\ declared[i] # None =>
              declared[i] \in 1..MaxSide /\ tap[i] < declared[i]

\* What a queued replacement takes for a side that was not declared.
DefaultFor_NoPoint(i) == DefaultSide
DefaultFor(i) == Greater(tap[i] + 1, DefaultSide)

Resolved ==
    [i \in {1, 2} |->
        IF kind = "queued" /\ declared[i] = None
        THEN DefaultFor(i)
        ELSE declared[i]]

\* Answers of the segmentation model that have a mask: its size (that of the
\* picture, or of a square the model worked with), whether the answer tells
\* it, and the score, if any, against MIN_SEGMENTATION_SCORE.
Answers ==
    [of : {"model"}, size : {picture, <<picture[1], picture[1]>>},
     told : BOOLEAN, score : {"none", "low", "enough"}]

\* Only the answers of SAM are looked at.
Accepted_OneSide(a) ==
    sam => /\ a.told /\ size[1] # None => a.size[1] = size[1]
           /\ a.score # "low"
Accepted(a) ==
    sam => /\ \A i \in {1, 2} : a.told /\ size[i] # None => a.size[i] = size[i]
           /\ a.score # "low"

\* build_circular_mask_png.
Radius ==
    LET wanted == Greater(64, (16 * Lesser(size[1], size[2])) \div 100)
    IN  Greater(8, Lesser(wanted, Greater(size[1], size[2])))
Circle == [of |-> "circle", size |-> <<size[1], size[2]>>, radius |-> Radius]

Painted(c, x, y) ==
    (x - tap[1]) * (x - tap[1]) + (y - tap[2]) * (y - tap[2])
        <= c.radius * c.radius

-----------------------------------------------------------------------------

Init ==
    /\ kind \in {"direct", "queued"}
    /\ sam \in BOOLEAN
    /\ picture \in Pictures
    /\ declared \in (Sides \cup {None}) \X (Sides \cup {None})
    /\ tap \in Taps \X Taps
    /\ size = <<None, None>>
    /\ charged = FALSE
    /\ pc = "new"
    /\ mask = None
    /\ cause = "none"

Goto(state) == pc' = state
Fail(step) == cause' = step /\ pc' = "failed"

\* The upload of a queued replacement is read and stored before the charge.
Accept ==
    /\ pc = "new"
    /\ Valid
    /\ size' = Resolved
    /\ Goto("charge")
    /\ UNCHANGED <<requestVars, charged, mask, cause>>

Reject ==
    /\ pc = "new"
    /\ ~Valid
    /\ Goto("rejected")
    /\ UNCHANGED <<requestVars, size, charged, mask, cause>>

\* The picture cannot be stored, the credits do not suffice, or the job cannot
\* be queued, which rolls the charge back.
Refuse ==
    /\ pc = "charge"
    /\ Goto("rejected")
    /\ UNCHANGED <<requestVars, size, charged, mask, cause>>

\* fal fetches the picture of a direct replacement from the client's URL.
Charge ==
    /\ pc = "charge"
    /\ charged' = TRUE
    /\ Goto(IF kind = "queued" THEN "upload" ELSE "segment")
    /\ UNCHANGED <<requestVars, size, mask, cause>>

-----------------------------------------------------------------------------
(***************************************************************************)
(* The pipeline.                                                           *)
(***************************************************************************)

Upload ==
    /\ pc = "upload"
    /\ Goto("segment")
    /\ UNCHANGED <<requestVars, size, charged, mask, cause>>

UploadFails ==
    /\ pc = "upload"
    /\ Fail("upload")
    /\ UNCHANGED <<requestVars, size, charged, mask>>

Segment ==
    /\ pc = "segment"
    /\ \E a \in Answers :
        /\ Accepted(a)
        /\ mask' = a
    /\ Goto("fill")
    /\ UNCHANGED <<requestVars, size, charged, cause>>

\* The request fails, the answer has no mask, or the mask is not accepted.
SegmentFails_NoFallback ==
    /\ pc = "segment"
    /\ Fail("segment")
    /\ UNCHANGED <<requestVars, size, charged, mask>>
SegmentFails ==
    /\ pc = "segment"
    /\ IF kind = "queued"
       THEN Goto("circle") /\ UNCHANGED cause
       ELSE Fail("segment")
    /\ UNCHANGED <<requestVars, size, charged, mask>>

PaintMask ==
    /\ pc = "circle"
    /\ mask' = Circle
    /\ Goto("fill")
    /\ UNCHANGED <<requestVars, size, charged, cause>>

MaskUploadFails ==
    /\ pc = "circle"
    /\ Fail("upload")
    /\ UNCHANGED <<requestVars, size, charged, mask>>

Fill ==
    /\ pc = "fill"
    /\ Goto("done")
    /\ UNCHANGED <<requestVars, size, charged, mask, cause>>

FillFails ==
    /\ pc = "fill"
    /\ Fail("fill")
    /\ UNCHANGED <<requestVars, size, charged, mask>>

\* The worker died: the job starts over with the arguments it was queued with.
Restart ==
    /\ kind = "queued"
    /\ pc \in {"segment", "circle", "fill"}
    /\ mask' = None
    /\ Goto("upload")
    /\ UNCHANGED <<requestVars, size, charged, cause>>

Pipeline ==
    \/ Upload \/ UploadFails
    \/ Segment \/ SegmentFails
    \/ PaintMask \/ MaskUploadFails
    \/ Fill \/ FillFails

Next ==
    \/ Accept \/ Reject \/ Refuse \/ Charge
    \/ Pipeline \/ Restart

Spec == Init /\ [][Next]_vars

-----------------------------------------------------------------------------

States == {"new", "charge", "upload", "segment", "circle", "fill", "done",
           "failed", "rejected"}

\* Types; a queued pipeline knows both sides, which its circle is built from.
TypeOK ==
    /\ kind \in {"direct", "queued"}
    /\ sam \in BOOLEAN
    /\ picture \in Pictures
    /\ declared \in (Sides \cup {None}) \X (Sides \cup {None})
    /\ tap \in Taps \X Taps
    /\ size \in [{1, 2} -> (1..MaxSide) \cup {None}]
    /\ charged \in BOOLEAN
    /\ pc \in States
    /\ mask = None \/ mask.of \in {"model", "circle"}
    /\ cause \in {"none", "upload", "segment", "fill"}
    /\ kind = "queued" /\ charged => None \notin {size[1], size[2]}

\* If the client declared the picture's size, the fill model gets a mask of
\* that size, unless the model it came from did not say how large it is.
MaskFits ==
    pc \in {"fill", "done"} /\ declared = picture =>
        \/ mask.size = picture
        \/ mask.of = "model" /\ ~(sam /\ mask.told)

\* A painted mask contains and covers the tapped pixel, whether or not a size
\* was declared, and from 128 pixels a side on it leaves part of the picture
\* alone.
MaskAroundTap ==
    mask # None /\ mask.of = "circle" =>
        /\ \A i \in {1, 2} : tap[i] < mask.size[i]
        /\ Painted(mask, tap[1], tap[2])
        /\ (\A i \in {1, 2} : mask.size[i] >= 128) =>
              \E x \in {0, mask.size[1] - 1}, y \in {0, mask.size[2] - 1} :
                  ~Painted(mask, x, y)

\* A request that is turned away costs nothing; one that was paid for fails
\* because of an upload or of the fill model, and because of the segmentation
\* only if it is a direct one.
FailureExplained ==
    /\ pc = "rejected" => ~charged
    /\ pc = "failed" => charged /\ (kind = "queued" => cause # "segment")
=============================================================================
