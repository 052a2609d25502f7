-------------------------- MODULE ObjectReplaceProofs --------------------------
(***************************************************************************)
(* Proofs about ObjectReplace, for pictures of any size up to MaxSide,     *)
(* declared in any way and tapped anywhere.                                *)
(***************************************************************************)
EXTENDS ObjectReplace, TLAPS

-----------------------------------------------------------------------------
(***************************************************************************)
(* The mask the worker paints.                                             *)
(***************************************************************************)

LEMMA RadiusBounds ==
    ASSUME NEW w \in 1..MaxSide, NEW h \in 1..MaxSide,
           size[1] = w, size[2] = h
    PROVE  /\ Radius \in Nat
           /\ w >= 128 /\ h >= 128 =>
                 \/ Radius <= 64
                 \/ 2 * Radius < w /\ 2 * Radius < h
  BY Z3 DEF Radius, Lesser, Greater, MaxSide

\* One of the ends of a side is at least half of it away from the tap.
LEMMA FarEnd ==
    ASSUME NEW w \in 1..MaxSide, w >= 128, NEW t \in 0..MaxSide, t < w
    PROVE  \E x \in {0, w - 1} :
              /\ x - t \in Int
              /\ (x - t >= 64 /\ 2 * (x - t) >= w - 1)
                 \/ (t - x >= 64 /\ 2 * (t - x) >= w - 1)
  BY DEF MaxSide

LEMMA SquareGrows ==
    ASSUME NEW a \in Int, NEW b \in Nat, a >= b \/ -a >= b
    PROVE  a * a >= b * b
  <1>1. CASE a >= b
    <2>1. a * a >= a * b /\ a * b >= b * b
      BY <1>1, Z3
    <2> QED
      BY <2>1, Z3
  <1>2. CASE -a >= b
    <2>1. PICK c \in Nat : c = -a
      BY <1>2
    <2>2. c * c >= c * b /\ c * b >= b * b
      BY <1>2, <2>1, Z3
    <2>3. c * c = a * a
      BY <2>1, Z3
    <2> QED
      BY <2>2, <2>3, Z3
  <1> QED
    BY <1>1, <1>2

\* A circle in a mask of the given size leaves a corner of it alone.
LEMMA CornerKept ==
    ASSUME NEW w \in 1..MaxSide, NEW h \in 1..MaxSide, w >= 128, h >= 128,
           NEW s \in 0..MaxSide, s < w, NEW t \in 0..MaxSide, t < h,
           NEW r \in Nat, r <= 64 \/ (2 * r < w /\ 2 * r < h)
    PROVE  \E x \in {0, w - 1}, y \in {0, h - 1} :
              ~((x - s) * (x - s) + (y - t) * (y - t) <= r * r)
  <1>1. PICK x \in {0, w - 1} :
            /\ x - s \in Int
            /\ (x - s >= 64 /\ 2 * (x - s) >= w - 1)
               \/ (s - x >= 64 /\ 2 * (s - x) >= w - 1)
    BY FarEnd
  <1>2. PICK y \in {0, h - 1} :
            /\ y - t \in Int
            /\ (y - t >= 64 /\ 2 * (y - t) >= h - 1)
               \/ (t - y >= 64 /\ 2 * (t - y) >= h - 1)
    BY FarEnd
  <1> DEFINE a == x - s
             b == y - t
  <1>3. a \in Int /\ b \in Int /\ x \in Int /\ y \in Int
    BY <1>1, <1>2 DEF MaxSide
  <1>4. a >= r \/ -a >= r
    BY <1>1, <1>3 DEF MaxSide
  <1>5. b >= 1 \/ -b >= 1
    BY <1>2, <1>3 DEF MaxSide
  <1> HIDE DEF a, b
  <1>6. a * a >= r * r
    BY <1>3, <1>4, SquareGrows
  <1>7. b * b >= 1 * 1
    BY <1>3, <1>5, SquareGrows
  <1>8. a * a \in Int /\ b * b \in Int /\ r * r \in Int
    BY <1>3
  <1>9. ~(a * a + b * b <= r * r)
    BY <1>6, <1>7, <1>8
  <1> QED
    BY <1>9 DEF a, b

-----------------------------------------------------------------------------
(***************************************************************************)
(* The inductive invariant.                                                *)
(***************************************************************************)

\* Past the checks the request is valid, and the size is the resolved one.
SizeInv ==
    pc \in {"charge", "upload", "segment", "circle", "fill", "done", "failed"}
        => Valid /\ size = Resolved

ModelMask == mask \in Answers /\ Accepted(mask)
OwnMask == kind = "queued" /\ mask = Circle

\* The mask is an accepted one or the circle, from when there has to be one.
MaskInv ==
    /\ pc \in {"fill", "done"} => ModelMask \/ OwnMask
    /\ mask # None => pc \in {"fill", "done", "failed"}
                      /\ (ModelMask \/ OwnMask)

\* Only what was charged for is worked on, and only the worker paints.
ChargeInv ==
    /\ pc \in {"upload", "segment", "circle", "fill", "done"} => charged
    /\ pc \in {"new", "charge"} => ~charged
    /\ pc = "circle" => kind = "queued"

IInv == TypeOK /\ SizeInv /\ MaskInv /\ ChargeInv /\ FailureExplained

USE DEF requestVars, Goto, Fail

\* All that matters of the largest side.
LEMMA Limit == MaxSide \in Nat /\ MaxSide > 1024
  BY DEF MaxSide

\* A size that was resolved is of the right type, and contains the tap.
LEMMA ResolvedSize ==
    ASSUME declared \in (Sides \cup {None}) \X (Sides \cup {None}),
           tap \in Taps \X Taps, kind \in {"direct", "queued"}, Valid
    PROVE  /\ Resolved \in [{1, 2} -> (1..MaxSide) \cup {None}]
           /\ kind = "queued" =>
                 \A i \in {1, 2} :
                    Resolved[i] \in 1..MaxSide /\ tap[i] < Resolved[i]
  <1>1. \A i \in {1, 2} :
            /\ tap[i] \in 0..(MaxSide - 1)
            /\ DefaultFor(i) \in 1..MaxSide /\ tap[i] < DefaultFor(i)
    <2> SUFFICES ASSUME NEW i \in {1, 2}
                 PROVE  /\ tap[i] \in 0..(MaxSide - 1)
                        /\ DefaultFor(i) \in 1..MaxSide /\ tap[i] < DefaultFor(i)
      OBVIOUS
    <2>1. PICK t \in 0..(MaxSide - 1) : t = tap[i]
      BY DEF Valid
    <2>2. DefaultFor(i) = IF t + 1 > 1024 THEN t + 1 ELSE 1024
      BY <2>1 DEF DefaultFor, Greater, DefaultSide
    <2> QED
      BY <2>1, <2>2, Limit
  <1>2. \A i \in {1, 2} : declared[i] # None =>
            declared[i] \in 1..MaxSide /\ tap[i] < declared[i]
    BY DEF Valid
  <1>4. CASE kind = "queued"
    <2>1. Resolved =
            [i \in {1, 2} |->
                IF declared[i] = None THEN DefaultFor(i) ELSE declared[i]]
      BY <1>4 DEF Resolved
    <2> QED
      BY <2>1, <1>1, <1>2
  <1>5. CASE kind = "direct"
    <2>1. Resolved = [i \in {1, 2} |-> declared[i]]
      BY <1>5 DEF Resolved
    <2> QED
      BY <2>1, <1>2, <1>5
  <1> QED
    BY <1>4, <1>5

LEMMA InitIInv == Init => IInv
  <1> SUFFICES ASSUME Init PROVE IInv
    OBVIOUS
  <1>1. TypeOK
    <2>1. size \in [{1, 2} -> (1..MaxSide) \cup {None}]
      BY DEF Init
    <2> QED
      BY <2>1 DEF Init, TypeOK, States
  <1> QED
    BY <1>1 DEF Init, IInv, SizeInv, MaskInv, ChargeInv, FailureExplained

\* The API's steps keep the invariant.
LEMMA ApiInv ==
    ASSUME IInv, Accept \/ Reject \/ Refuse \/ Charge
    PROVE  IInv'
  <1> USE DEF IInv
  <1>1. UNCHANGED <<requestVars, mask, cause>> /\ pc \in {"new", "charge"}
    BY DEF Accept, Reject, Refuse, Charge
  <1>2. SizeInv'
    BY DEF SizeInv, Accept, Reject, Refuse, Charge, Valid, Resolved, DefaultFor
  <1>3. MaskInv' /\ ChargeInv' /\ FailureExplained'
    BY <1>1 DEF MaskInv, ChargeInv, FailureExplained, Accept, Reject, Refuse,
                Charge
  <1>4. TypeOK'
    <2>1. CASE Accept
      BY <2>1, ResolvedSize DEF Accept, TypeOK, States, ChargeInv
    <2>2. CASE Reject \/ Refuse
      BY <2>2 DEF Reject, Refuse, TypeOK, States, ChargeInv
    <2>3. CASE Charge
      <3>1. kind = "queued" =>
                size[1] \in 1..MaxSide /\ size[2] \in 1..MaxSide
        BY <2>3, ResolvedSize DEF Charge, SizeInv, TypeOK
      <3>2. kind = "queued" => None \notin {size[1], size[2]}
        BY <3>1, SizesAssumption, Limit
      <3> QED
        BY <2>3, <3>2 DEF Charge, TypeOK, States
    <2> QED
      BY <2>1, <2>2, <2>3
  <1> QED
    BY <1>2, <1>3, <1>4

\* So do the steps of the pipeline and its repetition.
LEMMA PipelineInv ==
    ASSUME IInv, Pipeline \/ Restart
    PROVE  IInv'
  <1> USE DEF IInv, Pipeline, Upload, UploadFails, Segment, SegmentFails,
              PaintMask, MaskUploadFails, Fill, FillFails, Restart
  <1>1. UNCHANGED <<requestVars, size, charged>>
    BY DEF Pipeline
  <1>2. UNCHANGED <<Valid, Resolved, Circle>>
    BY <1>1 DEF Valid, Resolved, DefaultFor, Circle, Radius
  <1>3. SizeInv'
    BY <1>1, <1>2 DEF SizeInv
  <1>4. ChargeInv' /\ FailureExplained'
    BY <1>1 DEF ChargeInv, FailureExplained
  <1>5. MaskInv'
    <2>1. CASE Segment
      BY <2>1, <1>1 DEF MaskInv, ModelMask, Answers, Accepted
    <2>2. CASE PaintMask
      BY <2>2, <1>1, <1>2 DEF MaskInv, OwnMask, ChargeInv
    <2>3. CASE Fill \/ FillFails
      BY <2>3, <1>1, <1>2
      DEF MaskInv, ModelMask, OwnMask, Answers, Accepted
    <2>4. CASE Restart
      BY <2>4 DEF MaskInv
    <2>5. CASE Upload \/ UploadFails \/ SegmentFails \/ MaskUploadFails
      BY <2>5 DEF MaskInv
    <2> QED
      BY <2>1, <2>2, <2>3, <2>4, <2>5
  <1>6. TypeOK'
    <2>1. mask' = None \/ mask' = mask \/ mask'.of \in {"model", "circle"}
      BY DEF Answers, Circle
    <2>2. pc' \in States /\ cause' \in {"none", "upload", "segment", "fill"}
      BY DEF TypeOK, States
    <2> QED
      BY <2>1, <2>2, <1>1 DEF TypeOK
  <1> QED
    BY <1>3, <1>4, <1>5, <1>6

LEMMA NextIInv == IInv /\ [Next]_vars => IInv'
  <1> SUFFICES ASSUME IInv, [Next]_vars PROVE IInv'
    OBVIOUS
  <1>1. CASE Accept \/ Reject \/ Refuse \/ Charge
    BY <1>1, ApiInv
  <1>2. CASE Pipeline \/ Restart
    BY <1>2, PipelineInv
  <1>3. CASE UNCHANGED vars
    BY <1>3
    DEF vars, IInv, TypeOK, SizeInv, MaskInv, ChargeInv, FailureExplained,
        Valid, Resolved, DefaultFor, ModelMask, OwnMask, Answers, Accepted,
        Circle, Radius
  <1> QED
    BY <1>1, <1>2, <1>3 DEF Next

LEMMA Invariance == Spec => []IInv
  BY InitIInv, NextIInv, PTL DEF Spec

-----------------------------------------------------------------------------
(***************************************************************************)
(* The theorems.                                                           *)
(***************************************************************************)

\* Every variable keeps its type, and a queued pipeline knows both sides.
THEOREM TypeCorrect == Spec => []TypeOK
  BY Invariance, PTL DEF IInv

\* Whoever is turned away has paid nothing, and the segmentation model never
\* makes a queued replacement fail.
THEOREM FailuresHaveReasons == Spec => []FailureExplained
  BY Invariance, PTL DEF IInv

\* With the picture's size declared, a mask of another size reaches the fill
\* model only from a model that did not tell the size.
THEOREM FittingMask == Spec => []MaskFits
  <1>1. IInv => MaskFits
    <2> SUFFICES ASSUME IInv, pc \in {"fill", "done"}, declared = picture
                 PROVE  \/ mask.size = picture
                        \/ mask.of = "model" /\ ~(sam /\ mask.told)
      BY DEF MaskFits
    <2>1. /\ picture \in Int \X Int
          /\ \A i \in {1, 2} : picture[i] # None
      <3>1. picture \in (1..MaxSide) \X (1..MaxSide)
        BY SizesAssumption DEF IInv, TypeOK
      <3> QED
        BY <3>1, SizesAssumption, Limit
    <2>2. \A i \in {1, 2} : size[i] = picture[i]
      BY <2>1 DEF IInv, SizeInv, Resolved
    <2>3. CASE ModelMask
      BY <2>1, <2>2, <2>3 DEF ModelMask, Answers, Accepted
    <2>4. CASE OwnMask
      BY <2>1, <2>2, <2>4 DEF OwnMask, Circle
    <2> QED
      BY <2>3, <2>4 DEF IInv, MaskInv
  <1> QED
    BY <1>1, Invariance, PTL

\* A painted mask covers the tapped pixel and, from 128 pixels a side on, not
\* the whole picture.
THEOREM MaskOnTap == Spec => []MaskAroundTap
  <1>1. IInv => MaskAroundTap
    <2> SUFFICES ASSUME IInv, mask # None, mask.of = "circle"
                 PROVE  MaskAroundTap
      BY DEF MaskAroundTap
    <2>1. kind = "queued" /\ mask = Circle /\ Valid /\ size = Resolved
      BY DEF IInv, MaskInv, ModelMask, OwnMask, Answers, SizeInv
    <2>2. \A i \in {1, 2} :
              size[i] \in 1..MaxSide /\ tap[i] < size[i] /\ tap[i] \in 0..MaxSide
      <3>1. \A i \in {1, 2} : size[i] \in 1..MaxSide /\ tap[i] < size[i]
        BY <2>1, ResolvedSize DEF IInv, TypeOK
      <3>2. \A i \in {1, 2} : tap[i] \in 0..(MaxSide - 1)
        BY <2>1 DEF Valid
      <3> QED
        BY <3>1, <3>2, Limit
    <2> DEFINE w == size[1]
               h == size[2]
               r == Radius
    <2>3. /\ r \in Nat
          /\ w >= 128 /\ h >= 128 => r <= 64 \/ (2 * r < w /\ 2 * r < h)
      BY <2>2, RadiusBounds
    <2>4. mask.size[1] = w /\ mask.size[2] = h /\ mask.radius = r
      BY <2>1 DEF Circle
    <2>5. Painted(mask, tap[1], tap[2])
      <3>1. tap[1] - tap[1] = 0 /\ tap[2] - tap[2] = 0
        BY <2>2
      <3>2. 0 <= r * r
        BY <2>3, SquareGrows
      <3> QED
        BY <3>1, <3>2, <2>4 DEF Painted
    <2>6. w >= 128 /\ h >= 128 =>
              \E x \in {0, w - 1}, y \in {0, h - 1} : ~Painted(mask, x, y)
      <3> SUFFICES ASSUME w >= 128, h >= 128
                   PROVE  \E x \in {0, w - 1}, y \in {0, h - 1} :
                              ~Painted(mask, x, y)
        OBVIOUS
      <3> HIDE DEF w, h, r
      <3> QED
        BY <2>2, <2>3, <2>4, CornerKept DEF Painted, w, h
    <2> QED
      BY <2>2, <2>4, <2>5, <2>6 DEF MaskAroundTap
  <1> QED
    BY <1>1, Invariance, PTL
=============================================================================
