-------------------------- MODULE DimensionEvidence --------------------------
(***************************************************************************)
(* The evidence for a dimension of a source drawing: texts that OCR reads  *)
(* in several passes (cad_vision/ocr_rotation.py), dimensions that are     *)
(* parsed from them, and dimensions that the text of the PDF gives as well *)
(* (_merge_dimension_evidence).  A text stands for the one dimension it is *)
(* parsed to.  Boxes have one height, so a box is its two edges.           *)
(***************************************************************************)
EXTENDS Integers, SequencesExt

CONSTANT MaxDimensions   \* 200, how many merged dimensions are kept

NoBox == <<>>   \* OCR gave no usable box
Box == {NoBox} \union (Int \X Int)

Width(box) == box[2] - box[1]
Shared(a, b) == Min({a[2], b[2]}) - Max({a[1], b[1]})
Covered(a, b) == Width(a) + Width(b) - Shared(a, b)

\* Boxes of like size, of which half the smaller and a fifth of both is shared.
SameLocation(a, b) ==
    /\ a # NoBox /\ b # NoBox
    /\ Shared(a, b) > 0
    /\ LET small == Min({Width(a), Width(b)}) IN
        /\ Max({Width(a), Width(b)}) <= 4 * small
        /\ 2 * Shared(a, b) >= small
    /\ 5 * Shared(a, b) >= Covered(a, b)

-----------------------------------------------------------------------------
(* merge_orientation_evidence.  A text of one pass joins an equal text of  *)
(* another pass at its place.                                               *)

ObservedText(text) ==
    [value |-> text.value, page |-> text.page, box |-> text.box, passes |-> {text.pass},
     confirm |-> text.box = NoBox]

Duplicates(items, text) ==
    {i \in DOMAIN items :
        /\ text.pass \notin items[i].passes
        /\ items[i].value = text.value /\ items[i].page = text.page
        /\ SameLocation(items[i].box, text.box)}

AddText(items, text) ==
    IF Duplicates(items, text) = {} THEN Append(items, ObservedText(text))
    ELSE [items EXCEPT ![Min(Duplicates(items, text))].passes = @ \union {text.pass}]

Conflicts(items, i) ==
    {j \in DOMAIN items :
        /\ items[j].value # items[i].value /\ items[j].page = items[i].page
        /\ SameLocation(items[j].box, items[i].box)}

\* Slip: what rotated passes agree on counts as read.
NeedsReview_TwoPasses(items, i) ==
    items[i].confirm \/ Conflicts(items, i) # {} \/ Cardinality(items[i].passes \ {0}) = 1

\* A reading that no upright pass gave, or that another one contradicts.
NeedsReview(items, i) ==
    items[i].confirm \/ Conflicts(items, i) # {} \/ 0 \notin items[i].passes

merge_orientation_evidence(texts) ==
    LET items == FoldLeft(AddText, <<>>, texts)
    IN  [i \in DOMAIN items |-> [items[i] EXCEPT !.confirm = NeedsReview(items, i)]]

\* With one pass there is nothing to compare.
TextEvidence(texts, rotations) ==
    IF rotations = {} THEN [i \in DOMAIN texts |-> ObservedText(texts[i])]
    ELSE merge_orientation_evidence(texts)

-----------------------------------------------------------------------------
(* Dimensions, with where they come from.                                   *)

VectorDimension(word) ==
    [value |-> word.value, page |-> word.page, box |-> word.box, confirm |-> FALSE,
     provenance |-> {[source |-> "vector_text", box |-> word.box, passes |-> {}]}]

OcrDimension(item) ==
    [value |-> item.value, page |-> item.page, box |-> item.box, confirm |-> item.confirm,
     provenance |-> {[source |-> "ocr", box |-> item.box, passes |-> item.passes]}]

Matches(merged, d) ==
    {i \in DOMAIN merged :
        /\ merged[i].value = d.value /\ merged[i].page = d.page
        /\ SameLocation(merged[i].box, d.box)}

\* The shares of two boxes in what they cover with a third.
Closer(a, b, box) == Shared(a, box) * Covered(b, box) > Shared(b, box) * Covered(a, box)

\* Of equally close ones, the first.
Best(merged, d) ==
    Min({i \in Matches(merged, d) :
            \A j \in Matches(merged, d) : ~Closer(merged[j].box, merged[i].box, d.box)})

\* Slip: the dimension that is there stays as it is.
Joined_FlagLost(old, new) == [old EXCEPT !.provenance = @ \union new.provenance]

Joined(old, new) ==
    [old EXCEPT !.provenance = @ \union new.provenance, !.confirm = @ \/ new.confirm]

AddDimension(merged, d) ==
    IF Matches(merged, d) = {} THEN Append(merged, d)
    ELSE [merged EXCEPT ![Best(merged, d)] = Joined(@, d)]

merge_dimension_evidence(vector, ocr) ==
    LET merged == FoldLeft(AddDimension, <<>>, vector \o ocr)
    IN  SubSeq(merged, 1, Min({Len(merged), MaxDimensions}))
=============================================================================
