---------------------------- MODULE AnalysisCache ----------------------------
(***************************************************************************)
(* The analysis of a source drawing (cad_vision/analyzer.py) by several    *)
(* server processes that share a directory of results (cad_vision/         *)
(* cache.py).  Somebody may replace the source, whose bytes are a version, *)
(* and upgrade the packages at any moment; every read of the file is a     *)
(* step; a server may be killed at any of them.                            *)
(***************************************************************************)
EXTENDS DimensionEvidence, FiniteSets

CONSTANTS Servers,    \* server processes, each with one call at a time
          Requests,   \* [policy, pages, rotations, unit] that clients ask with
          Versions,   \* what the bytes of the source may be
          Contents,   \* what they may hold: [words, pages, scans, texts] of each version
          MaxRuntime, \* bound: versions of the packages
          MaxReplaced \* bound: how often the source is replaced

ASSUME AnalysisAssumption ==
    /\ \A r \in Requests : r.policy \in {"off", "auto", "force"} /\ r.pages \in Nat \ {0}
    \* only a page that is there wants OCR; words and texts come one after another,
    \* each with two edges or no box
    /\ \A c \in Contents : \A version \in Versions :
          /\ c[version].scans \subseteq c[version].pages
          /\ c[version].words \in Seq(ToSet(c[version].words))
          /\ c[version].texts \in Seq(ToSet(c[version].texts))
          /\ \A x \in ToSet(c[version].words) \union ToSet(c[version].texts) : x.box \in Box
    /\ MaxDimensions \in Nat
    /\ MaxRuntime \in Nat \ {0} /\ MaxReplaced \in Nat

VARIABLES
    contents,    \* what the versions hold
    file,        \* the version that the source is now
    replaced,    \* how often it was replaced
    installed,   \* the version of the packages
    cache,       \* the results: key -> result
    call         \* of each server: the call at work, or what it answered

vars == <<contents, file, replaced, installed, cache, call>>

Idle == [at |-> "idle"]
Torn == [ocr |-> "torn"]   \* the beginning of a result, which cannot be read
Stages == {"digested", "look", "extract", "raster", "ocr", "merge", "save", "publish"}

TypeOK ==
    /\ file \in Versions /\ replaced \in 0 .. MaxReplaced /\ installed \in 1 .. MaxRuntime
    \* an entry is always a whole result
    /\ \A key \in DOMAIN cache : key.sha \in Versions /\ cache[key] # Torn
    /\ \A s \in Servers : call[s] = Idle \/ /\ call[s].at \in Stages \union {"answered"}
                                             /\ call[s].request \in Requests

Init ==
    /\ contents \in Contents /\ file \in Versions /\ replaced = 0 /\ installed = 1
    /\ cache = <<>> /\ call = [s \in Servers |-> Idle]

-----------------------------------------------------------------------------
(* What an analysis of a source finds, whatever version it is.              *)

\* The elements that are wanted, in their order.
Kept(sequence, wanted) ==
    FoldLeft(LAMBDA kept, x : IF x \in wanted THEN Append(kept, x) ELSE kept, <<>>, sequence)

Upto(sequence, pages) == Kept(sequence, {x \in ToSet(sequence) : x.page <= pages})

VectorDimensions(source, pages) ==
    LET words == Upto(source.words, pages) IN [i \in DOMAIN words |-> VectorDimension(words[i])]

\* extract_vector_pdf: the words of the pages, and the pages that want OCR.
extract_vector_pdf(source, pages) ==
    [dimensions |-> VectorDimensions(source, pages),
     pages |-> {p \in source.pages : p <= pages},
     required |-> {p \in source.scans : p <= pages}]

\* Which pages are read: all of them, those that want it, none.
Selected(request, vector) ==
    CASE request.policy = "force" -> vector.pages
      [] request.policy = "auto"  -> vector.required
      [] request.policy = "off"   -> {}

\* extract_ocr reads the selected pages upright and in each rotation.
extract_ocr(source, selected, rotations) ==
    LET wanted == {t \in ToSet(source.texts) :
                      t.page \in selected /\ t.pass \in {0} \union rotations}
        texts == Kept(source.texts, wanted)
        items == TextEvidence(texts, rotations)
    IN  [i \in DOMAIN items |-> OcrDimension(items[i])]

\* "unavailable" without the packages, "error" when the inference fails twice.
OcrOutcomes(request, selected) ==
    IF selected # {} THEN {"ok", "error", "unavailable"}
    ELSE IF request.policy = "off" THEN {"disabled"} ELSE {"not_required"}

\* The whole analysis of a source whose OCR went well, when it was needed.
Analysed(source, request) ==
    LET vector == extract_vector_pdf(source, request.pages)
        selected == Selected(request, vector)
        found == IF selected = {} THEN <<>>
                 ELSE extract_ocr(source, selected, request.rotations)
    IN  [dimensions |-> merge_dimension_evidence(vector.dimensions, found),
         complete |-> vector.required \subseteq selected, unit |-> request.unit]

-----------------------------------------------------------------------------
(* The cache.                                                               *)

\* Slip: an option that is left out of the key.
cache_key_PagesForgotten(c) == [sha |-> c.sha, runtime |-> c.runtime,
                                request |-> [c.request EXCEPT !.pages = 1]]

cache_key(c) == [sha |-> c.sha, runtime |-> c.runtime, request |-> c.request]

\* Slip: a failure of the moment is kept.
_reusable_Any(policy, ocr) == TRUE

_reusable(policy, ocr) ==
    \/ policy = "off" /\ ocr = "disabled"
    \/ policy = "auto" /\ ocr = "not_required"
    \/ policy \in {"auto", "force"} /\ ocr = "ok"

\* An entry counts when it was made of such bytes, with such packages, for
\* such a policy and unit; the rest of the options is in the key.
load_result(c) ==
    LET key == cache_key(c)
        usable == /\ key \in DOMAIN cache
                  /\ cache[key] # Torn
                  /\ _reusable(cache[key].request.policy, cache[key].ocr)
                  /\ cache[key].sha = c.sha /\ cache[key].size = c.size
                  /\ cache[key].runtime = c.runtime
                  /\ cache[key].request.policy = c.request.policy
                  /\ cache[key].request.unit = c.request.unit
    IN  IF usable THEN {cache[key]} ELSE {}

Stored(key, result) ==
    cache' = [k \in DOMAIN cache \union {key} |-> IF k = key THEN result ELSE cache[k]]

\* Slip: the entry is written in its place.
Written_InPlace(c) == Stored(cache_key(c), Torn)

\* The result is written to a temporary file.
Written(c) == UNCHANGED cache

-----------------------------------------------------------------------------
(* The steps of analyze_source.  A step that fails ends the call with an   *)
(* error.                                                                   *)

\* A call comes to know more, or knows it better.
Updated(c, to) ==
    [field \in DOMAIN c \union DOMAIN to |-> IF field \in DOMAIN to THEN to[field] ELSE c[field]]

Step(s, from, to) == call[s].at = from /\ call' = [call EXCEPT ![s] = Updated(@, to)]
Unchanged == UNCHANGED <<contents, file, replaced, installed>>

\* The bytes are hashed; their number is asked for afterwards.
Digest(s) ==
    /\ call[s].at \in {"idle", "answered"}
    /\ \E request \in Requests :
        call' = [call EXCEPT ![s] = [at |-> "digested", request |-> request, sha |-> file]]
    /\ Unchanged /\ UNCHANGED cache

Fingerprint(s) ==
    /\ Step(s, "digested", [at |-> "look", size |-> file, runtime |-> installed])
    /\ Unchanged /\ UNCHANGED cache

Hit(s) ==
    /\ call[s].at = "look"
    /\ \E result \in load_result(call[s]) :
        Step(s, "look", [at |-> "answered", hit |-> TRUE, result |-> result])
    /\ Unchanged /\ UNCHANGED cache

Miss(s) ==
    /\ call[s].at = "look" /\ load_result(call[s]) = {}
    /\ Step(s, "look", [at |-> "extract"])
    /\ Unchanged /\ UNCHANGED cache

\* The file is opened again for each part of the analysis.
Extract(s) ==
    /\ call[s].at = "extract"
    /\ Step(s, "extract",
            [at |-> "raster", vector |-> extract_vector_pdf(contents[file], call[s].request.pages),
             read |-> {file}])
    /\ Unchanged /\ UNCHANGED cache

\* Lines and circles in the pictures are candidates only, and left out here.
add_raster_geometry(s) ==
    /\ call[s].at = "raster"
    /\ Step(s, "raster", [at |-> "ocr", read |-> call[s].read \union {file}])
    /\ Unchanged /\ UNCHANGED cache

Ocr(s) ==
    /\ call[s].at = "ocr"
    /\ LET selected == Selected(call[s].request, call[s].vector)
       IN  \E status \in OcrOutcomes(call[s].request, selected) :
            Step(s, "ocr",
                 [at |-> "merge", ocr |-> status,
                  found |-> IF status = "ok"
                            THEN extract_ocr(contents[file], selected,
                                             call[s].request.rotations)
                            ELSE <<>>,
                  read |-> call[s].read \union IF selected = {} THEN {} ELSE {file}])
    /\ Unchanged /\ UNCHANGED cache

\* Required pages count as covered when OCR ran and went well.
Merge(s) ==
    /\ call[s].at = "merge"
    /\ LET c == call[s]
           analysis ==
             [dimensions |-> merge_dimension_evidence(c.vector.dimensions, c.found),
              complete |-> c.vector.required = {} \/ (c.request.policy # "off" /\ c.ocr = "ok"),
              unit |-> c.request.unit]
           result == [analysis |-> analysis, ocr |-> c.ocr, request |-> c.request, sha |-> c.sha,
                      size |-> c.size, runtime |-> c.runtime, read |-> c.read]
       IN  call' = [call EXCEPT ![s] = [at |-> "save", request |-> c.request, sha |-> c.sha,
                                        size |-> c.size, runtime |-> c.runtime,
                                        hit |-> FALSE, result |-> result]]
    /\ Unchanged /\ UNCHANGED cache

SkipSave(s) ==
    /\ call[s].at = "save" /\ ~_reusable(call[s].request.policy, call[s].result.ocr)
    /\ Step(s, "save", [at |-> "answered"])
    /\ Unchanged /\ UNCHANGED cache

WriteTemporary(s) ==
    /\ call[s].at = "save" /\ _reusable(call[s].request.policy, call[s].result.ocr)
    /\ Step(s, "save", [at |-> "publish"])
    /\ Written(call[s]) /\ Unchanged

\* os.replace, or an error that leaves what is there.
Publish(s) ==
    /\ call[s].at = "publish" /\ Step(s, "publish", [at |-> "answered"])
    /\ Stored(cache_key(call[s]), call[s].result) \/ UNCHANGED cache
    /\ Unchanged

\* A call fails, or its server is killed and started again.
Fail(s) ==
    /\ call[s].at # "idle" /\ call' = [call EXCEPT ![s] = Idle]
    /\ Unchanged /\ UNCHANGED cache

analyze_source(s) ==
    \/ Digest(s) \/ Fingerprint(s) \/ Hit(s) \/ Miss(s) \/ Extract(s) \/ add_raster_geometry(s)
    \/ Ocr(s) \/ Merge(s) \/ SkipSave(s) \/ WriteTemporary(s) \/ Publish(s) \/ Fail(s)

\* The source is replaced.
Replace ==
    /\ replaced < MaxReplaced /\ replaced' = replaced + 1
    /\ file' \in Versions \ {file}
    /\ UNCHANGED <<contents, installed, cache, call>>

Upgrade == installed < MaxRuntime /\ installed' = installed + 1
           /\ UNCHANGED <<contents, file, replaced, cache, call>>

Next == (\E s \in Servers : analyze_source(s)) \/ Replace \/ Upgrade

Spec == Init /\ [][Next]_vars

-----------------------------------------------------------------------------
Answers == {s \in Servers : call[s].at = "answered"}

\* A call that is answered from the cache gets what an analysis of its own would
\* have found, with OCR that went well: other calls published under other keys,
\* failed, were killed or did so at the same time.  The exception is a result
\* that was published by a call under whose hands the source was replaced (the
\* file is hashed once and opened again for each part).
HitIsFresh ==
    \A s \in Answers : call[s].hit /\ call[s].result.read = {call[s].sha} =>
        call[s].result.analysis = Analysed(contents[call[s].sha], call[s].request)

\* What was read stays in evidence: each text of a page that was read is in a
\* dimension of its value at its place, unless there are too many.
Represented(result, selected) ==
    \/ Len(result.analysis.dimensions) = MaxDimensions
    \/ \A t \in ToSet(contents[result.sha].texts) :
         t.page \in selected /\ t.pass \in {0} \union result.request.rotations =>
             \E d \in ToSet(result.analysis.dimensions) :
                 /\ d.value = t.value /\ d.page = t.page
                 /\ \E p \in d.provenance :
                     /\ p.source = "ocr" /\ t.pass \in p.passes
                     /\ p.box = t.box \/ SameLocation(p.box, t.box)

\* A dimension is marked when a reading it rests on was seen by rotated passes
\* alone or is contradicted by one that is kept at the same place, also after it
\* joined a text of the PDF.
DoubtfulMarked(dimensions) ==
    \A d \in dimensions : \A p \in d.provenance :
        p.source = "ocr" =>
            \/ d.confirm
            \/ /\ 0 \in p.passes
               /\ ~\E e \in dimensions : \E q \in e.provenance :
                    /\ e.value # d.value /\ e.page = d.page
                    /\ q.source = "ocr" /\ SameLocation(q.box, p.box)

\* Coverage is complete only if OCR read every page that wanted it.
Reviewed(result) ==
    LET vector == extract_vector_pdf(contents[result.sha], result.request.pages)
        selected == IF result.ocr = "ok" THEN Selected(result.request, vector) ELSE {}
    IN  /\ Represented(result, selected)
        /\ result.request.rotations # {} => DoubtfulMarked(ToSet(result.analysis.dimensions))
        /\ result.analysis.complete => vector.required \subseteq selected

\* So it is in every answer, fresh or from the cache.
ReviewSurvives ==
    \A s \in Answers : call[s].result.read = {call[s].sha} => Reviewed(call[s].result)

-----------------------------------------------------------------------------
(* What the documents say, and the code does not do.                        *)

\* A cached result is reused for "identical source/options combinations"
\* (docs/CAD_OCR.md): not when the source was replaced while it was analysed.
EveryHitIsFresh ==
    \A s \in Answers : call[s].hit =>
        call[s].result.analysis = Analysed(contents[call[s].sha], call[s].request)

\* "Conflicting readings (for example 2 and 12) are both kept with
\* needs_confirmation=true" (docs/CAD_OCR.md): not when one of them joined an
\* equal reading whose box does not touch the other's.
ConflictsMarked ==
    \A s \in Answers : call[s].result.ocr = "ok" /\ call[s].result.read = {call[s].sha} =>
        LET result == call[s].result
            source == contents[result.sha]
            selected == Selected(result.request, extract_vector_pdf(source, result.request.pages))
            read == {t \in ToSet(source.texts) :
                        t.page \in selected /\ t.pass \in {0} \union result.request.rotations}
        IN  result.request.rotations # {} =>
            \A t, u \in read :
                t.value # u.value /\ t.page = u.page /\ SameLocation(t.box, u.box) =>
                    \E d \in ToSet(result.analysis.dimensions) : d.value = t.value /\ d.confirm
=============================================================================
