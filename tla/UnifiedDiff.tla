---------------------------- MODULE UnifiedDiff ----------------------------
(***************************************************************************)
(* Validation of a patch against a file                                    *)
(* (backend/src/bridle/agent/tools/unified_diff.py).                       *)
(*                                                                         *)
(* A diff is the sequence of its lines, each with what its prefix makes of *)
(* it: k is "old" or "new" (the path headers), "@@", " ", "+", "-" or "\". *)
(* A file is the sequence of its lines; `ended' is FALSE for a last line   *)
(* without a line terminator.  A path is the sequence of its segments.     *)
(***************************************************************************)
EXTENDS Integers, Sequences, FiniteSets, SequencesExt

CONSTANT PatchRequest    \* patches handed to validate_patch_for_path

(* A request has at most one original text; what a line of a diff holds    *)
(* depends on its kind.                                                    *)
ASSUME PatchAssumption == \A r \in PatchRequest :
    /\ r.type \in {"add", "modify", "remove"}
    /\ \A text \in r.original : /\ text \in Seq([t : STRING, ended : BOOLEAN])
                                /\ \A other \in r.original : other = text
    /\ r.diff \in Seq({r.diff[i] : i \in DOMAIN r.diff})
    /\ \A i \in DOMAIN r.diff :
          /\ r.diff[i].k = "@@" => r.diff[i].start \in Nat /\ r.diff[i].count \in Nat
          /\ r.diff[i].k \in {" ", "+", "-"} => r.diff[i].t \in STRING

VARIABLES request,  \* {the request that was validated}, {} before
          verdict   \* {the text it results in}, {} if it was refused

diffVars == <<request, verdict>>

DevNull == <<"/dev/null">>

-----------------------------------------------------------------------------
(* Parsing *)

Texts(lines, kinds) ==
    LET ts[n \in 0 .. Len(lines)] ==
            IF n = 0 THEN <<>>
            ELSE IF lines[n].k \in kinds THEN Append(ts[n - 1], lines[n].t) ELSE ts[n - 1]
    IN  ts[Len(lines)]

(* _parse_hunk: a hunk goes on to the next hunk or path header.  The new   *)
(* start and count of its header are read and never used.                  *)
Hunk(diff, i) ==
    LET ends == {j \in i + 1 .. Len(diff) : diff[j].k \in {"@@", "old", "new"}}
        last == IF ends = {} THEN Len(diff) ELSE (CHOOSE j \in ends : \A n \in ends : j <= n) - 1
        body == SubSeq(diff, i + 1, last)
    IN  [start |-> diff[i].start, count |-> diff[i].count,
         old |-> Texts(body, {" ", "-"}), new |-> Texts(body, {" ", "+"}),
         marker |-> \E n \in DOMAIN body : body[n].k = "\\"]

(* parse_unified_diff: the hunks, and the last path of each header. *)
Hunks(diff) ==
    LET hs[n \in 0 .. Len(diff)] ==
            IF n = 0 THEN <<>>
            ELSE IF diff[n].k = "@@" THEN Append(hs[n - 1], Hunk(diff, n)) ELSE hs[n - 1]
    IN  hs[Len(diff)]

HeaderPath(diff, k) ==
    LET hs == SelectSeq(diff, LAMBDA l : l.k = k) IN IF hs = <<>> THEN <<>> ELSE Last(hs).path

(* _normalize_diff_path takes one leading a/ or b/ away. *)
Stripped(path) ==
    IF Len(path) > 1 /\ path[1] \in {"a", "b"} THEN Tail(path) ELSE path

(* _validate_header_paths: a header that is there names the target, or     *)
(* /dev/null on the side where the file is not.                            *)
HeadersOk(r) ==
    LET old == Stripped(HeaderPath(r.diff, "old"))
        new == Stripped(HeaderPath(r.diff, "new"))
    IN  /\ old \in {<<>>, IF r.type = "add" THEN DevNull ELSE Stripped(r.path)}
        /\ new \in {<<>>, IF r.type = "remove" THEN DevNull ELSE Stripped(r.path)}

-----------------------------------------------------------------------------
(* dry_run_apply *)

Terminated(ts) == [i \in DOMAIN ts |-> [t |-> ts[i], ended |-> TRUE]]

TextOf(lines) == [i \in DOMAIN lines |-> lines[i].t]

(* Fault: the lines that earlier hunks added or removed are not counted. *)
AppliedUnshifted(at, h) ==
    LET start == h.start - 1
        stop  == IF start + h.count > Len(at.text) THEN Len(at.text) ELSE start + h.count
    IN  IF /\ at.ok
           /\ start \in 0 .. Len(at.text)
           /\ TextOf(SubSeq(at.text, start + 1, stop)) = h.old
        THEN [ok |-> TRUE, offset |-> at.offset,
              text |-> SubSeq(at.text, 1, start) \o Terminated(h.new)
                       \o SubSeq(at.text, stop + 1, Len(at.text))]
        ELSE [at EXCEPT !.ok = FALSE]

(* One hunk: its old side must be found at its start, moved by what the    *)
(* hunks before it added and removed; a count beyond the end of the file   *)
(* is cut short.                                                           *)
Applied(at, h) ==
    LET start == h.start - 1 + at.offset
        stop  == IF start + h.count > Len(at.text) THEN Len(at.text) ELSE start + h.count
    IN  IF /\ at.ok
           /\ start \in 0 .. Len(at.text)
           /\ TextOf(SubSeq(at.text, start + 1, stop)) = h.old
        THEN [ok |-> TRUE, offset |-> at.offset + Len(h.new) - h.count,
              text |-> SubSeq(at.text, 1, start) \o Terminated(h.new)
                       \o SubSeq(at.text, stop + 1, Len(at.text))]
        ELSE [at EXCEPT !.ok = FALSE]

DryRun(text, hunks) ==
    LET at[n \in 0 .. Len(hunks)] == IF n = 0 THEN [ok |-> TRUE, offset |-> 0, text |-> text]
                                    ELSE Applied(at[n - 1], hunks[n])
        end == at[Len(hunks)]
    IN  IF end.ok /\ \A n \in DOMAIN hunks : ~hunks[n].marker THEN {end.text} ELSE {}

-----------------------------------------------------------------------------
(* validate_patch_for_path: {} or the resulting text.                      *)
(* original: {} if no text was given.                                      *)
ValidatedPatch(r) ==
    LET hunks == Hunks(r.diff) IN
    IF hunks = <<>> \/ ~HeadersOk(r) THEN {}
    ELSE CASE r.type = "add" ->
                {Terminated(FlattenSeq([n \in DOMAIN hunks |-> hunks[n].new])) :
                    ok \in {TRUE} \ {r.exists \/ \E n \in DOMAIN hunks : hunks[n].old # <<>>}}
           [] r.type = "modify" ->
                UNION {DryRun(text, hunks) : text \in IF r.exists THEN r.original ELSE {}}
           [] r.type = "remove" ->
                (UNION {DryRun(text, hunks) : text \in IF r.exists THEN r.original ELSE {}})
                    \intersect {<<>>}

DiffInit == request = {} /\ verdict = {}

ValidatePatch ==
    /\ request = {}
    /\ \E r \in PatchRequest : request' = {r} /\ verdict' = ValidatedPatch(r)

DiffSpec == DiffInit /\ [][ValidatePatch]_diffVars

-----------------------------------------------------------------------------
(* Properties *)

(* A diff as a tool writes it: the counts agree with the lines, each hunk  *)
(* has an old side, and the hunks follow each other in the file.           *)
Regular(hunks) ==
    /\ \A n \in DOMAIN hunks : /\ hunks[n].start > 0 /\ hunks[n].old # <<>>
                               /\ hunks[n].count = Len(hunks[n].old)
                               /\ ~hunks[n].marker
    /\ \A n \in 1 .. Len(hunks) - 1 :
          hunks[n].start + hunks[n].count <= hunks[n + 1].start

(* What a diff says of a file: the old side of every hunk stands at the    *)
(* hunk's own start, and each line of the file that is in no hunk is kept  *)
(* while the first line of a hunk gives way to the hunk's new side.        *)
Describes(hunks, text) ==
    \A n \in DOMAIN hunks :
        /\ hunks[n].start + hunks[n].count - 1 <= Len(text)
        /\ \A i \in DOMAIN hunks[n].old : text[hunks[n].start + i - 1].t = hunks[n].old[i]

PatchText(hunks, text) ==
    FlattenSeq([j \in DOMAIN text |->
        IF \E n \in DOMAIN hunks : j = hunks[n].start
        THEN hunks[CHOOSE n \in DOMAIN hunks : j = hunks[n].start].new
        ELSE IF \E n \in DOMAIN hunks :
                    j \in hunks[n].start .. hunks[n].start + hunks[n].count - 1
             THEN <<>> ELSE <<text[j].t>>])

(* A regular patch of an existing file with fitting headers is accepted    *)
(* exactly if the file is what the diff says it is, and then results in    *)
(* the file that the diff describes, whatever the hunks before it have     *)
(* added or removed and whether or not the file ends in a newline; to      *)
(* remove a file is accepted only if nothing of it is left                 *)
(* (dry_run_apply, validate_patch_for_path).                               *)
PatchIsExact ==
    \A r \in request : \A text \in r.original :
        LET hunks == Hunks(r.diff) IN
        (r.exists /\ r.type # "add" /\ hunks # <<>> /\ HeadersOk(r) /\ Regular(hunks)) =>
            LET result == IF Describes(hunks, text) THEN {PatchText(hunks, text)} ELSE {}
            IN  {TextOf(lines) : lines \in verdict}
                = IF r.type = "modify" THEN result ELSE result \intersect {<<>>}
=============================================================================
