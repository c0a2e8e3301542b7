----------------------------- MODULE DiffParser -----------------------------
(***************************************************************************)
(* The parser of book/diff_parser.py, tolerant and strict, on documents    *)
(* whose text is abstracted to what the parser tells apart:                *)
(*                                                                         *)
(*   a line     [shape, keys, height, elements]                            *)
(*     shape    "garbage" (not JSON), "event" (raw_book_diff at the top),  *)
(*              "block" (an envelope, nested or flat), "other"             *)
(*     keys     of the envelope: "canonical", "alias" (another spelling),  *)
(*              "extra" (one the schema has not), "missing" (no time or    *)
(*              height), "nonnumeric" (a time or height that is no number) *)
(*   an element [keys, readable, variant, diff]                            *)
(*     keys     "canonical", "extra", "missing"                            *)
(*     readable whether side and oid can be normalized                     *)
(*     variant  "known" (new, update or remove as verified) or "drifted"   *)
(*                                                                         *)
(* A result is an event, a block with the number of elements it dropped,   *)
(* nothing, or the exception of strict mode.                               *)
(***************************************************************************)
EXTENDS Lists

Nothing == [kind |-> "nothing"]

Raised == [kind |-> "raised"]

\* What a tolerant parse cannot use, and what strict mode refuses besides.
KnownVariant(element) == element.variant = "known"

Usable(element) == element.keys # "missing" /\ element.readable /\ KnownVariant(element)

Verified(element) == Usable(element) /\ element.keys = "canonical"

ParseEvent(element, strict) ==
    IF strict /\ ~Verified(element) THEN Raised
    ELSE IF Usable(element) THEN [kind |-> "event", diff |-> element.diff] ELSE Nothing

ParseBlock(line, strict) ==
    LET used == Only(line.elements, Usable)
        fine == /\ line.keys = "canonical"
                /\ \A i \in DOMAIN line.elements : Verified(line.elements[i])
    IN  IF strict /\ ~fine THEN Raised
        ELSE IF line.keys \in {"missing", "nonnumeric"} THEN Nothing
        ELSE [kind |-> "block", height |-> line.height,
              diffs |-> [i \in DOMAIN used |-> used[i].diff]]

\* Elements on_skip() reports while a line is parsed: those of a block whose
\* height turns out not to be a number are reported too.
DroppedElements(line) ==
    IF line.shape = "block" /\ line.keys # "missing"
    THEN Len(Only(line.elements, LAMBDA e : ~Usable(e)))
    ELSE 0

ParseLine(line, strict) ==
    CASE line.shape = "event" -> ParseEvent(line.elements[1], strict)
      [] line.shape = "block" -> ParseBlock(line, strict)
      [] OTHER                -> IF strict THEN Raised ELSE Nothing

\* iter_diff_file(), and _consume_chunk() of the node feed: every line or
\* element that is dropped counts.
SkipsOf(line) ==
    DroppedElements(line) + IF ParseLine(line, FALSE) = Nothing THEN 1 ELSE 0
=============================================================================
