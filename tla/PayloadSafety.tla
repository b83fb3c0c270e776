--------------------------- MODULE PayloadSafety ---------------------------
(***************************************************************************)
(* What the SDK does to a value before it is queued (payload-safety.ts):   *)
(* sanitize, redact, cap, measure.                                         *)
(*                                                                         *)
(* A text is a sequence of units: "c" a plain character, "q" an escaped    *)
(* one, "H" and "L" the halves of a surrogate pair, "B" the word Bearer,   *)
(* and one unit for each mark the SDK writes.  A raw value is [k |-> "text"*)
(* | "undef" | "odd" | "ref", ...]; "odd" is what JSON cannot hold         *)
(* (function, symbol, bigint, NaN) and a ref names an object of the heap   *)
(* (copy: the object a redactor made from it).  A sanitized value is a     *)
(* text, null, undef, a list or a record of <<key, value>> entries, or     *)
(* Thrown: an exception of host code left the call.                        *)
(***************************************************************************)
EXTENDS Integers, FiniteSets, Sequences, FiniteSetsExt, SequencesExt

CONSTANTS
    MAX_DEPTH, MAX_ITEMS,   \* bounds of the walk
    MIN_FIELD_BYTES,        \* the smallest cap a configuration may ask for
    Weight,                 \* bytes of a unit in JSON
    KeyBytes,               \* bytes of a quoted key
    SecretKeys              \* keys the default redactor hides

Text(units) == [k |-> "text", units |-> units]

REDACTED == Text(<<"redacted">>)

CIRCULAR_MARK == Text(<<"circular">>)

DEPTH_MARK == Text(<<"depth">>)

moreMark == Text(<<"more">>)

TRUNCATION_SUFFIX == <<"suffix">>

TRUNCATION_KEY == "__lengenticTruncated"

Null == [k |-> "null"]

True == [k |-> "true"]

Thrown == [k |-> "thrown"]

-----------------------------------------------------------------------------
(* Redaction. *)

defaultRedactor(v, key) ==
    IF \/ key \in SecretKeys
       \/ v.k = "text" /\ v.units # <<>> /\ Head(v.units) = "B"
    THEN REDACTED
    ELSE v

\* A caller's hook: it may leave every value, throw, put a text (longer than any cap) for
\* every object, or answer each object with a copy of it.
hookOf(hook, v) ==
    CASE hook = "scalar" /\ v.k = "ref" -> Text([i \in 1..(2 * MIN_FIELD_BYTES) |-> "c"])
      [] hook = "copy" /\ v.k = "ref"   -> [v EXCEPT !.copy = TRUE]
      [] OTHER                          -> v

\* Mutant: a hook that throws leaves the value as it was.
failsOpen(hook, v, key) ==
    IF hook = "throws" THEN v ELSE defaultRedactor(hookOf(hook, v), key)

\* composeRedactors with safeRedact: the hook first, the defaults on what it answers.
composeRedactors(hook, v, key) ==
    IF hook = "throws" THEN REDACTED ELSE defaultRedactor(hookOf(hook, v), key)

-----------------------------------------------------------------------------
(* The walk.  Each step answers [value, elided]. *)

Whole(value) == [value |-> value, elided |-> FALSE]

AnyElided(results) == \E i \in DOMAIN results : results[i].elided

\* The walk is over when one of the children threw.
Unless(results, value) == IF \E i \in DOMAIN results : results[i].value = Thrown THEN Thrown ELSE value

RECURSIVE jsonSafe(_, _, _, _, _, _)

\* sanitize: a replaced value is not offered to the redactor again.
sanitize(h, v, key, hook, seen, depth) ==
    LET r == IF hook = "off" THEN v ELSE composeRedactors(hook, v, key)
    IN jsonSafe(h, r, IF r = v THEN hook ELSE "off", seen, depth, key)

Kept(s) == SubSeq(s, 1, Min({Len(s), MAX_ITEMS}))

\* sanitizeList: undefined items become null; list items have no key.
sanitizeList(h, items, hook, seen, depth) ==
    LET kept == Kept(items)
        children == [i \in DOMAIN kept |-> sanitize(h, kept[i], "", hook, seen, depth + 1)]
        Item(c) == IF c.value.k = "undef" THEN Null ELSE c.value
        cut == Len(items) > Len(kept)
    IN [value |-> Unless(children, [k |-> "list",
                                    items |-> [i \in DOMAIN children |-> Item(children[i])]
                                                \o (IF cut THEN <<moreMark>> ELSE <<>>)]),
        elided |-> cut \/ AnyElided(children)]

\* sanitizeRecord: undefined entries are left out.
sanitizeRecord(h, entries, hook, seen, depth) ==
    LET kept == Kept(entries)
        children == [i \in DOMAIN kept |-> sanitize(h, kept[i][2], kept[i][1], hook, seen, depth + 1)]
        named == [i \in DOMAIN kept |-> <<kept[i][1], children[i].value>>]
        cut == Len(entries) > Len(kept)
    IN [value |-> Unless(children, [k |-> "record",
                                    entries |-> SelectSeq(named, LAMBDA e : e[2].k # "undef")
                                      \o (IF cut THEN <<<<"__lengenticOverflow", moreMark>>>> ELSE <<>>)]),
        elided |-> cut \/ AnyElided(children)]

\* jsonSafe and sanitizeObject: seen is the objects on the current path.  The name and the
\* message of an Error are taken as they are, without the redactor; an object whose toJSON
\* property cannot be read throws out of the walk.
jsonSafe(h, v, hook, seen, depth, key) ==
    IF v.k = "odd" THEN Whole(Text(<<"odd">>))
    ELSE IF v.k # "ref" THEN Whole(v)
    ELSE IF v \in seen THEN Whole(CIRCULAR_MARK)
    ELSE IF depth >= MAX_DEPTH THEN [value |-> DEPTH_MARK, elided |-> TRUE]
    ELSE LET o == h[v.to]
         IN CASE o.kind = "list"    -> sanitizeList(h, o.items, hook, seen \cup {v}, depth)
              [] o.kind = "record"  -> sanitizeRecord(h, o.items, hook, seen \cup {v}, depth)
              [] o.kind = "toJSON"  -> jsonSafe(h, o.items[1], hook, seen \cup {v}, depth + 1, key)
              [] o.kind = "error"   -> Whole([k |-> "record", entries |-> <<<<"name", o.items[1]>>,
                                                                         <<"message", o.items[2]>>>>])
              [] o.kind = "getter"  -> Whole(Thrown)

sanitizeValue(h, v, key, hook) == sanitize(h, v, key, hook, {}, 0)

-----------------------------------------------------------------------------
(* Bytes. *)

\* A surrogate half that is not part of a pair is escaped.
UnitBytes(units, i) ==
    CASE units[i] = "H" /\ i < Len(units) /\ units[i + 1] = "L" -> 4
      [] units[i] = "L" /\ i > 1 /\ units[i - 1] = "H"          -> 0
      [] OTHER                                                  -> Weight[units[i]]

SumTo(n, f(_)) == LET s[i \in 0..n] == IF i = 0 THEN 0 ELSE s[i - 1] + f(i) IN s[n]

textBytes(units) == 2 + SumTo(Len(units), LAMBDA i : UnitBytes(units, i))

RECURSIVE jsonBytes(_)
jsonBytes(v) ==
    LET Commas(s) == Max({0, Len(s) - 1})
    IN CASE v.k = "text"   -> textBytes(v.units)
         [] v.k = "list"   -> 2 + Commas(v.items)
                                + SumTo(Len(v.items), LAMBDA i : jsonBytes(v.items[i]))
         [] v.k = "record" -> 2 + Commas(v.entries)
                                + SumTo(Len(v.entries), LAMBDA i : KeyBytes + 1 + jsonBytes(v.entries[i][2]))
         [] OTHER          -> 4

\* The JSON text of a value, as units: quotes and escapes are escaped in turn.
RECURSIVE safeStringify(_)
safeStringify(v) ==
    LET Plain(n) == [i \in 1..n |-> "c"]
        Unit(u) == CASE u = "q" -> <<"q", "q">> [] u \in {"c", "H", "L"} -> <<u>> [] OTHER -> Plain(Weight[u])
        Joined(parts) == <<"c">> \o FlattenSeq(parts) \o Plain(Max({1, Len(parts)}))
    IN CASE v.k = "text"   -> <<"q">> \o FlattenSeq([i \in DOMAIN v.units |-> Unit(v.units[i])]) \o <<"q">>
         [] v.k = "list"   -> Joined([i \in DOMAIN v.items |-> safeStringify(v.items[i])])
         [] v.k = "record" -> Joined([i \in DOMAIN v.entries |->
                                        Plain(KeyBytes + 1) \o safeStringify(v.entries[i][2])])
         [] OTHER          -> Plain(4)

-----------------------------------------------------------------------------
(* The cap. *)

\* prefixOf: never half of a pair.
prefixOf(units, n) ==
    LET cut == SubSeq(units, 1, n)
    IN IF cut # <<>> /\ Last(cut) = "H" THEN Front(cut) ELSE cut

\* truncateString: the binary search of its loop.
RECURSIVE search(_, _, _, _)
search(units, budget, low, high) ==
    LET mid == (low + high + 1) \div 2
    IN IF low >= high THEN low
       ELSE IF textBytes(prefixOf(units, mid) \o TRUNCATION_SUFFIX) <= budget
       THEN search(units, budget, mid, high)
       ELSE search(units, budget, low, mid - 1)

truncateString(units, budget) ==
    Text(prefixOf(units, search(units, budget, 0, Min({Len(units), budget}))) \o TRUNCATION_SUFFIX)

RECURSIVE shrink(_, _)

\* shrinkList: pieces while they leave room for the mark.
RECURSIVE shrinkItems(_, _, _, _, _)
shrinkItems(items, i, budget, used, out) ==
    LET reserve == jsonBytes(moreMark) + 1
        piece == shrink(items[i], Max({0, budget - used - reserve}))
        cost == jsonBytes(piece) + (IF out # <<>> THEN 1 ELSE 0)
    IN IF i > Len(items) THEN out
       ELSE IF used + cost + reserve > budget THEN out
       ELSE shrinkItems(items, i + 1, budget, used + cost, Append(out, piece))

RECURSIVE shrinkEntries(_, _, _, _, _)
shrinkEntries(entries, i, budget, used, out) ==
    LET reserve == KeyBytes + 6
        piece == shrink(entries[i][2], Max({0, budget - used - reserve}))
        cost == KeyBytes + 1 + jsonBytes(piece) + (IF out # <<>> THEN 1 ELSE 0)
    IN IF i > Len(entries) THEN out
       ELSE IF used + cost + reserve > budget THEN out
       ELSE shrinkEntries(entries, i + 1, budget, used + cost, Append(out, <<entries[i][1], piece>>))

shrink(v, budget) ==
    IF jsonBytes(v) <= budget THEN v
    ELSE CASE v.k = "text"   -> truncateString(v.units, budget)
           [] v.k = "list"   -> [k |-> "list", items |-> Append(shrinkItems(v.items, 1, budget, 2, <<>>), moreMark)]
           [] v.k = "record" -> [k |-> "record", entries |->
                                   Append(shrinkEntries(v.entries, 1, budget, 2, <<>>), <<TRUNCATION_KEY, True>>)]
           [] OTHER          -> truncateString(safeStringify(v), budget)

\* hardPreview: the floor under the greedy shrink.
hardPreview(v, maxBytes) ==
    IF v.k = "record" THEN [k |-> "record", entries |-> <<<<TRUNCATION_KEY, True>>>>]
    ELSE truncateString(safeStringify(v), maxBytes)

\* The greedy result if it fits, else the floor.
Floored(v, greedy, maxBytes) == IF jsonBytes(greedy) > maxBytes THEN hardPreview(v, maxBytes) ELSE greedy

Cut(shrunk, original) ==
    [value |-> shrunk, truncated |-> TRUE, bytes |-> jsonBytes(shrunk), originalBytes |-> original]

capField(v, maxBytes, elided) ==
    LET original == jsonBytes(v)
    IN IF original <= maxBytes
       THEN [value |-> v, truncated |-> elided, bytes |-> original, originalBytes |-> original]
       ELSE Cut(Floored(v, shrink(v, maxBytes), maxBytes), original)

-----------------------------------------------------------------------------
(* createPayloadSafety. *)

prepare(h, v, key, hook, maxBytes) ==
    LET s == sanitizeValue(h, v, key, hook) IN capField(s.value, maxBytes, s.elided)

\* metadata: the wire wants a record, so a scalar is carried in one, after the cap.
AsRecord(v) ==
    IF v.k \in {"record", "thrown"} THEN v
    ELSE [k |-> "record", entries |-> <<<<"__lengenticValue", v>>>>]

metadata(h, v, hook, maxBytes) ==
    IF v.k = "undef" THEN v ELSE AsRecord(prepare(h, v, "metadata", hook, maxBytes).value)

\* text: the wire wants a string.
text(h, v, hook, maxBytes) ==
    LET redacted == sanitizeValue(h, v, "message", hook).value
        asText == IF redacted.k \in {"text", "thrown"} THEN redacted ELSE Text(safeStringify(redacted))
    IN capField(asText, maxBytes, FALSE).value

\* toolIO: for one of input and output.
toolIO(h, v, hook, maxBytes, captureToolIO) ==
    IF ~captureToolIO THEN [value |-> Null, truncated |-> FALSE, bytes |-> -1]
    ELSE LET safe == prepare(h, v, "input", hook, maxBytes)
         IN [value |-> IF safe.value.k = "undef" THEN Null ELSE safe.value,
             truncated |-> safe.truncated, bytes |-> safe.originalBytes]

\* canonicalize: entries in the order of their keys, here as a set.
RECURSIVE canonicalize(_)
canonicalize(v) ==
    CASE v.k = "list"   -> [k |-> "list", items |-> [i \in DOMAIN v.items |-> canonicalize(v.items[i])]]
      [] v.k = "record" -> [k |-> "record", entries |-> {<<v.entries[i][1], canonicalize(v.entries[i][2])>> :
                                                           i \in DOMAIN v.entries}]
      [] OTHER          -> v

\* fingerprint: of the value before the cap; the hash (FNV-1a) is taken to be injective.
fingerprint(h, v, hook) == canonicalize(sanitizeValue(h, v, "value", hook).value)

-----------------------------------------------------------------------------
(* Properties. *)

\* The texts of a sanitized value, each with the key it stands under.
RECURSIVE TextsOf(_, _)
TextsOf(v, key) ==
    CASE v.k = "text"   -> {<<key, v.units>>}
      [] v.k = "list"   -> UNION {TextsOf(v.items[i], "") : i \in DOMAIN v.items}
      [] v.k = "record" -> UNION {TextsOf(v.entries[i][2], v.entries[i][1]) : i \in DOMAIN v.entries}
      [] OTHER          -> {}

LoneHalf(units) ==
    \E i \in DOMAIN units :
      \/ units[i] = "H" /\ (i = Len(units) \/ units[i + 1] # "L")
      \/ units[i] = "L" /\ (i = 1 \/ units[i - 1] # "H")

RECURSIVE DepthOf(_)
DepthOf(v) ==
    CASE v.k = "list"   -> 1 + Max({0} \cup {DepthOf(v.items[i]) : i \in DOMAIN v.items})
      [] v.k = "record" -> 1 + Max({0} \cup {DepthOf(v.entries[i][2]) : i \in DOMAIN v.entries})
      [] OTHER          -> 0

(***************************************************************************)
(* A field never leaves larger than its cap, whatever the caller passes:   *)
(* nested, circular or escaped; metadata that a hook made a scalar exceeds *)
(* it by the record it is carried in, and by no more.  A field is marked   *)
(* truncated exactly when something of it was lost, the measurement is of  *)
(* what there was before the cut, and a cut never leaves half a surrogate  *)
(* pair, so the server does not refuse the event for what the SDK did.     *)
(***************************************************************************)
FieldsFit(h, v, hook, maxBytes) ==
    LET s == sanitizeValue(h, v, "metadata", hook)
        c == prepare(h, v, "metadata", hook, maxBytes)
        m == metadata(h, v, hook, maxBytes)
        io == toolIO(h, v, hook, maxBytes, TRUE)
        carrier == jsonBytes(AsRecord(Null)) - jsonBytes(Null)
    IN s.value # Thrown =>
       /\ c.bytes = jsonBytes(c.value) /\ c.bytes <= maxBytes
       /\ jsonBytes(text(h, v, hook, maxBytes)) <= maxBytes
       /\ m.k = "record" /\ jsonBytes(m) <= maxBytes + IF c.value.k = "record" THEN 0 ELSE carrier
       /\ c.truncated <=> s.elided \/ c.value # s.value
       /\ c.originalBytes = jsonBytes(s.value)
       /\ io.truncated => io.bytes >= 0 /\ (io.bytes > maxBytes \/ s.elided)
       /\ \A t \in TextsOf(c.value, "") : ~LoneHalf(t[2])

\* The texts of a heap that no redactor is offered: an Error's, and what toJSON answers.
Unoffered(h) ==
    UNION {{x.units : x \in {y \in ToSet(h[i].items) : y.k = "text"}} :
             i \in {j \in DOMAIN h : h[j].kind \in {"error", "toJSON"}}}

\* The text is one of theirs, or the beginning of one, cut.
IsOneOf(units, texts) == \E u \in texts : units = u \/ IsPrefix(Front(units), u)

(***************************************************************************)
(* What the default redactor hides stays hidden wherever it is nested, in  *)
(* records and lists, below a hook that throws or answers with scalars,    *)
(* and in the fingerprint, with two exceptions and no third: the name and  *)
(* the message of an Error and a text that toJSON answers are shown as     *)
(* they are.  (A hook that answers an object with another one ends         *)
(* redaction below it and is outside this property.)                       *)
(***************************************************************************)
SecretsStayHidden(h, v, hook, maxBytes) ==
    hook # "copy" =>
      \A shown \in {prepare(h, v, "metadata", hook, maxBytes).value, sanitizeValue(h, v, "value", hook).value} :
        \A t \in TextsOf(shown, "") :
          /\ t[2] # <<>> /\ Head(t[2]) = "B" => IsOneOf(t[2], Unoffered(h))
          /\ t[1] \in SecretKeys => t[2] = REDACTED.units

\* The same heap with the keys of every record in the opposite order.
Reversed(h) == [id \in DOMAIN h |-> IF h[id].kind = "record" THEN [h[id] EXCEPT !.items = Reverse(@)] ELSE h[id]]

(***************************************************************************)
(* Two values that differ only by the order of their keys have one         *)
(* fingerprint, at every depth and whatever the cap would do to them, as   *)
(* long as the walk kept all of them.                                      *)
(***************************************************************************)
FingerprintIsOrderFree(h, v, hook) ==
    ~sanitizeValue(h, v, "value", hook).elided /\ ~sanitizeValue(Reversed(h), v, "value", hook).elided =>
      fingerprint(h, v, hook) = fingerprint(Reversed(h), v, hook)

Contents(o) == IF o.kind = "record" THEN {o.items[i][2] : i \in DOMAIN o.items} ELSE ToSet(o.items)

RECURSIVE Reach(_, _)
Reach(h, ids) ==
    LET more == ids \cup UNION {{x.to : x \in {y \in Contents(h[i]) : y.k = "ref"}} : i \in ids}
    IN IF more = ids THEN ids ELSE Reach(h, more)

CircularHeap(h) == \E i \in DOMAIN h : i \in Reach(h, {x.to : x \in {y \in Contents(h[i]) : y.k = "ref"}})

(***************************************************************************)
(* The walk ends on every heap, circular ones too; an object reached twice *)
(* by different paths is written twice and called circular only in a heap  *)
(* that has a cycle; what is written is no deeper than the walk, so it     *)
(* passes the server's bound on nesting; and nothing throws out of it but  *)
(* the read of a toJSON property.                                          *)
(***************************************************************************)
WalkEnds(h, v, hook) ==
    LET s == sanitizeValue(h, v, "metadata", hook)
    IN /\ DepthOf(s.value) <= MAX_DEPTH
       /\ (\E t \in TextsOf(s.value, "") : t[2] = CIRCULAR_MARK.units) => CircularHeap(h)
       /\ s.elided \/ \A t \in TextsOf(s.value, "") : t[2] # DEPTH_MARK.units
       /\ s.value = Thrown => \E i \in DOMAIN h : h[i].kind = "getter"
=============================================================================
