-------------------------------- MODULE Lab --------------------------------
(***************************************************************************)
(* What a migrated slice is compared with and writes back: the lab of the  *)
(* package equivalence diffs the candidate's records with the golden ones  *)
(* under a tolerance ruleset, a failing story is split by its programs     *)
(* (controlplane/verify.py), and the legacy mimic (package mimic) encodes  *)
(* results into the record un-migrated COBOL reads.                        *)
(*                                                                         *)
(* A number is an integer of thousandths.  A field's value is tagged with  *)
(* the kind of string it is: text and the blanks that pad it, a decimal    *)
(* and the zeros it is written with beyond its digits, a date, or the      *)
(* characters of a COBOL field.  A record is a function of field names, a  *)
(* list of records one of their positions; a part of a list keeps them.    *)
(***************************************************************************)
EXTENDS Integers, SequencesExt

CONSTANTS Contexts,   \* the fields that name a record's sub-slice, in order of priority
          Whole,      \* the sub-slice of a record without any of them
          Filler      \* the name of the fields that carry nothing

Places == 3
Unit(scale) == <<1000, 100, 10, 1>>[scale + 1]
Magnitude(v) == IF v < 0 THEN -v ELSE v
Signed(v, negative) == IF negative THEN -v ELSE v
Number(digits) ==
    LET Upto[k \in 0..Len(digits)] == IF k = 0 THEN 0 ELSE 10 * Upto[k - 1] + digits[k]
    IN  Upto[Len(digits)]

----------------------------------------------------------------------------
(* Mutated forms: what only the candidate has goes unnoticed; no room is   *)
(* left for the sign of a packed field.                                    *)
NothingExtra(golden, candidate, key) == {}
PackedShort(item) == (item.digits + 1) \div 2

----------------------------------------------------------------------------
(* The characters of a field: a digit, a digit overpunched with a sign, a  *)
(* blank, a character of a text, or a packed byte of two nibbles.          *)
Plus(d)  == 100 + d
Minus(d) == 200 + d
Blank    == 300
Packed(hi, lo) == 1000 + 16 * hi + lo
Nibbles(c) == IF c = Blank THEN <<2, 0>> ELSE <<(c - 1000) \div 16, (c - 1000) % 16>>
AllNibbles(cell) == [k \in 1..(2 * Len(cell)) |-> Nibbles(cell[(k + 1) \div 2])[2 - (k % 2)]]

(* equivalence/cobol_numeric.py: canonicalize rounds half up. *)
Canonicalize(v, scale) ==
    Signed(((2 * Magnitude(v) + Unit(scale)) \div (2 * Unit(scale))) * Unit(scale), v < 0)
LabScaled(digits, scale, negative) ==
    Canonicalize(Signed(Number(digits) * Unit(scale), negative), scale)
LabComp3(cell, scale) ==
    LET n == AllNibbles(cell) IN LabScaled(Front(n), scale, Last(n) = 13)
LabZoned(cell, scale) ==
    LabScaled(Append(Front(cell), Last(cell) % 100), scale, Last(cell) \div 100 = 2)

(* equivalence/tolerance.py *)
RuleFor(rs, f) ==
    LET its == {k \in DOMAIN rs.rules : rs.rules[k].field = f}
    IN  IF its # {} THEN rs.rules[Min(its)]
        ELSE [field |-> f, matcher |-> rs.default, scale |-> 0, tolerance |-> 0,
              representation |-> "display"]
Text(s, pad) == [kind |-> "text", v |-> s, pad |-> pad]
NoText == Text("", 0)
Normalized(x) == IF x.kind = "text" THEN [kind |-> "text", v |-> x.v] ELSE x
SameString(x, y) == x.kind = y.kind /\ Normalized(x) = Normalized(y)
ToDecimal(value, rule) ==
    CASE rule.representation = "packed" -> LabComp3(value.v, rule.scale)
      [] rule.representation = "zoned"  -> LabZoned(value.v, rule.scale)
      [] OTHER                          -> Canonicalize(value.v, rule.scale)
FormOf(rule) ==
    IF rule.representation \in {"packed", "zoned"} THEN rule.representation ELSE "decimal"
Differs(equal) == IF equal THEN "ok" ELSE "differs"
NumbersWithin(rule, g, c) ==
    IF c.kind # "decimal" \/ g.kind # FormOf(rule) THEN "raises"
    ELSE LET by == Magnitude(ToDecimal(g, rule) - Canonicalize(c.v, rule.scale))
         IN  Differs(by <= IF rule.matcher = "numeric_abs" THEN rule.tolerance ELSE 0)
CompareField(rule, g, c) ==
    CASE rule.matcher = "ignore" -> "ok"
      [] rule.matcher = "exact"  -> Differs(SameString(g, c))
      [] rule.matcher = "date"   ->
            IF g.kind = "date" /\ c.kind = "date" THEN Differs(g.v = c.v) ELSE "raises"
      [] OTHER                   -> NumbersWithin(rule, g, c)

(* equivalence/differ.py: of several candidates of a key the last counts.  *)
KeysOf(records, key) == {r[key] : r \in Range(records)}
ByKey(records, k, key) == records[Max({i \in DOMAIN records : records[i][key] = k})]
FieldOf(record, f) == IF f \in DOMAIN record THEN record[f] ELSE NoText
Missing(golden, candidate, key) ==
    {[at |-> k, field |-> "<record>"] :
        k \in {i \in DOMAIN golden : golden[i][key] \notin KeysOf(candidate, key)}}
Extra(golden, candidate, key) ==
    {[at |-> 0, field |-> "<record>", key |-> k] :
        k \in KeysOf(candidate, key) \ KeysOf(golden, key)}
Compared(golden, candidate, rs, key) ==
    UNION {{[at |-> k, field |-> f,
             result |-> CompareField(RuleFor(rs, f), golden[k][f],
                                     FieldOf(ByKey(candidate, golden[k][key], key), f))] :
                f \in DOMAIN golden[k]} :
              k \in {i \in DOMAIN golden : golden[i][key] \in KeysOf(candidate, key)}}
DiffRecords(golden, candidate, rs, key) ==
    LET compared == Compared(golden, candidate, rs, key)
    IN  [raises |-> \E x \in compared : x.result = "raises",
         mismatches |-> Missing(golden, candidate, key) \cup Extra(golden, candidate, key)
             \cup {x \in compared : x.result = "differs"}]

(* equivalence/report.py, lab.py: run_equivalence.  No verdict if a value  *)
(* cannot be read.                                                         *)
RunEquivalence(golden, candidate, rs, key) ==
    LET diff == DiffRecords(golden, candidate, rs, key)
    IN  IF diff.raises THEN "raises"
        ELSE IF diff.mismatches = {} THEN "pass" ELSE "fail"

(* subslice_key_of, split_by_subslice *)
SubsliceKeyOf(record) ==
    LET named == {k \in DOMAIN Contexts :
                     Contexts[k] \in DOMAIN record /\ record[Contexts[k]] # NoText}
    IN  IF named = {} THEN Whole ELSE record[Contexts[Min(named)]]
Subslices(records) == {SubsliceKeyOf(r) : r \in Range(records)}
SubsliceOf(records, name) ==
    Restrict(records, {k \in DOMAIN records : SubsliceKeyOf(records[k]) = name})

(* Mutated form: a sub-slice is compared on the keys the candidate has.    *)
OnlyReturned(golden, candidate, key, name) ==
    LET mine == SubsliceOf(golden, name)
    IN  Restrict(mine, {k \in DOMAIN mine : mine[k][key] \in KeysOf(SubsliceOf(candidate, name), key)})

(* _decompose_story: a leaf for each sub-slice the candidate has records   *)
(* of; none when that is but one.                                          *)
GoldenOf(golden, candidate, key, name) == SubsliceOf(golden, name)
Leaves(golden, candidate, rs, key) ==
    [name \in IF Cardinality(Subslices(candidate)) <= 1 THEN {} ELSE Subslices(candidate) |->
        RunEquivalence(GoldenOf(golden, candidate, key, name), SubsliceOf(candidate, name), rs, key)]

----------------------------------------------------------------------------
(* mimic/layout.py: the width of a field, and where each begins.  The      *)
(* lab's own layout (equivalence/record_layout.py) has another width.      *)
PackedWidth(item) == (item.digits + 2) \div 2
PicWidth(item) == IF item.usage = "packed" THEN PackedWidth(item) ELSE item.digits
PicSize(item)  == IF item.usage = "packed" THEN (item.digits + 1) \div 2 + 1 ELSE item.digits
Offset(widths, k) ==
    LET Upto[j \in 0..Len(widths)] == IF j = 0 THEN 0 ELSE Upto[j - 1] + widths[j]
    IN  Upto[k - 1]
LengthOf(item) == PicWidth(item) * Max({1, item.occurs})
BuildLayout(items) ==
    LET widths == [k \in DOMAIN items |-> LengthOf(items[k])]
    IN  [k \in DOMAIN items |->
            [item |-> items[k], offset |-> Offset(widths, k), length |-> widths[k]]]
RecordLength(layout) == Offset([k \in DOMAIN layout |-> layout[k].length], Len(layout) + 1)

(* mimic/codec.py: the digits are rounded half to even, and the high ones  *)
(* that do not fit are dropped.                                            *)
HalfEven(n, unit) ==
    LET q == n \div unit
        r == n % unit
    IN  IF 2 * r > unit \/ (2 * r = unit /\ q % 2 = 1) THEN q + 1 ELSE q
DigitString(v, digits, scale) ==
    LET Rest[j \in 0..digits] ==
            IF j = 0 THEN HalfEven(Magnitude(v), Unit(scale)) ELSE Rest[j - 1] \div 10
    IN  [k \in 1..digits |-> Rest[digits - k] % 10]
EncodeZoned(v, digits, scale, signed) ==
    LET s == DigitString(v, digits, scale)
    IN  IF signed /\ v < 0 THEN Append(Front(s), Minus(Last(s))) ELSE s
DecodeZoned(cell, scale, signed) ==
    LET digits == [k \in DOMAIN cell |-> cell[k] % 100]
    IN  Signed(Number(digits) * Unit(scale), signed /\ Last(cell) \div 100 = 2)
EncodeComp3(v, digits, scale, signed) ==
    LET s == DigitString(v, digits, scale)
        n == (IF Len(s) % 2 = 0 THEN <<0>> ELSE <<>>) \o s \o <<IF signed /\ v < 0 THEN 13 ELSE 12>>
    IN  [k \in 1..(Len(n) \div 2) |-> Packed(n[2 * k - 1], n[2 * k])]
DecodeComp3(cell, scale, signed) ==
    LET n == AllNibbles(cell)
    IN  Signed(Number(Front(n)) * Unit(scale), signed /\ Last(n) = 13)

(* mimic/writeback.py *)
DigitsOf(f) == IF f.item.usage = "packed" THEN 2 * f.length - 1 ELSE f.length
Padded(s, length) == [k \in 1..length |-> IF k <= Len(s) THEN s[k] ELSE Blank]
Stripped(s) == SubSeq(s, 1, Max({0} \cup {k \in DOMAIN s : s[k] # Blank}))
EncodeField(f, value) ==
    CASE f.item.usage = "text"   -> Padded(value, f.length)
      [] f.item.usage = "packed" -> EncodeComp3(value, DigitsOf(f), f.item.scale, f.item.signed)
      [] OTHER                   -> EncodeZoned(value, DigitsOf(f), f.item.scale, f.item.signed)
DecodeField(f, cell) ==
    CASE f.item.usage = "text"   -> Stripped(cell)
      [] f.item.usage = "packed" -> DecodeComp3(cell, f.item.scale, f.item.signed)
      [] OTHER                   -> DecodeZoned(cell, f.item.scale, f.item.signed)
Written(f, values) == f.item.name # Filler /\ f.item.name \in DOMAIN values
Known(layout, values) == DOMAIN values \subseteq {layout[k].item.name : k \in DOMAIN layout}
Encode(layout, values) ==
    IF ~Known(layout, values) THEN "raises"
    ELSE FlattenSeq([k \in DOMAIN layout |->
             IF Written(layout[k], values) THEN EncodeField(layout[k], values[layout[k].item.name])
             ELSE [i \in 1..layout[k].length |-> Blank]])
CellOf(f, record) == SubSeq(record, f.offset + 1, f.offset + f.length)
Decode(layout, record) ==
    [k \in {j \in DOMAIN layout : layout[j].item.name # Filler} |->
        DecodeField(layout[k], CellOf(layout[k], record))]

----------------------------------------------------------------------------
(* Properties, of a comparison and of a record. *)

Once(records, key) == \A j, k \in DOMAIN records : j # k => records[j][key] # records[k][key]
ValueOf(rule, value) ==
    IF rule.matcher \in {"numeric_abs", "numeric_scale"} /\ value.kind # "text"
    THEN CASE value.kind = "zoned"  -> LabZoned(value.v, rule.scale)
           [] value.kind = "packed" -> LabComp3(value.v, rule.scale)
           [] OTHER                 -> value.v
    ELSE value.v
Near(rule, g, c) ==
    CASE rule.matcher = "ignore" -> TRUE
      [] rule.matcher \in {"numeric_abs", "numeric_scale"} ->
            c.kind = "decimal" /\ Magnitude(ValueOf(rule, g) - ValueOf(rule, c))
                                      < rule.tolerance + Unit(rule.scale)
      [] rule.matcher = "date" -> g.kind = c.kind /\ g.v = c.v
      [] OTHER -> SameString(g, c)
Same(rule, g, c) ==
    Near(rule, g, c) /\ (rule.matcher # "ignore" => ValueOf(rule, g) = ValueOf(rule, c))
Parity(rs, g, c, close(_, _, _)) ==
    \A f \in DOMAIN g : close(RuleFor(rs, f), g[f], FieldOf(c, f))

(* A slice passes only if the candidate has a record near to every golden  *)
(* one and no record of another key; and if it has just the golden records *)
(* with equal values it does pass: equal numbers or dates however they are *)
(* written where a rule reads numbers or dates, the same string up to its  *)
(* padding where a rule is exact.                                          *)
VerdictIsSound(golden, candidate, rs, key) ==
    LET verdict == RunEquivalence(golden, candidate, rs, key)
        keys    == KeysOf(golden, key) = KeysOf(candidate, key)
    IN  /\ verdict = "pass" =>
              keys /\ \A g \in Range(golden) :
                         \E c \in Range(candidate) : c[key] = g[key] /\ Parity(rs, g, c, Near)
        /\ (keys /\ \A g \in Range(golden) : \A c \in Range(candidate) :
                       c[key] = g[key] => Parity(rs, g, c, Same))
              => verdict = "pass"

(* When a story of several sub-slices fails, the split finds one that      *)
(* fails, as long as keys are unique and the candidate has a record of     *)
(* every sub-slice (one it returns nothing of is not among the leaves).    *)
FailureIsLocalised(golden, candidate, rs, key) ==
    LET leaves == Leaves(golden, candidate, rs, key)
    IN  (/\ Once(golden, key) /\ Once(candidate, key)
         /\ Subslices(golden) \subseteq Subslices(candidate)
         /\ Cardinality(Subslices(candidate)) > 1
         /\ RunEquivalence(golden, candidate, rs, key) # "pass")
            => \E name \in DOMAIN leaves : leaves[name] # "pass"

Power(k) ==
    LET Ten[j \in 0..k] == IF j = 0 THEN 1 ELSE 10 * Ten[j - 1] IN Ten[k]
FitsIn(f, v) ==
    \/ f.item.usage = "text" /\ Len(v) <= f.length /\ (v # <<>> => Last(v) # Blank)
    \/ /\ f.item.usage # "text"
       /\ v % Unit(f.item.scale) = 0 /\ (v >= 0 \/ f.item.signed)
       /\ Magnitude(v) < Power(f.item.digits) * Unit(f.item.scale)
LabReads(f, cell) ==
    IF f.item.usage = "packed" THEN LabComp3(cell, f.item.scale) ELSE LabZoned(cell, f.item.scale)

(* What the mimic writes of a value that fits, it and the lab read back as *)
(* that value, whatever else the record holds; a zoned or a text field     *)
(* that no value is given for is zero or empty; and the lab looks for a    *)
(* field where the mimic puts it as long as no packed field of an odd      *)
(* number of digits, and no table, comes before it.  (It writes nothing if *)
(* it is given a name that the layout does not have.)                      *)
RecordSurvives(items, values) ==
    LET layout == BuildLayout(items)
        record == Encode(layout, values)
        back   == Decode(layout, record)
    IN  Known(layout, values) =>
        /\ Len(record) = RecordLength(layout)
        /\ \A k \in DOMAIN layout :
              LET f == layout[k]
              IN  /\ Written(f, values) /\ FitsIn(f, values[f.item.name]) =>
                        /\ back[k] = values[f.item.name]
                        /\ f.item.usage # "text" => LabReads(f, CellOf(f, record)) = back[k]
                  /\ ~Written(f, values) /\ f.item.name # Filler =>
                        CASE f.item.usage = "text"  -> back[k] = <<>>
                          [] f.item.usage = "zoned" -> back[k] = 0
                          [] OTHER                  -> TRUE
                  /\ (\A j \in 1..(k - 1) : /\ items[j].usage = "packed" => items[j].digits % 2 = 0
                                            /\ items[j].occurs <= 1)
                        => Offset([j \in DOMAIN items |-> PicSize(items[j])], k) = f.offset
=============================================================================
