----------------------------- MODULE DarkLaunch -----------------------------
(***************************************************************************)
(* The dark launch of the account view (package darklaunch): for captured  *)
(* inputs the answers of the new service are compared with what the COBOL  *)
(* program answered, field by field under a fixed list of rules.           *)
(*                                                                         *)
(* An answer is a function of field names, values are tagged as in Lab,    *)
(* and Null is JSON's null, or what a missing golden field is read as.     *)
(* The eight fields of the list are one of each kind of rule here.         *)
(***************************************************************************)
EXTENDS Lab

Null == [kind |-> "null", v |-> 0]

----------------------------------------------------------------------------
(* tolerance.py: numbers are rounded half to even on both sides, a text    *)
(* may be padded, and what is no number makes the comparison raise.        *)
DefaultRules ==
    <<[field |-> "accountId", kind |-> "exact", scale |-> 0],
      [field |-> "currentBalance", kind |-> "numeric", scale |-> 2],
      [field |-> "customerLastName", kind |-> "text", scale |-> 0]>>
Quantized(value, scale) ==
    Signed(HalfEven(Magnitude(value.v), Unit(scale)), value.v < 0)
FieldsEqual(expected, actual, rule) ==
    CASE rule.kind = "exact" -> IF expected = actual THEN "equal" ELSE "differs"
      [] rule.kind = "text"  -> IF SameString(expected, actual) THEN "equal" ELSE "differs"
      [] rule.kind = "numeric" ->
            IF expected.kind # "decimal" \/ actual.kind # "decimal" THEN "raises"
            ELSE IF Quantized(expected, rule.scale) = Quantized(actual, rule.scale)
                 THEN "equal" ELSE "differs"

(* diff.py, runner.py: every input counts, also one that is repeated, and  *)
(* an account of which nothing was captured is compared with nothing.      *)
Given(answers, account) == IF account \in DOMAIN answers THEN answers[account] ELSE <<>>
Expected(golden, field) == IF field \in DOMAIN golden THEN golden[field] ELSE Null
(* Mutated form: what the service leaves out is not looked at.             *)
JudgedIfGiven(golden, actual, rule) ==
    IF rule.field \notin DOMAIN actual THEN "equal"
    ELSE FieldsEqual(Expected(golden, rule.field), actual[rule.field], rule)
Judged(golden, actual, rule) ==
    IF rule.field \notin DOMAIN actual THEN "missing"
    ELSE FieldsEqual(Expected(golden, rule.field), actual[rule.field], rule)
DiffOutputs(golden, actual) ==
    {[field |-> r.field, reason |-> Judged(golden, actual, r)] : r \in Range(DefaultRules)}
RunDarkLaunch(inputs, golden, actual) ==
    LET report  == [k \in DOMAIN inputs |->
                       DiffOutputs(Given(golden, inputs[k]), Given(actual, inputs[k]))]
        matched == {k \in DOMAIN inputs : \A x \in report[k] : x.reason = "equal"}
    IN  IF \E k \in DOMAIN inputs : \E x \in report[k] : x.reason = "raises" THEN "raises"
        ELSE IF matched = DOMAIN inputs THEN "passed" ELSE "failed"

----------------------------------------------------------------------------
(* A dark launch passes only if something was captured of every account it *)
(* replays, and the service answered it with every field: the same string, *)
(* the same up to padding, or a number closer than a unit of its scale.  A *)
(* service that answers what was captured passes, however its balance is   *)
(* written and its texts are padded.                                       *)
Agrees(rule, expected, actual) ==
    /\ rule.kind = "numeric" => Magnitude(expected.v - actual.v) <= Unit(rule.scale)
    /\ rule.kind = "text"    => SameString(expected, actual)
    /\ rule.kind = "exact"   => expected = actual
LaunchIsSound(inputs, golden, actual) ==
    LET verdict == RunDarkLaunch(inputs, golden, actual)
        fields  == {r.field : r \in Range(DefaultRules)}
    IN  /\ verdict = "passed" =>
              \A a \in Range(inputs) :
                 /\ a \in DOMAIN golden /\ a \in DOMAIN actual
                 /\ \A r \in Range(DefaultRules) :
                       /\ r.field \in DOMAIN actual[a]
                       /\ Agrees(r, Expected(golden[a], r.field), actual[a][r.field])
        /\ (\A a \in Range(inputs) :
               /\ a \in DOMAIN golden \cap DOMAIN actual
               /\ fields \subseteq DOMAIN golden[a] \cap DOMAIN actual[a]
               /\ golden[a]["currentBalance"].kind = "decimal" /\ actual[a]["currentBalance"].kind = "decimal"
               /\ golden[a]["currentBalance"].v = actual[a]["currentBalance"].v
               /\ \A f \in fields \ {"currentBalance"} : SameString(golden[a][f], actual[a][f])
               /\ golden[a]["accountId"] = actual[a]["accountId"])
              => verdict = "passed"
=============================================================================
