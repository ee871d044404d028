----------------------------- MODULE LabInputs -----------------------------
(***************************************************************************)
(* What the lab is given to compare, the mimic to write and a dark launch  *)
(* to replay.  A trial is one of them, whichever it is, and the properties *)
(* are of it.                                                              *)
(***************************************************************************)
EXTENDS DarkLaunch

(* A list of records is a function on finitely many positions.             *)
AnyList(records) == DOMAIN records \subseteq Int /\ IsFiniteSet(DOMAIN records)

(* A ruleset a file may hold, and the values its rules can be shown: a     *)
(* rule of numbers or dates finds a golden number or date of its own form, *)
(* an exact one a string that is not told apart by COBOL characters.       *)
Numeric == {"numeric_abs", "numeric_scale"}
Matchers == Numeric \cup {"ignore", "exact", "date"}
IsRule(r) == r.matcher \in Matchers /\ r.scale \in 0..Places /\ r.tolerance \in Nat
IsRuleset(rs) ==
    AnyList(rs.rules) /\ rs.default \in Matchers /\ \A k \in DOMAIN rs.rules : IsRule(rs.rules[k])
IsValue(x) ==
    /\ x.kind = "decimal" => x.v \in Int
    /\ x.kind \in {"zoned", "packed"} => x.v \in Seq(Int) /\ x.v # <<>>
AreRecords(records) ==
    AnyList(records) /\ \A k \in DOMAIN records : \A f \in DOMAIN records[k] : IsValue(records[k][f])
OwnForm(rule, g) ==
    /\ rule.matcher \in Numeric => g.kind = FormOf(rule)
    /\ rule.matcher = "date"    => g.kind = "date"
    /\ rule.matcher = "exact"   => g.kind \notin {"zoned", "packed"}
Readable(golden, rs) ==
    \A k \in DOMAIN golden : \A f \in DOMAIN golden[k] : OwnForm(RuleFor(rs, f), golden[k][f])

(* A dark launch: what was captured and what the service answers.          *)
AreAnswers(answers) ==
    \A a \in DOMAIN answers : \A f \in DOMAIN answers[a] :
        answers[a][f].kind = "decimal" => answers[a][f].v \in Int

(* The fields of a copybook, and what is to be written into them.          *)
IsItem(item) ==
    /\ item.usage \in {"text", "packed", "zoned"} /\ item.signed \in BOOLEAN
    /\ item.digits \in Nat \ {0} /\ item.scale \in 0..Places /\ item.occurs \in Nat
IsCopybook(items) ==
    /\ Len(items) \in Nat /\ DOMAIN items = 1..Len(items)
    /\ \A k \in DOMAIN items : IsItem(items[k])
IsResult(items, values) ==
    \A k \in DOMAIN items :
        items[k].name \in DOMAIN values =>
            IF items[k].usage = "text" THEN values[items[k].name] \in Seq(Int)
            ELSE values[items[k].name] \in Int

IsTrial(t) ==
    \/ /\ t.kind = "comparison"
       /\ AreRecords(t.golden) /\ AreRecords(t.candidate) /\ IsRuleset(t.rules) /\ Readable(t.golden, t.rules)
    \/ t.kind = "launch" /\ AreAnswers(t.golden) /\ AreAnswers(t.actual)
    \/ t.kind = "record" /\ IsCopybook(t.items) /\ IsResult(t.items, t.values)

----------------------------------------------------------------------------
VARIABLE trial

NoTrial == [kind |-> "none"]
LabInit == trial = NoTrial \/ IsTrial(trial)
LabSpec == LabInit /\ [][UNCHANGED trial]_trial

----------------------------------------------------------------------------
ComparisonIsSound ==
    trial.kind = "comparison" =>
        /\ VerdictIsSound(trial.golden, trial.candidate, trial.rules, trial.key)
        /\ FailureIsLocalised(trial.golden, trial.candidate, trial.rules, trial.key)
ReplayIsSound ==
    trial.kind = "launch" => LaunchIsSound(trial.inputs, trial.golden, trial.actual)
(* A verdict of the lab is sound, and a failing one is brought down to     *)
(* programs; so is that of a dark launch (see VerdictIsSound,              *)
(* FailureIsLocalised and LaunchIsSound).                                  *)
EveryVerdictIsSound == ComparisonIsSound /\ ReplayIsSound
(* What the mimic writes, the lab and the mimic read (see RecordSurvives). *)
RecordsSurvive == trial.kind = "record" => RecordSurvives(trial.items, trial.values)
=============================================================================
