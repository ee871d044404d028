----------------------------- MODULE MCRelease -----------------------------
(* Release beside samples for the lab: a state is one of a release, or a   *)
(* comparison, a record or a dark launch to judge.                         *)
EXTENDS LabInputs, Release

CONSTANTS r1, r2, agent1, p1, p2

(* The runs are alike: no sample names one. *)
RunSymmetry == Permutations({r1, r2})

SomeCaps == {[workspace |-> 2, run |-> 2], [workspace |-> 4, run |-> 4]}
SomeHealths == {[requests |-> 0, errors |-> 0, divergences |-> 0],
                [requests |-> 100, errors |-> 1, divergences |-> 0],
                [requests |-> 100, errors |-> 2, divergences |-> 0],
                [requests |-> 100, errors |-> 0, divergences |-> 1]}
SomePerfs == {[latencies |-> <<4, 9>>, legacy |-> 8, maxRatio |-> 11250, divergences |-> 0],
              [latencies |-> <<4, 9>>, legacy |-> 8, maxRatio |-> 11249, divergences |-> 0],
              [latencies |-> <<>>, legacy |-> 0, maxRatio |-> 11250, divergences |-> 0],
              [latencies |-> <<>>, legacy |-> 8, maxRatio |-> 11250, divergences |-> 0]}

TheContexts == <<"program", "copybook">>

(* Golden and candidate: up to three records, each with a program, a zoned *)
(* amount and a name.                                                      *)
Amount(n) == [kind |-> "zoned", v |-> EncodeZoned(n, 3, 2, TRUE)]
WithZeros(n, zeros) == [kind |-> "decimal", v |-> n, pad |-> zeros]
Decimal(n) == WithZeros(n, 0)
Rec(k, p, amount, name) == "key" :> Text(k, 0) @@ "program" :> Text(p, 0) @@ "amount" :> amount @@ "name" :> name
GoldenOnes ==
    {Rec(k, p, a, Text("a", 3)) :
        k \in {"k1", "k2"}, p \in {p1, p2}, a \in {Amount(-120), [kind |-> "zoned", v |-> <<0, 0, Plus(5)>>]}}
CandidateOnes ==
    {Rec(k, p, d, Text(n, 0)) : k \in {"k1", "k2", "k3"}, p \in {p1, p2}, n \in {"a"},
        d \in {Decimal(-120), Decimal(-115), Decimal(50), Text("", 0)}}
    \cup {"key" :> Text("k2", 0) @@ "program" :> Text("", 0) @@ "amount" :> Decimal(54) @@ "name" :> Text("b", 0),
          "key" :> Text("k2", 0) @@ "program" :> Text(p1, 2) @@ "amount" :> WithZeros(-120, 1) @@ "name" :> Text("a", 1)}
UpToTwo(S) == {<<x>> : x \in S} \cup {<<x, y>> : x, y \in S}
Due(k, p) == Rec(k, p, Amount(-120), Text("a", 3))
ThreeOfThem == {<<Due("k1", x), Due("k2", y), Due("k3", z)>> : x, y, z \in {p1, p2}}
Rule(f, m, tolerance) ==
    [field |-> f, matcher |-> m, scale |-> 2, tolerance |-> tolerance, representation |-> "zoned"]
Rulesets ==
    {[default |-> "exact",
      rules |-> <<Rule("key", "ignore", 0), Rule("amount", "numeric_scale", 0), Rule("program", p, 0)>>] :
        p \in {"exact", "ignore"}}
    \cup {[default |-> "exact",
           rules |-> <<Rule("key", "ignore", 0), Rule("amount", "numeric_abs", 10), Rule("amount", "ignore", 0)>>]}
(* One record with a packed balance and a date, and what may answer it.    *)
Dated(balance, due) == "key" :> Text("k1", 0) @@ "balance" :> balance @@ "due" :> [kind |-> "date", v |-> due]
DatedRules ==
    {[default |-> "exact", rules |-> <<[field |-> "balance", matcher |-> m, scale |-> s, tolerance |-> 10,
                                        representation |-> "packed"], Rule("due", "date", 0), Rule("key", "ignore", 0)>>] :
        m \in {"numeric_abs", "numeric_scale"}, s \in {0, 2}}
DatedComparisons ==
    [kind : {"comparison"}, key : {"key"},
     golden : {<<Dated([kind |-> "packed", v |-> EncodeComp3(v, 3, 2, TRUE)], 1)>> : v \in {-1010, 120, 0}},
     candidate : {<<Dated(Decimal(v), d)>> : v \in {-1010, -1020, 115, 120, 0, -500, 500}, d \in {1, 2}}
                     \cup {<<"key" :> Text("k1", 0) @@ "due" :> Text("", 0)>>, <<>>},
     rules : DatedRules]
(* A rate, as it is written. *)
Rate(r) == "key" :> Text("k1", 0) @@ "rate" :> r
Rates == {WithZeros(v, zeros) : v \in {1200, 1300}, zeros \in {0, 1}}
RateComparisons ==
    [kind : {"comparison"}, key : {"key"}, golden : {<<Rate(r)>> : r \in Rates},
     candidate : {<<Rate(r)>> : r \in Rates \cup {Text("1.2", 0)}},
     rules : [default : {"exact", "numeric_scale"}, rules : {<<Rule("key", "ignore", 0)>>}]]
Comparisons ==
    [kind : {"comparison"}, key : {"key"}, golden : UpToTwo(GoldenOnes) \cup ThreeOfThem, candidate : UpToTwo(CandidateOnes),
     rules : Rulesets]

(* Records of three fields, some of them not written. *)
Item(name, usage, digits, scale, signed, occurs) ==
    [name |-> name, usage |-> usage, digits |-> digits, scale |-> scale, signed |-> signed, occurs |-> occurs]
NumericItems(name) ==
    {Item(name, u, d, s, sg, 0) : u \in {"packed", "zoned"}, d \in {2, 3}, s \in {0, 2}, sg \in BOOLEAN}
        \cup {Item(name, "zoned", 2, 0, TRUE, 2)}
Layouts ==
    {<<x, y, z>> : x \in NumericItems("x"), y \in NumericItems("y") \cup {Item(Filler, "text", 2, 0, FALSE, 0)},
                   z \in {Item("z", "text", 2, 0, FALSE, 0), Item("z", "zoned", 1, 0, FALSE, 3)}}
Amounts == {0, 990, -990, 7000, 12000, -12340, 99000, -1005, 125, 345000}
Texts == {<<401, Blank, 402>>, <<401, 402>>, <<Blank, 401>>, <<401, Blank>>, <<>>}
Valued ==
    {"x" :> x @@ "z" :> z : x \in Amounts, z \in Texts} \cup {"x" :> x @@ "y" :> y : x, y \in Amounts}
Records == [kind : {"record"}, items : Layouts, values : Valued]

(* Dark launches of two accounts; the second one may not be captured.      *)
View(id, balance, name) ==
    "accountId" :> Text(id, 0) @@ "currentBalance" :> balance @@ "customerLastName" :> name
Captured == {View("a1", Decimal(b), Text("n", p)) : b \in {-125, 120}, p \in {0, 3}}
Answered ==
    {View("a1", b, Text("n", p)) : b \in {Decimal(-125), Decimal(-120), WithZeros(120, 1), Decimal(115), Decimal(125), Text("x", 0)}, p \in {0, 3}}
        \cup {View("a1", Decimal(120), Text("m", 0)), View("a2", Decimal(120), Text("n", 0)), <<>>}
        \cup {"accountId" :> Text("a1", 0) @@ "customerLastName" :> Text("n", 0)}
Second == View("a2", Decimal(5), Text("n", 0))
Nulls  == View("a2", Null, Null)
Launches ==
    [kind : {"launch"}, inputs : {<<>>, <<"a1">>, <<"a1", "a1">>, <<"a1", "a2">>},
     golden : {"a1" :> g : g \in Captured} \cup {"a1" :> g @@ "a2" :> Second : g \in Captured},
     actual : {"a1" :> x @@ "a2" :> y : x \in Answered, y \in {Second, Nulls, [Nulls EXCEPT !["currentBalance"] = Decimal(5)]}}
                  \cup {"a2" :> Second}]

Samples == Comparisons \cup RateComparisons \cup DatedComparisons \cup Launches \cup {r \in Records : r.items[3].usage = "text" \/ "z" \notin DOMAIN r.values}

MCInit ==
    /\ Init
    /\ trial \in Samples \cup {NoTrial}
    /\ LabInit
MCNext == trial = NoTrial /\ Next /\ UNCHANGED trial
MCSpec == MCInit /\ [][MCNext]_<<vars, trial>>
=============================================================================
