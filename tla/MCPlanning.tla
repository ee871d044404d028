----------------------------- MODULE MCPlanning -----------------------------
(* The planner and the domain design over graphs of three programs and two *)
(* resources, and the work-list, the pack and the pool over backlogs of    *)
(* three stories.  One sample is drawn, and the properties are of it; or   *)
(* builds and repairs of a plan of three stories write the Java module.    *)
EXTENDS PlanInputs, StoryFiles

CONSTANTS r1, r2     \* resources; r2 is named like billing data

ThePrograms == 1..3
TheBilling  == {r2}
(* The references of program p are 10 * p to 10 * p + 9. *)
OfProgram(ref) == ref \div 10

Access(resource, intent, via) == [resource |-> resource, intent |-> intent, via |-> via]
AccessSets ==
    {{}, {Access(r1, "read", "file")}, {Access(r1, "write", "file")},
     {Access(r1, "read", "file"), Access(r2, "write", "file")},
     {Access(r2, "read", "cics"), Access(r1, "write", "sql")},
     {Access(r1, "read", "sql"), Access(r1, "write", "sql")}}
GraphOf(accesses, fanIn) ==
    [p \in ThePrograms |-> [fanIn |-> fanIn[p], entry |-> p = 2, accesses |-> accesses[p],
                            gotos |-> 2 * p, churn |-> 3 - p]]
FanIns == {<<0, 0, 0>>, <<3, 1, 0>>, <<0, 2, 2>>}

(* Backlogs: story 4 is not of the backlog. *)
DependsOn == {d \in SUBSET (1..4) : Cardinality(d) < 3}
Contexts  == <<"A", "B", "">>
BacklogOf(deps) ==
    [k \in 1..3 |-> [id |-> k, depends_on |-> deps[k], context |-> Contexts[k],
                     evidence |-> <<<<11>>, <<99, 20>>, <<31, 11, 31>>>>[k]]]
(* The programs' candidates, when they have what they read and write. *)
Accesses(graph) == [k \in ThePrograms |-> WithAccesses(graph, Candidate(graph, k))]
Service(ids, context) == [story_ids |-> ids, context |-> context, evidence |-> <<12, 30>>]
ServiceLists ==
    {<<>>, <<Service({}, "A"), Service({}, "B")>>, <<Service({1, 3}, "B")>>,
     <<Service({}, "A"), Service({2}, "B"), Service({2, 4}, "A")>>}
TheDesign ==
    [c \in {"A", "B"} |-> IF c = "A" THEN [members |-> <<10, 20>>, mapped |-> <<11, 11>>]
                          ELSE [members |-> <<20>>, mapped |-> <<31, 99>>]]

(* Packs: 99 is of no entity and has no source. *)
Contained == [e \in 0..99 |-> CASE e = 10 -> <<11, 12>> [] e = 20 -> <<21>> [] OTHER -> <<>>]
NamedIn   == {<<>>, <<"A">>, <<"B", "A">>}
SizesOf(ten, eleven, twenty) ==
    [e \in 0..99 |-> CASE e = 10 -> ten [] e = 11 -> eleven [] e = 20 -> twenty
                       [] e = 99 -> 0 [] OTHER -> 1]

(* Designs: the titles 101 and 102 share a slug, and 105 has that of       *)
(* program 3; 50 is a reference to something else that the graph knows.    *)
TheSlug(title) == CASE title = 102 -> 101 [] title = 105 -> 3 [] OTHER -> title
KnownRefs == ThePrograms \cup {50}
Written   == {{}, {r1}, {r1, r2}}
CitedBy   == {{}, {1}, {1, 2}, {50}, {60, 3}}
Epic(id, title) == [id |-> id, title |-> title]
EpicLists == {<<>>, <<Epic(101, 101), Epic(102, 102)>>, <<Epic(101, 101), Epic(102, 105)>>}

(* Answers of an agent, the first of them one that never meets the gates. *)
Hopeless == <<[name |-> 1, members |-> <<>>, owned |-> {}, cited |-> {60}, depends_on |-> {}]>>
NameLists == {<<1, 2, 3>>, <<1, 1, 2>>}
MemberLists == {<<>>, <<1>>, <<3>>, <<2, 3>>, <<3, 3>>, <<50, 1>>}
AnswerOf(names, members, owned, deps) ==
    [k \in 1..3 |-> [name |-> names[k], members |-> members[k], owned |-> owned[k],
                     cited |-> {50, 60}, depends_on |-> deps[k]]]
Apart == <<{Access(r1, "write", "file")}, {}, {Access(r2, "write", "sql")}>>
AnswersWith(answer) == {<<answer>>, <<Hopeless, Hopeless, answer>>, <<Hopeless, <<>>, answer>>}

(* What an agent says of a program; there is no program 4.                 *)
Sayings == [of : 1..4, cited : {<<>>, <<1>>, <<1, 60>>, <<2, 3>>}, invest : {0, 3, 9}]

(* Story 3 is blocked: no service, so no packages.  It shares the first    *)
(* wave with story 1; story 2 waits for story 1, whose service it shares.  *)
TheNeeds == <<{}, {1}, {}>>
ThePackages == <<{2}, {2, 3}, {}>>
TheTests == <<"t1", "t2", "t2">>
Setting(llm, impl, resume, width) ==
    [llmTests |-> llm, llmImpl |-> impl, fallback |-> ~resume, resume |-> resume, width |-> width]
TheSettings ==
    {Setting(TRUE, FALSE, TRUE, 2), Setting(FALSE, TRUE, TRUE, 1), Setting(FALSE, TRUE, FALSE, 1),
     Setting(FALSE, TRUE, FALSE, 2)}

(* Names, references and resources of the answers. *)
TheWords == 1..3 \cup {50, 60, r1}

Init == PlanInit /\ FilesInit

DrawGraph ==
    \E accesses \in [ThePrograms -> AccessSets], fanIn \in FanIns :
       sample' = [kind |-> "graph", graph |-> GraphOf(accesses, fanIn)]
DrawBacklog ==
    \E deps \in [1..3 -> DependsOn], services \in ServiceLists :
       sample' = [kind |-> "backlog", stories |-> BacklogOf(deps), services |-> services,
                  design |-> TheDesign]
DrawDerived ==
    \E accesses \in [ThePrograms -> AccessSets], third \in DependsOn :
       sample' = [kind |-> "backlog", services |-> <<>>, design |-> TheDesign,
                  stories |-> DeriveStoryDependencies(
                      BacklogOf(<<{}, {3}, third>>), Accesses(GraphOf(accesses, <<1, 0, 0>>)))]
DrawSlice ==
    \E named \in NamedIn, sizes \in [1..3 -> {0, 1, 3}], units \in 1..4, chars \in {0, 3, 5},
       hi \in {10, 16, 40}, cap \in {0, 2}, count \in 0..3 :
       sample' = [kind |-> "slice", design |-> TheDesign, named |-> named, contained |-> Contained,
                  programs |-> <<10, 20, 30>>, size |-> SizesOf(sizes[1], sizes[2], sizes[3]),
                  units |-> units, chars |-> chars, lo |-> 16, hi |-> hi, cap |-> cap, count |-> count]
DrawDesign ==
    \E writes \in [ThePrograms -> Written], epics \in EpicLists, unknown \in {{}, {2}},
       stories \in SeqOf([epic : {0, 101, 102}, refs : CitedBy], 2) :
       sample' = [kind |-> "design", writes |-> writes, known |-> KnownRefs \ unknown,
                  epics |-> epics, stories |-> stories]
DrawAnswer ==
    \E names \in NameLists, members \in [1..3 -> MemberLists],
       owned \in [1..3 -> {{}, {r1}}], deps \in [1..3 -> {{}, {1}, {2, 3}}] :
       \E answers \in AnswersWith(AnswerOf(names, members, owned, deps)) :
          sample' = [kind |-> "answer", parsed |-> GraphOf(Apart, <<1, 2, 2>>), answers |-> answers,
                     writers |-> {1, 3}, known |-> KnownRefs, repairs |-> 2]
DrawNarrative ==
    \E items \in SeqOf(Sayings, 2), unknown \in {{}, {2}} :
       sample' = [kind |-> "narrative", parsed |-> GraphOf(Apart, <<1, 2, 2>>),
                  known |-> KnownRefs \ unknown, items |-> items]
DrawOne ==
    /\ sample = NoSample /\ NoJob /\ module = NoFiles
    /\ DrawGraph \/ DrawBacklog \/ DrawDerived \/ DrawSlice
       \/ DrawDesign \/ DrawAnswer \/ DrawNarrative
    /\ Draw
Next ==
    \/ DrawOne /\ UNCHANGED fileVars
    \/ FilesNext /\ sample = NoSample /\ UNCHANGED sample
Spec == Init /\ [][Next]_<<sample, fileVars>>
=============================================================================
