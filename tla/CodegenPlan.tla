---------------------------- MODULE CodegenPlan ----------------------------
(***************************************************************************)
(* What a story build works through, as functions: the backlog's own       *)
(* dependencies (backlog/dependency.py), the ordered work-list with each   *)
(* story's service (codegen/story_plan.py), the budgets it is given        *)
(* (codegen/budget.py) and the source a slice is packed with               *)
(* (controlplane/build.py).                                                *)
(*                                                                         *)
(* A backlog is a sequence of stories [id, depends_on, context, evidence]; *)
(* a reference is to a program or to something in it.                      *)
(***************************************************************************)
EXTENDS Planning

CONSTANTS ProgramOf(_),   \* the program a reference is to
          NoProgram       \* no candidate's program

----------------------------------------------------------------------------
(* Mutated forms: a story that waits is put at the end for good; what      *)
(* alone fits the budget is packed; a story may go by its context although *)
(* services name stories.                                                  *)
EmitWaiting(stories, at) == [left |-> {}, order |-> at.order \o Sorted(at.left)]
FitsAlone(sources, k, budget) == sources[k].size <= budget
AlwaysByContext(story, services) ==
    {s \in Range(services) : story.id \in s.story_ids \/ s.context = story.context}

(* The entries of a list at some of its positions, in their order.         *)
Chosen(list, at) == LET kept == Sorted(at) IN [k \in DOMAIN kept |-> list[kept[k]]]
FirstOf(list, at) == IF at = {} THEN {} ELSE {list[Min(at)]}

----------------------------------------------------------------------------
(* derive_story_dependencies: a story is of the first candidate's program  *)
(* it cites; of several stories of a program the last stands for it.       *)
StoryProgram(story, cands) ==
    LET cited == {k \in DOMAIN story.evidence :
                    \E c \in Range(cands) : c.program = ProgramOf(story.evidence[k])}
    IN  IF cited = {} THEN NoProgram ELSE ProgramOf(story.evidence[Min(cited)])
LastStoryOf(stories, cands, p) ==
    {k \in DOMAIN stories :
        /\ StoryProgram(stories[k], cands) = p
        /\ \A j \in DOMAIN stories : j > k => StoryProgram(stories[j], cands) # p}
Accessed(cand, list) == IF list \in DOMAIN cand THEN cand[list] ELSE {}
DerivedFor(stories, cands, story) ==
    LET p == StoryProgram(story, cands)
        writes == UNION {Accessed(c, "writes") : c \in {x \in Range(cands) : x.program = p}}
        read   == {c.program : c \in {x \in Range(cands) :
                      x.program # p /\ writes \cap Accessed(x, "reads") # {}}}
    IN  {stories[k].id : k \in UNION {LastStoryOf(stories, cands, q) : q \in read}}
DeriveStoryDependencies(stories, cands) ==
    [k \in DOMAIN stories |->
        [stories[k] EXCEPT !.depends_on =
            @ \cup DerivedFor(stories, cands, stories[k])]]

----------------------------------------------------------------------------
(* _ordered_stories: pass after pass over what is left, each story emitted *)
(* once its known dependencies are; a pass without progress ends it.  What *)
(* is left is always in the order of the backlog, hence a set.             *)
StoryIds(stories) == {s.id : s \in Range(stories)}
Emitted(stories, at, k) ==
    IF /\ k \in at.left
       /\ stories[k].depends_on \cap StoryIds(stories) \subseteq {stories[j].id : j \in Range(at.order)}
    THEN [left |-> at.left \ {k}, order |-> Append(at.order, k)]
    ELSE at
OnePass(stories, at) ==
    LET Upto[k \in 0..Len(stories)] == IF k = 0 THEN at ELSE Emitted(stories, Upto[k - 1], k)
    IN  Upto[Len(stories)]
EmitStuck(stories, at) ==
    LET next == OnePass(stories, at)
    IN  IF next.left = at.left THEN [left |-> {}, order |-> at.order \o Sorted(at.left)] ELSE next
Emission(stories) ==
    LET Pass[k \in 0..Len(stories)] ==
            IF k = 0 THEN [left |-> DOMAIN stories, order |-> <<>>] ELSE EmitStuck(stories, Pass[k - 1])
    IN  Pass[Len(stories)].order
OrderedStories(stories) ==
    LET order == Emission(stories) IN [k \in DOMAIN order |-> stories[order[k]]]

(* build_story_codegen_plan: the first service that names the story; by    *)
(* its context only when no service names any story; blocked without.      *)
ServiceOf(story, services) ==
    IF \A s \in Range(services) : s.story_ids = {}
    THEN FirstOf(services, {k \in DOMAIN services : story.context # "" /\ services[k].context = story.context})
    ELSE FirstOf(services, {k \in DOMAIN services : story.id \in services[k].story_ids})

DomainRefs(design, context) == design[context].members \o design[context].mapped
Dedupe(refs) == Chosen(refs, {k \in DOMAIN refs : \A j \in 1..(k - 1) : refs[j] # refs[k]})
Item(story, services, design) ==
    LET mapped == ServiceOf(story, services)
    IN  IF mapped = {} THEN
            [story |-> story.id, depends_on |-> story.depends_on, status |-> "blocked",
             refs |-> Dedupe(story.evidence)]
        ELSE LET s == CHOOSE x \in mapped : TRUE
             IN  [story |-> story.id, depends_on |-> story.depends_on, status |-> "pending",
                  refs |-> Dedupe(story.evidence \o DomainRefs(design, s.context) \o s.evidence)]
BuildStoryCodegenPlan(stories, services, design) ==
    LET order == OrderedStories(stories)
    IN  [k \in DOMAIN order |-> Item(order[k], services, design)]

----------------------------------------------------------------------------
(* codegen/budget.py: a cap of 0 or less is no cap of a story; the pool is *)
(* by default what the caps of the stories add up to.                      *)
TokensExceeded(cap, used) == cap > 0 /\ used > cap
DefaultPool(cap, count) == (IF count < 0 THEN 0 ELSE count) * cap
PoolExhausted(pool, used) == pool >= 0 /\ used >= pool

(* _target_refs, _slice_pack: the sources of the named entities and of     *)
(* what they contain, until one does not fit.                              *)
TargetRefs(design, contexts) ==
    Dedupe(FlattenSeq([k \in DOMAIN contexts |-> design[contexts[k]].members])
               \o FlattenSeq([k \in DOMAIN contexts |-> design[contexts[k]].mapped]))
Targets(named, programs, maxUnits) ==
    IF named # <<>> THEN named
    ELSE SubSeq(programs, 1, IF Len(programs) < maxUnits THEN Len(programs) ELSE maxUnits)
Expanded(targets, contained) ==
    Dedupe(FlattenSeq([k \in DOMAIN targets |-> <<targets[k]>> \o contained[targets[k]]]))
SizeOf(sources) ==
    LET Upto[k \in 0..Len(sources)] == IF k = 0 THEN 0 ELSE Upto[k - 1] + sources[k].size
    IN  Upto[Len(sources)]
Fits(sources, k, budget) == \A j \in 1..k : SizeOf(SubSeq(sources, 1, j)) <= budget
Sourced(sources, maxUnits) ==
    Chosen(sources, {k \in DOMAIN sources : k <= maxUnits /\ sources[k].size > 0})
SlicePack(sources, maxUnits, maxChars) ==
    LET there == Sourced(sources, maxUnits)
    IN  SubSeq(there, 1, Max({0} \cup {k \in DOMAIN there : Fits(there, k, maxChars)}))

(* turns_for, _codegen_run_plan: how many turns, and with the graph tools? *)
TurnsFor(units, lo, hi) == Max({lo, Min({hi, 12 + units \div 6})})
CodegenRunPlan(pack, units, lo, hi, inline) ==
    IF pack # <<>> THEN [turns |-> inline, tools |-> FALSE]
    ELSE [turns |-> TurnsFor(units, lo, hi), tools |-> TRUE]

----------------------------------------------------------------------------
(* Properties, of a backlog. *)

Position(order, id) == CHOOSE k \in DOMAIN order : order[k].id = id

(* The stories that a cycle holds up: those of the largest set each member *)
(* of which waits for another of it.                                       *)
HeldUp(stories) ==
    UNION {S \in SUBSET DOMAIN stories :
              \A k \in S : \E j \in S : stories[j].id \in stories[k].depends_on}

(* The stories in place: those of the largest set each member of which     *)
(* depends only on members of it that come before it in the backlog.       *)
InPlace(stories) ==
    UNION {S \in SUBSET DOMAIN stories :
              \A k \in S : \A j \in DOMAIN stories :
                 stories[j].id \in stories[k].depends_on => j \in S /\ j < k}

(* However the stories depend on one another, the work-list holds each     *)
(* once; none that no cycle holds up comes before what it depends on, or   *)
(* after one that is held up; and one in place is not overtaken.           *)
WorkListIsOrdered(stories) ==
    LET order == OrderedStories(stories)
        at    == [k \in DOMAIN stories |-> Position(order, stories[k].id)]
    IN  /\ Len(order) = Len(stories) /\ Range(order) = Range(stories)
        /\ \A k \in DOMAIN stories \ HeldUp(stories) :
              /\ \A j \in DOMAIN stories :
                    stories[j].id \in stories[k].depends_on => at[j] < at[k]
              /\ \A j \in HeldUp(stories) : at[k] < at[j]
        /\ \A k \in InPlace(stories) : \A j \in DOMAIN stories : j > k => at[k] < at[j]

(* A story that no service builds is on the list as blocked, never missing *)
(* and never pending, and one that is pending has the source of its        *)
(* evidence, of its context and of its service.                            *)
EveryStoryIsListed(stories, services, design) ==
    LET plan == BuildStoryCodegenPlan(stories, services, design)
    IN  /\ {i.story : i \in Range(plan)} = StoryIds(stories)
        /\ \A i \in Range(plan) : \A s \in Range(stories) :
              i.story = s.id =>
                  /\ Range(s.evidence) \subseteq Range(i.refs)
                  /\ i.status = "blocked" <=>
                        \A v \in Range(services) :
                            /\ s.id \notin v.story_ids
                            /\ \/ s.context = "" \/ v.context # s.context
                               \/ \E w \in Range(services) : w.story_ids # {}

(* What a slice is packed with is within the budget, in the order of the   *)
(* design, each entity once, and is cut short only by one that does not    *)
(* fit; and only an empty pack is answered with tools, whose turns stay    *)
(* within the bounds whatever the size of the repository.                  *)
PackIsAPrefix(design, contexts, contained, programs, size, maxUnits, maxChars, lo, hi) ==
    LET entities == Expanded(Targets(TargetRefs(design, contexts), programs, maxUnits), contained)
        sources  == [k \in DOMAIN entities |-> [of |-> entities[k], size |-> size[entities[k]]]]
        pack     == SlicePack(sources, maxUnits, maxChars)
        plan     == CodegenRunPlan(pack, Len(programs), lo, hi, 2)
        known    == Sourced(sources, maxUnits)
    IN  /\ SizeOf(pack) <= maxChars /\ Len(pack) <= maxUnits
        /\ IsPrefix(pack, known)
        /\ \A j, k \in DOMAIN pack : j # k => pack[j] # pack[k]
        /\ Len(pack) < Len(known) => SizeOf(pack) + known[Len(pack) + 1].size > maxChars
        /\ plan.tools <=> pack = <<>>
        /\ plan.tools => plan.turns >= lo /\ (lo <= hi => plan.turns <= hi)

(* While no story goes over its cap, the pool a build has by default is    *)
(* enough to start every story; without a cap (0) it is not: the pool is 0 *)
(* and exhausted before the first.                                         *)
BuildIsFunded(cap, count) ==
    \A built \in 0..(count - 1), each \in 0..(cap + 1) :
        ~TokensExceeded(cap, each) =>
            PoolExhausted(DefaultPool(cap, count), built * each) <=> cap = 0
=============================================================================
