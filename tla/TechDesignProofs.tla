-------------------------- MODULE TechDesignProofs --------------------------
(***************************************************************************)
(* Proofs about TechDesign for any inputs, settings, answers, bounds and   *)
(* approvals: the promise of a stage's job, what a saved design may name   *)
(* and be made of, and what a finished job stands for.                     *)
(***************************************************************************)
EXTENDS TechDesign, TLAPS, FiniteSetTheorems, FunctionTheorems

(* A unit of the ledger: only a success has a payload, and it was shown    *)
(* what its key says.                                                      *)
UnitOk(u, p) ==
    /\ u = [status |-> u.status, payload |-> u.payload, shown |-> u.shown]
    /\ u.status \in UnitStatus
    /\ u.status # "succeeded" => u.payload = {}
    /\ u.status = "succeeded" => u.shown = [context |-> p.context, stories |-> p.stories]
    /\ IsFiniteSet(u.payload) /\ \A s \in u.payload : IsService(s)

Ledger(l) ==
    /\ l = [runs |-> l.runs, unit |-> l.unit]
    /\ l.unit = [p \in Packs |-> l.unit[p]]
    /\ \A p \in Packs : UnitOk(l.unit[p], p)

(* The transaction under way is the committed ledger, its own run and      *)
(* whatever units; the top version is of this run only once it was saved.  *)
Transaction ==
    /\ Ledger(session) /\ Ledger(saved)
    /\ latest.run \in 0..runs /\ saved.runs \subseteq 1..runs
    /\ pc = "idle" => session = saved
    /\ pc # "idle" =>
          /\ session.runs = saved.runs \cup {runs} /\ runs \in 1..MaxRuns /\ runs \notin saved.runs
          /\ job = "running" /\ input \in Inputs
    /\ pc \in {"judge", "commit"} => latest.run = runs

(* The fan-out is over the contexts of the input. *)
Fanned ==
    pc = "units" =>
        \A n \in Names :
            /\ pos[n] # "none" <=> n \in Known(input)
            /\ pos[n] = "settled" => session.unit[PackOf(n)].status \in {"succeeded", "failed"}

(* What was gathered of the units of l, whose contexts all have one. *)
Gatherings(l, i) == UNION {l.unit[Pack(c, i)].payload : c \in Named(i)}
Drawn(l, i, o, services) ==
    o \in {"llm", "fallback"} =>
        /\ \A c \in Named(i) : l.unit[Pack(c, i)].status \in {"succeeded", "failed"}
        /\ o = "fallback" => Gatherings(l, i) = {}
        /\ o = "llm" => services = Parse(Gatherings(l, i), i)

Drafted ==
    pc = "save" =>
        /\ IsFiniteSet(payload) /\ \A s \in payload : IsService(s)
        /\ payload # {} => Known(input) # {}
        /\ Drawn(session, input, origin, Parse(payload, input))

(* What a saved design is. *)
Sound(services, i) ==
    /\ IsFiniteSet(services)
    /\ \A s \in services : /\ s.context \in Known(i)
                           /\ s.stories \subseteq IdsOf(i.stories)
                           /\ s.refs \subseteq i.known
Kept ==
    /\ latest.run # 0 => Sound(latest.services, latest.input)
    /\ latest.run # 0 => latest.input \in Inputs
    /\ pc \in {"judge", "commit"} =>
          /\ latest.origin = origin /\ latest.input = input
          /\ Drawn(session, input, origin, latest.services)
    /\ latest.run # 0 /\ Landed => Drawn(saved, latest.input, latest.origin, latest.services)

(* A gate found resolved is not opened again before the commit. *)
Resolving ==
    pc = "commit" => \A k \in GateKeys : loaded[k] \in Resolved => gates[k].status \in Resolved

Done == Stage!DoneIsLanded /\ DoneIsWhole /\ (job = "done" => latest.run # 0)

(* The inductive invariant. *)
IInv ==
    /\ TypeOK
    /\ Transaction
    /\ Fanned
    /\ Drafted
    /\ Kept
    /\ Resolving
    /\ Done

----------------------------------------------------------------------------
LEMMA FiniteImage ==
    ASSUME NEW S, IsFiniteSet(S), NEW T, NEW f, \A t \in T : \E x \in S : t = f[x]
    PROVE  IsFiniteSet(T)
<1> DEFINE U == {x \in S : f[x] \in T}
           g == [x \in U |-> f[x]]
<1>1. g \in [U -> T] /\ \A t \in T : \E x \in U : g[x] = t
  OBVIOUS
<1>2. g \in Surjection(U, T)
  BY <1>1 DEF Surjection
<1>3. IsFiniteSet(U)
  BY FS_Subset
<1> HIDE DEF U, g
<1> QED  BY <1>2, <1>3, FS_Surjection

LEMMA NamesOfInputs ==
    ASSUME NEW i \in Inputs
    PROVE  /\ i # None /\ IsFiniteSet(Named(i)) /\ Known(i) \subseteq Names
           /\ \A c, d \in Named(i) : c.name = d.name => c = d
           /\ \A c \in Named(i) : Pack(c, i) \in Packs
<1>1. IsFiniteSet(Named(i))
  BY DesignAssumption, FS_Subset DEF DesignAssumption, Named
<1> QED  BY <1>1, DesignAssumption DEF DesignAssumption, Packs

LEMMA PackFields ==
    ASSUME NEW c, NEW i
    PROVE  Pack(c, i).context = c /\ Pack(c, i).stories = i.stories
BY DEF Pack

(* The context of a known name is the one of that name. *)
LEMMA DeclaredContext ==
    ASSUME input \in Inputs, NEW c \in Named(input)
    PROVE  Declared(c.name) = c /\ PackOf(c.name) = Pack(c, input)
<1>1. Declared(c.name) \in Named(input) /\ Declared(c.name).name = c.name
  BY DEF Declared
<1>2. Declared(c.name) = c
  BY <1>1, NamesOfInputs
<1> QED  BY <1>2 DEF PackOf

LEMMA PackOfKnown ==
    ASSUME input \in Inputs, NEW n \in Known(input)
    PROVE  PackOf(n) \in Packs /\ Declared(n) \in Named(input)
<1>1. PICK c \in Named(input) : n = c.name
  BY DEF Known
<1> QED  BY <1>1, DeclaredContext, NamesOfInputs

(* What is read of a finite payload is sound. *)
LEMMA ParseIsSound ==
    ASSUME NEW i, NEW pay, IsFiniteSet(pay), \A s \in pay : IsService(s),
           pay # {} => Known(i) # {}
    PROVE  Sound(Parse(pay, i), i)
<1> DEFINE kept == {t \in pay : Known(i) = {} \/ t.context \in Known(i)}
           f == [s \in kept |-> Parsed(s, i)]
<1>1. \A t \in Parse(pay, i) : \E s \in kept : t = Parsed(s, i) /\ t = f[s]
  BY DEF Parse
<1>2. IsFiniteSet(kept)
  BY FS_Subset
<1>3. IsFiniteSet(Parse(pay, i))
  <2> HIDE DEF f, kept
  <2> QED  BY <1>1, <1>2, FiniteImage
<1>4. ASSUME NEW s \in kept
      PROVE  /\ Parsed(s, i).context = s.context
             /\ Parsed(s, i).stories \subseteq IdsOf(i.stories)
             /\ Parsed(s, i).refs \subseteq i.known
  <2>1. s = [unit |-> s.unit, name |-> s.name, context |-> s.context, deployment |-> s.deployment,
             stories |-> s.stories, apis |-> s.apis, owns |-> s.owns, to |-> s.to, refs |-> s.refs]
    BY DEF IsService
  <2> QED  BY <2>1 DEF Parsed, Ground
<1>5. \A s \in kept : s.context \in Known(i)
  OBVIOUS
<1> HIDE DEF kept, f
<1> QED  BY <1>1, <1>3, <1>4, <1>5 DEF Sound

LEMMA FallbackIsFinite ==
    ASSUME NEW i \in Inputs
    PROVE  /\ IsFiniteSet(FallbackPayload(i)) /\ \A s \in FallbackPayload(i) : IsService(s)
           /\ FallbackPayload(i) # {} => Known(i) # {}
<1> DEFINE f == [c \in Named(i) |-> FallbackService(c, i)]
<1>1. \A t \in FallbackPayload(i) : \E c \in Named(i) : t = f[c]
  BY DEF FallbackPayload
<1>2. IsFiniteSet(FallbackPayload(i))
  <2> HIDE DEF f
  <2> QED  BY <1>1, NamesOfInputs, FiniteImage
<1>3. \A c : IsService(FallbackService(c, i))
  BY DEF IsService, FallbackService
<1> QED  BY <1>2, <1>3 DEF FallbackPayload, Known

LEMMA GatheringsAreFinite ==
    ASSUME NEW l, Ledger(l), NEW i \in Inputs
    PROVE  /\ IsFiniteSet(Gatherings(l, i)) /\ \A s \in Gatherings(l, i) : IsService(s)
           /\ Gatherings(l, i) # {} => Known(i) # {}
<1> DEFINE f == [c \in Named(i) |-> l.unit[Pack(c, i)].payload]
           S == {f[c] : c \in Named(i)}
<1>1. Gatherings(l, i) = UNION S
  BY DEF Gatherings
<1>2. \A c \in Named(i) : UnitOk(l.unit[Pack(c, i)], Pack(c, i))
  BY NamesOfInputs DEF Ledger
<1>3. \A T \in S : IsFiniteSet(T) /\ \A s \in T : IsService(s)
  BY <1>2 DEF UnitOk
<1>4. IsFiniteSet(S)
  <2>1. \A T \in S : \E c \in Named(i) : T = f[c]
    OBVIOUS
  <2> HIDE DEF S, f
  <2> QED  BY <2>1, NamesOfInputs, FiniteImage
<1>5. IsFiniteSet(UNION S)
  BY <1>3, <1>4, FS_UNION
<1> QED  BY <1>1, <1>3, <1>5 DEF Known

LEMMA SameElements ==
    ASSUME NEW S, NEW T, \A x : x \in S <=> x \in T
    PROVE  S = T
OBVIOUS

(* A ledger whose unit changes is a ledger of the same runs. *)
LEMMA UnitsChange ==
    ASSUME NEW l, Ledger(l), NEW u, u = [p \in Packs |-> u[p]], \A p \in Packs : UnitOk(u[p], p)
    PROVE  Ledger([l EXCEPT !.unit = u]) /\ [l EXCEPT !.unit = u].runs = l.runs
           /\ [l EXCEPT !.unit = u].unit = u
<1>1. [l EXCEPT !.unit = u] = [runs |-> l.runs, unit |-> u]
  BY DEF Ledger
<1> QED  BY <1>1 DEF Ledger

----------------------------------------------------------------------------
LEMMA InitInv == Init => IInv
<1> SUFFICES ASSUME Init PROVE IInv
  OBVIOUS
<1> USE DesignAssumption DEF DesignAssumption
<1>1. /\ saved = [runs |-> {}, unit |-> [p \in Packs |-> NoUnit]] /\ session = saved
      /\ latest = NoDesign /\ runs = 0 /\ pc = "idle" /\ job = "none"
  BY DEF Init
<1>2. NoUnit = [status |-> "absent", payload |-> {}, shown |-> None] /\ \A p : UnitOk(NoUnit, p)
  BY FS_EmptySet DEF NoUnit, UnitOk, UnitStatus
<1>3. Ledger(saved) /\ Ledger(session) /\ saved.runs = {}
  BY <1>1, <1>2 DEF Ledger
<1>4. latest.run = 0
  BY <1>1 DEF NoDesign
<1>5. TypeOK
  <2>1. \A p \in Packs : saved.unit[p].status \in UnitStatus
    BY <1>3 DEF Ledger, UnitOk
  <2>2. gates \in [GateKeys -> GateRow] /\ loaded \in [GateKeys -> {"none", "open"} \cup Resolved]
    BY DEF Init, NoGate, GateRow, Decisions
  <2> QED  BY <1>1, <1>3, <1>4, <2>1, <2>2 DEF Init, TypeOK
<1>6. Transaction
  BY <1>1, <1>3, <1>4 DEF Transaction
<1>7. Fanned /\ Drafted /\ Kept /\ Resolving
  BY <1>1, <1>4 DEF Fanned, Drafted, Kept, Resolving
<1>8. Done
  BY <1>1 DEF Done, DoneIsWhole, Stage!DoneIsLanded
<1> QED  BY <1>5, <1>6, <1>7, <1>8 DEF IInv

(* Nothing but the job's own work moves. *)
Steady == UNCHANGED <<runs, job, saved, gates, latest>>

LEMMA SteadyDone == ASSUME Done, Steady PROVE Done'
BY DEF Done, Steady, DoneIsWhole, Stage!DoneIsLanded, Persisted, Landed

LEMMA BeginStep ==
    ASSUME IInv, NEW i \in Inputs, NEW setting \in Settings, Begin(i, setting)
    PROVE  IInv' /\ Stage!Start
<1> USE DesignAssumption DEF DesignAssumption
<1>1. /\ pc = "idle" /\ runs < MaxRuns /\ runs' = runs + 1 /\ input' = i /\ job' = "running"
      /\ session' = [saved EXCEPT !.runs = @ \cup {runs + 1}]
      /\ \/ pc' = "save" /\ origin' = "deterministic" /\ payload' = FallbackPayload(i)
         \/ pc' = "fan_out" /\ origin' = "llm" /\ payload' = {}
      /\ UNCHANGED <<pos, tries, loaded, saved, gates, latest>>
  BY DEF Begin
<1>2. Ledger(saved) /\ saved.runs \subseteq 1..runs /\ runs \in Nat
  BY DEF IInv, Transaction, TypeOK
<1>3. session' = [runs |-> saved.runs \cup {runs'}, unit |-> saved.unit]
  BY <1>1, <1>2 DEF Ledger
<1>4. Ledger(session')
  BY <1>2, <1>3 DEF Ledger
<1>5. TypeOK'
  <2>1. runs' \in 0..MaxRuns /\ session'.runs \subseteq 1..MaxRuns
    BY <1>1, <1>2, <1>3 DEF IInv, TypeOK
  <2>2. \A p \in Packs : session'.unit[p].status \in UnitStatus
    BY <1>4 DEF Ledger, UnitOk
  <2> QED  BY <1>1, <2>1, <2>2 DEF IInv, TypeOK
<1>6. Transaction'
  <2>1. session'.runs = saved'.runs \cup {runs'} /\ runs' \in 1..MaxRuns /\ runs' \notin saved'.runs
    BY <1>1, <1>2, <1>3
  <2> QED  BY <1>1, <1>2, <1>4, <2>1 DEF IInv, TypeOK, Transaction
<1>7. Fanned'
  BY <1>1 DEF Fanned
<1>8. Drafted'
  <2>1. CASE pc' = "save" /\ origin' = "deterministic" /\ payload' = FallbackPayload(i)
    BY <1>1, <2>1, FallbackIsFinite DEF Drafted, Drawn
  <2> QED  BY <1>1, <2>1 DEF Drafted
<1>9. Kept' /\ Resolving'
  BY <1>1 DEF IInv, Kept, Resolving, Landed
<1>10. Done'
  BY <1>1 DEF Done, DoneIsWhole, Stage!DoneIsLanded
<1>11. Stage!Start
  BY <1>1 DEF Stage!Start
<1> QED  BY <1>5, <1>6, <1>7, <1>8, <1>9, <1>10, <1>11 DEF IInv

(* The steps by which the services are drafted: the ledger's units change, *)
(* the promise does not see them.                                          *)
Drafting ==
    /\ pc \in {"fan_out", "units"} /\ pc' \in {"units", "save"}
    /\ Ledger(session') /\ session'.runs = session.runs
    /\ Steady /\ UNCHANGED <<input, loaded>>

LEMMA DraftingStep ==
    ASSUME IInv, TypeOK', Drafting, Fanned', Drafted'
    PROVE  IInv' /\ UNCHANGED Stage!vars
<1>1. Transaction'
  BY DEF Drafting, Steady, IInv, Transaction
<1>2. Kept' /\ Resolving'
  BY DEF Drafting, Steady, IInv, Kept, Resolving, Landed
<1>3. Done'
  BY SteadyDone DEF Drafting, IInv
<1>4. UNCHANGED Stage!vars
  BY DEF Drafting, Steady, Stage!vars
<1> QED  BY <1>1, <1>2, <1>3, <1>4 DEF IInv

LEMMA FanOutStep == ASSUME IInv, FanOut PROVE IInv' /\ UNCHANGED Stage!vars
<1> DEFINE worked == Named(input)
           fresh == {c \in worked : ~Cached(Pack(c, input))}
           asked == {Pack(c, input) : c \in fresh}
           u == [p \in Packs |-> IF p \in asked THEN [session.unit[p] EXCEPT !.status = "running"]
                                 ELSE session.unit[p]]
<1>1. /\ pc = "fan_out" /\ pc' = "units" /\ session' = [session EXCEPT !.unit = u]
      /\ pos' = [n \in Names |->
                   CASE n \in {c.name : c \in fresh} -> "queued"
                     [] n \in {c.name : c \in worked \ fresh} -> "settled"
                     [] OTHER -> "none"]
      /\ UNCHANGED <<runs, input, tries, origin, payload, loaded, job, saved, gates, latest>>
  BY DEF FanOut
<1>2. Ledger(session) /\ input \in Inputs
  BY <1>1 DEF IInv, Transaction
<1>3. \A c \in fresh : session.unit[Pack(c, input)].status # "succeeded"
  BY DEF Cached
<1>4. \A p \in Packs : UnitOk(u[p], p)
  <2> SUFFICES ASSUME NEW p \in Packs PROVE UnitOk(u[p], p)
    OBVIOUS
  <2>1. UnitOk(session.unit[p], p)
    BY <1>2 DEF Ledger
  <2>2. CASE p \notin asked
    BY <2>1, <2>2
  <2>3. CASE p \in asked
    <3>1. session.unit[p].status # "succeeded"
      BY <1>3, <2>3
    <3>2. u[p] = [session.unit[p] EXCEPT !.status = "running"]
      BY <2>3
    <3> HIDE DEF u, asked
    <3>3. u[p] = [status |-> "running", payload |-> session.unit[p].payload, shown |-> session.unit[p].shown]
      BY <2>1, <3>2 DEF UnitOk
    <3> QED  BY <2>1, <3>1, <3>3 DEF UnitOk, UnitStatus
  <2> QED  BY <2>2, <2>3
<1>5. \A p \in Packs \ asked : u[p] = session.unit[p]
  OBVIOUS
<1>6. u = [p \in Packs |-> u[p]]
  OBVIOUS
<1>7. Ledger(session') /\ session'.runs = session.runs /\ session'.unit = u
  <2> HIDE DEF u
  <2> QED  BY <1>1, <1>2, <1>4, <1>6, UnitsChange
<1> HIDE DEF u
<1>8. ASSUME NEW c \in worked \ fresh PROVE session'.unit[Pack(c, input)].status = "succeeded"
  <2>1. Pack(c, input) \in Packs /\ session.unit[Pack(c, input)].status = "succeeded"
    BY <1>2, NamesOfInputs DEF Cached
  <2>2. Pack(c, input) \notin asked
    BY PackFields
  <2> QED  BY <1>5, <1>7, <2>1, <2>2
<1>9. \A n \in Names : pos'[n] \in {"none", "queued", "settled"}
  <2> HIDE DEF worked, fresh
  <2> QED  BY <1>1
<1>10. TypeOK'
  <2>1. pos' \in [Names -> {"none", "queued", "calling", "settled"}]
    BY <1>1, <1>9
  <2>2. \A p \in Packs : session'.unit[p].status \in UnitStatus
    BY <1>7 DEF Ledger, UnitOk
  <2> QED  BY <1>1, <1>7, <2>1, <2>2 DEF IInv, TypeOK
<1>11. Fanned'
  <2> SUFFICES ASSUME NEW n \in Names
               PROVE  /\ pos'[n] # "none" <=> n \in Known(input)
                      /\ pos'[n] = "settled" =>
                           session'.unit[PackOf(n)'].status \in {"succeeded", "failed"}
    BY <1>1 DEF Fanned, Known, Named
  <2>1. PackOf(n)' = PackOf(n)
    BY <1>1 DEF PackOf, Declared
  <2>2. pos'[n] # "none" <=> n \in {c.name : c \in worked}
    BY <1>1
  <2>3. pos'[n] = "settled" => \E c \in worked \ fresh : n = c.name
    BY <1>1
  <2> QED  BY <1>2, <1>8, <2>1, <2>2, <2>3, DeclaredContext DEF Known
<1>12. Drafted'
  BY <1>1 DEF Drafted
<1>13. Drafting
  BY <1>1, <1>7 DEF Drafting, Steady
<1> QED  BY <1>10, <1>11, <1>12, <1>13, DraftingStep

(* A context waits for its turn or is asked once more. *)
LEMMA CallStep ==
    ASSUME IInv, NEW n \in Names, Enter(n) \/ \E cause \in Causes : Again(n, cause)
    PROVE  IInv' /\ UNCHANGED Stage!vars
<1> USE DesignAssumption DEF DesignAssumption
<1>1. /\ pc = "units" /\ pc' = pc /\ pos[n] # "none"
      /\ \/ pos' = [pos EXCEPT ![n] = "calling"] /\ tries' = [tries EXCEPT ![n] = 1]
         \/ pos' = pos /\ tries' = [tries EXCEPT ![n] = @ + 1] /\ tries[n] < MaxAttempts
      /\ UNCHANGED <<runs, input, origin, payload, loaded, job, session, saved, gates, latest>>
  BY DEF Enter, Again
<1>2. TypeOK'
  BY <1>1 DEF IInv, TypeOK
<1>3. Fanned'
  BY <1>1 DEF IInv, TypeOK, Fanned, PackOf, Declared, Known, Named
<1>4. Drafted' /\ Drafting
  BY <1>1 DEF IInv, Transaction, Drafted, Drafting, Steady
<1> QED  BY <1>2, <1>3, <1>4, DraftingStep

(* A context gets its services, or gives up. *)
LEMMA SettleStep ==
    ASSUME IInv, NEW n \in Names,
           (\E services \in Answers[n] : Answer(n, services)) \/ \E cause \in Causes : GiveUp(n, cause)
    PROVE  IInv' /\ UNCHANGED Stage!vars
<1>1. PICK status, services, shown :
        /\ pc = "units" /\ pos[n] = "calling" /\ Settle(n, status, services, shown)
        /\ \/ status = "failed" /\ services = {}
           \/ /\ status = "succeeded" /\ services \in Answers[n]
              /\ shown = [context |-> Declared(n), stories |-> input.stories]
  BY DEF Answer, GiveUp
<1> DEFINE q == PackOf(n)
           v == [status |-> status, payload |-> services, shown |-> shown]
           u == [session.unit EXCEPT ![q] = v]
<1>2. /\ pos' = [pos EXCEPT ![n] = "settled"] /\ session' = [session EXCEPT !.unit[q] = v]
      /\ UNCHANGED <<pc, runs, input, tries, origin, payload, loaded, job, saved, gates, latest>>
  BY <1>1 DEF Settle
<1>3. Ledger(session) /\ input \in Inputs /\ n \in Known(input)
  BY <1>1 DEF IInv, Transaction, Fanned
<1>4. q \in Packs /\ q.context = Declared(n) /\ q.stories = input.stories
  BY <1>3, PackOfKnown, PackFields DEF PackOf
<1>5. UnitOk(v, q)
  <2>1. CASE status = "failed" /\ services = {}
    BY <2>1, FS_EmptySet DEF UnitOk, UnitStatus
  <2>2. CASE status = "succeeded"
    <3>1. IsFiniteSet(services) /\ \A s \in services : IsService(s)
      BY <1>1, <2>2, DesignAssumption DEF DesignAssumption
    <3> QED  BY <1>1, <1>4, <2>2, <3>1 DEF UnitOk, UnitStatus
  <2> QED  BY <1>1, <2>1, <2>2
<1> HIDE DEF v, q
<1>6. /\ u = [p \in Packs |-> u[p]] /\ u[q] = v
      /\ \A p \in Packs : u[p] = IF p = q THEN v ELSE session.unit[p]
  BY <1>3, <1>4 DEF Ledger
<1>7. \A p \in Packs : UnitOk(u[p], p)
  BY <1>3, <1>5, <1>6 DEF Ledger
<1>8. session' = [session EXCEPT !.unit = u]
  BY <1>2, <1>3 DEF Ledger
<1> HIDE DEF u
<1>9. Ledger(session') /\ session'.runs = session.runs /\ session'.unit = u
  BY <1>3, <1>6, <1>7, <1>8, UnitsChange
<1>10. TypeOK'
  <2>1. \A p \in Packs : session'.unit[p].status \in UnitStatus
    BY <1>9 DEF Ledger, UnitOk
  <2> QED  BY <1>2, <1>9, <2>1 DEF IInv, TypeOK
<1>11. Fanned'
  <2> SUFFICES ASSUME NEW m \in Names
               PROVE  /\ pos'[m] # "none" <=> m \in Known(input)
                      /\ pos'[m] = "settled" =>
                           session'.unit[PackOf(m)].status \in {"succeeded", "failed"}
    BY <1>2 DEF Fanned, Known, Named, PackOf, Declared
  <2>1. pos'[m] # "none" <=> m \in Known(input)
    BY <1>1, <1>2, <1>3 DEF IInv, TypeOK, Fanned
  <2>2. v.status \in {"succeeded", "failed"}
    BY <1>1 DEF v
  <2>3. CASE PackOf(m) = q
    BY <1>6, <1>9, <2>1, <2>2, <2>3
  <2>4. CASE PackOf(m) # q /\ pos'[m] = "settled"
    <3>1. m \in Known(input) /\ PackOf(m) \in Packs
      BY <1>3, <2>1, <2>4, PackOfKnown
    <3>2. m # n
      BY <2>4 DEF q
    <3>3. pos[m] = "settled"
      BY <1>2, <2>4, <3>2 DEF IInv, TypeOK
    <3> QED  BY <1>1, <1>6, <1>9, <2>1, <2>4, <3>1, <3>3 DEF IInv, Fanned
  <2> QED  BY <2>1, <2>3, <2>4
<1>12. Drafted' /\ Drafting
  BY <1>1, <1>2, <1>9 DEF Drafted, Drafting, Steady
<1> QED  BY <1>10, <1>11, <1>12, DraftingStep

(* What Merge gathers is what the units of the contexts hold. *)
LEMMA GatheredIsAll ==
    ASSUME IInv, pc = "units", \A n \in Names : pos[n] \in {"none", "settled"}
    PROVE  /\ Gathered = Gatherings(session, input)
           /\ \A c \in Named(input) : session.unit[Pack(c, input)].status \in {"succeeded", "failed"}
<1>1. input \in Inputs
  BY DEF IInv, Transaction
<1>2. \A c \in Named(input) : /\ c.name \in Names /\ pos[c.name] = "settled"
                              /\ PackOf(c.name) = Pack(c, input)
  BY <1>1, NamesOfInputs, DeclaredContext DEF IInv, Fanned, Known
<1>3. \A n \in Names : pos[n] = "settled" => \E c \in Named(input) : n = c.name
  BY DEF IInv, Fanned, Known
<1>4. \A s : s \in Gathered <=> \E n \in Names : pos[n] = "settled" /\ s \in session.unit[PackOf(n)].payload
  BY DEF Gathered
<1>5. \A s : s \in Gatherings(session, input) <=>
               \E c \in Named(input) : s \in session.unit[Pack(c, input)].payload
  BY DEF Gatherings
<1>6. \A s : s \in Gathered <=> s \in Gatherings(session, input)
  BY <1>2, <1>3, <1>4, <1>5
<1>7. Gathered = Gatherings(session, input)
  BY <1>6
<1> QED  BY <1>2, <1>7 DEF IInv, Fanned

LEMMA MergeStep == ASSUME IInv, Merge PROVE IInv' /\ UNCHANGED Stage!vars
<1>1. /\ pc = "units" /\ (\A n \in Names : pos[n] \in {"none", "settled"}) /\ pc' = "save"
      /\ \/ Gathered = {} /\ origin' = "fallback" /\ payload' = FallbackPayload(input)
         \/ Gathered # {} /\ origin' = "llm" /\ payload' = Gathered
      /\ UNCHANGED <<runs, input, pos, tries, loaded, job, session, saved, gates, latest>>
  BY DEF Merge
<1>2. Ledger(session) /\ input \in Inputs
  BY <1>1 DEF IInv, Transaction
<1>3. /\ Gathered = Gatherings(session, input)
      /\ \A c \in Named(input) : session.unit[Pack(c, input)].status \in {"succeeded", "failed"}
  BY <1>1, GatheredIsAll
<1>4. Drafted'
  <2>1. /\ IsFiniteSet(payload') /\ \A s \in payload' : IsService(s)
        /\ payload' # {} => Known(input) # {}
    BY <1>1, <1>2, <1>3, FallbackIsFinite, GatheringsAreFinite
  <2>2. Drawn(session, input, origin', Parse(payload', input))
    BY <1>1, <1>3 DEF Drawn
  <2> QED  BY <1>1, <2>1, <2>2 DEF Drafted
<1>5. TypeOK'
  BY <1>1 DEF IInv, TypeOK
<1>6. Fanned' /\ Drafting
  BY <1>1, <1>2 DEF Fanned, Drafting, Steady
<1> QED  BY <1>4, <1>5, <1>6, DraftingStep

----------------------------------------------------------------------------
LEMMA SaveStep == ASSUME IInv, Save PROVE IInv' /\ Stage!Store
<1>1. /\ pc = "save" /\ pc' = "judge"
      /\ latest' = [run |-> runs, origin |-> origin, input |-> input,
                    services |-> Parse(payload, input)]
      /\ UNCHANGED <<runs, input, pos, tries, origin, payload, loaded, job, session, saved, gates>>
  BY DEF Save
<1>2. /\ runs \in 1..MaxRuns /\ runs \notin saved.runs /\ input \in Inputs /\ job = "running"
      /\ latest'.run = runs
  BY <1>1 DEF IInv, Transaction
<1>3. TypeOK'
  BY <1>1, <1>2, DesignAssumption DEF DesignAssumption, IInv, TypeOK
<1>4. Transaction'
  BY <1>1, <1>2, DesignAssumption DEF DesignAssumption, IInv, TypeOK, Transaction
<1>5. Kept'
  <2>1. Sound(Parse(payload, input), input)
    BY <1>1, ParseIsSound DEF IInv, Drafted
  <2>2. Drawn(session, input, origin, Parse(payload, input))
    BY <1>1 DEF IInv, Drafted
  <2>3. ~Landed'
    BY <1>1, <1>2 DEF Landed
  <2> QED  BY <1>1, <1>2, <2>1, <2>2, <2>3 DEF Kept
<1>6. Fanned' /\ Drafted' /\ Resolving'
  BY <1>1 DEF Fanned, Drafted, Resolving
<1>7. Done'
  BY <1>1, <1>2 DEF Done, DoneIsWhole, Stage!DoneIsLanded
<1>8. Stage!Store
  BY <1>1 DEF Stage!Store
<1> QED  BY <1>3, <1>4, <1>5, <1>6, <1>7, <1>8 DEF IInv

LEMMA JudgeStep == ASSUME IInv, Judge PROVE IInv' /\ UNCHANGED Stage!vars
<1>1. /\ pc = "judge" /\ pc' = "commit" /\ loaded' = [k \in GateKeys |-> gates[k].status]
      /\ UNCHANGED <<runs, input, pos, tries, origin, payload, job, session, saved, gates, latest>>
  BY DEF Judge
<1>2. TypeOK'
  BY <1>1 DEF IInv, TypeOK, GateRow
<1>3. Transaction'
  BY <1>1 DEF IInv, Transaction
<1>4. Kept'
  BY <1>1 DEF IInv, Kept, Landed
<1>5. Fanned' /\ Drafted' /\ Resolving'
  BY <1>1 DEF Fanned, Drafted, Resolving
<1>6. Done'
  BY <1>1, SteadyDone DEF IInv, Steady
<1>7. UNCHANGED Stage!vars
  BY <1>1 DEF Stage!vars
<1> QED  BY <1>2, <1>3, <1>4, <1>5, <1>6, <1>7 DEF IInv

LEMMA AtMostOne ==
    ASSUME NEW S, IsFiniteSet(S), Cardinality(S) <= 1, NEW a \in S, NEW b \in S
    PROVE  a = b
<1> SUFFICES ASSUME a # b PROVE FALSE
  OBVIOUS
<1>1. Cardinality({a} \cup {b}) = 2
  <2>1. IsFiniteSet({a}) /\ Cardinality({a}) = 1 /\ b \notin {a}
    BY FS_Singleton
  <2> QED  BY <2>1, FS_AddElement
<1>2. Cardinality({a} \cup {b}) <= Cardinality(S)
  <2>1. {a} \cup {b} \in SUBSET S
    OBVIOUS
  <2> QED  BY <2>1, FS_Subset
<1>3. Cardinality(S) \in Nat
  BY FS_CardinalityType
<1> QED  BY <1>1, <1>2, <1>3

(* A design that passes the quality gate gives every context a service and *)
(* no table two.                                                           *)
LEMMA QualityIsWhole ==
    ASSUME NEW i, NEW services, Sound(services, i), QualityOk(services, i)
    PROVE  /\ {s.context : s \in services} = Known(i)
           /\ \A d, e \in DatabaseDesign(services) : d.tables \cap e.tables # {} => d = e
<1>1. {s.context : s \in services} = Known(i)
  BY DEF Sound, QualityOk, Missing
<1>2. ASSUME NEW s \in services, NEW t \in services, NEW r \in Resources, s.owns[r] > 0, t.owns[r] > 0
      PROVE  s = t
  <2> DEFINE owners == {x \in services : x.owns[r] > 0}
             names == {x.name : x \in owners}
             f == [x \in owners |-> x.name]
  <2>1. \A n \in names : \E x \in owners : n = f[x]
    OBVIOUS
  <2>2. IsFiniteSet(owners)
    BY FS_Subset DEF Sound
  <2>3. s \in owners /\ t \in owners
    BY <1>2
  <2>4. s.name \in names /\ t.name \in names
    BY <2>3
  <2>5. Cardinality(names) <= 1
    BY DEF QualityOk
  <2> HIDE DEF owners, names, f
  <2>6. IsFiniteSet(names)
    BY <2>1, <2>2, FiniteImage
  <2>7. s.name = t.name
    BY <2>4, <2>5, <2>6, AtMostOne
  <2> QED  BY <2>7 DEF QualityOk
<1>3. ASSUME NEW d \in DatabaseDesign(services), NEW e \in DatabaseDesign(services),
             d.tables \cap e.tables # {}
      PROVE  d = e
  <2>1. PICK s \in services : d = [service |-> s.name, tables |-> {r \in Resources : s.owns[r] > 0}]
    BY DEF DatabaseDesign
  <2>2. PICK t \in services : e = [service |-> t.name, tables |-> {r \in Resources : t.owns[r] > 0}]
    BY DEF DatabaseDesign
  <2>3. PICK r \in Resources : s.owns[r] > 0 /\ t.owns[r] > 0
    BY <1>3, <2>1, <2>2
  <2> QED  BY <1>2, <2>1, <2>2, <2>3
<1> QED  BY <1>1, <1>3

LEMMA UpsertRow ==
    ASSUME NEW gate \in GateRow, NEW status, NEW passed \in BOOLEAN
    PROVE  Upsert(gate, status, passed) \in GateRow
BY DEF Upsert, GateRow, Resolved

LEMMA CommitStep ==
    ASSUME IInv, Commit
    PROVE  IInv' /\ \E result \in {"done", "incomplete"} : Stage!Land(result)
<1> DEFINE verdicts == Verdicts(latest.services, input, origin)
<1>1. /\ pc = "commit" /\ pc' = "idle" /\ saved' = session
      /\ gates' = [k \in GateKeys |-> Upsert(gates[k], loaded[k], verdicts[k])]
      /\ job' = StageStatus(verdicts)
      /\ Forget /\ UNCHANGED <<runs, session, latest>>
  BY DEF Commit
<1>2. /\ runs \in 1..MaxRuns /\ latest.run = runs /\ session.runs = saved.runs \cup {runs}
      /\ Ledger(session) /\ latest.origin = origin /\ latest.input = input
      /\ Drawn(session, input, origin, latest.services) /\ Sound(latest.services, input)
  BY <1>1, DesignAssumption DEF DesignAssumption, IInv, Transaction, Kept
<1>3. \A k \in GateKeys : verdicts[k] \in BOOLEAN
  <2>1. /\ GenerationOk(origin) \in BOOLEAN /\ OwnershipOk(latest.services) \in BOOLEAN
        /\ QualityOk(latest.services, input) \in BOOLEAN
    BY DEF GenerationOk, OwnershipOk, QualityOk
  <2> QED  BY <2>1 DEF Verdicts, GateKeys
<1>4. /\ GenerationOk(origin) <=> verdicts["design_generation_complete"]
      /\ QualityOk(latest.services, input) <=> verdicts["technical_design_quality"]
  BY DEF Verdicts, GateKeys
<1> HIDE DEF verdicts
<1>5. (job' = "done" /\ \A k \in GateKeys : verdicts[k]) \/ job' = "incomplete"
  BY <1>1 DEF StageStatus
<1>6. gates' \in [GateKeys -> GateRow]
  <2>1. \A k \in GateKeys : Upsert(gates[k], loaded[k], verdicts[k]) \in GateRow
    BY <1>3, UpsertRow DEF IInv, TypeOK
  <2> QED  BY <1>1, <2>1
<1>7. TypeOK'
  BY <1>1, <1>5, <1>6, DesignAssumption DEF DesignAssumption, Forget, IInv, TypeOK
<1>8. Transaction'
  BY <1>1, <1>2 DEF IInv, Transaction
<1>9. Landed'
  BY <1>1, <1>2 DEF Landed
<1>10. Kept'
  BY <1>1, <1>2, <1>9 DEF IInv, Kept
<1>11. Fanned' /\ Drafted' /\ Resolving'
  BY <1>1 DEF Fanned, Drafted, Resolving
<1>12. job' = "done" => \A k \in GateKeys : gates'[k].status # "open"
  <2> SUFFICES ASSUME job' = "done", NEW k \in GateKeys PROVE gates'[k].status # "open"
    OBVIOUS
  <2>1. verdicts[k]
    BY <1>5
  <2>2. gates[k] \in GateRow /\ loaded[k] \in {"none", "open"} \cup Resolved
    BY DEF IInv, TypeOK
  <2>3. loaded[k] \in Resolved => gates[k].status \in Resolved
    BY <1>1 DEF IInv, Resolving
  <2> QED  BY <1>1, <2>1, <2>2, <2>3 DEF Upsert, GateRow, Resolved
<1>13. DoneIsWhole'
  <2> SUFFICES ASSUME job' = "done" PROVE DoneIsWhole'
    BY DEF DoneIsWhole
  <2>1. GenerationOk(origin) /\ QualityOk(latest.services, input)
    BY <1>4, <1>5 DEF GateKeys
  <2>2. Persisted' = "done"
    BY <1>1, <1>2, <1>12 DEF Persisted
  <2>3. latest.origin # "fallback"
    BY <1>2, <2>1 DEF GenerationOk
  <2> QED  BY <1>1, <1>2, <1>9, <2>1, <2>2, <2>3, QualityIsWhole DEF DoneIsWhole
<1>14. Done'
  BY <1>1, <1>2, <1>9, <1>13 DEF Done, Stage!DoneIsLanded
<1>15. Stage!Land(job')
  BY <1>1, <1>2 DEF Stage!Land
<1> QED  BY <1>5, <1>7, <1>8, <1>10, <1>11, <1>14, <1>15 DEF IInv

LEMMA LossStep ==
    ASSUME IInv, Raise \/ Restart
    PROVE  IInv' /\ (Stage!Abort \/ Stage!Vanish)
<1>1. /\ pc' = "idle" /\ session' = saved /\ Forget
      /\ (pc # "idle" /\ job' = "failed") \/ (job' = "none")
      /\ UNCHANGED <<runs, saved, gates, latest>>
  BY DEF Raise, Restart
<1>2. TypeOK'
  BY <1>1, DesignAssumption DEF DesignAssumption, Forget, IInv, TypeOK
<1>3. Transaction'
  BY <1>1 DEF IInv, Transaction
<1>4. Kept'
  BY <1>1 DEF IInv, Kept, Landed
<1>5. Fanned' /\ Drafted' /\ Resolving'
  BY <1>1 DEF Fanned, Drafted, Resolving
<1>6. Done'
  BY <1>1 DEF Done, DoneIsWhole, Stage!DoneIsLanded
<1>7. Stage!Abort \/ Stage!Vanish
  BY <1>1 DEF Stage!Abort, Stage!Vanish
<1> QED  BY <1>2, <1>3, <1>4, <1>5, <1>6, <1>7 DEF IInv

LEMMA ApproveStep ==
    ASSUME IInv, NEW k \in Approvable, NEW decision \in Decisions, Approve(k, decision)
    PROVE  IInv' /\ UNCHANGED Stage!vars
<1>1. /\ gates' = [gates EXCEPT ![k] = Decide(gates[k], decision)]
      /\ UNCHANGED <<pc, runs, input, pos, tries, origin, payload, loaded, job, session, saved, latest>>
  BY DEF Approve
<1>2. k \in GateKeys /\ gates \in [GateKeys -> GateRow]
  BY GateAssumption DEF GateAssumption, IInv, TypeOK
<1>3. /\ gates' \in [GateKeys -> GateRow]
      /\ \A q \in GateKeys : gates'[q].status \in {gates[q].status} \cup Resolved
  BY <1>1, <1>2 DEF Decide, GateRow, Resolved, Decisions
<1>4. TypeOK'
  BY <1>1, <1>3 DEF IInv, TypeOK
<1>5. Transaction' /\ Kept'
  BY <1>1 DEF IInv, Transaction, Kept, Landed
<1>6. Fanned' /\ Drafted'
  BY <1>1 DEF IInv, Fanned, Drafted, PackOf, Declared
<1>7. Resolving'
  BY <1>1, <1>3 DEF IInv, Resolving
<1>8. Done'
  BY <1>1, <1>3 DEF IInv, Done, DoneIsWhole, Stage!DoneIsLanded, Persisted, Landed, Resolved
<1>9. UNCHANGED Stage!vars
  BY <1>1 DEF Stage!vars
<1> QED  BY <1>4, <1>5, <1>6, <1>7, <1>8, <1>9 DEF IInv

(* Every step keeps the invariant and is a step of the promise. *)
LEMMA NextStep == IInv /\ [Next]_vars => IInv' /\ [Stage!Next]_(Stage!vars)
<1> SUFFICES ASSUME IInv, [Next]_vars PROVE IInv' /\ [Stage!Next]_(Stage!vars)
  OBVIOUS
<1>1. CASE \E i \in Inputs, setting \in Settings : Begin(i, setting)
  BY <1>1, BeginStep DEF Stage!Next
<1>2. CASE Work
  <2>1. ASSUME NEW n \in Names,
               \/ Enter(n)
               \/ \E services \in Answers[n] : Answer(n, services)
               \/ \E cause \in Causes : Again(n, cause) \/ GiveUp(n, cause)
        PROVE  IInv' /\ [Stage!Next]_(Stage!vars)
    BY <2>1, CallStep, SettleStep
  <2> QED  BY <1>2, <2>1, FanOutStep, MergeStep, SaveStep, JudgeStep, CommitStep DEF Work, Stage!Next
<1>3. CASE Raise \/ Restart
  BY <1>3, LossStep DEF Stage!Next
<1>4. CASE \E k \in Approvable, decision \in Decisions : Approve(k, decision)
  BY <1>4, ApproveStep
<1>5. CASE UNCHANGED vars
  <2>1. TypeOK' /\ Transaction'
    BY <1>5 DEF vars, IInv, TypeOK, Transaction
  <2>2. Fanned' /\ Drafted' /\ Kept' /\ Resolving'
    BY <1>5 DEF vars, IInv, Fanned, Drafted, Kept, Resolving, Landed, PackOf, Declared
  <2>3. Done'
    BY <1>5, SteadyDone DEF vars, IInv, Steady
  <2> QED  BY <1>5, <2>1, <2>2, <2>3 DEF vars, IInv, Stage!vars
<1> QED  BY <1>1, <1>2, <1>3, <1>4, <1>5 DEF Next

LEMMA Invariance == Spec => []IInv
<1>1. IInv /\ [Next]_vars => IInv'
  BY NextStep
<1> QED  BY InitInv, <1>1, PTL DEF Spec

(* The state of the stage is well typed. *)
THEOREM TypeCorrect == Spec => []TypeOK
<1>1. IInv => TypeOK
  BY DEF IInv
<1> QED  BY Invariance, <1>1, PTL

(* The technical design's job (controlplane/technical_design.py) keeps the *)
(* promise of a stage's job: the version is stored first, ledger and gates *)
(* land together with it or not at all.                                    *)
THEOREM DesignImplementsStage == Spec => StageSpec
<1>1. Init => Stage!Init
  BY DEF Init, Stage!Init, NoDesign
<1>2. IInv /\ [Next]_vars => [Stage!Next]_(Stage!vars)
  BY NextStep
<1> QED  BY <1>1, <1>2, Invariance, PTL DEF Spec, StageSpec, Stage!Spec

(* A job that reports done stands for a landed, whole design, and the      *)
(* status endpoint agrees after any restart and approval.                  *)
THEOREM DoneDesignIsWhole == Spec => []DoneIsWhole
<1>1. IInv => DoneIsWhole
  BY DEF IInv, Done
<1> QED  BY Invariance, <1>1, PTL

(* Whatever the model answered, a saved design names only what its own run *)
(* loaded, and a landed one is the durable ledger's answer for its input.  *)
THEOREM SavedDesignIsOfItsRun == Spec => []DesignIsOfItsRun
<1>1. IInv => Grounded
  <2> SUFFICES ASSUME IInv, latest.run # 0 PROVE Grounded
    BY DEF Grounded
  <2>1. Sound(latest.services, latest.input)
    BY DEF IInv, Kept
  <2> QED  BY <2>1 DEF Sound, Grounded, ComponentDiagram
<1>2. IInv => DesignMatchesLedger
  <2> DEFINE i == latest.input
             units == {<<c, saved.unit[Pack(c, i)]>> : c \in Named(i)}
  <2> SUFFICES ASSUME IInv, Landed, latest.origin \in {"llm", "fallback"}
               PROVE  /\ \A u \in units :
                            \/ u[2].status = "failed" /\ u[2].payload = {}
                            \/ /\ u[2].status = "succeeded"
                               /\ u[2].shown = [context |-> u[1], stories |-> i.stories]
                      /\ IF latest.origin = "fallback" THEN \A u \in units : u[2].payload = {}
                         ELSE latest.services = Parse(UNION {u[2].payload : u \in units}, i)
    BY DEF DesignMatchesLedger
  <2>1. latest.run # 0
    BY DEF IInv, Transaction, Landed
  <2>2. i \in Inputs /\ Drawn(saved, i, latest.origin, latest.services) /\ Ledger(saved)
    BY <2>1 DEF IInv, Kept, Transaction
  <2> HIDE DEF i
  <2>3. ASSUME NEW c \in Named(i)
        PROVE  /\ saved.unit[Pack(c, i)].status = "failed" => saved.unit[Pack(c, i)].payload = {}
               /\ saved.unit[Pack(c, i)].status = "succeeded" =>
                     saved.unit[Pack(c, i)].shown = [context |-> c, stories |-> i.stories]
               /\ saved.unit[Pack(c, i)].status \in {"failed", "succeeded"}
    <3>1. UnitOk(saved.unit[Pack(c, i)], Pack(c, i))
      BY <2>2, NamesOfInputs DEF Ledger
    <3>2. saved.unit[Pack(c, i)].status \in {"failed", "succeeded"}
      BY <2>2 DEF Drawn
    <3> QED  BY <3>1, <3>2, PackFields DEF UnitOk
  <2>4. /\ \A u \in units : \E c \in Named(i) : u[1] = c /\ u[2] = saved.unit[Pack(c, i)]
        /\ \A c \in Named(i) : \E u \in units : u[2] = saved.unit[Pack(c, i)]
    <3>1. /\ \A u \in units : \E c \in Named(i) : u = <<c, saved.unit[Pack(c, i)]>>
          /\ \A c \in Named(i) : <<c, saved.unit[Pack(c, i)]>> \in units
      OBVIOUS
    <3>2. \A c : /\ <<c, saved.unit[Pack(c, i)]>>[1] = c
                 /\ <<c, saved.unit[Pack(c, i)]>>[2] = saved.unit[Pack(c, i)]
      OBVIOUS
    <3> HIDE DEF units
    <3>3. \A u \in units : \E c \in Named(i) : u[1] = c /\ u[2] = saved.unit[Pack(c, i)]
      BY <3>1, <3>2
    <3>4. \A c \in Named(i) : \E u \in units : u[2] = saved.unit[Pack(c, i)]
      BY <3>1, <3>2
    <3> QED  BY <3>3, <3>4
  <2> HIDE DEF units
  <2>5. UNION {u[2].payload : u \in units} = Gatherings(saved, i)
    <3>1. \A s : s \in UNION {u[2].payload : u \in units} <=> \E u \in units : s \in u[2].payload
      OBVIOUS
    <3>2. \A s : s \in Gatherings(saved, i) <=> \E c \in Named(i) : s \in saved.unit[Pack(c, i)].payload
      BY DEF Gatherings
    <3>3. \A s : s \in UNION {u[2].payload : u \in units} <=> s \in Gatherings(saved, i)
      BY <2>4, <3>1, <3>2
    <3> DEFINE given == UNION {u[2].payload : u \in units}
    <3>4. \A s : s \in given <=> s \in Gatherings(saved, i)
      BY <3>3
    <3> HIDE DEF given
    <3>5. given = Gatherings(saved, i)
      BY <3>4, SameElements
    <3> QED  BY <3>5 DEF given
  <2>6. latest.origin = "fallback" => \A u \in units : u[2].payload = {}
    <3> SUFFICES ASSUME latest.origin = "fallback", NEW u \in units PROVE u[2].payload = {}
      OBVIOUS
    <3>1. Gatherings(saved, i) = {}
      BY <2>2 DEF Drawn
    <3>2. \A s \in u[2].payload : s \in UNION {x[2].payload : x \in units}
      OBVIOUS
    <3> QED  BY <2>5, <3>1, <3>2
  <2>7. \A u \in units : \/ u[2].status = "failed" /\ u[2].payload = {}
                        \/ /\ u[2].status = "succeeded"
                           /\ u[2].shown = [context |-> u[1], stories |-> i.stories]
    BY <2>3, <2>4
  <2>8. latest.origin # "fallback" => latest.services = Parse(Gatherings(saved, i), i)
    BY <2>2 DEF Drawn
  <2> QED  BY <2>5, <2>6, <2>7, <2>8
<1> QED  BY Invariance, <1>1, <1>2, PTL DEF DesignIsOfItsRun

----------------------------------------------------------------------------
(* The design without a model.  FallbackIsSound is about the saved design  *)
(* alone; what makes it inductive is that the services about to be read    *)
(* are those of the fallback, too.                                         *)
Unaided == {"fallback", "deterministic"}

FellBack ==
    /\ pc = "save" /\ origin \in Unaided => payload = FallbackPayload(input)
    /\ latest.origin \in Unaided =>
          /\ latest.input \in Inputs
          /\ latest.services = Parse(FallbackPayload(latest.input), latest.input)

LEMMA FellBackStep ==
    ASSUME IInv, FellBack, [Next]_vars
    PROVE  FellBack'
<1>1. CASE \E i \in Inputs, setting \in Settings : Begin(i, setting)
  <2>1. /\ \/ pc' = "fan_out"
           \/ pc' = "save" /\ payload' = FallbackPayload(input')
        /\ latest' = latest
    BY <1>1 DEF Begin
  <2> QED  BY <2>1 DEF FellBack
<1>2. CASE Merge
  <2>1. /\ \/ origin' = "fallback" /\ payload' = FallbackPayload(input)
           \/ origin' = "llm"
        /\ UNCHANGED <<input, latest>>
    BY <1>2 DEF Merge
  <2> QED  BY <2>1 DEF FellBack, Unaided
<1>3. CASE Save
  <2>1. /\ pc = "save" /\ pc' = "judge"
        /\ latest' = [run |-> runs, origin |-> origin, input |-> input,
                      services |-> Parse(payload, input)]
    BY <1>3 DEF Save
  <2>2. input \in Inputs
    BY <2>1 DEF IInv, Transaction
  <2>3. /\ latest'.origin = origin /\ latest'.input = input
        /\ latest'.services = Parse(payload, input)
    BY <2>1
  <2> QED  BY <2>1, <2>2, <2>3 DEF FellBack
<1>4. CASE pc' # "save" /\ latest' = latest
  BY <1>4 DEF FellBack
<1>5. CASE UNCHANGED <<pc, input, origin, payload, latest>>
  BY <1>5 DEF FellBack
<1>6. ASSUME NEW n \in Names,
             \/ Enter(n)
             \/ \E services \in Answers[n] : Answer(n, services)
             \/ \E cause \in Causes : Again(n, cause) \/ GiveUp(n, cause)
      PROVE  UNCHANGED <<pc, input, origin, payload, latest>>
  BY <1>6 DEF Enter, Answer, Again, GiveUp, Settle
<1>7. FanOut \/ Judge \/ Commit \/ Raise \/ Restart => pc' # "save" /\ latest' = latest
  BY DEF FanOut, Judge, Commit, Raise, Restart
<1>8. ASSUME NEW k \in Approvable, NEW decision \in Decisions, Approve(k, decision)
      PROVE  UNCHANGED <<pc, input, origin, payload, latest>>
  BY <1>8 DEF Approve
<1>9. UNCHANGED vars => UNCHANGED <<pc, input, origin, payload, latest>>
  BY DEF vars
<1> QED  BY <1>1, <1>2, <1>3, <1>4, <1>5, <1>6, <1>7, <1>8, <1>9 DEF Next, Work

(* The services read of the fallback: one per named context. *)
Plain(c, i) == Parsed(FallbackService(c, i), i)

LEMMA PlainService ==
    ASSUME NEW i, NEW c
    PROVE  /\ Plain(c, i).name = SlugOf[c.name] /\ Plain(c, i).context = c.name
           /\ Plain(c, i).deployment = "microservice" /\ Plain(c, i).apis # {}
           /\ Plain(c, i).stories \subseteq IdsOf(i.stories) /\ Plain(c, i).owns = c.owns
<1>1. ApiOf(c, i) # {}
  BY DEF ApiOf
<1> DEFINE apis == ApiOf(c, i)
           stories == IdsOf(StoriesOf(c, i))
           refs == Evidence(c, i)
           s == [unit |-> c.name, name |-> SlugOf[c.name], context |-> c.name,
                 deployment |-> "microservice", stories |-> stories, apis |-> apis,
                 owns |-> c.owns, to |-> c.to, refs |-> refs]
<1>2. FallbackService(c, i) = s /\ apis # {}
  BY <1>1 DEF FallbackService
<1> HIDE DEF apis, stories, refs
<1>3. Plain(c, i) = Parsed(s, i)
  BY <1>2 DEF Plain
<1> QED  BY <1>2, <1>3 DEF Parsed, Ground, Coerced

LEMMA PlainServices ==
    ASSUME NEW i \in Inputs
    PROVE  /\ \A s \in Parse(FallbackPayload(i), i) : \E c \in Named(i) : s = Plain(c, i)
           /\ \A c \in Named(i) : Plain(c, i) \in Parse(FallbackPayload(i), i)
<1>1. \A c \in Named(i) : FallbackService(c, i) \in FallbackPayload(i)
  BY DEF FallbackPayload
<1>2. \A s \in FallbackPayload(i) : \E c \in Named(i) : s = FallbackService(c, i)
  BY DEF FallbackPayload
<1>3. \A c \in Named(i) : FallbackService(c, i).context = c.name /\ c.name \in Known(i)
  BY DEF FallbackService, Known
<1>4. \A c \in Named(i) : Plain(c, i) \in Parse(FallbackPayload(i), i)
  BY <1>1, <1>3 DEF Parse, Plain
<1>5. ASSUME NEW s \in Parse(FallbackPayload(i), i)
      PROVE  \E c \in Named(i) : s = Plain(c, i)
  <2>1. PICK t \in FallbackPayload(i) : s = Parsed(t, i)
    BY DEF Parse
  <2> QED  BY <1>2, <2>1 DEF Plain
<1> QED  BY <1>4, <1>5

LEMMA AllEqual ==
    ASSUME NEW S, \A a, b \in S : a = b
    PROVE  IsFiniteSet(S) /\ Cardinality(S) <= 1
<1>1. CASE S = {}
  BY <1>1, FS_EmptySet
<1>2. ASSUME NEW a \in S PROVE S = {a}
  OBVIOUS
<1>3. \A a : IsFiniteSet({a}) /\ Cardinality({a}) = 1
  BY FS_Singleton
<1>4. ASSUME NEW a \in S PROVE IsFiniteSet(S) /\ Cardinality(S) <= 1
  <2>1. IsFiniteSet({a}) /\ Cardinality({a}) = 1
    BY <1>3
  <2>2. IsFiniteSet(S) /\ Cardinality(S) = 1
    BY <1>2, <2>1, Zenon
  <2> QED  BY <2>2
<1> QED  BY <1>1, <1>4

(* What a resource is listed by is finite: each service a number of times. *)
LEMMA ListingsAreFinite ==
    ASSUME NEW services, IsFiniteSet(services), NEW r,
           \A s \in services : s.owns[r] \in Nat
    PROVE  IsFiniteSet(Listings(services, r))
<1> DEFINE f == [s \in services |-> {s} \X (1..s.owns[r])]
           S == {f[s] : s \in services}
<1>1. Listings(services, r) = UNION S
  BY DEF Listings
<1>2. \A s \in services : IsFiniteSet(f[s])
  <2> SUFFICES ASSUME NEW s \in services PROVE IsFiniteSet({s} \X (1..s.owns[r]))
    OBVIOUS
  <2>1. IsFiniteSet({s})
    BY FS_Singleton
  <2>2. 1 \in Int /\ s.owns[r] \in Int
    OBVIOUS
  <2>3. IsFiniteSet(1..s.owns[r])
    BY ONLY <2>2, FS_Interval
  <2> QED  BY <2>1, <2>3, FS_Product
<1>3. \A T \in S : \E s \in services : T = f[s]
  OBVIOUS
<1> HIDE DEF f
<1>4. \A T \in S : IsFiniteSet(T)
  BY <1>2, <1>3
<1> HIDE DEF S
<1>5. IsFiniteSet(S)
  BY <1>3, FiniteImage
<1> QED  BY <1>1, <1>4, <1>5, FS_UNION

LEMMA ListingOf ==
    ASSUME NEW services, NEW r, NEW s, NEW k
    PROVE  <<s, k>> \in Listings(services, r) <=> s \in services /\ k \in 1..s.owns[r]
BY DEF Listings

(* A resource has at most one listing when no service and no two services  *)
(* list it twice.                                                          *)
SoleOwner(services, r) ==
    \A s, t \in services : s.owns[r] <= 1 /\ (s # t => s.owns[r] = 0 \/ t.owns[r] = 0)

LEMMA OneListing ==
    ASSUME NEW services, IsFiniteSet(services), NEW r,
           \A s \in services : s.owns[r] \in Nat
    PROVE  Cardinality(Listings(services, r)) <= 1 <=> SoleOwner(services, r)
<1> DEFINE L == Listings(services, r)
<1>1. IsFiniteSet(L)
  BY ListingsAreFinite
<1>2. ASSUME Cardinality(L) <= 1 PROVE SoleOwner(services, r)
  <2>1. \A a, b \in L : a = b
    <3> HIDE DEF L
    <3> QED  BY <1>1, <1>2, AtMostOne
  <2>2. ASSUME NEW s \in services PROVE s.owns[r] <= 1
    <3> SUFFICES ASSUME s.owns[r] > 1 PROVE FALSE
      OBVIOUS
    <3>1. 1 \in 1..s.owns[r] /\ 2 \in 1..s.owns[r]
      OBVIOUS
    <3>2. <<s, 1>> \in L /\ <<s, 2>> \in L
      BY <3>1, ListingOf
    <3>3. <<s, 1>> = <<s, 2>>
      BY <2>1, <3>2
    <3> QED  BY <3>3
  <2>3. ASSUME NEW s \in services, NEW t \in services, s # t, s.owns[r] # 0, t.owns[r] # 0
        PROVE  FALSE
    <3>1. 1 \in 1..s.owns[r] /\ 1 \in 1..t.owns[r]
      BY <2>3
    <3>2. <<s, 1>> \in L /\ <<t, 1>> \in L
      BY <3>1, ListingOf
    <3>3. <<s, 1>> = <<t, 1>>
      BY <2>1, <3>2
    <3> QED  BY <2>3, <3>3
  <2> QED  BY <2>2, <2>3 DEF SoleOwner
<1>3. ASSUME SoleOwner(services, r) PROVE Cardinality(L) <= 1
  <2>1. \A a \in L : \E s \in services : \E k \in 1..s.owns[r] : a = <<s, k>>
    BY DEF Listings
  <2>2. ASSUME NEW s \in services, NEW t \in services,
               NEW k \in 1..s.owns[r], NEW l \in 1..t.owns[r]
        PROVE  s = t /\ k = l
    BY <1>3 DEF SoleOwner
  <2>3. \A a, b \in L : a = b
    <3> SUFFICES ASSUME NEW a \in L, NEW b \in L PROVE a = b
      OBVIOUS
    <3>1. PICK s \in services : \E k \in 1..s.owns[r] : a = <<s, k>>
      BY <2>1
    <3>2. PICK k \in 1..s.owns[r] : a = <<s, k>>
      BY <3>1
    <3>3. PICK t \in services : \E l \in 1..t.owns[r] : b = <<t, l>>
      BY <2>1
    <3>4. PICK l \in 1..t.owns[r] : b = <<t, l>>
      BY <3>3
    <3> QED  BY <2>2, <3>2, <3>4
  <2> HIDE DEF L
  <2> QED  BY <2>3, AllEqual
<1> QED  BY <1>2, <1>3

(* The gates over the design without a model, read off its contexts. *)
Distinct(i) == \A c, d \in Named(i) : c # d => SlugOf[c.name] # SlugOf[d.name]
SoleContext(i, r) ==
    \A c, d \in Named(i) : c.owns[r] <= 1 /\ (c # d => c.owns[r] = 0 \/ d.owns[r] = 0)

LEMMA PlainGates ==
    ASSUME NEW i \in Inputs
    PROVE  LET services == Parse(FallbackPayload(i), i)
           IN  (OwnershipOk(services) /\ QualityOk(services, i)) <=>
                 (Named(i) # {} /\ Distinct(i) /\ \A r \in Resources : SoleContext(i, r))
<1> DEFINE services == Parse(FallbackPayload(i), i)
<1>1. Sound(services, i)
  BY FallbackIsFinite, ParseIsSound
<1>2. /\ \A s \in services : \E c \in Named(i) : s = Plain(c, i)
      /\ \A c \in Named(i) : Plain(c, i) \in services
  BY PlainServices
<1>3. \A c \in Named(i) :
          /\ Plain(c, i).name = SlugOf[c.name] /\ Plain(c, i).context = c.name
          /\ Plain(c, i).deployment = "microservice" /\ Plain(c, i).apis # {}
          /\ Plain(c, i).stories \subseteq IdsOf(i.stories) /\ Plain(c, i).owns = c.owns
          /\ \A r \in Resources : c.owns[r] \in Nat
  BY PlainService, DesignAssumption DEF DesignAssumption
<1>4. \A c, d \in Named(i) : Plain(c, i) = Plain(d, i) <=> c = d
  BY <1>3, NamesOfInputs
<1> HIDE DEF services
<1>5. IsFiniteSet(services)
  BY <1>1 DEF Sound
<1>6. ASSUME NEW r \in Resources PROVE SoleOwner(services, r) <=> SoleContext(i, r)
  BY <1>2, <1>3, <1>4 DEF SoleOwner, SoleContext
<1>7. OwnershipOk(services) <=> \A r \in Resources : SoleContext(i, r)
  <2>1. ASSUME NEW r \in Resources
        PROVE  Cardinality(Listings(services, r)) <= 1 <=> SoleContext(i, r)
    BY <1>2, <1>3, <1>5, <1>6, OneListing
  <2> QED  BY <2>1 DEF OwnershipOk
<1>8. (\A s, t \in services : s.name = t.name => s = t) <=> Distinct(i)
  BY <1>2, <1>3, <1>4 DEF Distinct
<1>9. {s.context : s \in services} = Known(i)
  BY <1>2, <1>3 DEF Known
<1>10. ASSUME QualityOk(services, i) PROVE Named(i) # {} /\ Distinct(i)
  <2>1. Distinct(i)
    BY <1>8, <1>10 DEF QualityOk
  <2>2. services # {}
    BY <1>10 DEF QualityOk, DatabaseDesign
  <2> QED  BY <1>2, <2>1, <2>2
<1>11. ASSUME Named(i) # {}, Distinct(i), \A r \in Resources : SoleContext(i, r)
       PROVE  QualityOk(services, i)
  <2>1. Known(i) # {} /\ services # {}
    BY <1>2, <1>11 DEF Known
  <2>2. Cardinality(services) >= Cardinality(Known(i))
    <3> DEFINE g == [s \in services |-> s.context]
               K == Known(i)
    <3>1. g \in [services -> K] /\ \A n \in K : \E s \in services : g[s] = n
      BY <1>9
    <3>2. g \in Surjection(services, K)
      BY <3>1 DEF Surjection
    <3> HIDE DEF g, K
    <3>3. Cardinality(K) <= Cardinality(services) /\ IsFiniteSet(K)
      BY <1>5, <3>2, FS_Surjection
    <3>4. Cardinality(K) \in Nat /\ Cardinality(services) \in Nat
      BY <1>5, <3>3, FS_CardinalityType
    <3> QED  BY <3>3, <3>4 DEF K
  <2>3. PackageStructure(services) # {} /\ DatabaseDesign(services) # {}
    BY <2>1 DEF PackageStructure, DatabaseDesign
  <2>4. Missing(services, i) = {}
    BY <1>9 DEF Missing
  <2>5. \A s \in services : /\ s.context \in Known(i) /\ s.stories \subseteq IdsOf(i.stories)
                            /\ s.apis # {} /\ s.deployment = "microservice"
    BY <1>2, <1>3 DEF Known
  <2>6. ASSUME NEW r \in Resources
        PROVE  Cardinality({s.name : s \in {t \in services : t.owns[r] > 0}}) <= 1
    <3> DEFINE owners == {t \in services : t.owns[r] > 0}
               names == {s.name : s \in owners}
    <3>1. \A s, t \in owners : s = t
      BY <1>2, <1>3, <1>6, <1>11 DEF SoleOwner
    <3>2. \A n \in names : \E s \in owners : n = s.name
      OBVIOUS
    <3> HIDE DEF names, owners
    <3>3. \A m, n \in names : m = n
      BY <3>1, <3>2
    <3>4. Cardinality(names) <= 1
      BY <3>3, AllEqual
    <3> QED  BY <3>4 DEF names, owners
  <2> QED  BY <1>8, <1>11, <2>1, <2>2, <2>3, <2>4, <2>5, <2>6 DEF QualityOk
<1> QED  BY <1>7, <1>10, <1>11 DEF services

(* The design without a model (_fallback_payload, and the gates over what  *)
(* is read of it) passes its own gates exactly when some context is named, *)
(* no two make one slug and no resource is listed twice.                   *)
THEOREM FallbackPassesItsGates == Spec => []FallbackIsSound
<1>1. Init => FellBack
  BY DEF Init, FellBack, NoDesign, Unaided
<1>2. IInv /\ FellBack /\ [Next]_vars => FellBack'
  BY FellBackStep
<1>3. FellBack => FallbackIsSound
  <2> SUFFICES ASSUME FellBack, latest.origin \in Unaided PROVE FallbackIsSound
    BY DEF FallbackIsSound, Unaided
  <2> QED  BY PlainGates DEF FellBack, FallbackIsSound, Distinct, SoleContext
<1> QED  BY Invariance, <1>1, <1>2, <1>3, PTL DEF Spec
=============================================================================
