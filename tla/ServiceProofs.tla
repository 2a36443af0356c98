----------------------------- MODULE ServiceProofs -----------------------------
(***************************************************************************)
(* Proofs about the service half of Platform: the chaos engine and the     *)
(* live data cache, for any endpoints, overrides, configurations, requests *)
(* and times; and with DatabaseProofs the types of the whole.              *)
(***************************************************************************)
EXTENDS DatabaseProofs, FiniteSetTheorems

-----------------------------------------------------------------------------
(* The configuration and what it resolves to. *)

\* Among finitely many matching prefixes one is the longest.
LEMMA LongestExists ==
    ASSUME NEW M \in SUBSET Prefixes, M # {}
    PROVE  \E p \in M : \A o \in M : Length[o] <= Length[p]
<1> DEFINE Longer(p) == {o \in M : Length[o] > Length[p]}
           T == {Longer(p) : p \in M}
<1>1. Length \in [Prefixes -> Nat] /\ IsFiniteSet(M)
  BY PrefixesAssumption, FS_Subset
<1>2. \A p \in M : Longer(p) \in FiniteSubsetsOf(M)
  <2> SUFFICES ASSUME NEW p \in M PROVE Longer(p) \in FiniteSubsetsOf(M)
    OBVIOUS
  <2>1. IsFiniteSet(Longer(p))
    BY <1>1, FS_Subset
  <2> QED BY <2>1 DEF FiniteSubsetsOf
<1>3. T \subseteq FiniteSubsetsOf(M) /\ T # {}
  BY <1>2
<1>4. PICK X \in T : \A Y \in T : <<Y, X>> \notin StrictSubsetOrdering(M)
  <2> HIDE DEF T
  <2> QED BY <1>3, FS_StrictSubsetOrderingWellFounded, WFMin
<1>5. PICK p \in M : X = Longer(p)
  OBVIOUS
<1>6. Longer(p) = {}
  <2> SUFFICES ASSUME NEW q \in Longer(p) PROVE FALSE
    OBVIOUS
  <2>1. Longer(q) \subseteq Longer(p) /\ q \notin Longer(q)
    BY <1>1
  <2>2. <<Longer(q), Longer(p)>> \in StrictSubsetOrdering(M)
    BY <2>1 DEF StrictSubsetOrdering
  <2> QED BY <1>4, <1>5, <2>2
<1> QED BY <1>1, <1>6

LEMMA RuleIsTyped ==
    ASSUME config \in Config, NEW e \in Endpoints
    PROVE  Resolve(e) \in Rule
<1>1. CASE Matches(e) = {}
  BY <1>1 DEF Resolve, Config, Rule, Knobs
<1>2. CASE Matches(e) # {}
  <2>1. PICK P \in SUBSET Prefixes : config.overrides \in [P -> Rule]
    BY DEF Config
  <2>2. Matches(e) \subseteq P /\ Matches(e) \in SUBSET Prefixes
    BY <2>1 DEF Matches
  <2>3. \E p \in Matches(e) : \A o \in Matches(e) : Length[o] <= Length[p]
    BY <1>2, <2>2, LongestExists
  <2> DEFINE longest == CHOOSE p \in Matches(e) : \A o \in Matches(e) : Length[o] <= Length[p]
  <2>4. longest \in Matches(e)
    BY <2>3
  <2>5. Resolve(e) = config.overrides[longest]
    BY <1>2 DEF Resolve
  <2> HIDE DEF longest
  <2> QED BY <2>1, <2>2, <2>4, <2>5
<1> QED BY <1>1, <1>2

LEMMA DefaultIsConfig == Default \in Config
<1>1. <<>> \in [{} -> Rule]
  OBVIOUS
<1>2. <<>> \in UNION {[P -> Rule] : P \in SUBSET Prefixes}
  BY <1>1
<1> QED BY <1>2 DEF Default, Config, Rates, Kinds

LEMMA ScenarioIsConfig == ASSUME NEW name \in Known PROVE Scenario(name) \in Config
<1>1. ASSUME NEW rate \in Rates, NEW slow \in BOOLEAN, NEW kind \in Kinds
      PROVE  Switched(rate, slow, kind) \in Config
  <2>1. Default \in Config
    BY DefaultIsConfig
  <2> HIDE DEF Default
  <2> QED BY <2>1 DEF Switched, Config
<1>2. {"never", "sometimes", "always"} = Rates /\ {"503", "429", "timeout", "malformed"} \subseteq Kinds
  BY DEF Rates, Kinds
<1> QED BY <1>1, <1>2, DefaultIsConfig DEF Known, Scenario

LEMMA MergeIsConfig ==
    ASSUME config \in Config, NEW patch \in Patches
    PROVE  Merge(config, patch) \in Config
<1> DEFINE Overrides == UNION {[P -> Rule] : P \in SUBSET Prefixes}
<1>1. PICK c \in Config : \A f \in DOMAIN patch : f \in DOMAIN c /\ patch[f] = c[f]
  BY AdminInputsAssumption
<1>2. Config = [enabled : BOOLEAN, rate : Rates, slow : BOOLEAN, kind : Kinds, overrides : Overrides]
  BY DEF Config
<1> HIDE DEF Overrides
<1>3. [f \in DOMAIN config |-> IF f \in DOMAIN patch THEN c[f] ELSE config[f]] \in Config
  BY <1>2
<1> QED BY <1>1, <1>3 DEF Merge
-----------------------------------------------------------------------------
(* The chaos engine's steps. *)

\* What the engine does to a request: it passes it on, makes it wait, or answers it.
Engine(q, step, what) ==
    /\ Moves(q, step, what)
    /\ step \in {"handler", "asleep", "hung", "done"}
    /\ what \in Kinds \cup {"none"}

LEMMA DiceMoves ==
    ASSUME ChaosTypeOK, NEW q \in Requests, NEW r \in Rule, Dice(q, r)
    PROVE  /\ \E step \in {"handler", "hung", "done"}, what \in Kinds \cup {"none"} :
                Moves(q, step, what)
           /\ injected' \in {injected, injected + 1} /\ passed' \in Nat
<1>1. r.kind \in Kinds
  BY DEF Rule
<1>2. CASE Goto(q, "handler")
  BY <1>2 DEF Dice, Goto, ChaosTypeOK
<1>3. CASE Inject(q, r.kind)
  BY <1>1, <1>3 DEF Dice, Inject, Goto, Reply, ChaosTypeOK
<1> QED BY <1>2, <1>3 DEF Dice

LEMMA MovesTyped ==
    ASSUME ChaosTypeOK, NEW q \in Requests, NEW step \in RequestSteps, NEW what \in Replies,
           Moves(q, step, what)
    PROVE  /\ rpc' \in [Requests -> RequestSteps]
           /\ reply' \in [Requests -> Replies]
BY DEF ChaosTypeOK, Moves

LEMMA EngineTyped ==
    ASSUME ChaosTypeOK, NEW q \in Requests, NEW step, NEW what, Engine(q, step, what)
    PROVE  /\ rpc' \in [Requests -> RequestSteps]
           /\ reply' \in [Requests -> Replies]
<1>1. step \in RequestSteps /\ what \in Replies
  BY DEF Engine, RequestSteps, Replies, Injections
<1> QED BY <1>1, MovesTyped DEF Engine

LEMMA OffIsRule == Off \in Rule
BY DEF Off, Default, Rule, Knobs, Rates, Kinds

LEMMA DispatchMoves ==
    ASSUME ChaosTypeOK, NEW q \in Requests, NEW e \in Endpoints, Dispatch(q, e)
    PROVE  /\ ChaosTypeOK'
           /\ \E step, what :
                /\ Engine(q, step, what)
                /\ \/ step = "handler" /\ what = "none" /\ UNCHANGED injected
                   \/ e \notin Exempt /\ Resolve(e).enabled
<1>1. Resolve(e) \in Rule /\ started' \in Nat /\ endpoint' \in [Requests -> Endpoints]
  BY RuleIsTyped DEF ChaosTypeOK, Dispatch, Arrives
<1> DEFINE r == Resolve(e)
           broken == e \notin Exempt /\ r.enabled
<1>2. CASE ~broken
  <2>1. Engine(q, "handler", "none") /\ UNCHANGED <<injected, passed, rule>>
    BY <1>2 DEF Dispatch, Goto, Engine
  <2>2. ChaosTypeOK'
    BY <1>1, <2>1, EngineTyped DEF Dispatch, ChaosTypeOK
  <2> QED BY <2>1, <2>2
<1>3. CASE broken /\ r.slow
  <2>1. Engine(q, "asleep", "none") /\ rule' = [rule EXCEPT ![q] = r] /\ UNCHANGED <<injected, passed>>
    BY <1>3 DEF Dispatch, Goto, Engine
  <2> HIDE DEF r
  <2>2. rule' \in [Requests -> Rule]
    BY <1>1, <2>1 DEF ChaosTypeOK, r
  <2>3. ChaosTypeOK'
    BY <1>1, <2>1, <2>2, EngineTyped DEF Dispatch, ChaosTypeOK
  <2> QED BY <1>3, <2>1, <2>3 DEF r
<1>4. CASE broken /\ ~r.slow
  <2>1. Dice(q, r) /\ UNCHANGED rule
    BY <1>4 DEF Dispatch
  <2>2. PICK step \in {"handler", "hung", "done"}, what \in Kinds \cup {"none"} : Moves(q, step, what)
    BY <1>1, <2>1, DiceMoves
  <2>3. injected' \in Nat /\ passed' \in Nat
    BY <1>1, <2>1, DiceMoves DEF ChaosTypeOK
  <2>4. Engine(q, step, what)
    BY <2>2 DEF Engine
  <2>5. ChaosTypeOK'
    BY <1>1, <2>1, <2>3, <2>4, EngineTyped DEF Dispatch, ChaosTypeOK
  <2> QED BY <1>4, <2>4, <2>5
<1> QED BY <1>2, <1>3, <1>4

LEMMA WakeMoves ==
    ASSUME ChaosTypeOK, NEW q \in Requests, Wake(q)
    PROVE  /\ ChaosTypeOK'
           /\ \E step \in {"handler", "hung", "done"}, what \in Kinds \cup {"none"} : Engine(q, step, what)
           /\ injected' \in {injected, injected + 1}
<1>1. rule[q] \in Rule /\ Dice(q, rule[q])
  BY DEF ChaosTypeOK, Wake
<1>2. PICK step \in {"handler", "hung", "done"}, what \in Kinds \cup {"none"} : Moves(q, step, what)
  BY <1>1, DiceMoves
<1>3. injected' \in {injected, injected + 1} /\ injected' \in Nat /\ passed' \in Nat
  BY <1>1, DiceMoves DEF ChaosTypeOK
<1>4. Engine(q, step, what)
  BY <1>2 DEF Engine
<1>5. rule' \in [Requests -> Rule]
  BY OffIsRule DEF ChaosTypeOK, Wake
<1> QED BY <1>3, <1>4, <1>5, EngineTyped DEF Wake, ChaosTypeOK

LEMMA HangEndsMoves ==
    ASSUME ChaosTypeOK, NEW q \in Requests, HangEnds(q)
    PROVE  ChaosTypeOK' /\ Engine(q, "done", "timeout")
<1>1. Engine(q, "done", "timeout")
  BY DEF HangEnds, Reply, Engine, Kinds
<1> QED BY <1>1, EngineTyped DEF HangEnds, ChaosTypeOK

LEMMA AsleepFinite ==
    ASSUME ChaosTypeOK
    PROVE  IsFiniteSet(Asleep) /\ Cardinality(Asleep) \in Nat
<1>1. Asleep \in SUBSET Requests
  BY DEF Asleep
<1>2. IsFiniteSet(Asleep)
  BY <1>1, RequestsAssumption, FS_Subset
<1> QED BY <1>2, FS_CardinalityType

LEMMA AdministerMoves ==
    ASSUME ChaosTypeOK, NEW q \in Requests, Administer(q)
    PROVE  ChaosTypeOK' /\ Moves(q, "done", "served")
<1>1. Moves(q, "done", "served")
  BY DEF Administer, Reply
<1>2. rpc' \in [Requests -> RequestSteps] /\ reply' \in [Requests -> Replies]
  BY <1>1, MovesTyped DEF RequestSteps, Replies
<1>3. config' \in Config
  <2>1. CASE SetChaos
    BY <2>1, AdminInputsAssumption DEF SetChaos
  <2>2. CASE PatchChaos
    BY <2>2, MergeIsConfig DEF PatchChaos, ChaosTypeOK
  <2>3. CASE ResetChaos
    BY <2>3, DefaultIsConfig DEF ResetChaos
  <2>4. CASE LookAtChaos
    BY <2>4 DEF LookAtChaos, ChaosTypeOK
  <2>5. ASSUME NEW name \in Scenarios, ApplyScenario(name)
        PROVE  config' \in Config
    BY <2>5, ScenarioIsConfig DEF ApplyScenario, ChaosTypeOK
  <2> QED BY <2>1, <2>2, <2>3, <2>4, <2>5 DEF Administer
<1>4. injected' \in Nat /\ passed' \in Nat /\ late' \in Nat /\ calm' \in BOOLEAN
  <2>1. Calms \/ Stirs \/ UNCHANGED <<calm, late>>
    BY DEF Administer, SetChaos, PatchChaos, ResetChaos, LookAtChaos, ApplyScenario
  <2>2. ResetCounters \/ UNCHANGED <<injected, passed>>
    BY DEF Administer, SetChaos, PatchChaos, ResetChaos, LookAtChaos, ApplyScenario
  <2>3. late' \in Nat
    BY <2>1, AsleepFinite DEF Calms, Stirs, ChaosTypeOK
  <2>4. injected' \in Nat /\ passed' \in Nat
    BY <2>2 DEF ResetCounters, ChaosTypeOK
  <2>5. calm' \in BOOLEAN
    BY <2>1, Zenon DEF Calms, Stirs, ChaosTypeOK
  <2> QED BY <2>3, <2>4, <2>5
<1> QED BY <1>1, <1>2, <1>3, <1>4 DEF ChaosTypeOK, Administer
-----------------------------------------------------------------------------
(* The live data cache. *)

\* Only a fetch has an answer on its way.
NothingPending == \A q \in Requests : rpc[q] # "fetching" => answer[q] = Nothing

\* While an entry is served its age and its time to live sum to no more than the bound; an
\* answer is no older than its fetch, and a fetch no older than the longest request.
EntryFresh(k) == cache[k].left >= 0 => cache[k].seen + cache[k].left <= Oldest(k)

FetchFresh(q) ==
    rpc[q] = "fetching" =>
      /\ age[q] <= Patience[key[q]]
      /\ answer[q] # Nothing => answer[q].seen <= age[q]

\* Within the time to live of the last report that report is what the cache holds.
KeptFor(k) ==
    quiet[k] <= TTL[k] => cache[k].value = "report" /\ cache[k].left = TTL[k] - quiet[k]

LiveOK ==
    /\ LiveTypeOK
    /\ NothingPending
    /\ \A k \in Sources : EntryFresh(k) /\ KeptFor(k)
    /\ \A q \in Requests : FetchFresh(q)
    /\ ServedIsRecent

LEMMA TimesTyped == \A k \in Sources : TTL[k] \in Nat /\ Patience[k] \in Nat /\ Oldest(k) \in Nat
BY TimesAssumption DEF Oldest

LEMMA LiveStart == ChaosInit /\ LiveInit => LiveOK
<1> SUFFICES ASSUME ChaosInit, LiveInit PROVE LiveOK
  OBVIOUS
<1>1. \A k \in Sources : NoEntry \in Entry(k)
  BY TimesTyped DEF NoEntry, Entry, Ages
<1>2. LiveTypeOK
  <2>1. cache \in [Sources -> UNION {Entry(k) : k \in Sources}] /\ \A k \in Sources : cache[k] \in Entry(k)
    BY <1>1 DEF LiveInit
  <2>2. quiet \in [Sources -> Nat]
    BY TimesTyped DEF LiveInit
  <2> QED BY <2>1, <2>2 DEF LiveInit, ChaosInit, LiveTypeOK
<1>3. \A k \in Sources : EntryFresh(k) /\ KeptFor(k)
  BY TimesTyped DEF LiveInit, EntryFresh, KeptFor, NoEntry
<1> QED BY <1>2, <1>3 DEF LiveInit, ChaosInit, LiveOK, NothingPending, FetchFresh, ServedIsRecent

\* A request that needs no key moves on; its slot may be new.
LEMMA AsideKeepsLive ==
    ASSUME LiveOK, ChaosTypeOK, NEW q \in Requests, NEW step, step \notin {"consult", "fetching"},
           NEW what, what # "answer", Moves(q, step, what),
           rpc[q] \notin {"consult", "fetching"}, Anew(q) \/ UNCHANGED liveVars
    PROVE  LiveOK'
<1>1. /\ UNCHANGED <<cache, age, answer, quiet>>
      /\ \A p \in Requests \ {q} : key'[p] = key[p] /\ shown'[p] = shown[p]
      /\ key' \in [Requests -> Sources \cup {NoKey}] /\ shown' \in [Requests -> Nat]
  BY DEF Anew, liveVars, LiveOK, LiveTypeOK
<1>2. /\ rpc'[q] = step /\ reply'[q] = what
      /\ \A p \in Requests \ {q} : rpc'[p] = rpc[p] /\ reply'[p] = reply[p]
  BY DEF Moves, ChaosTypeOK
<1>3. NothingPending'
  BY <1>1, <1>2 DEF LiveOK, NothingPending
<1>4. LiveTypeOK'
  BY <1>1, <1>2 DEF LiveOK, LiveTypeOK, NothingPending
<1>5. \A k \in Sources : EntryFresh(k)' /\ KeptFor(k)'
  BY <1>1 DEF LiveOK, EntryFresh, KeptFor
<1>6. \A p \in Requests : FetchFresh(p)'
  BY <1>1, <1>2 DEF LiveOK, FetchFresh
<1>7. ServedIsRecent'
  BY <1>1, <1>2 DEF LiveOK, ServedIsRecent
<1> QED BY <1>3, <1>4, <1>5, <1>6, <1>7 DEF LiveOK

LEMMA NeedsKeepsLive ==
    ASSUME LiveOK, ChaosTypeOK, NEW q \in Requests, rpc[q] = "handler", NEW k \in Sources, Needs(q, k)
    PROVE  LiveOK'
<1>1. /\ UNCHANGED <<cache, age, answer, quiet, shown>>
      /\ key' = [key EXCEPT ![q] = k]
      /\ rpc'[q] = "consult"
      /\ \A p \in Requests \ {q} : rpc'[p] = rpc[p] /\ reply'[p] = reply[p] /\ key'[p] = key[p]
  BY DEF Needs, Goto, Moves, ChaosTypeOK, LiveOK, LiveTypeOK
<1>2. LiveTypeOK' /\ NothingPending'
  BY <1>1 DEF LiveOK, LiveTypeOK, NothingPending
<1>3. \A n \in Sources : EntryFresh(n)' /\ KeptFor(n)'
  BY <1>1 DEF LiveOK, EntryFresh, KeptFor
<1>4. (\A p \in Requests : FetchFresh(p)') /\ ServedIsRecent'
  BY <1>1 DEF LiveOK, FetchFresh, ServedIsRecent
<1> QED BY <1>2, <1>3, <1>4 DEF LiveOK

LEMMA FromCacheKeepsLive ==
    ASSUME LiveOK, ChaosTypeOK, NEW q \in Requests, FromCache(q)
    PROVE  LiveOK'
<1>1. /\ UNCHANGED <<cache, key, age, answer, quiet>>
      /\ shown' = [shown EXCEPT ![q] = cache[key[q]].seen]
      /\ rpc'[q] = "done" /\ key[q] \in Sources /\ rpc[q] = "consult"
      /\ \A p \in Requests \ {q} : rpc'[p] = rpc[p] /\ reply'[p] = reply[p] /\ shown'[p] = shown[p]
  BY DEF FromCache, Reply, Moves, ChaosTypeOK, LiveOK, LiveTypeOK
<1>2. cache[key[q]].left \in Int /\ cache[key[q]].seen \in Nat
  BY <1>1, TimesTyped DEF LiveOK, LiveTypeOK, Entry, Ages
<1>3. shown'[q] <= Oldest(key[q])
  <2>1. cache[key[q]].left >= 0 /\ EntryFresh(key[q])
    BY <1>1 DEF FromCache, Hit, LiveOK
  <2> QED BY <1>1, <1>2, <2>1, TimesTyped DEF EntryFresh, LiveOK, LiveTypeOK
<1>4. LiveTypeOK' /\ NothingPending'
  BY <1>1, <1>2 DEF LiveOK, LiveTypeOK, NothingPending
<1>5. \A n \in Sources : EntryFresh(n)' /\ KeptFor(n)'
  BY <1>1 DEF LiveOK, EntryFresh, KeptFor
<1>6. (\A p \in Requests : FetchFresh(p)') /\ ServedIsRecent'
  BY <1>1, <1>3 DEF LiveOK, FetchFresh, ServedIsRecent
<1> QED BY <1>4, <1>5, <1>6 DEF LiveOK

LEMMA SendFetchKeepsLive ==
    ASSUME LiveOK, ChaosTypeOK, NEW q \in Requests, SendFetch(q)
    PROVE  LiveOK'
<1>1. /\ UNCHANGED <<cache, key, shown, quiet>>
      /\ age' = [age EXCEPT ![q] = 0] /\ answer' = [answer EXCEPT ![q] = Nothing]
      /\ rpc'[q] = "fetching" /\ key[q] \in Sources
      /\ \A p \in Requests \ {q} : rpc'[p] = rpc[p] /\ reply'[p] = reply[p]
      /\ \A p \in Requests \ {q} : age'[p] = age[p] /\ answer'[p] = answer[p]
      /\ age'[q] = 0 /\ answer'[q] = Nothing
  BY DEF SendFetch, Goto, Moves, ChaosTypeOK, LiveOK, LiveTypeOK
<1>2. LiveTypeOK' /\ NothingPending'
  BY <1>1 DEF LiveOK, LiveTypeOK, NothingPending
<1>3. \A n \in Sources : EntryFresh(n)' /\ KeptFor(n)'
  BY <1>1 DEF LiveOK, EntryFresh, KeptFor
<1>4. (\A p \in Requests : FetchFresh(p)') /\ ServedIsRecent'
  BY <1>1, TimesTyped DEF LiveOK, FetchFresh, ServedIsRecent
<1> QED BY <1>2, <1>3, <1>4 DEF LiveOK
LEMMA RespondKeepsLive ==
    ASSUME LiveOK, ChaosTypeOK, NEW q \in Requests, Respond(q)
    PROVE  LiveOK'
<1>1. PICK kind \in {"report", "none"} : answer' = [answer EXCEPT ![q] = [kind |-> kind, seen |-> 0]]
  BY DEF Respond
<1>2. rpc[q] = "fetching" /\ key[q] \in Sources /\ age[q] \in Nat
  BY DEF Respond, LiveOK, LiveTypeOK
<1>3. [kind |-> kind, seen |-> 0] \in Answers(key[q])
  BY <1>2, TimesTyped DEF Answers, Ages
<1>4. UNCHANGED <<rpc, reply, cache, key, age, shown, quiet>>
  BY DEF Respond
<1>5. LiveTypeOK'
  <2>1. answer' \in [Requests -> {Nothing} \cup UNION {Answers(k) : k \in Sources}]
    BY <1>1, <1>2, <1>3 DEF LiveOK, LiveTypeOK
  <2>2. \A p \in Requests : answer'[p] = Nothing \/ (key[p] \in Sources /\ answer'[p] \in Answers(key[p]))
    BY <1>1, <1>2, <1>3 DEF LiveOK, LiveTypeOK
  <2> QED BY <1>4, <2>1, <2>2 DEF LiveOK, LiveTypeOK
<1>6. NothingPending'
  BY <1>1, <1>2, <1>4 DEF LiveOK, LiveTypeOK, NothingPending
<1>7. \A n \in Sources : EntryFresh(n)' /\ KeptFor(n)'
  BY <1>4 DEF LiveOK, EntryFresh, KeptFor
<1>8. \A p \in Requests : FetchFresh(p)'
  <2>1. answer'[q].seen <= age[q]
    BY <1>1, <1>2 DEF LiveOK, LiveTypeOK
  <2>2. \A p \in Requests \ {q} : answer'[p] = answer[p]
    BY <1>1 DEF LiveOK, LiveTypeOK
  <2> QED BY <1>4, <2>1, <2>2 DEF LiveOK, FetchFresh
<1>9. ServedIsRecent'
  BY <1>4 DEF LiveOK, ServedIsRecent
<1> QED BY <1>5, <1>6, <1>7, <1>8, <1>9 DEF LiveOK

\* A fetch is over: what is left of the request.
LEMMA DropMoves ==
    ASSUME LiveOK, ChaosTypeOK, NEW q \in Requests, NEW what, Reply(q, what), Drop(q), rpc[q] = "fetching"
    PROVE  /\ rpc'[q] = "done" /\ reply'[q] = what /\ answer'[q] = Nothing /\ key' = key
           /\ \A p \in Requests \ {q} :
                rpc'[p] = rpc[p] /\ reply'[p] = reply[p] /\ age'[p] = age[p] /\ answer'[p] = answer[p]
           /\ age' \in [Requests -> Nat]
           /\ answer' \in [Requests -> {Nothing} \cup UNION {Answers(k) : k \in Sources}]
           /\ key[q] \in Sources
BY DEF Drop, Reply, Moves, ChaosTypeOK, LiveOK, LiveTypeOK

LEMMA FetchFailsKeepsLive ==
    ASSUME LiveOK, ChaosTypeOK, NEW q \in Requests, FetchFails(q)
    PROVE  LiveOK'
<1>1. Reply(q, "unavailable") /\ Drop(q) /\ rpc[q] = "fetching" /\ UNCHANGED <<cache, shown, quiet>>
  BY DEF FetchFails
<1>2. LiveTypeOK' /\ NothingPending'
  BY <1>1, DropMoves DEF LiveOK, LiveTypeOK, NothingPending
<1>3. \A n \in Sources : EntryFresh(n)' /\ KeptFor(n)'
  BY <1>1 DEF LiveOK, EntryFresh, KeptFor
<1>4. \A p \in Requests : FetchFresh(p)'
  BY <1>1, DropMoves DEF LiveOK, FetchFresh
<1>5. ServedIsRecent'
  BY <1>1, DropMoves DEF LiveOK, ServedIsRecent
<1> QED BY <1>2, <1>3, <1>4, <1>5 DEF LiveOK

LEMMA ReceiveKeepsLive ==
    ASSUME LiveOK, ChaosTypeOK, NEW q \in Requests, Receive(q)
    PROVE  LiveOK'
<1> DEFINE k == key[q]
           a == answer[q]
           entry == [value |-> a.kind, left |-> TTL[k], seen |-> a.seen]
<1>1. rpc[q] = "fetching" /\ a # Nothing /\ Drop(q) /\ cache' = [cache EXCEPT ![k] = entry]
  BY DEF Receive, Put
<1>2. k \in Sources /\ a \in Answers(k) /\ a.seen \in Nat /\ a.kind \in {"report", "none"}
  <2>1. k \in Sources /\ a \in Answers(k)
    BY <1>1 DEF LiveOK, LiveTypeOK
  <2> HIDE DEF k, a
  <2> QED BY <2>1, TimesTyped DEF Answers, Ages
<1>3. a.seen <= Patience[k]
  <2>1. age[q] \in Nat /\ age[q] <= Patience[k] /\ a.seen <= age[q]
    BY <1>1 DEF LiveOK, LiveTypeOK, FetchFresh
  <2> QED BY <1>2, <2>1, TimesTyped
<1>4. PICK what \in {"answer", "no_report"} :
        /\ Reply(q, what)
        /\ what = "answer" => /\ a.kind = "report" /\ shown' = [shown EXCEPT ![q] = a.seen]
                              /\ quiet' = [quiet EXCEPT ![k] = 0]
        /\ what = "no_report" => shown' = shown /\ quiet' = [quiet EXCEPT ![k] = TTL[k] + 1]
  BY DEF Receive
<1>5. entry \in Entry(k)
  <2> HIDE DEF k, a
  <2> QED BY <1>2, TimesTyped DEF Entry, Answers
<1>6. /\ \A n \in Sources : cache'[n] = IF n = k THEN entry ELSE cache[n]
      /\ cache' \in [Sources -> UNION {Entry(n) : n \in Sources}]
  <2> HIDE DEF k, entry
  <2> QED BY <1>1, <1>2, <1>5 DEF LiveOK, LiveTypeOK
<1>7. shown' \in [Requests -> Nat] /\ quiet' \in [Sources -> Nat]
  <2>1. shown \in [Requests -> Nat] /\ quiet \in [Sources -> Nat] /\ TTL[k] + 1 \in Nat
    BY <1>2, TimesTyped DEF LiveOK, LiveTypeOK
  <2> HIDE DEF k, a
  <2> QED BY <1>2, <1>4, <2>1
<1>8. LiveTypeOK' /\ NothingPending'
  <2>1. \A n \in Sources : cache'[n] \in Entry(n)
    BY <1>5, <1>6 DEF LiveOK, LiveTypeOK
  <2>2. /\ rpc'[q] = "done" /\ answer'[q] = Nothing /\ key' = key
        /\ \A p \in Requests \ {q} : rpc'[p] = rpc[p] /\ answer'[p] = answer[p]
        /\ age' \in [Requests -> Nat]
        /\ answer' \in [Requests -> {Nothing} \cup UNION {Answers(n) : n \in Sources}]
    BY <1>1, <1>4, DropMoves
  <2>3. NothingPending'
    BY <2>2 DEF LiveOK, NothingPending
  <2>4. LiveTypeOK'
    BY <1>6, <1>7, <2>1, <2>2 DEF LiveOK, LiveTypeOK
  <2> QED BY <2>3, <2>4
<1>9. \A n \in Sources : EntryFresh(n)'
  <2> SUFFICES ASSUME NEW n \in Sources PROVE EntryFresh(n)'
    OBVIOUS
  <2>1. CASE n # k
    BY <1>6, <2>1 DEF LiveOK, EntryFresh, Oldest
  <2>2. CASE n = k
    <3>1. cache'[n].seen = a.seen /\ cache'[n].left = TTL[n]
      BY <1>6, <2>2
    <3>2. a.seen <= Patience[n]
      BY <1>3, <2>2
    <3> HIDE DEF k, a
    <3> QED BY <1>2, <3>1, <3>2, TimesTyped DEF EntryFresh, Oldest
  <2> QED BY <2>1, <2>2
<1>10. \A n \in Sources : KeptFor(n)'
  <2> SUFFICES ASSUME NEW n \in Sources PROVE KeptFor(n)'
    OBVIOUS
  <2>1. CASE n # k
    <3>1. quiet'[n] = quiet[n] /\ cache'[n] = cache[n]
      BY <1>4, <1>6, <2>1 DEF LiveOK, LiveTypeOK
    <3> QED BY <3>1 DEF LiveOK, KeptFor
  <2>2. CASE n = k
    <3>1. cache'[n].value = a.kind /\ cache'[n].left = TTL[n]
      BY <1>6, <2>2
    <3>2. IF what = "answer" THEN quiet'[n] = 0 /\ a.kind = "report" ELSE quiet'[n] = TTL[n] + 1
      BY <1>2, <1>4, <2>2 DEF LiveOK, LiveTypeOK
    <3> HIDE DEF k, a
    <3> QED BY <1>2, <2>2, <3>1, <3>2, TimesTyped DEF KeptFor
  <2> QED BY <2>1, <2>2
<1>11. \A p \in Requests : FetchFresh(p)'
  BY <1>1, <1>4, DropMoves DEF LiveOK, FetchFresh
<1>12. ServedIsRecent'
  <2> SUFFICES ASSUME NEW p \in Requests, rpc'[p] = "done", reply'[p] = "answer"
               PROVE  shown'[p] <= Oldest(key'[p])
    BY DEF ServedIsRecent, Oldest
  <2>1. CASE p # q
    <3>1. shown'[p] = shown[p] /\ rpc'[p] = rpc[p] /\ reply'[p] = reply[p] /\ key' = key
      BY <1>1, <1>4, <2>1, DropMoves DEF LiveOK, LiveTypeOK
    <3> QED BY <3>1 DEF LiveOK, ServedIsRecent
  <2>2. CASE p = q
    <3>1. what = "answer" /\ key' = key
      BY <1>1, <1>4, <2>2, DropMoves
    <3>2. shown'[q] = a.seen
      BY <1>4, <3>1 DEF LiveOK, LiveTypeOK
    <3> HIDE DEF a
    <3> QED BY <1>2, <1>3, <2>2, <3>1, <3>2, TimesTyped DEF Oldest
  <2> QED BY <2>1, <2>2
<1> QED BY <1>8, <1>9, <1>10, <1>11, <1>12 DEF LiveOK

LEMMA TickKeepsLive ==
    ASSUME LiveOK, ChaosTypeOK, Tick
    PROVE  LiveOK'
<1>1. UNCHANGED <<rpc, reply, key, shown>>
  BY DEF Tick
<1>2. ASSUME NEW k \in Sources
      PROVE  /\ cache'[k] \in Entry(k) /\ EntryFresh(k)' /\ KeptFor(k)'
             /\ quiet'[k] \in Nat
  <2>1. /\ cache[k].value \in {"report", "none"} /\ cache[k].left \in -1..TTL[k]
        /\ cache[k].seen \in 0..Oldest(k) + 1
        /\ cache[k] \in Entry(k) /\ quiet[k] \in Nat
    BY DEF LiveOK, LiveTypeOK, Entry, Ages
  <2>2. cache'[k] = [cache[k] EXCEPT !.left = IF @ >= 0 THEN @ - 1 ELSE -1,
                                     !.seen = Capped(@, Oldest(k) + 1)]
    BY DEF Tick
  <2>3. /\ cache'[k].value = cache[k].value
        /\ cache'[k].left = IF cache[k].left >= 0 THEN cache[k].left - 1 ELSE -1
        /\ cache'[k].seen = IF cache[k].seen < Oldest(k) + 1 THEN cache[k].seen + 1 ELSE Oldest(k) + 1
    BY <2>1, <2>2 DEF Entry, Capped
  <2>4. quiet'[k] = IF quiet[k] < TTL[k] + 1 THEN quiet[k] + 1 ELSE TTL[k] + 1
    BY DEF Tick, Capped
  <2>5. cache'[k].left \in -1..TTL[k] /\ cache'[k].seen \in 0..Oldest(k) + 1
    BY <2>1, <2>3, TimesTyped
  <2>6. cache'[k] \in Entry(k)
    BY <2>1, <2>2, <2>3, <2>5 DEF Entry, Ages
  <2>7. EntryFresh(k) /\ KeptFor(k)
    BY DEF LiveOK
  <2>8. EntryFresh(k)'
    BY <2>1, <2>3, <2>7, TimesTyped DEF EntryFresh, Oldest
  <2>9. KeptFor(k)'
    BY <2>1, <2>3, <2>4, <2>7, TimesTyped DEF KeptFor
  <2> QED BY <2>1, <2>4, <2>6, <2>8, <2>9, TimesTyped
<1>3. ASSUME NEW q \in Requests
      PROVE  /\ age'[q] \in Nat /\ FetchFresh(q)'
             /\ answer'[q] = Nothing <=> answer[q] = Nothing
             /\ answer'[q] = Nothing \/ (key[q] \in Sources /\ answer'[q] \in Answers(key[q]))
  <2>1. age[q] \in Nat /\ age'[q] = IF rpc[q] = "fetching" THEN age[q] + 1 ELSE age[q]
    BY DEF LiveOK, LiveTypeOK, Tick
  <2>2. CASE answer[q] = Nothing
    <3>1. answer'[q] = Nothing
      BY <2>2 DEF Tick
    <3>2. rpc[q] = "fetching" => key[q] \in Sources /\ age[q] < Patience[key[q]]
      BY DEF LiveOK, LiveTypeOK, Tick
    <3>3. FetchFresh(q)'
      BY <1>1, <2>1, <3>1, <3>2, TimesTyped DEF FetchFresh
    <3> QED BY <2>1, <2>2, <3>1, <3>3
  <2>3. CASE answer[q] # Nothing
    <3>1. key[q] \in Sources /\ answer[q] \in Answers(key[q]) /\ rpc[q] = "fetching"
      BY <2>3 DEF LiveOK, LiveTypeOK, NothingPending
    <3>2. age[q] < Patience[key[q]] /\ answer[q].seen <= age[q]
      BY <2>3, <3>1 DEF Tick, LiveOK, FetchFresh
    <3>3. answer'[q] = [answer[q] EXCEPT !.seen = Capped(@, Oldest(key[q]) + 1)]
      BY <2>3 DEF Tick
    <3>4. /\ answer[q].kind \in {"report", "none"} /\ answer[q].seen \in 0..Oldest(key[q]) + 1
          /\ answer'[q].kind = answer[q].kind
          /\ answer'[q].seen = IF answer[q].seen < Oldest(key[q]) + 1 THEN answer[q].seen + 1
                                                                     ELSE Oldest(key[q]) + 1
      BY <3>1, <3>3 DEF Answers, Ages, Capped
    <3>5. answer'[q].seen \in 0..Oldest(key[q]) + 1 /\ answer'[q].seen <= age'[q]
          /\ age'[q] <= Patience[key[q]]
      BY <2>1, <3>1, <3>2, <3>4, TimesTyped DEF Oldest
    <3>6. answer'[q] \in Answers(key[q]) /\ answer'[q] # Nothing
      BY <3>1, <3>3, <3>4, <3>5 DEF Answers, Ages, Nothing
    <3>7. FetchFresh(q)'
      BY <1>1, <3>5 DEF FetchFresh
    <3> QED BY <2>1, <2>3, <3>1, <3>6, <3>7
  <2> QED BY <2>2, <2>3
<1>4. LiveTypeOK'
  <2>1. cache' \in [Sources -> UNION {Entry(k) : k \in Sources}]
    <3>1. cache' = [k \in Sources |-> cache'[k]]
      BY DEF Tick
    <3> QED BY <1>2, <3>1
  <2>2. quiet' \in [Sources -> Nat]
    <3>1. quiet' = [k \in Sources |-> quiet'[k]]
      BY DEF Tick
    <3> QED BY <1>2, <3>1
  <2>3. age' \in [Requests -> Nat]
    <3>1. age' = [q \in Requests |-> age'[q]]
      BY DEF Tick
    <3> QED BY <1>3, <3>1
  <2>4. answer' \in [Requests -> {Nothing} \cup UNION {Answers(k) : k \in Sources}]
    <3>1. answer' = [q \in Requests |-> answer'[q]]
      BY DEF Tick
    <3> QED BY <1>3, <3>1
  <2> QED BY <1>1, <1>2, <1>3, <2>1, <2>2, <2>3, <2>4 DEF LiveOK, LiveTypeOK
<1>5. NothingPending'
  BY <1>1, <1>3 DEF LiveOK, NothingPending
<1>6. ServedIsRecent'
  BY <1>1 DEF LiveOK, ServedIsRecent
<1> QED BY <1>2, <1>3, <1>4, <1>5, <1>6 DEF LiveOK
-----------------------------------------------------------------------------
(* The service as a whole. *)

\* After a reset the configuration is the default, and what was injected since and what is
\* still asleep are together no more than slept then.
Healing == calm => config = Default /\ injected + Cardinality(Asleep) <= late

ServiceOK == ChaosTypeOK /\ LiveOK /\ Healing /\ AdminIsNeverBroken /\ serving \in BOOLEAN

LEMMA HealingHeals == ServiceOK => ResetHeals
<1> SUFFICES ASSUME ServiceOK, calm PROVE injected <= late
  BY DEF ResetHeals
<1>1. injected + Cardinality(Asleep) <= late /\ injected \in Nat /\ late \in Nat
  BY DEF ServiceOK, Healing, ChaosTypeOK
<1>2. Cardinality(Asleep) \in Nat
  BY AsleepFinite DEF ServiceOK
<1> QED BY <1>1, <1>2

LEMMA ServiceStart == ChaosInit /\ LiveInit /\ serving \in BOOLEAN => ServiceOK
<1> SUFFICES ASSUME ChaosInit, LiveInit, serving \in BOOLEAN PROVE ServiceOK
  OBVIOUS
<1>1. ChaosTypeOK
  <2>1. config \in Config /\ calm \in BOOLEAN
    BY AdminInputsAssumption DEF ChaosInit
  <2>2. AdminPath \in Endpoints
    BY EndpointsAssumption
  <2>3. rpc \in [Requests -> RequestSteps] /\ reply \in [Requests -> Replies]
    BY DEF ChaosInit, RequestSteps, Replies
  <2> QED BY <2>1, <2>2, <2>3, OffIsRule DEF ChaosInit, ChaosTypeOK
<1>2. Healing
  <2>1. Asleep = {}
    BY DEF Asleep, ChaosInit
  <2>2. Cardinality(Asleep) = 0
    BY <2>1, FS_EmptySet
  <2>3. calm => config = Default
    BY Zenon DEF ChaosInit
  <2>4. injected = 0 /\ late = 0
    BY DEF ChaosInit
  <2>5. injected + Cardinality(Asleep) <= late
    BY <2>2, <2>4
  <2> QED BY <2>3, <2>5 DEF Healing
<1>3. AdminIsNeverBroken
  <2>1. rpc = [q \in Requests |-> "idle"] /\ reply = [q \in Requests |-> "none"]
    BY DEF ChaosInit
  <2>2. "idle" \notin {"asleep", "hung"} /\ "none" \notin Injections
    BY DEF Injections, Kinds
  <2> QED BY <2>1, <2>2 DEF AdminIsNeverBroken
<1> QED BY <1>1, <1>2, <1>3, LiveStart DEF ServiceOK

\* A request that was not asleep and does not fall asleep leaves the others asleep.
LEMMA AsleepKept ==
    ASSUME ChaosTypeOK, NEW q \in Requests, NEW step, step # "asleep", rpc[q] # "asleep", NEW what,
           Moves(q, step, what)
    PROVE  Asleep' = Asleep
BY DEF Asleep, Moves, ChaosTypeOK

\* An answer of the service itself never counts as the engine's.
LEMMA AdminKept ==
    ASSUME ServiceOK, NEW q \in Requests, NEW step, NEW what, Moves(q, step, what),
           endpoint'[q] \in Exempt => step \notin {"asleep", "hung"} /\ what \notin Injections,
           \A p \in Requests \ {q} : endpoint'[p] = endpoint[p]
    PROVE  AdminIsNeverBroken'
<1>1. /\ rpc'[q] = step /\ reply'[q] = what
      /\ \A p \in Requests \ {q} : rpc'[p] = rpc[p] /\ reply'[p] = reply[p]
  BY DEF ServiceOK, ChaosTypeOK, Moves
<1> QED BY <1>1 DEF ServiceOK, AdminIsNeverBroken

LEMMA DispatchKeepsService ==
    ASSUME ServiceOK, NEW q \in Requests, NEW e \in Endpoints, Dispatch(q, e), Anew(q)
    PROVE  ChaosTypeOK' /\ LiveOK' /\ Healing' /\ AdminIsNeverBroken'
<1>1. ChaosTypeOK
  BY DEF ServiceOK
<1>2. PICK step, what :
        /\ Engine(q, step, what)
        /\ \/ step = "handler" /\ what = "none" /\ UNCHANGED injected
           \/ e \notin Exempt /\ Resolve(e).enabled
  BY <1>1, DispatchMoves
<1>3. /\ Moves(q, step, what)
      /\ step \notin {"consult", "fetching"} /\ what # "answer"
      /\ rpc[q] \in {"idle", "done"}
      /\ endpoint' = [endpoint EXCEPT ![q] = e] /\ endpoint'[q] = e
      /\ UNCHANGED <<config, calm, late>>
  BY <1>2 DEF Engine, Dispatch, Arrives, Kinds, ServiceOK, ChaosTypeOK
<1>4. LiveOK'
  BY <1>1, <1>3, AsideKeepsLive DEF ServiceOK
<1>5. AdminIsNeverBroken'
  <2>1. endpoint'[q] \in Exempt => step \notin {"asleep", "hung"} /\ what \notin Injections
    BY <1>2, <1>3 DEF Injections, Kinds
  <2> QED BY <1>3, <2>1, AdminKept
<1>6. Healing'
  <2> SUFFICES ASSUME calm PROVE config' = Default /\ injected' + Cardinality(Asleep') <= late'
    BY <1>3 DEF Healing
  <2>1. config = Default /\ injected + Cardinality(Asleep) <= late
    BY DEF ServiceOK, Healing
  <2>2. ~Resolve(e).enabled
    <3>1. Matches(e) = {}
      BY <2>1 DEF Matches, Default
    <3> QED BY <2>1, <3>1 DEF Resolve, Default, Knobs
  <2>3. step = "handler" /\ UNCHANGED injected
    BY <1>2, <2>2
  <2>4. Asleep' = Asleep
    BY <1>1, <1>3, <2>3, AsleepKept
  <2> QED BY <1>3, <2>1, <2>3, <2>4
<1> QED BY <1>1, <1>4, <1>5, <1>6, DispatchMoves

LEMMA WakeKeepsService ==
    ASSUME ServiceOK, NEW q \in Requests, Wake(q), UNCHANGED liveVars
    PROVE  ChaosTypeOK' /\ LiveOK' /\ Healing' /\ AdminIsNeverBroken'
<1>1. ChaosTypeOK
  BY DEF ServiceOK
<1>2. PICK step \in {"handler", "hung", "done"}, what \in Kinds \cup {"none"} : Engine(q, step, what)
  BY <1>1, WakeMoves
<1>3. /\ Moves(q, step, what) /\ what # "answer" /\ rpc[q] = "asleep"
      /\ UNCHANGED <<config, endpoint, calm, late>>
  BY <1>2 DEF Engine, Wake, Kinds
<1>4. LiveOK'
  BY <1>1, <1>3, AsideKeepsLive DEF ServiceOK
<1>5. AdminIsNeverBroken'
  <2>1. endpoint[q] \notin Exempt
    BY <1>3 DEF ServiceOK, AdminIsNeverBroken
  <2> QED BY <1>3, <2>1, AdminKept
<1>6. Healing'
  <2>1. Asleep' = Asleep \ {q} /\ q \in Asleep
    BY <1>1, <1>3 DEF Asleep, Moves, ChaosTypeOK
  <2>2. IsFiniteSet(Asleep) /\ Cardinality(Asleep) \in Nat
    BY <1>1, AsleepFinite
  <2>3. Cardinality(Asleep') = Cardinality(Asleep) - 1
    BY <2>1, <2>2, FS_RemoveElement
  <2>4. injected \in Nat /\ late \in Nat /\ injected' \in {injected, injected + 1}
    BY <1>1, WakeMoves DEF ChaosTypeOK
  <2> QED BY <1>3, <2>2, <2>3, <2>4 DEF ServiceOK, Healing
<1> QED BY <1>1, <1>4, <1>5, <1>6, WakeMoves

LEMMA HangEndsKeepsService ==
    ASSUME ServiceOK, NEW q \in Requests, HangEnds(q), UNCHANGED liveVars
    PROVE  ChaosTypeOK' /\ LiveOK' /\ Healing' /\ AdminIsNeverBroken'
<1>1. ChaosTypeOK
  BY DEF ServiceOK
<1>2. /\ Moves(q, "done", "timeout") /\ rpc[q] = "hung"
      /\ UNCHANGED <<config, endpoint, injected, calm, late>>
  BY DEF HangEnds, Reply
<1>3. LiveOK'
  BY <1>1, <1>2, AsideKeepsLive DEF ServiceOK
<1>4. AdminIsNeverBroken'
  <2>1. endpoint[q] \notin Exempt
    BY <1>2 DEF ServiceOK, AdminIsNeverBroken
  <2> QED BY <1>2, <2>1, AdminKept
<1>5. Healing'
  <2>1. Asleep' = Asleep
    BY <1>1, <1>2, AsleepKept
  <2> QED BY <1>2, <2>1 DEF ServiceOK, Healing
<1> QED BY <1>1, <1>3, <1>4, <1>5, HangEndsMoves

LEMMA AdministerKeepsService ==
    ASSUME ServiceOK, NEW q \in Requests, Administer(q), UNCHANGED liveVars
    PROVE  ChaosTypeOK' /\ LiveOK' /\ Healing' /\ AdminIsNeverBroken'
<1>1. ChaosTypeOK
  BY DEF ServiceOK
<1>2. Moves(q, "done", "served") /\ rpc[q] = "handler" /\ UNCHANGED endpoint
  BY <1>1, AdministerMoves DEF Administer
<1>3. LiveOK'
  BY <1>1, <1>2, AsideKeepsLive DEF ServiceOK
<1>4. AdminIsNeverBroken'
  BY <1>2, AdminKept DEF Injections, Kinds
<1>5. Healing'
  <2>1. Asleep' = Asleep
    BY <1>1, <1>2, AsleepKept
  <2>2. Cardinality(Asleep) \in Nat
    BY <1>1, AsleepFinite
  <2>3. CASE Stirs
    BY <2>3 DEF Stirs, Healing
  <2>4. CASE Calms /\ config' = Default /\ ResetCounters
    BY <2>1, <2>2, <2>4 DEF Calms, ResetCounters, Healing
  <2>5. CASE UNCHANGED <<config, injected, passed, calm, late>>
    BY <2>1, <2>5 DEF ServiceOK, Healing
  <2>6. Scenario("healthy") = Default
    BY DEF Scenario
  <2> QED BY <2>3, <2>4, <2>5, <2>6
          DEF Administer, SetChaos, PatchChaos, ResetChaos, LookAtChaos, ApplyScenario
<1> QED BY <1>1, <1>3, <1>4, <1>5, AdministerMoves

\* A handler's step that sets rpc and reply and leaves the engine alone.
LEMMA HandlerKeepsEngine ==
    ASSUME ServiceOK, NEW q \in Requests, rpc[q] \in {"handler", "consult", "fetching"},
           NEW step \in {"consult", "fetching", "done"},
           NEW what \in {"none", "served", "answer", "refused", "unavailable", "no_report"},
           Moves(q, step, what),
           UNCHANGED <<config, injected, passed, endpoint, rule, started, calm, late>>
    PROVE  ChaosTypeOK' /\ Healing' /\ AdminIsNeverBroken'
<1>1. ChaosTypeOK
  BY DEF ServiceOK
<1>2. step \in RequestSteps /\ what \in Replies
  BY DEF RequestSteps, Replies
<1>3. ChaosTypeOK'
  BY <1>1, <1>2, MovesTyped DEF ChaosTypeOK
<1>4. Asleep' = Asleep
  BY <1>1, AsleepKept
<1>5. Healing'
  BY <1>4 DEF ServiceOK, Healing
<1>6. AdminIsNeverBroken'
  BY AdminKept DEF Injections, Kinds
<1> QED BY <1>3, <1>5, <1>6

LEMMA LiveKeepsService ==
    ASSUME ServiceOK, TablesOK, Live
    PROVE  ChaosTypeOK' /\ LiveOK' /\ Healing' /\ AdminIsNeverBroken'
<1>1. ChaosTypeOK /\ LiveOK
  BY DEF ServiceOK
<1>2. UNCHANGED <<config, injected, passed, endpoint, rule, started, calm, late>>
  BY DEF Live
<1>3. CASE UNCHANGED <<rpc, reply>> /\ LiveOK'
  <2>1. Asleep' = Asleep
    BY <1>3 DEF Asleep
  <2> QED BY <1>1, <1>2, <1>3, <2>1 DEF ServiceOK, ChaosTypeOK, Healing, AdminIsNeverBroken
<1>4. CASE Tick
  BY <1>1, <1>3, <1>4, TickKeepsLive DEF Tick
<1>5. ASSUME NEW q \in Requests, Respond(q)
      PROVE  ChaosTypeOK' /\ LiveOK' /\ Healing' /\ AdminIsNeverBroken'
  BY <1>1, <1>3, <1>5, RespondKeepsLive DEF Respond
<1>6. ASSUME NEW q \in Requests, Serve(q) \/ (rpc[q] = "handler" /\ Refuse(q))
      PROVE  ChaosTypeOK' /\ LiveOK' /\ Healing' /\ AdminIsNeverBroken'
  <2>1. /\ rpc[q] = "handler" /\ UNCHANGED liveVars
        /\ Moves(q, "done", "served") \/ Moves(q, "done", "refused")
    BY <1>6 DEF Serve, Refuse, Reply
  <2>2. LiveOK'
    BY <1>1, <2>1, AsideKeepsLive
  <2> QED BY <1>2, <2>1, <2>2, HandlerKeepsEngine
<1>7. ASSUME NEW q \in Requests, rpc[q] = "handler", NEW k \in Sources, Needs(q, k)
      PROVE  ChaosTypeOK' /\ LiveOK' /\ Healing' /\ AdminIsNeverBroken'
  <2>1. Moves(q, "consult", "none")
    BY <1>7 DEF Needs, Goto
  <2> QED BY <1>1, <1>2, <1>7, <2>1, NeedsKeepsLive, HandlerKeepsEngine
<1>8. ASSUME NEW q \in Requests, FindStation(q)
      PROVE  ChaosTypeOK' /\ LiveOK' /\ Healing' /\ AdminIsNeverBroken'
  <2>1. \A a \in reference.airports : a.icao \in Stations \cup {Null}
    BY DEF TablesOK, ReferenceTypeOK, Tables, Airport
  <2>2. rpc[q] = "handler" /\ (Refuse(q) \/ \E k \in Sources : Needs(q, k))
    BY <1>8, <2>1 DEF FindStation, Sources
  <2> QED BY <1>6, <1>7, <2>2
<1>9. ASSUME NEW q \in Requests, FindAirline(q)
      PROVE  ChaosTypeOK' /\ LiveOK' /\ Healing' /\ AdminIsNeverBroken'
  BY <1>6, <1>7, <1>9 DEF FindAirline, Sources
<1>10. ASSUME NEW q \in Requests, FromCache(q)
       PROVE  ChaosTypeOK' /\ LiveOK' /\ Healing' /\ AdminIsNeverBroken'
  <2>1. rpc[q] = "consult" /\ Moves(q, "done", "answer")
    BY <1>10 DEF FromCache, Reply
  <2> QED BY <1>1, <1>2, <1>10, <2>1, FromCacheKeepsLive, HandlerKeepsEngine
<1>11. ASSUME NEW q \in Requests, SendFetch(q)
       PROVE  ChaosTypeOK' /\ LiveOK' /\ Healing' /\ AdminIsNeverBroken'
  <2>1. rpc[q] = "consult" /\ Moves(q, "fetching", "none")
    BY <1>11 DEF SendFetch, Goto
  <2> QED BY <1>1, <1>2, <1>11, <2>1, SendFetchKeepsLive, HandlerKeepsEngine
<1>12. ASSUME NEW q \in Requests, Receive(q)
       PROVE  ChaosTypeOK' /\ LiveOK' /\ Healing' /\ AdminIsNeverBroken'
  <2>1. rpc[q] = "fetching" /\ (Moves(q, "done", "answer") \/ Moves(q, "done", "no_report"))
    BY <1>12 DEF Receive, Reply
  <2> QED BY <1>1, <1>2, <1>12, <2>1, ReceiveKeepsLive, HandlerKeepsEngine
<1>13. ASSUME NEW q \in Requests, FetchFails(q)
       PROVE  ChaosTypeOK' /\ LiveOK' /\ Healing' /\ AdminIsNeverBroken'
  <2>1. rpc[q] = "fetching" /\ Moves(q, "done", "unavailable")
    BY <1>13 DEF FetchFails, Reply
  <2> QED BY <1>1, <1>2, <1>13, <2>1, FetchFailsKeepsLive, HandlerKeepsEngine
<1> QED BY <1>4, <1>5, <1>6, <1>8, <1>9, <1>10, <1>11, <1>12, <1>13
        DEF Live, LiveNext, HandlerStep, TimesOut

LEMMA PlatformKeepsService ==
    ServiceOK /\ TablesOK /\ [PlatformNext]_platformVars => ServiceOK'
<1> SUFFICES ASSUME ServiceOK, TablesOK, [PlatformNext]_platformVars PROVE ServiceOK'
  OBVIOUS
<1>1. serving' \in BOOLEAN
  <2>1. UNCHANGED serving
    BY DEF PlatformNext, platformVars
  <2> QED BY <2>1, Zenon DEF ServiceOK
<1>2. CASE UNCHANGED service
  <2>1. UNCHANGED <<chaosVars, liveVars>>
    BY <1>2 DEF service
  <2>2. Asleep' = Asleep
    BY <2>1 DEF Asleep, chaosVars
  <2>3. ChaosTypeOK' /\ Healing' /\ AdminIsNeverBroken'
    BY <2>1, <2>2 DEF ServiceOK, ChaosTypeOK, Healing, AdminIsNeverBroken, chaosVars
  <2>4. LiveOK'
    BY <2>1 DEF ServiceOK, LiveOK, LiveTypeOK, NothingPending, EntryFresh, KeptFor, FetchFresh,
                ServedIsRecent, chaosVars, liveVars
  <2> QED BY <1>1, <2>3, <2>4 DEF ServiceOK
<1>3. CASE Middleware
  BY <1>1, <1>3, DispatchKeepsService, WakeKeepsService, HangEndsKeepsService, AdministerKeepsService
     DEF Middleware, ServiceOK
<1>4. CASE Live
  BY <1>1, <1>4, LiveKeepsService DEF ServiceOK
<1>5. UNCHANGED service \/ Middleware \/ Live
  BY DEF PlatformNext, Migrate, Load, Seed, Reset, service, platformVars
<1> QED BY <1>2, <1>3, <1>4, <1>5
-----------------------------------------------------------------------------
(* The theorems. *)

LEMMA ServiceStarts == PlatformInit => ServiceOK /\ TablesOK
<1> SUFFICES ASSUME PlatformInit PROVE ServiceOK /\ TablesOK
  OBVIOUS
<1>1. ChaosInit /\ LiveInit /\ TablesOK
  BY ReferenceStart, RunningStart DEF PlatformInit, NewDatabase
<1>2. serving \in BOOLEAN
  BY DEF PlatformInit, NewDatabase, RunningService
<1> QED BY <1>1, <1>2, ServiceStart

\* The inductive invariant of the service, with that of the tables it reads.
LEMMA ServiceInvariant == PlatformSpec => [](ServiceOK /\ TablesOK)
<1>1. ServiceOK /\ TablesOK /\ [PlatformNext]_platformVars => ServiceOK' /\ TablesOK'
  BY PlatformKeepsService, PlatformKeepsTables
<1> QED BY <1>1, ServiceStarts, PTL DEF PlatformSpec

\* Whatever overrides are set, one that covers every path included, the routes that turn chaos
\* off are never made to wait or answered by the engine.
THEOREM AdminAlwaysReachable == PlatformSpec => []AdminIsNeverBroken
<1>1. ServiceOK => AdminIsNeverBroken
  BY DEF ServiceOK
<1> QED BY <1>1, ServiceInvariant, PTL

\* After a reset no more requests are broken than were asleep at that moment: each of them
\* leaves Asleep as it is counted, and nobody falls asleep under the default configuration.
THEOREM ResetAlwaysHeals == PlatformSpec => []ResetHeals
BY HealingHeals, ServiceInvariant, PTL

\* Nobody is answered with an observation older than its time to live and one fetch, in
\* whatever order concurrent fetches of one key end.
THEOREM NothingStaleServed == PlatformSpec => []ServedIsRecent
<1>1. ServiceOK => ServedIsRecent
  BY DEF ServiceOK, LiveOK
<1> QED BY <1>1, ServiceInvariant, PTL

\* A step that sends no fetch leaves every request where it waits, or ends it.
LEMMA OnlySendFetches ==
    ASSUME ChaosTypeOK, NEW p \in Requests, NEW step, step # "fetching", NEW what, Moves(p, step, what),
           NEW q \in Requests, rpc[q] = "consult"
    PROVE  rpc'[q] # "fetching"
BY DEF ChaosTypeOK, Moves

LEMMA FetchOnlyWhenQuiet ==
    ASSUME ServiceOK, TablesOK, [PlatformNext]_platformVars,
           NEW q \in Requests, rpc[q] = "consult", rpc'[q] = "fetching"
    PROVE  quiet[key[q]] > TTL[key[q]]
<1>1. ChaosTypeOK /\ LiveOK
  BY DEF ServiceOK
<1>2. CASE UNCHANGED rpc
  BY <1>2
<1>3. ASSUME NEW p \in Requests, NEW step, step # "fetching", NEW what, Moves(p, step, what)
      PROVE  FALSE
  BY <1>1, <1>3, OnlySendFetches
<1>4. CASE Middleware
  <2>1. PICK p \in Requests :
          \/ \E e \in Endpoints : Dispatch(p, e)
          \/ Wake(p) \/ HangEnds(p) \/ Administer(p)
    BY <1>4 DEF Middleware
  <2>2. \A step, what : Engine(p, step, what) => step # "fetching" /\ Moves(p, step, what)
    BY DEF Engine
  <2>3. ~\E e \in Endpoints : Dispatch(p, e)
    BY <1>1, <1>3, <2>2, DispatchMoves
  <2>4. ~(Wake(p) \/ HangEnds(p))
    BY <1>1, <1>3, <2>2, WakeMoves, HangEndsMoves
  <2>5. ~Administer(p)
    BY <1>3 DEF Administer, Reply
  <2> QED BY <2>1, <2>3, <2>4, <2>5
<1>5. CASE Live
  <2>1. ~Tick
    BY DEF Tick
  <2>2. ASSUME NEW p \in Requests, Respond(p) PROVE FALSE
    BY <2>2 DEF Respond
  <2>3. ASSUME NEW p \in Requests, Serve(p) \/ FindStation(p) \/ FindAirline(p) \/ FromCache(p)
                                   \/ Receive(p) \/ FetchFails(p)
        PROVE  FALSE
    BY <1>3, <2>3 DEF Serve, FindStation, FindAirline, FromCache, Receive, FetchFails, Refuse, Needs,
                      Reply, Goto
  <2>4. ASSUME NEW p \in Requests, SendFetch(p)
        PROVE  p = q
    BY <1>1, <2>4 DEF SendFetch, Goto, Moves, ChaosTypeOK
  <2>5. ~Hit(key[q])
    <3>1. PICK p \in Requests : SendFetch(p)
      BY <1>5, <2>1, <2>2, <2>3 DEF Live, LiveNext, HandlerStep, TimesOut
    <3> QED BY <2>4, <3>1 DEF SendFetch
  <2>6. key[q] \in Sources
    BY <1>1 DEF LiveOK, LiveTypeOK
  <2>7. KeptFor(key[q]) /\ quiet[key[q]] \in Nat /\ TTL[key[q]] \in Nat
    BY <1>1, <2>6, TimesTyped DEF LiveOK, LiveTypeOK
  <2> QED BY <2>5, <2>7 DEF KeptFor, Hit
<1>6. UNCHANGED rpc \/ Middleware \/ Live
  BY DEF PlatformNext, Migrate, Load, Seed, Reset, service, chaosVars, platformVars
<1> QED BY <1>2, <1>4, <1>5, <1>6

\* No request goes out for a key within the time to live of the last report received for it:
\* until then that report is what the cache holds, whatever failed or came late in between.
THEOREM QuotaAlwaysSpared == PlatformSpec => QuotaIsSpared
<1>1. ServiceOK /\ TablesOK /\ [PlatformNext]_platformVars
        => [\A q \in Requests :
              rpc[q] = "consult" /\ rpc'[q] = "fetching" => quiet[key[q]] > TTL[key[q]]]_<<rpc, quiet>>
  BY FetchOnlyWhenQuiet
<1> QED BY <1>1, ServiceInvariant, PTL DEF PlatformSpec, QuotaIsSpared

\* The types of the whole platform.
THEOREM PlatformTyped == PlatformSpec => []PlatformTypeOK
<1>1. PlatformInit => InSeries /\ Seeded /\ ServiceOK
  <2>1. PlatformInit => InSeries
    BY MigrationsStart, MigratedStart DEF PlatformInit, NewDatabase, RunningService
  <2>2. PlatformInit => ChosenIsThere
    BY DEF PlatformInit, SeedingInit, NewDatabase, ReferenceInit, RunningService, ChosenIsThere,
           SeedingTypeOK, SeederSteps
  <2> QED BY <2>1, <2>2, ServiceStarts DEF Seeded
<1>2. InSeries /\ Seeded /\ ServiceOK /\ [PlatformNext]_platformVars => InSeries' /\ Seeded' /\ ServiceOK'
  <2>1. InSeries /\ [PlatformNext]_platformVars => InSeries'
    BY PlatformMigrates, MigrationsKeepSeries
  <2> QED BY <2>1, PlatformKeepsTables, PlatformKeepsChosen, PlatformKeepsService DEF Seeded
<1>3. InSeries /\ Seeded /\ ServiceOK => PlatformTypeOK
  BY DEF InSeries, Seeded, TablesOK, ChosenIsThere, ServiceOK, LiveOK, PlatformTypeOK
<1> QED BY <1>1, <1>2, <1>3, PTL DEF PlatformSpec
=============================================================================
