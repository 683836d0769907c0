----------------------------- MODULE ColdStartProofs -----------------------------
(***************************************************************************)
(* Proofs about ColdStart for any number of invocations, parameters, pages *)
(* and variables: one build, which sees the whole store, and an            *)
(* environment that no later reading changes.                              *)
(***************************************************************************)
EXTENDS ColdStart, Integers, TLAPS

\* Only the build whose promise is cached has begun.
BuildIsCached == \A b \in Builds : stage[b] # "none" => b = bootstrapping

WaitersAwaitABuild == \A i \in Invocations : pc[i] = "waiting" => awaits[i] \in Builds

\* process.env is what the function was given until a build reads the store;
\* from then on each further variable has the value of a path that leads to
\* it, which may have been edited since.
ValuesHaveASource ==
    /\ bootstrapping = NoBuild => env = given
    /\ \A n \in Names : env[n] # Absent /\ given[n] = Absent =>
          \E p \in Paths : NameOf[p] = n /\ (p \in steady => env[n] = store[p])

\* What a build has still to read brings the variables it has not got.
Wanted == {p \in steady : store[p] \in Values}

PagesCoverTheStore ==
    \A b \in Builds :
        /\ stage[b] = "loading" =>
              /\ pages[b] # <<>>
              /\ \A p \in Wanted : \/ env[NameOf[p]] # Absent
                                   \/ \E k \in DOMAIN pages[b] : p \in pages[b][k]
        /\ (stage[b] = "importing" \/ Imports(b)) /\ pagination # <<>> =>
              \A p \in Wanted : env[NameOf[p]] # Absent

\* The stages a build has behind it.
Passed(b) ==
    CASE stage[b] = "creating" -> {"importing"}
      [] stage[b] = "configuring" -> {"importing", "creating"}
      [] stage[b] = "initialising" -> {"importing", "creating", "configuring"}
      [] stage[b] = "ready" -> Stages
      [] OTHER -> {}

\* A stage that has not thrown has found its variables, and they stay.
DemandsAreMet ==
    \A b \in Builds : \A s \in Passed(b) : \A n \in Demands[s] : env[n] # Absent

IInv ==
    /\ TypeInvariant
    /\ BuildIsCached
    /\ WaitersAwaitABuild
    /\ ValuesHaveASource
    /\ PagesCoverTheStore
    /\ FirstValueStays
    /\ DemandsAreMet

LEMMA InitIInv == ASSUME Init PROVE IInv
<1> USE ColdStartAssumption DEF Init, NotBuilt, NoPages, Nothing, NotWaiting
<1>1. given \in Environments
  BY DEF Environments
<1>2. TypeInvariant
  <2>1. [n \in Names |-> Absent] \in Environments
    BY DEF Environments
  <2>2. <<>> \in Seq(SUBSET Paths)
    OBVIOUS
  <2>3. QED BY <1>1, <2>1, <2>2 DEF TypeInvariant, Stages
<1>3. BuildIsCached /\ WaitersAwaitABuild
  BY DEF BuildIsCached, WaitersAwaitABuild
<1>4. ValuesHaveASource
  BY DEF ValuesHaveASource
<1>5. PagesCoverTheStore /\ FirstValueStays
  BY DEF PagesCoverTheStore, FirstValueStays, Imports
<1>6. DemandsAreMet
  BY DEF DemandsAreMet, Passed
<1>7. QED BY <1>2, <1>3, <1>4, <1>5, <1>6 DEF IInv

\* The promise that is cached is the only build that has begun.
LEMMA CachedBuildIsTheOne ==
    ASSUME IInv, NEW b \in Builds, stage[b] # "none"
    PROVE  /\ b = bootstrapping
           /\ \A a \in Builds \ {b} : stage[a] = "none"
BY DEF IInv, BuildIsCached

-------------------------------------------------------------------------------
(* The handler.                                                            *)

\* An invocation that awaits a promise that is there changes no build.
LEMMA CallsKeepIInv ==
    ASSUME IInv, pc' \in [Invocations -> {"idle", "waiting", "served", "failed"}],
           awaits' \in [Invocations -> Builds \cup {NoBuild}],
           WaitersAwaitABuild', UNCHANGED <<storeVars, buildVars, steady>>
    PROVE  IInv'
<1> USE DEF storeVars, buildVars
<1>1. TypeInvariant'
  BY DEF IInv, TypeInvariant
<1>2. BuildIsCached' /\ ValuesHaveASource'
  BY DEF IInv, BuildIsCached, ValuesHaveASource
<1>3. PagesCoverTheStore' /\ FirstValueStays'
  BY DEF IInv, PagesCoverTheStore, Wanted, FirstValueStays, Imports
<1>4. DemandsAreMet'
  BY DEF IInv, DemandsAreMet, Passed
<1>5. QED BY <1>1, <1>2, <1>3, <1>4 DEF IInv

LEMMA ResumeKeepsIInv == ASSUME IInv, NEW i \in Invocations, Resume(i) PROVE IInv'
<1>1. WaitersAwaitABuild'
  BY DEF Resume, IInv, TypeInvariant, WaitersAwaitABuild
<1>2. pc' \in [Invocations -> {"idle", "waiting", "served", "failed"}]
  BY DEF Resume, IInv, TypeInvariant
<1>3. QED BY <1>1, <1>2, CallsKeepIInv DEF Resume, IInv, TypeInvariant

LEMMA JoinKeepsIInv ==
    ASSUME IInv, NEW i \in Invocations, Invoke(i), Join(i) PROVE IInv'
<1>1. /\ bootstrapping \in Builds
      /\ awaits' = [awaits EXCEPT ![i] = bootstrapping]
      /\ pc' = [pc EXCEPT ![i] = "waiting"]
      /\ UNCHANGED <<storeVars, buildVars, steady>>
  BY DEF Invoke, Join, Cached, IInv, TypeInvariant
<1>2. WaitersAwaitABuild'
  BY <1>1 DEF IInv, TypeInvariant, WaitersAwaitABuild
<1>3. QED BY <1>1, <1>2, CallsKeepIInv DEF IInv, TypeInvariant

\* The first build of an environment starts with every parameter before it.
LEMMA BeginKeepsIInv ==
    ASSUME IInv, NEW i \in Invocations, Invoke(i), Begin(i) PROVE IInv'
<1>1. PICK b \in Builds :
         /\ bootstrapping' = b
         /\ stage' = [stage EXCEPT ![b] = IF pagination = <<>> THEN "importing"
                                                               ELSE "loading"]
         /\ pages' = [pages EXCEPT ![b] = pagination]
         /\ awaits' = [awaits EXCEPT ![i] = b]
  BY DEF Begin
<1>2. /\ bootstrapping = NoBuild /\ steady' = Paths
      /\ pc' = [pc EXCEPT ![i] = "waiting"]
      /\ UNCHANGED <<store, given, pagination, env, seen>>
  BY DEF Begin, Invoke, Cached, storeVars
<1>3. env = given /\ \A a \in Builds : stage[a] = "none"
  BY <1>2, ColdStartAssumption DEF IInv, BuildIsCached, ValuesHaveASource
<1>4. stage'[b] = (IF pagination = <<>> THEN "importing" ELSE "loading")
      /\ \A a \in Builds \ {b} : stage'[a] = "none"
  BY <1>1, <1>3 DEF IInv, TypeInvariant
<1>5. TypeInvariant'
  <2>1. pagination \in Seq(SUBSET Paths)
    BY ColdStartAssumption DEF IInv, TypeInvariant
  <2>2. QED BY <1>1, <1>2, <2>1 DEF IInv, TypeInvariant, Stages
<1>6. BuildIsCached' /\ WaitersAwaitABuild'
  BY <1>1, <1>2, <1>4 DEF IInv, TypeInvariant, BuildIsCached, WaitersAwaitABuild
<1>7. ValuesHaveASource'
  BY <1>1, <1>2, <1>3, ColdStartAssumption DEF ValuesHaveASource
<1>8. PagesCoverTheStore'
  <2>1. pages'[b] = pagination
    BY <1>1 DEF IInv, TypeInvariant
  <2>2. pagination # <<>> =>
           \A p \in Paths : \E k \in DOMAIN pagination : p \in pagination[k]
    BY ColdStartAssumption DEF IInv, TypeInvariant
  <2>3. Wanted' \subseteq Paths
    BY <1>2 DEF Wanted
  <2>4. QED BY <1>2, <1>4, <2>1, <2>2, <2>3 DEF PagesCoverTheStore, Imports
<1>9. FirstValueStays' /\ DemandsAreMet'
  BY <1>2, <1>3, <1>4 DEF FirstValueStays, DemandsAreMet, Imports, Passed
<1>10. QED BY <1>5, <1>6, <1>7, <1>8, <1>9 DEF IInv

-------------------------------------------------------------------------------
(* The build.                                                              *)

\* What a page brings: no variable is lost or changed, and none the page has a
\* value for is still absent.
LEMMA MergedEnvironment ==
    ASSUME IInv, NEW page \in SUBSET Paths,
           env' \in [Names -> Values \cup {Absent, NoValue}], Merged(page, env')
    PROVE  /\ env' \in Environments
           /\ \A n \in Names : env[n] # Absent => env'[n] = env[n]
           /\ \A p \in page : store[p] \in Values => env'[NameOf[p]] # Absent
           /\ \A n \in Names : env'[n] = env[n] \/ env'[n] \in Offers(page, n)
<1>1. \A n \in Names : env'[n] = env[n] \/ env'[n] \in Offers(page, n)
  BY DEF Merged
<1>2. \A n \in Names : Offers(page, n) \subseteq Values
  BY DEF Offers
<1>3. \A n \in Names : env'[n] \in Values \cup {Absent}
  BY <1>1, <1>2 DEF IInv, TypeInvariant, Environments
<1>4. env' \in Environments
  BY <1>3 DEF Environments
<1>5. \A n \in Names : env[n] # Absent => env'[n] = env[n]
  BY DEF Merged
<1>6. ASSUME NEW p \in page, store[p] \in Values PROVE env'[NameOf[p]] # Absent
  <2>1. NameOf[p] \in Names
    BY ColdStartAssumption
  <2>2. store[p] \in Offers(page, NameOf[p])
    BY <1>6 DEF Offers
  <2>3. env[NameOf[p]] # Absent \/ env'[NameOf[p]] \in Values
    BY <1>2, <2>1, <2>2 DEF Merged
  <2>4. QED BY <1>5, <2>1, <2>3, ColdStartAssumption
<1>7. QED BY <1>1, <1>4, <1>5, <1>6

LEMMA LoadPageKeepsIInv == ASSUME IInv, NEW b \in Builds, LoadPage(b) PROVE IInv'
<1> DEFINE page == Head(pages[b])
           rest == Tail(pages[b])
<1>1. /\ stage[b] = "loading"
      /\ pages' = [pages EXCEPT ![b] = rest]
      /\ stage' = [stage EXCEPT ![b] = IF LastPage(b) THEN "importing" ELSE @]
      /\ UNCHANGED <<store, given, pagination, pc, awaits, bootstrapping, seen, steady>>
  BY DEF LoadPage, storeVars, callVars
<1>2. pages[b] \in Seq(SUBSET Paths) /\ pages[b] # <<>>
  BY <1>1 DEF IInv, TypeInvariant, PagesCoverTheStore
<1>3. /\ page \in SUBSET Paths /\ rest \in Seq(SUBSET Paths)
      /\ Len(rest) = Len(pages[b]) - 1
  BY <1>2
<1>4. /\ env' \in Environments
      /\ \A n \in Names : env[n] # Absent => env'[n] = env[n]
      /\ \A p \in page : store[p] \in Values => env'[NameOf[p]] # Absent
      /\ \A n \in Names : env'[n] = env[n] \/ env'[n] \in Offers(page, n)
  BY <1>3, MergedEnvironment DEF LoadPage
<1>5. /\ b = bootstrapping /\ \A a \in Builds \ {b} : stage'[a] = "none"
      /\ stage'[b] = IF LastPage(b) THEN "importing" ELSE "loading"
  BY <1>1, CachedBuildIsTheOne DEF IInv, TypeInvariant
<1>6. TypeInvariant'
  <2> HIDE DEF page, rest
  <2> QED BY <1>1, <1>3, <1>4 DEF IInv, TypeInvariant, Stages
<1>7. BuildIsCached' /\ WaitersAwaitABuild'
  BY <1>1, <1>5 DEF IInv, BuildIsCached, WaitersAwaitABuild
<1>8. ValuesHaveASource'
  <2>1. bootstrapping' # NoBuild
    BY <1>1, <1>5, ColdStartAssumption
  <2>2. ASSUME NEW n \in Names, env'[n] # Absent, given[n] = Absent
        PROVE  \E p \in Paths : NameOf[p] = n /\ (p \in steady => env'[n] = store[p])
    <3>1. CASE env'[n] = env[n]
      BY <3>1, <2>2 DEF IInv, ValuesHaveASource
    <3>2. CASE env'[n] \in Offers(page, n)
      <4>1. PICK p \in page : NameOf[p] = n /\ env'[n] = store[p]
        BY <3>2 DEF Offers
      <4>2. QED BY <4>1, <1>3
    <3>3. QED BY <3>1, <3>2, <1>4
  <2>3. QED BY <1>1, <2>1, <2>2 DEF ValuesHaveASource
<1>9. PagesCoverTheStore'
  <2>1. Wanted' = Wanted /\ Wanted \subseteq Paths
    BY <1>1 DEF Wanted, IInv, TypeInvariant
  <2>2. ASSUME NEW p \in Wanted, env'[NameOf[p]] = Absent
        PROVE  \E k \in DOMAIN rest : p \in rest[k]
    <3>1. NameOf[p] \in Names /\ store[p] \in Values
      BY <2>1, ColdStartAssumption DEF Wanted
    <3>2. env[NameOf[p]] = Absent /\ p \notin page
      BY <1>4, <2>2, <3>1
    <3>3. PICK k \in DOMAIN pages[b] : p \in pages[b][k]
      BY <1>1, <3>2 DEF IInv, PagesCoverTheStore
    <3>4. k # 1 /\ k \in 1 .. Len(pages[b])
      BY <1>2, <3>2, <3>3
    <3>5. k - 1 \in DOMAIN rest /\ rest[k - 1] = pages[b][k]
      BY <1>2, <3>4
    <3>6. QED BY <3>3, <3>5
  <2>3. stage'[b] = "loading" => rest # <<>>
    <3>1. LastPage(b) \/ Len(rest) # 0
      BY <1>2, <1>3 DEF LastPage
    <3>2. QED BY <1>5, <3>1
  <2>4. stage'[b] = "importing" => \A p \in Wanted : env'[NameOf[p]] # Absent
    <3>1. LastPage(b) => Len(rest) = 0
      BY <1>2, <1>3 DEF LastPage
    <3>2. DOMAIN rest = 1 .. Len(rest)
      BY <1>3
    <3> HIDE DEF rest
    <3>3. ASSUME LastPage(b) PROVE DOMAIN rest = {}
      <4>1. DOMAIN rest = 1 .. 0
        BY <3>1, <3>2, <3>3
      <4>2. QED BY <4>1, SMT
    <3>4. QED BY <1>5, <2>2, <3>3
  <2>5. pages'[b] = rest
    BY <1>1 DEF IInv, TypeInvariant
  <2> HIDE DEF rest
  <2>6. QED BY <1>5, <2>1, <2>2, <2>3, <2>4, <2>5 DEF PagesCoverTheStore, Imports
<1>10. FirstValueStays'
  <2>1. \A n \in Names : given[n] # Absent => env'[n] = given[n]
    BY <1>4 DEF IInv, FirstValueStays
  <2>2. \A a \in Builds : ~Imports(a)'
    BY <1>5 DEF Imports
  <2>3. QED BY <1>1, <2>1, <2>2 DEF FirstValueStays
<1>11. DemandsAreMet'
  BY <1>5 DEF DemandsAreMet, Passed
<1>12. QED BY <1>6, <1>7, <1>8, <1>9, <1>10, <1>11 DEF IInv

\* A build that is rejected is cached still, and has nothing to show.
LEMMA RejectionKeepsIInv ==
    ASSUME IInv, NEW b \in Builds, LoadFails(b) \/ Throw(b) PROVE IInv'
<1>1. /\ stage[b] # "none" /\ stage' = [stage EXCEPT ![b] = "rejected"]
      /\ UNCHANGED <<store, given, pagination, pc, awaits, env, bootstrapping, pages,
                     seen, steady>>
  BY DEF LoadFails, Throw, storeVars, callVars, Stages
<1>2. /\ b = bootstrapping /\ stage'[b] = "rejected"
      /\ \A a \in Builds \ {b} : stage'[a] = "none"
  BY <1>1, CachedBuildIsTheOne DEF IInv, TypeInvariant
<1>3. TypeInvariant'
  BY <1>1 DEF IInv, TypeInvariant
<1>4. BuildIsCached' /\ WaitersAwaitABuild' /\ ValuesHaveASource'
  BY <1>1, <1>2 DEF IInv, BuildIsCached, WaitersAwaitABuild, ValuesHaveASource
<1>5. PagesCoverTheStore' /\ FirstValueStays'
  BY <1>1, <1>2 DEF IInv, PagesCoverTheStore, FirstValueStays, Imports
<1>6. DemandsAreMet'
  BY <1>2 DEF DemandsAreMet, Passed
<1>7. QED BY <1>3, <1>4, <1>5, <1>6 DEF IInv

\* A stage that has its variables is passed; the import takes what is there.
LEMMA AdvanceKeepsIInv == ASSUME IInv, NEW b \in Builds, Advance(b) PROVE IInv'
<1>1. /\ stage[b] \in Stages /\ stage[b] # "none"
      /\ \A n \in Demands[stage[b]] : env[n] # Absent
      /\ stage' = [stage EXCEPT ![b] = After[stage[b]]]
      /\ seen' = IF stage[b] = "importing" THEN [seen EXCEPT ![b] = env] ELSE seen
      /\ UNCHANGED <<store, given, pagination, pc, awaits, env, bootstrapping, pages,
                     steady>>
  BY DEF Advance, Missing, Imported, storeVars, callVars, Stages
<1>2. /\ b = bootstrapping /\ stage'[b] = After[stage[b]]
      /\ \A a \in Builds \ {b} : stage[a] = "none" /\ stage'[a] = "none"
  BY <1>1, CachedBuildIsTheOne DEF IInv, TypeInvariant
<1>3. /\ stage'[b] \in {"creating", "configuring", "initialising", "ready"}
      /\ stage[b] = "importing" \/ Imports(b)
  BY <1>1, <1>2 DEF Stages, After, Imports
<1>4. TypeInvariant'
  <2>1. seen' \in [Builds -> Environments]
    BY <1>1 DEF IInv, TypeInvariant
  <2>2. stage' \in [Builds -> Stages \cup {"none", "loading", "ready", "rejected"}]
    BY <1>1, <1>2, <1>3 DEF IInv, TypeInvariant, Stages
  <2>3. QED BY <1>1, <2>1, <2>2 DEF IInv, TypeInvariant
<1>5. BuildIsCached' /\ WaitersAwaitABuild' /\ ValuesHaveASource'
  BY <1>1, <1>2 DEF IInv, BuildIsCached, WaitersAwaitABuild, ValuesHaveASource
<1>6. PagesCoverTheStore'
  BY <1>1, <1>2, <1>3 DEF IInv, PagesCoverTheStore, Wanted, Imports
<1>7. FirstValueStays'
  <2>1. seen'[b] = env
    BY <1>1, <1>3 DEF IInv, TypeInvariant, FirstValueStays
  <2>2. QED BY <1>1, <1>2, <2>1 DEF IInv, FirstValueStays, Imports
<1>8. DemandsAreMet'
  <2>1. Passed(b)' \subseteq Passed(b) \cup {stage[b]}
    BY <1>1, <1>2 DEF Passed, Stages, After
  <2>2. \A a \in Builds \ {b} : Passed(a)' = {}
    BY <1>2 DEF Passed
  <2>3. QED BY <1>1, <2>1, <2>2 DEF IInv, DemandsAreMet
<1>9. QED BY <1>4, <1>5, <1>6, <1>7, <1>8 DEF IInv

-------------------------------------------------------------------------------
(* The surroundings.                                                       *)

\* An edited parameter is steady no more: nothing is claimed of it.
LEMMA PutParameterKeepsIInv ==
    ASSUME IInv, NEW q \in Paths, PutParameter(q) PROVE IInv'
<1>1. PICK w \in Values \cup {Absent, NoValue} : store' = [store EXCEPT ![q] = w]
  BY DEF PutParameter
<1>2. /\ steady' = steady \ {q}
      /\ UNCHANGED <<given, pagination, env, bootstrapping, stage, pages, seen, pc, awaits>>
  BY DEF PutParameter, buildVars, callVars
<1>3. steady' \subseteq Paths /\ \A p \in steady' : store'[p] = store[p]
  BY <1>1, <1>2 DEF IInv, TypeInvariant
<1>4. TypeInvariant'
  BY <1>1, <1>2 DEF IInv, TypeInvariant
<1>5. BuildIsCached' /\ WaitersAwaitABuild' /\ FirstValueStays'
  BY <1>2 DEF IInv, BuildIsCached, WaitersAwaitABuild, FirstValueStays, Imports
<1>6. ValuesHaveASource'
  BY <1>2, <1>3 DEF IInv, ValuesHaveASource
<1>7. PagesCoverTheStore'
  <2>1. Wanted' \subseteq Wanted
    BY <1>2, <1>3 DEF Wanted
  <2>2. QED BY <1>2, <2>1 DEF IInv, PagesCoverTheStore, Imports
<1>8. DemandsAreMet'
  BY <1>2 DEF IInv, DemandsAreMet, Passed
<1>9. QED BY <1>4, <1>5, <1>6, <1>7, <1>8 DEF IInv

LEMMA RecycleKeepsIInv == ASSUME IInv, Recycle PROVE IInv'
<1>1. /\ env' = given /\ bootstrapping' = NoBuild
      /\ stage' = NotBuilt /\ pages' = NoPages /\ seen' = Nothing
      /\ pc' = [i \in Invocations |-> IF pc[i] = "waiting" THEN "failed" ELSE pc[i]]
      /\ awaits' = NotWaiting
      /\ UNCHANGED <<store, given, pagination, steady>>
  BY DEF Recycle, storeVars
<1>2. TypeInvariant'
  <2>1. given \in Environments /\ [n \in Names |-> Absent] \in Environments
    BY ColdStartAssumption DEF IInv, TypeInvariant, Environments
  <2>2. <<>> \in Seq(SUBSET Paths)
    OBVIOUS
  <2>3. pc' \in [Invocations -> {"idle", "waiting", "served", "failed"}]
    BY <1>1 DEF IInv, TypeInvariant
  <2>4. QED BY <1>1, <2>1, <2>2, <2>3 DEF IInv, TypeInvariant, NotBuilt, NoPages,
            Nothing, NotWaiting, Stages
<1>3. \A b \in Builds : stage'[b] = "none"
  BY <1>1 DEF NotBuilt
<1>4. BuildIsCached' /\ WaitersAwaitABuild'
  BY <1>1, <1>3 DEF IInv, TypeInvariant, BuildIsCached, WaitersAwaitABuild
<1>5. ValuesHaveASource'
  BY <1>1 DEF ValuesHaveASource
<1>6. PagesCoverTheStore' /\ FirstValueStays' /\ DemandsAreMet'
  BY <1>1, <1>3 DEF PagesCoverTheStore, FirstValueStays, DemandsAreMet, Imports, Passed
<1>7. QED BY <1>2, <1>4, <1>5, <1>6 DEF IInv

LEMMA NextIInv == ASSUME IInv, [Next]_vars PROVE IInv'
<1>1. ASSUME NEW i \in Invocations, Invoke(i) \/ Resume(i) PROVE IInv'
  BY <1>1, JoinKeepsIInv, BeginKeepsIInv, ResumeKeepsIInv DEF Invoke
<1>2. ASSUME NEW b \in Builds, BuildStep(b) PROVE IInv'
  BY <1>2, LoadPageKeepsIInv, RejectionKeepsIInv, AdvanceKeepsIInv DEF BuildStep
<1>3. ASSUME NEW p \in Paths, PutParameter(p) PROVE IInv'
  BY <1>3, PutParameterKeepsIInv
<1>4. CASE Recycle
  BY <1>4, RecycleKeepsIInv
<1>5. CASE UNCHANGED vars
  <2>1. UNCHANGED <<storeVars, buildVars, steady>> /\ pc' = pc /\ awaits' = awaits
    BY <1>5 DEF vars, callVars
  <2>2. WaitersAwaitABuild'
    BY <2>1 DEF IInv, WaitersAwaitABuild
  <2>3. QED BY <2>1, <2>2, CallsKeepIInv DEF IInv, TypeInvariant
<1>6. QED BY <1>1, <1>2, <1>3, <1>4, <1>5 DEF Next

\* The inductive invariant holds in every reachable state.
THEOREM ColdStartInvariant == Spec => []IInv
BY InitIInv, NextIInv, PTL DEF Spec

(***************************************************************************)
(* The environment, the builds, the invocations and the history keep their *)
(* types; in particular process.env only ever holds values.                *)
(***************************************************************************)
THEOREM ColdStartTypes == Spec => []TypeInvariant
<1>1. IInv => TypeInvariant
  BY DEF IInv
<1>2. QED BY <1>1, ColdStartInvariant, PTL

(***************************************************************************)
(* However invocations arrive, and although a rejected promise stays       *)
(* cached, an environment begins one build.                                *)
(***************************************************************************)
THEOREM ColdStartBuildsOnce == Spec => []OneBuild
<1>1. IInv => OneBuild
  BY DEF IInv, BuildIsCached, OneBuild
<1>2. QED BY <1>1, ColdStartInvariant, PTL

(***************************************************************************)
(* What the modules read as they are imported includes every parameter     *)
(* that has not been edited since the build began, on whichever page.      *)
(***************************************************************************)
THEOREM ColdStartImportSeesTheStore == Spec => []ImportSeesTheStore
<1>1. ASSUME IInv PROVE ImportSeesTheStore
  <2>1. SUFFICES ASSUME NEW b \in Builds, pagination # <<>>, Imports(b),
                        NEW p \in steady, store[p] \in Values
                 PROVE  /\ env[NameOf[p]] # Absent
                        /\ \/ env[NameOf[p]] = store[p]
                           \/ given[NameOf[p]] # Absent
                           \/ \E q \in Paths \ {p} : NameOf[q] = NameOf[p]
    BY <1>1 DEF ImportSeesTheStore, IInv, FirstValueStays
  <2>2. p \in Paths /\ NameOf[p] \in Names
    BY <1>1, ColdStartAssumption DEF IInv, TypeInvariant
  <2>3. env[NameOf[p]] # Absent
    BY <1>1, <2>1 DEF IInv, PagesCoverTheStore, Wanted
  <2>4. CASE given[NameOf[p]] = Absent
    <3>1. PICK q \in Paths :
             NameOf[q] = NameOf[p] /\ (q \in steady => env[NameOf[p]] = store[q])
      BY <1>1, <2>2, <2>3, <2>4 DEF IInv, ValuesHaveASource
    <3>2. QED BY <2>3, <3>1
  <2>5. QED BY <2>3, <2>4
<1>2. QED BY <1>1, ColdStartInvariant, PTL

(***************************************************************************)
(* What is in process.env wins over the store, and the modules go on       *)
(* seeing what they saw at import.                                         *)
(***************************************************************************)
THEOREM ColdStartFirstValueStays == Spec => []FirstValueStays
<1>1. IInv => FirstValueStays
  BY DEF IInv
<1>2. QED BY <1>1, ColdStartInvariant, PTL

(***************************************************************************)
(* Whoever is served finds every variable set on which a stage of the      *)
(* build insists, also when some pages of the store never came.            *)
(***************************************************************************)
THEOREM ColdStartServesWhenConfigured == Spec => ServedWhenConfigured
<1>1. ASSUME IInv, [Next]_vars,
             NEW i \in Invocations, pc[i] # "served", pc'[i] = "served"
      PROVE  \A s \in Stages : \A n \in Demands[s] : env[n] # Absent
  <2>1. Resume(i)
    <3>1. CASE \E j \in Invocations : Invoke(j)
      BY <1>1, <3>1 DEF Invoke, IInv, TypeInvariant
    <3>2. CASE \E j \in Invocations : Resume(j)
      BY <1>1, <3>2 DEF Resume, IInv, TypeInvariant
    <3>3. CASE \E b \in Builds : BuildStep(b)
      BY <1>1, <3>3 DEF BuildStep, LoadPage, LoadFails, Advance, Throw, callVars
    <3>4. CASE \E p \in Paths : PutParameter(p)
      BY <1>1, <3>4 DEF PutParameter, callVars
    <3>5. CASE Recycle
      BY <1>1, <3>5 DEF Recycle
    <3>6. CASE UNCHANGED vars
      BY <1>1, <3>6 DEF vars, callVars
    <3>7. QED BY <1>1, <3>1, <3>2, <3>3, <3>4, <3>5, <3>6 DEF Next
  <2>2. awaits[i] \in Builds /\ stage[awaits[i]] = "ready"
    BY <1>1, <2>1 DEF Resume, IInv, TypeInvariant, WaitersAwaitABuild
  <2>3. Passed(awaits[i]) = Stages
    BY <2>2 DEF Passed
  <2>4. QED BY <1>1, <2>2, <2>3 DEF IInv, DemandsAreMet
<1>2. IInv /\ [Next]_vars
        => [\A i \in Invocations : pc[i] # "served" /\ pc'[i] = "served" =>
               \A s \in Stages : \A n \in Demands[s] : env[n] # Absent]_vars
  BY <1>1
<1>3. QED BY <1>2, ColdStartInvariant, PTL DEF Spec, ServedWhenConfigured
===============================================================================
