-------------------------------- MODULE ColdStart --------------------------------
(***************************************************************************)
(* The start of one Lambda execution environment (src/lambda.ts): the      *)
(* first invocation begins to build the application, the others wait for   *)
(* the same promise.  A build reads the pages of Parameter Store into      *)
(* process.env (src/config/parameter-store.ts), imports the application,   *)
(* whose modules read process.env as they are evaluated, constructs its    *)
(* providers, registers the plugins (src/bootstrap.ts) and runs the hooks. *)
(*                                                                         *)
(* Parameter Store, the platform that recycles environments, and whoever   *)
(* edits parameters are external.                                          *)
(***************************************************************************)
EXTENDS Sequences

CONSTANTS Invocations,
          Builds,       \* calls of build() in one environment
          Paths,        \* names in Parameter Store, with their prefix
          Names,        \* variables
          NameOf,       \* the last segment of each path
          Values,
          Paginations,  \* the ways Parameter Store may cut Paths into pages;
                        \* <<>> where CONFIG_PARAMETER_PREFIX is not set
          Givens,       \* what may be set on the function itself
          Demands,      \* the variables without which a stage throws
          Absent, NoValue, NoBuild

Stages == {"importing", "creating", "configuring", "initialising"}

After == [importing |-> "creating", creating |-> "configuring",
          configuring |-> "initialising", initialising |-> "ready"]

ASSUME ColdStartAssumption ==
    /\ NameOf \in [Paths -> Names]
    /\ Demands \in [Stages -> SUBSET Names]
    /\ Paginations \subseteq Seq(SUBSET Paths)
    /\ \A pages \in Paginations : pages # <<>> =>
          \A p \in Paths : \E k \in DOMAIN pages : p \in pages[k]
    /\ Givens \subseteq [Names -> Values \cup {Absent}]
    /\ {Absent, NoValue} \cap Values = {} /\ Absent # NoValue
    /\ NoBuild \notin Builds

VARIABLES store,          \* the parameters; NoValue for one without a value
          given,          \* variables set on the function itself
          env,            \* process.env
          pagination,     \* how Parameter Store answers this environment
          bootstrapping,  \* the promise cached at module scope
          stage,          \* where each build is
          pages,          \* the pages a build has still to ask for
          pc, awaits      \* where each invocation is, and the promise it awaits

\* History, read by no action.
VARIABLES seen,    \* process.env as the imported modules of a build saw it
          steady   \* parameters nobody has edited since the last build began

storeVars == <<store, given, pagination>>
buildVars == <<env, bootstrapping, stage, pages, seen>>
callVars == <<pc, awaits>>
vars == <<storeVars, buildVars, callVars, steady>>

Environments == [Names -> Values \cup {Absent}]

TypeInvariant ==
    /\ store \in [Paths -> Values \cup {Absent, NoValue}]
    /\ given \in Givens /\ env \in Environments
    /\ pagination \in Paginations
    /\ bootstrapping \in Builds \cup {NoBuild}
    /\ stage \in [Builds -> Stages \cup {"none", "loading", "ready", "rejected"}]
    /\ pages \in [Builds -> Seq(SUBSET Paths)]
    /\ pc \in [Invocations -> {"idle", "waiting", "served", "failed"}]
    /\ awaits \in [Invocations -> Builds \cup {NoBuild}]
    /\ seen \in [Builds -> Environments]
    /\ steady \subseteq Paths

NotBuilt == [b \in Builds |-> "none"]
NoPages == [b \in Builds |-> <<>>]
Nothing == [b \in Builds |-> [n \in Names |-> Absent]]
NotWaiting == [i \in Invocations |-> NoBuild]

Init ==
    /\ store \in [Paths -> Values \cup {Absent, NoValue}]
    /\ given \in Givens
    /\ pagination \in Paginations
    /\ env = given
    /\ bootstrapping = NoBuild
    /\ stage = NotBuilt /\ pages = NoPages /\ seen = Nothing
    /\ pc = [i \in Invocations |-> "idle"]
    /\ awaits = NotWaiting
    /\ steady = Paths

-------------------------------------------------------------------------------
(* handler.                                                                *)

\* Mutant: what is cached is the handler, once there is one.
Cached_Resolved ==
    IF bootstrapping # NoBuild /\ stage[bootstrapping] = "ready"
    THEN bootstrapping ELSE NoBuild

\* bootstrapping ??= build()
Cached == bootstrapping

Join(i) ==
    /\ Cached # NoBuild
    /\ awaits' = [awaits EXCEPT ![i] = Cached]
    /\ UNCHANGED <<buildVars, steady>>

Begin(i) ==
    /\ Cached = NoBuild
    /\ \E b \in Builds : stage[b] = "none"
    /\ LET b == CHOOSE b \in Builds : stage[b] = "none" IN
          /\ bootstrapping' = b
          /\ stage' = [stage EXCEPT ![b] = IF pagination = <<>> THEN "importing"
                                                                ELSE "loading"]
          /\ pages' = [pages EXCEPT ![b] = pagination]
          /\ awaits' = [awaits EXCEPT ![i] = b]
    /\ steady' = Paths
    /\ UNCHANGED <<env, seen>>

Invoke(i) ==
    /\ pc[i] # "waiting"
    /\ pc' = [pc EXCEPT ![i] = "waiting"]
    /\ Join(i) \/ Begin(i)
    /\ UNCHANGED storeVars

\* Mutant: an invocation does not look at how the build has ended.
Settled_Fulfilled(b) == stage[b] = "ready"

Settled(b) == stage[b] \in {"ready", "rejected"}

\* await bootstrapping: the handler runs, or the same error is thrown again.
Resume(i) ==
    /\ pc[i] = "waiting"
    /\ Settled(awaits[i])
    /\ pc' = [pc EXCEPT ![i] =
                 IF stage[awaits[i]] = "ready" THEN "served" ELSE "failed"]
    /\ UNCHANGED <<storeVars, buildVars, awaits, steady>>

-------------------------------------------------------------------------------
(* loadConfigFromParameterStore.                                           *)

\* The values a page offers for a variable; one without a value is skipped.
Offers(page, n) == {store[p] : p \in {q \in page : NameOf[q] = n}} \cap Values

\* Mutant: the store wins.
Merged_StoreWins(page, e) ==
    \A n \in Names :
        IF Offers(page, n) = {} THEN e[n] = env[n] ELSE e[n] \in Offers(page, n)

\* What is there already wins; of two paths to one name the first does.
Merged(page, e) ==
    \A n \in Names :
        IF env[n] # Absent \/ Offers(page, n) = {}
        THEN e[n] = env[n] ELSE e[n] \in Offers(page, n)

\* Mutant: a page without parameters is taken for the last.
LastPage_Empty(b) == Len(pages[b]) = 1 \/ Head(pages[b]) = {}

\* while (nextToken)
LastPage(b) == Len(pages[b]) = 1

LoadPage(b) ==
    /\ stage[b] = "loading"
    /\ env' \in [Names -> Values \cup {Absent, NoValue}]
    /\ Merged(Head(pages[b]), env')
    /\ pages' = [pages EXCEPT ![b] = Tail(@)]
    /\ stage' = [stage EXCEPT ![b] = IF LastPage(b) THEN "importing" ELSE @]
    /\ UNCHANGED <<storeVars, callVars, bootstrapping, seen, steady>>

\* A call rejects; what the earlier pages brought stays in process.env.
LoadFails(b) ==
    /\ stage[b] = "loading"
    /\ stage' = [stage EXCEPT ![b] = "rejected"]
    /\ UNCHANGED <<storeVars, callVars, env, bootstrapping, pages, seen, steady>>

-------------------------------------------------------------------------------
(* The rest of build.                                                      *)

\* Mutant: app.module is imported statically, when lambda.ts is loaded.
Imported_Static(b) == given

\* await import('./app.module.js'), after the parameters.
Imported(b) == env

\* Mutant: configureApp does not insist on COOKIE_SECRET.
Missing_Lenient(s) == {n \in Demands[s] : s # "configuring" /\ env[n] = Absent}

Missing(s) == {n \in Demands[s] : env[n] = Absent}

Advance(b) ==
    /\ stage[b] \in Stages
    /\ Missing(stage[b]) = {}
    /\ stage' = [stage EXCEPT ![b] = After[@]]
    /\ seen' = IF stage[b] = "importing" THEN [seen EXCEPT ![b] = Imported(b)] ELSE seen
    /\ UNCHANGED <<storeVars, callVars, env, bootstrapping, pages, steady>>

Throw(b) ==
    /\ stage[b] \in Stages
    /\ Missing(stage[b]) # {}
    /\ stage' = [stage EXCEPT ![b] = "rejected"]
    /\ UNCHANGED <<storeVars, callVars, env, bootstrapping, pages, seen, steady>>

BuildStep(b) == LoadPage(b) \/ LoadFails(b) \/ Advance(b) \/ Throw(b)

-------------------------------------------------------------------------------
(* The surroundings.                                                       *)

\* Somebody writes, changes or deletes a parameter.  Bound: each of them once
\* in the life of an environment.
PutParameter(p) ==
    /\ p \in steady
    /\ \E v \in Values \cup {Absent, NoValue} : store' = [store EXCEPT ![p] = v]
    /\ steady' = steady \ {p}
    /\ UNCHANGED <<given, pagination, buildVars, callVars>>

\* The platform drops the environment, and the invocations in it.
Recycle ==
    /\ bootstrapping # NoBuild
    /\ env' = given
    /\ bootstrapping' = NoBuild
    /\ stage' = NotBuilt /\ pages' = NoPages /\ seen' = Nothing
    /\ pc' = [i \in Invocations |-> IF pc[i] = "waiting" THEN "failed" ELSE pc[i]]
    /\ awaits' = NotWaiting
    /\ UNCHANGED <<storeVars, steady>>

Next ==
    \/ \E i \in Invocations : Invoke(i) \/ Resume(i)
    \/ \E b \in Builds : BuildStep(b)
    \/ \E p \in Paths : PutParameter(p)
    \/ Recycle

Spec == Init /\ [][Next]_vars

\* Every await of the build and of the handler ends.
Fairness ==
    /\ \A b \in Builds : WF_vars(BuildStep(b))
    /\ \A i \in Invocations : WF_vars(Resume(i))

FairSpec == Spec /\ Fairness

-------------------------------------------------------------------------------
\* The application of build b has been imported.
Imports(b) == stage[b] \in {"creating", "configuring", "initialising", "ready"}

(***************************************************************************)
(* "Caching the promise means two invocations arriving before the first    *)
(* build finishes wait on that build rather than racing to start a second  *)
(* one" (lambda.ts 19-27): however invocations arrive, and whatever the    *)
(* build comes to, an environment builds once.                             *)
(***************************************************************************)
OneBuild == \A a, b \in Builds : "none" \notin {stage[a], stage[b]} => a = b

(***************************************************************************)
(* The application is imported after the last page (lambda.ts 33-47,       *)
(* parameter-store.ts 46-77): what its modules read as they are evaluated  *)
(* includes every parameter that has been in the store, unedited, since    *)
(* the build began; and where only one path leads to the variable and the  *)
(* function does not set it, that parameter's value.                       *)
(***************************************************************************)
ImportSeesTheStore ==
    \A b \in Builds :
        pagination # <<>> /\ Imports(b) =>
            \A p \in steady :
                store[p] \in Values =>
                    /\ seen[b][NameOf[p]] # Absent
                    /\ \/ seen[b][NameOf[p]] = store[p]
                       \/ given[NameOf[p]] # Absent
                       \/ \E q \in Paths \ {p} : NameOf[q] = NameOf[p]

(***************************************************************************)
(* "Anything already in the environment wins" (parameter-store.ts 59-65):  *)
(* neither the store nor the order of its pages replaces what is there,    *)
(* so that what the modules took at import is what later readers find.     *)
(***************************************************************************)
FirstValueStays ==
    /\ \A n \in Names : given[n] # Absent => env[n] = given[n]
    /\ \A b \in Builds : Imports(b) => seen[b] = env

(***************************************************************************)
(* No invocation is served by an application that lacks a variable one of  *)
(* its parts insists on (auth.module.ts 16-18, bootstrap.ts 57-61,         *)
(* database.service.ts 19-23), also when a build has loaded some pages     *)
(* only.                                                                   *)
(***************************************************************************)
ServedWhenConfigured ==
    [][\A i \in Invocations : pc[i] # "served" /\ pc'[i] = "served" =>
          \A s \in Stages : \A n \in Demands[s] : env[n] # Absent]_vars

(***************************************************************************)
(* An invocation ends, be it with the error its build has met              *)
(* (lambda.ts 94-99).                                                      *)
(***************************************************************************)
EveryInvocationEnds == \A i \in Invocations : pc[i] = "waiting" ~> pc[i] # "waiting"
===============================================================================
