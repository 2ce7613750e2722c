---------------------------- MODULE LlmProfiles ----------------------------
(***************************************************************************)
(* Providers, models and role routes of the language models, as requests   *)
(* of the owner change them (llm/profiles.py), and the agent run that       *)
(* freezes the versions of its routes and compares them before each call    *)
(* (agents/runtime.py, agents/worker.py).                                   *)
(*                                                                         *)
(* A request reads rows, and later commits the rows it changed.  Every row  *)
(* has a version: an UPDATE names the version that was read, and finding    *)
(* another one ends the request (StaleDataError).  Between the read and the *)
(* commit other requests commit.  The credential files are not part of any  *)
(* transaction.  A refused request changes nothing and is not a step.       *)
(* Endpoints, capabilities and parameters pass their checks or not, at      *)
(* random; prompts never change once validated and are left out.            *)
(***************************************************************************)
EXTENDS Naturals, FiniteSets

CONSTANTS
    Providers, Models, Routes,      \* identities of rows, existing or not
    Requests,                       \* HTTP requests in progress at once
    Roles,                          \* ASSIGNMENT_ROLES
    Mock,                           \* providers of the MOCK adapter
    Name,                           \* the name a provider is created with
    ProviderOf,                     \* the provider of each model
    Role, Primary, Fallback,        \* of each route; Fallback has one model or none
    MaxRequests                     \* bound on the requests of a behaviour

ASSUME ProfilesAssumption ==
    /\ Mock \subseteq Providers
    /\ DOMAIN Name = Providers
    /\ ProviderOf \in [Models -> Providers]
    /\ Role \in [Routes -> Roles]
    /\ Primary \in [Routes -> Models]
    /\ Fallback \in [Routes -> SUBSET Models]
    /\ MaxRequests \in Nat

VARIABLES
    provider, model, route,     \* the tables
    secret,                     \* providers whose credential file exists
    request,                    \* what each request has read and will write
    started,                    \* requests so far
    run,                        \* an agent run and the versions it froze
    assigned                    \* history: routes of the last activation that was committed

vars == <<provider, model, route, secret, request, started, run, assigned>>

\* version 0: there is no such row.  A write has the version that was read.
Provider == [state : {"NONE", "DRAFT", "VALIDATED", "DISABLED"}, deleted : BOOLEAN,
             template : BOOLEAN, ref : BOOLEAN, version : Nat]
Model == [state : {"NONE", "DRAFT", "VALIDATED", "DISABLED"}, upgraded : BOOLEAN, version : Nat]
Route == [state : {"NONE", "DRAFT", "VALIDATED", "ACTIVE", "SUPERSEDED"}, version : Nat]

Write(Row) == [was : Nat, row : Row]

Empty == [x \in {} |-> x]
PartialOf(f, D, R) == DOMAIN f \subseteq D /\ f \in [DOMAIN f -> R]
Written(table, writes) == [x \in DOMAIN table |-> IF x \in DOMAIN writes THEN writes[x].row ELSE table[x]]

Idle == [step |-> "IDLE", kind |-> "NONE", target |-> {}, providers |-> Empty, models |-> Empty,
         routes |-> Empty, locks |-> {}, scanned |-> {}]

NoRun == [routes |-> Empty, models |-> Empty, called |-> Empty]

TypeOK ==
    /\ provider \in [Providers -> Provider]
    /\ model \in [Models -> Model]
    /\ route \in [Routes -> Route]
    /\ secret \subseteq Providers
    /\ started \in 0..MaxRequests
    /\ assigned \subseteq Routes
    /\ PartialOf(run.routes, Routes, Nat)
    /\ PartialOf(run.models, Models, Model) /\ PartialOf(run.called, Models, Model)
    /\ \A q \in Requests :
        /\ request[q].step \in {"IDLE", "DISCOVER", "SELECT", "LOCK", "COMMIT"}
        /\ PartialOf(request[q].providers, Providers, Write(Provider))
        /\ PartialOf(request[q].models, Models, Write(Model))
        /\ PartialOf(request[q].routes, Routes, Write(Route))
        /\ request[q].locks \subseteq Routes

-----------------------------------------------------------------------------
(***************************************************************************)
(* What requests read.                                                     *)
(***************************************************************************)

get_provider(p) == provider[p].version > 0 /\ ~provider[p].deleted
get_model(m) == model[m].version > 0 /\ get_provider(ProviderOf[m])

\* preview_provider_registration, and the unique index on live names.
NameFree(p) == \A x \in Providers : get_provider(x) => Name[x] # Name[p]

ModelsOf(p) == {m \in Models : ProviderOf[m] = p /\ model[m].version > 0}
Uses(r) == {Primary[r]} \cup Fallback[r]

InActiveRoute(M) == \E r \in Routes : route[r].state = "ACTIVE" /\ Uses(r) \cap M # {}

CredentialSet(p) == p \in Mock \/ provider[p].ref

route_dependencies_available(r) ==
    \A m \in Uses(r) : /\ model[m].state = "VALIDATED"
                       /\ get_provider(ProviderOf[m])
                       /\ provider[ProviderOf[m]].state = "VALIDATED"

Assignments == {A \in SUBSET Routes : \A role \in Roles : Cardinality({r \in A : Role[r] = role}) = 1}

-----------------------------------------------------------------------------
(***************************************************************************)
(* Transactions.                                                           *)
(***************************************************************************)

Begin(q, r) ==
    /\ request[q].step = "IDLE"
    /\ started < MaxRequests
    /\ started' = started + 1
    /\ request' = [request EXCEPT ![q] = r]
    /\ UNCHANGED <<provider, model, route, run, assigned>>

Ready(kind) == [Idle EXCEPT !.step = "COMMIT", !.kind = kind]
WritesProvider(req, p, row) ==
    [req EXCEPT !.providers = [x \in {p} |-> [was |-> provider[x].version, row |-> row]]]
WritesModels(req, M, row(_)) ==
    [req EXCEPT !.models = [m \in M |-> [was |-> model[m].version, row |-> row(m)]]]
WritesRoutes(req, R, row(_)) ==
    [req EXCEPT !.routes = [r \in R |-> [was |-> route[r].version, row |-> row(r)]]]

Pending(q) == request[q].step # "IDLE"

\* Rows another transaction has locked with FOR UPDATE.
LockedByOther(q) == UNION {request[o].locks : o \in Requests \ {q}}

\* Names of rows another registration has inserted and not committed.
InsertedByOther(q) ==
    UNION {{Name[p] : p \in DOMAIN request[o].providers} :
           o \in {x \in Requests \ {q} : request[x].kind = "REGISTER"}}

\* Mutant: UPDATE does not name the version that was read.
Fresh_unchecked(q) == request[q].step = "COMMIT"

\* Every row that is written has the version that was read.
Fresh(q) ==
    /\ \A p \in DOMAIN request[q].providers : request[q].providers[p].was = provider[p].version
    /\ \A m \in DOMAIN request[q].models : request[q].models[m].was = model[m].version
    /\ \A r \in DOMAIN request[q].routes : request[q].routes[r].was = route[r].version

\* Mutant: there is no index on the ACTIVE route of a role.
uq_llm_role_routes_active_dropped(routes) == DOMAIN routes = Routes

uq_llm_role_routes_active(routes) ==
    \A r, s \in Routes : routes[r].state = "ACTIVE" /\ routes[s].state = "ACTIVE" /\ Role[r] = Role[s] => r = s

uq_llm_provider_profiles_owner_name_active(providers) ==
    \A p, x \in Providers : p # x /\ Name[p] = Name[x] /\ providers[p].version > 0 /\ providers[x].version > 0
                           => providers[p].deleted \/ providers[x].deleted

Accepted(q) ==
    /\ Fresh(q)
    /\ uq_llm_role_routes_active(Written(route, request[q].routes))
    /\ uq_llm_provider_profiles_owner_name_active(Written(provider, request[q].providers))

\* The write of locked rows, or of a name another transaction is inserting,
\* waits for that transaction to end.
CanWrite(q) ==
    /\ request[q].step = "COMMIT"
    /\ DOMAIN request[q].routes \cap LockedByOther(q) = {}
    /\ \A p \in DOMAIN request[q].providers : provider[p].version = 0 => Name[p] \notin InsertedByOther(q)

Commit(q) ==
    /\ CanWrite(q)
    /\ Accepted(q)
    /\ provider' = Written(provider, request[q].providers)
    /\ model' = Written(model, request[q].models)
    /\ route' = Written(route, request[q].routes)
    /\ assigned' = IF request[q].kind = "ACTIVATE" THEN request[q].target ELSE assigned
    /\ request' = [request EXCEPT ![q] = Idle]
    /\ UNCHANGED <<secret, started, run>>

\* StaleDataError or IntegrityError.
Rollback(q) ==
    /\ CanWrite(q)
    /\ ~Accepted(q)
    /\ request' = [request EXCEPT ![q] = Idle]
    /\ UNCHANGED <<provider, model, route, secret, started, run, assigned>>

\* The database fails the commit: only a registration removes its credential file.
CommitFails(q) ==
    /\ request[q].step = "COMMIT"
    /\ request' = [request EXCEPT ![q] = Idle]
    /\ secret' = IF request[q].kind = "REGISTER" THEN secret \ request[q].target ELSE secret
    /\ UNCHANGED <<provider, model, route, started, run, assigned>>

\* The process dies, or the provider does not answer; files stay as they are.
Crash(q) ==
    /\ Pending(q)
    /\ request' = [request EXCEPT ![q] = Idle]
    /\ UNCHANGED <<provider, model, route, secret, started, run, assigned>>

-----------------------------------------------------------------------------
(***************************************************************************)
(* Providers.                                                              *)
(***************************************************************************)

NewProvider == [state |-> "DRAFT", deleted |-> FALSE, template |-> FALSE, ref |-> FALSE, version |-> 1]

Registered == [NewProvider EXCEPT !.state = "VALIDATED", !.template = TRUE, !.ref = TRUE]

\* uuid7: an identity no row and no other request has.
NewId(p) == provider[p].version = 0 /\ \A q \in Requests : p \notin request[q].target \cup DOMAIN request[q].providers

\* Nothing is read before the row is inserted.
create_provider(q, p) ==
    /\ NewId(p)
    /\ Begin(q, WritesProvider(Ready("CREATE"), p, NewProvider))
    /\ UNCHANGED secret

\* The name is looked up, that transaction ends, and the provider is asked for its models.
register_provider_with_discovery(q, p) ==
    /\ NewId(p)
    /\ p \notin Mock
    /\ NameFree(p)
    /\ Begin(q, [Idle EXCEPT !.step = "DISCOVER", !.kind = "REGISTER", !.target = {p}])
    /\ UNCHANGED secret

NewModel == [state |-> "DRAFT", upgraded |-> FALSE, version |-> 1]

\* Mutant: the version is not raised with the capabilities.
Upgraded_same_version(m) == [model[m] EXCEPT !.upgraded = TRUE]

Upgraded(m) == [model[m] EXCEPT !.upgraded = TRUE, !.version = @ + 1]

\* Models that are new are inserted, known ones may gain capabilities.
_add_discovered_models(p, found, more) ==
    /\ found \subseteq {m \in Models : ProviderOf[m] = p /\ model[m].version = 0}
    /\ more \subseteq {m \in ModelsOf(p) : ~model[m].upgraded}

Discovered(req, found, more) ==
    WritesModels(req, found \cup more, LAMBDA m : IF m \in more THEN Upgraded(m) ELSE NewModel)

\* The row is inserted under the unique index, then the file is written.
register_inserts(q, p, found) ==
    /\ request[q].step = "DISCOVER" /\ request[q].kind = "REGISTER" /\ request[q].target = {p}
    /\ NameFree(p)
    /\ Name[p] \notin InsertedByOther(q)
    /\ _add_discovered_models(p, found, {})
    /\ secret' = secret \cup {p}
    /\ request' = [request EXCEPT ![q] =
            Discovered(WritesProvider([@ EXCEPT !.step = "COMMIT"], p,
                                      Registered),
                       found, {})]
    /\ UNCHANGED <<provider, model, route, started, run, assigned>>

register_conflicts(q) ==
    /\ request[q].step = "DISCOVER" /\ request[q].kind = "REGISTER"
    /\ \A p \in request[q].target : ~NameFree(p)
    /\ request' = [request EXCEPT ![q] = Idle]
    /\ UNCHANGED <<provider, model, route, secret, started, run, assigned>>

\* The provider is read before its models are asked for over the network.
sync_provider_models(q, p) ==
    /\ get_provider(p)
    /\ provider[p].template /\ provider[p].ref
    /\ p \in secret
    /\ Begin(q, WritesProvider([Idle EXCEPT !.step = "DISCOVER", !.kind = "SYNC", !.target = {p}], p,
                               [provider[p] EXCEPT !.state = "VALIDATED", !.version = @ + 1]))
    /\ UNCHANGED secret

sync_discovers(q, p, found, more) ==
    /\ request[q].step = "DISCOVER" /\ request[q].kind = "SYNC" /\ request[q].target = {p}
    /\ _add_discovered_models(p, found, more)
    /\ request' = [request EXCEPT ![q] = Discovered([@ EXCEPT !.step = "COMMIT"], found, more)]
    /\ UNCHANGED <<provider, model, route, secret, started, run, assigned>>

\* The provider is VALIDATED whatever its health.
test_provider(q, p) ==
    /\ get_provider(p)
    /\ p \in Mock \/ (provider[p].ref /\ p \in secret)
    /\ Begin(q, WritesProvider(Ready("TEST"), p, [provider[p] EXCEPT !.state = "VALIDATED", !.version = @ + 1]))
    /\ UNCHANGED secret

\* The file is replaced before the row is committed.
set_provider_credential(q, p) ==
    /\ get_provider(p)
    /\ p \notin Mock
    /\ Begin(q, WritesProvider(Ready("CREDENTIAL"), p,
                               [provider[p] EXCEPT !.state = "DRAFT", !.ref = TRUE, !.version = @ + 1]))
    /\ secret' = secret \cup {p}

\* The file is removed before the rows are committed.
delete_provider(q, p) ==
    /\ get_provider(p)
    /\ ~InActiveRoute(ModelsOf(p))
    /\ LET unused == {r \in Routes : route[r].state \in {"DRAFT", "VALIDATED"} /\ Uses(r) \cap ModelsOf(p) # {}}
           disabled == WritesModels(Ready("DELETE"), ModelsOf(p),
                                    LAMBDA m : [model[m] EXCEPT !.state = "DISABLED", !.version = @ + 1])
           superseded == WritesRoutes(disabled, unused,
                                      LAMBDA r : [route[r] EXCEPT !.state = "SUPERSEDED", !.version = @ + 1])
       IN Begin(q, WritesProvider(superseded, p,
                                  [provider[p] EXCEPT !.state = "DISABLED", !.deleted = TRUE, !.ref = FALSE, !.version = @ + 1]))
    /\ secret' = IF provider[p].ref THEN secret \ {p} ELSE secret

-----------------------------------------------------------------------------
(***************************************************************************)
(* Models.                                                                 *)
(***************************************************************************)

create_model(q, m) ==
    /\ model[m].version = 0
    /\ get_provider(ProviderOf[m])
    /\ Begin(q, WritesModels(Ready("CREATE_MODEL"), {m}, LAMBDA x : NewModel))
    /\ UNCHANGED secret

validate_model(q, m) ==
    /\ get_model(m)
    /\ provider[ProviderOf[m]].state = "VALIDATED"
    /\ Begin(q, WritesModels(Ready("VALIDATE_MODEL"), {m},
                             LAMBDA x : [model[x] EXCEPT !.state = "VALIDATED", !.version = @ + 1]))
    /\ UNCHANGED secret

disable_model(q, m) ==
    /\ get_model(m)
    /\ ~InActiveRoute({m})
    /\ Begin(q, WritesModels(Ready("DISABLE_MODEL"), {m},
                             LAMBDA x : [model[x] EXCEPT !.state = "DISABLED", !.version = @ + 1]))
    /\ UNCHANGED secret

-----------------------------------------------------------------------------
(***************************************************************************)
(* Routes.                                                                 *)
(***************************************************************************)

create_route(q, r) ==
    /\ route[r].version = 0
    /\ \A o \in Requests : r \notin DOMAIN request[o].routes
    /\ \A m \in Uses(r) : get_model(m)
    /\ Begin(q, WritesRoutes(Ready("CREATE_ROUTE"), {r}, LAMBDA x : [state |-> "DRAFT", version |-> 1]))
    /\ UNCHANGED secret

validate_route(q, r) ==
    /\ route[r].state = "DRAFT"
    /\ route_dependencies_available(r)
    /\ \A m \in Uses(r) : CredentialSet(ProviderOf[m])
    /\ Begin(q, WritesRoutes(Ready("VALIDATE_ROUTE"), {r},
                             LAMBDA x : [route[x] EXCEPT !.state = "VALIDATED", !.version = @ + 1]))
    /\ UNCHANGED secret

_assignment_routes(A) ==
    /\ A \in Assignments
    /\ \A r \in A : route[r].state \in {"VALIDATED", "ACTIVE"} /\ route_dependencies_available(r)

\* The chosen routes are locked, their models and providers only read.
activate_assignments(q, A) ==
    /\ _assignment_routes(A)
    /\ A \cap LockedByOther(q) = {}
    /\ Begin(q, [Idle EXCEPT !.step = "SELECT", !.kind = "ACTIVATE", !.target = A, !.locks = A])
    /\ UNCHANGED secret

\* SELECT ... WHERE state = 'ACTIVE' FOR UPDATE: the rows the statement sees,
activate_selects(q) ==
    /\ request[q].step = "SELECT"
    /\ request' = [request EXCEPT ![q].step = "LOCK", ![q].scanned = {r \in Routes : route[r].state = "ACTIVE"}]
    /\ UNCHANGED <<provider, model, route, secret, started, run, assigned>>

\* and, after waiting for their locks, those that are still ACTIVE.
activate_locks(q) ==
    /\ request[q].step = "LOCK"
    /\ request[q].scanned \cap LockedByOther(q) = {}
    /\ LET A == request[q].target
           current == {r \in request[q].scanned : route[r].state = "ACTIVE"}
           changed == (current \ A) \cup {r \in A : route[r].state # "ACTIVE"}
       IN request' = [request EXCEPT ![q] =
            WritesRoutes([request[q] EXCEPT !.step = "COMMIT", !.locks = request[q].locks \cup current, !.scanned = {}], changed,
                         LAMBDA r : [route[r] EXCEPT !.state = IF r \in A THEN "ACTIVE" ELSE "SUPERSEDED",
                                                     !.version = @ + 1])]
    /\ UNCHANGED <<provider, model, route, secret, started, run, assigned>>

-----------------------------------------------------------------------------
(***************************************************************************)
(* The agent run.                                                          *)
(***************************************************************************)

\* A run is admitted with a route for every role, and freezes their versions.
_load_routes(A) ==
    /\ run = NoRun
    /\ _assignment_routes(A)
    /\ \A r \in A : \A m \in Uses(r) : CredentialSet(ProviderOf[m])
    /\ run' = [NoRun EXCEPT !.routes = [r \in A |-> route[r].version],
                            !.models = [m \in UNION {Uses(r) : r \in A} |-> model[m]]]
    /\ UNCHANGED <<provider, model, route, secret, request, started, assigned>>

\* A stage calls its model only if the frozen versions are those of the rows;
\* otherwise it fails.  The state of the primary model is not looked at.
_binding(r) ==
    /\ r \in DOMAIN run.routes
    /\ route[r].version = run.routes[r]
    /\ \A m \in Uses(r) : /\ model[m].version = run.models[m].version
                          /\ get_provider(ProviderOf[m])
                          /\ provider[ProviderOf[m]].state = "VALIDATED"
                          /\ CredentialSet(ProviderOf[m])
    /\ \A m \in Fallback[r] : model[m].state = "VALIDATED"
    /\ run' = [run EXCEPT !.called = [m \in Uses(r) |-> model[m]]]
    /\ UNCHANGED <<provider, model, route, secret, request, started, assigned>>

-----------------------------------------------------------------------------

\* Either nothing is configured, or a provider serves routes of which an
\* assignment may be in use.
Init ==
    /\ request = [q \in Requests |-> Idle]
    /\ started = 0
    /\ run = NoRun
    /\ \/ /\ provider = [p \in Providers |-> [NewProvider EXCEPT !.state = "NONE", !.version = 0]]
          /\ model = [m \in Models |-> [NewModel EXCEPT !.state = "NONE", !.version = 0]]
          /\ route = [r \in Routes |-> [state |-> "NONE", version |-> 0]]
          /\ secret = {}
          /\ assigned = {}
       \/ \E p \in Providers \ Mock, A \in Assignments \cup {{}} : \E drafts \in SUBSET (Routes \ A) :
          /\ provider = [x \in Providers |-> IF x = p THEN Registered
                                             ELSE [NewProvider EXCEPT !.state = "NONE", !.version = 0]]
          /\ model = [m \in Models |-> IF ProviderOf[m] = p THEN [state |-> "VALIDATED", upgraded |-> FALSE, version |-> 2]
                                       ELSE [NewModel EXCEPT !.state = "NONE", !.version = 0]]
          /\ \A r \in Routes : \A m \in Uses(r) : ProviderOf[m] = p
          /\ route = [r \in Routes |-> CASE r \in A -> [state |-> "ACTIVE", version |-> 3]
                                         [] r \in drafts -> [state |-> "DRAFT", version |-> 1]
                                         [] OTHER -> [state |-> "VALIDATED", version |-> 2]]
          /\ secret = {p}
          /\ assigned = A

RequestStep(q) ==
    \/ \E p \in Providers : create_provider(q, p)
    \/ \E p \in Providers : register_provider_with_discovery(q, p)
    \/ \E p \in Providers : \E found \in SUBSET Models : register_inserts(q, p, found)
    \/ register_conflicts(q)
    \/ \E p \in Providers : sync_provider_models(q, p)
    \/ \E p \in Providers : \E found, more \in SUBSET Models : sync_discovers(q, p, found, more)
    \/ \E p \in Providers : test_provider(q, p)
    \/ \E p \in Providers : set_provider_credential(q, p)
    \/ \E p \in Providers : delete_provider(q, p)
    \/ \E m \in Models : create_model(q, m)
    \/ \E m \in Models : validate_model(q, m)
    \/ \E m \in Models : disable_model(q, m)
    \/ \E r \in Routes : create_route(q, r)
    \/ \E r \in Routes : validate_route(q, r)
    \/ \E A \in SUBSET Routes : activate_assignments(q, A)
    \/ activate_selects(q)
    \/ activate_locks(q)
    \/ Commit(q)
    \/ Rollback(q)
    \/ CommitFails(q)
    \/ Crash(q)

Next ==
    \/ \E q \in Requests : RequestStep(q)
    \/ \E A \in SUBSET Routes : _load_routes(A)
    \/ \E r \in Routes : _binding(r)

Spec == Init /\ [][Next]_vars

-----------------------------------------------------------------------------
(***************************************************************************)
(* Properties.                                                             *)
(***************************************************************************)

\* The ACTIVE routes are those of one assignment, the last that was
\* activated, and never a mixture of two: activate_assignments replaces the
\* routes of all roles at once, and of two activations that overlap one
\* waits for the other or is undone by the index on ACTIVE routes (LLM-077).
OneAssignment == {r \in Routes : route[r].state = "ACTIVE"} = assigned

\* A superseded route stays superseded and a deleted provider stays deleted:
\* no validation, test, synchronisation or activation that read the row
\* before brings it back when it commits (LLM-017, LLM-PROVIDER-107).
RetiredStaysRetired ==
    [][/\ \A r \in Routes : route[r].state = "SUPERSEDED" => route'[r].state = "SUPERSEDED"
       /\ \A p \in Providers : provider[p].deleted => provider'[p].deleted /\ provider'[p].state = "DISABLED"]_vars

\* What a stage of a run calls is what the run was admitted with: validated,
\* and with the capabilities it had.  _binding compares versions only, so
\* every operation that changes a model has to raise its version (MAO-105).
CallsWhatWasFrozen ==
    \A m \in DOMAIN run.called :
        /\ run.called[m].state = "VALIDATED"
        /\ run.called[m].upgraded = run.models[m].upgraded
=============================================================================
