------------------------- MODULE LlmProfilesProofs -------------------------
(***************************************************************************)
(* Type correctness of the LLM profiles, that the ACTIVE routes are those  *)
(* of one assignment, that what is retired stays retired, and that a run   *)
(* calls what it froze: for any number of rows, requests and roles.        *)
(***************************************************************************)
EXTENDS LlmProfiles, FiniteSetTheorems, TLAPS

-----------------------------------------------------------------------------
(***************************************************************************)
(* Types.  TypeOK says what the fields of a request are; a proof also needs *)
(* that a request is a record with these fields.                           *)
(***************************************************************************)

PartialSet(D, R) == UNION {[S -> R] : S \in SUBSET D}

Kinds == {"NONE", "CREATE", "REGISTER", "SYNC", "TEST", "CREDENTIAL", "DELETE", "CREATE_MODEL",
          "VALIDATE_MODEL", "DISABLE_MODEL", "CREATE_ROUTE", "VALIDATE_ROUTE", "ACTIVATE"}

ProviderWrites == PartialSet(Providers, Write(Provider))
ModelWrites == PartialSet(Models, Write(Model))
RouteWrites == PartialSet(Routes, Write(Route))

Request == [step : {"IDLE", "DISCOVER", "SELECT", "LOCK", "COMMIT"}, kind : Kinds,
            target : SUBSET (Providers \cup Routes),
            providers : ProviderWrites, models : ModelWrites, routes : RouteWrites,
            locks : SUBSET Routes, scanned : SUBSET Routes]

Run == [routes : PartialSet(Routes, Nat), models : PartialSet(Models, Model),
        called : PartialSet(Models, Model)]

LlmType ==
    /\ provider \in [Providers -> Provider]
    /\ model \in [Models -> Model]
    /\ route \in [Routes -> Route]
    /\ secret \subseteq Providers
    /\ started \in 0..MaxRequests
    /\ assigned \subseteq Routes
    /\ run \in Run
    /\ request \in [Requests -> Request]

-----------------------------------------------------------------------------
(***************************************************************************)
(* The inductive invariant.  A write whose version is still that of the    *)
(* row was decided on the row as it is.                                    *)
(***************************************************************************)

\* No write of a provider that is current was decided on a deleted one.
SoundProviders(rq) ==
    \A p \in DOMAIN rq.providers :
        /\ rq.providers[p].was <= provider[p].version
        /\ rq.providers[p].was = provider[p].version => ~provider[p].deleted
        /\ rq.providers[p].row.version = rq.providers[p].was + 1
        /\ rq.providers[p].row.deleted => rq.providers[p].row.state = "DISABLED"

\* Every write of a model raises its version.
SoundModels(rq) ==
    \A m \in DOMAIN rq.models : rq.models[m].row.version = rq.models[m].was + 1

\* No write of a route that is current was decided on a superseded one, and
\* only an activation writes an ACTIVE route or makes one.
SoundRoutes(rq) ==
    \A r \in DOMAIN rq.routes :
        /\ rq.routes[r].was <= route[r].version
        /\ rq.routes[r].was = route[r].version =>
               /\ route[r].state # "SUPERSEDED"
               /\ rq.kind # "ACTIVATE" => route[r].state # "ACTIVE"
        /\ rq.routes[r].row.version = rq.routes[r].was + 1
        /\ rq.kind # "ACTIVATE" => rq.routes[r].row.state # "ACTIVE"

\* An activation has locked the routes it chose, and they are as it read them;
\* when it commits, each is ACTIVE or written so.
SoundActivation(rq) ==
    /\ rq.step \in {"SELECT", "LOCK"} => rq.kind = "ACTIVATE"
    /\ rq.kind = "ACTIVATE" =>
           /\ rq.target \in Assignments /\ rq.target \subseteq rq.locks
           /\ rq.step \in {"SELECT", "LOCK", "COMMIT"}
           /\ \A r \in rq.target : route[r].state \in {"VALIDATED", "ACTIVE"}
           /\ rq.step # "COMMIT" => rq.routes = Empty
           /\ rq.step = "COMMIT" =>
                  \A r \in rq.target : IF r \in DOMAIN rq.routes THEN rq.routes[r].row.state = "ACTIVE"
                                       ELSE route[r].state = "ACTIVE"

Registers(rq, p) == rq.kind = "REGISTER" /\ rq.step = "DISCOVER" /\ p \in rq.target

SoundRegistration(rq) == \A p \in Providers : Registers(rq, p) => provider[p].version = 0

Sound(rq) ==
    /\ SoundProviders(rq) /\ SoundModels(rq) /\ SoundRoutes(rq)
    /\ SoundActivation(rq) /\ SoundRegistration(rq)

\* Two transactions lock different routes, and nobody else writes the provider
\* of a registration.
Apart(rq, other) ==
    /\ rq.locks \cap other.locks = {}
    /\ \A p \in Providers : Registers(rq, p) => p \notin DOMAIN other.providers /\ ~Registers(other, p)

RowsFit ==
    /\ \A p \in Providers : /\ provider[p].version = 0 => ~provider[p].deleted
                            /\ provider[p].deleted => provider[p].state = "DISABLED"
    /\ \A r \in Routes : route[r].version = 0 => route[r].state = "NONE"

\* What a run froze is what the row is as long as it has that version.
FrozenFits ==
    /\ \A r \in DOMAIN run.routes : Uses(r) \subseteq DOMAIN run.models
    /\ \A m \in DOMAIN run.models :
           /\ run.models[m].state = "VALIDATED"
           /\ run.models[m].version <= model[m].version
           /\ run.models[m].version = model[m].version => run.models[m] = model[m]
    /\ \A m \in DOMAIN run.called : m \in DOMAIN run.models /\ run.called[m] = run.models[m]

LlmInv ==
    /\ LlmType
    /\ \A q \in Requests : Sound(request[q])
    /\ \A q, o \in Requests : q # o => Apart(request[q], request[o])
    /\ RowsFit
    /\ OneAssignment
    /\ FrozenFits

USE ProfilesAssumption

-----------------------------------------------------------------------------
(***************************************************************************)
(* Requests as records.                                                    *)
(***************************************************************************)

\* The members of a set of partial functions.
LEMMA PartialSetDef ==
    ASSUME NEW D, NEW R, NEW f
    PROVE  f \in PartialSet(D, R) <=> DOMAIN f \subseteq D /\ f \in [DOMAIN f -> R]
<1>1. ASSUME f \in PartialSet(D, R) PROVE DOMAIN f \subseteq D /\ f \in [DOMAIN f -> R]
  <2>1. PICK S \in SUBSET D : f \in [S -> R]
    BY <1>1 DEF PartialSet
  <2> QED BY <2>1
<1>2. ASSUME DOMAIN f \subseteq D, f \in [DOMAIN f -> R] PROVE f \in PartialSet(D, R)
  BY <1>2 DEF PartialSet
<1> QED BY <1>1, <1>2

\* The function without arguments is a partial function.
LEMMA EmptyIsPartial ==
    ASSUME NEW D, NEW R
    PROVE  Empty \in PartialSet(D, R) /\ DOMAIN Empty = {}
<1>1. DOMAIN Empty = {} /\ Empty \in [{} -> R]
  BY DEF Empty
<1> QED BY <1>1, PartialSetDef

\* What a request holds.
LEMMA RequestFields ==
    ASSUME NEW rq \in Request
    PROVE  /\ DOMAIN rq.providers \subseteq Providers
           /\ \A p \in DOMAIN rq.providers : rq.providers[p].was \in Nat /\ rq.providers[p].row \in Provider
           /\ DOMAIN rq.models \subseteq Models
           /\ \A m \in DOMAIN rq.models : rq.models[m].was \in Nat /\ rq.models[m].row \in Model
           /\ DOMAIN rq.routes \subseteq Routes
           /\ \A r \in DOMAIN rq.routes : rq.routes[r].was \in Nat /\ rq.routes[r].row \in Route
           /\ rq.locks \subseteq Routes /\ rq.scanned \subseteq Routes
           /\ rq.target \subseteq Providers \cup Routes
<1>1. rq.providers \in ProviderWrites /\ rq.models \in ModelWrites /\ rq.routes \in RouteWrites
      /\ rq.locks \subseteq Routes /\ rq.scanned \subseteq Routes
      /\ rq.target \subseteq Providers \cup Routes
  BY DEF Request
<1>2. /\ DOMAIN rq.providers \subseteq Providers
      /\ rq.providers \in [DOMAIN rq.providers -> Write(Provider)]
  BY <1>1, PartialSetDef DEF ProviderWrites
<1>3. /\ DOMAIN rq.models \subseteq Models
      /\ rq.models \in [DOMAIN rq.models -> Write(Model)]
  BY <1>1, PartialSetDef DEF ModelWrites
<1>4. /\ DOMAIN rq.routes \subseteq Routes
      /\ rq.routes \in [DOMAIN rq.routes -> Write(Route)]
  BY <1>1, PartialSetDef DEF RouteWrites
<1> QED BY <1>1, <1>2, <1>3, <1>4 DEF Write

\* Changing one field of a request.
LEMMA SetProviders ==
    ASSUME NEW rq \in Request, NEW x \in ProviderWrites
    PROVE  LET n == [rq EXCEPT !.providers = x]
           IN  /\ n \in Request /\ n.providers = x
               /\ n.step = rq.step /\ n.kind = rq.kind /\ n.target = rq.target
               /\ n.models = rq.models /\ n.routes = rq.routes /\ n.locks = rq.locks
BY DEF Request

\* Changing the models.
LEMMA SetModels ==
    ASSUME NEW rq \in Request, NEW x \in ModelWrites
    PROVE  LET n == [rq EXCEPT !.models = x]
           IN  /\ n \in Request /\ n.models = x
               /\ n.step = rq.step /\ n.kind = rq.kind /\ n.target = rq.target
               /\ n.providers = rq.providers /\ n.routes = rq.routes /\ n.locks = rq.locks
BY DEF Request

\* Changing the routes.
LEMMA SetRoutes ==
    ASSUME NEW rq \in Request, NEW x \in RouteWrites
    PROVE  LET n == [rq EXCEPT !.routes = x]
           IN  /\ n \in Request /\ n.routes = x
               /\ n.step = rq.step /\ n.kind = rq.kind /\ n.target = rq.target
               /\ n.providers = rq.providers /\ n.models = rq.models /\ n.locks = rq.locks
BY DEF Request

\* A request at rest.
LEMMA IdleIsRequest ==
    /\ Idle \in Request /\ Idle.step = "IDLE" /\ Idle.kind = "NONE" /\ Idle.target = {}
    /\ Idle.providers = Empty /\ Idle.models = Empty /\ Idle.routes = Empty /\ Idle.locks = {}
BY EmptyIsPartial DEF Idle, Request, ProviderWrites, ModelWrites, RouteWrites, Kinds

\* A request that is ready to commit and has nothing to write yet.
LEMMA ReadyIsRequest ==
    ASSUME NEW kind \in Kinds
    PROVE  LET n == Ready(kind)
           IN  /\ n \in Request /\ n.step = "COMMIT" /\ n.kind = kind /\ n.target = {}
               /\ n.providers = Empty /\ n.models = Empty /\ n.routes = Empty /\ n.locks = {}
BY IdleIsRequest DEF Ready, Request

\* A request that writes one provider.
LEMMA WritesProviderFields ==
    ASSUME LlmType, NEW rq \in Request, NEW p \in Providers, NEW row \in Provider
    PROVE  LET n == WritesProvider(rq, p, row)
           IN  /\ n \in Request
               /\ DOMAIN n.providers = {p}
               /\ n.providers[p].was = provider[p].version /\ n.providers[p].row = row
               /\ n.step = rq.step /\ n.kind = rq.kind /\ n.target = rq.target
               /\ n.models = rq.models /\ n.routes = rq.routes /\ n.locks = rq.locks
<1> DEFINE x == [y \in {p} |-> [was |-> provider[y].version, row |-> row]]
<1>1. provider[p].version \in Nat
  BY DEF LlmType, Provider
<1>2. DOMAIN x = {p} /\ x[p].was = provider[p].version /\ x[p].row = row
  OBVIOUS
<1>3. x \in [DOMAIN x -> Write(Provider)]
  BY <1>1, <1>2 DEF Write
<1>4. x \in ProviderWrites
  BY <1>2, <1>3, PartialSetDef DEF ProviderWrites
<1>5. WritesProvider(rq, p, row) = [rq EXCEPT !.providers = x]
  BY DEF WritesProvider
<1> HIDE DEF x
<1> QED BY <1>2, <1>4, <1>5, SetProviders

\* Writes of models, and of routes, with the versions as they are.
LEMMA ModelWritesFields ==
    ASSUME LlmType, NEW M \in SUBSET Models, NEW f \in [M -> Model]
    PROVE  LET x == [m \in M |-> [was |-> model[m].version, row |-> f[m]]]
           IN  /\ x \in ModelWrites /\ DOMAIN x = M
               /\ \A m \in M : x[m].was = model[m].version /\ x[m].row = f[m]
<1> DEFINE x == [m \in M |-> [was |-> model[m].version, row |-> f[m]]]
<1>1. \A m \in M : model[m].version \in Nat
  BY DEF LlmType, Model
<1>2. DOMAIN x = M /\ \A m \in M : x[m].was = model[m].version /\ x[m].row = f[m]
  OBVIOUS
<1>3. x \in [M -> Write(Model)]
  BY <1>1 DEF Write
<1>4. x \in ModelWrites
  BY <1>2, <1>3, PartialSetDef DEF ModelWrites
<1> QED BY <1>2, <1>4

\* The same for routes.
LEMMA RouteWritesFields ==
    ASSUME LlmType, NEW R \in SUBSET Routes, NEW f \in [R -> Route]
    PROVE  LET x == [r \in R |-> [was |-> route[r].version, row |-> f[r]]]
           IN  /\ x \in RouteWrites /\ DOMAIN x = R
               /\ \A r \in R : x[r].was = route[r].version /\ x[r].row = f[r]
<1> DEFINE x == [r \in R |-> [was |-> route[r].version, row |-> f[r]]]
<1>1. \A r \in R : route[r].version \in Nat
  BY DEF LlmType, Route
<1>2. DOMAIN x = R /\ \A r \in R : x[r].was = route[r].version /\ x[r].row = f[r]
  OBVIOUS
<1>3. x \in [R -> Write(Route)]
  BY <1>1 DEF Write
<1>4. x \in RouteWrites
  BY <1>2, <1>3, PartialSetDef DEF RouteWrites
<1> QED BY <1>2, <1>4

-----------------------------------------------------------------------------
(***************************************************************************)
(* Steps that change one request and no table.                             *)
(***************************************************************************)

\* The invariant holds if the request is sound and apart from the others.
LEMMA QuietStep ==
    ASSUME LlmInv, NEW q \in Requests, NEW n \in Request,
           request' = [request EXCEPT ![q] = n],
           UNCHANGED <<provider, model, route, run, assigned>>,
           secret' \subseteq Providers, started' \in 0..MaxRequests,
           Sound(n),
           \A o \in Requests \ {q} : Apart(n, request[o]) /\ Apart(request[o], n)
    PROVE  LlmInv'
<1>1. /\ request' \in [Requests -> Request]
      /\ request'[q] = n
      /\ \A o \in Requests \ {q} : request'[o] = request[o]
  BY DEF LlmInv, LlmType
<1>2. LlmType'
  BY <1>1 DEF LlmInv, LlmType
<1>3. ASSUME NEW o \in Requests PROVE Sound(request[o])'
  <2>1. Sound(request'[o])
    BY <1>1 DEF LlmInv
  <2>2. SoundProviders(request[o])' /\ SoundModels(request[o])'
    BY <2>1 DEF Sound, SoundProviders, SoundModels
  <2>3. SoundRoutes(request[o])'
    BY <2>1 DEF Sound, SoundRoutes
  <2>4. SoundActivation(request[o])'
    BY <2>1 DEF Sound, SoundActivation
  <2>5. SoundRegistration(request[o])'
    BY <2>1 DEF Sound, SoundRegistration, Registers
  <2> QED BY <2>2, <2>3, <2>4, <2>5 DEF Sound
<1>4. ASSUME NEW a \in Requests, NEW b \in Requests, a # b PROVE Apart(request[a], request[b])'
  <2>1. Apart(request'[a], request'[b])
    BY <1>1, <1>4 DEF LlmInv
  <2> QED BY <2>1 DEF Apart, Registers
<1>5. RowsFit' /\ OneAssignment' /\ FrozenFits'
  BY DEF LlmInv, RowsFit, OneAssignment, FrozenFits
<1> QED BY <1>2, <1>3, <1>4, <1>5 DEF LlmInv

\* A request that ends without a commit.
LEMMA IdleStep ==
    ASSUME LlmInv, NEW q \in Requests,
           request' = [request EXCEPT ![q] = Idle],
           UNCHANGED <<provider, model, route, run, assigned, started>>, secret' \subseteq Providers
    PROVE  LlmInv'
<1>1. DOMAIN Empty = {}
  BY DEF Empty
<1>2. Sound(Idle)
  BY <1>1, IdleIsRequest DEF Sound, SoundProviders, SoundModels, SoundRoutes, SoundActivation,
                             SoundRegistration, Registers
<1>3. \A o \in Requests : Apart(Idle, request[o]) /\ Apart(request[o], Idle)
  BY <1>1, IdleIsRequest DEF Apart, Registers
<1>4. started' \in 0..MaxRequests
  BY DEF LlmInv, LlmType
<1> QED BY <1>2, <1>3, <1>4, IdleIsRequest, QuietStep

\* A request that writes a provider, neither locks nor registers, and does not
\* activate: what remains to be shown of it.
LEMMA PlainStep ==
    ASSUME LlmInv, NEW q \in Requests, NEW n \in Request,
           request' = [request EXCEPT ![q] = n],
           UNCHANGED <<provider, model, route, run, assigned>>,
           secret' \subseteq Providers, started' \in 0..MaxRequests,
           n.locks = {}, n.kind # "ACTIVATE", n.step \notin {"SELECT", "LOCK"},
           \A p \in Providers : ~Registers(n, p),
           SoundProviders(n), SoundModels(n), SoundRoutes(n),
           \A o \in Requests \ {q} : \A p \in DOMAIN n.providers : ~Registers(request[o], p)
    PROVE  LlmInv'
<1>1. Sound(n)
  BY DEF Sound, SoundActivation, SoundRegistration
<1>2. \A o \in Requests \ {q} : Apart(n, request[o]) /\ Apart(request[o], n)
  BY DEF Apart
<1> QED BY <1>1, <1>2, QuietStep

\* Such a request with a provider that exists: nobody is registering it.
LEMMA ProviderStep ==
    ASSUME LlmInv, NEW q \in Requests, NEW rq \in Request, NEW p \in Providers, NEW row \in Provider,
           request' = [request EXCEPT ![q] = WritesProvider(rq, p, row)],
           UNCHANGED <<provider, model, route, run, assigned>>,
           secret' \subseteq Providers, started' \in 0..MaxRequests,
           rq.locks = {}, rq.kind \notin {"ACTIVATE", "REGISTER"}, rq.step \notin {"SELECT", "LOCK"},
           SoundModels(rq), SoundRoutes(rq),
           get_provider(p), row.version = provider[p].version + 1, row.deleted => row.state = "DISABLED"
    PROVE  LlmInv'
<1> DEFINE n == WritesProvider(rq, p, row)
<1>0. LlmType
  BY DEF LlmInv
<1>1. /\ n \in Request
      /\ DOMAIN n.providers = {p}
      /\ n.providers[p].was = provider[p].version /\ n.providers[p].row = row
      /\ n.step = rq.step /\ n.kind = rq.kind /\ n.target = rq.target
      /\ n.models = rq.models /\ n.routes = rq.routes /\ n.locks = rq.locks
  BY <1>0, WritesProviderFields
<1> HIDE DEF n
<1>2. provider[p].version \in Nat /\ provider[p].version # 0 /\ ~provider[p].deleted
  BY <1>0 DEF LlmType, Provider, get_provider
<1>3. SoundProviders(n) /\ SoundModels(n) /\ SoundRoutes(n)
  BY <1>1, <1>2 DEF SoundProviders, SoundModels, SoundRoutes
<1>4. \A o \in Requests \ {q} : ~Registers(request[o], p)
  BY <1>2 DEF LlmInv, Sound, SoundRegistration
<1>5. \A x \in Providers : ~Registers(n, x)
  BY <1>1 DEF Registers
<1>6. request' = [request EXCEPT ![q] = n]
  BY DEF n
<1>7. n.locks = {} /\ n.kind # "ACTIVATE" /\ n.step \notin {"SELECT", "LOCK"}
  BY <1>1
<1>8. \A o \in Requests \ {q} : \A x \in DOMAIN n.providers : ~Registers(request[o], x)
  BY <1>1, <1>4
<1>9. n \in Request
  BY <1>1
<1> QED BY <1>3, <1>5, <1>6, <1>7, <1>8, <1>9, PlainStep

-----------------------------------------------------------------------------
(***************************************************************************)
(* Rows with the next version.                                             *)
(***************************************************************************)

ValidatedProvider(row) == [row EXCEPT !.state = "VALIDATED", !.version = @ + 1]
KeyedProvider(row) == [row EXCEPT !.state = "DRAFT", !.ref = TRUE, !.version = @ + 1]
DeletedProvider(row) == [row EXCEPT !.state = "DISABLED", !.deleted = TRUE, !.ref = FALSE, !.version = @ + 1]

\* What an operation makes of a provider is a provider, with the next version.
LEMMA ProviderRows ==
    ASSUME NEW row \in Provider
    PROVE  /\ LET n == ValidatedProvider(row)
              IN  n \in Provider /\ n.version = row.version + 1 /\ n.deleted = row.deleted
           /\ LET n == KeyedProvider(row)
              IN  n \in Provider /\ n.version = row.version + 1 /\ n.deleted = row.deleted
           /\ LET n == DeletedProvider(row)
              IN  n \in Provider /\ n.version = row.version + 1 /\ n.state = "DISABLED"
<1>1. row.version + 1 \in Nat
  BY DEF Provider
<1>2. ValidatedProvider(row) \in Provider
  BY <1>1 DEF Provider, ValidatedProvider
<1>3. KeyedProvider(row) \in Provider
  BY <1>1 DEF Provider, KeyedProvider
<1>4. DeletedProvider(row) \in Provider
  BY <1>1 DEF Provider, DeletedProvider
<1>5. ValidatedProvider(row).version = row.version + 1 /\ ValidatedProvider(row).deleted = row.deleted
  BY DEF Provider, ValidatedProvider
<1>6. KeyedProvider(row).version = row.version + 1 /\ KeyedProvider(row).deleted = row.deleted
  BY DEF Provider, KeyedProvider
<1>7. DeletedProvider(row).version = row.version + 1 /\ DeletedProvider(row).state = "DISABLED"
  BY DEF Provider, DeletedProvider
<1> QED BY <1>2, <1>3, <1>4, <1>5, <1>6, <1>7

\* The same for models: a state, or more capabilities.
LEMMA ModelRows ==
    ASSUME NEW row \in Model, NEW s \in {"NONE", "DRAFT", "VALIDATED", "DISABLED"}
    PROVE  /\ LET n == [row EXCEPT !.state = s, !.version = @ + 1]
              IN  n \in Model /\ n.version = row.version + 1
           /\ LET n == [row EXCEPT !.upgraded = TRUE, !.version = @ + 1]
              IN  n \in Model /\ n.version = row.version + 1
<1>1. row.version + 1 \in Nat
  BY DEF Model
<1>2. [row EXCEPT !.state = s, !.version = @ + 1] \in Model
  BY <1>1 DEF Model
<1>3. [row EXCEPT !.upgraded = TRUE, !.version = @ + 1] \in Model
  BY <1>1 DEF Model
<1>4. [row EXCEPT !.state = s, !.version = @ + 1].version = row.version + 1
  BY DEF Model
<1>5. [row EXCEPT !.upgraded = TRUE, !.version = @ + 1].version = row.version + 1
  BY DEF Model
<1> QED BY <1>2, <1>3, <1>4, <1>5

RouteRow(row, s) == [row EXCEPT !.state = s, !.version = @ + 1]

\* The same for routes.
LEMMA RouteRows ==
    ASSUME NEW row \in Route, NEW s \in {"NONE", "DRAFT", "VALIDATED", "ACTIVE", "SUPERSEDED"}
    PROVE  /\ RouteRow(row, s) \in Route
           /\ RouteRow(row, s).version = row.version + 1
           /\ RouteRow(row, s).state = s
<1>1. row.version + 1 \in Nat
  BY DEF Route
<1>2. RouteRow(row, s) \in Route
  BY <1>1 DEF Route, RouteRow
<1>3. RouteRow(row, s).version = row.version + 1 /\ RouteRow(row, s).state = s
  BY DEF Route, RouteRow
<1> QED BY <1>2, <1>3

-----------------------------------------------------------------------------
(***************************************************************************)
(* The operations.                                                         *)
(***************************************************************************)

\* A provider is created or registered under an identity that nobody uses.
LEMMA CreateProviderStep ==
    ASSUME LlmInv, NEW q \in Requests, NEW p \in Providers, create_provider(q, p)
    PROVE  LlmInv'
<1> DEFINE n == WritesProvider(Ready("CREATE"), p, NewProvider)
<1>1. LlmType /\ RowsFit
  BY DEF LlmInv
<1>2. /\ Ready("CREATE") \in Request /\ Ready("CREATE").step = "COMMIT" /\ Ready("CREATE").kind = "CREATE"
      /\ Ready("CREATE").models = Empty /\ Ready("CREATE").routes = Empty /\ Ready("CREATE").locks = {}
  BY ReadyIsRequest DEF Kinds
<1>3. /\ NewProvider \in Provider /\ NewProvider.version = 1 /\ ~NewProvider.deleted
  BY DEF NewProvider, Provider
<1>4. /\ n \in Request /\ DOMAIN n.providers = {p}
      /\ n.providers[p].was = provider[p].version /\ n.providers[p].row = NewProvider
      /\ n.step = "COMMIT" /\ n.kind = "CREATE" /\ n.models = Empty /\ n.routes = Empty /\ n.locks = {}
  BY <1>1, <1>2, <1>3, WritesProviderFields
<1>5. /\ request' = [request EXCEPT ![q] = n]
      /\ UNCHANGED <<provider, model, route, run, assigned>>
      /\ secret' \subseteq Providers /\ started' \in 0..MaxRequests
  BY <1>1 DEF create_provider, Begin, LlmType
<1> HIDE DEF n
<1>6. provider[p].version = 0 /\ ~provider[p].deleted
  BY <1>1 DEF create_provider, NewId, RowsFit
<1>7. DOMAIN Empty = {}
  BY DEF Empty
<1>8. SoundProviders(n) /\ SoundModels(n) /\ SoundRoutes(n)
  BY <1>3, <1>4, <1>6, <1>7 DEF SoundProviders, SoundModels, SoundRoutes
<1>9. \A o \in Requests : ~Registers(request[o], p)
  BY DEF create_provider, NewId, Registers
<1>10. \A x \in Providers : ~Registers(n, x)
  BY <1>4 DEF Registers
<1>11. n \in Request /\ n.locks = {} /\ n.kind # "ACTIVATE" /\ n.step \notin {"SELECT", "LOCK"}
       /\ \A o \in Requests \ {q} : \A x \in DOMAIN n.providers : ~Registers(request[o], x)
  BY <1>4, <1>9
<1> QED BY <1>5, <1>8, <1>10, <1>11, PlainStep

\* A registration takes an identity that nobody uses.
LEMMA RegisterStep ==
    ASSUME LlmInv, NEW q \in Requests, NEW p \in Providers, register_provider_with_discovery(q, p)
    PROVE  LlmInv'
<1> DEFINE n == [Idle EXCEPT !.step = "DISCOVER", !.kind = "REGISTER", !.target = {p}]
<1>1. /\ n \in Request /\ n.step = "DISCOVER" /\ n.kind = "REGISTER" /\ n.target = {p}
      /\ n.providers = Empty /\ n.models = Empty /\ n.routes = Empty /\ n.locks = {}
  BY IdleIsRequest DEF Request, Kinds
<1>2. /\ request' = [request EXCEPT ![q] = n]
      /\ UNCHANGED <<provider, model, route, run, assigned>>
      /\ secret' \subseteq Providers /\ started' \in 0..MaxRequests
  BY DEF register_provider_with_discovery, Begin, LlmInv, LlmType
<1> HIDE DEF n
<1>3. provider[p].version = 0 /\ \A o \in Requests : p \notin request[o].target \cup DOMAIN request[o].providers
  BY DEF register_provider_with_discovery, NewId
<1>4. DOMAIN Empty = {}
  BY DEF Empty
<1>5. Sound(n)
  BY <1>1, <1>3, <1>4 DEF Sound, SoundProviders, SoundModels, SoundRoutes, SoundActivation,
                          SoundRegistration, Registers
<1>6. \A o \in Requests \ {q} : Apart(n, request[o]) /\ Apart(request[o], n)
  BY <1>1, <1>3, <1>4 DEF Apart, Registers
<1> QED BY <1>1, <1>2, <1>5, <1>6, QuietStep

\* Synchronisation, test and credential of a provider that exists.
LEMMA UpdateProviderStep ==
    ASSUME LlmInv, NEW q \in Requests, NEW p \in Providers,
           sync_provider_models(q, p) \/ test_provider(q, p) \/ set_provider_credential(q, p)
    PROVE  LlmInv'
<1>1. LlmType
  BY DEF LlmInv
<1>2. provider[p] \in Provider /\ secret \subseteq Providers /\ get_provider(p) /\ ~provider[p].deleted
  BY <1>1 DEF LlmType, sync_provider_models, test_provider, set_provider_credential, get_provider
<1> DEFINE sync == [Idle EXCEPT !.step = "DISCOVER", !.kind = "SYNC", !.target = {p}]
           validated == ValidatedProvider(provider[p])
           keyed == KeyedProvider(provider[p])
<1>3. /\ validated \in Provider /\ validated.version = provider[p].version + 1 /\ ~validated.deleted
      /\ keyed \in Provider /\ keyed.version = provider[p].version + 1 /\ ~keyed.deleted
  BY <1>2, ProviderRows
<1>4. /\ sync \in Request /\ sync.step = "DISCOVER" /\ sync.kind = "SYNC"
      /\ sync.models = Empty /\ sync.routes = Empty /\ sync.locks = {}
  BY IdleIsRequest DEF Request, Kinds
<1>5. \A kind \in {"TEST", "CREDENTIAL"} :
          /\ Ready(kind) \in Request /\ Ready(kind).step = "COMMIT" /\ Ready(kind).kind = kind
          /\ Ready(kind).models = Empty /\ Ready(kind).routes = Empty /\ Ready(kind).locks = {}
  BY ReadyIsRequest DEF Kinds
<1>6. DOMAIN Empty = {}
  BY DEF Empty
<1>7. /\ SoundModels(sync) /\ SoundRoutes(sync)
      /\ \A kind \in {"TEST", "CREDENTIAL"} : SoundModels(Ready(kind)) /\ SoundRoutes(Ready(kind))
  BY <1>4, <1>5, <1>6 DEF SoundModels, SoundRoutes
<1>8. /\ UNCHANGED <<provider, model, route, run, assigned>>
      /\ secret' \subseteq Providers /\ started' \in 0..MaxRequests
      /\ \/ request' = [request EXCEPT ![q] = WritesProvider(sync, p, validated)]
         \/ request' = [request EXCEPT ![q] = WritesProvider(Ready("TEST"), p, validated)]
         \/ request' = [request EXCEPT ![q] = WritesProvider(Ready("CREDENTIAL"), p, keyed)]
  BY <1>1, <1>2 DEF sync_provider_models, test_provider, set_provider_credential, Begin, LlmType,
                    ValidatedProvider, KeyedProvider
<1> HIDE DEF sync, validated, keyed
<1>9. CASE request' = [request EXCEPT ![q] = WritesProvider(sync, p, validated)]
  BY <1>2, <1>3, <1>4, <1>7, <1>8, <1>9, ProviderStep
<1>10. CASE request' = [request EXCEPT ![q] = WritesProvider(Ready("TEST"), p, validated)]
  BY <1>2, <1>3, <1>5, <1>7, <1>8, <1>10, ProviderStep
<1>11. CASE request' = [request EXCEPT ![q] = WritesProvider(Ready("CREDENTIAL"), p, keyed)]
  BY <1>2, <1>3, <1>5, <1>7, <1>8, <1>11, ProviderStep
<1> QED BY <1>8, <1>9, <1>10, <1>11

\* Models that are found are inserted, or updated, with the next version.
LEMMA DiscoveredFields ==
    ASSUME LlmType, NEW rq \in Request, NEW p \in Providers, NEW found \in SUBSET Models, NEW more \in SUBSET Models,
           _add_discovered_models(p, found, more)
    PROVE  LET n == Discovered(rq, found, more)
           IN  /\ n \in Request /\ SoundModels(n)
               /\ n.step = rq.step /\ n.kind = rq.kind /\ n.target = rq.target
               /\ n.providers = rq.providers /\ n.routes = rq.routes /\ n.locks = rq.locks
<1> DEFINE M == found \cup more
           f == [m \in M |-> IF m \in more THEN Upgraded(m) ELSE NewModel]
           x == [m \in M |-> [was |-> model[m].version, row |-> f[m]]]
           n == [rq EXCEPT !.models = x]
<1>1. /\ NewModel \in Model /\ NewModel.version = 1
  BY DEF NewModel, Model
<1>2. ASSUME NEW m \in Models PROVE Upgraded(m) \in Model /\ Upgraded(m).version = model[m].version + 1
  <2>1. model[m] \in Model
    BY DEF LlmType
  <2> QED BY <2>1, ModelRows DEF Upgraded
<1>3. \A m \in M : m \notin more => model[m].version = 0
  BY DEF _add_discovered_models
<1>4. f \in [M -> Model] /\ M \in SUBSET Models
  BY <1>1, <1>2
<1>5. \A m \in M : f[m].version = model[m].version + 1
  BY <1>1, <1>2, <1>3
<1>6. Discovered(rq, found, more) = n
  BY DEF Discovered, WritesModels
<1> HIDE DEF f, M
<1>7. x \in ModelWrites /\ DOMAIN x = M /\ \A m \in M : x[m].was = model[m].version /\ x[m].row = f[m]
  BY <1>4, ModelWritesFields
<1> HIDE DEF x
<1>8. /\ n \in Request /\ n.models = x
      /\ n.step = rq.step /\ n.kind = rq.kind /\ n.target = rq.target
      /\ n.providers = rq.providers /\ n.routes = rq.routes /\ n.locks = rq.locks
  BY <1>7, SetModels
<1> HIDE DEF n
<1>9. SoundModels(n)
  BY <1>5, <1>7, <1>8 DEF SoundModels
<1> QED BY <1>6, <1>8, <1>9

\* A registration inserts the row of the identity it took.
LEMMA RegisterInsertsStep ==
    ASSUME LlmInv, NEW q \in Requests, NEW p \in Providers, NEW found \in SUBSET Models,
           register_inserts(q, p, found)
    PROVE  LlmInv'
<1> DEFINE rq == request[q]
           a == [rq EXCEPT !.step = "COMMIT"]
           b == WritesProvider(a, p, Registered)
           n == Discovered(b, found, {})
<1>1. LlmType /\ rq \in Request /\ RowsFit
  BY DEF LlmInv, LlmType
<1>2. /\ a \in Request /\ a.step = "COMMIT" /\ a.kind = rq.kind /\ a.target = rq.target
      /\ a.providers = rq.providers /\ a.models = rq.models /\ a.routes = rq.routes /\ a.locks = rq.locks
  BY <1>1 DEF Request
<1>3. Registered \in Provider /\ Registered.version = 1 /\ ~Registered.deleted
  BY DEF Registered, NewProvider, Provider
<1>4. /\ request' = [request EXCEPT ![q] = n]
      /\ UNCHANGED <<provider, model, route, run, assigned>>
      /\ secret' \subseteq Providers /\ started' \in 0..MaxRequests
  BY <1>1 DEF register_inserts, LlmType
<1>5. rq.kind = "REGISTER" /\ Registers(rq, p) /\ _add_discovered_models(p, found, {})
  BY DEF register_inserts, Registers
<1> HIDE DEF a
<1>6. /\ b \in Request /\ DOMAIN b.providers = {p}
      /\ b.providers[p].was = provider[p].version /\ b.providers[p].row = Registered
      /\ b.step = "COMMIT" /\ b.kind = rq.kind /\ b.target = rq.target
      /\ b.models = rq.models /\ b.routes = rq.routes /\ b.locks = rq.locks
  BY <1>1, <1>2, <1>3, WritesProviderFields
<1> HIDE DEF b
<1>7. /\ n \in Request /\ SoundModels(n)
      /\ n.step = "COMMIT" /\ n.kind = "REGISTER" /\ n.target = rq.target
      /\ n.providers = b.providers /\ n.routes = rq.routes /\ n.locks = rq.locks
  BY <1>1, <1>5, <1>6, DiscoveredFields
<1> HIDE DEF n
<1>8. Sound(rq)
  BY DEF LlmInv
<1>9. provider[p].version = 0 /\ ~provider[p].deleted
  BY <1>1, <1>5, <1>8 DEF Sound, SoundRegistration, RowsFit
<1>10. SoundProviders(n)
  BY <1>3, <1>6, <1>7, <1>9 DEF SoundProviders
<1>11. SoundRoutes(n)
  BY <1>5, <1>7, <1>8 DEF Sound, SoundRoutes
<1>12. Sound(n)
  BY <1>7, <1>10, <1>11 DEF Sound, SoundActivation, SoundRegistration, Registers
<1>13. \A x \in Providers : ~Registers(n, x)
  BY <1>7 DEF Registers
<1>14. ASSUME NEW o \in Requests \ {q} PROVE Apart(n, request[o]) /\ Apart(request[o], n)
  <2>1. Apart(rq, request[o]) /\ Apart(request[o], rq)
    BY DEF LlmInv
  <2>2. ~Registers(request[o], p)
    BY <1>5, <2>1 DEF Apart
  <2> QED BY <1>6, <1>7, <1>13, <2>1, <2>2 DEF Apart
<1> QED BY <1>4, <1>7, <1>12, <1>14, QuietStep

\* A synchronisation adds what the provider answered to the row it read before.
LEMMA SyncDiscoversStep ==
    ASSUME LlmInv, NEW q \in Requests, NEW p \in Providers, NEW found \in SUBSET Models, NEW more \in SUBSET Models,
           sync_discovers(q, p, found, more)
    PROVE  LlmInv'
<1> DEFINE rq == request[q]
           a == [rq EXCEPT !.step = "COMMIT"]
           n == Discovered(a, found, more)
<1>1. LlmType /\ rq \in Request /\ Sound(rq)
  BY DEF LlmInv, LlmType
<1>2. /\ a \in Request /\ a.step = "COMMIT" /\ a.kind = rq.kind /\ a.target = rq.target
      /\ a.providers = rq.providers /\ a.models = rq.models /\ a.routes = rq.routes /\ a.locks = rq.locks
  BY <1>1 DEF Request
<1>3. /\ request' = [request EXCEPT ![q] = n]
      /\ UNCHANGED <<provider, model, route, run, assigned>>
      /\ secret' \subseteq Providers /\ started' \in 0..MaxRequests
      /\ rq.kind = "SYNC" /\ _add_discovered_models(p, found, more)
  BY <1>1 DEF sync_discovers, LlmType
<1> HIDE DEF a
<1>4. /\ n \in Request /\ SoundModels(n)
      /\ n.step = "COMMIT" /\ n.kind = "SYNC" /\ n.target = rq.target
      /\ n.providers = rq.providers /\ n.routes = rq.routes /\ n.locks = rq.locks
  BY <1>1, <1>2, <1>3, DiscoveredFields
<1> HIDE DEF n
<1>5. SoundProviders(n)
  BY <1>1, <1>4 DEF Sound, SoundProviders
<1>6. SoundRoutes(n)
  BY <1>1, <1>3, <1>4 DEF Sound, SoundRoutes
<1>7. Sound(n)
  BY <1>4, <1>5, <1>6 DEF Sound, SoundActivation, SoundRegistration, Registers
<1>8. \A x \in Providers : ~Registers(n, x)
  BY <1>4 DEF Registers
<1>9. ASSUME NEW o \in Requests \ {q} PROVE Apart(n, request[o]) /\ Apart(request[o], n)
  <2>1. Apart(rq, request[o]) /\ Apart(request[o], rq)
    BY DEF LlmInv
  <2> QED BY <1>4, <1>8, <2>1 DEF Apart
<1> QED BY <1>3, <1>4, <1>7, <1>9, QuietStep

\* A request that writes models and nothing else.
LEMMA ModelStep ==
    ASSUME LlmInv, NEW q \in Requests, NEW M \in SUBSET Models, NEW f \in [M -> Model],
           NEW kind \in Kinds \ {"ACTIVATE", "REGISTER"},
           request' = [request EXCEPT ![q] = [Ready(kind) EXCEPT
                           !.models = [m \in M |-> [was |-> model[m].version, row |-> f[m]]]]],
           UNCHANGED <<provider, model, route, run, assigned>>,
           secret' \subseteq Providers, started' \in 0..MaxRequests,
           \A m \in M : f[m].version = model[m].version + 1
    PROVE  LlmInv'
<1> DEFINE x == [m \in M |-> [was |-> model[m].version, row |-> f[m]]]
           rq == Ready(kind)
           n == [rq EXCEPT !.models = x]
<1>1. LlmType
  BY DEF LlmInv
<1>2. /\ rq \in Request /\ rq.step = "COMMIT" /\ rq.kind = kind
      /\ rq.providers = Empty /\ rq.routes = Empty /\ rq.locks = {}
  BY ReadyIsRequest
<1>3. x \in ModelWrites /\ DOMAIN x = M /\ \A m \in M : x[m].was = model[m].version /\ x[m].row = f[m]
  BY <1>1, ModelWritesFields
<1>4. request' = [request EXCEPT ![q] = n]
  OBVIOUS
<1> HIDE DEF x, rq
<1>5. /\ n \in Request /\ n.models = x /\ n.step = "COMMIT" /\ n.kind = kind
      /\ n.providers = Empty /\ n.routes = Empty /\ n.locks = {}
  BY <1>2, <1>3, SetModels
<1> HIDE DEF n
<1>6. DOMAIN Empty = {}
  BY DEF Empty
<1>7. SoundProviders(n) /\ SoundRoutes(n)
  BY <1>5, <1>6 DEF SoundProviders, SoundRoutes
<1>8. SoundModels(n)
  BY <1>3, <1>5 DEF SoundModels
<1>9. \A p \in Providers : ~Registers(n, p)
  BY <1>5 DEF Registers
<1>10. n \in Request /\ n.locks = {} /\ n.kind # "ACTIVATE" /\ n.step \notin {"SELECT", "LOCK"}
       /\ \A o \in Requests \ {q} : \A p \in DOMAIN n.providers : ~Registers(request[o], p)
  BY <1>5, <1>6
<1> QED BY <1>4, <1>7, <1>8, <1>9, <1>10, PlainStep

\* A model is created, validated or disabled.
LEMMA ModelOperations ==
    ASSUME LlmInv, NEW q \in Requests, NEW m \in Models,
           create_model(q, m) \/ validate_model(q, m) \/ disable_model(q, m)
    PROVE  LlmInv'
<1> DEFINE created == [x \in {m} |-> NewModel]
           validated == [x \in {m} |-> [model[x] EXCEPT !.state = "VALIDATED", !.version = @ + 1]]
           disabled == [x \in {m} |-> [model[x] EXCEPT !.state = "DISABLED", !.version = @ + 1]]
           Puts(kind, f) == request' = [request EXCEPT ![q] = [Ready(kind) EXCEPT
                                !.models = [x \in {m} |-> [was |-> model[x].version, row |-> f[x]]]]]
<1>1. model[m] \in Model /\ secret \subseteq Providers
  BY DEF LlmInv, LlmType
<1>2. created \in [{m} -> Model] /\ created[m].version = 1
  BY DEF NewModel, Model
<1>3. validated \in [{m} -> Model] /\ validated[m].version = model[m].version + 1
  BY <1>1, ModelRows
<1>4. disabled \in [{m} -> Model] /\ disabled[m].version = model[m].version + 1
  BY <1>1, ModelRows
<1>5. /\ UNCHANGED <<provider, model, route, run, assigned>>
      /\ secret' \subseteq Providers /\ started' \in 0..MaxRequests
  BY <1>1 DEF create_model, validate_model, disable_model, Begin, LlmInv, LlmType
<1>6. \/ model[m].version = 0 /\ Puts("CREATE_MODEL", created)
      \/ Puts("VALIDATE_MODEL", validated)
      \/ Puts("DISABLE_MODEL", disabled)
  BY DEF create_model, validate_model, disable_model, Begin, WritesModels
<1>7. {m} \in SUBSET Models /\ {"CREATE_MODEL", "VALIDATE_MODEL", "DISABLE_MODEL"} \subseteq Kinds \ {"ACTIVATE", "REGISTER"}
  BY DEF Kinds
<1> HIDE DEF created, validated, disabled
<1>8. CASE model[m].version = 0 /\ Puts("CREATE_MODEL", created)
  <2>1. \A x \in {m} : created[x].version = model[x].version + 1
    BY <1>2, <1>8
  <2> QED BY <1>2, <1>5, <1>7, <1>8, <2>1, ModelStep
<1>9. CASE Puts("VALIDATE_MODEL", validated)
  <2>1. \A x \in {m} : validated[x].version = model[x].version + 1
    BY <1>3
  <2> QED BY <1>3, <1>5, <1>7, <1>9, <2>1, ModelStep
<1>10. CASE Puts("DISABLE_MODEL", disabled)
  <2>1. \A x \in {m} : disabled[x].version = model[x].version + 1
    BY <1>4
  <2> QED BY <1>4, <1>5, <1>7, <1>10, <2>1, ModelStep
<1> QED BY <1>6, <1>8, <1>9, <1>10

\* A route is created or validated: it was not ACTIVE and is not made so.
LEMMA RouteStep ==
    ASSUME LlmInv, NEW q \in Requests, NEW r \in Routes, NEW row \in Route,
           NEW kind \in Kinds \ {"ACTIVATE", "REGISTER"},
           request' = [request EXCEPT ![q] = [Ready(kind) EXCEPT
                           !.routes = [x \in {r} |-> [was |-> route[x].version, row |-> row]]]],
           UNCHANGED <<provider, model, route, run, assigned>>,
           secret' \subseteq Providers, started' \in 0..MaxRequests,
           route[r].state \notin {"ACTIVE", "SUPERSEDED"}, row.state # "ACTIVE",
           row.version = route[r].version + 1
    PROVE  LlmInv'
<1> DEFINE f == [y \in {r} |-> row]
           x == [y \in {r} |-> [was |-> route[y].version, row |-> f[y]]]
           rq == Ready(kind)
           n == [rq EXCEPT !.routes = x]
<1>1. LlmType
  BY DEF LlmInv
<1>2. /\ rq \in Request /\ rq.step = "COMMIT" /\ rq.kind = kind
      /\ rq.providers = Empty /\ rq.models = Empty /\ rq.locks = {}
  BY ReadyIsRequest
<1>3. f \in [{r} -> Route] /\ f[r] = row
  OBVIOUS
<1>4. request' = [request EXCEPT ![q] = n]
  OBVIOUS
<1> HIDE DEF f
<1>5. x \in RouteWrites /\ DOMAIN x = {r} /\ x[r].was = route[r].version /\ x[r].row = row
  BY <1>1, <1>3, RouteWritesFields, ZenonT(60)
<1> HIDE DEF x, rq
<1>6. /\ n \in Request /\ n.routes = x /\ n.step = "COMMIT" /\ n.kind = kind
      /\ n.providers = Empty /\ n.models = Empty /\ n.locks = {}
  BY <1>2, <1>5, SetRoutes
<1> HIDE DEF n
<1>7. DOMAIN Empty = {}
  BY DEF Empty
<1>8. SoundProviders(n) /\ SoundModels(n)
  BY <1>6, <1>7 DEF SoundProviders, SoundModels
<1>9. route[r].version \in Nat
  BY <1>1 DEF LlmType, Route
<1>10. SoundRoutes(n)
  BY <1>5, <1>6, <1>9 DEF SoundRoutes
<1>11. \A p \in Providers : ~Registers(n, p)
  BY <1>6 DEF Registers
<1>12. n \in Request /\ n.locks = {} /\ n.kind # "ACTIVATE" /\ n.step \notin {"SELECT", "LOCK"}
       /\ \A o \in Requests \ {q} : \A p \in DOMAIN n.providers : ~Registers(request[o], p)
  BY <1>6, <1>7
<1> QED BY <1>4, <1>8, <1>10, <1>11, <1>12, PlainStep

\* create_route and validate_route.
LEMMA RouteOperations ==
    ASSUME LlmInv, NEW q \in Requests, NEW r \in Routes, create_route(q, r) \/ validate_route(q, r)
    PROVE  LlmInv'
<1> DEFINE draft == [state |-> "DRAFT", version |-> 1]
           valid == [route[r] EXCEPT !.state = "VALIDATED", !.version = @ + 1]
           Puts(kind, row) == request' = [request EXCEPT ![q] = [Ready(kind) EXCEPT
                                  !.routes = [x \in {r} |-> [was |-> route[x].version, row |-> row]]]]
<1>1. route[r] \in Route /\ secret \subseteq Providers /\ RowsFit
  BY DEF LlmInv, LlmType
<1>2. draft \in Route /\ draft.version = 1 /\ draft.state = "DRAFT"
  BY DEF Route
<1>3. valid \in Route /\ valid.version = route[r].version + 1 /\ valid.state = "VALIDATED"
  BY <1>1, RouteRows DEF RouteRow
<1>4. /\ UNCHANGED <<provider, model, route, run, assigned>>
      /\ secret' \subseteq Providers /\ started' \in 0..MaxRequests
  <2>1. started \in 0..MaxRequests
    BY DEF LlmInv, LlmType
  <2>2. started < MaxRequests /\ started' = started + 1 /\ secret' = secret
        /\ UNCHANGED <<provider, model, route, run, assigned>>
    BY DEF create_route, validate_route, Begin
  <2> QED BY <1>1, <2>1, <2>2
<1>5. \/ route[r].version = 0 /\ Puts("CREATE_ROUTE", draft)
      \/ route[r].state = "DRAFT" /\ Puts("VALIDATE_ROUTE", valid)
  <2>1. [x \in {r} |-> [was |-> route[x].version, row |-> [route[x] EXCEPT !.state = "VALIDATED", !.version = @ + 1]]]
        = [x \in {r} |-> [was |-> route[x].version, row |-> valid]]
    OBVIOUS
  <2> QED BY <2>1 DEF create_route, validate_route, Begin, WritesRoutes
<1>6. {"CREATE_ROUTE", "VALIDATE_ROUTE"} \subseteq Kinds \ {"ACTIVATE", "REGISTER"}
  BY DEF Kinds
<1>7. route[r].version = 0 => route[r].state = "NONE"
  BY <1>1 DEF RowsFit
<1> HIDE DEF draft, valid
<1>8. CASE route[r].version = 0 /\ Puts("CREATE_ROUTE", draft)
  <2>1. draft.version = route[r].version + 1 /\ draft.state # "ACTIVE" /\ route[r].state \notin {"ACTIVE", "SUPERSEDED"}
    BY <1>2, <1>7, <1>8
  <2> QED BY <1>2, <1>4, <1>6, <1>8, <2>1, RouteStep
<1>9. CASE route[r].state = "DRAFT" /\ Puts("VALIDATE_ROUTE", valid)
  BY <1>3, <1>4, <1>6, <1>9, RouteStep
<1> QED BY <1>5, <1>8, <1>9

\* A provider is deleted with its models and the routes that are not in use.
LEMMA DeleteProviderStep ==
    ASSUME LlmInv, NEW q \in Requests, NEW p \in Providers, delete_provider(q, p)
    PROVE  LlmInv'
<1> DEFINE M == ModelsOf(p)
           unused == {r \in Routes : route[r].state \in {"DRAFT", "VALIDATED"} /\ Uses(r) \cap ModelsOf(p) # {}}
           f == [m \in M |-> [model[m] EXCEPT !.state = "DISABLED", !.version = @ + 1]]
           g == [r \in unused |-> [route[r] EXCEPT !.state = "SUPERSEDED", !.version = @ + 1]]
           x == [m \in M |-> [was |-> model[m].version, row |-> f[m]]]
           y == [r \in unused |-> [was |-> route[r].version, row |-> g[r]]]
           rq == Ready("DELETE")
           a == [rq EXCEPT !.models = x]
           b == [a EXCEPT !.routes = y]
           row == DeletedProvider(provider[p])
<1>1. LlmType
  BY DEF LlmInv
<1>2. /\ rq \in Request /\ rq.step = "COMMIT" /\ rq.kind = "DELETE" /\ rq.locks = {}
  BY ReadyIsRequest DEF Kinds
<1>3. \A m \in Models : model[m] \in Model
  BY <1>1 DEF LlmType
<1>4. \A r \in Routes : route[r] \in Route /\ route[r].version \in Nat
  BY <1>1 DEF LlmType, Route
<1>5. M \in SUBSET Models /\ unused \in SUBSET Routes
  BY DEF ModelsOf
<1>6. f \in [M -> Model] /\ \A m \in M : f[m].version = model[m].version + 1
  BY <1>3, <1>5, ModelRows
<1>7. g \in [unused -> Route] /\ \A r \in unused : g[r].version = route[r].version + 1 /\ g[r].state = "SUPERSEDED"
  BY <1>4, <1>5, RouteRows DEF RouteRow
<1>8. provider[p] \in Provider /\ get_provider(p)
  BY <1>1 DEF LlmType, delete_provider
<1>9. row \in Provider /\ row.version = provider[p].version + 1 /\ row.state = "DISABLED"
  BY <1>8, ProviderRows
<1>10. /\ request' = [request EXCEPT ![q] = WritesProvider(b, p, row)]
       /\ UNCHANGED <<provider, model, route, run, assigned>>
       /\ started' \in 0..MaxRequests /\ secret' \subseteq Providers
  <2>1. request' = [request EXCEPT ![q] = WritesProvider(b, p, row)]
    BY DEF delete_provider, Begin, WritesModels, WritesRoutes, DeletedProvider
  <2>2. started' \in 0..MaxRequests
    BY <1>1 DEF delete_provider, Begin, LlmType
  <2>3. secret' \subseteq Providers
    BY <1>1 DEF delete_provider, LlmType
  <2>4. UNCHANGED <<provider, model, route, run, assigned>>
    BY DEF delete_provider, Begin
  <2> QED BY <2>1, <2>2, <2>3, <2>4
<1>11. \A r \in unused : route[r].state \in {"DRAFT", "VALIDATED"}
  OBVIOUS
<1> HIDE DEF f, g, row, M, unused
<1>12. x \in ModelWrites /\ DOMAIN x = M /\ \A m \in M : x[m].was = model[m].version /\ x[m].row = f[m]
  BY <1>1, <1>5, <1>6, ModelWritesFields
<1>13. y \in RouteWrites /\ DOMAIN y = unused /\ \A r \in unused : y[r].was = route[r].version /\ y[r].row = g[r]
  BY <1>1, <1>5, <1>7, RouteWritesFields
<1> HIDE DEF x, y, rq
<1>14. a \in Request /\ a.models = x /\ a.step = "COMMIT" /\ a.kind = "DELETE" /\ a.locks = {}
  BY <1>2, <1>12, SetModels
<1> HIDE DEF a
<1>15. b \in Request /\ b.models = x /\ b.routes = y /\ b.step = "COMMIT" /\ b.kind = "DELETE" /\ b.locks = {}
  BY <1>13, <1>14, SetRoutes
<1> HIDE DEF b
<1>16. SoundModels(b)
  BY <1>6, <1>12, <1>15 DEF SoundModels
<1>17. SoundRoutes(b)
  BY <1>4, <1>5, <1>7, <1>11, <1>13, <1>15 DEF SoundRoutes
<1> QED BY <1>8, <1>9, <1>10, <1>15, <1>16, <1>17, ProviderStep

\* An activation locks the routes it chose, which no other has locked.
LEMMA ActivateStep ==
    ASSUME LlmInv, NEW q \in Requests, NEW A \in SUBSET Routes, activate_assignments(q, A)
    PROVE  LlmInv'
<1> DEFINE n == [Idle EXCEPT !.step = "SELECT", !.kind = "ACTIVATE", !.target = A, !.locks = A]
<1>1. /\ n \in Request /\ n.step = "SELECT" /\ n.kind = "ACTIVATE" /\ n.target = A /\ n.locks = A
      /\ n.providers = Empty /\ n.models = Empty /\ n.routes = Empty
  BY IdleIsRequest DEF Request, Kinds
<1>2. /\ request' = [request EXCEPT ![q] = n]
      /\ UNCHANGED <<provider, model, route, run, assigned>>
      /\ secret' \subseteq Providers /\ started' \in 0..MaxRequests
  BY DEF activate_assignments, Begin, LlmInv, LlmType
<1> HIDE DEF n
<1>3. A \in Assignments /\ \A r \in A : route[r].state \in {"VALIDATED", "ACTIVE"}
  BY DEF activate_assignments, _assignment_routes
<1>4. DOMAIN Empty = {}
  BY DEF Empty
<1>5. SoundProviders(n) /\ SoundModels(n) /\ SoundRoutes(n)
  BY <1>1, <1>4 DEF SoundProviders, SoundModels, SoundRoutes
<1>6. SoundActivation(n) /\ SoundRegistration(n)
  BY <1>1, <1>3 DEF SoundActivation, SoundRegistration, Registers
<1>7. \A o \in Requests \ {q} : A \cap request[o].locks = {}
  BY DEF activate_assignments, LockedByOther
<1>8. \A o \in Requests \ {q} : Apart(n, request[o]) /\ Apart(request[o], n)
  BY <1>1, <1>4, <1>7 DEF Apart, Registers
<1>9. Sound(n)
  BY <1>5, <1>6 DEF Sound
<1> QED BY <1>1, <1>2, <1>8, <1>9, QuietStep

\* The statement that selects the ACTIVE routes locks nothing yet.
LEMMA SelectStep ==
    ASSUME LlmInv, NEW q \in Requests, activate_selects(q)
    PROVE  LlmInv'
<1> DEFINE rq == request[q]
           seen == {r \in Routes : route[r].state = "ACTIVE"}
           n == [rq EXCEPT !.step = "LOCK", !.scanned = seen]
<1>1. LlmType /\ rq \in Request /\ Sound(rq) /\ seen \in SUBSET Routes
  BY DEF LlmInv, LlmType
<1>2. /\ n \in Request /\ n.step = "LOCK" /\ n.kind = rq.kind /\ n.target = rq.target /\ n.locks = rq.locks
      /\ n.providers = rq.providers /\ n.models = rq.models /\ n.routes = rq.routes
  BY <1>1 DEF Request
<1>3. request' = [request EXCEPT ![q] = n]
  BY DEF activate_selects
<1>4. /\ UNCHANGED <<provider, model, route, run, assigned>>
      /\ secret' \subseteq Providers /\ started' \in 0..MaxRequests /\ rq.step = "SELECT"
  BY <1>1 DEF activate_selects, LlmType
<1> HIDE DEF n
<1>5. SoundProviders(n) /\ SoundModels(n)
  BY <1>1, <1>2 DEF Sound, SoundProviders, SoundModels
<1>6. SoundRoutes(n)
  BY <1>1, <1>2 DEF Sound, SoundRoutes
<1>7. SoundActivation(n) /\ SoundRegistration(n)
  BY <1>1, <1>2, <1>4 DEF Sound, SoundActivation, SoundRegistration, Registers
<1>8. ASSUME NEW o \in Requests \ {q} PROVE Apart(n, request[o]) /\ Apart(request[o], n)
  <2>1. Apart(rq, request[o]) /\ Apart(request[o], rq)
    BY DEF LlmInv
  <2> QED BY <1>2, <2>1 DEF Apart, Registers
<1>9. Sound(n)
  BY <1>5, <1>6, <1>7 DEF Sound
<1> QED BY <1>2, <1>3, <1>4, <1>8, <1>9, QuietStep

\* An activation locks the routes that are still ACTIVE and decides its writes.
LEMMA LockStep ==
    ASSUME LlmInv, NEW q \in Requests, activate_locks(q)
    PROVE  LlmInv'
<1> DEFINE rq == request[q]
           A == rq.target
           current == {r \in rq.scanned : route[r].state = "ACTIVE"}
           changed == (current \ A) \cup {r \in A : route[r].state # "ACTIVE"}
           State(r) == IF r \in A THEN "ACTIVE" ELSE "SUPERSEDED"
           f == [r \in changed |-> [route[r] EXCEPT !.state = IF r \in A THEN "ACTIVE" ELSE "SUPERSEDED",
                                                    !.version = @ + 1]]
           x == [r \in changed |-> [was |-> route[r].version, row |-> f[r]]]
           a == [rq EXCEPT !.step = "COMMIT", !.locks = rq.locks \cup current, !.scanned = {}]
           n == [a EXCEPT !.routes = x]
<1>1. LlmType /\ rq \in Request /\ Sound(rq)
  BY DEF LlmInv, LlmType
<1>2. rq.step = "LOCK" /\ rq.scanned \cap LockedByOther(q) = {}
  BY DEF activate_locks
<1>3. /\ rq.kind = "ACTIVATE" /\ A \in Assignments /\ A \subseteq rq.locks
      /\ \A r \in A : route[r].state \in {"VALIDATED", "ACTIVE"}
  BY <1>1, <1>2 DEF Sound, SoundActivation
<1>4. rq.locks \subseteq Routes /\ rq.scanned \subseteq Routes
  BY <1>1, RequestFields
<1>5. current \in SUBSET Routes /\ changed \in SUBSET Routes
  BY <1>3, <1>4
<1>6. /\ a \in Request /\ a.step = "COMMIT" /\ a.kind = rq.kind /\ a.target = A /\ a.locks = rq.locks \cup current
      /\ a.providers = rq.providers /\ a.models = rq.models
  BY <1>1, <1>4, <1>5 DEF Request
<1>7. \A r \in Routes : route[r] \in Route /\ route[r].version \in Nat
  BY <1>1 DEF LlmType, Route
<1>8. ASSUME NEW r \in changed
      PROVE  f[r] \in Route /\ f[r].version = route[r].version + 1 /\ (r \in A => f[r].state = "ACTIVE")
  <2>1. route[r] \in Route /\ State(r) \in {"NONE", "DRAFT", "VALIDATED", "ACTIVE", "SUPERSEDED"}
    BY <1>5, <1>7
  <2>2. f[r] = RouteRow(route[r], State(r))
    BY DEF RouteRow
  <2>3. r \in A => State(r) = "ACTIVE"
    OBVIOUS
  <2> HIDE DEF f, State
  <2> QED BY <2>1, <2>2, <2>3, RouteRows
<1>9. f \in [changed -> Route]
  <2>1. f = [r \in changed |-> f[r]]
    OBVIOUS
  <2> HIDE DEF f
  <2> QED BY <1>8, <2>1
<1>10. \A r \in changed : route[r].state # "SUPERSEDED"
  BY <1>3
<1>11. \A r \in A : r \notin changed => route[r].state = "ACTIVE"
  OBVIOUS
<1>12. /\ request' = [request EXCEPT ![q] = n]
       /\ UNCHANGED <<provider, model, route, run, assigned>>
       /\ secret' \subseteq Providers /\ started' \in 0..MaxRequests
  <2>1. request' = [request EXCEPT ![q] = n]
    BY DEF activate_locks, WritesRoutes
  <2>2. secret' \subseteq Providers /\ started' \in 0..MaxRequests
    BY <1>1 DEF activate_locks, LlmType
  <2>3. UNCHANGED <<provider, model, route, run, assigned>>
    BY DEF activate_locks
  <2> QED BY <2>1, <2>2, <2>3
<1>13. \A o \in Requests \ {q} : current \cap request[o].locks = {}
  BY <1>2 DEF LockedByOther
<1> HIDE DEF f, current, changed, a
<1>14. x \in RouteWrites /\ DOMAIN x = changed /\ \A r \in changed : x[r].was = route[r].version /\ x[r].row = f[r]
  BY <1>1, <1>5, <1>9, RouteWritesFields
<1> HIDE DEF x
<1>15. /\ n \in Request /\ n.step = "COMMIT" /\ n.kind = "ACTIVATE" /\ n.target = A
       /\ n.locks = rq.locks \cup current
       /\ n.providers = rq.providers /\ n.models = rq.models /\ n.routes = x
  BY <1>3, <1>6, <1>14, SetRoutes
<1> HIDE DEF n
<1>16. SoundProviders(n) /\ SoundModels(n)
  BY <1>1, <1>15 DEF Sound, SoundProviders, SoundModels
<1>17. SoundRoutes(n)
  BY <1>5, <1>7, <1>8, <1>10, <1>14, <1>15 DEF SoundRoutes
<1>18. SoundActivation(n) /\ SoundRegistration(n)
  BY <1>3, <1>8, <1>11, <1>14, <1>15 DEF SoundActivation, SoundRegistration, Registers
<1>19. ASSUME NEW o \in Requests \ {q} PROVE Apart(n, request[o]) /\ Apart(request[o], n)
  <2>1. Apart(rq, request[o]) /\ Apart(request[o], rq)
    BY DEF LlmInv
  <2> QED BY <1>13, <1>15, <2>1 DEF Apart, Registers
<1>20. Sound(n)
  BY <1>16, <1>17, <1>18 DEF Sound
<1> QED BY <1>12, <1>15, <1>19, <1>20, QuietStep

-----------------------------------------------------------------------------
(***************************************************************************)
(* Commit.  The versions of what is written were those that were read, so   *)
(* what the invariant says of current writes holds of the rows.            *)
(***************************************************************************)

\* What a commit makes of each row.
LEMMA CommitEffect ==
    ASSUME LlmInv, NEW q \in Requests, Commit(q)
    PROVE  /\ provider' \in [Providers -> Provider] /\ model' \in [Models -> Model] /\ route' \in [Routes -> Route]
           /\ \A p \in Providers :
                  \/ provider'[p] = provider[p]
                  \/ /\ p \in DOMAIN request[q].providers
                     /\ provider'[p].version = provider[p].version + 1
                     /\ ~provider[p].deleted
                     /\ provider'[p].deleted => provider'[p].state = "DISABLED"
           /\ \A m \in Models : model'[m] = model[m] \/ model'[m].version = model[m].version + 1
           /\ \A r \in Routes :
                  \/ r \notin DOMAIN request[q].routes /\ route'[r] = route[r]
                  \/ /\ r \in DOMAIN request[q].routes
                     /\ route'[r] = request[q].routes[r].row
                     /\ route'[r].version = route[r].version + 1
                     /\ route[r].state # "SUPERSEDED"
                     /\ request[q].kind # "ACTIVATE" => route[r].state # "ACTIVE" /\ route'[r].state # "ACTIVE"
<1> DEFINE rq == request[q]
<1>1. rq \in Request /\ Sound(rq) /\ Fresh(q)
  BY DEF LlmInv, LlmType, Commit, Accepted
<1>2. /\ provider \in [Providers -> Provider] /\ model \in [Models -> Model] /\ route \in [Routes -> Route]
  BY DEF LlmInv, LlmType
<1>3. /\ DOMAIN rq.providers \subseteq Providers
      /\ \A p \in DOMAIN rq.providers : rq.providers[p].row \in Provider
      /\ DOMAIN rq.models \subseteq Models
      /\ \A m \in DOMAIN rq.models : rq.models[m].row \in Model
      /\ DOMAIN rq.routes \subseteq Routes
      /\ \A r \in DOMAIN rq.routes : rq.routes[r].row \in Route
  BY <1>1, RequestFields
<1>4. /\ provider' = [p \in Providers |-> IF p \in DOMAIN rq.providers THEN rq.providers[p].row ELSE provider[p]]
      /\ model' = [m \in Models |-> IF m \in DOMAIN rq.models THEN rq.models[m].row ELSE model[m]]
      /\ route' = [r \in Routes |-> IF r \in DOMAIN rq.routes THEN rq.routes[r].row ELSE route[r]]
  BY <1>2 DEF Commit, Written
<1> HIDE DEF rq
<1>5. provider' \in [Providers -> Provider] /\ model' \in [Models -> Model] /\ route' \in [Routes -> Route]
  BY <1>2, <1>3, <1>4
<1>6. ASSUME NEW p \in Providers
      PROVE  \/ provider'[p] = provider[p]
             \/ /\ p \in DOMAIN rq.providers
                /\ provider'[p].version = provider[p].version + 1
                /\ ~provider[p].deleted
                /\ provider'[p].deleted => provider'[p].state = "DISABLED"
  <2>1. CASE p \notin DOMAIN rq.providers
    BY <1>4, <2>1
  <2>2. CASE p \in DOMAIN rq.providers
    <3>1. provider'[p] = rq.providers[p].row
      BY <1>4, <2>2
    <3>2. rq.providers[p].was = provider[p].version
      BY <1>1, <2>2 DEF Fresh, rq
    <3> QED BY <1>1, <2>2, <3>1, <3>2 DEF Sound, SoundProviders
  <2> QED BY <2>1, <2>2
<1>7. ASSUME NEW m \in Models PROVE model'[m] = model[m] \/ model'[m].version = model[m].version + 1
  <2>1. CASE m \notin DOMAIN rq.models
    BY <1>4, <2>1
  <2>2. CASE m \in DOMAIN rq.models
    <3>1. model'[m] = rq.models[m].row
      BY <1>4, <2>2
    <3>2. rq.models[m].was = model[m].version
      BY <1>1, <2>2 DEF Fresh, rq
    <3> QED BY <1>1, <2>2, <3>1, <3>2 DEF Sound, SoundModels
  <2> QED BY <2>1, <2>2
<1>8. ASSUME NEW r \in Routes
      PROVE  \/ r \notin DOMAIN rq.routes /\ route'[r] = route[r]
             \/ /\ r \in DOMAIN rq.routes
                /\ route'[r] = rq.routes[r].row
                /\ route'[r].version = route[r].version + 1
                /\ route[r].state # "SUPERSEDED"
                /\ rq.kind # "ACTIVATE" => route[r].state # "ACTIVE" /\ route'[r].state # "ACTIVE"
  <2>1. CASE r \notin DOMAIN rq.routes
    BY <1>4, <2>1
  <2>2. CASE r \in DOMAIN rq.routes
    <3>1. route'[r] = rq.routes[r].row
      BY <1>4, <2>2
    <3>2. rq.routes[r].was = route[r].version
      BY <1>1, <2>2 DEF Fresh, rq
    <3> QED BY <1>1, <2>2, <3>1, <3>2 DEF Sound, SoundRoutes
  <2> QED BY <2>1, <2>2
<1> QED BY <1>5, <1>6, <1>7, <1>8 DEF rq

\* An assignment has a route for every role.
LEMMA RoleIsAssigned ==
    ASSUME NEW A \in Assignments, NEW role \in Roles
    PROVE  \E s \in A : Role[s] = role
<1>1. Cardinality({s \in A : Role[s] = role}) = 1
  BY DEF Assignments
<1>2. Cardinality({}) = 0
  BY FS_EmptySet
<1>3. Cardinality({s \in A : Role[s] = role}) # Cardinality({})
  BY <1>1, <1>2
<1>4. {s \in A : Role[s] = role} # {}
  BY <1>3, Zenon
<1> QED BY <1>4

\* After an activation the ACTIVE routes are those it was asked for.  The old
\* route of a role is superseded by this commit or was not ACTIVE: otherwise
\* the index on ACTIVE routes would have refused it.
LEMMA CommitAssigns ==
    ASSUME LlmInv, NEW q \in Requests, Commit(q)
    PROVE  OneAssignment'
<1> DEFINE rq == request[q]
<1>1. Sound(rq) /\ OneAssignment /\ rq.step = "COMMIT"
  BY DEF LlmInv, Commit, CanWrite
<1>2. \A r \in Routes :
          \/ r \notin DOMAIN rq.routes /\ route'[r] = route[r]
          \/ /\ r \in DOMAIN rq.routes
             /\ route'[r] = rq.routes[r].row
             /\ rq.kind # "ACTIVATE" => route[r].state # "ACTIVE" /\ route'[r].state # "ACTIVE"
  BY CommitEffect
<1>3. uq_llm_role_routes_active(route')
  BY DEF Commit, Accepted
<1>4. CASE rq.kind = "ACTIVATE"
  <2>1. assigned' = rq.target
    BY <1>4 DEF Commit
  <2>2. /\ rq.target \in Assignments
        /\ \A r \in rq.target : IF r \in DOMAIN rq.routes THEN rq.routes[r].row.state = "ACTIVE"
                                ELSE route[r].state = "ACTIVE"
    BY <1>1, <1>4 DEF Sound, SoundActivation
  <2>3. rq.target \subseteq Routes
    BY <2>2 DEF Assignments
  <2>4. \A r \in rq.target : route'[r].state = "ACTIVE"
    BY <1>2, <2>2, <2>3
  <2>5. ASSUME NEW r \in Routes, route'[r].state = "ACTIVE" PROVE r \in rq.target
    <3>1. Role[r] \in Roles
      OBVIOUS
    <3>2. PICK s \in rq.target : Role[s] = Role[r]
      BY <2>2, <3>1, RoleIsAssigned
    <3>3. r = s
      BY <1>3, <2>3, <2>4, <2>5, <3>2 DEF uq_llm_role_routes_active
    <3> QED BY <3>3
  <2> QED BY <2>1, <2>3, <2>4, <2>5 DEF OneAssignment
<1>5. CASE rq.kind # "ACTIVATE"
  <2>1. assigned' = assigned
    BY <1>5 DEF Commit
  <2>2. \A r \in Routes : route'[r].state = "ACTIVE" <=> route[r].state = "ACTIVE"
    BY <1>2, <1>5
  <2> QED BY <1>1, <2>1, <2>2 DEF OneAssignment
<1> QED BY <1>4, <1>5

\* Another request stays sound: what was written is no longer current for it.
LEMMA CommitKeepsSound ==
    ASSUME LlmInv, NEW q \in Requests, Commit(q), NEW o \in Requests, o # q
    PROVE  Sound(request[o])'
<1> DEFINE rq == request[o]
<1>1. /\ rq \in Request /\ Sound(rq) /\ request'[o] = rq
      /\ Apart(request[o], request[q])
  BY DEF LlmInv, LlmType, Commit
<1>2. /\ \A p \in Providers :
             \/ provider'[p] = provider[p]
             \/ p \in DOMAIN request[q].providers /\ provider'[p].version = provider[p].version + 1
      /\ \A r \in Routes :
             \/ route'[r] = route[r]
             \/ r \in DOMAIN request[q].routes /\ route'[r].version = route[r].version + 1
  BY CommitEffect
<1>3. /\ \A p \in Providers : provider[p].version \in Nat
      /\ \A r \in Routes : route[r].version \in Nat
  BY DEF LlmInv, LlmType, Provider, Route
<1>4. /\ DOMAIN rq.providers \subseteq Providers
      /\ \A p \in DOMAIN rq.providers : rq.providers[p].was \in Nat
      /\ DOMAIN rq.routes \subseteq Routes
      /\ \A r \in DOMAIN rq.routes : rq.routes[r].was \in Nat
      /\ rq.locks \subseteq Routes
  BY <1>1, RequestFields
<1>5. \A r \in rq.locks : route'[r] = route[r]
  <2>1. DOMAIN request[q].routes \cap rq.locks = {}
    BY DEF Commit, CanWrite, LockedByOther
  <2> QED BY <1>2, <1>4, <2>1
<1>6. SoundProviders(rq)'
  <2>1. ASSUME NEW p \in DOMAIN rq.providers
        PROVE  /\ rq.providers[p].was <= provider'[p].version
               /\ rq.providers[p].was = provider'[p].version => ~provider'[p].deleted
    <3>1. /\ rq.providers[p].was <= provider[p].version
          /\ rq.providers[p].was = provider[p].version => ~provider[p].deleted
      BY <1>1 DEF Sound, SoundProviders
    <3>2. provider'[p] = provider[p] \/ provider'[p].version = provider[p].version + 1
      BY <1>2, <1>4
    <3>3. provider[p].version \in Nat /\ rq.providers[p].was \in Nat
      BY <1>3, <1>4
    <3> QED BY <3>1, <3>2, <3>3
  <2> QED BY <1>1, <2>1 DEF Sound, SoundProviders
<1>7. SoundRoutes(rq)'
  <2>1. ASSUME NEW r \in DOMAIN rq.routes
        PROVE  /\ rq.routes[r].was <= route'[r].version
               /\ rq.routes[r].was = route'[r].version =>
                      /\ route'[r].state # "SUPERSEDED"
                      /\ rq.kind # "ACTIVATE" => route'[r].state # "ACTIVE"
    <3>1. /\ rq.routes[r].was <= route[r].version
          /\ rq.routes[r].was = route[r].version =>
                 /\ route[r].state # "SUPERSEDED"
                 /\ rq.kind # "ACTIVATE" => route[r].state # "ACTIVE"
      BY <1>1 DEF Sound, SoundRoutes
    <3>2. route'[r] = route[r] \/ route'[r].version = route[r].version + 1
      BY <1>2, <1>4
    <3>3. route[r].version \in Nat /\ rq.routes[r].was \in Nat
      BY <1>3, <1>4
    <3> QED BY <3>1, <3>2, <3>3
  <2> QED BY <1>1, <2>1 DEF Sound, SoundRoutes
<1>8. SoundModels(rq)'
  BY <1>1 DEF Sound, SoundModels
<1>9. SoundActivation(rq)'
  <2>1. SoundActivation(rq)
    BY <1>1 DEF Sound
  <2>2. rq.kind = "ACTIVATE" => \A r \in rq.target : route'[r] = route[r]
    BY <1>5, <2>1 DEF SoundActivation
  <2> QED BY <1>1, <2>1, <2>2 DEF SoundActivation
<1>10. SoundRegistration(rq)'
  <2>1. ASSUME NEW p \in Providers, Registers(rq, p) PROVE provider'[p].version = 0
    <3>1. p \notin DOMAIN request[q].providers
      BY <1>1, <2>1 DEF Apart
    <3>2. provider[p].version = 0
      BY <1>1, <2>1 DEF Sound, SoundRegistration
    <3> QED BY <1>2, <3>1, <3>2
  <2> QED BY <1>1, <2>1 DEF SoundRegistration, Registers
<1> QED BY <1>6, <1>7, <1>8, <1>9, <1>10 DEF Sound


\* A commit keeps the invariant.
LEMMA CommitStep ==
    ASSUME LlmInv, NEW q \in Requests, Commit(q)
    PROVE  LlmInv'
<1>1. /\ request' = [request EXCEPT ![q] = Idle]
      /\ UNCHANGED <<secret, started, run>>
      /\ assigned' \in {assigned, request[q].target}
      /\ assigned' # assigned => request[q].kind = "ACTIVATE"
  BY DEF Commit
<1>2. /\ request' \in [Requests -> Request] /\ request'[q] = Idle
      /\ \A o \in Requests \ {q} : request'[o] = request[o]
  BY <1>1, IdleIsRequest DEF LlmInv, LlmType
<1>3. Sound(request[q]) /\ (request[q].kind = "ACTIVATE" => request[q].target \subseteq Routes)
  BY DEF LlmInv, Sound, SoundActivation, Assignments
<1>4. LlmType'
  BY <1>1, <1>2, <1>3, CommitEffect DEF LlmInv, LlmType
<1>5. DOMAIN Empty = {}
  BY DEF Empty
<1>6. ASSUME NEW o \in Requests PROVE Sound(request[o])'
  <2>1. CASE o = q
    <3>1. request'[o] = Idle
      BY <1>2, <2>1
    <3> QED BY <1>5, <3>1, IdleIsRequest DEF Sound, SoundProviders, SoundModels, SoundRoutes,
                                             SoundActivation, SoundRegistration, Registers
  <2>2. CASE o # q
    BY <2>2, CommitKeepsSound
  <2> QED BY <2>1, <2>2
<1>7. ASSUME NEW a \in Requests, NEW b \in Requests, a # b PROVE Apart(request[a], request[b])'
  <2>1. \A rq : Apart(Idle, rq) /\ Apart(rq, Idle)
    BY <1>5, IdleIsRequest DEF Apart, Registers
  <2>2. Apart(request'[a], request'[b])
    BY <1>2, <1>7, <2>1 DEF LlmInv
  <2> QED BY <2>2 DEF Apart, Registers
<1>8. RowsFit'
  <2>1. \A p \in Providers :
            \/ provider'[p] = provider[p]
            \/ /\ provider'[p].version = provider[p].version + 1
               /\ provider'[p].deleted => provider'[p].state = "DISABLED"
    BY CommitEffect
  <2>2. \A r \in Routes : route'[r] = route[r] \/ route'[r].version = route[r].version + 1
    BY CommitEffect
  <2>3. /\ \A p \in Providers : provider[p].version \in Nat
        /\ \A r \in Routes : route[r].version \in Nat
    BY DEF LlmInv, LlmType, Provider, Route
  <2> QED BY <2>1, <2>2, <2>3 DEF LlmInv, RowsFit
<1>9. OneAssignment'
  BY CommitAssigns
<1>10. FrozenFits'
  <2>1. \A m \in Models : model'[m] = model[m] \/ model'[m].version = model[m].version + 1
    BY CommitEffect
  <2>2. \A m \in Models : model[m].version \in Nat
    BY DEF LlmInv, LlmType, Model
  <2>3. run.models \in PartialSet(Models, Model)
    BY DEF LlmInv, LlmType, Run
  <2>4. DOMAIN run.models \subseteq Models /\ \A m \in DOMAIN run.models : run.models[m].version \in Nat
    <3>1. DOMAIN run.models \subseteq Models /\ run.models \in [DOMAIN run.models -> Model]
      BY <2>3, PartialSetDef, Zenon
    <3>2. \A row \in Model : row.version \in Nat
      BY DEF Model
    <3> QED BY <3>1, <3>2
  <2>5. FrozenFits
    BY DEF LlmInv
  <2>6. ASSUME NEW m \in DOMAIN run.models
        PROVE  /\ run.models[m].version <= model'[m].version
               /\ run.models[m].version = model'[m].version => run.models[m] = model'[m]
    <3>1. /\ run.models[m].version <= model[m].version
          /\ run.models[m].version = model[m].version => run.models[m] = model[m]
      BY <2>5 DEF FrozenFits
    <3>2. m \in Models /\ model[m].version \in Nat /\ run.models[m].version \in Nat
      BY <2>2, <2>4
    <3>3. model'[m] = model[m] \/ model'[m].version = model[m].version + 1
      BY <2>1, <3>2
    <3> QED BY <3>1, <3>2, <3>3
  <2> QED BY <1>1, <2>5, <2>6 DEF FrozenFits
<1> QED BY <1>4, <1>6, <1>7, <1>8, <1>9, <1>10 DEF LlmInv

-----------------------------------------------------------------------------
(***************************************************************************)
(* The run.                                                                *)
(***************************************************************************)

\* The models of a route.
LEMMA UsesModels ==
    ASSUME NEW r \in Routes
    PROVE  Uses(r) \subseteq Models
BY DEF Uses

\* A step of the run changes nothing else.
LEMMA RunStep ==
    ASSUME LlmInv, run' \in Run, FrozenFits',
           UNCHANGED <<provider, model, route, secret, request, started, assigned>>
    PROVE  LlmInv'
<1>1. LlmType'
  BY DEF LlmInv, LlmType
<1>2. ASSUME NEW q \in Requests PROVE Sound(request[q])'
  BY DEF LlmInv, Sound, SoundProviders, SoundModels, SoundRoutes, SoundActivation, SoundRegistration, Registers
<1>3. ASSUME NEW q \in Requests, NEW o \in Requests, q # o PROVE Apart(request[q], request[o])'
  BY <1>3 DEF LlmInv, Apart, Registers
<1>4. RowsFit' /\ OneAssignment'
  BY DEF LlmInv, RowsFit, OneAssignment
<1> QED BY <1>1, <1>2, <1>3, <1>4 DEF LlmInv

\* A run freezes models that are validated.
LEMMA LoadRoutesStep ==
    ASSUME LlmInv, NEW A \in SUBSET Routes, _load_routes(A)
    PROVE  LlmInv'
<1> DEFINE M == UNION {Uses(r) : r \in A}
           f == [r \in A |-> route[r].version]
           g == [m \in M |-> model[m]]
<1>1. M \subseteq Models
  BY UsesModels
<1>2. \A r \in A : Uses(r) \subseteq M
  OBVIOUS
<1>3. \A m \in M : model[m].state = "VALIDATED"
  BY DEF _load_routes, _assignment_routes, route_dependencies_available
<1>4. /\ \A r \in Routes : route[r].version \in Nat
      /\ \A m \in Models : model[m] \in Model /\ model[m].version \in Nat
  BY DEF LlmInv, LlmType, Route, Model
<1>5. f \in [A -> Nat] /\ DOMAIN f = A
  BY <1>4
<1> HIDE DEF M
<1>6. g \in [M -> Model] /\ DOMAIN g = M /\ \A m \in M : g[m] = model[m]
  BY <1>1, <1>4
<1>7. f \in PartialSet(Routes, Nat) /\ g \in PartialSet(Models, Model)
  BY <1>1, <1>5, <1>6, PartialSetDef
<1>8. /\ run' = [NoRun EXCEPT !.routes = f, !.models = g]
      /\ UNCHANGED <<provider, model, route, secret, request, started, assigned>>
  BY DEF _load_routes, M
<1> HIDE DEF f, g
<1>9. run'.routes = f /\ run'.models = g /\ run'.called = Empty /\ run' \in Run
  BY <1>7, <1>8, EmptyIsPartial DEF NoRun, Run
<1>10. FrozenFits'
  <2>1. \A r \in DOMAIN run'.routes : Uses(r) \subseteq DOMAIN run'.models
    BY <1>2, <1>5, <1>6, <1>9
  <2>2. DOMAIN run'.called = {}
    BY <1>9, EmptyIsPartial
  <2>3. ASSUME NEW m \in DOMAIN run'.models
        PROVE  /\ run'.models[m].state = "VALIDATED"
               /\ run'.models[m].version <= model'[m].version
               /\ run'.models[m] = model'[m]
    <3>1. m \in M /\ run'.models[m] = model[m] /\ model'[m] = model[m]
      BY <1>6, <1>8, <1>9
    <3>2. model[m].version \in Nat /\ model[m].state = "VALIDATED"
      BY <1>1, <1>3, <1>4, <3>1
    <3> QED BY <3>1, <3>2
  <2> QED BY <2>1, <2>2, <2>3 DEF FrozenFits
<1> QED BY <1>8, <1>9, <1>10, RunStep

\* A stage that finds the versions that were frozen calls what was frozen.
LEMMA BindingStep ==
    ASSUME LlmInv, NEW r \in Routes, _binding(r)
    PROVE  LlmInv'
<1> DEFINE g == [m \in Uses(r) |-> model[m]]
<1>1. Uses(r) \subseteq Models
  BY UsesModels
<1>2. /\ \A m \in Models : model[m] \in Model
      /\ run \in Run /\ FrozenFits
  BY DEF LlmInv, LlmType
<1>3. g \in [Uses(r) -> Model] /\ DOMAIN g = Uses(r) /\ \A m \in Uses(r) : g[m] = model[m]
  BY <1>1, <1>2
<1>4. g \in PartialSet(Models, Model)
  BY <1>1, <1>3, PartialSetDef
<1>5. /\ run' = [run EXCEPT !.called = g]
      /\ UNCHANGED <<provider, model, route, secret, request, started, assigned>>
      /\ r \in DOMAIN run.routes /\ \A m \in Uses(r) : model[m].version = run.models[m].version
  BY DEF _binding
<1> HIDE DEF g
<1>6. run'.routes = run.routes /\ run'.models = run.models /\ run'.called = g /\ run' \in Run
  BY <1>2, <1>4, <1>5 DEF Run
<1>7. \A m \in Uses(r) : m \in DOMAIN run.models /\ run.models[m] = model[m]
  BY <1>2, <1>5 DEF FrozenFits
<1>8. FrozenFits'
  BY <1>2, <1>3, <1>5, <1>6, <1>7 DEF FrozenFits
<1> QED BY <1>5, <1>6, <1>8, RunStep

-----------------------------------------------------------------------------
(***************************************************************************)
(* The initial states.                                                     *)
(***************************************************************************)

NoProvider == [NewProvider EXCEPT !.state = "NONE", !.version = 0]
AbsentModel == [NewModel EXCEPT !.state = "NONE", !.version = 0]

\* The initial states in which something is configured.
Serves(p, A, drafts) ==
    /\ provider = [x \in Providers |-> IF x = p THEN Registered ELSE NoProvider]
    /\ model = [m \in Models |-> IF ProviderOf[m] = p THEN [state |-> "VALIDATED", upgraded |-> FALSE, version |-> 2]
                                 ELSE AbsentModel]
    /\ \A r \in Routes : \A m \in Uses(r) : ProviderOf[m] = p
    /\ route = [r \in Routes |-> CASE r \in A -> [state |-> "ACTIVE", version |-> 3]
                                   [] r \in drafts -> [state |-> "DRAFT", version |-> 1]
                                   [] OTHER -> [state |-> "VALIDATED", version |-> 2]]
    /\ secret = {p}
    /\ assigned = A

\* Rows of the initial states.
LEMMA InitialRows ==
    /\ NoProvider \in Provider /\ NoProvider.version = 0 /\ ~NoProvider.deleted
    /\ Registered \in Provider /\ Registered.version = 1 /\ ~Registered.deleted
    /\ AbsentModel \in Model
    /\ [state |-> "VALIDATED", upgraded |-> FALSE, version |-> 2] \in Model
    /\ [state |-> "NONE", version |-> 0] \in Route
    /\ [state |-> "ACTIVE", version |-> 3] \in Route
    /\ [state |-> "DRAFT", version |-> 1] \in Route
    /\ [state |-> "VALIDATED", version |-> 2] \in Route
BY DEF NoProvider, AbsentModel, Registered, NewProvider, NewModel, Provider, Model, Route

\* The tables are typed, no provider is deleted, and the ACTIVE routes are the
\* assignment in use.
LEMMA InitialTables ==
    ASSUME Init
    PROVE  /\ provider \in [Providers -> Provider] /\ model \in [Models -> Model] /\ route \in [Routes -> Route]
           /\ secret \subseteq Providers /\ assigned \subseteq Routes
           /\ RowsFit /\ OneAssignment
<1>1. CASE /\ provider = [p \in Providers |-> NoProvider]
           /\ model = [m \in Models |-> AbsentModel]
           /\ route = [r \in Routes |-> [state |-> "NONE", version |-> 0]]
           /\ secret = {} /\ assigned = {}
  <2>1. provider \in [Providers -> Provider] /\ model \in [Models -> Model] /\ route \in [Routes -> Route]
    BY <1>1, InitialRows
  <2>2. \A p \in Providers : ~provider[p].deleted
    BY <1>1, InitialRows
  <2>3. \A r \in Routes : route[r].state = "NONE"
    BY <1>1
  <2> QED BY <1>1, <2>1, <2>2, <2>3 DEF RowsFit, OneAssignment
<1>2. ASSUME NEW p \in Providers \ Mock, NEW A \in Assignments \cup {{}}, NEW drafts \in SUBSET (Routes \ A),
             Serves(p, A, drafts)
      PROVE  /\ provider \in [Providers -> Provider] /\ model \in [Models -> Model] /\ route \in [Routes -> Route]
             /\ secret \subseteq Providers /\ assigned \subseteq Routes
             /\ RowsFit /\ OneAssignment
  <2>1. provider \in [Providers -> Provider] /\ \A x \in Providers : ~provider[x].deleted
    BY <1>2, InitialRows DEF Serves
  <2>2. model \in [Models -> Model]
    BY <1>2, InitialRows DEF Serves
  <2>3. A \subseteq Routes
    BY DEF Assignments
  <2>4. ASSUME NEW r \in Routes
        PROVE  route[r] \in Route /\ route[r].version # 0 /\ (route[r].state = "ACTIVE" <=> r \in A)
    <3>1. CASE r \in A
      <4>1. route[r] = [state |-> "ACTIVE", version |-> 3]
        BY <1>2, <3>1 DEF Serves
      <4> QED BY <3>1, <4>1, InitialRows
    <3>2. CASE r \in drafts
      <4>1. route[r] = [state |-> "DRAFT", version |-> 1] /\ r \notin A
        BY <1>2, <3>2 DEF Serves
      <4> QED BY <4>1, InitialRows
    <3>3. CASE r \notin A /\ r \notin drafts
      <4>1. route[r] = [state |-> "VALIDATED", version |-> 2]
        BY <1>2, <3>3 DEF Serves
      <4> QED BY <3>3, <4>1, InitialRows
    <3> QED BY <3>1, <3>2, <3>3
  <2>5. route \in [Routes -> Route]
    <3>1. route = [r \in Routes |-> route[r]]
      BY <1>2 DEF Serves
    <3> QED BY <2>4, <3>1
  <2>6. RowsFit
    BY <2>1, <2>4 DEF RowsFit
  <2>7. OneAssignment
    BY <1>2, <2>3, <2>4 DEF OneAssignment, Serves
  <2> QED BY <1>2, <2>1, <2>2, <2>3, <2>5, <2>6, <2>7 DEF Serves
<1>3. CASE \E p \in Providers \ Mock, A \in Assignments \cup {{}} : \E drafts \in SUBSET (Routes \ A) : Serves(p, A, drafts)
  BY <1>2, <1>3, Zenon
<1>4. \/ /\ provider = [p \in Providers |-> NoProvider]
         /\ model = [m \in Models |-> AbsentModel]
         /\ route = [r \in Routes |-> [state |-> "NONE", version |-> 0]]
         /\ secret = {} /\ assigned = {}
      \/ \E p \in Providers \ Mock, A \in Assignments \cup {{}} : \E drafts \in SUBSET (Routes \ A) : Serves(p, A, drafts)
  BY Zenon DEF Init, NoProvider, AbsentModel, Serves
<1> QED BY <1>1, <1>3, <1>4

\* The invariant holds at the start.
LEMMA InitEstablishesLlmInv ==
    ASSUME Init
    PROVE  LlmInv
<1>1. request = [q \in Requests |-> Idle] /\ started = 0 /\ run = NoRun
  BY DEF Init
<1>2. DOMAIN Empty = {}
  BY DEF Empty
<1>3. request \in [Requests -> Request] /\ \A q \in Requests : request[q] = Idle
  BY <1>1, IdleIsRequest
<1>4. run \in Run /\ run.routes = Empty /\ run.models = Empty /\ run.called = Empty
  BY <1>1, EmptyIsPartial DEF Run, NoRun
<1>5. Sound(Idle)
  BY <1>2, IdleIsRequest DEF Sound, SoundProviders, SoundModels, SoundRoutes, SoundActivation,
                             SoundRegistration, Registers
<1>6. Apart(Idle, Idle)
  BY <1>2, IdleIsRequest DEF Apart, Registers
<1>7. FrozenFits
  BY <1>2, <1>4 DEF FrozenFits
<1>8. LlmType
  BY <1>1, <1>3, <1>4, InitialTables DEF LlmType
<1> QED BY <1>3, <1>5, <1>6, <1>7, <1>8, InitialTables DEF LlmInv

-----------------------------------------------------------------------------
(***************************************************************************)
(* The theorems.                                                           *)
(***************************************************************************)

\* Every step keeps the invariant.
LEMMA LlmStep ==
    ASSUME LlmInv, [Next]_vars
    PROVE  LlmInv'
<1>1. CASE UNCHANGED vars
  <2>1. FrozenFits' /\ run' \in Run
    BY <1>1 DEF vars, LlmInv, LlmType, FrozenFits
  <2> QED BY <1>1, <2>1, RunStep DEF vars
<1>2. ASSUME NEW q \in Requests, RequestStep(q) PROVE LlmInv'
  <2>1. ASSUME \/ register_conflicts(q) \/ Rollback(q) \/ CommitFails(q) \/ Crash(q) PROVE LlmInv'
    <3>1. /\ request' = [request EXCEPT ![q] = Idle]
          /\ UNCHANGED <<provider, model, route, run, assigned, started>>
          /\ secret' \subseteq secret
      BY <2>1 DEF register_conflicts, Rollback, CommitFails, Crash
    <3>2. secret' \subseteq Providers
      BY <3>1 DEF LlmInv, LlmType
    <3> QED BY <3>1, <3>2, IdleStep
  <2> QED BY <1>2, <2>1, CreateProviderStep, RegisterStep, RegisterInsertsStep, UpdateProviderStep,
             SyncDiscoversStep, DeleteProviderStep, ModelOperations, RouteOperations,
             ActivateStep, SelectStep, LockStep, CommitStep, Zenon DEF RequestStep
<1>3. ASSUME NEW A \in SUBSET Routes, _load_routes(A) PROVE LlmInv'
  BY <1>3, LoadRoutesStep
<1>4. ASSUME NEW r \in Routes, _binding(r) PROVE LlmInv'
  BY <1>4, BindingStep
<1> QED BY <1>1, <1>2, <1>3, <1>4, Zenon DEF Next

\* The inductive invariant is an invariant.
LEMMA LlmInvariant == Spec => []LlmInv
<1>1. Init => LlmInv
  BY InitEstablishesLlmInv
<1>2. LlmInv /\ [Next]_vars => LlmInv'
  BY LlmStep
<1> QED BY <1>1, <1>2, PTL DEF Spec

\* Type correctness: every request reads and writes rows of the tables, and
\* the counters stay within their bounds.
THEOREM LlmTypeCorrect == Spec => []TypeOK
<1>1. LlmInv => TypeOK
  <2> SUFFICES ASSUME LlmInv PROVE TypeOK
    OBVIOUS
  <2>1. LlmType
    BY DEF LlmInv
  <2>2. ASSUME NEW q \in Requests
        PROVE  /\ request[q].step \in {"IDLE", "DISCOVER", "SELECT", "LOCK", "COMMIT"}
               /\ PartialOf(request[q].providers, Providers, Write(Provider))
               /\ PartialOf(request[q].models, Models, Write(Model))
               /\ PartialOf(request[q].routes, Routes, Write(Route))
               /\ request[q].locks \subseteq Routes
    <3>1. request[q] \in Request
      BY <2>1 DEF LlmType
    <3>2. /\ request[q].step \in {"IDLE", "DISCOVER", "SELECT", "LOCK", "COMMIT"}
          /\ request[q].providers \in ProviderWrites /\ request[q].models \in ModelWrites
          /\ request[q].routes \in RouteWrites /\ request[q].locks \subseteq Routes
      BY <3>1 DEF Request
    <3> QED BY <3>2, PartialSetDef DEF PartialOf, ProviderWrites, ModelWrites, RouteWrites
  <2>3. /\ PartialOf(run.routes, Routes, Nat)
        /\ PartialOf(run.models, Models, Model) /\ PartialOf(run.called, Models, Model)
    <3>1. /\ run.routes \in PartialSet(Routes, Nat) /\ run.models \in PartialSet(Models, Model)
          /\ run.called \in PartialSet(Models, Model)
      BY <2>1 DEF LlmType, Run
    <3> QED BY <3>1, PartialSetDef DEF PartialOf
  <2> QED BY <2>1, <2>2, <2>3 DEF LlmType, TypeOK
<1> QED BY <1>1, LlmInvariant, PTL

\* The ACTIVE routes are always those of the last activation that was
\* committed (activate_assignments and the index on ACTIVE routes).
THEOREM OneAssignmentAlways == Spec => []OneAssignment
<1>1. LlmInv => OneAssignment
  BY DEF LlmInv
<1> QED BY <1>1, LlmInvariant, PTL

\* A stage of a run always calls what the run was admitted with, although
\* _binding compares nothing but versions.
THEOREM FrozenIsCalled == Spec => []CallsWhatWasFrozen
<1>1. LlmInv => CallsWhatWasFrozen
  BY DEF LlmInv, FrozenFits, CallsWhatWasFrozen
<1> QED BY <1>1, LlmInvariant, PTL

\* Nothing that committed late brings a superseded route or a deleted provider
\* back: its version is no longer the one that was read.
THEOREM NothingComesBack == Spec => RetiredStaysRetired
<1> DEFINE Kept == /\ \A r \in Routes : route[r].state = "SUPERSEDED" => route'[r].state = "SUPERSEDED"
                   /\ \A p \in Providers : provider[p].deleted => provider'[p].deleted /\ provider'[p].state = "DISABLED"
<1>1. LlmInv /\ [Next]_vars => [Kept]_vars
  <2> SUFFICES ASSUME LlmInv, Next PROVE Kept
    OBVIOUS
  <2>1. RowsFit
    BY DEF LlmInv
  <2>2. CASE UNCHANGED <<provider, route>>
    BY <2>1, <2>2 DEF RowsFit
  <2>3. ASSUME NEW q \in Requests, Commit(q) PROVE Kept
    <3>1. /\ \A p \in Providers : provider'[p] = provider[p] \/ ~provider[p].deleted
          /\ \A r \in Routes : route'[r] = route[r] \/ route[r].state # "SUPERSEDED"
      BY <2>3, CommitEffect
    <3> QED BY <2>1, <3>1 DEF RowsFit
  <2>4. ASSUME NEW q \in Requests, RequestStep(q), ~Commit(q) PROVE UNCHANGED <<provider, route>>
    BY <2>4 DEF RequestStep, create_provider, register_provider_with_discovery, register_inserts,
        register_conflicts, sync_provider_models, sync_discovers, test_provider, set_provider_credential,
        delete_provider, create_model, validate_model, disable_model, create_route, validate_route,
        activate_assignments, activate_selects, activate_locks, Rollback, CommitFails, Crash, Begin
  <2>5. ASSUME NEW A, _load_routes(A) PROVE UNCHANGED <<provider, route>>
    BY <2>5 DEF _load_routes
  <2>6. ASSUME NEW r, _binding(r) PROVE UNCHANGED <<provider, route>>
    BY <2>6 DEF _binding
  <2> QED BY <2>2, <2>3, <2>4, <2>5, <2>6, Zenon DEF Next
<1> QED BY <1>1, LlmInvariant, PTL DEF Spec, RetiredStaysRetired

=============================================================================
