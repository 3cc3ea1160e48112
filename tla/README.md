# Verification of the uapi Terraform provider

TLA+ models of the parts of this provider whose behaviour over time is hard to
test: the retry loop of the HTTP client, the life of a resource from plan to apply
under edits by others, the attributes of the generated resources and the rules that
generate them, which item on the router belongs to which resource, and packages. TLC
checks each model on small instances. TLAPS proves the main theorems for every value of
the constants.

- [1. The system](#1-the-system)
- [2. Modules](#2-modules)
- [3. The client](#3-the-client)
- [4. The life of a resource](#4-the-life-of-a-resource)
- [5. Packages](#5-packages)
- [6. Generated resources](#6-generated-resources)
- [7. Ownership of items](#7-ownership-of-items)
- [8. Runs](#8-runs)
- [9. Theorems](#9-theorems)
- [10. Disagreements between code and documentation](#10-disagreements-between-code-and-documentation)
- [11. What is taken for granted](#11-what-is-taken-for-granted)
- [12. Not modelled](#12-not-modelled)

To repeat a run: `tlc -config InterfaceScope.cfg MCResourceLifecycle`. To repeat
the proofs: `tlapm UapiClientProofs.tla`, and the same for `LifecycleProofs`,
`ApplyProofs`, `CallsProofs`, `PackageProofs`, `ContentIdsProofs`, `GeneratorProofs` and
`GeneratedProofs`.

## 1. The system

The provider is one process that Terraform starts. It keeps no state of its own
between requests: what lasts is the Terraform state file and the router. uapi, the
REST server on the router, is not in this repository. It is modelled from what the
client and the resources rely on, and from the mock server of the tests
(`internal/provider/mock_uapi_test.go`).

| Component | State | Operations | Meets the others through | What is hard | What makes it correct |
|---|---|---|---|---|---|
| request loop (`client.go` `do`, `replayPost`, `retryWait`) | per call: attempt, deadline, idempotency key, connection | send, retry after 423/429, replay a POST, give up | called by every resource, from many goroutines; contends for the package lock of uapi | lost, late and repeated requests; time; cancellation | a call acts at most once, its verdict can be believed, it ends, writers of one package drain through |
| list paging (`GetList`) | cursor, page count | fetch pages | three data sources | entries move between pages; page cap | each entry once, or an error |
| section resources (`network_interface`, wireless, firewall, dhcp ...) | Terraform state with ETag; section on the router | validate, plan, create, read, update, delete, import | uapi CRUD with If-Match | stale ETags, lost answers, values unknown while planning, proto switches | the result fits the plan, no edit is clobbered, what is not configured survives, runs converge |
| field scope and plan modifiers | none (pure) | `excluded`, `validateConfig`, `modifyPlan`, `patches` | called by each plan | three plans of one change have to agree: with unknowns, with all known, and the result | as above |
| conversions (`helpers.go`) | none (pure) | `put*`, `listValKeepEmpty`, `mergeDelta` | between plan and request | null, unknown, empty and unset are four things | the merged difference is the plan |
| singletons (`system`, `dhcp_dnsmasq` ...) | section that always exists | PATCH for create and update, forget for delete | as above | a create over what others configured | what is not configured survives |
| import and adoption | id in the state | resolve, adopt, Read | uapi adopt | rename between two requests | the section ends in the state once |
| packages | `pre_existed` in the state; installed set | GET then POST, GET, DELETE | apk through uapi | two requests that are not atomic; who installed it | destroy removes its own and nothing else |
| package feeds, cron jobs, authorized keys | id from the content | POST, GET, DELETE | uapi | two resources of one content | destroy takes only its own |
| system password | version | POST | uapi | write only | one change for each version |
| ephemeral token | none stored | mint, revoke | uapi tokens | lost answer, same name | a token outlives its run only by a lost answer or a dead run |
| state upgrades | saved state | three conversions | once per upgrade | old and new shape mixed | idempotent, loses nothing |
| code generator (`internal/gen`) | none (pure) | classify a property, emit schema, body and read, read the scope of a discriminator | writes the generated resources | union types, write-only and clear-on-omit flags, several allOf entries | what is emitted reads back what it sends, or is refused |
| provider configuration, data sources, peer warning | none | read once | - | no behaviour over time | - |

`PROJECT.json` says of each part whether it is modelled, partly, or not, and why. It
also lists the hazards at their lines, with the properties that cover them. A hazard
without a property says why.

## 2. Modules

| Module | Models |
|---|---|
| `CallContract` | abstract: what one call of the client promises its caller |
| `UapiClient` | the retry loop, the network and the package lock, in ticks; implements `CallContract` |
| `MCUapiClient` | the methods of two or four calls |
| `UapiClientProofs` | theorems about `UapiClient` |
| `AttributePlan` | pure: plan, request, storage and answer of attribute values |
| `ResourceLifecycle` | one resource through runs of Terraform; uses `AttributePlan` |
| `MCResourceLifecycle` | small schemas, one field for each attribute class |
| `LifecycleProofs`, `ApplyProofs` | theorems about `AttributePlan` and `ResourceLifecycle`: types and entity tags; what an apply leaves alone and how it ends |
| `ResourceCalls`, `MCResourceCalls` | the writes of a resource as calls with the promises of `CallContract`; implements `ResourceLifecycle` |
| `CallsProofs` | theorems about `ResourceCalls` |
| `ScopeTable` | pure: the generator's table of the fields a proto does not take, and uapi's own |
| `PackageResource`, `MCPackage`, `PackageProofs` | `uapi_package` |
| `WireValues` | pure: the conversions of `helpers.go` and `state_upgrades.go` between JSON and Terraform |
| `Generator`, `GeneratorProofs` | pure: what `internal/gen` makes of one property of a schema; theorems about it and about `ScopeTable` |
| `ResourceCatalog` | the 42 generated resources: their attributes by class, and their handlers |
| `GeneratedResource`, `MCGenerated`, `GeneratedProofs` | one attribute of a generated resource through runs and state upgrades; uses the three above |
| `OwnedItems` | abstract: what Terraform may do with the items of a collection it shares |
| `ContentIds`, `MCContentIds` | who has which cron job, key, feed, token or section, with ids that follow from the content, that a block chooses or that uapi gives; implements `OwnedItems` |
| `ContentIdsProofs` | theorems about `ContentIds` |

Some modules hold definitions whose names say what is wrong with them
(`MayReplayAnything`, `modifyPlanForgetsEntering`, `AnyETag` ...), beside the ones they
vary. They are plausible slips. `PROJECT.json` pairs each property of a passing run
with one of them, and with the slip in place the property fails. No other definition
uses them.

## 3. The client

**State.** `pc[c]` is where `do` is for call `c`: in `http.Client.Do` or reading the
body (`sent`), in the wait after a 423 or 429 (`throttled`), in `replayPost`
(`replaying`). `attempt` is the loop variable. `elapsed` counts from the first
retryable failure and stands for `deadline`, which is set there and shared by all
kinds of failure. `timer` is what is left of the client timeout or of the wait.
`requests` are those sent and not yet seen by uapi, a set without order: they may be
late, dropped, or seen twice. `lock` is the request that executes under the package
lock. `keyed` are the calls whose idempotency key has an answer in uapi's cache.

**Actions.** `Begin` and `Resend` are the top of the loop; `ReceiveThrottled` is the
423/429 branch with `retryWait`; `ReceiveFinal` is every other answer;
`LoseConnection` is a transport error or a body that breaks off, with `replayPost` for
a POST; `Timeout` is the 60 s of `http.Client`, which `replayPost` does not replay;
`SeeCancelled` is a done context in any of the three places. `Read`, `TakeLock`,
`Throttle`, `Commit` and `Refuse` are uapi; `Tick` is time. `Quiet` stutters when every
call has returned and nothing is on the way, so that any other end is a deadlock that
TLC reports.

**Time.** A tick does not pass while the provider can react: timers fire on time and
an answer that arrived is read. The model does not describe a process that is
suspended for minutes.

**Abstract specification.** In `CallContract` a call is invoked, takes effect at most
once, and returns `ok`, `refused` or `unknown`. `KeepsContract` maps `pc`, `applied` and
`outcome` onto it. What the contract leaves weak is weak in the code:

- After `unknown` the effect may still come: a request that was given up may be late.
- A create may be `refused` although it took effect. Its first transmission was applied
  and not answered, and the replay is answered 423 until the budget ends.

**Properties.**

- `AtMostOnce`: README.md 200, "a retried POST cannot duplicate a resource".
- `RefusalIsFinal`: after an error, a write that is not a create did not happen and has
  no copy on its way.
- `BoundedRetrying`: the budget, one wait and one request bound the time spent retrying.
  The budget alone does not: the deadline is tested before the wait, so that a request
  can go out after it (section 10).
- `Termination`: a call returns, whatever network and server do.
- `EveryoneServed`: with a prompt server, contending writers all get through.

**Fairness.** `FairSpec` has weak fairness of `Tick` and of each call's own steps:
goroutines are scheduled and timers fire. Nothing is assumed of network or server.
`EveryoneServed` also needs a server that goes on and callers that start
(`PromptSpec`); it is a statement about lock contention alone, so its run has no other
fault, and the budget is 7 ticks for three writers that hold the lock for 1 tick each.

**Bounds.** Under the faults: two calls, two retries, a budget of 2 ticks, a timeout of
1, a wait of 0 (a `Retry-After: 0`) or 1. Two calls are enough for a late request of one to
meet the lock held by the other; two retries give a replay of a replay and a throttled
replay. Of the code's numbers (a budget of 45 s, 50 attempts, a timeout of 60 s, a backoff
from 200 ms to 5 s) what matters is that the deadline ends the loop in some behaviours and
the attempts in others, and that one wait and one request can use up the budget: both
happen. A backoff that grows is in `lock_drain`, and a Retry-After longer than the budget
is in the theorem `RetryingIsBounded`, which is for all numbers. A server that may hang
makes `HoldTime` irrelevant, so it is 0 there. For the lock there are three writers and a
reader.

## 4. The life of a resource

**AttributePlan** translates what happens to one attribute set. A field has a class:
`Sticky` (Optional+Computed with UseStateForUnknown), `Secrets` (write-only), `Lists`;
a field in none of them is plain Optional. A resource has a `kind`, which stands for
the handlers that the generator emits:

| kind | update | examples |
|---|---|---|
| `interface` | PUT, or merge PATCH when it stays on a proto that uapi does not model; fieldScope | `network_interface` |
| `wireless` | merge PATCH of the difference | `wireless_interface`, `wireless_device` |
| `collection` | PUT | the other sections of collections |
| `singleton` | PATCH of the whole body, also for create | `system`, `dhcp_dnsmasq` |

`Proposed`, `Changed` and `Refines` are Terraform core and the plugin framework.
`UseStateForUnknown`, `modifyPlan`, `validateConfig`, `patches`, `body`, `mergeDelta`,
`wholeBody` and `read` are the provider. `scopeRefused`, `normalizeStored`,
`keepWriteOnly` and `MergePatch` are uapi as the mock implements it. Null, unknown, the
empty list and "not named in the patch" are four different values, as in the code.

**ResourceLifecycle** runs it. `phase` goes through refresh, plan and apply. `Edit` lets
others change the section at any moment, between plan and apply too. `SkipRefresh` is
`plan -refresh=false`. `HiddenSets` names what may be unknown while planning and is known
at apply. At apply Terraform validates and plans again (`Final`): if that plan does not
refine the first, the run ends (`ApplyStopped`); if the result does not refine it, the
verdict is `inconsistent`. Each write may be `Unanswered`: committed, refused or not seen,
with the state as it was. `Import` brings in a section that exists.

The ETag is a hash of the body, so `ETag` is the part of the section it covers, and a
section that was changed and changed back has its old ETag again. Whether a hash
covers options without a name and secrets is up to uapi; `ETagSees` varies it over the
runs.

**Properties.**

- `ResultFitsPlan`, `FinalPlanFits`: neither of Terraform's two "Provider produced
  inconsistent ..." errors occurs. They relate two plans and an answer of three
  requests, with edits between them.
- `EmptyPlanAfterApply`: after a successful apply the next plan is empty.
- `NoBlindWrite`: an update or delete only changes the section that the state shows.
- `UnconfiguredSurvives`, `OptionsSurvive`: what the configuration does not name, and
  options that the provider does not know, stay.
- `RefusedOnlyOnUnmodelledProto`, `RefusalsAreReportedAtPlan`: a 422 for scope does not
  come as a surprise at apply.
- `Reconciles`: running Terraform again and again ends with the section as configured.

**Fairness.** The operator runs Terraform again (weak fairness of `Run`) and imports a
section whose id is taken (strong fairness of `Import`, because a run that is under way
disables it again and again). `writeErr` tells the operator to do so. Refresh is part
of `Run`; skipping it is an upset, and upsets are bounded.

**Bounds.** `MaxUpsets` bounds everything that comes from outside: edits, lost answers,
changed configurations, skipped refreshes. Two or three of them are enough for the
chains that matter: edit, then lost answer; two configuration changes, into a proto and
out of it; edit and edit back. A run that nothing disturbs is not bounded. Two fields
at a time keep instances small and still let two fields of different class meet
in one body. Fields do not interact except through the proto and through "something
changed", so the classes matter and the number of fields does not. The
`interface_scope` run has the proto switches (static, dhcp, wireguard, the unmodelled
6in4) with a flag that has a default and a list that is cleared when omitted. The
`section_kinds` run has the four kinds side by side, each with a list, an empty list
and a secret, the list being unknown in some plans (a proto that is unknown is in
`interface_scope`); its interface switches between static, wireguard and 6in4. There
`ETagSees` is empty, because an edit of options or secrets alone would bring in finding
`etag_kept`.

**Writes as calls.** `ResourceLifecycle` has a write and its answer in one step.
`ResourceCalls` takes them apart. `Send` puts the request of Create, Update or Delete on
its way, with the ETag of the state. uapi handles it with `Commit` or `Deny`, `Return`
brings the answer to the handler, and `GiveUp` is a call that ends before its request was
handled: the connection, a cancel, the end of the process or of the budget. What was given
up is still on its way, and `CommitLate` handles it in any later run, if its If-Match
holds then. Each call keeps `CallContract`, so that `UapiClient` is below it: what a caller
is told when an answer was lost (`NoWord`) is what the contract lets it be told, "refused"
for a create whose last replay was throttled among it. A resource has one call at a
time and does nothing else meanwhile (`Alone`); others edit at any time.

`AtomicWrites` is the refinement: each behaviour is one of `ResourceLifecycle`, so its
properties hold with calls as well. The write takes place when uapi handles the request.
That its answer will be lost is not known then; `answer` guesses it. What the state is told
in the end (`stateTold`) counts from then on, and so does `verdict`. A request that is
handled late is an edit by others.

Its instance has one call of each method and a second PUT, two upsets, and a sticky field
that static does not take. It has an interface and a singleton; wireless sections differ in
their patches only, which 6in4 has, and other collections in their lack of a scope. The run
stops when its calls are used up, so its deadlock check is off.

**The scope table.** `ScopeTable` reads the table from the allOf entries of the request
schema, as `scope.go` does, with what it refuses: entries with two discriminators, a
field that cannot be set, one that no value takes. The instances above take their
tables from it. `ScopeAgreesWithUapi` compares it, field by field and proto by proto,
with the table of the mock server, which is written by hand; the one exception, a proto
that no rule names, is the finding `flag_out_of_scope`. The run has the protos of uapi
and 6in4, the theorem `InterfaceScopeIsUapis` every proto.

## 5. Packages

`uapi_package` asks whether the package is there (`Check`) and then installs it
(`Post`), in two requests; `pc` is between them. `own` are the packages that a request of
this resource installed and nobody removed since, `before` says that the package in the
state was on the router without having been installed by it: both are history that the
code does not have and the properties need. A request without an answer (`PostLost`,
`DeleteLost`) goes to `late`, and uapi handles it at any later moment or never
(`LatePost`, `LateDelete`), between the two requests of another Create too.
`Events` selects what else happens: lost answers, imports, and others who act between
the two requests of Create. `Others` install and remove packages between the runs in
every instance.

- `CreatedSparesPreExisted`: destroying what Create made never uninstalls what was there
  before.
- `Settles`: the configured package ends up installed and in the state.
- `PreExistedSpared`, `OwnIsRemoved`: the same for imported resources and its converse,
  as documented; both fail (section 10). The theorems say that nothing else breaks them:
  without an import the first holds, and without a lost answer the second.

With `"window"` in `Events`, `CreatedSparesPreExisted` fails as well: who installs the
package between the GET and the POST loses it on destroy. Nothing in the code can tell,
as uapi answers 200 whether or not a POST installed anything, so run and theorem leave
that window closed. What the properties judge is the request when it is sent. A DELETE
that was given up and is handled much later removes what others may have installed again
by then; it has no condition by which uapi could tell.

Two names are enough for a replacement. A package run may have nothing left to do once
its upsets are used, so these configurations turn the deadlock check off, as does
`ResourceCalls.cfg`. The others leave it on.

## 6. Generated resources

Forty-two resources are generated from uapi's schemas. What can go wrong is in the
rules, not in one file: whether each pair of `body` and `read`, chosen for the class of
an attribute, agrees with each handler and with how uapi stores, defaults and answers.

`WireValues` has the conversions by JSON type and text. Missing, null, unknown and `[]`
are four values; `Bracketed` is the string that Go's `%v` makes of a list. `Generator`
is `buildField` and what is emitted for its result (`resAttr`, `bodyStmt`, `readStmt`),
and the three handlers. `ResourceCatalog` is read off the generated files and not
derived from the rules. `CatalogueIsEmitted` ties the two together.

`GeneratedResource` takes one attribute, `subject`: a property of a schema, the handlers
of its resource, the default that uapi has for it, and the conversion of its older
state. A second attribute, `other`, makes updates happen that are not about the first.
`Create`, `Update` (one disjunct for each handler), `Delete`, `Refresh`, `Import` and
`Upgrade` are the handlers; `Edit` and `Reconfigure` are what others and the operator
do. Failed and repeated requests are in `ResourceLifecycle` and are left out here.

- `CatalogueIsEmitted`: each class and handler found in a generated file is one that the
  generator emits for some property.
- `ResultFitsPlan`, `NeverRefused`: each value that a block can set is taken by uapi,
  which is strict about types, and comes back as planned.
- `EmptyPlanAfterApply`: after a successful apply the next plan is empty; so is the plan
  after the upgrade of an old state whose configuration is in effect (`InEffect`).
- `AppliedIsStored`: what was to be set is on the router; a `[]` as no option, a text of
  digits in an integer-or-keyword field as a number. The secret of a merge PATCH is
  left out: it is not sent again when others changed it. An option that the
  configuration does not set is not its subject either, a dropped secret included.
- `UpgradeKeeps`: a state saved by an older provider, in any of its shapes, is after the
  upgrade what a refresh makes of the section, secrets included.
- `UntouchedSurvives`: an update or the create of a singleton leaves an attribute alone
  that the configuration does not set. A keyword read as a number would be lost here.

**Bounds** (`MCGenerated`). The types are those of uapi's schemas: scalars, arrays, each
with null on either side, string-or-array, integer-or-keyword, and object; with each
flag or pair of flags that a schema gives. Two values of each scalar, three strings, and
lists of up to two entries: a word, a keyword, a text that is a whole number, zero,
false, the empty list and a list of one are where conversions differ. Two upsets, one
edit and one changed block. `Held` is what uapi may hold of a property: where it takes
an integer or a keyword, a whole number is answered as a number.

## 7. Ownership of items

A cron job, a key, a feed or a token has an id that follows from what it says; a section
has the name that its block chooses, or an id from uapi if it chooses none.
`ContentIds` asks who may remove what. `state` is the id and
content in Terraform's state, `deposed` the old half of a create_before_destroy
replacement, `importing` the section that `resolveImportID` has looked up and not yet
adopted. `items` is the router; `by` says who made an item. `late` are the requests that
got no answer and that uapi may still handle. `orphaned` and `vanished` are history: items
whose maker was not told, and pairs of a resource and an item that went away while the
resource had it (`Remember`).

| kind | id | create over the same id | read answers | update |
|---|---|---|---|---|
| `cron` | of the whole line | 409 | the line | replaces |
| `key` | of the blob | overwrites | not the blob | replaces |
| `feed` | the name | 409 | all | replaces |
| `token` | the name | 409 | - (Open and Close) | - |
| `section` | chosen by the block, else by uapi | 409 or 422 | all | in place; replaces when the block chooses another id |

The id of a feed is a ULID by `package_feed_resource.go` 54 and
`docs/resources/package_feed.md` 34. Here it follows from the name, as do the file and the
conflict on the router. That is the stricter of the two: a new feed can then have the id
that a late `DELETE` names.

`Create`, `CreateLost`, `Read`, `Update`, `Import`, `LookUp`, `Adopt`, `AdoptLost`,
`Delete`, `DeleteLost`, `DeleteDeposed`, `DeposedLost` are the handlers, with an answer or
without; `Crash` is a run that ends between Open and Close. A lost request has not
happened yet: `Late` is uapi handling it, in this run or a later one, whatever has become
of the item, its id and the resource. That is the verdict `unknown` of `CallContract`.
A `DELETE` of a section has an If-Match and does nothing when others changed what it
says; the content stands for the ETag here. Every other `DELETE` has the id alone. A
resource whose delete got no answer keeps its state and asks again; Close of a token is
not called a second time, so a lost answer there orphans the token. `OthersAdd`, `OthersRemove` and
`Reconfigure` happen at any time, between `LookUp` and `Adopt` too. A block that chooses
another id is `Renamed`, which `Replaces` its section in either order; one that stops
choosing keeps what it has. Others may use every name, that of a section which is gone
while a request for it is on its way included. Only what uapi picks by itself is a new id
(`NewIds`); those that nothing refers to are alike, so it takes one of them.

**Abstract specification.** In `OwnedItems` a resource gets a claim by making or by
importing an item, an item goes only by a claim, by a removal that was asked for with a
claim and not answered (`sent`), or by others, and what is there is not made again unless
the collection overwrites. `ClaimsRespected` maps the holders in `state` and `deposed` to
claims and the ids of late `DELETE`s to `sent`.

- `OrphansOnlyByLoss`: what Terraform made is held by a resource that will destroy it, with
  three exceptions: the answer to its create was lost, the run of a token died before Close,
  or Close got no answer and is not called again. The last two leave a live token, which
  its documentation rules out (section 10).
- `OneHolder`: two resources never have one item. Excepted are keys, which overwrite,
  and an item that vanished and was made again before its holder was refreshed: destroying
  the first then takes the line of the second.
- `Reconciles`: applying again, and importing what a 409 names, ends with every
  configured item on the router.

What a late `DELETE` takes need not be the resource's own any more. A cron job or a token
with the same id may be another's by then. So may a section with a chosen name: the first
`DELETE` gets no answer, the second succeeds, another block or somebody else makes the
section again with the same content, and its ETag, a hash of the body, is the same; then
the first `DELETE` arrives. The request has nothing that could tell the two apart, so there
is no property against it. `ClaimsRespected` says only that a removal is of something a
resource had when it asked.

`Reconciles` holds for what `Acceptable` describes. It leaves out two blocks that want
one id, or of which one keeps, without choosing it, the id that the other wants; tokens;
and create_before_destroy except for keys. A replacement that creates first has no way past
a 409: its block has a state, so nothing can be imported for it. Two sections that exchange
their names meet each other in this way.

**Fairness.** The operator keeps applying and imports what a 409 or 422 names. `Create`,
`Delete` and that import (`ImportTaken`) have strong fairness, as a refresh or an edit
disables them again and again; the others need weak fairness only. Upsets are bounded.

**Bounds.** Two resources, three contents of which two share an id (a key with another
comment, a feed with another URL), and of the section two choose a name each and the third
chooses none; four more names for ids from uapi, and one anonymous section; two upsets:
enough for a lost create and then somebody else who takes its id, for two resources
that exchange their contents or their names, for two lost requests that are handled in
either order, or for a block that is removed with its first `DELETE` lost while another
block takes the name.
The parts of the inductive invariant (section 9) were checked for sections with three
upsets as well.
## 8. Runs

| Run | Shows |
|---|---|
| `client_faults` | create and delete of one package under every fault at once: `TypeOK`, `AtMostOnce`, `RefusalIsFinal`, `BoundedRetrying`, the refinement `KeepsContract`, and that each call returns although the server may hang for ever; 300,405 states |
| `lock_drain` | POST, PATCH, POST contend for one lock next to a GET, and all succeed |
| `interface_scope` | proto switches with unknown values, edits and lost answers; the scope table against uapi's; 309,445 states |
| `section_kinds` | interface, wireless, collection and singleton side by side: lists, empty lists, a secret; If-Match; convergence; 107,532 states |
| `resource_calls` | one interface or singleton whose writes are calls: requests handled late or in a later run, lost answers, edits between the two; the refinement `AtomicWrites`; 357,827 states |
| `package_runs` | packages under lost answers, late requests, imports and edits by others; 5,873 states |
| `generated_resources` | every attribute class under every handler, with edits, imports and upgrades; 372,362 states |
| `ownership` | five kinds of item, two resources, others, chosen names, lost answers, requests that are handled late and lost runs; refinement and convergence; 123,458 states |
| `flag_out_of_scope`, `etag_kept`, `package_imported`, `package_forgotten` | a documented statement that the code violates: section 10 |

## 9. Theorems

All proofs are for every value of the constants that the ASSUMEs allow: any set of
calls, fields, protos, packages, properties, any table and any bound. Each ASSUME is in
the module that declares its constants, and TLC evaluates it in the runs. What only
some theorems need is a hypothesis of theirs.

| Theorem | Says |
|---|---|
| `UapiClientProofs!TypeCorrect` | types; the loop never exceeds `maxAttempts` |
| `UapiClientProofs!NoDuplicateWrite` | `AtMostOnce` |
| `UapiClientProofs!RefusalsAreFinal` | `RefusalIsFinal` |
| `UapiClientProofs!RetryingIsBounded` | `BoundedRetrying` |
| `UapiClientProofs!ClientKeepsContract` | each step of `UapiClient` is a step of `CallContract` or a stutter |
| `LifecycleProofs!DeltaReachesPlan` | merging the difference of two bodies into the old one gives the new one |
| `LifecycleProofs!TypeCorrect` | types; no unknown value reaches the section or the state |
| `LifecycleProofs!ETagIsOfState` | the ETag in the state belongs to a section that looks like the state |
| `LifecycleProofs!NoLostUpdate` | `NoBlindWrite` |
| `ApplyProofs!UnconfiguredIsKept` | `UnconfiguredSurvives`, if `ScopeIsSound` |
| `ApplyProofs!OptionsAreKept` | `OptionsSurvive` |
| `ApplyProofs!ScopeIsNotRefused` | `RefusedOnlyOnUnmodelledProto`, if `ScopeIsComplete` on the protos that uapi models |
| `ApplyProofs!RefusalsAreReported` | `RefusalsAreReportedAtPlan`, if `ScopeIsComplete` on every proto |
| `ApplyProofs!FinalPlansFit` | `FinalPlanFits` |
| `ApplyProofs!PlansSettle` | `EmptyPlanAfterApply` |
| `ApplyProofs!ETagsArePlanned` | `UpdatesPlanTheirETag`, if no list is both Computed and scoped |
| `ApplyProofs!ResultsFitPlans` | `ResultFitsPlan` in each run whose updates plan their ETag, under three assumptions about the tables |
| `ApplyProofs!ResultsFitWithoutStickyLists` | `ResultFitsPlan` without that condition, if no list is both Computed and scoped |
| `ApplyProofs!ResultsFitUnseenUpdates` | `ResultFitsPlan` without that condition, if `UnseenKeepsETag` |
| `CallsProofs!CallsTypeCorrect` | types of what is sent and answered; no unknown value is sent |
| `CallsProofs!CallsAreWrites` | `AtomicWrites`: each step of `ResourceCalls` is a step of `ResourceLifecycle` or a stutter |
| `PackageProofs!PackageTypeCorrect` | types; `pre_existed` is never left unknown |
| `PackageProofs!CreatedIsHonest` | `CreatedSparesPreExisted`, when nobody acts inside Create |
| `PackageProofs!UnimportedIsSpared` | `PreExistedSpared`, when nothing is imported and nobody acts inside Create |
| `PackageProofs!OwnPackagesAreRemoved` | `OwnIsRemoved`, when every request is answered and nobody acts inside Create |
| `GeneratorProofs!ScopeReadsTheEntries` | in a schema that the generator accepts, a field is excluded on a value exactly if some entry says so |
| `GeneratorProofs!ScopedFieldIsTaken` | a scoped field can be set, and some value takes it |
| `GeneratorProofs!InterfaceScopeIsUapis` | `AgreesWithUapi`, which is what `ScopeAgreesWithUapi` says of the interface, and the same on every proto |
| `GeneratorProofs!SetValuesReadBack` | what an accepted attribute is set to comes back from uapi as planned |
| `GeneratorProofs!AnswersAreNotLost` | no answer of uapi is read as null or as another text |
| `GeneratorProofs!UpgradesAreIdempotent` | upgrading twice is upgrading once |
| `GeneratedProofs!GeneratedTypeCorrect` | types; what is in the state has the attribute's Go type |
| `GeneratedProofs!GeneratedResultsFitPlans` | `ResultFitsPlan` |
| `GeneratedProofs!GeneratedIsNeverRefused` | `NeverRefused` |
| `GeneratedProofs!GeneratedPlansSettle` | `EmptyPlanAfterApply` |
| `GeneratedProofs!AppliedValuesAreStored` | `AppliedIsStored` |
| `GeneratedProofs!UpgradesKeepValues` | `UpgradeKeeps` |
| `GeneratedProofs!UntouchedAttributesSurvive` | `UntouchedSurvives` |
| `ContentIdsProofs!ContentIdsTypeCorrect` | types; a state refers to ids and contents |
| `ContentIdsProofs!NoItemShared` | `OneHolder` |
| `ContentIdsProofs!ContentIdsImplementOwnedItems` | `ClaimsRespected` |
| `ContentIdsProofs!OrphansAreLosses` | `OrphansOnlyByLoss` |

**Client.** `AtMostOnce` is not inductive. Nothing in it says why a second copy of a
POST is harmless or why there is no second copy of a PUT. The invariant adds:

- `KeyInv`: a POST that was applied has its key remembered, and nothing else is keyed.
- `CopyInv`: of a write that is not a POST there is at most one copy, on the way or
  under the lock, and none that was applied or answered.
- `WaitInv`: how `timer` and `elapsed` are related in each `pc`; from it follows
  `BoundedRetrying`.
- `OutcomeInv`, `ReadInv`: what a verdict says about `applied`; that a GET takes no lock.

Its preservation is one lemma for each action. The refinement follows from it step by
step: `Commit` is `TakeEffect` or, with a remembered key, a stutter.

**Lifecycle.** `NoBlindWrite` rests on `ETagOfState`: the ETag in the state and the values
in the state come from one section. It is needed because `ETagMatches` compares hashes
and the property compares values. Together with `TypeOK` it is inductive.

The same invariant gives what an apply leaves alone. A state that shows the section
makes the body of an unconfigured field what the section has (`UnconfiguredBody`), and
storing that changes nothing (`StaysNormal`).

How an apply ends needs more of the runs before it. These invariants are added, each
with the theorem it is for:

- `PlanOfRun`: the plan that is applied was made in this run from the present state,
  with some of its values hidden. `Final` plans the same with the values known, and
  hiding one only adds unknown (`FinalPlansFit`).
- `SettledWhenOk`: after a successful apply the state is what the section reads as, and a
  plan with every value known has nothing to do (`PlansSettle`).
- `RefusedOnSwitch`: after a refusal the configured proto is not that of the state, and a
  refresh does not change that (`RefusalsAreReported`).
- `StateInScope`: the state has nothing in a field that its proto excludes, so that
  modifyPlan has nothing to null that the framework does not see (`ETagsArePlanned`).

`ResultsFitPlans` goes through the requests one by one: what a POST, a PATCH of the whole
body, a merge PATCH and a PUT store of each field, and that what is read back is in the
plan. Four assumptions relate the tables of provider and uapi:

- `ScopeIsSound`: what the provider's excludes, uapi does not take. Otherwise a field
  planned as null would be removed.
- `ScopeIsComplete(protos)`: on these protos the provider's excludes all that uapi does
  not take. Otherwise a valid plan would be refused.
- `DefaultsAreComputed`: only an Optional+Computed field that is no list has a default
  in uapi. Otherwise a plan of null or `[]` would come back as the default.
- `DefaultsFollowScope`: a field has a default on each proto that does not exclude it, or
  on none. Otherwise UseStateForUnknown would carry a null to a proto with a default.

`TablesAssumption` has TLC evaluate them on the tables of each instance, which are those
of `network_interface` in `interface_scope`. They hold with one exception, `broadcast_flag`
on a proto that uapi does not model, which is the finding `flag_out_of_scope`.

`ResultFitsPlan` is not true of every run. Where a list is both Computed and scoped,
modifyPlan may change a plan in which the framework saw no difference; the old ETag
stays in the plan, and a new one contradicts it. That is the finding `etag_kept`. Three
theorems say how far the property goes:

- in any run whose updates all plan their ETag (`ResultsFitPlans`);
- for every schema without such a list, as `ETagsArePlanned` gives that condition: all
  resources but `network_interface`, and the instance of `interface_scope`;
- with such lists, if `UnseenKeepsETag`: the ETag does not cover unnamed options, and a
  proto that excludes such a list excludes the secrets too. The instance of
  `section_kinds` is of this kind. `UnseenIsEmptyList` shows that an update which the
  framework does not see can only take a `[]` out of a field that the proto does not take.

The condition on the secrets came out of a proof that failed. With a proto that excludes
the list but takes a secret TLC finds this: others remove the secret, the `[]` goes out of
the configuration, and the PUT brings the secret back. `ipaddrs` and `private_key` on
wireguard are such a pair in `network_interface`, where `has_private_key` changes too.

**Calls.** `CallsAreWrites` needs to know that what uapi meets is what the run sent:

- `OneAtATime`, `Waiting`: while a call is waited for, the run, the configuration and the
  state are those from which its request was made, and there is no other such call.
- `HasETag`: a state has the ETag of a section, so that every update has an If-Match. Without
  one a late PUT of an old run would be a write without a guard.
- `DeletesOfCollections`: no DELETE of a singleton is on its way. A late one would remove a
  section that is always there, which is no edit that others can make.
- `AnswerIsConfigured`: what is read into the state was written for a configuration.

With `ResourceLifecycle`'s own invariant and `CallsTypeOK` this is inductive. The instance
`Atomic` has each definition a second time, over what the state is told. Before uapi decides
they are the same (`SameRun`), and `Outcomes` lists what it can decide. `CommitMaps`,
`DenyMaps`, `GiveUpMaps`, `EditMaps` and `RestMaps` are the steps. `GiveUp` of a request that
uapi would refuse is why `Refuse` in `ResourceLifecycle` has an unheard outcome beside the
refusal.

**Packages.** `Creating` (Create runs only for a resource that is not in the state) and
`Honest` (what the GET answered is still so, and `pre_existed` is true where it should
be) are what `CreatedSparesPreExisted` needs. A late request may come between the GET and
the POST. A late POST makes the package the resource's own, so that the answer "no" of
the GET stays right; a late DELETE after the answer "yes" has the package installed by the
resource and left on destroy, as in `package_forgotten`. Without imports `Known` adds that
`pre_existed` is never null; without lost answers `Tidy` adds that `late` is empty and that
what the resource installed is in the state and not marked as pre-existing.

**Ownership.** `OneHolder` is not inductive: a create needs its id to be free on the
router, not in the states. The invariant adds

- `HeldIsThere`: what a resource holds and did not vanish is on the router, so no create
  can take it;
- `HeldOnce`: a resource has an item in its state or deposed, not both, unless it vanished;
- `HeldIsNamed`: a section that a resource has is not anonymous, so an adoption, however
  late, leaves it its id;
- `AnonymousOfOthers`: an anonymous section is not managed and was made by others, so an
  import, which takes it as it is only when it is managed, gets none;
- `Reserved`: what an import has looked up is nobody's;
- `LateAdoptions`: only a section is adopted.

`Recorded` says of a step that what goes away from its holder is remembered. Steps by which
nobody gets an item (`QuietStep`), steps that gain one (`GainStep`), a POST, an adoption and
a removal, answered or late, are one lemma each. The refinement also needs `ImportsFirst`:
an import is under way only for a resource without a state. `OrphansOnlyByLoss` needs that
an adoption, whose answer may be lost, moves no item that Terraform made to an id that
nobody knows: it moves only what is anonymous (`AdoptMovesOthers`). Assumed are that `None`
is neither an id nor a content, that resources are not called "others", and that a block
chooses a name and no anonymous id (`ChoiceAssumption`).

**Scope table.** `ScopeReadsTheEntries` assumes what `applyScope` checks and fails on
otherwise. That there is one discriminator is what makes reading the entries for it
lossless. `InterfaceScopeIsUapis` goes through the schema of `network_interface` entry by
entry: each nulls its fields on all protos but those of uapi's table (`NamesTheProtos`), the
generator therefore accepts the schema (`InterfaceAccepted`), and what the rules say is
what the entries say.

**Generator.** `FieldShapes` lists the shapes that `buildField` gives. `TypeOfAnswer`
says which type `typeOf` finds; it needs the first type that is not null, so a smallest
index, which is an instance of the well-foundedness of the naturals.
`AnswersAreNotLost` assumes the type to be one, or integer and keyword, each with null
(`Plain`): string-or-array is the array, and a string that uapi answered there would be
null. uapi takes such a string in requests and always answers a list. The first attempt
at these proofs failed where `kindOf` was a CASE whose guards overlap for an attribute
that is required and clear-on-omit: Go takes the first branch, TLA+ any.

**Generated resources.** The theorems of `GeneratorProofs` are about one request. To
reach the runs, the invariant says where a value in the state comes from:

- `StateIsRead`: the value in the state is what a refresh makes of some section, with
  the ETag of that section. A refresh of such a state with the same section changes
  nothing. If the ETag is the present one, that section is the present one
  (`MatchingIsRead`), so an update starts from what the router holds.
- `OldIsSaved`: a state of an older shape is one that an older provider could have saved.
- `SettledWhenOk`, `UpgradedIsRead`: after an apply or an upgrade, the state is settled.

An attribute is set, was not given, or is taken out, and it is a secret, clear-on-omit or
Computed: for each of these there is one lemma about what the request stores and what is
read back (`EndsWell`), from `SetValuesReadBack`, for each handler. `AppliedIsStored`,
`NeverRefused` and `ResultFitsPlan` follow together, by induction over the runs, not one
from the other. `UntouchedSurvives` needs only that the body of a Computed
attribute is what was read of the section, and that writing it back changes nothing.

What is assumed of the schemas is in `PropertyAssumption`, of the values in
`ValueAssumption`, of the state upgraders in `UpgradeAssumption`. The first says that
only what can be null is clear-on-omit, which the lint of uapi's schemas guarantees
(`gen/main.go` 266), and that no secret of a generated resource is required.

**Only model-checked:**

- everything under fairness (`Termination`, `EveryoneServed`, `Reconciles`, `Settles`),
  which is out of the prover's reach;
- `CatalogueIsEmitted`: a statement about two given tables, the attributes of the 42
  resources and the types of uapi's schemas. There is nothing to generalize, and TLC
  evaluates it in full.

The `ResultFitsPlan` of `ResourceLifecycle` is proved for each instance that is run; what
is false beyond them is above.

## 10. Disagreements between code and documentation

| Run | Code | Statement |
|---|---|---|
| `flag_out_of_scope` | a proto that no rule names takes every field; `broadcast_flag` on an imported 6in4 interface passes the plan and gets a 422 at apply | `field_scope.go` 61: "validateConfig reports at plan time the value that uapi refuses at apply" |
| `etag_kept` | computed values are marked unknown before ModifyPlan, and only if something differs then; a change that comes from modifyPlan alone keeps the old etag in the plan | `schema_helpers.go` 51: "the value genuinely changes on every write" |
| `package_imported` | import leaves `pre_existed` null, which destroy reads as false | `referencing-resources.md` 112: "will not uninstall a package that was already installed before Terraform managed it" |
| `package_forgotten` | after a lost POST the next apply takes the package for pre-existing, and destroy leaves it | `docs/resources/package.md` 33: "(it was not installed by this resource)" |

In `etag_kept` the violated property is about the plan. When uapi then answers a new
ETag, Terraform ends the apply with "inconsistent result". The run shows it for
`addresses = []` removed from a static interface.

Three more were met and have no run. `client.go` 25 says that `retryBudget` "bounds, by
wall-clock, how long a single request retries"; the deadline is tested before the wait,
so the last request goes out after it, with a large Retry-After by any length.
`BoundedRetrying` says by how much. README.md 204 says that "large lists are returned
in full"; `GetList` stops after `maxPages` pages with a line in the log. The ephemeral token
is said to exist "for the lifetime of the operation" and that the provider "revokes it
afterward" (`docs/ephemeral-resources/token.md` 11, `token_ephemeral.go` 54; README.md 96:
"revokes it on close"). When the `DELETE` of Close gets no answer (`token_ephemeral.go`
142), or the run dies before Close, the token stays valid and nothing revokes it later;
`OrphansOnlyByLoss` has both as exceptions.

## 11. What is taken for granted

- uapi remembers the answer of a keyed POST together with its change, and longer than
  the retry budget lasts (24 h against 45 s).
- uapi executes the writes of one package one at a time, under its lock, and may refuse
  a request whose earlier copy it applied only with 423 or 429.
- net/http resends a request on its own only if it is idempotent or has an
  Idempotency-Key. `crypto/rand` does not fail, so every POST has a key.
- uapi stores, defaults, refuses and answers as `mock_uapi_test.go` does, with one
  exception: `nohostroute` also reads false on 6in4, as openapi.json has it.
- Terraform runs one operation on a resource at a time and follows its documented rules
  for planned and final values.
- In `ResourceLifecycle` and `GeneratedResource` the id is chosen in the configuration and
  does not change; renames and ids from uapi are in `ContentIds`, and ETags are not.
- Terraform resolves the imports of a run before it creates anything.
- uapi replaces the line of an SSH key by a new one with the same blob. The repository shows
  that the id is of the blob, and does not show the overwriting.
- uapi refuses a value of another JSON type, answers a list that is absent as null, and
  marks as clear-on-omit only what can be null. A number is written canonically: `036`
  in an integer-or-keyword field would come back as `36`. Such a field never answers a
  whole number as a string.
- Others remove and add items at any time, but do not act in Terraform's name; a token
  is revoked by its name, whoever made it.
- An adopted section keeps its id if it has a name and gets a new one if not. An id that uapi
  itself gives to a section is new: no state, import or request on its way refers to it, and
  no block chooses it. uapi does not adopt what is managed.
- A request that got no answer is handled at most once. A POST with an idempotency key is,
  for as long as uapi remembers the key; a second copy of a DELETE by id is not modelled.

## 12. Not modelled

| Part | Why |
|---|---|
| list paging | serves three read-only data sources; what a cursor finds after an edit is decided by uapi, and the repository does not say |
| system password | one POST for each version of a value that nothing reads |
| provider configuration, peer warning, data sources | pure or read once; they keep no state, and use the helpers that are modelled |
| generator: wording, examples, registration, data sources | text, without an effect on what a resource does |
| window inside Create of a package | known to be unsafe (section 5); uapi's answer cannot tell |
