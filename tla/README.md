# evo-ai-core-service: models, checks and proofs

The core service is a Go program (gin, GORM, PostgreSQL) that keeps the agents
of the platform and what they use: tools, MCP servers, API keys, integration
credentials, folders.  This directory models the parts whose correctness depends
on how requests interleave, fail half-way and read what others write.

Every HTTP request runs in a goroutine of its own.  In the community build no
handler opens a transaction around its statements: GORM wraps each single write
in one and that is all.  So the unit of atomicity in all models but one is **one
SQL statement together with the Go code up to the next one**; the statements of
different requests interleave freely, each may fail, and a request may die
between any two of them (a client that hangs up cancels the context of all later
statements; SIGTERM ends the process at once, `cmd/api/main.go:55-67`).  The
exception is `TenantScope`, which models the enterprise build, where each request
under `/api/v1` has one transaction.

## Inventory

| component | state | operations | what is hard | what makes it correct |
|---|---|---|---|---|
| integration credential vault (`pkg/integration_credential`) | `evo_core_integration_credentials` | list (runs the OAuth sync first), create, update, delete with two guards | concurrent syncs; guards that read several tables before a hard delete, with no foreign key; scope authorization before the write; failing catalog probes | one row per connection; the mirror converges; a delete severs nothing it could see; installation defaults change only under the privilege |
| agents (`pkg/agent`) | `evo_core_agents`, `agent_bots` | create, import, update, read (repairs and writes back), delete, assign folder | two rows in two tables tied by an id; whole-record writes of stale copies; error branches that do or do not compensate | no bot without its agent, no agent with a lost bot, the bot has the agent's name and, once on, its settings |
| agent config (`pkg/agent/service/processor`) | the `config` column | merge of a partial update, per-type processing and validation, expansion and repair on reads | absence means "keep"; hydrated copies must not be stored; a save is validated against what it read | a key that is sent wins, one that is omitted stays; the shared key holds; the table holds what a check let through |
| agent integrations (`pkg/agent_integration`) | `evo_core_agent_integrations` | upsert, list, delete, resolve the Nexus target | validation before the upsert; read-merge-write of stored secrets | a reference names a static credential; a save through hidden values is its user's edit |
| API keys (`pkg/api_key`) | `evo_core_api_keys` | CRUD, model discovery | an update of up to three statements, any of which may fail; the scope is read before it is written | a save is whole or known not to be; one delete is answered; installation defaults change only under the privilege |
| folders and shares (`pkg/folder`, `pkg/folder_share`) | `evo_core_folders`, `evo_core_folder_shares` | CRUD, share, unshare, access check | check-then-insert without an index; soft and hard deletes mixed | one active share per user; access follows the shares |
| custom tools, custom MCP servers, MCP catalog | three tables | CRUD, discovery of tools | merge of masked secrets; a remote call before the write | a mask never replaces a secret |
| tenant extensions and quota (`pkg/evoextensions`) | per-request transaction, stamped columns | enterprise build only: route, stamp, count against the plan | statements moved to another connection in the middle of GORM's own transaction; count-then-insert; a failed read aborts the transaction it "fails open" on | every answered write is in its transaction; a request's agents stand or fall together; the plan is passed only by what overlapped |
| authentication, permissions (`internal/services`, `internal/middleware`, `internal/httpclient`) | none | verdicts of a remote service, asked one after the other; the membership of a tenant | the remote fails, answers late, or changes its mind between two gates | every failure is a denial; nobody is refused without a cause; every request is answered |
| rate limiting (`internal/middleware/rate_limit.go`) | one bucket for all, a map of buckets per client | take a token, periodic cleanup | the cleanup races the request that holds a bucket, and holds the mutex all requests need | a client's requests draw from one bucket; idle entries go; requests are decided |
| list filters and pages (`*_filter.go`, `List` of the repositories) | none | a condition made of clauses, a page of rows, their count | NULL columns, clauses that are dropped, offsets over unordered rows that others change | a clause and its opposite divide the rows; a walk misses or repeats nothing but for moved rows; it ends |
| migration state, health, discovery of models, helpers | none | reads | - | reports what is stored |

How they interact: the vault is read by agents, tools, MCP servers, agent
integrations and the CRM's bots, which name a credential by id in jsonb or in a
plain column; the vault mirrors the OAuth connections that the processor (another
program) stores in `evo_core_agent_integrations`; an agent writes the CRM's
`agent_bots` directly; permissions and the installation privilege come from
EvoAuth over HTTP.  A request passes, in this order, the rate limits, the token, in
the enterprise build the membership of its tenant, the permission of its route and,
for an installation default, the privilege; then its handler runs.

## Modules

### CredentialVault

`rows` is `evo_core_integration_credentials`, `conn` says which agent integrations
hold a token, `refs` the credential each consumer slot names (`StoreOf` gives the
position of its store in `referenceRepository.queries()`, 0 if no query reads it),
`task` what each worker is doing.  A row that was deleted keeps its columns as a
record of what the id stood for; the id is never drawn again.  The sync runs in anyone's
listing, so it may rename, reactivate or deactivate an OAuth row that was promoted to the
installation scope: `InstallationScopeGuarded` looks at every write of such a row and
excepts that one by what it does (`Mirrors`).

| code | actions |
|---|---|
| `OAuthSync.Run`, called by every listing | `StartList`, `SyncReadConnections`, `SyncReadRows`, `SyncInsert` / `SyncReactivate` / `SyncClash`, `SyncDeactivate` |
| `Create` | `StartWrite`, `Insert` |
| `authorizeScopeWrite`, `RequireInstallationScope` | `Authorize` |
| `Update` (two statements) | `Load`, `WriteColumns`, `WriteActive` |
| `Delete`, `refuseIfConnected`, `refuseIfReferenced` | `Load`, `ConnectionGuard`, `ReferenceGuard` once per store, `DeleteRow` |
| `deployed` with a failing catalog query | `CatalogFault` |
| upsert of an agent integration | `Validate`, `Attach` |
| other consumers, processor, failures | `Refer`, `Detach`, `Connect`, `Disconnect`, `Abort` |

Four fields of a task are history and read by no action: `late` (consumers that
attached behind the delete guard), `skipped` (stores whose probe failed),
`relinked` and `promoted`.  They let the safety properties say *exactly* when a
delete may sever a reference, instead of forbidding what the code documents as a
residual race.

The map iteration order of Go makes the order of the sync's writes arbitrary for
the deactivations, and the order of the connections is the database's; the model
leaves both open.  The upserts come first, as in the code.

### AgentBotSync

`agents` is `evo_core_agents`, `bots` is `agent_bots`, `task` what each worker is
doing with which copy of the agent (`copy`) and which bot it is about to link
(`new`).  `Patch` is GORM's `Updates(struct)`: zero fields are not written, so a
nil bot id leaves the column alone and a false boolean never travels.

| code | actions |
|---|---|
| `Create` | `Start`, `InsertAgent`, `InsertBot`, `Link`, `LinkRead`, on an error `Cleanup` |
| `ImportAgentsFromJSON` (one item) | `Start`, `InsertAgent` |
| `GetByID`, `prepareAgentForRead`, `sanitizeAgent` | `Read`, `Repair`, `RepairRead` |
| `Update`, `UpdateAgentBot` | a read, `Write`, `Reload`, then `InsertBot` or `UpdateBot` and `ReloadBot`, `Link`, `LinkRead` |
| `Delete` | a read, `DeleteBot` (twice if it fails), `DeleteAgent` |
| an error of any statement, a dying request | `Fail`, `Crash` |

`AgentAccessMiddleware` reads the agent, with the repairs a read makes, before the
handler of such a request runs; in the model that is a `get` of its own ahead of the
operation.

`hist` records per agent whether its requests so far came one at a time and
succeeded (`calm`), only reads overlapped or failures were harmless (`shared`), or
two writes overlapped or a failure hit a statement the code does not compensate
(`excused`, see `Fatal`).  No action reads it.  `Fresh` draws ids that nobody has
seen, which lets the finite set of bots stand for the database's UUIDs.  `was` of an agent's
row is history too: segmentation has been on in it.  `BotFollowsAgent` says with it that a
bot which splits messages against its agent's setting got that from the agent once; a
setting that goes back to `false` never travels, and nothing else parts the two.

### FolderShares

`folders`, `shares` and `placed` are `evo_core_folders`, `evo_core_folder_shares` and
`evo_core_agents.folder_id` (`NoAgent` while there is no such agent).  The foreign keys are
part of the statements: an insert or update that refers to a folder which is gone is an
error (`InsertShare`, `InsertAgent`, `Assign`, `WriteBack`), and the deletion of a folder
removes its shares and clears the column of its agents in one statement (`CascadeShares`,
`ClearPlaces`).  No index forbids two active shares of a folder with one user.

| code | actions |
|---|---|
| `folderService.Create`, `Delete` | `InsertFolder`; `FindFolder`, `DeleteFolder` |
| `folderShareService.Create` | `FindFolder`, `Lookup`, `InsertShare`; a failing lookup is ignored (`Fail`) |
| `folderShareService.Update` | `FindShare`, `FindFolder`, `UpdateShare` |
| `folderShareService.Delete` | `FindShare`, `RevokeShare` |
| `agentService.Create` | `FindFolder`, `InsertAgent`, `WriteBack` of the inserted copy once the bot is made |
| `ImportAgentsFromJSON` (one agent) | `FindFolder`, `InsertAgent` |
| `agentService.Update` | `FindFolder`, `Assign` (its first write), `ReadAgent` (the reload), `WriteBack` of that copy once the bot is written |
| `AssignFolder` | `FindFolder`, `Assign`; `RemoveFolder` |
| `sanitizeAgent` of any read | `ReadAgent`, `WriteBack` |

A save that names no folder leaves the column alone in its first write, and from there takes
the steps of a repair.  The read an update starts with, and its repair, are a `repair`
request of their own.

`asked`, `restored`, `excused` and the `late` flag of a task are history and read by no
action: `late` marks a request whose finding or copy was overtaken by another one (or whose
lookup failed), `excused` the pairs that may be shared twice because of that, `restored`
the agents that a late copy moved back: a repair, a save and a create all end in a write of
the whole copy, and each of the three does undo an assignment made meanwhile.  Agents are
never deleted here; that is `AgentBotSync`.  The permission level of a share is left out
because nothing depends on it: `CheckFolderAccess`, its only reader, has no caller.

### SecretMerge

`rows` is three tables: custom tools and custom MCP servers with their headers, agent
integrations with their config.  A row's contents are a function from names to values;
`Secret` are the names that are hidden by name (every header outside `safeHeaderNames`,
the keys of `sensitiveFieldNames`), `TokenLike` the values `sanitizeConfig` hides
wherever they stand.  What the stored `tools` of an MCP server stand for is the headers
they were discovered with.

| code | actions and operators |
|---|---|
| `RedactValues`, `sanitizeConfig` | `Redact` |
| the screen, which sends back what it received | `Draft`, in `View` |
| `KeepMissing`, `MergePreservedSecrets` | operators of the same names, in `Merge` |
| `Create` of a tool or a server | `Start`, `Discover` (servers), `Insert` |
| `Update`, `Upsert` | `View`, `Merge`, `Check`, `Discover` (servers), `Write` |
| `Delete` | `Check`, `Delete` |
| an error, a dying request; a failing read before the merge, which is ignored | `Fail` |
| the processor's renewal of a token | `Refresh` |

`missed` of a task is history and read by no action: the names whose stored value the
save relies on and no longer knows, because others changed the row behind it or its read
failed.  It lets `SavesAreEdits` say *which* entries a save may get wrong.  The contents
of one row are never read half-way: a config is one column, written as a whole.

### AgentConfig

`row` is one agent: its type, whether its name has characters reads replace, and its
config, a function from the keys it has to values, so that "not sent" and "sent empty"
differ.  `worker` is what each request does with which copy, `gone` the agents and
catalog servers that were deleted under it, `shared` the keys that were handed out.

| code | actions and operators |
|---|---|
| `effectiveValue`, `ProcessAgentConfig` | `Effective`, `KeyOf`, `Kept`, `MergedConfig` |
| the processors of the types, `processAgentCreate`, `processAgentUpdate` | `Whole`, `Created`, `Update` and `Saved`, `Accepted` |
| expansion of tools on a read; its removal before a merge | `Hydrated` and `Expanded` in `Hydrate`; `WithoutCopies` |
| `sanitizeAgent` | `Broken`, `Repaired` and `Mended` in `Repair`, then `Reread` |
| `Create`, `ImportAgentsFromJSON` (one item) | `Create`, `Relink` |
| `GetByID` | `Get`, `Load`, `Repair`, `Reread`, `Hydrate` |
| `Update` | `Save`, the same reads, `Overwrite`, `Reload`, `Relink` |
| `GetShareAgent` | `Share` |
| other deletes | `Leave` |

The keys the code treats alike are represented once (`load_memory` for the plain ones,
`custom_tools` also for the MCP counterparts).  `alone` of a request says that no other
request has written since it read; `past` remembers four events that excuse a property:
a save sent a key, a save crossed from an external or A2A type to a flow, a repair
rewrote a flow without sub-agents, and a client sent an empty list of tools.  No action
reads them.

### ApiKeys

`rows` is `evo_core_api_keys`.  An update is `Updates(struct)`, which can set an endpoint
but not clear it and never carries the flag, then a statement for the endpoint and one
for the flag if they are wanted, then a read (`First`, `Clear`, `Toggle`, `Reread`).
`authorizeScopeWrite` is `Authorize`, in the step in which a request arrives: it reads the
scope once, and everything else comes later.  `Create` is one statement; `Delete` is `Find`
and `Remove`.  `meant` is the row as if each update took effect at its first statement,
`split` the columns an update left wrong because it failed or was overtaken, `behind` and
`late` of a task what happened behind it: history, read by no action.

### RequestGate

`task` is where each request stands: at the token, in the enterprise build at the
membership, at the permission of its route, at the installation privilege, or in its
handler.  `granted` is what EvoAuth would say, `members` and `agency` the tables the
membership query reads; all of them change while requests are under way (`Regrant`,
`Enrol`).

| code | actions and operators |
|---|---|
| `EvoAuthMiddleware`, `ValidateToken` | `Arrive`, `Judge`, `HearToken` |
| `RequirePermission`, `RequireInstallationScope`, `permissionVerdict`, `permissionVerdictOnError` | `Judge`, `HearPermission`, `Verdict` |
| the HTTP client's ten seconds | `TimeOut` |
| `SQLChecker.Allowed` | `CheckMembership`, `LoseLookup`, `AllowQuery` |

The auth service (`Judge`) decides at one moment and is heard at a later one, may answer
"no such endpoint" or something unusable, and need not answer at all.  `seen` is history:
which gates were open and which were shut at some moment since the request arrived.

### TenantScope

The agents of the enterprise build.  `rows` holds the uncommitted inserts too, marked with
the worker whose transaction they belong to (`by`); `draft` is what each open transaction
does to rows it did not insert.  `Route` is the routing of the two GORM plugins
(`tenantscope` for reads, `tenantstamp` for writes): onto the request's transaction, to the
pool, or refused.  `Visible` and `MayInsert` are the row-level policies, which show a
connection the rows of `app.current_tenant_id` and, on the pool, none.

| code | actions |
|---|---|
| the SDK's middleware: bind a tenant, open and end the transaction | `Arrive`, `Release`, `Lose` (external) |
| `agentquota.Check`, `Evaluate` | `Check`, `CheckFails` |
| `Create`, `ImportAgentsFromJSON` | `Insert` once per agent, `InsertFails` |
| `Update`, `Delete` | `Find`, `Write` |

A failing statement aborts its transaction (`aborted`), after which every other one fails
and the commit rolls back.  Whether a request that was answered an error is committed is
the SDK's decision, which is not in this repository, so `Release` leaves it open.

### ListFilters and ListPages

`ListFilters` gives the condition that the clauses of a query become, as a predicate on
rows.  `Applies` says which clauses are left out in which listing, `CastError` which one the
database refuses.  `Fragment` is what SQL makes of a clause and a row, in three values:
`TextFragment` with the `IS NULL OR` of its negative operators (`OrNull`), `ScalarFragment`
for dates and numbers, whose `<>` stands alone, `TagsFragment` for the array, which is never
NULL.  A row is listed when its condition is true, not when it is NULL (`Condition`, where
AND binds before OR and a clause that is left out takes its glue along).  The value of a
clause is a set, for what it spells when it is split at its commas: only the agents list
does split it, and only for texts; elsewhere a value with commas is one literal, which no
row holds, no date and no number.  `created_at` may be NULL for tools and servers
(migrations 2 and 3), not for agents (`Fits`, migration 7).

`ListPages` walks through the pages of such a query: `Rows` and `Count` are two statements,
`Advance` asks for the next page while `HasNextPage` says so, and `Insert`, `Delete` and
`Update` of others change the table in between.  There is no ORDER BY in any listing, and
PostgreSQL promises no order without one.  **The model assumes the order of a sequential
scan**: rows come in the order of their places in the table (`place`), an insert takes any
place that is free, an update moves its row to one, and a page is the rows whose `Rank`
among the selected ones lies in its range.  `WalkComplete` and `WalkExact` hold under that
assumption; a plan that uses an index, runs in parallel or joins a scan under way
(`synchronize_seqscans`) may return another order for each page, and then they do not.

### RateLimiter and TokenBucket

`limiters` is the map, `tokens` what each bucket holds, `global` the bucket of all
requests, `sweep` the cleanup goroutine with the entries it still has to look at.  A
request takes a global token (`Arrive`), fetches its client's bucket under the mutex
(`Fetch`), and takes a token from it after the mutex is free again (`Take`, `Refuse`).  The
sweep holds the mutex from `SweepStart` to `SweepEnd` and looks at an entry and deletes it
in two steps, since a bucket's own lock lets others draw from it in between.  `Tick` is
time.  `due` and `lent` are history: what a bucket that is never dropped would hold, and
how many requests got through on a bucket that had been dropped under them.

`TokenBucket` is what a client may rely on: a level that pays, refills and may be forgotten
only when it is full, where the requests in flight at that moment (`loose`) need not pay.
`RateLimiter` implements it with `level <- Level(c)` (the bucket in the map, or a full one
if there is none or it is about to be deleted) and `loose <-` the requests whose bucket was
found full behind them.

## Runs

| run | question and bounds |
|---|---|
| `vault_sync` | two workers, two connections, three rows, four writes, one failure: does the mirror stay single, converge and fall silent? |
| `vault_guard` | two workers, two rows, three consumers (first store, last store, no store), five writes, one failure: what can a delete sever, what does an attachment name, who may touch an installation default, the listings' sync included? |
| `bot_lifecycle` | two workers, one agent, three bots, four requests, two failures: orphaned and lost bots, and the bot's name (three of them, one of which reads repair) and settings |
| `bot_catch_up` | one agent saved over and over: does it get its bot? |
| `folder_shares` | two workers, two folders, three shares, one agent, five requests, one failure: which duplicate shares and which misplaced agents can come of creates, saves, repairs and assignments that cross? |
| `secret_saves` | two workers, one row of each table, a hidden and a shown name, an ordinary value and one that looks like a key, three requests or renewals, one failure: does a save do what its user edited, and do tools match their headers? |
| `agent_config` | two requests at a time, one agent of any type, three requests, thirteen edits of one or two keys (every key and every kind of type change among them): what does a save keep, what is stored, does the shared key hold? |
| `api_keys` | two workers, one row, two keys, one endpoint besides the default, three requests: is a save whole, a delete answered once, an installation default guarded? |
| `request_gate` | one worker, one user, one tenant, two agencies, any number of changes and requests: who gets through, who is refused, is everyone answered? |
| `tenant_scope` | two workers, two tenants, three agents, files of up to two, plans of none, one, two agents or no limit, four requests: is the plan kept, is an answer true, who shares whose fate? |
| `list_pages` | three rows, ten queries that use every operator on each kind of column it has a meaning for, pages of one to three rows, four places, three writes of others: is a walk complete and exact, does it end, does a clause's opposite list the others?  One row has no description, another no date |
| `rate_limits` | two workers, two clients, four buckets, both bursts two, four requests, any number of ticks and sweeps: does the limiter implement the bucket, decide every request and forget who stays away? |

Bounds.  Two workers are enough for every race named under `hazards`: each is
between one request that checks or copies and one that writes.  Three rows let a
connection's row be deleted, made again and clash with another; two rows and five
writes let a credential be created, promoted, referenced, deleted and touched
again.  Three shares of one pair and five
requests allow share, revoke, share and reactivate, with a deletion or an assignment in
between.  One row of each table suffices for the secrets because rows do not influence one
another, and three requests allow a save, what overtakes it and one more.  Two failures allow a failing statement whose compensation fails too.
One agent suffices for its config, and three requests
for two saves that cross with a read that repairs; one key row, because no statement of
`ApiKeys` touches two.  One request suffices for the gates because requests share nothing
but the authorities, which change without limit.  Three agents and a plan of at most two
let two creates, or a file and a create, pass the count together.  Three rows, four
places and three writes let a row be deleted from a page already read while another lands
there, or move past the client.  Others write only while the client walks, because the
table it begins with is any.  Four
buckets are one for each client and one for each request that holds a dropped one; a burst
of two tells a full bucket from one with a token.
`MaxMoves`, `MaxFaults`, `MaxRequests` and `MaxWrites` bound only what arrives from outside;
listings (`vault_sync`), saves (`bot_catch_up`), grants (`request_gate`) and time
(`rate_limits`) are unbounded.  The other runs stop when
their requests are used up, hence `CHECK_DEADLOCK FALSE` there.

Fairness.  A goroutine that has a statement to run runs it (weak fairness per
worker): the Go scheduler and the connection pool do not starve it.  The page
that lists the vault keeps being loaded, and in `bot_catch_up` an owner keeps
saving the agent; no fairness is assumed of any other request, of failures or of
the processor.  In `request_gate` the service's own steps run and its HTTP client times
out, while the auth service owes nothing (`Judge` is unfair).  In `list_pages` the client
goes on asking.  In `rate_limits` a request that is about to take or be refused a token
does so, time passes and the cleanup's ticker fires; fetching a bucket is *strongly* fair,
because the sweep frees the mutex again and again and `sync.RWMutex` does not let a waiter
be overtaken for ever (a waiting writer blocks new readers, and its mutex hands itself to a
waiter of more than a millisecond).

## Seen on the way

Where the code and what its comments or documents say of it differ.  The properties state
what the code does; these are the places a reader of both will ask about.

The vault:
- The delete guard is documented to fail closed (`reference_repository.go:51`), but GORM's
  `HasTable` and `HasColumn` answer false when the catalog query fails, and the guard then
  skips the store (`:148`).  `ReferencesGuarded` says so.
- The guard's query of agents reads the top level of the config, while official MCP servers
  keep their references at `config.mcp_servers[i].credential_refs`
  (`config_processor.go:335`, `reference_repository.go:130`).
- A tool or server saved without `credential_refs` stores the JSON `null`, on which the
  guard's `jsonb_each_text` fails (`:111`): it fails closed, for every static credential,
  until the row is saved again.
- The sync of a listing needs no privilege and looks rows up by their connection, whatever
  their scope: an OAuth row that was promoted to the installation scope is still renamed,
  reactivated and deactivated by anyone's listing (`oauth_connection_repository.go:84-102`).
- The name of a mirrored row is made of its agent's name (`oauth_connection.go:116`), so
  renaming can make a reactivation clash.
- The report of retired stores counts a column that migration 12 dropped
  (`migration_state_repository.go:55`).

Agents and their config:
- Comments promise a sync endpoint for bots (`agent_service.go:207`); there is none, and
  saving an agent whose bot row is gone fails for ever.
- A setting that goes back to `false` never reaches the bot (GORM skips zero fields).
- A save that crosses from an external or A2A type to a flow is not processed by the flow's
  processor; the next read turns a flow without sub-agents into an LLM agent.
- That repair leaves an empty `custom_tools` list, after which later `custom_tool_ids` are
  not expanded; a client that sends back the `custom_tools` it read freezes that copy.
- If the ids are there already the repair means to leave no empty list ("The flow-to-LLM
  rewrite must not persist an empty custom_tools placeholder",
  `agent_service_reconstruct_test.go:179`) and drops it (`agent_service.go:483`); but the
  loop after that (`:486`) copies every key of the old config that the new one lacks, and
  with it an empty list that was in the old config.  The test has none there; an agent with
  ids that is saved as a flow with `custom_tools: []` and read has.
- The second write of a create or a save stores the whole copy that was made before the
  bot was written (`agent_service.go:125`, `:211`): a folder assigned meanwhile is undone,
  as it is by a read that repairs.
- Reads expand tools from the first hundred of the list; types that keep their key ignore a
  key that is sent; an unrelated save of a flow or a task fails once a stored sub-agent is
  gone.  `processor/external.go` is never reached.

Folders and secrets:
- The existence check of `folderShareService.Create` is the only guard against sharing a
  folder twice with one user, and an update that reactivates a share by-passes it; revoking
  one of the two then leaves the access standing.  An update with `is_active = false` is
  acknowledged and changes nothing.
- The query behind `GET /agents/folders/accessible` qualifies its columns with a table it
  does not select from (`folder_share_repository.go:101`), so that listing always errs.
- `sanitizeConfig` hides values that look like an API key under any name, but the merge
  restores the listed names only, so saving an integration as it was received erases such
  an entry.

API keys, requests and tenants:
- The discovery of a key's models ignores its `base_url` (`api_key_handler.go:337`),
  although the model's comment says it decides the endpoint (`model.go:21`).
- `ValidateToken` turns every failure of the auth service into a 401.  Its requests do not
  carry the client's context, so a client that hangs up does not end them.
- The rate limits are installed before authentication, so a client is always an address;
  a request its client's bucket refuses has still taken a global token; the configured
  cleanup interval is not used.
- The quota's comment allows for a tenant "one over its plan"; concurrent imports pass it by
  their size.  A read of the check that errs is said to fail open, but it ran on the
  request's transaction, which is aborted by it.
- The vault's guard runs raw `Scan`s (`reference_repository.go:169`) that the tenant plugin
  does not route, so in the enterprise build they run on the pool and see no rows
  (compare `wire_enterprise.go:65`).

- The writes of the MCP catalog stand behind `user_admin.go`, which asks the gin context for
  `is_admin` (`:22`); nothing puts it there (`jwt.go:40`, installed on no route, puts it in
  the request's context), so they are always answered 401.

Lists: no listing has an ORDER BY; `skip` is rounded down to a multiple of `limit`; a
`limit` of zero divides by zero, which the recovery middleware answers as a 500; the agents'
`created_at` clause takes any text, several dates among them, and lets the database refuse
it, where the other lists drop the clause; a tool or server whose `created_at` is NULL is
listed neither under a date nor under its opposite (`custom_tool_filter.go:100`,
`custom_mcp_server_filter.go:106`), although the texts' `<>` asks for `IS NULL` too.

## Proofs

`CredentialVault_proofs` proves for every number of workers, rows, connections and
consumers and for every bound, from `ConstantsAssumption` only (the constants are
of the right sorts; an attach request names a slot of the validated store):

- `AlwaysAccounted`: the inductive invariant `IInv`;
- `TypeCorrect`, `MirrorUnique`, `AttachmentsHoldValues`: invariants it implies;
- `DeleteSeversOnlyUnseen`, `LiveRowsStay`, `InstallationDefaultsGuarded`: action
  properties, from `IInv` and the actions that can break each: for the last these are the
  statements of a write (`OwnWrite`) and the sync's, which only mirror (`SyncMirrors`).

Why a strengthening: that a delete severs only unseen references is a fact about the
last step of a request, and what makes it true is spread over its earlier
statements.  `IInv` says what each guard has established when it is passed and what
the history knows since (`PassedStoresClear`, `OwnerNotLive`, `ScopeAuthorized`,
`AttachesStatic`), that a worker serves the request its statement belongs to
(`Serving`), and that the kind of an id decides its owner (`OwnedByKind`).

`AgentBotSync_proofs` proves for every number of workers, agents, bots and names and
for every bound, from its `ConstantsAssumption` (the null values are no ids, requests
are well-formed):

- `BotInvariant`: the inductive invariant `IInv`;
- `LinksWhole`, `BotsStayApart`, `OrphansExcused`, `DanglingExcused`: the parts of it a
  reader should know;
- `BotsFollow`: the invariant `BotFollowsAgent`, from one of its own (`FollowInv`) and from
  `OnceOn`, which follows a setting from the agent's row through the copies to the bot.

Here too the properties are not inductive.  What makes them hold is that, until the
history of an agent is `excused`, its one writer still knows the row it copied
(`InStep`: `CopyCurrent`, `Linking`, `Deleting`), that two writers at once are
`excused` (`OneWriter`), and that a bot is only ever named by its own agent
(`BotsApart`).  The proof splits the steps in two: those that leave every link as it is
(`QuietStep`: reads, repairs, plain writes, arrivals and failures), and the six writes
that make or break one (`WriteStep`), where readers beside the writer keep knowing the
bot because a write never swaps one bot for another.

`FolderShares_proofs` proves for every number of workers, folders, shares, users and
agents, from its `ConstantsAssumption`:

- `FolderInvariant`: the inductive invariant `IInv`;
- `SharedAtMostOnce`, `AssignmentsLast`: its two parts.

Each of the two depends on what a request found out one or two statements earlier, so
the strengthening is `Timely`: as long as a request is not late, the lookup it passed
still finds no share, and the folder of its copy, inserted or read, is still the agent's.  `QuietStep` covers
the actions that write no table, `WriteStep` those that do: others turn late exactly
when what they found out stops holding (`Overtaken`, `Outrun`).

`Saves_proofs` has the saves that merge.  For `SecretMerge`, for every number of workers,
rows, names and values, from its `ConstantsAssumption` (the sorts, and that no integration
is made by a create):

- `MergeUndoesRedaction`: hiding, editing and merging the same contents is the edit, name
  by name;
- `SecretInvariant`, `ToolsDiscovered`: the inductive invariant `IInv` and its visible part;
- `SavesDoAsAsked`: the action property `SavesAreEdits`.

A save writes long after it read, so the invariant says of every stage what the write will
be worth against the row *as it is now*: `DraftFaithful` (what the screen sent, once
merged), `WriteFaithful` (what was merged) and `Discovered` (what the tools belong to),
each up to the names `Excepted`.  `BehindFaithful` is the heart of it: when another request
changes the row, a task stays faithful because it misses exactly the names it relies on.
`QuietStep` covers the steps that write no table, `RowStep` those that do.

And for `AgentConfig`, for any requests at a time, whatever they send, and for any
tools, servers and agents to refer to, from its `ConfigAssumption` (what is sent has the
types of its keys, a client cannot make up the copy that only a read shows):

- `ConfigInvariant`: the inductive invariant `ConfigInv`;
- `SavesMerge`, `KeysHold`, `NoCopyStored`, `OnlyValidStored`: the four invariants of
  `agent_config`, `SaveIsMerge` and what may become of the key, the copies and the checks.

What a save stores was checked against an agent that it read and expanded some statements
before, and it is written twice.  So `ConfigInv` says of every stage of a request how the
copy it holds `Fits` the agent that is stored: it passed some check (`Sound`), it has the
same key unless a save has sent another (`SameKey`), tools that a read put there are in it
only between the expansion and the merge (`ToolsRead` against `ToolsStored`), and, if
nobody has written in between, the stored agent is exactly what the save makes of what it
read (`Saved`).  The facts about the merge are stated key by key (`UpdatedKey`, `CreatedKey`,
`RepairedKey`); from them follows that what a create, a save, a repair and an expansion
leave is sound (`CreateSound`, `UpdateSound`, `RepairSound`, `HydrateSound`).  The steps
are of two kinds, those that only move one request on (`MoveStep`) and those that write
the agent (`PutStep`), which every other request has to survive (`DisturbedFits`).

`ApiKeys_proofs` proves for every number of workers, rows, keys and endpoints, from
`ConstantsAssumption` (there is a key; the null values are no values):

- `KeyInvariant`: the inductive invariant `IInv`;
- `TypeCorrect`, `TornSavesKnown`, `OneDeleteAnswers`: invariants it implies;
- `DefaultsGuarded`: the action property `InstallationGuarded`.

An update's later statements are right only because of what its first one did, so `IInv`
says what an update still owes its row (`OwesEndpoint`, `OwesFlag`), unless a younger one
has named that column since, and what an unprivileged request knows of its row's scope
(`Authorized`).  `FirstStep` carries the argument: it is the statement that makes others
late.

`Requests_proofs` has what a request goes through and the lists it then reads.  For
`RequestGate`, for every number of workers, users, tenants and agencies:

- `GateInvariant`: the inductive invariant `IInv`;
- `TypeCorrect`, `NoUngrantedHandler`: invariants it implies;
- `NoRefusalWithoutCause`: the action property `RefusedForCause`.

`Passed` says of each stage what the gates behind it were worth, `Heard` what a reply that
has come says of its gate, and `Watching` that the history follows the authorities.
`QueryIsReach` shows that the membership query, with its NULLs, says what the owner of a
tenant would (`AllowQuery` and `Reaches` are equivalent).

For `ListPages`, for any table, queries, sizes of pages and number of writes, from
`PagesAssumption` (finitely many rows; queries are well-formed):

- `ListsWalked`: the inductive invariant `WalkInv`;
- `NoRowMissed`, `NoRowTwice`: `WalkComplete` and `WalkExact`;
- `OppositesApart`: `OppositesPartition`.

`WalkInv` is about ranks (`Progress`): until a row goes or moves, the rows that stayed and
have a rank up to the end of the last page are among those the client has seen, and until
one comes or moves, every row it has seen has such a rank.  Both follow from what one write does to the
rank of another row (it grows by at most one at an insert, and shrinks by at most one at a
delete).  `OppositesPartition` rests on the fragments of `ListFilters`, kind of column by
kind of column (`TextOpposed`, `ScalarOpposed`, `TagsOpposed`): the NOT of a comparison
lists what the comparison does not, except where both are NULL, which the `IS NULL OR` of
the texts makes true and the bare `<>` of a date leaves.

`RateLimiter_proofs` proves for every number of workers, clients and buckets and any burst:

- `LimiterInvariant`: the inductive invariant `IInv`;
- `TypeCorrect`, `OneBucketPerClient`, `OverdraftBounded`: invariants it implies;
- `LimiterImplementsBucket`: the refinement of `TokenBucket`.

The strengthening: no two clients share a bucket (`Separate`), a request holds the bucket of
the map or knows that it was found full behind it (`Draws`), the one the sweep is about to
delete is held by no other (`Sweeps`), and what a client was granted unpaid covers what its
bucket does not show (`Covered`).  For the refinement each step is mapped by a lemma of its
own (`TakeMaps`, `RefuseMaps`, `TickMaps`, `CheckMaps`, `OthersUnseen`).

`TenantScope_proofs` proves for every number of workers, tenants and agents and any limits:

- `ScopeInvariant`: the inductive invariant `IInv`;
- `NoSilentLoss`, `BoundRequestsServed`: invariants it implies;
- `AgentsShareFate`: the action property `FateShared`;
- `PlanHolds`, `TypesKept`: `QuotaKept`, and the types with that of its history
  (`QuotaInv`, beside `IInv`).  What a tenant has and what its requests may still insert are
  finite sets; a step that books nothing more keeps the plan (`NoMoreBooked`), an insert
  moves one agent from the second set to the first, and a check adds to the second what it
  has found room for.

`Tallied` ties what is inserted and what is left to what was asked for; `RowOwned` and
`Drafted` say that no two open transactions hold one row, which is what makes the commit of
one leave the others alone.

Only model-checked are the liveness properties (`ConvergesOrBlocked`, `NoChurn`,
`BotsCatchUp`, `Answered`, `RequestsDecided`, `IdleClientsDropped`, `WalkEnds`): they need
fairness, which the prover's temporal backend does not reason about.  Every invariant and
every action property of the passing runs is a theorem.

## Not modelled, and why

- Encryption, masking and hints of values, display columns, logging, wording of answers.
- The vault, folders, keys and secrets under the enterprise build's transaction: there the
  statements of one request are atomic against failures; those models describe the
  community build, `TenantScope` the other one for agents.
- The SDK that binds a tenant and ends its transaction: not in this repository, modelled
  from how it is used.
- The CRM's own writes of `agent_bots` and the processor's of tokens, but for the ones
  the vault observes.
- The report of retired stores, health checks, model discovery of a key and start-up: reads
  without state, or code that runs once alone.
- The writes of the MCP catalog, which `user_admin.go` refuses, and the renaming of a folder:
  single statements nothing else depends on.  Trying out a tool or a server changes nothing.
- `jwt.go` is installed on no route and `CheckFolderAccess` is called by nobody.
  `agent_access.go` is installed on the routes that name an agent and has no module of its
  own: all it does is the read that `AgentBotSync` has as a `get`.
- A folder that goes between the check that it exists and the write that refers to it: the
  foreign keys refuse the write, in the models as in the database, and there is no property
  of the code in it.

## Plan

What is left, in this order.

1. An abstract mirror (per connection: absent, active, inactive) which `CredentialVault`
   implements under a refinement mapping, and the same for an agent with its bot.
2. The vault's guard under the enterprise build: `CredentialVault` with the routing of
   `TenantScope`.
3. In `CredentialVault`, the store that a row with the JSON `null` as its references
   poisons for the delete guard.
