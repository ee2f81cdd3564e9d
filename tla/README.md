# Verification of the AITW deployment provider

The repository ships a *defense layer*: a control plane (`src/agent_runtime/control`), safety components
(`src/agent_runtime/safety`) and a provider object (`provider.py`) that a host harness threads together
around its own agent loop and tools. This directory holds TLA+ specifications of that code, TLC
configurations that check them on small instances, and proofs, checked by TLAPS, that hold for every
instance. Paths below are relative to the repository root.

## Inventory of the system

| Component | Source | State it keeps | Operations |
| --- | --- | --- | --- |
| Credential broker | `src/agent_runtime/control/broker.py` | `_active` token per tenant, `_revoked` tokens, `_model_key_uses` and `_effect_uses` counters, the clock it reads | issue (mint, supersede, register), `is_valid`, `revoke`, `use_model_key`, `allow_external_effect` |
| Enforcing task registry | `control/enforcing_registry.py:84-165` | guards and tool table, `decisions` log | `register`, `call`: shape, allow-list, credential, budget, egress, tool, scan |
| Posture registry | `control/enforcing_registry.py:168-215` | one tool, the bulletin of its `ctx`, `decisions` log | `call`: bulletin, fail-closed |
| Egress policy | `control/egress.py` | none (pure) | `url_egress_allowed` |
| Operational bulletin | `control/bulletin.py`, `schemas/` | none; reads the schema file at every validation | sequential validation, fallback |
| Output scanner | `safety/output_scanner.py` | representations of registered secrets | `register`, `scan` |
| Scoped store | `safety/scoped_store.py` | none of its own, a view over the host's raw store | `put`, `delete`, `get`, `list_keys`, `search` |
| Provider | `provider.py` | the cached scanner | factories in the order of its docstring |
| Dependency guard | `safety/dependency_guard.py` | `sys.path`, module cache, files | `verify_vendored`, `verify_all` |
| Reset | `safety/reset.py` | the file tree | `reset`, `safe_reset`, command line |
| Secret guard | `safety/secret_guard.py` | none; reads the file tree and git's index | `scan_repo`, command line |
| Label scan | `scripts/label_scan.py` | none; reads the file tree | `scan` |
| Host (not in the repository) | — | raw store, tools, agent loop | everything that calls the above |

How they interact. The host makes one scanner, hands it to the broker, which registers the backing
secrets on it and every token it mints. A task registry asks the broker twice per external-effect call,
through two closures: `is_valid(cred)` and `allow_external_effect(tenant)`. It runs a host tool and
passes the result through the scanner. A tool reaches data only through a scoped store, which shares the
raw store with the host and all other tenants. Several registries and views share one broker, one
scanner and one raw store. The posture agent has a turn of its own, before the task agent's: its only
tool hands it the tenant's bulletin, validated and scanned, or the safe one. Reset, secret guard and
label scan are the release gate: they run one after the other on a checkout, share nothing but its files,
and it is their verdicts together that say what may go public.

What is hard:

- *Time.* The credential is checked before the tool runs. The clock moves, and the host may revoke or
  supersede, before the tool has ended.
- *Order.* Asking the budget guard is what charges it; which refused calls cost budget follows from
  the order of the checks.
- *Partial failure.* A tool may raise after its effect; the egress check may raise after the charge.
- *Concurrent mutation.* `list_keys` fetches keys of a snapshot one at a time over a store that others
  change ("concurrent delete", `scoped_store.py:89`).
- *Inconsistent data.* A raw record may name another key or tenant than the key it is filed under.
- *Construction order.* The scanner is made by whoever asks first; the broker teaches the one it was
  handed, the others redact with the one that is cached.
- *Files that change between two reads.* The schema is read anew at each validation; a sweep goes over
  lists made before its removals, of a tree that others write to.

The code has no threads and no locks. The concurrency modelled is the one it can meet: the clock, the
host's steps while a tool (host code) is running, and other users of the raw store between two of its
calls. One broker method is one step.

What makes each component correct: the broker never leaves two credentials of a tenant alive and never
revives one; the registry's log tells the truth and its denials are final; budgets are shared, exact and
bounded; no existing secret reaches an agent; a view shows its tenant's records, all of them and nothing
else, and cannot change what `get` and `list_keys` show another; a posture agent gets a bulletin that
conforms, and always gets one;
the composed layer never shows an agent a protected value or another tenant's data; a reset removes what
it may and leaves nothing it should remove; a clean guard and a clean label scan mean what they say.

## Plan

1. `CredentialBroker`, its abstract `CredentialLease`, and proofs — done.
2. `EnforcingTaskRegistry`, which extends the broker and composes any number of registries with it, and
   proofs — done.
3. `ScopedStore` and proofs — done.
4. `OutputScanner`: text as sequences; register and scan with longest-first replacement; proofs — done,
   for representations that cannot overlap the marker. What happens when they do (a host may register any
   backing secret) is left.
5. `EgressPolicy`: normalisation and prefix matching over segments, against a reference that resolves the
   path segment by segment; proofs — done.
6. `DependencyGuard` and proofs — done.
7. `PostureRegistry`: the sequential validator against a declarative one, and the fallback under every
   kind of delivered bulletin and a schema file that changes — done.
8. `DefenseLayer`: scanner, broker, registries, bulletin and store wired through the provider, refining
   the abstract `Containment`; proofs — done.
9. `Reset`, `SecretGuard`, `LabelScan` over one `SourceTree`, composed in `ReleaseGate`; proofs — done.
10. `BudgetLedgerExact`, by counting slots of the logs — done.
11. `RecursionFacts`, for proofs about what a recursive definition computes on data of any size — done.
12. Left: representations that overlap the scanner's marker, and a registered value that JSON escapes
    (both are hazards without a property).

## The modules

| Module | What it models |
| --- | --- |
| `CredentialLease` | Abstract: credentials are granted once, at most one per tenant is live, none becomes live again. |
| `CredentialBroker` | `broker.py`. `now` is `_clock()`, `active`, `revoked`, `modelKeyUses`, `effectUses` the private fields, `registered` what the scanner has been taught, `issued` the credentials handed out. `keyReads` is history: reads of the model key. |
| `EnforcingTaskRegistry` | `EnforcingTaskRegistry` objects on one broker. `wiring` holds a registry's constructor arguments and tool table, `call` the tool it is running, `decisions` its log. `raised`, `dispatched`, `lateEffects`, `seen` are history. |
| `EnforcingTaskRegistryProofs` | Proofs about the broker, the registries and the budget ledger. |
| `ScopedStore` | The views of all tenants over `raw`. `listing` is a `list_keys` in progress; `steady`, `touched`, `exposed`, `spilled` are history. |
| `ScopedStoreProofs` | Proofs about it. |
| `OutputScanner` | `output_scanner.py` on real text. `reps` is `_reps`, a dict in insertion order; `taught` and `scanned` are history. |
| `OutputScannerProofs` | Proofs about it. |
| `EgressPolicy` | `egress.py`. `url` and `allowlist` are the arguments, `verdict` what `url_egress_allowed` returned. |
| `EgressPolicyProofs` | Proofs about it. |
| `DependencyGuard` | `dependency_guard.py` in a running interpreter. `path` is `sys.path`, `imported` the entry of `sys.modules`, `files` the disk, `pinned` whether the manifest names the package, `answer` how the last `verify_vendored` ended; `accepted` is history. |
| `DependencyGuardProofs` | Proofs about it. |
| `PostureRegistry` | `PostureRegistry.call` and `bulletin.py`. `delivered` is the bulletin in `ctx`, `schema` the schema file, `reading` the call in progress between its two validations, `outcome` what the call handed over and logged; `inForce`, the schemas on disk during the call, is history. |
| `Containment` | Abstract: what a value's registration and a tenant's data mean for every agent, with all components hidden. |
| `DefenseLayer` | The factories of `provider.py` and the objects they make. `cached` is `_scanner`, `taught` the values on each scanner, `handle`, `broker`, `views`, `tasks`, `posture` who holds which scanner; `protected`, `entrusted`, `disclosed` are history and the refinement's abstract state. |
| `DefenseLayerProofs` | Proofs about it, `PostureRegistry` included. |
| `SourceTree` | A checkout as a map from paths to texts; directories, `rglob`, `rel.parts`. |
| `Reset` | `reset.py`. `sweep` is the `safe_reset` in progress (its loop, what is left of the list), `reported` what is returned so far, `links` the run directories that are symbolic links; `failed` and `disturbed` are history. |
| `SecretGuard`, `LabelScan` | `secret_guard.py`, `label_scan.py`: functions of a tree. |
| `ReleaseGate` | The three of them on one tree. `guard` and `labels` are the last verdicts, forgotten when the tree may have changed; `tracked` is git's index, which others add to and remove from: the guard's verdict outlasts that, but not an add by force. |
| `ReleaseGateProofs` | Proofs about it. |
| `RecursionFacts` | Induction, recursion, and what concatenating and flattening sequences does; used by the proofs about the scanner, the egress policy and the guard. |
| `MCCredentialBroker`, `MCEnforcingTaskRegistry`, `MCScopedStore`, `MCOutputScanner`, `MCEgressPolicy`, `MCDefenseLayer`, `MCReleaseGate` | Instances for TLC. |

Correspondence. A broker method is one action; one that returns without changing state (a
`use_model_key` at the cap, `is_valid`) is a guard. `call()` is `Call`, one disjunct per exit before the
tool runs, and `Return` or `ToolError` for the two exits after it. The conditions are the cumulative
predicates `WellFormed`, `Granted`, `CredentialOk`, `BudgetOk`, `EgressOk`: each implies the ones before
it, which is the order of the early returns. `list_keys` is `ListBegin`, one `ListFetch` per turn of its
loop, and `ListEnd`. `scan` is a fold of `ScanTurn`, one turn of its loop, and `str.replace` is
`Replaced`; `url_egress_allowed` is one action that decides a URL against an allow-list.
`verify_vendored` is one action: path, import and checks, in the order of the code; the actions beside
it are what other code in the process and on the machine may do between two calls. A posture call is
`CallUnknown`, or `CallRead` and then one step per validation, because each reads the schema file. In
`DefenseLayer` a factory is one action; `ScopedStore` is instantiated for what the views answer and for
the writes to the raw store. `safe_reset` is `SafeReset`, a `SweepTurn` per entry of each of its three
lists, in the order the code sorts them, and `NextLoop`; a plain `reset`, a guard run and a label scan
are one step. Beside them other programs write files (`Edit`) and use git (`Stage`, `StageIgnored`,
`Untrack`). Definitions commented "Mutant" are not part of the models: each is a way the definition after it
could have been written
wrongly, and shows that a property notices.

Abstractions. In the broker, registry and store modules a secret is an opaque value, a text is the set
of secrets it contains, and a scan takes out those registered. `OutputScanner` is the ground for this:
there, on characters, no representation of a registered secret survives a scan (`NothingSurvives`), what
stands beside a secret is left alone (`SecretsLeaveNoRest`) and scanning twice is scanning once
(`RescanIsHarmless`, a theorem). The standard library's encoders enter as their values on the secrets in use.
`args` is one of five shapes, all that `call()` can tell apart; the egress predicate is its verdict on
the shape. `ttl_seconds=None` stands for a value of `Ttls`. A non-credential passed to `is_valid` or
`revoke` changes nothing and is left out. In `ScopedStore` the kind and name of a key are one item, a
prefix is the set of keys it selects, and a search substring any subset of the records. In
`EgressPolicy` a URL is what `urlsplit` finds in it, a path is the sequence of its characters, and a
percent-encoded character is one element; `unquote`, `split` and `normpath` are modelled by what they
do. In `DependencyGuard` the package is one file, as in `VENDORED`; `Absent` is the whole package
directory gone; byte-code caches are left out. In `PostureRegistry` two fields stand for the schema's,
one with a list of allowed values and one without, and a bulletin says of each whether it is missing, of
the wrong type, off the list, empty or right. In `DefenseLayer` a text is again the set of the values in
it, and JSON leaves values as they are (a registered value that `json.dumps` would escape is a hazard
listed without a property). In `SourceTree` a path is the sequence of its names from `"repo"`, a directory
is there when a file lies below it, and a text is a sequence of lines, each a sequence of the tokens the
scans tell apart; `runs` and `workspaces` may be links, never files. What git ignores is the set of names
and directories of `.gitignore`, and what is staged is the file as it lies in the tree: content that was
staged and then changed on disk is not told apart (the guard reads the disk). Tenant names hold no `:` and are not empty: with such a
name the key prefix of `_tenant_of` is not the tenant, and the view would not see its own records.

Assumptions about the host. The guards are the closures of the provider's docstring, over a credential
issued before the registry was built (it may be superseded by then). One registry runs one call at a
time. In the registry and store modules the broker, the registry and the view use the same scanner;
`DefenseLayer` shows that they do, whichever factory is called first. Its harness passes its own scanner
to `make_broker`, builds a task registry on a `ctx` that holds the view, runs the posture turn before the
task turn, and lets its tools reach the store through that view alone.

## What the runs check

| Run | Bounds | Shows |
| --- | --- | --- |
| `CredentialBroker` | 2 tenants, 3 tokens, time-to-live 0 or 2, clock to 3, spend cap 1, no effect cap, 2 reads per tenant | `TypeOK`, `SpendCapHolds`, `CredentialsExpire`, `DeathHasACause`, `RefinesLease` |
| `EnforcingTaskRegistry` | 2 tenants, 2 tokens, time-to-live 1, clock to 1, 3 tools, effect cap 2; 1 registry with 2 calls and a third that finds the budget spent, or 2 registries with 3 calls between them; symmetric in tenants, registries and tokens | `RegistryTypeOK`, `DispatchWithinBudget`, `BudgetLedgerExact`, `TelemetryTruthful`, `NoEffectAfterCredentialDenial`, `AtMostOneLateEffect`, `NoSecretSeen` |
| `Store` | 2 keys of one tenant and one of another, at least one of the three vacant; writes by host and both views; the first tenant lists | `TypeOK`, `NeverShowsForeignRecord`, `ListComplete`, `ListSound`, `NonInterference` |
| `OutputScanner` | 3 secrets, each a part of another or overlapping it, with their real encodings; every order of registration; messages of 1 or 2 pieces out of all representations and 6 near misses | `TypeOK`, `NothingSurvives`, `SecretsLeaveNoRest`, `DetectionsTruthful` |
| `EgressPolicy` | all paths of up to 7 characters from `/`, `.` and a letter and of up to 4 with encoded characters and a second letter; all authorities; 15 allow-lists | `EgressSound`, `EgressComplete` |
| `DependencyGuard` | vendor and one other directory, 3 kinds of code, `sys.path` of up to 3 entries | `TypeOK`, `AcceptedStaysLocal`, `LocalCopyWins` |
| `DefenseLayer` | 2 tenants, 2 scanners, symmetric; a backing secret, a token and a value that is no secret; a key whose name is the secret; 2 writes to the store; every kind of bulletin; 3 schema files | `LayerTypeOK`, `OnlyConformingBulletins`, `ConformingBulletinArrives`, `FallbackStands`, `RefinesContainment` |
| `ReleaseGate` | 18 paths in every kind of directory; one file with a secret, any index, and one write by others to the tree or the index; or a source file that is empty, no text or has any line of up to 3 tokens; `runs` a directory or a link out of or into the repository; 3 working directories | `ReleaseTypeOK`, `SweepThorough`, `NothingHides`, `LabelVerdictRight`, `RemovalsAccounted` |
| `DispatchRaises`, `StoreRedaction`, `StalePin`, `QuotedName` | as above, one property each (`DispatchRaises`: one registry, one credential) | a disagreement between code and documentation, below |

Why the bounds suffice. Three tokens let one tenant be superseded twice, or once while the other holds a
credential; the two lifetimes give a credential dead on arrival and one that lives across a tick. A cap of
zero is left to the proofs. What is said of a single registry relates at most two of its calls: one that
is late or denied and one after it, with the clock, issues and revocations between and during them; a
third is made when it meets a spent budget, and the time after it is explored too. Three calls of two
registries exceed a cap of two when they share a tenant and stay below it when they do not. Two keys are one lost between snapshot
and fetch and one that must still be listed. Seven characters of path go down, up and down again. Three
entries of `sys.path` hold an intruder in front of the vendor directory and one behind it. Two scanners
are one more than there may be; two writes to the store are a record and its misfiled copy, or a record
and its deletion. One file and one written beside it, or in its place, make every pair of places, so a
cache in a build and a build in a source package are emptied in the order the loops come to them. The
bounds `MaxTime`, `MaxReads`, `MaxCalls`, `MaxPath`, `MaxWrites` and `MaxEdits` are guards of the actions
`Tick`, `UseModelKey`, `Call`, `InsertPath`, `AgentWrites` and `HostWrites`, and `Edit`, `Stage`,
`StageIgnored` and `Untrack`. The constraint
`MCFew` of `MCScopedStore` keeps one key vacant and lets the tenant with a single key list nothing; that
of `MCReleaseGate` explores neither links nor edits for the trees that are there for their lines; that of
`MCEnforcingTaskRegistry` stops the clock for two registries, gives them one credential, which one, both
or neither may hold, and leaves to the single registry the calls that end before the credential is looked
at and the tool that is not external: a registry's calls touch another only through the broker's counter,
and what the clock and the broker do to a registry does not depend on there being a second. A scan
has no effect on the scanner, so one after each registration stands for any number. Deadlock is not
checked in the broker, registry and layer runs because the bounds end every behaviour there, nor for the
egress policy, which decides once; it is checked for the store, the scanner, the dependency guard and the
release gate, which always have a next step.

Fairness. The one liveness property, `CredentialsExpire`, assumes weak fairness of `Tick` alone: the
clock is `time.monotonic`, which advances by itself. Nothing is assumed of the host, and nothing of a
tool: a tool may never return. The property speaks of credentials whose lifetime ends within `MaxTime`.

### Disagreements found

- `DispatchRaises`: `{"url": 5}` raises out of `call()` from the egress check, with no decision logged.
  `enforcing_registry.py:126-128` and `egress.py:24-25` say malformed input is denied in control.
- `StoreRedaction`: `get` and `search` redact `content` and hand out `key` and `name` as they are;
  `scoped_store.py:11-12` says any registered secret in an own record comes back redacted.
- `StalePin`: the hash pin is compared with the file on disk, not with what was imported. A tampered copy
  that the guard imports and rejects stays in `sys.modules`; once the file is repaired the guard accepts
  the module that is still loaded. `dependency_guard.py:10-12` and `:70` say a tampered local copy fails
  the pin.
- `QuotedName`: `git ls-files` prints a name with special characters quoted and escaped, no file has that
  name, and the guard drops it unread (`secret_guard.py:142`, `:145`): a secret in it passes.
  `secret_guard.py:2` says the build fails on disallowed patterns in tracked files, and `:132` that
  whatever would go public is looked at.

### What else the models made plain

Each of these is a condition on a property above; where one also differs from a comment of the code, it
says so.

- Budget is charged by calls that are then blocked by the egress check, name no known tool, or raise:
  `BudgetLedgerExact` counts them all.
- A record that the host has filed under another tenant's key is its owner's to `search`, which looks at
  the record alone, but not to `get` or `list_keys`, which look at the key as well. The other tenant's
  `delete` or `put` on its key removes it, and only then does one tenant's view change what another's
  search finds (`NonInterference`). "Same authority as get()/search()" (`scoped_store.py:86`) does not
  hold for such a record.
- After a clean guard and an undisturbed `safe_reset`, a file with a finding can still go public from
  the places of `BlindSpot`: virtual environments and `node_modules` that git tracks or, without git,
  that are there; `runs` and `workspaces` deeper than the root; `build` and `dist` outside root and `src`;
  and a *file* named like a cache directory or like an artifact directory. Undecodable files and files
  with the marker are not read either.
- What is staged or untracked after a clean guard changes nothing of that: without `-f`, git adds only what
  the guard has looked at. After a `git add -f` of an ignored file the guard has to be run again, and
  `NothingHides` claims nothing until it is.
- The allow-list of the label scan looks at the first occurrence of a form in a line, so it never misses
  a bare label but reports an allowed one when the form occurs twice (`Repeated`), although
  `label_scan.py:30-35` calls these forms allowed. No run is spent on this: it fails on the safe side.
- A plain `reset` from another working directory than the root finds no targets and reports nothing to
  remove. When its `rmtree` raises, what was removed before is not told.
- `safe_reset` reports a run directory that is a link into the repository as removed, though `rmtree`
  refuses links and `ignore_errors` swallows the refusal; the model counts it as no failure, as there is
  nothing of its own to remove. Likewise a directory that `rmtree` could not remove, or not altogether, is
  reported as removed (`reset.py:50`, printed at `:71`): `failed` is history the program does not keep, and
  `SweepThorough` is about sweeps without it.

## What is proved

For all values of the constants, from the named assumptions `BrokerAssumption`, `RegistryAssumption`,
`StoreAssumption`, `GuardAssumption`, `PostureAssumption`, `LayerAssumption`, `PathAssumption`,
`ResetAssumption`, `ReleaseAssumption`, `EgressAssumption` and `ScannerAssumption` (sentinels differ from
values, lifetimes and caps are integers, external tools are tools, secrets and tokens are values, paths
are sequences of names, URL paths and messages are sequences of characters). `ScannerAssumption` also
restricts the secrets: no representation of a secret is empty, holds the separator of messages, holds the first
or last character of the marker or is a part of it. That is true of the tokens the broker mints, whose
representations have neither brackets nor so few characters; of a backing secret it is the host's to keep.

*Recursion.* A parser, a fold or a replacement is a recursive function here. What it computes for data of
any length is proved by induction on sets and recursion on functions, in `RecursionFacts`: a set of
numbers that holds 0 and is closed under the next holds all (`Induction`, `BoundedInduction`,
`DownwardInduction`, from the well-foundedness of the naturals), and a step that looks only at smaller
arguments has a function that satisfies it (`Recursion`, from which `BoundedIteration` and `Flattening`).
A proof about such a definition shows that a function satisfying its equation exists, so that the one the
definition names does, and then puts the arguments at which the claim holds into a set.

*Broker.* `BrokerInv` is `TypeOK` with `TokensTracked`: a token names one credential, only minted tokens
are revoked, no credential is from the future. It is inductive; `TypeOK` is not enough for what follows
because a fresh token must differ from every active and revoked one. From it: `NoRevival` (a step never
makes a dead credential valid), then `DeathHasACauseCorrect`, `SpendCapCorrect`, and `LeaseRefinement`,
in which an issue is a `Grant` and every other step a `Lapse` or a stutter.

*Registries.* `BrokerSimulation` shows that every step of the composition is a broker step or a stutter,
so `BrokerInv` and `NoRevival` carry over. `RegistryInv` adds the registries' types and `WiredToIssued`:
a guard holds a credential that was issued. `GuardStaysDead` follows, and `OwnStep` sorts what a step
can be to a registry into four cases. On these rest `AtMostOneLateEffectCorrect` (strengthened by
`LateOnce`: a registry that has been late is dead and runs nothing external), `TelemetryTruthfulCorrect`
(with `BudgetStaysSpent`), `NoEffectAfterDenialCorrect` (strengthened by `DeniedRunsNothing`),
`DispatchWithinBudgetCorrect` (strengthened by `DispatchSpends`: dispatches never exceed the counter)
and `NoSecretSeenCorrect` (every existing secret is registered).

*Budget.* `BudgetLedgerCorrect`, the one proof about cardinalities, is `BudgetLedgerExact` for any finite set of registries. `SlotsLeft`, that the calls a registry has
logged, that raised and that it runs have a slot each, makes the counted sets finite and says which slot
a step adds: `LogAdds`, `RaiseAdds`, `RunAdds` and `RunEnds` give the change of each of the three parts,
`ChargeCounts` that of the counter, and `LedgerStep` sets the one against the other for every exit of
`call()`, for `Return`, and for registries built and extended meanwhile.

*Store.* `TypeCorrect` is the type invariant. `ListingAccount`, that keys owned since the call began are
listed or pending and listed keys
were owned at some time, gives `ListCompleteCorrect` and `ListSoundCorrect`. `WritesStayHome`, that a view
writes under its own tenant's keys only, and `WritesNameTheWriter`, that what it writes there names its
tenant, give `NonInterferenceCorrect`. `ExposureInv`, that every record in the raw store says who wrote it unless the
host did, gives `NeverShowsForeignRecordCorrect`: it asks nothing of the host, which may file any record
under any key.

*Guard.* An import is final (`ImportIsFinal`: what `sys.modules` holds never changes), and the guard
accepts only what it has found local and with its sentinel; so `AcceptedStaysLocalCorrect`.
`VendorFirst` makes a path of any length one with the vendor directory in front (`VendorFirstTyped`), and
the import takes the first directory that has the package (`FirstProvider`, which exists because there is
a least index); so `LocalCopyWinsCorrect` and `TypeCorrect`.

*Scanner.* `Replaces` states what `str.replace` does at each position of the text, and `Replacing` that
`Replaced` does it. From the right end of the text, `NothingUncovered`: what occurs after a replacement
and may be redacted occurred before it, and not where something was replaced; neither the marker nor its
edges can make it. So a replacement leaves none of what it replaces and makes none of what may be redacted
(`ReplacedGone`, `ReplacedMakesNone`), and turn by turn (`AfterTurns`) `NothingSurvivesCorrect`,
`RescanIsHarmlessCorrect` and `DetectionsTruthfulCorrect`. `SecretsLeaveNoRestCorrect` has two more parts.
A separator splits a replacement (`ReplacedApart`), hence a scan (`ScanApart`), hence the scan of a message
of any number of pieces (`ScanJoined`). And a secret that is all of a piece becomes the marker
(`SecretAlone`), because the items come in falling length (`LongestFirstIs`): those before its own are
longer, or as long and different, and do not occur in it. The invariant `ScannerInv` says that the dict
holds redactable items, is what was taught (`TypeCorrect`), and is the one the last scan used.

*Egress.* The code compares strings; the reference follows names from the root and keeps the steps that
were not taken back. `NormpathIsTheWalk`: the names that `normpath`'s stack holds are the steps the walk
keeps, because the depth of the one is the height of the other and a step is kept as long as the depth
stays (`KeptStep`). `AllowedIsAbove` and `AboveIsAllowed` turn the prefix test on the joined characters
into a prefix of names: a name has no slash, so the first slash after a common beginning ends the same
name in both (`SameName`, `SameStart`). Together `AllowedIsInside` and `InsideIsAllowed`, which give
`EgressSoundCorrect` and `EgressCompleteCorrect`; the second needs `PlainRoot`, the first does not.

*Layer.* The invariant (`LayerInductive`) is `LayerTypeOK` with five facts: whoever redacts or teaches
holds the cached scanner (`OneScanner`); that scanner has learned every protected value (`Learned`); of a
record that a tenant owns, the key it is found under (`Filed`), its own name and its content (`Kept`) were
entrusted to that tenant; so was the bulletin of the posture registry (`Announced`). The bulletin theorems
need only `CallInv`, on the posture call in progress: the schema on disk is one of those in force, and the
fallback is reached only past a schema that the bulletin fails.
`ContainmentRefinement` maps making a broker and issuing to `Protect`, a write to `Entrust`, an answer to
`Disclose`, and everything else to a stutter; the invariant gives the guard of `Disclose`, that what is
shown was entrusted to the tenant and is not protected.

*Release gate.* `GateInv` is the types with `Placed` (no file below a file or a link), `SweepInv` (what
is pending is a candidate of the loop in progress) and `Progress`: of the places of the loops that are
through, and of the entries done in the one that is not, nothing is left unless a removal failed or
somebody else wrote. It is what `SweepThorough` needs to be inductive. `RemovalsAccounted` follows from
the candidates of each step. `VerdictInv`, that a verdict there is belongs to the tree as it is, gives
`NothingHidesCorrect` together with `SweepThorough`: what the guard leaves out, the sweep has emptied,
or it is a blind spot. The index may move meanwhile: `IndexStaysClean`, that what is staged without force
or untracked adds nothing to what git would publish. `LabelVerdictCorrect` rests on `AllowedIsNearlyRight`, about the first occurrence
of a form in a line (it exists because the naturals are well-founded), and on two lemmas that turn the
scan over paths and lines into sets of names and lines that ship.

Only model-checked: `CredentialsExpire`, as liveness is out of the prover's reach. The four properties
that are violated are refuted by their runs. Every other property of every run is a theorem.

## What is not modelled

The acceptance self-check and the tests drive the provider through fixed scenarios and have no behaviour
of their own. The telemetry schema, packaging and the vendored package hold none of this program's
behaviour. Of the secret guard and the label scan, the regular expressions are left out (a line holds a
match or not) and so are their reports. A host that registers a value which overlaps the marker
`[REDACTED]`, or which JSON escapes, is outside the models of the scanner and the layer. So is text that
the host composes from several scanned results. A task registry's allowed tools are fixed when it is
built, where the code reads them from `ctx` at each call (`enforcing_registry.py:116-118`); an allow-list
entry that is no text, on which the egress check raises as it does on such a URL (`egress.py:63`), and a
manifest that is no JSON are left out. A plain `reset` is one step, so nobody writes between its two
targets, and its report names both although one nested in the other is gone when its turn comes. The host's tools,
raw store and agent loop are not in the repository: they are environment actions, as unconstrained as the
code that calls them allows.
