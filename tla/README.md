# Verification of Aegis Vault

TLA+ models of the parts of Aegis Vault that decide whether an agent's money
moves and whose key says so: the on-chain account and its JavaScript twin, the
MCP server with its gate, its store and its relayer, the isolated signer and
the remote keeper, session keys and spend policies, the x402 and AP2
guardrails, the time-lock of policy changes, the replay window of signed
messages, and the audit trail with its anchors and its collector. TLC checks
each on a small instance; TLAPS proves what the runs check, but for liveness,
for every value of the constants.

Paths are relative to `src/`. Line by line, `PROJECT.json` has the map from
definitions to code, the hazards with the properties that would catch them,
and one plausible bug (mutant) that breaks each property.

## 1. Inventory

How the parts meet: an agent's key lives in a **signer process**, or with a
human's **keeper** that signs remotely; what the agent may do with it is said
by a **session key** and a **spend policy**. A signed **intent** reaches the
MCP server as a tool call. The server applies its soft policy (simulation, daily
limit), **relays** the intent to the **SmartAccount** contract, which applies
the hard one, and keeps accounts and transactions in a **store** that several
server processes share. Decisions go to a hash-chained **audit log** whose tail
is anchored on chain and which a **collector** serves. A human changes policies
through a **time-lock**. Agents and services talk through **signed envelopes**,
protected against replay by a window in the same store. HTTP payments go
through the **x402 guardrail**, whose decisions **AP2** mandates carry on.

| Component | State | Operations | What is hard | What makes it correct | Module |
|---|---|---|---|---|---|
| SmartAccount contract (`contracts/solidity/src/SmartAccount.sol`, `DenyList.sol`) | sessions, nonces, account and session windows, two brakes | register, revoke, pause, freeze, resume, unfreeze, reduce, execute, estimate | any order of owner, emergency key and agents; 24-hour boundaries; 0 as "no limit" | nonces single-use; ceilings per window; the emergency key only brakes; the quoted loss is a bound | SmartAccount, BoundedSpender |
| Smart account engine (`packages/chain-eth/src/smart-account.js`) | the same in memory | the same, and preview | `executeFromAgent` awaits between its tests and its commit | books agree; brakes hold but for calls in flight | SmartAccountEngine |
| Relayer (`mcp-server/src/relayer-operations.js`, `relayer-coordinator.js`, `packages/chain-eth/src/chain-connection.js`) | shared nonce counter, ledger rows, calls in flight | acquire, send, wait, reconcile, resync, deduplicate | lost answers, retries, several instances, crashes with a nonce taken | a nonce to one attempt; "ok" only when executed; progress | Relay |
| Smart account tools (`server.js`, `policy-engine.js`, `simulation-policy.js`) and chain state store (`chain-state-store.js`) | accounts, context, simulation arms, rows, chain record | setup, preview, execute, boot, restore, persist | check-then-act over awaits, two processes, restarts, failed writes | simulated before executed; acknowledged sessions stay; belief agrees with the chain | ServerGate |
| Agent identity (`server.js`: session, `generate_agent_keys`, `register_agent`, task and forum tools) | key, name, password, signer, fallback wallet | replace, ensure the signer, sign, close | replacements and signatures overlap; pings fail though the signer lives | signed in one's own name; a given-up identity is final | ServerSession |
| Isolated signer (`packages/agent-keys/src/signer.js`, `signer-worker.js`) | pending requests, policy, the pipes | init, sign, reply, time-out, exit | late answers, exits that overtake them, oversized messages | answers are true and one's own; nothing beyond policy or session; every call settles | SignerProcess |
| Remote signer and keeper (`remote-signer.js`, `remote-signer-keeper.js`, `agent-sdk/src/remote-signer-client.js`) | nonces, daily totals, keyring | request, replay test, policy, approval, sign, restart | repeated, late and crossed messages; what is charged before approval; forgotten memory | a nonce signs once; day within the ceiling; the held session decides | Keeper |
| Session keys (`agent-keys/src/session.js`) and spend policies (`takeover.js`) | none | create, narrow, check; tier, combine, guard, take over | the meaning of 0, of empty lists, of missing thresholds | derived authority never admits more | SessionKey, SpendPolicy |
| x402 and AP2 guardrails (`packages/guardrail-x402`, `guardrail-ap2`) | reservations, used snapshots, mandates | evaluate, pay, verify; bind, cosign | reads before awaits; reservations and snapshots that expire under way | daily ceiling over concurrent payments; a snapshot once | PaymentGuard |
| Policy time-lock (`takeover.js` 183-466) | pending changes, their copy in the store | schedule, revoke, poll, clear, restart | store failures and crashes around each write | never early, once, and never after a revocation | PolicyTimelock |
| Replay window (`agent-sdk/src/transport-security.js`, `message-security.js`, `store-interface.js`) | recorded (sender, nonce) | verify and record, purge, evict | instances sharing a file; clocks ahead; the cap | an envelope is accepted once | ReplayWindow |
| Audit log, anchoring (`audit-log.js`, `audit-anchor.js`, `AuditAnchor.sol`), collector (`audit-collector.js`) | chain head, two volumes, anchors; the collector none | record, rotate, replay, anchor, verify; status, entries | lost writes, rotation, overlapping ticks, stale cursors | no false alarm, no unnoticed edit, nothing skipped | AuditTrail, AuditCollector |
| Key cryptography, encodings, chain clients, front ends, operations | little or none | | | | not modelled (section 5) |

## 2. Modules and how they correspond to the code

Every module models an operation as one action when the code runs it without
an await (or within a transaction), and splits it exactly at its awaits, or at
the statements it sends to a shared file. History variables, which no code
has, are marked in the declarations.

**SmartAccount** is the contract. A transaction reverts, which is a stutter, or
runs to its end, so each external function is one action: its `require`s are
the guard, its writes the effect. `executed` is the sequence of `Executed`
events. Signatures are the addresses they recover to, a digest is the intent.
**BoundedSpender** says what an account promises its owner, without sessions,
brakes or whitelists; `KeepsPromise` is the refinement.

**SmartAccountEngine** is the JavaScript class. For a post-quantum session
`executeFromAgent` is `BeginVerification` and `EndVerification`, because it
awaits between them, and keeps what it read before; for an EVM session it is
`ExecuteEvm`. A refusal that has already rolled the window, and a preview that
does, are modelled with that effect.

**Relay** follows one `smart_account_execute` from the daily gate to its
answer, at several instances: `Start` is the synchronous segment of gate,
reservation and deduplication; `Acquire` takes a nonce from the shared counter;
`Send`, `SendFails`, `Confirmed`, `WaitFails` and `NotFound` end the awaits;
`ReadCount` and `Sync` are the resynchronisation. The chain is external: a pool
that takes one transaction per nonce and mines in nonce order.

**ServerGate** is the rest of the smart account tools, for processes that share
the store. Setup is `Deploy`-then-register with its awaits, preview and execute
stop at the node; boot is lazy, a restart forgets memory and reads the store,
and an operator may give a process another RPC URL. A preview stops a second
time between the simulation at the node and its answer, as time passes there and
the window counts from the answer; deployments and registrations may be mined
though their answer is lost. Rows are merged as `upsertAccountRow` merges them,
and the simulation log is restored with its absolute times. `mixed` notes that
rows of two chains are in the store.

**ServerSession** is the one identity of a server process. A signing call is a
ping of the signer, a respawn if the ping fails, and the signature, each its own
action; `generate_agent_keys` and `register_agent` replace the identity in
between. `forgotten` notes identities whose password was given up, `crossed`
those that were replaced while a signer of theirs was starting, and `overlapped`
a call that a replacement overlapped: the two ways in which names and keys part.

**SpendPolicy** and **SessionKey** are pure: amounts, tiers, ceilings,
`CombineSpendPolicies`, `TakeoverGuard`, `TakenOver`; creation, narrowing, the
access test, expiry and the policy derived from a session. The next three
modules use them rather than restating them.

**SignerProcess** has the parent's handle, the worker and two pipes, reliable
and ordered. A call writes, the worker reads and answers, the parent reads;
timers, `close`, exit and overflow compete with the answer. Pings share one
entry of the pending map, as in the code.

**Keeper** serves a request in the stages of `handleCustodySignRequest`
(`Arrive`, `CheckReplay`, `CheckPolicy`, `RequestApproval`, `Sign`), each ended
by an await, so requests interleave; the client's time-out and retry, repeated
and misdelivered answers, a keyring file the owner narrows, and a restart that
loses nonces and totals are actions.

**PaymentGuard** cuts `evaluatePayment` at each await: the provider's answer,
the read of what was spent, the reservation, the signing. The ledger's list of
amounts and expiries is the set of payments that made the entries; a release
takes the one that expires first among those of the amount, which is the first
of the list. `late` notes that something outlasted a reservation or a snapshot.
AP2 mandates are bound to snapshots and presented with a total of their own.

**PolicyTimelock** keeps `pending` (memory), `cache` and `disk` (the store's map
and file). An operation returns, or the store throws, or the process dies after
the write and before the answer. A local store keeps a value whose file write
failed and writes it with the next key (`FlushByAnotherKey`); sqlite does not.

**ReplayWindow** is the path from the freshness test to the end of the
eviction, over the four kinds of window the code builds. Count, purge, measure
and evict are separate statements, hence separate actions.

**AuditTrail** keeps the module's memory, the two volumes and the anchor
service. A record is one action with the ways its rotation and its append can
fail; ticks have their stages and overlap as `setInterval` lets them.
**AuditCollector** adds the collector's answers as functions of those volumes.

The `MC*` modules give the constants their values for TLC.

## 3. Runs

`tlc -config <cfg> <module>` in this directory. "States" are distinct ones.

| Run | States | What it shows |
|---|---|---|
| `account` | 196 992 | `NonceSpentOnce`, `WindowsAreFaithful` (counters are sums of events, no 24 hours hold more than two ceilings), `RevocationIsFinal`, `QuotedLossCoversSpend`, `EmergencyOnlyBrakes`, and the refinement `KeepsPromise` |
| `engine` | 169 520 | two verifications in flight: `SpendIsAccounted`, `EvmSignaturesSingleUse`, `BrakesHold` (a brake leaves only the calls in flight) |
| `relay` | 655 995 | `NoncesAccounted` (one attempt per nonce; every gap was abandoned by someone), `OkMeansExecuted`, `SoftCeilingHolds`, `CallsEnd` |
| `server` | 454 497 | `SimulatedInTime`, `AcknowledgedSurvives`, `BelievedIsReal` over two processes, two chains, restarts, failed writes and edits of the policy |
| `server_other_chain` | | violated: `NeverAnotherChain` ("never reuse accounts recorded on another chain", server.js:509), without a failed write |
| `identity` | 3 784 956 | `SignsAsItself` (a call signs with the key of the name it read, or that of an identity replaced while its signer was starting), `DeadIsFinal` |
| `signer` | 538 155 | `AnswersAreTrue`, `SignedWithinBound`, `EachWithinSession` (call by call), `CallsSettle` over every pairing of policies |
| `keeper` | 1 220 958 | `NonceSignsOnce`, `DayWithinCeiling`, `SignedUnderAuthority`, `AcceptedIsOwn` |
| `payments` | 1 660 222 | `DayWithinCeiling`, `HeadroomKept`, `HonouredOnceInTime`, `MandateCovered` |
| `timelock` | 14 491 | `SettledStaysSettled`, `AcknowledgedIsDurable`, `NoChangeIsEarly` |
| `replay_window` | 119 785 | `ClaimedOnce`, `WindowIsBounded` |
| `audit_trail` | 834 159 | `BreakMeansLoss`, `AnchorsTellEdits`, `StatusAgreesWithReplay`, `ResumedIsComplete` |

Premises that some properties carry, because the code does not exclude them:
`SoftCeilingHolds` that no amount was given back on another day than it was
reserved (`crossed` in Relay: `subtract` takes it from the new day's bucket);
the properties of `payments` that nothing outlasted its reservation (`late`);
`SignsAsItself` that no replacement overlapped the call (`overlapped`), and up
to the keys of identities that were replaced, at any time before, while a
signer of theirs was starting (`crossed`): such a signer becomes the session's
and stays it; `SignedUnderAuthority` up to limits that a narrowing set below 0,
which `narrowSession` accepts and nothing enforces; `EachWithinSession` bounds a
call by the session with nothing spent before, for nobody counts what the worker
signed in a day; `AcknowledgedSurvives` (for
configs) and `BelievedIsReal` (for registrations) that the store speaks of one
chain (`~mixed`); `SignedWithinBound` that the bound policy is well-formed.

### Bounds, and why they are enough

* `account`: two sessions with one key, two nonces, amounts 1 and 2 against a
  ceiling of 3, windows of two blocks in four: windows expire, follow each other
  and straddle a day. `MaxUint = 3` makes overflow reachable.
* `engine`: two calls in flight are what a race takes; three executions let a
  third follow it.
* `relay`: two calls and one retry give every pair of an attempt and an
  overtaking attempt; one earlier transaction makes the first coordinated nonce
  conflict. Ceiling 1 against amounts of 1 makes the gate decide. One call is,
  by symmetry, made at a fixed instance. Liveness is checked without symmetry.
* `server`: three calls over two processes, of which one has two slots: any two
  of setup, preview and execute overlap in one process or in two, and a third
  follows. One disturbance (restart, edit of the policy, failed write or tick)
  falls anywhere. `server_other_chain` has one process, two restarts and no
  failing writes. With a window of 0 one tick is what makes an arm stale.
* `identity`: two calls over three identities and three signers: a signer of the
  first can come after the third identity has replaced the second.
* `signer`: two calls share the handle, which is what crossed answers take;
  policies differ in mode, ceilings and thresholds around the amounts 1 and 3.
* `keeper`: two copies of requests by two calls, a retention of two instants of
  three, so a nonce can be claimed again, days of two instants, one restart and
  one narrowing, which lowers the day's limit and sets the other below 0.
* `payments`: two evaluations of which only some fit a day, two verifications,
  one mandate, a life of reservations and snapshots of two instants of three.
* `timelock`: two changes, a delay of 2 and 5 instants: one can fall due, be
  polled and be asked for late while the other is pending.
* `replay_window`: timestamps behind, at and ahead of the clock, a cap of one
  entry, and a clock that outlives freshness and retention of all.
* `audit_trail`: volumes of one line rotate on every record, so four records go
  through a first rotation and two that drop a volume; failed rotations leave
  longer volumes. Two ticks overlap, and two anchors can repeat.

Deadlock is not checked where the program may come to rest because all bounded
counters are used up or all calls have ended.

### Fairness

Safety runs assume none. `CallsEnd` assumes (`FairSpec` of Relay) that the
chain mines what can be mined, and that while calls wait for answers that can
be given, one of them gets its: the event loop runs callbacks that are ready,
and ethers polls for receipts. Failures are assumed neither to happen nor to
stop. `CallsEnd` is claimed without the shared counter only: with it, a gap in
the nonces can keep `wait()`, which has no time-out, from returning.
`CallsSettle` assumes only that a call's own timer fires (`WF(Expire(c))`): not
that the worker answers, exits or is alive.

### Statements of the repository that TLC refutes

`server_other_chain` is a run of its own. The following configurations check
statements that hold of neither code nor model; each ends with a counterexample
(`tlc -config <cfg> <module>`).

| Configuration, module | Statement | Why it fails |
|---|---|---|
| `MCSmartAccountLoss`, MCSmartAccount | the emergency key never raises a limit (SmartAccount.sol:219) | reducing `maxDaily` to 0 lifts it: 0 is "no limit" |
| `MCSmartAccountEngineReplay`, MCSmartAccountEngine | a signature is single-use (smart-account.js:529) | a post-quantum call overtaken in its await sets `lastNonce` back |
| `MCSmartAccountEngineQuote`, MCSmartAccountEngine | the worst an agent can do now (smart-account.js:250) | the quote reads a window nobody rolled |
| `MCPolicyTimelockLate`, MCPolicyTimelock | once effective, a change cannot be revoked (takeover.js:373) | a late revocation answers so and drops the change |
| `MCAuditTrailRotation`, MCAuditTrail | the comparison stays valid under rotation (audit-anchor.js:126) | anchors count from a start that moves |
| `MCRelayHole`, MCRelay | nonces need only be monotonic (relayer-coordinator.js:14) | later transactions wait behind the gap of a failed broadcast |
| `MCSignerProcessLoose`, MCSignerProcess | every field resolves to the stricter policy (takeover.js, `combineSpendPolicies`) | a small threshold of 0 becomes the default, inverted thresholds are replaced, a limit without ceilings takes the parent's |
| `MCSignerProcessDay`, MCSignerProcess | the signer process tracks the cumulative daily spend (session.js:64-65), it independently enforces the session's maxPerTx and maxDaily (keys.js:366-369) | the worker compares `maxDaily` with one amount at a time (signer-worker.js:235), and the parent passes no `spentToday` (keys.js:211-216): two intents of the whole limit are both signed |
| `MCKeeperNegative`, MCKeeper | a session derived from another only narrows its privileges (session.js:157-158) | a limit below 0 passes for a narrower one (session.js:189) and is then read as none |
| `MCPaymentGuardLate`, MCPaymentGuard | a nonce that was consumed is denied (guardrail-x402, `verifySnapshot`) | expiry is tested before an await; the registry may forget the nonce in between |

### Other divergences met while modelling

* `server.js:850-857`: two overlapping setups both find no account and deploy
  two contracts. A crash between the registration on chain and the write of the
  row, or an answer lost after the registration was mined, makes every later
  setup of that session revert, and a setup of a session that the chain revoked
  since still answers success.
* `server.js:1049`: a preview arms memory before the write whose failure is
  meant to mean "not armed". The arms carry no chain and are restored for any.
* `chain-state-store.js`: a row whose second write fails stays without its chain
  record; the union of hashes brings old ones back.
* `server.js`: overlapping `generate_agent_keys` leave the signer of one
  identity under the name of the other; a failed ping discards a newer signer,
  and one slow ping is enough to lose an identity whose password was given up;
  the password is also kept when a spawn failed, though lines 176-178 say only
  by opt-in; signers that were replaced outlive the server although line 2012
  says none does.
* `signer.js`: pings share one map entry; a worker whose start failed or timed
  out is not ended; a message beyond 1 MiB ends the worker.
* `keys.js`: `signAsAgent` is handed JSON strings by `forum.js:53`, so its asset
  tier never applies there; a session without limits becomes a policy with
  limits "0".
* `remote-signer.js`: nonce and budget are used before approval and signing and
  not given back; a restart forgets both.
* `takeover.js`: `takeoverGuard` accepts negative limits, which read as "none",
  as `narrowSession` does.
* `server.js:1042`: the window of a simulation counts from the node's answer;
  the time the node took comes on top.
* `guardrail-x402`: a release gives back the first reservation of an equal
  amount; `guardrail-ap2`: the total of a checkout mandate may differ from the
  decision's.
* `audit-collector.js`: after a rotation that removed the `.1` volume and then
  failed, or that died before the next line, the trail is called tampered.

## 4. Proofs

`tlapm` checks every proof from nothing. Each assumes only the named ASSUMEs of
the model it is about, which TLC evaluates on every run. For most models, the
invariants the runs check are not inductive as they stand; what had to be added
is said below, and TLC checked it on the run's instance before it was proved.

| Module | About |
|---|---|
| `SumTheorems` | sums over finite sets (no behaviour) |
| `SmartAccountProofs` | SmartAccount, and that it implements BoundedSpender |
| `EngineProofs` | SmartAccountEngine |
| `RelayProofs` | Relay |
| `ServerProofs` | ServerGate and ServerSession |
| `SignerProofs` | SignerProcess, PaymentGuard, and the operators of SpendPolicy |
| `KeeperProofs` | Keeper, and the operators of SessionKey |
| `StoreProofs` | ReplayWindow, PolicyTimelock, AuditTrail and AuditCollector |

Three of the modules EXTEND several models; that is why PolicyTimelock,
ServerSession, AuditTrail and PaymentGuard have a `LockSpec`, a `SessionSpec`,
an `AuditSpec` and a `GuardSpec` over variables of their own. A theorem mentions
one of them only.

**SumTheorems.** `SumTakeOut`, `SumAdd`, `SumSame`, `SumSplit`, `SumPart`,
`SumInjected` say what the budget arguments need of `SumFunctionOnSet`. The
prover's induction theorems are of no use here (they take an operator), so the
induction is put as a smallest counterexample: a non-empty collection of finite
sets has a member of least cardinality (`Smallest`).

**SmartAccountProofs** (constants have their types; the account's ceiling is at
least 1 and a machine integer): `TypeCorrect`, `Invariant`, `NoncesSingleUse`,
`WindowInvariant`, `WindowsFaithful`, `LimitBinds`, `Revocation`,
`EmergencyBrakes`, `QuoteIsABound`, `AccountKeepsPromise`. Single use of nonces
says nothing of the stored nonce the guard compares with; `NonceIsHighWater` (no
event has a nonce above the stored one) closes the induction, since no call sets
the stored nonce back. The windows need that each event lies within the window
it was charged to (`WindowsCover`) and that the windows before lie a day back
(`DayBeforeWindow`); a counter is then the sum of its events, and a day meets
at most two windows, each within the ceiling. `LimitBinds` is about the
contract with one history variable, since when a session has its daily limit
(`LimitSpec`): what a window held before only adds to the counter the guard
compares, so what came after is within the limit in each window. No listed run
checks it; `tlc -config MCSmartAccountLimits.cfg MCSmartAccountLimits` does, over
66 864 states. Execute refines `Pay` of
BoundedSpender, a block lets time pass, everything else stutters.

**EngineProofs** (`EngineAssumption`): `Invariant`, `BooksBalance`,
`NoncesIncrease`, `BrakesAndEmergency`. A commit after the await no longer reads
the session, so that it is still registered, and still signs as it did, is an
invariant (`VerifiesQuantum`): only post-quantum calls are ever between the two
halves, and no operation changes how a session signs. The EVM nonce is a
high-water mark as in the contract, but previews and post-quantum calls move
nothing of it.

**RelayProofs** (`RelayAssumption`) has three invariants, the second and third
on top of the first. `RInv`: every nonce the counter went past is pending, held
by one attempt, or abandoned, and below a count that some call has read from the
node everything is pending, also when it uses that count much later (`Sync`).
`TruthInv`: pending transactions, receipts and ledger rows speak of the intent
of the call that sent them. `BudgetInv`: a bucket of today covers the sum of
what calls of its instance hold or spent, unless something was given back on
another day. They give `EveryNonceAccounted`, `ToldTheTruth`, `SoftCeilingKept`.

**ServerProofs** (`GateAssumption`, `SessionAssumption`): `GateInvariant` has
three parts. Of the world: while one chain is written, what processes remember
(`CacheEnforced`), what the store holds (`StoreEnforced`) and what a setup under
way has registered but not stored (`SetupsStand`) is in force in the contracts
of that chain, and contracts are only added to; so writers that know different
sessions of an account never disagree on one, and their rows can be merged in
any order. Of the books: what was answered for is in the row. Of the log: a
simulation in memory, in the store or in an execution's gate was made no earlier
than noted (`ArmsTrue`), which survives a restart because the times are
absolute. They give `SimulatedBeforeExecuted`, `AnswersSurvive` (the session
stays in the row whatever chains are written; that its config is the answered
one, only under `~mixed`) and `BeliefsAreReal` (under `~mixed`). For the
identity, `SessionInvariant`: signers that start, and the one of the session,
hold the session's key or that of an identity that was replaced while a signer
of its own was starting (`SignersFollow`), and a call that no replacement
overlaps finds the key of the agent it signs for (`KeyHolds`); it gives
`SignsUnderItsName` and, with one lemma per action, `DeadStaysDead`.

**SignerProofs** (`CallsAssumption`, `RequestsAssumption`,
`PoliciesAssumption`): `SignerInvariant` says what may still be in the two
pipes: an id of the handle names one call, a call has at most one request or
answer on its way, answers tell the truth, and the policy is the first message a
worker reads. It gives `AnswersTrue`, `BoundHolds`, `EachSessionCallHolds`,
which is about one call with nothing spent before and no more; the last two rest
on lemmas about policies: `CombineNeverLooser` (for well-formed bound policies,
which the refuted statement above shows is needed). Of the takeover guard:
`GuardedCommitNeverLooser`, `TakenOverStops`.

For the payment guardrail (`GuardAssumption`, `PaymentsAssumption`: finitely many
payments, `OffersAssumption`, `ProviderAssumption`: amounts and limits parse):
`GuardShapeInvariant`, `SnapshotOnce`, `MandatesCovered`, `LedgerInvariant`,
`HeadroomIsKept`, `CeilingInvariant`, `CeilingHolds`. A release takes the first
entry of an amount, whoever made it, so a payment's own entry may be gone;
`LedgerCovers` says that all payments under way can be given entries of their own
that count as much and last as long, and when one is released whoever counted on
it takes over the entry of the payment that failed. For the ceiling, what an
evaluation read as spent covers what was settled and lapsed by then
(`SpentNoted`), and the ledger the rest; so whichever payments of a day are
taken together, the one that was decided last was decided with the others in
view, and they sum to no more than its ceiling (`PotHolds`).

**KeeperProofs** (`KeeperAssumption`, `UsesAssumption`): a claim of a nonce, by a
request in service or behind a signature of this life, is held: remembered until
its end, or over (`Held`). A new claim finds the nonce free, so every older one
is over, and lies a retention back; `JobsApart` and `ServedApart` carry this from
the replay test to the signature, across the awaits between. For the client,
`NonceNamesRequest`: retries repeat the content with the nonce, so the nonce
alone identifies the answer. On top of this, `BudgetInvariant`: what was signed
today together with what is admitted and not signed yet sums to no more than the
ledger's total. Theorems: `Invariant`, `NonceOncePerRetention`, `AcceptsItsOwn`,
`DayStaysWithinCeiling`, `SignsUnderAuthority`, and `NarrowingNeverWidens` for
any holder of a session. Narrowings may ask for any integers: the last two compare
with the parent from which the limits that the narrowing set below 0 are taken off
(`Lifted`), because without that they are false (`MCKeeperNegative`).

**StoreProofs.** For the replay window (`WindowAssumption`, and
`RetentionAssumption`: `Retention >= 2 * MaxAge`, the code's default):
`TypeCorrect`, `Invariant`, `ClaimsSingleUse`, `CapInvariant`, `CapHolds`. An
entry is made no earlier than `MaxAge` before its envelope's timestamp
(`NotFromAfar`), so when it is older than `Retention` the envelope is stale for
good; what is known is in the window or stale (`KnownUntilStale`). A retention
of one freshness window, which the comment at transport-security.js:41 calls
enough, does not support this argument. The cap is exceeded by calls that still
owe their eviction (`Owing`), and a call that has counted has counted enough for
the others (`CountedEnough`). For the time-lock (`TimelockAssumption`):
`LockInvariant`, `SettlementIsFinal`, `AcknowledgementIsKept`, `DelayIsServed`.
A change lives in memory, in what the store answers and on its disk. What is
settled has left all three (`SettledHasLeft`), so that neither a restart nor a
flush brings it back; what was acknowledged and not touched is in all three
(`Durable`); ids are recorded once, with the date of their scheduling
(`Recorded`). For the audit trail (`TrailAssumption`): `TrailInvariant`,
`BreaksAreLosses`, `AnchorsTell`, and for the collector's answers
`VerdictAgrees`, `ResumedComplete`. Where the chain may break is not inductive
by itself. Three facts close it: a hash that is neither lost nor in the trail is
older than all of it, and then a line was dropped (`Accounted`); a writer that
remembers its head is up to date (`WriterFollows`); and a process that finds no
current file although a volume was rotated has missed the record the rotation
was for (`RotatedIsMissed`). Anchors stay true because lines only move when a
volume is dropped, and a line altered gets a hash newer than any anchor of it
(`AlteredIsNewer`). That nothing is anchored twice holds in calm, where a single
tick is at work (`CalmInv`).

Only model-checked: liveness (`CallsEnd`, `CallsSettle`), since the prover has
no ENABLED.

## 5. Not modelled

* Cryptography, key derivation and encryption, encodings and canonical digests:
  correct or not by facts TLC cannot examine; the models use their verdicts.
* Front ends, metrics, health, KMS and configuration: no state others decide
  by. `custody.js` is not wired into the server and has no state.
* Coordination, service identities and mTLS of the SDK: wrappers over a backend
  that is not in the repository.
* Within modelled components: schema warnings, the memory ring and torn lines of
  the audit log; leases of nonces (audit only); the compare-and-set retry loop
  of the store, which is one step here, and its Redis placeholder; the migration
  of the legacy state file; notifications of the time-lock; owner operations of
  `ChainConnection` other than those setup and execute make; the in-process
  chain of the server, which restores nothing.

## 6. Plan

Done: all modules above. Left, in this order:

1. The store's compare-and-set loop as a module of its own, refining the atomic
   write that Relay and ServerGate take it for; the legacy migration beside it.
2. An abstract at-most-once relay, which Relay would implement, and a revocable
   delayed delivery, which PolicyTimelock would.
3. The owner's calls of `ChainConnection` through the shared nonce counter,
   overlapping with relayed intents.
