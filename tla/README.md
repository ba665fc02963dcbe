# A verification of the LDEX programs

LDEX is a decentralised exchange on LEZ, a chain whose programs run in a RISC
Zero guest and whose transactions may be public or privacy-preserving. The
repository holds the on-chain programs (`programs/`), a C interface that builds,
proves and submits transactions (`ffi/`), a desktop mini-app (`mini-app/`) and a
command-line client (`cli/`). This directory holds TLA+ models of the parts that
decide who owns what, the TLC configurations that check them on small instances,
and proofs, checked by TLAPS, that the main properties hold for all values of
the constants.

## 1. The system

| Component | State it keeps | Operations | Interacts with |
|---|---|---|---|
| AMM pool program, `programs/amm` | `PoolDefinition`: reserves, fee tier, LP supply, volume and fee counters, oracle | new_definition, add_liquidity, remove_liquidity, swap_exact_input, swap_exact_input_circuit, swap_exact_output, sync_reserves | chains `token::Transfer`, `Mint`, `Burn`; reads the clock account |
| Oracle, in `PoolDefinition` | two wrapping accumulators, a timestamp, a ring of 64 observations | oracle_update, called by the public handlers | read by charts and indexers |
| Token program, `programs/token` | definitions, holdings (fungible, NFT master, NFT copy) | NewFungibleDefinition, NewDefinitionWithMetadata, InitializeAccount, Mint, Burn, Transfer, PrintNft | called by users and by every other program |
| WLEZ, `programs/wlez` | vault of native LEZ, WLEZ definition | Initialize, Wrap, Unwrap | chains native transfers, Mint, Burn |
| amm_v2, `programs/amm_v2` | pools of its own, same layout | the AMM handlers with clock 0; chained disposable and native swaps | token, ata, wlez |
| ATA program, `programs/ata` | none: derived holdings owned by the token program | Create, Transfer, Burn | chains token calls |
| Private swap router, `programs/private_swap_router` | none | a fixed chain of calls in one privacy proof | amm, token, wlez |
| Stablecoin, `programs/stablecoin` | positions | OpenPosition | token |
| FFI, `ffi/ldex-amm-ffi` | transactions in flight | thirty-six `ldex_*` calls of one transaction; the disposable swap is a saga of four | sequencer, wallet |
| Mini-app, `mini-app` | job registry in the plugin, busy flag and poll state in QML | `*Start`, `jobStatus`, `runAction`, timers | FFI, through a bridge with a 20 s timeout |
| Swap card, `mini-app/ui` | the request being edited, its quote, the fee tiers found | edits, quote timer, swap button | pool reads through the bridge; the job pump |
| Wallet file | notes, sync height and keys, shared by every thread and process | opened, changed and stored whole by each call, job and sync | FFI, plugin, CLI |
| CLI, `cli` | none | one command per FFI call | FFI |

A transaction is atomic on the sequencer: a program's account writes and the
calls it chains take effect together or not at all. So inside one transaction
there is no interleaving, and what is hard on chain is arithmetic (two sides
rounded separately, products near 2^128, accumulators that wrap) and long
sequences of legal calls by several owners, among them calls of the token
program that a pool or the WLEZ vault never sees. Off chain everything that
makes distributed systems hard is there: several transactions make one
operation, the sequencer reorders, rejects and loses them, waiting for one can
time out although it will be included, the process may stop in the middle, and
others trade in the meantime. `PROJECT.json` lists the hazards with their lines.

### What makes each part correct

* **Pool.** The vaults cover the reserves; a pool is never drained; no step makes
  an LP unit worth less; the fee stays in the reserves; a holder can always leave;
  both swap directions agree on the price.
* **Oracle.** Two observations differ by the integral of the price that held
  between them; entries are ordered, bounded, and the newest is kept.
* **Token.** Holdings add up to the supply; an NFT has one master; a holding never
  changes its token.
* **WLEZ.** Every WLEZ can be redeemed; no LEZ is made or lost.
* **Disposable swap.** The user's value is in one place at a time, is spent at most
  once and not below the minimum, a swap that arrives late does no harm, and in
  the end the value is private again.
* **Chained swap.** What is included is one whole swap at the price the pool then
  has, or nothing; a proof fails only because the user cannot pay.
* **FFI calls.** What the caller asked for is what the programs do, whatever order
  the pool has its legs in, and within the amounts named for each token, however
  late; nobody's trade is overwritten.
* **Swap card and CLI.** The quote beside a request was made for it; a swap that is
  included brings the quoted price less the slippage; no bound is out of reach. Both to what
  doubles can tell apart, in which the front ends compute.
* **Wallet file.** Whoever stores over whom, the next sync brings every holding up to
  date, and the key of an account with funds in it is not lost.
* **Job pump.** An action gets its own result, once; the user is never locked out;
  operations overlap only after a wait was given up.

## 2. Modules

| Module | Models | Source |
|---|---|---|
| `U128` | the width of amounts and the range check of a checked operation | all programs |
| `AmmMath` | pricing, rounding, u128 bounds, as operators | `amm/core/src/lib.rs`, `swap.rs`, `add.rs`, `remove.rs` |
| `PoolOracle` | `oracle_update` and who calls it | `amm/core/src/lib.rs:331-366` |
| `PoolOracleHistory` | the same with the true price integral as a history variable | |
| `Amm` | one pool, its token ledger, the clock | `programs/amm/src`, guest `amm.rs` |
| `AmmSafety` | the properties of `Amm`, and the inductive invariant | |
| `Token` | the token program | `programs/token` |
| `Wlez` | the WLEZ program | `programs/wlez` |
| `Exchange` | what a disposable swap promises, in four steps | |
| `DisposableSwap` | `ldex_amm_v2_disposable_swap`, the sequencer, recovery | `ffi/ldex-amm-ffi/src/submit.rs:2412-2716, 4151-4239` |
| `DisposableSwapSafety` | its properties and the refinement mapping to `Exchange` | |
| `SwapLedger` | the accounts of a chained swap, and the atomic swap it promises | `amm/core/src/lib.rs`, `amm/src/swap.rs`, `programs/wlez/src` |
| `ChainedSwap` | the three disposable swaps of `amm_v2` and the three of the router | `amm_v2/src/lib.rs`, `private_swap_router/src/lib.rs` |
| `ChainedSwapSafety` | its properties | |
| `PoolHandlers` | what every handler does with accounts in positions, also the ATA-routed ones | `amm/src/*_ata.rs`, `amm_v2/src/lib.rs:519-930`, `ata/src`, `token/src` |
| `FfiCalls` | the entry points of one transaction, and the chain they send it to | `ffi/ldex-amm-ffi/src/submit.rs`, `wlez.rs` |
| `FfiSafety` | what their callers may rely on | |
| `F64` | IEEE 754 doubles that are not negative, rounded to the nearest at any precision | `cli/src/main.rs:816`, `ldex_core_plugin.cpp:1201-1218`, `Main.qml:634-638` |
| `JobPump` | `runAction`, the poll timer, the failsafe, the plugin's job registry | `mini-app/ui/Main.qml`, `mini-app/core/src/ldex_core_plugin.cpp` |
| `SwapCard` | the swap card's edits, quotes and bounds, `cmd_swap`, and the pools they meet | `mini-app/ui/Main.qml`, `cli/src/main.rs:788-900`, `amm/src/swap.rs` |
| `WalletFile` | the storage file under jobs, calls and syncs beside each other | `mini-app/core/src/ldex_core_plugin.cpp`, `ffi/ldex-amm-ffi/src/submit.rs`, `cli/src/main.rs` |
| `ArithmeticTheorems` | lemmas on pricing, rounding, square roots and sums over finite sets | |
| `AmmTheorems` | proofs about `Amm` | |
| `ProgramTheorems` | proofs about `Token`, `Wlez` and `PoolOracleHistory` | |
| `DisposableSwapTheorems` | proofs about `DisposableSwap`, and that it implements `Exchange` | |
| `ChainedSwapTheorems` | proofs about `ChainedSwap` | |
| `MiniAppTheorems` | proofs about `JobPump` and `SwapCard` | |
| `WalletFileTheorems` | proofs about `WalletFile` | |
| `FfiTheorems` | proofs about `FfiCalls` | |
| `MC*` | bounds for TLC, and the specifications with fairness where a run needs one | |

**Pool.** An action of `Amm` is a whole instruction. Its guard holds the checks of
the handler and of the token calls it chains (a failed chained call reverts the
transaction), and its primed variables the pool's and the ledger's changes,
including the oracle update and the counters. `balance` is the token program's
holdings restricted to the tokens of one pool (A, B and its LP token); the vaults and the lock are
holders like any other, except that they only send what the pool's seeds sign.
`DoTokenTransfer` and `DoBurnLp` are the token program called directly. `Amm`
instantiates `PoolOracle` over its own variables and calls `OracleUpdate` where
the handlers do. `Users` may be payer and recipient in any combination.
`USES_CLOCK = FALSE` gives `amm_v2`, which passes 0 for the clock.

**Oracle.** `Q64` stands for 2^64 and `Q64 * Q64` for 2^128, so that the domain
check, the shift and the wrapping sums are those of the code at another width.

**Disposable swap.** `pc` follows the code from one await to the next; `txs` are
the transactions sent, each pending, included or dropped. A privacy transaction
was proved over the public balance it read and over the private note the wallet's
storage knew (`known`), and is valid only while that balance holds and that note is unspent
(`note` counts how often each private account was written). `Sync` brings the storage up to
date; a user who tries to recover before it has a spent note and is refused (`Tries`).
`InitHolding` and `AlignLegs` return where the key of `a_out` is not in the wallet, or where
there is no pool for the pair and fee tier: both come after the deshield, and neither rolls back. A
caller (`caller`) may have initialised `a_out`, may have its key or not, and may find a pool or
not; competitors may create the pool at any time (`Compete`). The key of `a_in` is taken to be in the wallet: without it the
token program does not claim `a_in`, and the deshield itself is refused. `user_out` is taken to be the wallet's own.
`WaitFails` covers both kinds of failure: the transaction was dropped, or polling
gave up on one that is still pending. `private`, `a_in` and `a_out` are balances
on chain, `cache` what the wallet's storage believes.

**Chained swaps.** Six handlers, three in `amm_v2` (which moves the pool itself and
chains the transfers) and three in the router (which chains the AMM), do the same:
on the accounts as they are when the proof is begun they compute the output,
and write down the calls to chain with the balances each call will find. `Begin`
is that step. Each `Run*` executes the next call on the working copy of the prover,
`Abort` is the call that finds other balances than it was given or whose own
checks fail, `Include` and `Reject` the end of the transaction: the accounts have to be
as they were when the proof was begun. The user's two proofs may overlap, over
the same single-use holdings, and `Others` moves between any two steps: swaps,
gifts to vaults and single-use holdings, wraps and unwraps. WLEZ of others counts
in the supply only. The accounts of a swap are taken to be distinct, and the
programs, which the handlers derive from the owners of the accounts, to be the
real ones.

**FFI calls.** A request names two tokens in the caller's order, with amounts in that
order. Each entry point is an action of its own name: it is enabled when its checks
pass, builds a call (accounts in positions, amounts in positions, who signs) and
puts it into `sent`. `Finalize` is a public transaction, good for the nonces its signers have
when it is built; `Prove` a private one, good while the notes, the user's public
accounts and the program accounts it lists (`pins`) are as they were. The wait
that follows has no effect, as it ends in a hash or an error code, so the caller
may go on while the call is still there. `Include` runs the handler on the pool (for a
proof, on the pool it was made on) and `Drop` is refusal or loss; `Others` trade or
create the pool in either order, and `Tick` is the next block. The handlers are
operators on pool, balances and call in `PoolHandlers`. They take the holding of a
leg from its position and do not look for it, which is what makes the order matter. `FfiSafety`
describes the same requests without positions. A holding may have a key, be an
associated account of the owner, a private note, a single-use holding or the
native account; the latter is written as WLEZ, one to one, since `Wlez` shows that
it is.

**Job pump.** Actions are numbered in the order of the clicks, and every call
answered, job and entry of the history carries the number of its action, so that a result
that reaches the wrong one can be told. `queue` is what the plugin has received
and serves one after another; `pending` is `pendingJobId` with the action whose
`onResult` is to run; `poll` and `failsafe` are the two timers, in polling intervals.
A synchronous call (`*Start`, `jobStatus`) is one step, as the UI thread waits for
it; when the plugin is busy with other calls it may go unanswered instead, and is
executed later all the same (`RunJobUnanswered`, then `Serve`). An asynchronous
one is `RunCall`, then `Serve`, then `Reply`, or `BridgeTimeout`. `gave_up` remembers that some wait was
given up while what it waited for went on.

**Swap card.** A pool is its two reserves and which token it counts as its token A. `card` is the
request as shown; `avail` and `has_pool` are the bindings over the tiers, as last evaluated;
`quote` is `root.quoteOut` with, as history, the request and the reserves it was made from. Every
edit is an action with the bindings it re-evaluates in their order (`PickToken` drops to another
tier when the chosen one has no pool; `LoadDev` asks for a quote before it does). `FindPool` has
both probes of `findPool`; each may go unanswered (`BRIDGE_TIMES_OUT`). `Curve` is the plugin's formula with
each of its operations rounded to a double; the result is printed in parts of `QUOTE_UNIT` (`Printed`), read as a
double again and multiplied by what the slippage leaves (`LessSlippage`), and `Digits` is
`String()` of the floor, an integral double: which of the integers that read as it is printed is left open. From
`JS_PLAIN` (10^21) on `String()` prints an exponent, which the plugin's `parseU128` refuses, so that nothing is
sent. `CliQuote` is the CLI's u128 arithmetic, saturating, and `CliMinOut` its `as f64`, product, floor and
`as u128`. `Click` and `CliSwap` put an order with its
bound into `orders`; `Include` meets the pool as it is then, after `OthersSwap` and
`OthersCreate`, and `Drop` is refusal or loss.

**Doubles.** In `F64` a double is the number of smallest doubles it is made of, so that it is a
natural number and every operation is exact arithmetic followed by one rounding (`Nearest`, ties to even).
`F64_EXACT` is 2^53, `F64_ONE` 1.0 and `F64_STEPS` the distances neighbours may have, the smallest (of
subnormals) included; the assumption puts the largest double beyond every product of two amounts, as
it is for u128, so that there is no infinity and no NaN. Slippages are doubles themselves. `F64_EXACT` is a constant, so that a run
can have outputs on both sides of it.

**Wallet file.** A private holding is a chain of versions, one per transaction that touched it;
a transaction is valid only if made from the latest. The file and each copy of it know a version
per holding, the block they were synced to, and keys. `pc` is where a worker is between its open
and its store; `Store` replaces the whole file and makes the other copies stale. A worker may end
anywhere (`End`: a failed call, a wait given up, the process stopping) while its transaction goes
on. `forgotten` records the keys a store from an older copy dropped. What the wallet library
writes is outside `src/` and modelled from the calls made to it.

**Variants.** Operators with a comment that starts with "Variant:" are the
mistakes the properties are measured against: each is a plausible error in one
mapped definition (a dropped guard, a rounding turned around, a forgotten call),
and substituting it breaks the property it is listed with. No run uses them.

## 3. Runs

| Run | Bounds | Shows |
|---|---|---|
| `amm` | one user, u128 of 6 bits, fee 1/4, lock 2, 5 transactions, clock up to 1, ring of 1 | `AmmTypeOK`, `VaultCoversReserves`, `PoolStaysFunded`, `LpShareValue`, `FeeAccruesToReserves`, `LedgerFollowsPool`, `ExitNeverBlocked`, `QuotesAgree`, `PublicSwapTicks`, `OracleSpec` (the pool's oracle changes by `OracleUpdate` only, with the pool's prices and clock; which handlers call it is `PublicSwapTicks` and `pool_oracle`) |
| `pool_oracle` | 4 timestamps, ring of 2, reserves in and outside the domain, accumulators modulo 16 | `ObservationsExactUnlessBlind`, `AccumulatorCatchesUp`, `RingOrdered` |
| `disposable_swap` | two faults of any kind anywhere, four pool states and none, caller initialises `a_out` or not, has its key or not | `OkMeansReceived`, `NoLossIfReady`, `ExchangeSpec` (refinement), `Settles` (liveness) |
| `disposable_swap_unready` | no fault at all; a caller who initialises `a_out`, and one whose pool does not exist | counterexample to `NoLoss` |
| `wlez` | two users with 4 and 3 LEZ, amounts 1 to 3 | `VaultBacksSupply`, `AlwaysRedeemable`, `NativeConserved` |
| `token` | two definitions, four accounts, amounts 0 to 3 | `SupplyAccounted`, `OneMaster`, `PrintingSparesMaster`, `HoldingKeepsToken` |
| `chained_swap` | two proofs, 2 steps of others, limits met and missed, a unit left in a single-use holding | `LedgerSolvent`, `AbortsOnlyUnfunded`, `ChainIsAtomic` (each inclusion is one atomic swap) |
| `ffi_calls` | two calls, both programs, no pool or one in either order of legs, with ATAs or without, some holdings never opened; others move once, one block passes | `ServedAsAsked`, `BoundsHonoured`, `NothingOverwritten` |
| `job_pump` | four clicks, failsafe after two intervals, a bridge that may give up | `OneInFlightUntilGivenUp`, `ResultsBelong`, `BusyEnds`, `ResultReported` (liveness) |
| `swap_card` | two tiers, a pool of either orientation in the first, one edit, two transactions that change a pool, amounts 16 and 24, slippage 0, 10 and 80 %, doubles exact up to 256, a bridge that may give up | `QuoteFitsRequest`, `BoundReachable`, `SlippageHonoured` |
| `swap_card_order` | the same with a bridge that always answers | counterexample to `QuoteIsForPaidLeg` |
| `wallet_file` | two holdings, two single-use accounts, two workers and the sync, two operations, two blocks | `CopiesHonest`, `FundsReachable`, `FileCatchesUp` (liveness) |

**Why the bounds are enough.** The pool's actions do not depend on who the user is
beyond balances, so that one user who burns, gives and withdraws plays every
holder. A width of 6 bits makes every checked operation of
the code fail in some reachable state and succeed in others; amounts 1, 2 and
5 against a quarter fee round in every direction. A pool needs one transaction to
exist, so five give four operations on it: gift, swap, sync and withdrawal in
any order. The proofs of section 5 remove these bounds for every safety and action property of
every passing run. The oracle's state repeats modulo 16 and its ring drops entries from the
third update on, well inside four blocks. Two faults are what it takes to
time out on a pending swap and then lose or fail the rollback.
The user of the
chained swaps can pay for the first and, depending on what the first brought, not
for the second; one swap of others is enough to outdate a proof, two to outdate
it and come back to another price. Four clicks are an action given up, the one that overlaps
it, and two more that meet what both left; the interval count of the failsafe only scales.
Two calls of any entry points, of which the first may open the holding or create
the pool the second needs, or be the same one again, meet every order of legs; each entry point
is accepted in every order it supports, and refused too. The swap card is loaded with its quote timer
running, as an edit leaves it, so that the one edit comes before that timer has run out or after, and the two changes of a pool are one that outdates a
quote and the order itself (162 200 states). The first swap of a pool pays 250 to 265 and meets doubles that are exact up to 256
only, in both directions: the CLI sends a bound of 264 on a quote of 263, and one of 264 on a quote of 265. A pool that has been traded in pays
less than 256, and at 80 %, where the share that is kept is no double, the product does fall a unit short (a bound of 3 for a fifth
of 20). A product of the pool overflows in some states, and the decimals of a quote round both ways. Two operations on the wallet file are
a store that overtakes another, and the sync, which is not bounded, comes between their steps
(973 396 states). `MaxOps`, `MaxClock`, `MaxFaults`, `MaxOthers`, `MaxActions`, `MaxCalls`,
`MaxInFlight`, `MaxEdits`, `MaxMoves` and `MaxChanges` are the only bounds in guards. Deadlock is
checked in `wallet_file`, where the sync can always go on; the other models stop where their bounds are used up, as
programs may simply receive no further transaction.

**Fairness.** `DisposableSwap`, `JobPump` and `WalletFile` have liveness properties. For the first, `FairSpec` assumes that
the sequencer keeps making blocks (each pending transaction is eventually
included or rejected: weak fairness of `Sequence`), that the call keeps running
unless it crashes (`CallStep`: the FFI blocks on its own runtime until it
returns), and that the user keeps shielding what is left in public holdings
(`UserStep`), as the doc of the call asks for, and that a wallet that is behind is synced
(`Sync`, which the mini-app does after every action, `Main.qml:310`). No fairness is assumed of
competitors, losses, failed waits or crashes. For the second, `FairSpec` assumes
that time passes and the UI thread serves its two timers (`Tick`, `Poll`,
`Failsafe`). Nothing is assumed of the bridge, the plugin and its jobs, each of which
may hang for ever. For the third it assumes that the UI starts a sync again and again, as it does
after every action (`SyncOpen` of the syncer, weak fairness), and that a sync which
can be stored again and again is stored at last (`SyncStore`, strong fairness: a node
that can be reached from time to time). Nothing is assumed of the other workers, which may
hang, end without a store or store over the sync. The FFI calls and the swap card promise no progress, so `FfiCalls` and `SwapCard` have no fairness.

## 4. Findings

1. **The swap card may quote the wrong direction** (`swap_card_order`, `mini-app/ui/Main.qml:525`). `findPool` asks for
   the pool of (pay, receive) and takes an answer to mean that the token paid is the
   pool's token A. But a pool's address does not depend on the order, so that the first probe
   answers for every pool there is, and for a pool created the other way round the card shows, and
   `minRecv` takes its bound from, the price of the opposite swap. The comment above the function
   says the direction needs the pool's own orientation. (The CLI's `cmd_quote` prints the same;
   its `cmd_swap` looks at `token_a_def` and is right: `CliLegs`.) `SlippageHonoured` and
   `BoundReachable` except just these orders.
2. **A disposable swap can strand its input** (`disposable_swap_unready`, `submit.rs:2580`). A caller that initialises
   `a_out` itself, as the plugin does, makes the call's own `InitializeAccount`
   fail, which returns before the rollback. `ldex_token_shield` recovers the
   input (`Settles` holds for these callers too).
   So does a pool that does not exist, the second kind of caller of the run (`submit.rs:2602`; TLC reports the first, whose
   counterexample is shorter, and this one with `Callers` restricted to it). The pool is first
   read after the deshield and the init, by `pool_needs_leg_flip`, whose error returns before the
   rollback; `prep_private` derives the pool's address without asking whether there is an account. A wrong fee tier is enough.
   And the same happens, with `ERR_KEY`, when the key of `a_out` is not in the wallet (`submit.rs:2562-2566`).
   `NoLossIfReady` is what remains of the doc's no-loss: for a fresh `a_out` whose key is
   there, and a pool that exists. None of the three conditions can be left out.

The following observations have no run of their own.

On chain. The recorded fee of an exact-output swap, `deposit * (DENOM - fees)`, is not checked and
the deposit is rounded up after the last check; within one denominator of 2^128 / 10000 the
statistics (not the reserves) are wrong. A circuit
swap moves the reserves without an oracle update, and the next update counts the
whole interval at the new price, although `amm/core/src/lib.rs:246-248` calls the
history exact and gapless; `ObservationsExactUnlessBlind` says precisely when it is: if no circuit swap moved the
reserves after time had passed since the last update. The v1 calls with key holdings
(`ldex_amm_swap_exact_in`, `_out`, `_add_liquidity`, `_remove_liquidity`) and the
router's disposable swap do not align the legs, so a caller who names the pair the
other way round is refused (`PoolOrderOnly` in `FfiSafety`). The private
liquidity calls of v1 list the clock, so that a proof that takes longer than a block is
refused. `amm_v2` passes clock 0, so its
oracle never moves although its documentation says that the public swap updates
it: `PublicSwapsTick` of section 5 is proved under `USES_CLOCK` only. The WLEZ vault
may exceed the supply after a donation or a direct burn, where the crate
documents equality; the inequality that matters is proved. 
In the FFI and the CLI. `ldex_amm_remove_liquidity_ata` of v1 sends the plain `RemoveLiquidity`, whose
`token::Burn` needs the signature of the LP holding, which an ATA gives through the
ATA program only: each such call is refused (amm_v2 has an instruction for it, and `ServedAsAsked`
covers its entry point). The CLI's `liq add` passes 0 for the least LP amount, for which the
amm_v2 guest has a `NonZeroU128`, so that it refuses each of these deposits. The plugin's
`addLiquidity` and `removeLiquidity` hand holding ids to calls that expect definition ids.

In the mini-app. After the failsafe
two operations may run at a time; `OneInFlightUntilGivenUp` says that it takes this,
or a bridge timeout. A `*Start` call that the bridge gives up on while the plugin is busy is taken
for a validation error, and its job is spawned afterwards; trying again runs the operation twice.
A click within the 600 ms of the quote timer sends the bound of the request before, and one
without a quote sends "1"; `SlippageHonoured` says that these are the only cases. The card does not round the
effective input, so that at low slippage its bound may exceed what the program pays by what one
more unit of input would bring (`BoundReachable`). The front ends compute bounds in doubles. Above 2^53 (nine quadrillion smallest
units, which a token of 18 decimals reaches) a bound of the CLI may exceed the quote even at slippage 0
(9007199254740995 becomes ...996), so that the swap is refused on the very pool it was quoted on;
below, the product may fall short of an integer (10 units at 90 % give 0, not 1), so that the least output is a unit lower than
the tolerance says. `BoundReachable` and `SlippageHonoured` are stated with exactly these allowances: `Drift`,
which is nothing for outputs below 2^48, and the unit. A card whose bound reaches 10^21 sends
it with an exponent and is refused by the plugin.

In the wallet file. A store from an older copy heals as far as balances go
(`CopiesHonest`, `FileCatchesUp`), but drops the keys of accounts made in between: a job that runs
beside the creation of the single-use accounts of a disposable swap can so make their contents
unreachable, which the recovery with `ldex_token_shield` would need
(`FundsReachable` says that this is the only way). Private swaps and private liquidity never store,
so that only the sync brings their results into the file. The account of privately provided liquidity
is remembered in the environment of the running plugin alone.

## 5. Proofs

Every theorem holds for all values of the constants that satisfy the assumptions declared beside
them. Each follows one pattern: an inductive invariant, a lemma per action that it is kept, and the
property from the invariant.

**Sums.** `ArithmeticTheorems` proves once what the ledgers need of `MapThenSumSet` over a finite set:
strict inclusion of subsets is well founded, so that a least subset on which a claim fails can be
picked, and with it a sum does not depend on the order of summation, changes by what one summand
changes (`TotalChange`), has the support's value (`TotalSupport`) and is at least that of a part
(`TotalPart`). The rest of the module are floors, ceilings, the inequalities of the curve, and that
an amount of LP to begin with exists and is the only one (`ISqrtFacts`).

`AmmTheorems` proves, for every set of users, every balance, every width and every
set of fee tiers allowed by the assumptions of `AmmMath` and `Amm`:

* `AmmInvariant`: `Spec => []AmmInv`. `AmmInv` is the conjunction of the type
  invariant, `VaultCoversReserves`, `PoolStaysFunded`, and two strengthenings. The
  safety properties are not inductive by themselves: a swap keeps the outgoing
  reserve positive only because its fee tier is a legal one, and a new pool's LP
  supply matches the ledger only because no LP existed before. Each action has a
  lemma; each lemma has a step per conjunct.
* `TypeCorrect`, `VaultsAlwaysCover`, `PoolAlwaysFunded`: its consequences.
* `ExitsNeverBlocked`: the LP held by everybody adds up to the supply (`LpAccounted`), so that no holder has
  more than can be burned down to the lock.
* `QuotesAlwaysAgree`: the exact-output charge is the least input that buys the
  amount.
* `LpShareNeverDiluted`, `FeesAlwaysAccrue`, `LedgerAlwaysFollows`,
  `PublicSwapsTick`: action properties, from the invariant. The first needs the
  product inequalities of `ArithmeticTheorems`, as the square root, the floors of
  deposits and withdrawals and the fee each favour the pool.
* `ImplementsOracle`: each step of the pool is a step of `PoolOracle` or a stutter.

`ProgramTheorems` is about the smaller programs.

* Oracle: `ObservationsAlwaysExact`, `AccumulatorAlwaysCatchesUp` and
  `RingAlwaysOrdered`, for every width, ring capacity, price history and clock. The properties speak
  of two observations or of now, and are not inductive. `OracleInv` ties both to the accumulator:
  `PriceHeld` says that the integral since the last update is the price now held times the time
  passed, and `AsFar` that the accumulator is as far from each observation as the integral is, modulo
  the width. A push closes the first and extends the second; a rebase moves over an interval
  in which the held price counts nothing; a circuit swap keeps them only if no time has passed or the
  reserves stay, which is what `blind_move` records.
* Token: `OneMasterAlways`, `MasterOutlastsPrinting` and `HoldingsKeepToken`, for any accounts,
  definitions and amounts. `TokenInv` adds that a definition comes into being once, with
  all of an NFT's supply in one master, and that a master moves as a whole. `SupplyAlwaysAccounted`
  rests on `SupplyInv`: what each holding counts for in a definition adds up to its supply;
  a transfer changes two summands by opposite amounts, or moves a holding as a whole.
* WLEZ: `VaultAlwaysBacks` from `WlezInv`, the type invariant together
  with `vault >= total_supply`; `NativeAlwaysConserved` and `WlezAlwaysRedeemable` from `WlezSums`, that
  the users' LEZ and the vault's add up to all there was, and the users' WLEZ to the supply.

`DisposableSwapTheorems` is about the saga of four transactions, for any amounts, any
number of faults and any moves of others.

* `ValueInOnePlace`: `Spec => []LedgerInv`. The value is in one of five places (private, exposed, restored,
  bought, received), and which one is decided by the transactions included so far: a
  deshield is included at most once, a swap only after it, a shield only where there is something to shield.
* `SwapIsAnExchange`: hence each step moves the value one place on, as `Exchange` allows, or stutters. The
  swap it allows is the one at not less than the minimum.
* `OkIsReceived`: `CallInv` follows `pc`: until something is shielded the value is kept, exposed or bought, a
  shield of the output that is included leaves it received, and success is only reported after one.
* `ReadyCallsNeverLose`: without a fault the call is at each `pc` where its transactions are (`SmoothInv`), made from notes
  that are current, so that it ends with what was bought, or with the input back. The caller left `a_out` alone and has its key,
  and the pool was there: section 4 has what happens otherwise.

`ChainedSwapTheorems` is about a swap of several calls in one proof, for all six handlers, any
accounts, limits and moves of others.

* `ChainInvariant`: `Spec => []ChainInv`. Each proof is a start state, `k` calls run and the calls left,
  and its working copy is what those `k` calls make of the start state (`After`). The start state is a
  solvent ledger on which the handler's checks passed; how the present ledger is related to it is left
  open, as only the check at inclusion brings the two together.
* `LedgerStaysSolvent`: vaults cover reserves and the WLEZ vault the supply. An inclusion puts a ledger in place which is
  the present one (the check at inclusion) with one whole swap done.
* `OnlyUnfundedAbort`: each call finds the balances it was given, since they were computed with the same
  sums; only the user's own payment can fail, or a sum leave u128 (`Funded`).
* `ChainsAreAtomic`: what an inclusion changes is the swap of the abstract `SwapLedger`, at the price the pool then has.

`MiniAppTheorems`:

* Job pump: `ResultsAlwaysBelong` and `OneAtATime`, for any number of clicks and any
  length of the failsafe. The invariant keeps the books of the pump: what is queued, in a job or pending is of an
  action begun, one at most of each, and, while a job is polled, the attempts made and the
  intervals the failsafe has left add up, so that the poll never outlasts the failsafe.
* Swap card: `SwapCardInvariant`, and from it `QuoteAlwaysFits`, `BoundsReachable` and `SlippageAlwaysHonoured`, for all reserves,
  amounts, tiers and slippages, and for doubles of every precision that `F64Assumption` allows. The arithmetic is
  an error analysis. `Below(x, y, k)` says that `x` exceeds `y` by at most `k` parts in `F64_EXACT`, and `Near` says it of both sides;
  one rounding is one part (`NearRound`), unless the result is tiny, and parts add up along sums, products and quotients. The
  curve in doubles is within 12 parts of the curve (`CurveFacts`), which lies between what the program pays
  (`PaidOnCurve`) and what one unit of effective input more would bring (`OneMoreOffCurve`). Printing adds
  a quarter of a unit at most, reading back, the share and the floor the rest: 15 parts above, 17 below. `WithinDrift` and
  `ShortByDrift` turn parts into the 32 of `Drift`. For the CLI, `CurveMonotone` shows that saturating the input cannot
  raise the quote, and `CliBoundAbove` and `CliBoundBelow` follow its two roundings. The invariant
  then says what each order's bound is worth; a swap keeps both reserves positive, which the lemmas need.

`WalletFileTheorems` proves `CopiesStayHonest` and `FundsStayReachable` for any holdings, accounts, workers and blocks.
Each copy is honest with respect to its own last sync, not the file's, so that it does not matter
who stores over whom; a result that is folded is at least what its copy was synced to. For
the keys the invariant follows a single-use account from its saving through the copy that signs to the
transaction that funds it: it was in the file, or a stale store is to blame.

`FfiTheorems` is about the calls of one transaction, for any requests, pools, balances and moves of others, and any
number of calls on their way.

* `CallsStayBuilt`: `Spec => []FfiInv`. `CallsBuilt` has, for each kind of call, what its entry point makes
  of the request: each position belongs to one token (vault, holding and amount are all of it), and those
  whose units the handler moves have signed. An aligned call is in the order of the pool; a pool once created keeps its
  order, so that the call stays in it however late it is included. `LpBacked` says that the
  LP of the caller is part of the supply, so that a withdrawal leaves the rest of it to others.
  The entry points share a few ways of building a call, with a lemma for each (`SwapSent` to `InitSent`).
* `BoundsAlwaysHonoured` and `NothingIsOverwritten`: a lemma per handler shows that a call so built which is accepted
  is `Balanced`: the caller's holding of each token gains what its reserve loses, within what was
  named for that token, and nothing else moves. The sums over the caller's holdings then
  follow by `TotalChange`.
* `AlwaysServedAsAsked`: for each handler, its checks on positions are those of `FfiSafety` on tokens, in both
  directions: nothing that could be done is refused, and nothing else is done.

**Assumptions.** `PublicSwapsTick` assumes `USES_CLOCK`. The sums need the sets of users, accounts and holders to be finite, which
they are at any time on a chain, and `Wlez` that all LEZ there is fits an amount. The chained swaps start from a
solvent ledger, which `Amm` and `Wlez` show to be the only kind there is. The FFI calls start from pools as
`Amm` leaves them (`WorldsAssumption`: nothing drained, the lock in the supply, the caller's LP part of it, by
`PoolAlwaysFunded` and `ExitsNeverBlocked`), and a request names two different tokens (`Request`: the
derivation of a pool's address panics on equal ones). No other theorem has an assumption beyond
those the modules declare for their constants. The arithmetic of the programs is over the integers
with every u128 check written out (`Fits`), so that an operation the code leaves
unchecked is modelled modulo the width (`RecordedFee`) and one it checks is a guard. That of
the front ends is in doubles where theirs is: `SwapCardAssumption` asks for fee tiers of at most a half and quotes printed in at least
half units, `F64Assumption` for at least 8 bits of precision and for exponents that cover the products of two amounts. How `QString::number`
rounds a fourth decimal that is exactly in the middle (up, here) is taken from its use; the proofs hold for it as modelled.

**Only model-checked.** Liveness (`Settles`, `BusyEnds`, `ResultReported`, `FileCatchesUp`), which needs
fairness and ENABLED.

## 6. Not modelled

Inside modelled code: signatures and PDA derivations (the ledger lets only the
owner move a holding), deadlines (a transaction past its deadline is one that is
not sent), the choice of accounts that a handler checks against the pool,
serialisation, and the metadata of NFTs. A program that `Wlez` pins at
initialisation is taken to be the real one.

Of the FFI: requests that name a token which is not in the pool or the same one twice, a second pool, the
environment variables and program files the calls load, the polling interval. An
owner account is taken to exist (`ldex_ata_create` creates it), and the vaults to hold
what the pool counts. What `PoolHandlers` leaves out of a handler (oracle,
counters, gifts to vaults) `Amm` has.

Of the swap card: decimals of tokens, deadlines (always the largest u64), the price impact and the fee shown beside the quote, and a second pair of tokens, for which the card does the same. Of the wallet file: how the
library encodes it, and a store that the process does not finish. The plugin's
environment file with the account of private liquidity is left out.

Components, with the reason: the stablecoin, which opens positions and nothing else so far; the CLI
beyond `swap`, `quote` and the sync, as its commands pass arguments to the calls of
`FfiCalls`; the web UI, which runs on dummy data; IDL generation.

## 7. Plan

Written, in the order of what they protect: `AmmMath`, `PoolOracle`, `Amm`,
`DisposableSwap`, `Wlez`, `Token`, `JobPump`, `ChainedSwap`, `PoolHandlers`, `FfiCalls`,
`WalletFile`, `F64`, `SwapCard`; and proofs about each of them.

What would come next: the composition of `WalletFile` with `DisposableSwap`, whose `cache` it refines; that
`FfiCalls` implements `Amm` restricted to one caller; and the stablecoin when positions can be closed.
