# WalletBitcoinGo in TLA+

WalletBitcoinGo is a command line Bitcoin wallet in Go: each run of the
program performs one action (`new`, `load`, `import`, `export`,
`send-legacy`, `send-segwit`) and ends. This directory holds TLA+ models of
it, the TLC configurations that check them and proofs that TLAPS checks. Line
numbers refer to the repository's sources under `src/`.

## 1. Inventory

| Component | Source | State | Operations |
|---|---|---|---|
| Command line | `main.go` | the flags | validates flags, dispatches on `-action`, ends the process on an error |
| Wallet creation and storage | `src/wallet/wallet.go`, `storage.go` | one encrypted file per name and network | `getWalletPath`, `NewWalletFromScratch`, `NewWalletFromMnemonic`, `EncryptAndSaveWallet`, `LoadWallet`, `getBalance` |
| Backup | `src/wallet/backup.go` | an export file in the home directory | `ExportKeys`, `ImportWalletFromFile`, `SkToWif`, `WifToSk` |
| Spending | `src/wallet/legacy.go`, `segwit.go` | none that outlives a run | `SendLegacyTx`, `SendSegwit`, `buildInputs*`, `buildOutputs`, `signInputs*`, `randomChangeAddress` |
| Coin selection | `src/api/mempool_api.go` (`selectInputs`) | local to a call | sorts the pool, takes UTXOs until they cover amount and fee, settles the change |
| Mempool client | `src/api/mempool_api.go` | none; the chain is on the server | UTXOs of an address, fees, broadcast |
| Bitcoin Core client | `src/api/btccore_api.go` | none | a stub that no command reaches |
| Mnemonic and seed | `src/key_manager/bip39.go` | none | entropy to twelve words, words to a seed |
| Key derivation | `src/key_manager/bip32.go`, `key_manager.go` | none | master and child keys, paths, addresses |
| Transactions | `src/transactions/` | a transaction being signed | serialize, parse, legacy signature hash, sign |
| Utilities, types | `src/utils/utils.go`, `src/types/types.go` | none | VarInt, hashes, Base58Check, the order of UTXOs |

How they interact. Runs are processes that share two things: the files in the
home directory, and the chain behind mempool.space. Nothing is locked. `new`
and `import` check that the name is free, derive or read the keys, write the
file, then ask for the balance and ignore the error. `load` and everything
that begins with it (`export`, both sends) read and decrypt the file, then ask
for the balance and fail if there is no answer. A send asks again for the coins
of the addresses it may spend from, one request per address and one per coin,
then for the fee rate, selects, builds and signs without the network, and posts
the transaction. Within a run everything is sequential.

What is hard here, and what correct means:

* **Storage**: two runs between the check of the name and the write; a crash
  or a full disk in the middle of a write, which is not atomic; a load during a
  write. Correct: keys once shown are on disk to the last block, for good; a
  name is never used twice; a load shows one complete wallet or fails.
* **Coin selection**: the fee depends on what is selected and on whether there
  is change, which depends on the fee. Correct: the transaction pays the rate
  for its estimated size and little more; a refusal is justified; an amount that
  overflows costs nothing.
* **Spending**: the chain changes between requests; requests and replies are
  lost; two runs select the same coins. Correct: what a run reports is true of
  the chain; change can be spent again; every loss is explained; the node has no
  reason of the program's making to reject a transaction.
* **Backup**: silent loss in the export file or at import. Correct: what was
  exported can be imported to the same addresses and keys, or an error is seen.
* **Keys**: cutting bits into words, distinct paths for distinct addresses,
  children that do not exist.
* **Transactions**: writer and parser agree at the boundaries of VarInt;
  signing one input leaves what the other signatures cover unchanged.

`PROJECT.json` lists every component and every hazard with its line and the
properties aimed at it.

## 2. Plan

Done:

1. `CoinSelection`, `InputSelection`: the selection as a function and as a
   loop; all their safety properties proved.
2. `WalletVault` (abstract), `WalletStore`: the disk and the runs; refinement
   checked and proved; all its safety properties, in sequence and in any
   interleaving, proved too.
3. `Spending`, which uses `CoinSelection`: the sends over a changing chain; all its
   properties proved.
4. `KeyBackup` (abstract), `Backup`: export and import, line by line; refinement
   and all other properties checked and proved.
5. `TxFormat`, `Transactions`: what a send does between the selection and the
   broadcast; all its properties proved.
6. `Keys`: words, paths and the addresses of a new wallet; all its properties proved.

Left:

7. `WalletStore` with a file system cache and power failures.
8. `Transactions` as a step of `Spending`, in place of its assumption that
   signing succeeds.

## 3. The modules and the code

### CoinSelection and InputSelection

`CoinSelection` holds the arithmetic of `selectInputs` as operators: the sizes
(44, 148, 68, 34), `currentSize`, `Needed` (`amount+fee`), `Remainder`
(`accumulated - amount - fee`), `Settle` (lines 256-270), the orders `sort.Sort`
may produce (`SortedPools`, all of them, because the sort is not stable and the
pool comes in map order), and `selectInputs` as one function. `MaxInt` is the
largest `int`; sums wrap around (`Wrap`). Go's `int` has 64 bits, the checked
instance a smaller width, the proofs any.

`InputSelection` runs the loop: the variables are the function's locals, and
its actions are `SortPool` (237), `RejectTxId` (242-245), `KeepLooking` and
`StopLooking` (an iteration with the test at 258 false or true), `LeaveLoop`
and `Return` (275-281). `next` is the position of the range loop.

A UTXO is its value, the script type, and whether its transaction id is well
formed. The private key and the output index play no part in the choice.

### WalletVault and WalletStore

`WalletStore` has a disk (`exists`, `data`) and a set of runs. The actions of a
run follow its system calls: `CheckName` (`os.Stat`), `CreateFile` (the open of
`os.WriteFile`, which truncates), `WriteBlock`, `CloseFile`, `ReadFile` block by
block, `Decrypt`, `AskServer`. `GiveUp`, `WriteFails` and `Crash` are the
failures. A file is a sequence of blocks, each named after the run that wrote
it; two writers have their own offsets, so their blocks can mix, and a gap reads
as a `Hole`. AES-GCM with a fresh salt and nonce authenticates, so a file decrypts
exactly if it is the whole envelope of one run and the password is that run's.

`WalletVault` is the promise: a name is free until one run stores its wallet
under it or spoils it, for good. A path is what `getWalletPath` makes of a name and a
network. Names that are clean path elements have different paths on the two
networks and among each other; `filepath.Join` may give others one path, as it does
to `x` and `./x`. The model speaks of paths: such names are one to it.

The directory of a wallet is not modelled: a load that finds none fails, as one
that finds no file does. A `new` that fails after the check leaves an empty
directory, which the next check ignores.

### Spending

`wallet` is what is on disk, the same for every run; `unspent` is what the
server reports. A run scans the addresses for its balance (`AskCoins` in
`"balance"`), a send scans those of its kind again (`"collecting"`), reads the
fee rate, builds (`Build`: selection, change address, decoding of addresses),
and broadcasts. `Deposit` is a stranger's payment. `NoAnswer`, `NoReply` and `Crash`
are the failures. A lost POST and a lost reply are the same error to the run,
and the model has both.

The node is external: it accepts a transaction whose inputs are unspent, that
pays one satoshi per vbyte and has no output below the dust limit. What it
measures is not the size that `selectInputs` has estimated (`tx.size`) but the
`weight` of the bytes posted: the inputs of both kinds with their scripts and
witnesses, the outputs with the lengths of their scripts (`OutputSize` of a destination: 34
bytes for P2PKH, 32 for P2SH, 31 for P2WPKH, 43 for P2WSH and P2TR), the count of
the inputs, marker and flag. A signature has at most 72 bytes with its hash type; `Savings` is
by how much those of a transaction are shorter. The balance and the pool of a run are
forgotten once no code reads them.

An answer with an error status is one error to the user (line 340), but there are two
in the model: `NodeRejects` is the verdict of the node on a transaction that is not valid,
`"status"` in `NoReply` is what a proxy or a limit of requests answers,
before or after the node has taken a valid transaction.

Signing is assumed to succeed: the wallet's coins are all of the two script
types that the code signs. How it is done, and what makes it fail, is
`Transactions`, which begins where `selectInputs` has returned. Addresses of an imported wallet are taken to belong
to their keys. The script types an address of the wallet can have are `p2pkh`
and `v0_p2wpkh`, and one request for coins is atomic: the list of an address's
coins comes in one response, and the transactions asked for after it do not
change.

### KeyBackup and Backup

`Backup` has the wallets (four maps of addresses to keys for each name and
network that has a readable file; `spoilt` are those whose file was not written to
its end), the export files as sequences of lines, and one command at a time.
`OpenFile` truncates the file named after the wallet and the format (106, 114,
119); `WriteJson` is one `os.WriteFile`; the CSV writer takes records into a
buffer of `Buffer` lines (`WriteRecord`), writes when the next does not fit
(`WriteThrough`), and writes the rest in the deferred `Flush` (126), whose
failure ends, as the code does, in a reported success. A write that is cut short
leaves any beginning of its lines, and perhaps a part of the next (`Torn`).
`ReadKeys` reads the whole file and decodes every WIF, which knows its network.
The first record of a CSV file is skipped whatever it is (`rowsIn`, 175-185), also
when it is a key; `EveryKeyImported` looks at all lines of the file, that one included.
`walletOf` is the switch on the prefix (205-224). `together` is `maps.Copy`, map after
map. `CheckName` and `Save` are
what `WalletStore` models in detail. `backup` is history and guides no action:
whose keys were last written to each file and how that export ended.

A torn JSON file does not parse. A CSV file that breaks off within a line does
not either, unless it is the first line, which is skipped unread; one that
breaks off between two lines does. That is why `RestoredIsWhole` allows less
than everything for CSV only.

`KeyBackup` is the promise: a file gives back part of one wallet's map, and a
new wallet holds exactly what its file gave back, or is spoilt. Under the
refinement the steps of an export are steps of `Write`, as a file that grows
gives back more and more of one wallet.

### TxFormat and Transactions

`TxFormat` is the bytes: numbers of variable length, `Serialize*` and `Parse*`,
and next to them the encoding of the network as btcd writes it, which serves as
the reference. A byte has `ByteBits` bits and `Base` values, 8 and 256 in the code.

`Transactions` runs a send from `buildOutputs` to the bytes posted. `BuildTx`
makes the transaction of `src/transactions`; `SignInput` is an iteration of
`signInputsLegacy` with everything below it (`copyForSigning`,
`LegacySigHash`, `buildScriptSig`); `ToWire` and `SignInputSegwit` are
`signInputsSegwit`. A coin whose output the server did not give has no script
(`"missing"`, mempool_api.go:96), one whose script is not hexadecimal is
`"garbled"`. `Sign` is a parameter: any function of key and message. Hashes are
left out, so that a message stands for its digest and an id for its transaction.
`ParseTx` has no caller in the program; `ReadsBack` uses it against what is posted.

### Keys

`Keys` follows the creation of a wallet: `TakeByte`, `CutWord` and `NoMoreWords`
are the two loops of `GenerateMnemonicEnt128` over its accumulator, whose width
is kept (`% 2 ^ AccBits`); `NewMasterKey`; `DeriveAddress` and `NextLoop` are the
four loops of `NewWalletFromMnemonic` (151-178); `Save` hands over to
`WalletStore`. A key is the seed and the derivations that lead to it, each with
its number and whether it starts from the private or the public key of the parent.

## 4. The runs

| Run | Bounds | Shows |
|---|---|---|
| `selection` | pools of up to 3 UTXOs out of 8 (values 100, 180, 500 of both kinds, one of value 0, one with a malformed id), 7 amounts, rates 0, 1, 2, `MaxInt` 9000 | the seven properties of `InputSelection`, among them what an amount that overflows can cost |
| `selection_mixed` | the same | violated: the text of the error is not true of a mixed pool |
| `store_one_at_a_time` | 3 runs, 2 files, 2 passwords, envelopes of 1 and 2 blocks | all that the store promises to a user who waits for each command, and `ImplementsVault` |
| `store_concurrent` | the same, with interleavings | what is left of it |
| `store_overwrite` | the same | violated: an existing wallet is overwritten (`TODO.md:17`) |
| `spending` | 2 runs, one deposit, 6 wallets with up to 2 coins, amount 1000 to an output of 34 or of 43 bytes, rates 0, 1 and 2 | the seven properties of `Spending` |
| `spending_mainnet` | as `spending` | violated: base58 addresses of mainnet do not decode (`TODO.md:13`) |
| `backup` | 3 commands, 2 names on 2 networks, one wallet on each network with 3 keys, a foreign file, a buffer of 2 lines | the seven properties of `Backup`, among them `ImplementsKeyBackup` |
| `backup_flush` | as `backup` | violated: an export whose flush has failed is reported as a success (`main.go:155`) |
| `backup_mainnet` | as `backup` | violated: the export of a mainnet wallet is refused by import (`main.go:36-37`) |
| `transactions` | up to 3 coins of 4 kinds mixed, 4 and 5 of one kind, bytes of 3 bits, ids of 2 bytes, scripts of 4, 5, 63, 64, 4095 and 4096 bytes, with and without change | the six properties of `Transactions` |
| `keys` | every entropy of 4 bytes of 2 bits with every checksum, 3 words of 3 bits, 1 or 2 addresses for each map | the three properties of `Keys` |

Why the bounds are enough. Selection: the values lie below the price of a
legacy input at rate 1 (148) and above that of a segwit input (68), above both,
and far above; the amounts leave no remainder, one too small for a change
output, and one that is not; 820 is met exactly by two inputs; 8000 and 9000 wrap
with their fee. Three UTXOs are a prefix that suffices, one that does not and
one to spare. Storage: two runs compete and a third reads or competes
too; two blocks give a beginning and an end, so a short wallet over a long one
and a mixture can occur; the second file and the second password are those
that must not be confused. Spending: two runs are the least that interfere, and
the coins make one input suffice or two be needed, change absent, given up, dust
or ordinary, and a wallet that is on mainnet, imported, or holds coins of both kinds.
At a rate of 1 the size of the bytes matters: a coin of 1112 pays exactly for the size estimated
of a segwit send without change, half a vbyte less than the bytes take; an output of 43 bytes is
nine more than estimated; and there are sends that get it right. Other lengths of outputs, shorter
signatures, more than ten legacy inputs beside a segwit one, and 253 inputs are beyond the
instance and covered by the proof.
Backup: three commands are an export, a second one over it or an import of it, and an
import or an export after that; four lines of CSV with a buffer of two let a write
be cut short before the flush, in it, between lines and within one. The foreign file has
no header, a kind import does not know and a key twice. Two keys for one address are
left to the proof of `EveryKeyIsImported`: with such a file `KeysFit` is false. Transactions: with bytes of 3 bits the
boundaries of the variable-length numbers are 5, 64 and 4096, one on each side of which
is reached by the length of a script and the first by the number of inputs too, as 0xfd,
0x10000 and 0x100000000 are; the output indices and the amounts have several bytes. Three inputs leave one signed
before and one after another. The last boundary needs a script of 2^32 bytes in the
code. Keys: the widths keep what matters of 8, 11, 32, 16 and 12: words straddle bytes,
one byte before the last ends with a word (byte 11 in the code, byte 3 here), which
empties the accumulator, and the last byte has bits to spare (4 in the code, 1 here).

Some readings. `InRange` in the selection's properties restricts them to amounts
that fit an `int` together with the largest fee; the command line allows
others, of which the run checks `TypeOK`, `AgreesWithFunction` and
`OverflowUnspendable`: the test at 258 lets them pass, the change is a negative number or
wraps as well, and what is then built asks for more than its inputs hold, or pays
its fee all the same. `quiet` in the properties of `Spending` means that the chain
has not changed since the run's scan began. A scan that is interfered with can
miss a coin that comes or count one twice whose change comes to an address not yet
asked: `BalanceBracketed` says between what two sums it stays, and `NoCoinOverlooked`
that a coin that stays is not missed.

What some properties do not say. `StoredWithoutRivals` and `NoNewRivalSucceeds` leave out the
race for a name, which is `store_overwrite`'s. `ReportedIsWhole` and `RestoredIsWhole` leave out
the flush that fails, which is `backup_flush`'s: they say that nothing else makes a
reported backup short. `QuietRejection` names the cases in which the program is at fault
(dust, a size below the real one): it says that there are no others. `EveryAddressOnce`
is about wallets that are created: a child key that does not exist ends the creation.

Three more places where a comment promises more than the code does have no run that
shows them violated; the properties say what is true instead. `mempool_api.go:236` takes every
destination's output for one of 34 bytes: `underestimated` lists where the size is too small.
`backup.go:174` calls the first record of a CSV file the header: `EveryKeyImported` excepts
whatever stands there. `main.go:185` says that send-legacy uses all addresses: it uses the legacy
ones (`legacy.go:23`), and `NoCoinOverlooked` speaks of `sourceAddresses`.

Each property of a passing run has a mutant: an operator next to the definition
it replaces, commented "Mutant of", that changes it as a plausible bug would.
TLC finds the property violated with it. Mutants are used nowhere else.

## 5. Fairness

`WalletStore`: weak fairness of `Proceed(c)` for every run, as the operating
system schedules processes. `Proceed` contains no failure, no start and no
answer of the server: a user need not type, a disk need not fail, and
`http.Get` is called without a time limit, so the server need not answer.
`OnlyServerBlocks` says that then a run ends or waits for the server.
The other modules have no fairness and only safety properties; that the loops of
`InputSelection` and `Keys` never get stuck on the way is what TLC's check for deadlock shows.

## 6. The proofs

`tlapm` proves, for every value of the constants:

* `CoinSelection_proofs` has no theorem of its own but what the next module and
  `Spending_proofs` need of the operators of `CoinSelection`. `ValueOf` and `TotalOf` are
  recursions over a finite set that take out some element: they have one value
  (`SumsExist`, `SumsAgree`), whatever is taken out (`SumRemove`), add up over disjoint sets,
  and grow. Induction is by a least counterexample (`LeastMember`, from the
  library's `WFMin`), because its induction theorems take an operator as a parameter.
  Then: the first k UTXOs of a sorted pool are worth at least as much as any other
  k (`PrefixIsBest`); settling the change never takes more than there is
  (`SettleCovers`); a choice that pays for itself is no smaller than the prefix that does
  (`NoChoiceCovers`); and what `selectInputs`, as a function, returns (`SelectCases`,
  `SelectionPays`, `WholeShort`).
* `InputSelection_proofs`: `TypeCorrect`, `FeeHonoured`, `Waste`, `LoopComputesFunction`,
  `RefusalIsJustified`, `GreedyIsOptimal`, `OverflowIsUnspendable`. Assumptions: those of the modules (`MaxInt` is
  positive, the amounts fit an `int`, and so do every fee by itself and what a pool is
  worth together with it: all there is of bitcoin is a four-thousandth of the largest `int`). Argument: `IInv` adds to the type invariant that the counters
  count the UTXOs passed, which bounds every size by that of the whole
  pool (`SizeBound`), so that in range no sum wraps; that while the loop runs the
  inputs do not suffice; and that when it is left with inputs that do, fee and
  change are settled. The properties alone are not inductive: they speak of
  the end, where nothing of how it was reached is left. `SettleCorrect` is
  the arithmetic; `Return` needs that its test separates the two ways of leaving
  the loop. `SelInv` adds what `accumulated` and the counters are worth
  (`Selected`), that no shorter prefix was enough (`Passed`, `NotYet`), and
  where each status leaves the position; from it the loop's result is that of the
  function, a refusal means that the whole pool falls short, and a selection
  is the shortest prefix, which no choice of coins of one kind beats. For
  `OverflowIsUnspendable` `WorthInv` keeps that what the pool is worth fits an `int` together with the
  largest fee, so that only sums with the amount can wrap; `SettleEitherWay` is the arithmetic with sums that
  have.
* `WalletStore_proofs`: `TypeCorrect` for any interleaving, and under
  `OneAtATime` `ShownStored`, `FilesKept` and `Implements` (the refinement of
  `WalletVault`). Argument: `IInv` says that at most one run is under way
  (`Alone`), that a run that has not begun has written nothing, that between
  check and creation the name is still free (`NameFree`), and that the file
  being written holds exactly the writer's blocks so far (`OwnBlocks`). The
  race in `store_overwrite` is what `NameFree` excludes, and without it neither
  property is inductive. `Implements` shows step by step that a run's
  system calls stutter in the vault, except the one that ends a write. `TornHasCause` and
  `SavedIsFound`, under `OneAtATime` too: `FInv` adds to `IInv` that every file is the trace of one run, exactly the
  blocks it has written (`Traced`), and that what a load has read so far is how
  the file begins (`ReadSoFar`), which holds because nobody writes while it reads.
  In its second part `NoMixtureLoaded`, `NamesAreApart` and
  `SecuredNameRefused`, for any number of runs in any interleaving, without
  `OneAtATime`. Argument: `CInv` says of every block, in a file (`BlocksWritten`) or
  already read from one (`BlocksRead`), that its writer saves under that path and
  has come at least as far as the block's place. An envelope that opens has its
  writer's block at its last place, so that writer has written all of it, however
  the file was put together. `LoadedIsOneWallet` alone says nothing of what is about to
  be decrypted. `Undisturbed` is `StoredWithoutRivals` from the first block on;
  `Secured` says that files, once created, stay.
* `Spending_proofs`: `OutcomeAlwaysHonest`, `ChangeIsSpendable`, `SpendingTypeCorrect`,
  `BalanceIsRight`, `RejectionIsNotOurs`, `RefusalIsRight` and `LossIsExplained`, for any
  number of runs, wallets, coins and rates. Assumptions: no base58 address is a bech32
  one, and the coins of a wallet are at its addresses (`SetupsAssumption`); runs, coins and
  deposits are finitely many, and the id of an output tells which transaction it is
  of (`CoinsAssumption`); rates and savings are numbers (`RatesAssumption`); the outputs
  of strangers have the lengths of the standard scripts (`OutputSizeAssumption`); an
  amount, the fee of the largest send and any one coin fit an `int` together
  (`RangeAssumption`). Argument: `IInv` says where the node has a run's transaction and
  where it has not: never before the reply is waited for, always while it is, which
  the property, being about runs that have ended, does not say. `ChangeAt`
  says that the change address, fixed before the broadcast, is one that
  `randomChangeAddress` offers. `SInv` adds, for every run, what it has asked for so far
  against the chain as it was when it began (`BeganAt`): the coins it has been told of are all that
  stayed at the addresses it has already asked about (`staying`), and none that was not there meanwhile
  (`Counted`); and of a
  transaction that is built, that its inputs, its size, its fee and its change
  belong together (`BuiltAt`), by `SelectionPays`. Coins are told apart by their ids
  (`Ever`), so that a sum over those that are spent is what the wallet loses. The
  properties speak of a run that has ended, or of a step; `QuietAt` keeps what was
  true when the run failed for as long as the chain does not move. `BalanceIsRight` and `RefusalIsRight` are about every
  interleaving: `Counted` holds while the chain moves. For
  `RejectionIsNotOurs` the weight of the bytes is split by inputs and outputs
  (`PartsOfWeight`) and compared with the estimate (`EstimateArithmetic`, `WeightCovered`): at
  most four times it, but where `underestimated` says, and at most eight times in all
  cases, so that a rate of 2 is always enough.
* `Backup_proofs`: `BackupTypeCorrect`, `WholeIsAccepted` and `EveryKeyIsImported` for any wallets
  and files, with a header or without; `WholeIsKept`, `RestoredIsSame` and `KeepsThePromise` (the refinement of `KeyBackup`)
  if no wallet or foreign file has one address with two keys (`Unambiguous`); `KeysAlwaysFit` if
  in all of them every address is that of its key (`Genuine`). Both conditions are
  met by what `new` makes, and by the checked instance; import does not see to
  them, as it takes addresses as they are (210), and without them the statements are false:
  an address in two maps is exported with the key of one of them only. Argument: a text
  is the whole export of a wallet w (`Text`) or what one has left wherever it
  stopped (`Trace`); `Sourced` says that every export file is the trace of some wallet's
  export, the one that `backup` records, and its whole text if that was reported
  as whole. From a trace import takes a part of w's entries (`PartGivenBack`), from a
  text all of them (`AllGivenBack`). `ExportAt` and `ImportAt` say what a command has in its
  hands at each place: the text being written is that of a wallet on disk, and the file
  being imported is still what it was when it was read. `KeptProper` carries `Unambiguous`
  and `Genuine` from one wallet to the next through a file (`GivenBackAgrees`,
  `GivenBackFits`). For the refinement, a step that writes to a file is `Write`, because
  the file is then the trace of a wallet that exists (`FileStep`), the step that makes a
  wallet's file is `Restore` (`WalletStep`), and all others stutter. Assumptions: what
  stands for a missing wallet, file or export is not one (`MarkersAssumption`), and
  wallets and texts are of their types (`ConstantsAssumption`).
* `Powers` holds the arithmetic that the next two modules rest on: powers of two and
  quotients by them. The prover knows no law of `^`. That a number is the sum of its
  powers is not taken from a recursion over numbers but from counting subsets
  (`PowerOfSubsets`, by the library's `FS_SUBSET`), from which `2 ^ (m + n)` follows
  (`PowerSum`); and a statement for all numbers by the least number for which it fails
  (`LeastNumber`, `AllNumbers`).
* `Transactions_proofs`: `SignedForGood`, `TypeCorrect`, `PostedIsSigned`,
  `PostedIsUnderstood`, `PostedReadsBack` and `SelectionIsSpent`, for every set of
  selections and payments, every `ByteBits` from 2 and every `Sign`. Assumptions: what
  is counted or paid is below what 8 bytes hold, and the index of an output below what
  4 bytes hold (`SelectionsAssumption`, `PaymentsAssumption`), as the types of the code
  see to. Argument: `IInv`
  says that the transaction at any time is the one built with some of its scripts
  filled in (`IsBuilt`, `IsWired`), and that a script, once made, is the one that
  would be made from the transaction as it was built (`SignedAtStart`). What a
  signature covers blanks all scripts, so it depends on that transaction only. The other
  theorems compare that transaction with what is made of it: a number of w bytes reads
  back (`NumberReadsBack`), a length is written in its shortest form
  (`VarIntIsCompactSize`) and reads back, so both writers agree on one input or output
  (`InputWritten`, `OutputWritten`), on the transaction (`WritersAgree`), and so on what
  is signed (`MessagesAgree`). For the parser: one input or output is read and nothing
  after it (`InputReadsBack`, `OutputReadsBack`); the bytes of many are those of the
  first and then of the others (`FlattenedIsLeft`); so a loop that takes one after
  the other has taken all (`LoopReads`, `InputsReadBack`, `OutputsReadBack`). Two of the
  theorems speak of posts whose input scripts are some bytes, fewer than 8 bytes can
  count (`ScriptsFit`): `Sign` is any function, and nothing else is asked of it;
  `PostedIsUnderstood` asks it of send-legacy only. The run `transactions` checks both
  properties without the condition.
* `Keys_proofs`: `TypeCorrect`, `WordsAreTheBits` and `AllAddressesOnce`, for any widths
  of bytes, words and accumulator that fit each other (`WidthsAssumption`: the
  words take up the entropy and part of the byte after it, and a byte fits the
  accumulator besides what is short of a word) and any number of addresses up to the
  first hardened number (`NumAssumption`). Argument: `MnemonicOK` says that acc is the
  number that the bits taken and not yet given to a word make, read from the left, and
  the words are those given; taking a byte shifts it, cutting a word splits it, and a
  remainder of `2 ^ bits` forgets no bit that is still to come. `MapsFilled` says that each map holds
  the addresses of its loop below the counter, of all earlier loops in full, of
  later loops none. Two entries with one key have one path, and the path tells the
  kind, the chain and the index.

So every invariant and action property of a passing run, and both refinements, are
theorems. Only model-checked: liveness (`OnlyServerBlocks`), which is out
of the prover's reach, and the five disagreements, which are counterexamples.

## 7. Not modelled

* The Bitcoin Core stub, which does nothing.
* Cryptography, hashes, Base58, bech32, the word list and its languages, the syntax of
  JSON and CSV. `ExtendedKey.Serialize` and the `ToJson` and `ToString` of transactions have
  no caller; `Fingerprint` fills a field nobody reads.
* The URLs, including the double slash of the broadcast's (`mempool_api.go:322`), the
  network the fee rate is read from (138), response fields of the wrong type,
  connections that stay open (40).
* Power failures: nothing is synced, and what they leave depends on the file system.
* Two exports at a time to one file, and an import during an export.
* The parser's end of the process on a short input: nothing the program runs parses.
* The validation of flags and what is printed.
