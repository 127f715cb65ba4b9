------------------------------ MODULE Spending ------------------------------
(***************************************************************************)
(* The runs that ask mempool.space about the wallet's coins and spend them *)
(* (main.go: load, send-legacy, send-segwit; src/wallet/legacy.go and      *)
(* segwit.go; src/api/mempool_api.go). Each run is a process of its own    *)
(* with a copy of the same wallet; between any two of its requests other   *)
(* runs may spend and strangers may pay, and any request may be lost.      *)
(*                                                                         *)
(* The chain is what the server reports: the wallet's coins that neither a *)
(* confirmed transaction nor one in its mempool has spent. A coin is an    *)
(* output: an id that no other has, the address it pays and its value.     *)
(***************************************************************************)
EXTENDS CoinSelection, SequencesExt

CONSTANTS
  Setups,        \* A wallet and the coins it starts with: see below.
  LegacyDests,   \* Strangers' base58 addresses, on the wallet's network.
  SegwitDests,   \* Strangers' bech32 addresses.
  Commands,      \* Runs of the program.
  Requests,      \* What a run may be asked: action, amount, dest.
  Deposits,      \* Coins strangers may pay in, each at most once.
  FeeRates,      \* FastestFee as a run may come to read it: 0 if the server
                 \* answers with an error, which GetRecommendedFees ignores.
  OutputSize,    \* OutputSize[d]: bytes of an output that pays stranger d.
  Savings        \* By how much the signatures of a transaction may be lighter
                 \* than their longest, 72 bytes each, in weight units.

(***************************************************************************)
(* A wallet is its four address maps and its network; import gives it none *)
(* of the two change maps, whatever it was exported from. A base58 address *)
(* is never a bech32 one. The coins are at the wallet's addresses.         *)
(***************************************************************************)
ASSUME SetupsAssumption ==
  \A s \in Setups :
    LET legacy == s.wallet.receiversLegacy \cup s.wallet.changeLegacy
        segwit == s.wallet.receiversSegwit \cup s.wallet.changeSegwit
    IN  /\ s.wallet.testnet \in BOOLEAN /\ s.wallet.imported \in BOOLEAN
        /\ s.wallet.imported => s.wallet.changeLegacy = {} /\ s.wallet.changeSegwit = {}
        /\ legacy \cap segwit = {}
        /\ \A coin \in s.coins : coin.addr \in legacy \cup segwit

ASSUME SpendingRequestsAssumption ==
  \A r \in Requests :
    /\ r.action \in {"load", "send-legacy", "send-segwit"}
    /\ r.amount \in Nat \ {0}
    /\ r.dest \in LegacyDests \cup SegwitDests

(***************************************************************************)
(* Runs and coins come to an end, and the id of a stranger's output is not *)
(* that of a change output, which is here the run it comes from.           *)
(***************************************************************************)
ASSUME CoinsAssumption ==
  /\ IsFiniteSet(Commands) /\ IsFiniteSet(Deposits)
  /\ \A s \in Setups :
       /\ IsFiniteSet(s.coins)
       /\ \A coin \in s.coins \cup Deposits : coin.value \in Nat /\ coin.id \notin Commands

ASSUME RatesAssumption == FeeRates \subseteq Nat /\ Savings \subseteq Nat /\ 0 \in Savings

(* P2SH and P2PKH; P2WPKH, and P2WSH or P2TR. *)
ASSUME OutputSizeAssumption ==
  /\ \A d \in LegacyDests : OutputSize[d] \in {32, 34}
  /\ \A d \in SegwitDests : OutputSize[d] \in {31, 43}

(* The fee of a send of as many coins as there can be. *)
MostCoins(s) == Cardinality(s.coins) + Cardinality(Deposits) + Cardinality(Commands)

LargestFee(s, rate) == (currentSize(MostCoins(s), 0) + changeOutputSize) * rate

(***************************************************************************)
(* An amount, its fee and any one coin are an int together: all there is   *)
(* of bitcoin is less than 2^51 satoshi. Amounts and rates for which the   *)
(* sums of selectInputs leave int are InputSelection's.                    *)
(***************************************************************************)
Fits(s, value) ==
  \A r \in Requests : \A rate \in FeeRates :
    r.amount + LargestFee(s, rate) + value <= MaxInt

ASSUME RangeAssumption ==
  \A s \in Setups : Fits(s, 0) /\ \A coin \in s.coins \cup Deposits : Fits(s, coin.value)

VARIABLES
  wallet,     \* The wallet on disk, the same for every run.
  unspent,    \* The chain: the wallet's coins.
  accepted,   \* The runs whose transaction the node has accepted.
  request,    \* request[c]: the flags c was given, never assigned.
  pc,         \* pc[c]: where c is, or how it ended.
  why,        \* why[c]: the error c ended with.
  toScan,     \* toScan[c]: addresses whose coins c has still to ask for.
  began,      \* began[c]: the chain when c began its present scan.
  balance,    \* balance[c]: sum of the values c has been told of (w.Balance).
  pool,       \* pool[c]: the coins c may choose from.
  feeRate,    \* feeRate[c]: FastestFee as c read it.
  tx          \* tx[c]: the transaction c has built.

chain == <<unspent, accepted>>
ends == <<pc, why>>
found == <<toScan, began, balance, pool, feeRate>>
given == <<wallet, request>>
vars == <<chain, given, ends, found, tx>>

legacyAddresses == wallet.receiversLegacy \cup wallet.changeLegacy
segwitAddresses == wallet.receiversSegwit \cup wallet.changeSegwit
allAddresses == legacyAddresses \cup segwitAddresses

Ended == {"ok", "failed", "crashed"}
Running == {"balance", "collecting", "fees", "building", "broadcasting", "replying"}

(***************************************************************************)
(* "rejected" and "status" are one error to the user: a response with an   *)
(* error status, which the node or something before it has written.        *)
(***************************************************************************)
Errors == {"none", "server", "insufficient", "noChangeAddress", "undecodable",
           "rejected", "status", "broadcast"}

isSend(c) == request[c].action # "load"
isSegwitSend(c) == request[c].action = "send-segwit"

(* The addresses a send spends from. *)
sourceAddresses(c) == IF isSegwitSend(c) THEN allAddresses ELSE legacyAddresses

TotalOf(coins) == MapThenSumSet(LAMBDA coin : coin.value, coins)

NoTx == [inputs |-> {}, change |-> 0, changeAddr |-> "", size |-> 0, saved |-> 0]

TypeOK ==
  /\ \A coin \in unspent : coin.value \in Nat /\ coin.addr \in allAddresses
  /\ accepted \subseteq {c \in Commands : isSend(c)}
  /\ request \in [Commands -> Requests]
  /\ pc \in [Commands -> {"idle"} \cup Running \cup Ended]
  /\ why \in [Commands -> Errors]
  /\ toScan \in [Commands -> SUBSET allAddresses]
  /\ balance \in [Commands -> Nat]
  /\ \A c \in Commands : \A coin \in pool[c] : coin.addr \in allAddresses
  /\ feeRate \in [Commands -> FeeRates \cup {0}]
  /\ \A c \in Commands : tx[c].change \in Nat /\ tx[c].saved \in Savings

Init ==
  /\ \E s \in Setups : wallet = s.wallet /\ unspent = s.coins
  /\ accepted = {}
  /\ request \in [Commands -> Requests]
  /\ pc = [c \in Commands |-> "idle"]
  /\ why = [c \in Commands |-> "none"]
  /\ toScan = [c \in Commands |-> {}]
  /\ began = [c \in Commands |-> chain]
  /\ balance = [c \in Commands |-> 0]
  /\ pool = [c \in Commands |-> {}]
  /\ feeRate = [c \in Commands |-> 0]
  /\ tx = [c \in Commands |-> NoTx]

Goto(c, where) == pc' = [pc EXCEPT ![c] = where] /\ UNCHANGED why

Fail(c, error) ==
  /\ pc' = [pc EXCEPT ![c] = "failed"]
  /\ why' = [why EXCEPT ![c] = error]

BeginScan(c, addresses) ==
  /\ toScan' = [toScan EXCEPT ![c] = addresses]
  /\ began' = [began EXCEPT ![c] = chain]

(* A stranger pays the wallet. *)
Deposit(coin) ==
  /\ coin.addr \in allAddresses
  /\ coin \notin unspent /\ \A c \in accepted : coin \notin tx[c].inputs
  /\ unspent' = unspent \cup {coin}
  /\ UNCHANGED <<accepted, given, ends, found, tx>>

(* Mutant of Start: the change addresses are left out of the balance. *)
StartReceiversOnly(c) ==
  /\ pc[c] = "idle"
  /\ Goto(c, "balance")
  /\ BeginScan(c, wallet.receiversLegacy \cup wallet.receiversSegwit)
  /\ UNCHANGED <<chain, given, balance, pool, feeRate, tx>>

(* LoadWallet has read the file and asks for the balance of all addresses. *)
Start(c) ==
  /\ pc[c] = "idle"
  /\ Goto(c, "balance")
  /\ BeginScan(c, allAddresses)
  /\ UNCHANGED <<chain, given, balance, pool, feeRate, tx>>

(***************************************************************************)
(* GetUTXOSetForAddress, for the next address a map iteration gives: any.  *)
(* The values come from the transactions themselves, which do not change.  *)
(***************************************************************************)
AskCoins(c, address) ==
  LET coins == {coin \in unspent : coin.addr = address}
  IN  /\ address \in toScan[c]
      /\ toScan' = [toScan EXCEPT ![c] = @ \ {address}]
      /\ \/ /\ pc[c] = "balance"
            /\ balance' = [balance EXCEPT ![c] = @ + TotalOf(coins)]
            /\ UNCHANGED pool
         \/ /\ pc[c] = "collecting"
            /\ pool' = [pool EXCEPT ![c] = @ \cup coins]
            /\ UNCHANGED balance
      /\ UNCHANGED <<chain, given, ends, began, feeRate, tx>>

(* A request for coins or for the fees is not answered: the run fails. *)
NoAnswer(c) ==
  /\ pc[c] \in {"balance", "collecting", "fees"}
  /\ Fail(c, "server")
  /\ UNCHANGED <<chain, given, found, tx>>

(***************************************************************************)
(* The balance is known: load prints it, a send goes on to buildInputs,    *)
(* which asks again for the coins of the addresses it may spend from and   *)
(* never looks at the balance.                                             *)
(***************************************************************************)
BalanceKnown(c) ==
  /\ pc[c] = "balance" /\ toScan[c] = {}
  /\ IF isSend(c)
     THEN /\ Goto(c, "collecting")
          /\ BeginScan(c, sourceAddresses(c))
          /\ balance' = [balance EXCEPT ![c] = 0]
     ELSE Goto(c, "ok") /\ UNCHANGED <<toScan, began, balance>>
  /\ UNCHANGED <<chain, given, pool, feeRate, tx>>

(* Mutant of CoinsKnown: an address that does not answer is passed over. *)
CoinsKnownEarly(c) ==
  /\ pc[c] = "collecting"
  /\ Goto(c, "fees")
  /\ UNCHANGED <<chain, given, found, tx>>

(* Every address has answered: collectUTXOs returns the pool. *)
CoinsKnown(c) ==
  /\ pc[c] = "collecting" /\ toScan[c] = {}
  /\ Goto(c, "fees")
  /\ UNCHANGED <<chain, given, found, tx>>

(* GetRecommendedFees. *)
AskFees(c) ==
  /\ pc[c] = "fees"
  /\ feeRate' \in {[feeRate EXCEPT ![c] = rate] : rate \in FeeRates}
  /\ Goto(c, "building")
  /\ UNCHANGED <<chain, given, toScan, began, balance, pool, tx>>

scriptTypeOf(address) == IF address \in segwitAddresses THEN "v0_p2wpkh" ELSE "p2pkh"

asUtxo(coin) ==
  [coin |-> coin, value |-> coin.value, scriptType |-> scriptTypeOf(coin.addr),
   validTxId |-> TRUE]

(* What selectInputs may return, over the orders the pool may be sorted in. *)
selections(c) ==
  {selectInputs(order, request[c].amount, feeRate[c]) :
     order \in {o \in SetToSeqs({asUtxo(coin) : coin \in pool[c]}) :
                  \A i, j \in DOMAIN o : i < j => ~Less(o[j], o[i])}}

(* Mutant of changeAddresses: either change map will do for either send. *)
changeAddressesOfAnyKind(c) ==
  IF wallet.imported THEN wallet.receiversLegacy \cup wallet.receiversSegwit
  ELSE wallet.changeLegacy \cup wallet.changeSegwit

(***************************************************************************)
(* randomChangeAddress: any address of the change map of the kind of send, *)
(* of the receivers' map if that one is nil; it fails if there is none.    *)
(***************************************************************************)
changeAddresses(c) ==
  IF isSegwitSend(c)
  THEN IF wallet.imported THEN wallet.receiversSegwit ELSE wallet.changeSegwit
  ELSE IF wallet.imported THEN wallet.receiversLegacy ELSE wallet.changeLegacy

(***************************************************************************)
(* DecodeAddress is always given the testnet's parameters: it reads the    *)
(* base58 addresses of that network and the bech32 addresses of any.       *)
(***************************************************************************)
decodes(address) == address \in SegwitDests \cup segwitAddresses \/ wallet.testnet

(***************************************************************************)
(* The transaction made of a selection: its outputs, the size selectInputs *)
(* has estimated it at, and what its signatures turn out to save.          *)
(***************************************************************************)
txOf(result, changeAddr, saved) ==
  [inputs     |-> {result.inputs[i].coin : i \in DOMAIN result.inputs},
   change     |-> result.change,
   changeAddr |-> changeAddr,
   size       |-> SizeOf(result.inputs)
                    + (IF result.change > 0 THEN changeOutputSize ELSE 0),
   saved      |-> saved]

(***************************************************************************)
(* selectInputs, randomChangeAddress, buildOutputs and the signatures. The *)
(* pool is GetInputs' own and is gone with it.                             *)
(***************************************************************************)
Build(c) ==
  /\ pc[c] = "building"
  /\ \E s \in selections(c) :
       \/ s.err # "nil" /\ Fail(c, s.err) /\ UNCHANGED tx
       \/ s.err = "nil" /\ changeAddresses(c) = {} /\ Fail(c, "noChangeAddress") /\ UNCHANGED tx
       \/ /\ s.err = "nil"
          /\ \E address \in changeAddresses(c) :
               IF decodes(request[c].dest) /\ (s.result.change > 0 => decodes(address))
               THEN /\ Goto(c, "broadcasting")
                    /\ \E saved \in Savings :
                         tx' = [tx EXCEPT ![c] = txOf(s.result, address, saved)]
               ELSE Fail(c, "undecodable") /\ UNCHANGED tx
  /\ pool' = [pool EXCEPT ![c] = {}]
  /\ UNCHANGED <<chain, given, toScan, began, balance, feeRate>>

(* Bytes of an output: a wallet's own are P2PKH and P2WPKH. *)
outputSizeOf(address) ==
  IF address \in segwitAddresses THEN 31
  ELSE IF address \in legacyAddresses THEN 34
  ELSE OutputSize[address]

(* The node's dust limit: three times the bytes of an output and its spending. *)
dustOf(address) ==
  3 * (outputSizeOf(address) +
         (IF address \in SegwitDests \cup segwitAddresses THEN 67 ELSE 148))

segwitInputs(c) == {coin \in tx[c].inputs : coin.addr \in segwitAddresses}
legacyInputs(c) == tx[c].inputs \ segwitInputs(c)

(* Bytes of the number of inputs. *)
countSize(n) == IF n < 253 THEN 1 ELSE IF n < 65536 THEN 3 ELSE 5

(***************************************************************************)
(* The weight of the bytes posted: four units for each byte outside the    *)
(* witnesses and one for each of theirs. With a segwit input there are a   *)
(* marker, a flag and a witness, if an empty one, for every input.         *)
(***************************************************************************)
weight(c) ==
  LET legacy  == Cardinality(legacyInputs(c))
      segwit  == Cardinality(segwitInputs(c))
      outputs == outputSizeOf(request[c].dest)
                   + (IF tx[c].change > 0 THEN outputSizeOf(tx[c].changeAddr) ELSE 0)
      bytes   == 9 + countSize(legacy + segwit) + 148 * legacy + 41 * segwit + outputs
      witness == IF segwit > 0 THEN 2 + legacy + 108 * segwit ELSE 0
  IN  4 * bytes + witness - tx[c].saved

paid(c) == TotalOf(tx[c].inputs) - request[c].amount - tx[c].change

(***************************************************************************)
(* The node: it accepts a transaction whose inputs are unspent, that pays  *)
(* one satoshi per vbyte, four units of weight, and has no output below    *)
(* the dust limit.                                                         *)
(***************************************************************************)
belowPolicy(c) ==
  \/ 4 * paid(c) < weight(c)
  \/ request[c].amount < dustOf(request[c].dest)
  \/ tx[c].change > 0 /\ tx[c].change < dustOf(tx[c].changeAddr)

valid(c) == tx[c].inputs \subseteq unspent /\ ~belowPolicy(c)

Broadcast(c) ==
  /\ pc[c] = "broadcasting" /\ valid(c)
  /\ accepted' = accepted \cup {c}
  /\ unspent' = (unspent \ tx[c].inputs) \cup
                  (IF tx[c].change > 0
                   THEN {[id |-> c, addr |-> tx[c].changeAddr, value |-> tx[c].change]}
                   ELSE {})
  /\ Goto(c, "replying")
  /\ UNCHANGED <<given, found, tx>>

(* Mutant of NodeRejects: the status of the response is not looked at. *)
NodeRejectsUnnoticed(c) ==
  /\ pc[c] = "broadcasting" /\ ~valid(c)
  /\ Goto(c, "ok")
  /\ UNCHANGED <<chain, given, found, tx>>

(* The node's reason comes back with an error status and is passed on. *)
NodeRejects(c) ==
  /\ pc[c] = "broadcasting" /\ ~valid(c)
  /\ Fail(c, "rejected")
  /\ UNCHANGED <<chain, given, found, tx>>

(* The transaction id comes back. *)
Reply(c) ==
  /\ pc[c] = "replying"
  /\ Goto(c, "ok")
  /\ UNCHANGED <<chain, given, found, tx>>

(***************************************************************************)
(* The POST or its reply is lost, or an error status comes from something  *)
(* else than the node's verdict: a proxy, a limit of requests. The run     *)
(* cannot tell whether the node has the transaction.                       *)
(***************************************************************************)
NoReply(c) ==
  /\ pc[c] \in {"broadcasting", "replying"}
  /\ \E error \in {"broadcast", "status"} : Fail(c, error)
  /\ UNCHANGED <<chain, given, found, tx>>

(* Killed, or ended by a panic. *)
Crash(c) ==
  /\ pc[c] \in Running
  /\ Goto(c, "crashed")
  /\ UNCHANGED <<chain, given, found, tx>>

Step(c) ==
  \/ Start(c) \/ (\E address \in allAddresses : AskCoins(c, address)) \/ NoAnswer(c)
  \/ BalanceKnown(c) \/ CoinsKnown(c) \/ AskFees(c) \/ Build(c)
  \/ Broadcast(c) \/ NodeRejects(c) \/ Reply(c) \/ NoReply(c) \/ Crash(c)

(* Every run has ended. *)
AllEnded == (\A c \in Commands : pc[c] \in Ended) /\ UNCHANGED vars

Next == (\E c \in Commands : Step(c)) \/ (\E coin \in Deposits : Deposit(coin)) \/ AllEnded

Spec == Init /\ [][Next]_vars
-----------------------------------------------------------------------------
(***************************************************************************)
(* Properties. A scan is quiet if nothing has happened on the chain since  *)
(* it began.                                                               *)
(***************************************************************************)
quiet(c) == began[c] = chain

(* What spending these coins takes at a rate, for an amount. *)
coversCost(coins, amount, rate) ==
  LET segwit == {coin \in coins : coin.addr \in segwitAddresses}
  IN  TotalOf(coins) >=
        amount + rate * currentSize(Cardinality(coins \ segwit), Cardinality(segwit))

(* The coins spent since the present scan began. *)
spentSince(c) == UNION {tx[d].inputs : d \in accepted \ began[c][2]}

(***************************************************************************)
(* Each address is asked for separately, in any order, while the chain     *)
(* moves: still no coin that stayed is left out of the balance, and none   *)
(* is counted twice or was not the wallet's during the scan. If nothing    *)
(* moved, the balance is what the wallet owns.                             *)
(***************************************************************************)
BalanceBracketed ==
  \A c \in Commands :
    pc[c] = "balance" /\ toScan[c] = {} =>
      /\ TotalOf(began[c][1] \cap unspent) <= balance[c]
      /\ balance[c] <= TotalOf(unspent \cup spentSince(c))

(***************************************************************************)
(* "ok" is said of transactions the node has accepted only, and a run that *)
(* fails has paid nothing, unless the broadcast is what failed without the *)
(* node's verdict: only then is the chain to be looked at before a retry.  *)
(***************************************************************************)
OutcomeHonest ==
  \A c \in Commands :
    /\ isSend(c) /\ pc[c] = "ok" => c \in accepted
    /\ pc[c] = "failed" /\ why[c] \notin {"broadcast", "status"} => c \notin accepted

(***************************************************************************)
(* The wallet loses value only to a transaction it has built, and then     *)
(* what was asked for, a fee at the rate read for the size estimated, and  *)
(* at most the price of one change output that was not worth its while.    *)
(***************************************************************************)
LossExplained ==
  [][TotalOf(unspent') < TotalOf(unspent) =>
       \E c \in accepted' \ accepted :
         LET fee == TotalOf(unspent) - TotalOf(unspent') - request[c].amount
         IN  /\ fee >= tx[c].size * feeRate[c]
             /\ fee <= (tx[c].size + changeOutputSize) * feeRate[c]]_vars

(***************************************************************************)
(* The change of a send is the wallet's, at an address that a later send   *)
(* of the same kind spends from.                                           *)
(***************************************************************************)
ChangeSpendable ==
  \A c \in accepted :
    tx[c].change > 0 =>
      /\ tx[c].changeAddr \in sourceAddresses(c)
      /\ isSegwitSend(c) <=> tx[c].changeAddr \in segwitAddresses

(***************************************************************************)
(* Where selectInputs may put a size below that of the bytes posted: an    *)
(* output longer than a P2PKH one, 253 inputs or more, and the marker, the *)
(* flag and the empty witnesses of a transaction with a segwit input, when *)
(* no P2WPKH output makes up for them, or too many legacy inputs have one. *)
(***************************************************************************)
underestimated(c) ==
  \/ outputSizeOf(request[c].dest) > 34
  \/ Cardinality(tx[c].inputs) >= 253
  \/ /\ segwitInputs(c) # {}
     /\ \/ tx[c].change = 0 /\ outputSizeOf(request[c].dest) > 31
        \/ Cardinality(legacyInputs(c)) > 10

(***************************************************************************)
(* The node has no reason to reject a transaction built from a quiet scan, *)
(* but an amount or a change below the dust limit (the program checks      *)
(* neither), a rate of less than one, or a rate of one and one of the      *)
(* sizes above: whatever the transaction, what it pays covers the bytes    *)
(* posted in all other cases, and its inputs are there.                    *)
(***************************************************************************)
QuietRejection ==
  \A c \in Commands :
    why[c] = "rejected" /\ quiet(c) =>
      \/ feeRate[c] < 1
      \/ feeRate[c] = 1 /\ underestimated(c)
      \/ request[c].amount < dustOf(request[c].dest)
      \/ tx[c].change \in 1 .. dustOf(tx[c].changeAddr) - 1

(***************************************************************************)
(* "insufficient funds" overlooks no coin that was at the addresses the    *)
(* send may spend from all the time, whatever else came and went: no       *)
(* choice of them covers a send of legacy coins, and if nothing came and   *)
(* went, all of them together do not cover a send of either kind.          *)
(***************************************************************************)
NoCoinOverlooked ==
  \A c \in Commands :
    why[c] = "insufficient" =>
      LET stayed == {coin \in began[c][1] \cap unspent : coin.addr \in sourceAddresses(c)}
          covered(coins) == coversCost(coins, request[c].amount, feeRate[c])
      IN  /\ ~isSegwitSend(c) => \A choice \in SUBSET stayed : ~covered(choice)
          /\ quiet(c) => ~covered(stayed)

(***************************************************************************)
(* What TODO.md says of networks: mainnet is an option as testnet is. The  *)
(* destination is on the wallet's network, so it decodes, and so does the  *)
(* change address. A mainnet wallet and a base58 address refute it.        *)
(***************************************************************************)
AddressesDecode == \A c \in Commands : why[c] # "undecodable"
=============================================================================
