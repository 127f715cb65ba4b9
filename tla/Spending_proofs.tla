--------------------------- MODULE Spending_proofs ---------------------------
(***************************************************************************)
(* What Spending promises, proved for any number of runs, wallets, coins,  *)
(* rates and interleavings. The outcome of a send and its change rest on   *)
(* IInv; what is said of sums of coins (balance, loss, rejections and      *)
(* refusals) rests on SInv, which relates what a run has found to the      *)
(* chain when it looked, and on the arithmetic of CoinSelection_proofs.    *)
(***************************************************************************)
EXTENDS Spending, CoinSelection_proofs

(* Where a run is before the node can have seen its transaction. *)
Unsent == {"idle", "balance", "collecting", "fees", "building", "broadcasting"}

(***************************************************************************)
(* The part of the types the proofs need: the wallet is one of those it    *)
(* may be, and what is kept for each run is a function on the runs.        *)
(***************************************************************************)
ShapeInv ==
  /\ wallet \in {s.wallet : s \in Setups}
  /\ request \in [Commands -> Requests]
  /\ pc \in [Commands -> {"idle"} \cup Running \cup Ended]
  /\ why = [c \in Commands |-> why[c]]
  /\ tx = [c \in Commands |-> tx[c]]
  /\ accepted \subseteq Commands

(***************************************************************************)
(* OutcomeHonest says nothing of a run that has not ended. It is kept      *)
(* because the node has the transaction of a run that waits for the reply, *)
(* and of no run that is at an earlier place.                              *)
(***************************************************************************)
HonestAt(c) ==
  /\ pc[c] \in Unsent => c \notin accepted
  /\ pc[c] = "replying" => c \in accepted
  /\ isSend(c) /\ pc[c] = "ok" => c \in accepted
  /\ pc[c] = "failed" /\ why[c] \notin {"broadcast", "status"} => c \notin accepted

(***************************************************************************)
(* The change address is fixed when the transaction is built, which is     *)
(* before it is sent, and is not touched from then on.                     *)
(***************************************************************************)
ChangeAt(c) ==
  pc[c] = "broadcasting" \/ c \in accepted => tx[c].changeAddr \in changeAddresses(c)

RunInv(c) == HonestAt(c) /\ ChangeAt(c)

IInv == ShapeInv /\ \A c \in Commands : RunInv(c)

(* The change address of either kind of send is one that this send spends from. *)
LEMMA ChangeAddressesAreSources ==
  ASSUME ShapeInv, NEW c \in Commands, NEW address \in changeAddresses(c)
  PROVE  /\ address \in sourceAddresses(c)
         /\ isSegwitSend(c) <=> address \in segwitAddresses
<1>1. PICK s \in Setups : wallet = s.wallet
  BY DEF ShapeInv
<1>2. legacyAddresses \cap segwitAddresses = {}
  BY <1>1, SetupsAssumption DEF legacyAddresses, segwitAddresses
<1>3. CASE isSegwitSend(c)
  BY <1>3 DEF changeAddresses, sourceAddresses, allAddresses, segwitAddresses
<1>4. CASE ~isSegwitSend(c)
  <2>1. address \in legacyAddresses
    BY <1>4 DEF changeAddresses, legacyAddresses
  <2> QED
    BY <1>2, <1>4, <2>1 DEF sourceAddresses
<1> QED
  BY <1>3, <1>4

(***************************************************************************)
(* A step of c that moves it to another place and leaves the node and the  *)
(* transactions alone keeps the invariant if it keeps it of c itself.      *)
(***************************************************************************)
LEMMA MoveKeeps ==
  ASSUME IInv, NEW c \in Commands,
         NEW where \in {"idle"} \cup Running \cup Ended, NEW error,
         pc' = [pc EXCEPT ![c] = where],
         why' = [why EXCEPT ![c] = error] \/ UNCHANGED why,
         UNCHANGED <<accepted, given, tx>>,
         HonestAt(c)', where = "broadcasting" => pc[c] = "broadcasting"
  PROVE  IInv'
<1>1. ShapeInv'
  BY DEF IInv, ShapeInv, given
<1>2. ASSUME NEW d \in Commands PROVE RunInv(d)'
  <2>1. HonestAt(d)'
    BY <1>2 DEF IInv, RunInv, ShapeInv, HonestAt, isSend, given
  <2>2. ChangeAt(d)'
    BY <1>2 DEF IInv, RunInv, ShapeInv, ChangeAt, changeAddresses, isSegwitSend, given
  <2> QED
    BY <2>1, <2>2 DEF RunInv
<1> QED
  BY <1>1, <1>2 DEF IInv

(* A step that touches no run's place, error or transaction keeps the invariant. *)
LEMMA StillKeeps ==
  ASSUME IInv, UNCHANGED <<accepted, given, ends, tx>>
  PROVE  IInv'
BY DEF IInv, ShapeInv, RunInv, HonestAt, ChangeAt, changeAddresses, isSend,
       isSegwitSend, given, ends

(* The initial states: nothing has been sent. *)
LEMMA InitInv == Init => IInv
BY DEF Init, IInv, ShapeInv, RunInv, HonestAt, ChangeAt, Unsent, Running, Ended

(* Only Build fixes a change address: it is one changeAddresses offers. *)
LEMMA BuildKeeps ==
  ASSUME IInv, NEW c \in Commands, Build(c)
  PROVE  IInv'
<1>1. /\ pc[c] = "building" /\ c \notin accepted
      /\ UNCHANGED <<accepted, given>>
  BY DEF Build, IInv, RunInv, HonestAt, Unsent, chain
<1>2. \/ \E error : Fail(c, error) /\ UNCHANGED tx
      \/ /\ Goto(c, "broadcasting")
         /\ \E address \in changeAddresses(c) : \E r, w : tx' = [tx EXCEPT ![c] = txOf(r, address, w)]
  <2>1. PICK s \in selections(c) :
          \/ s.err # "nil" /\ Fail(c, s.err) /\ UNCHANGED tx
          \/ s.err = "nil" /\ changeAddresses(c) = {} /\ Fail(c, "noChangeAddress") /\ UNCHANGED tx
          \/ /\ s.err = "nil"
             /\ \E address \in changeAddresses(c) :
                  IF decodes(request[c].dest) /\ (s.result.change > 0 => decodes(address))
                  THEN /\ Goto(c, "broadcasting")
                       /\ \E saved \in Savings :
                            tx' = [tx EXCEPT ![c] = txOf(s.result, address, saved)]
                  ELSE Fail(c, "undecodable") /\ UNCHANGED tx
    BY DEF Build
  <2>2. CASE s.err # "nil" /\ Fail(c, s.err) /\ UNCHANGED tx
    BY <2>2
  <2>3. CASE s.err = "nil" /\ changeAddresses(c) = {} /\ Fail(c, "noChangeAddress") /\ UNCHANGED tx
    BY <2>3
  <2>4. CASE /\ s.err = "nil"
             /\ \E address \in changeAddresses(c) :
                  IF decodes(request[c].dest) /\ (s.result.change > 0 => decodes(address))
                  THEN /\ Goto(c, "broadcasting")
                       /\ \E saved \in Savings :
                            tx' = [tx EXCEPT ![c] = txOf(s.result, address, saved)]
                  ELSE Fail(c, "undecodable") /\ UNCHANGED tx
    BY <2>4
  <2> QED
    BY <2>1, <2>2, <2>3, <2>4
<1>3. CASE \E error : Fail(c, error) /\ UNCHANGED tx
  <2>1. PICK error : Fail(c, error) /\ UNCHANGED tx
    BY <1>3
  <2>2. HonestAt(c)'
    BY <1>1, <2>1 DEF Fail, HonestAt, IInv, ShapeInv, Unsent
  <2> QED
    BY <1>1, <2>1, <2>2, MoveKeeps DEF Fail, Ended
<1>4. CASE /\ Goto(c, "broadcasting")
           /\ \E address \in changeAddresses(c) : \E r, w : tx' = [tx EXCEPT ![c] = txOf(r, address, w)]
  <2>1. PICK address \in changeAddresses(c) : \E r, w : tx' = [tx EXCEPT ![c] = txOf(r, address, w)]
    BY <1>4
  <2>2. tx'[c].changeAddr = address
    BY <2>1 DEF txOf, IInv, ShapeInv
  <2>3. ShapeInv'
    BY <1>1, <1>4, <2>1 DEF IInv, ShapeInv, Goto, given, Running
  <2>4. ASSUME NEW d \in Commands PROVE HonestAt(d)'
    BY <1>1, <1>4, <2>4 DEF IInv, ShapeInv, RunInv, HonestAt, Goto, isSend, given
  <2>5. ASSUME NEW d \in Commands PROVE ChangeAt(d)'
    <3>1. changeAddresses(d)' = changeAddresses(d)
      BY <1>1 DEF changeAddresses, isSegwitSend, given
    <3>2. CASE d = c
      BY <2>2, <3>1, <3>2 DEF ChangeAt
    <3>3. CASE d # c
      BY <1>1, <1>4, <2>1, <2>5, <3>1, <3>3 DEF IInv, ShapeInv, RunInv, ChangeAt, Goto
    <3> QED
      BY <3>2, <3>3
  <2> QED
    BY <2>3, <2>4, <2>5 DEF IInv, RunInv
<1> QED
  BY <1>2, <1>3, <1>4

(* The node takes a transaction: its run waits for the reply from then on. *)
LEMMA BroadcastKeeps ==
  ASSUME IInv, NEW c \in Commands, Broadcast(c)
  PROVE  IInv'
<1>1. /\ pc[c] = "broadcasting" /\ Goto(c, "replying")
      /\ accepted' = accepted \cup {c} /\ UNCHANGED <<given, tx>>
  BY DEF Broadcast
<1>2. ShapeInv'
  BY <1>1 DEF IInv, ShapeInv, Goto, given, Running
<1>3. ASSUME NEW d \in Commands PROVE HonestAt(d)'
  BY <1>1, <1>3 DEF IInv, ShapeInv, RunInv, HonestAt, Goto, isSend, given, Unsent
<1>4. ASSUME NEW d \in Commands PROVE ChangeAt(d)'
  BY <1>1, <1>4 DEF IInv, ShapeInv, RunInv, ChangeAt, Goto, changeAddresses, isSegwitSend, given
<1> QED
  BY <1>2, <1>3, <1>4 DEF IInv, RunInv

(* Every step keeps the invariant: those of a run, a stranger's payment, the end. *)
LEMMA NextInv == IInv /\ [Next]_vars => IInv'
<1> SUFFICES ASSUME IInv, [Next]_vars PROVE IInv'
  OBVIOUS
<1>1. ASSUME NEW c \in Commands, Start(c) PROVE IInv'
  <2>1. HonestAt(c)'
    BY <1>1 DEF Start, Goto, HonestAt, IInv, RunInv, ShapeInv, Unsent, chain
  <2> QED
    BY <1>1, <2>1, MoveKeeps DEF Start, Goto, Running, chain
<1>2. ASSUME NEW c \in Commands, NEW address \in allAddresses, AskCoins(c, address) PROVE IInv'
  BY <1>2, StillKeeps DEF AskCoins, chain
<1>3. ASSUME NEW c \in Commands, NoAnswer(c) PROVE IInv'
  <2>1. HonestAt(c)'
    BY <1>3 DEF NoAnswer, Fail, HonestAt, IInv, RunInv, ShapeInv, Unsent, chain
  <2> QED
    BY <1>3, <2>1, MoveKeeps DEF NoAnswer, Fail, Ended, chain
<1>4. ASSUME NEW c \in Commands, BalanceKnown(c) PROVE IInv'
  <2>1. CASE isSend(c)
    <3>1. HonestAt(c)'
      BY <1>4, <2>1 DEF BalanceKnown, Goto, HonestAt, IInv, RunInv, ShapeInv, Unsent, chain
    <3> QED
      BY <1>4, <2>1, <3>1, MoveKeeps DEF BalanceKnown, Goto, Running, chain
  <2>2. CASE ~isSend(c)
    <3>1. HonestAt(c)'
      BY <1>4, <2>2 DEF BalanceKnown, Goto, HonestAt, IInv, RunInv, ShapeInv, Unsent, chain, isSend, given
    <3> QED
      BY <1>4, <2>2, <3>1, MoveKeeps DEF BalanceKnown, Goto, Ended, chain
  <2> QED
    BY <2>1, <2>2
<1>5. ASSUME NEW c \in Commands, CoinsKnown(c) PROVE IInv'
  <2>1. HonestAt(c)'
    BY <1>5 DEF CoinsKnown, Goto, HonestAt, IInv, RunInv, ShapeInv, Unsent, chain
  <2> QED
    BY <1>5, <2>1, MoveKeeps DEF CoinsKnown, Goto, Running, chain
<1>6. ASSUME NEW c \in Commands, AskFees(c) PROVE IInv'
  <2>1. HonestAt(c)'
    BY <1>6 DEF AskFees, Goto, HonestAt, IInv, RunInv, ShapeInv, Unsent, chain
  <2> QED
    BY <1>6, <2>1, MoveKeeps DEF AskFees, Goto, Running, chain
<1>7. ASSUME NEW c \in Commands, NodeRejects(c) PROVE IInv'
  <2>1. HonestAt(c)'
    BY <1>7 DEF NodeRejects, Fail, HonestAt, IInv, RunInv, ShapeInv, Unsent, chain
  <2> QED
    BY <1>7, <2>1, MoveKeeps DEF NodeRejects, Fail, Ended, chain
<1>8. ASSUME NEW c \in Commands, Reply(c) PROVE IInv'
  <2>1. HonestAt(c)'
    BY <1>8 DEF Reply, Goto, HonestAt, IInv, RunInv, ShapeInv, Unsent, chain
  <2> QED
    BY <1>8, <2>1, MoveKeeps DEF Reply, Goto, Ended, chain
<1>9. ASSUME NEW c \in Commands, NoReply(c) PROVE IInv'
  <2>1. PICK error \in {"broadcast", "status"} : Fail(c, error)
    BY <1>9 DEF NoReply
  <2>2. HonestAt(c)'
    BY <1>9, <2>1 DEF NoReply, Fail, HonestAt, IInv, ShapeInv, Unsent, chain
  <2> QED
    BY <1>9, <2>1, <2>2, MoveKeeps DEF NoReply, Fail, Ended, chain
<1>10. ASSUME NEW c \in Commands, Crash(c) PROVE IInv'
  <2>1. HonestAt(c)'
    BY <1>10 DEF Crash, Goto, HonestAt, IInv, ShapeInv, Unsent, chain
  <2> QED
    BY <1>10, <2>1, MoveKeeps DEF Crash, Goto, Ended, chain
<1>11. ASSUME NEW coin \in Deposits, Deposit(coin) PROVE IInv'
  BY <1>11, StillKeeps DEF Deposit
<1>12. CASE UNCHANGED vars
  BY <1>12, StillKeeps DEF vars, chain
<1> QED
  BY <1>1, <1>2, <1>3, <1>4, <1>5, <1>6, <1>7, <1>8, <1>9, <1>10, <1>11, <1>12,
     BuildKeeps, BroadcastKeeps DEF Next, Step, AllEnded

(* The invariant holds of every behaviour. *)
LEMMA IInvAlways == Spec => []IInv
BY InitInv, NextInv, PTL DEF Spec

(***************************************************************************)
(* However many runs spend the same wallet, whatever is lost or killed:    *)
(* "ok" is said of transactions the node has accepted only, and a failed   *)
(* run has paid nothing unless the broadcast is what failed, without the   *)
(* node's verdict.                                                         *)
(***************************************************************************)
THEOREM OutcomeAlwaysHonest == Spec => []OutcomeHonest
<1>1. IInv => OutcomeHonest
  BY DEF IInv, RunInv, HonestAt, OutcomeHonest
<1> QED
  BY <1>1, IInvAlways, PTL

(***************************************************************************)
(* The change of every transaction the node has accepted is at an address  *)
(* of the wallet that a later send of the same kind spends from, for       *)
(* wallets created and wallets imported.                                   *)
(***************************************************************************)
THEOREM ChangeIsSpendable == Spec => []ChangeSpendable
<1>1. IInv => ChangeSpendable
  <2> SUFFICES ASSUME IInv, NEW c \in accepted, tx[c].change > 0
               PROVE  /\ tx[c].changeAddr \in sourceAddresses(c)
                      /\ isSegwitSend(c) <=> tx[c].changeAddr \in segwitAddresses
    BY DEF ChangeSpendable
  <2>1. c \in Commands /\ tx[c].changeAddr \in changeAddresses(c)
    BY DEF IInv, ShapeInv, RunInv, ChangeAt
  <2> QED
    BY <2>1, ChangeAddressesAreSources DEF IInv
<1> QED
  BY <1>1, IInvAlways, PTL
-----------------------------------------------------------------------------
(***************************************************************************)
(* The second invariant, SInv. It is about one setup s, the one that the   *)
(* behaviour began with: no step changes which.                            *)
(***************************************************************************)

(* Coins at some addresses, as the server would report them now. *)
coinsAt(addresses) == {coin \in unspent : coin.addr \in addresses}

(* The output that pays a transaction's change back. *)
changeCoin(d) == [id |-> d, addr |-> tx[d].changeAddr, value |-> tx[d].change]

(* Every coin there has been: finitely many, as there are runs and deposits. *)
Ever(s) == s.coins \cup Deposits \cup {changeCoin(d) : d \in accepted}

(* A value as a coin of the wallet may have it. *)
Worth(s, value) == value \in Nat /\ Fits(s, value)

(***************************************************************************)
(* The chain: coins there have been, at the wallet's addresses, and worth  *)
(* no more than fits; what sends have got into it came from sends.         *)
(***************************************************************************)
ChainInv(s) ==
  /\ wallet = s.wallet
  /\ unspent \subseteq Ever(s)
  /\ \A coin \in unspent : coin.addr \in allAddresses
  /\ \A d \in accepted : isSend(d) /\ Worth(s, tx[d].change) /\ tx[d].inputs \subseteq Ever(s)

(* What is kept for each run is a function on the runs. *)
FoundShape ==
  /\ toScan = [c \in Commands |-> toScan[c]]
  /\ began = [c \in Commands |-> began[c]]
  /\ balance = [c \in Commands |-> balance[c]]
  /\ pool = [c \in Commands |-> pool[c]]
  /\ feeRate = [c \in Commands |-> feeRate[c]]

(* What a run keeps, in itself. *)
KeptAt(s, c) ==
  /\ why[c] \in Errors
  /\ toScan[c] \subseteq allAddresses
  /\ balance[c] \in Nat
  /\ pool[c] \subseteq Ever(s) /\ \A coin \in pool[c] : coin.addr \in allAddresses
  /\ feeRate[c] \in FeeRates \cup {0}
  /\ tx[c].change \in Nat /\ tx[c].saved \in Savings

(* What goes with the place a run is at. *)
PlaceAt(c) ==
  /\ pc[c] \in {"collecting", "fees", "building", "broadcasting", "replying"} => isSend(c)
  /\ pc[c] = "collecting" => toScan[c] \subseteq sourceAddresses(c)
  /\ pc[c] \in {"fees", "building"} => toScan[c] = {}
  /\ pc[c] = "building" => feeRate[c] \in FeeRates
  /\ pc[c] \in {"idle", "balance"} => pool[c] = {}
  /\ pc[c] \in {"collecting", "fees", "building"} =>
       \A coin \in pool[c] : coin.addr \in sourceAddresses(c)
  /\ pc[c] = "idle" => balance[c] = 0
  /\ pc[c] # "failed" => why[c] = "none"

(***************************************************************************)
(* The chain never comes back to an earlier state: transactions only       *)
(* accumulate, and what was there is there still or is one's input. This   *)
(* is why a scan that is quiet at its end has been quiet all along, and    *)
(* why a coin that is there at both ends of a scan was so all along.       *)
(***************************************************************************)
BeganAt(c) ==
  /\ began[c] = <<began[c][1], began[c][2]>>
  /\ began[c][2] \subseteq accepted
  /\ began[c][1] \subseteq unspent \cup spentSince(c)

(* The coins that have been there since the scan began. *)
staying(c) == began[c][1] \cap unspent

(* The coins of a balance: those that stayed, and none that was not there. *)
Counted(c, coins) ==
  /\ coins \subseteq unspent \cup spentSince(c)
  /\ \A coin \in coins : coin.addr \notin toScan[c]
  /\ \A coin \in staying(c) : coin.addr \notin toScan[c] => coin \in coins
  /\ balance[c] = TotalOf(coins)

(* What a scan has found, whatever the chain did meanwhile. *)
FoundAt(c) ==
  /\ pc[c] = "balance" => \E coins : Counted(c, coins)
  /\ pc[c] \in {"collecting", "fees", "building"} =>
       \A coin \in staying(c) : coin.addr \in sourceAddresses(c) \ toScan[c] => coin \in pool[c]

(* A rejection with nothing to blame on other runs or strangers. *)
RejectionTrue(c) ==
  \/ feeRate[c] < 1
  \/ feeRate[c] = 1 /\ underestimated(c)
  \/ request[c].amount < dustOf(request[c].dest)
  \/ tx[c].change \in 1 .. dustOf(tx[c].changeAddr) - 1

(* A refusal that overlooks no coin. *)
RefusalTrue(c) ==
  LET stayed == {coin \in began[c][1] \cap unspent : coin.addr \in sourceAddresses(c)}
      covered(coins) == coversCost(coins, request[c].amount, feeRate[c])
  IN  /\ ~isSegwitSend(c) => \A choice \in SUBSET stayed : ~covered(choice)
      /\ quiet(c) => ~covered(stayed)

(* What a quiet run knows of the chain. *)
QuietAt(c) ==
  quiet(c) =>
    /\ pc[c] \in {"collecting", "fees", "building"} =>
         pool[c] = coinsAt(sourceAddresses(c) \ toScan[c])
    /\ pc[c] = "broadcasting" => tx[c].inputs \subseteq unspent
    /\ why[c] = "rejected" => RejectionTrue(c)

(* Segwit coins, and what a transaction of some coins is estimated at. *)
segwitOf(coins) == {coin \in coins : coin.addr \in segwitAddresses}

estimate(t) ==
  currentSize(Cardinality(t.inputs \ segwitOf(t.inputs)), Cardinality(segwitOf(t.inputs)))
    + (IF t.change > 0 THEN changeOutputSize ELSE 0)

(* A transaction on its way balances: its inputs are its outputs and its fee. *)
BuiltAt(s, c) ==
  pc[c] = "broadcasting" =>
    /\ tx[c].inputs \subseteq Ever(s) /\ Worth(s, tx[c].change)
    /\ \A coin \in tx[c].inputs : coin.addr \in sourceAddresses(c)
    /\ tx[c].size = estimate(tx[c])
    /\ paid(c) >= tx[c].size * feeRate[c]
    /\ paid(c) <= (tx[c].size + changeOutputSize) * feeRate[c]

ScanInv(s, c) ==
  /\ KeptAt(s, c) /\ PlaceAt(c) /\ BeganAt(c) /\ FoundAt(c) /\ QuietAt(c) /\ BuiltAt(s, c)
  /\ why[c] = "insufficient" => RefusalTrue(c)

SInv(s) == ChainInv(s) /\ FoundShape /\ \A c \in Commands : ScanInv(s, c)

-----------------------------------------------------------------------------
(* Finitely many coins, of values that are not negative: TotalOf is a sum over them. *)
Priced(coins) == IsFiniteSet(coins) /\ \A coin \in coins : coin.value \in Nat

ValuesIn(coins) == [coin \in coins |-> coin.value]

(* TotalOf is the sum of the values. *)
LEMMA TotalIsSum ==
  ASSUME NEW coins, NEW f, \A coin \in coins : f[coin] = coin.value
  PROVE  TotalOf(coins) = SumOver(f, coins)
<1>1. \A s \in SUBSET coins : s # {} => f[pick(s)] = pick(s).value
  BY PickType
<1> DEFINE body(g) == [s \in SUBSET coins |->
                        IF s = {} THEN 0 ELSE pick(s).value + g[s \ {pick(s)}]]
<1>2. TotalOf(coins) = (CHOOSE g : g = body(g))[coins]
  BY DEF TotalOf, MapThenSumSet, MapThenFoldSet, pick
<1>3. \A g : g = body(g) <=> Sums(f, coins, g)
  BY <1>1 DEF Sums
<1> HIDE DEF body
<1> QED
  BY <1>2, <1>3 DEF SumOver

(* A total is a natural number. *)
LEMMA TotalType ==
  ASSUME NEW coins, Priced(coins)
  PROVE  TotalOf(coins) \in Nat
<1> DEFINE f == ValuesIn(coins)
<1>1. IsFiniteSet(coins) /\ \A coin \in coins : f[coin] = coin.value /\ f[coin] \in Nat
  BY DEF Priced, ValuesIn
<1> HIDE DEF f
<1>2. TotalOf(coins) = SumOver(f, coins)
  BY <1>1, TotalIsSum
<1>3. SumOver(f, coins) \in Nat
  BY <1>1, SumType
<1> QED
  BY <1>2, <1>3

(* The total of the coins of two sets that share none. *)
LEMMA TotalUnion ==
  ASSUME NEW S, Priced(S), NEW T, Priced(T), S \cap T = {}
  PROVE  Priced(S \cup T) /\ TotalOf(S \cup T) = TotalOf(S) + TotalOf(T)
<1> DEFINE f == ValuesIn(S \cup T)
<1>1. /\ IsFiniteSet(S) /\ IsFiniteSet(T) /\ \A coin \in S \cup T : f[coin] = coin.value
      /\ \A coin \in S \cup T : f[coin] \in Int /\ coin.value \in Nat
  BY DEF Priced, ValuesIn
<1> HIDE DEF f
<1>2. TotalOf(S) = SumOver(f, S) /\ TotalOf(T) = SumOver(f, T)
  BY <1>1, TotalIsSum
<1>3. TotalOf(S \cup T) = SumOver(f, S \cup T)
  BY <1>1, TotalIsSum
<1>4. SumOver(f, S \cup T) = SumOver(f, S) + SumOver(f, T)
  BY <1>1, SumUnion
<1>5. Priced(S \cup T)
  BY <1>1, FS_Union DEF Priced
<1> QED
  BY <1>2, <1>3, <1>4, <1>5

(* The total of some of the coins and of the rest of them. *)
LEMMA TotalSplit ==
  ASSUME NEW S, Priced(S), NEW T \in SUBSET S
  PROVE  /\ Priced(T) /\ Priced(S \ T)
         /\ TotalOf(S) = TotalOf(T) + TotalOf(S \ T)
         /\ TotalOf(T) \in Nat /\ TotalOf(S \ T) \in Nat
<1>1. Priced(T) /\ Priced(S \ T)
  BY FS_Subset DEF Priced
<1>2. T \cup (S \ T) = S /\ T \cap (S \ T) = {}
  OBVIOUS
<1>3. TotalOf(S) = TotalOf(T) + TotalOf(S \ T)
  BY <1>1, <1>2, TotalUnion
<1> QED
  BY <1>1, <1>3, TotalType

(* The total of no coins and of one. *)
LEMMA TotalOfFew ==
  /\ TotalOf({}) = 0
  /\ \A coin : coin.value \in Nat => Priced({coin}) /\ TotalOf({coin}) = coin.value
<1>1. TotalOf({}) = 0
  <2>1. TotalOf({}) = SumOver(ValuesIn({}), {})
    BY TotalIsSum
  <2> QED
    BY <2>1, SumEmpty
<1>2. ASSUME NEW coin, coin.value \in Nat
      PROVE  Priced({coin}) /\ TotalOf({coin}) = coin.value
  <2> DEFINE f == ValuesIn({coin})
  <2>1. f[coin] = coin.value /\ IsFiniteSet({coin}) /\ {coin} \ {coin} = {}
    BY FS_Singleton DEF ValuesIn
  <2> HIDE DEF f
  <2>2. TotalOf({coin}) = SumOver(f, {coin})
    BY <2>1, TotalIsSum
  <2>3. SumOver(f, {coin}) = f[coin] + SumOver(f, {})
    <3>1. \A y \in {coin} : f[y] \in Int
      BY <1>2, <2>1
    <3>2. SumOver(f, {coin}) = f[coin] + SumOver(f, {coin} \ {coin})
      BY <2>1, <3>1, SumRemove
    <3> QED
      BY <2>1, <3>2
  <2>4. SumOver(f, {}) = 0
    BY SumEmpty
  <2> QED
    BY <1>2, <2>1, <2>2, <2>3, <2>4 DEF Priced
<1> QED
  BY <1>1, <1>2
-----------------------------------------------------------------------------
(* All coins there have been: how many, what they are worth, whose change they are. *)
LEMMA EverBounded ==
  ASSUME NEW s \in Setups, IInv, ChainInv(s)
  PROVE  /\ Priced(Ever(s)) /\ Cardinality(Ever(s)) <= MostCoins(s) /\ MostCoins(s) \in Nat
         /\ \A coin \in Ever(s) : Worth(s, coin.value)
         /\ \A coin \in Ever(s) : coin.id \in Commands => coin.id \in accepted
<1> DEFINE old == s.coins \cup Deposits
           new == {changeCoin(d) : d \in accepted}
<1>1. IsFiniteSet(s.coins) /\ IsFiniteSet(Deposits) /\ IsFiniteSet(Commands) /\ accepted \subseteq Commands
  BY CoinsAssumption DEF IInv, ShapeInv
<1>2. \A coin \in old : Worth(s, coin.value) /\ coin.id \notin Commands
  BY CoinsAssumption, RangeAssumption DEF Worth
<1>3. \A coin \in new : Worth(s, coin.value) /\ coin.id \in accepted
  BY DEF changeCoin, ChainInv
<1>4. IsFiniteSet(new) /\ Cardinality(new) <= Cardinality(Commands)
  <2>1. IsFiniteSet(accepted) /\ Cardinality(accepted) <= Cardinality(Commands)
    BY <1>1, FS_Subset
  <2>2. [d \in accepted |-> changeCoin(d)] \in Surjection(accepted, new)
    BY DEF Surjection
  <2> HIDE DEF new
  <2>3. IsFiniteSet(new) /\ Cardinality(new) <= Cardinality(accepted)
    BY <2>1, <2>2, FS_Surjection
  <2>4. Cardinality(new) \in Nat /\ Cardinality(accepted) \in Nat /\ Cardinality(Commands) \in Nat
    BY <1>1, <2>1, <2>3, FS_CardinalityType
  <2> QED
    BY <2>1, <2>3, <2>4
<1>5. IsFiniteSet(old) /\ Cardinality(old) <= Cardinality(s.coins) + Cardinality(Deposits)
  <2>1. /\ IsFiniteSet(old)
        /\ Cardinality(old) = Cardinality(s.coins) + Cardinality(Deposits)
                                - Cardinality(s.coins \cap Deposits)
    BY <1>1, FS_Union
  <2>2. IsFiniteSet(s.coins \cap Deposits)
    BY <1>1, FS_Intersection
  <2>3. /\ Cardinality(s.coins) \in Nat /\ Cardinality(Deposits) \in Nat
        /\ Cardinality(s.coins \cap Deposits) \in Nat
    BY <1>1, <2>2, FS_CardinalityType
  <2> HIDE DEF old
  <2> QED
    BY <2>1, <2>3
<1>6. Ever(s) = old \cup new
  BY DEF Ever
<1> HIDE DEF old, new
<1>7. IsFiniteSet(Ever(s)) /\ Cardinality(Ever(s)) <= MostCoins(s) /\ MostCoins(s) \in Nat
  <2>1. /\ IsFiniteSet(old \cup new)
        /\ Cardinality(old \cup new) = Cardinality(old) + Cardinality(new) - Cardinality(old \cap new)
    BY <1>4, <1>5, FS_Union
  <2>2. IsFiniteSet(old \cap new)
    BY <1>4, <1>5, FS_Intersection
  <2>3. /\ Cardinality(s.coins) \in Nat /\ Cardinality(Deposits) \in Nat
        /\ Cardinality(Commands) \in Nat /\ Cardinality(old) \in Nat
        /\ Cardinality(new) \in Nat /\ Cardinality(old \cap new) \in Nat
    BY <1>1, <1>4, <1>5, <2>2, FS_CardinalityType
  <2> QED
    BY <1>4, <1>5, <1>6, <2>1, <2>3 DEF MostCoins
<1> QED
  BY <1>2, <1>3, <1>6, <1>7 DEF Priced, Worth

(* What is there, and what was spent during a scan, are such coins. *)
LEMMA PricedChain ==
  ASSUME NEW s \in Setups, IInv, SInv(s), NEW c \in Commands
  PROVE  /\ unspent \cup spentSince(c) \subseteq Ever(s) /\ Priced(Ever(s))
         /\ Priced(unspent \cup spentSince(c))
<1>1. Priced(Ever(s)) /\ ChainInv(s)
  BY EverBounded DEF SInv
<1>2. unspent \cup spentSince(c) \subseteq Ever(s)
  BY <1>1 DEF ChainInv, spentSince
<1> QED
  BY <1>1, <1>2, TotalSplit

(* Nothing a step does to a run. *)
Same(d) ==
  /\ pc'[d] = pc[d] /\ why'[d] = why[d] /\ tx'[d] = tx[d]
  /\ toScan'[d] = toScan[d] /\ began'[d] = began[d]
  /\ balance'[d] = balance[d] /\ pool'[d] = pool[d] /\ feeRate'[d] = feeRate[d]

(* A run that a step leaves alone, with the chain, keeps its part of the invariant. *)
LEMMA OthersKeep ==
  ASSUME NEW s \in Setups, NEW d \in Commands, ScanInv(s, d), Same(d),
         UNCHANGED <<chain, given>>, Ever(s) \subseteq Ever(s)', \A e \in accepted : tx'[e] = tx[e]
  PROVE  ScanInv(s, d)'
<1>1. /\ UNCHANGED wallet /\ UNCHANGED request /\ UNCHANGED unspent /\ UNCHANGED accepted
      /\ UNCHANGED chain
  BY DEF chain, given
<1>2. KeptAt(s, d)'
  BY <1>1 DEF ScanInv, KeptAt, Same, allAddresses, legacyAddresses, segwitAddresses
<1>3. PlaceAt(d)'
  BY <1>1 DEF ScanInv, PlaceAt, Same, isSend, sourceAddresses, isSegwitSend, allAddresses,
       legacyAddresses, segwitAddresses
<1>4. spentSince(d)' = spentSince(d)
  BY <1>1 DEF spentSince, Same
<1>5. BeganAt(d)'
  BY <1>1, <1>4 DEF ScanInv, BeganAt, Same
<1>6. sourceAddresses(d)' = sourceAddresses(d) /\ isSegwitSend(d)' = isSegwitSend(d)
      /\ segwitAddresses' = segwitAddresses /\ legacyAddresses' = legacyAddresses
  BY <1>1 DEF sourceAddresses, isSegwitSend, allAddresses, legacyAddresses, segwitAddresses
<1>7. FoundAt(d)'
  <2>1. \A coins : Counted(d, coins) => Counted(d, coins)'
    BY <1>1, <1>4 DEF Counted, staying, Same
  <2> QED
    BY <1>1, <1>6, <2>1 DEF ScanInv, FoundAt, staying, Same
<1>8. QuietAt(d)'
  <2>1. RejectionTrue(d) => RejectionTrue(d)'
    BY <1>1, <1>6 DEF Same, RejectionTrue, underestimated, dustOf, outputSizeOf, segwitInputs,
         legacyInputs
  <2> QED
    BY <1>1, <1>6, <2>1 DEF ScanInv, QuietAt, quiet, Same, coinsAt
<1>9. RefusalTrue(d) => RefusalTrue(d)'
  BY <1>1, <1>6 DEF RefusalTrue, quiet, Same, coversCost
<1>10. BuiltAt(s, d)'
  BY <1>1, <1>6 DEF ScanInv, BuiltAt, Same, paid, estimate, segwitOf
<1> QED
  BY <1>2, <1>3, <1>5, <1>7, <1>8, <1>9, <1>10 DEF ScanInv, Same

(***************************************************************************)
(* A step of c that leaves the chain and the other runs alone keeps the    *)
(* invariant if it keeps it of c. It may rebuild the transaction of a run  *)
(* that the node has accepted none of.                                     *)
(***************************************************************************)
LEMMA OwnStep ==
  ASSUME NEW s \in Setups, IInv, SInv(s), NEW c \in Commands,
         UNCHANGED <<chain, given>>, FoundShape',
         \A d \in Commands \ {c} : Same(d),
         tx'[c] = tx[c] \/ c \notin accepted,
         Ever(s)' = Ever(s) => ScanInv(s, c)'
  PROVE  SInv(s)'
<1>1. UNCHANGED wallet /\ UNCHANGED request /\ UNCHANGED unspent /\ UNCHANGED accepted
      /\ accepted \subseteq Commands
  BY DEF chain, given, IInv, ShapeInv
<1>2. \A d \in accepted : tx'[d] = tx[d]
  BY <1>1 DEF Same
<1>3. Ever(s)' = Ever(s)
  <2>1. \A d \in accepted : changeCoin(d)' = changeCoin(d)
    BY <1>2 DEF changeCoin
  <2>2. {changeCoin(d) : d \in accepted}' = {changeCoin(d) : d \in accepted}
    BY <1>1, <2>1
  <2> QED
    BY <2>2 DEF Ever
<1>4. ChainInv(s)'
  BY <1>1, <1>2, <1>3 DEF SInv, ChainInv, allAddresses, legacyAddresses, segwitAddresses, isSend
<1>5. ASSUME NEW d \in Commands PROVE ScanInv(s, d)'
  <2>1. CASE d = c
    BY <1>3, <2>1
  <2>2. CASE d # c
    BY <1>2, <1>3, <2>2, OthersKeep DEF SInv
  <2> QED
    BY <2>1, <2>2
<1> QED
  BY <1>4, <1>5 DEF SInv

(* A step that changes no more than the place and the error of c. *)
LEMMA PlaceStep ==
  ASSUME NEW s \in Setups, IInv, SInv(s), NEW c \in Commands,
         UNCHANGED <<chain, given, found, tx>>,
         NEW where, NEW error, pc' = [pc EXCEPT ![c] = where],
         why' = [why EXCEPT ![c] = error] \/ UNCHANGED why,
         Ever(s)' = Ever(s) => ScanInv(s, c)'
  PROVE  SInv(s)'
<1>1. \A d \in Commands \ {c} : Same(d)
  BY DEF IInv, ShapeInv, found, Same
<1>2. FoundShape'
  BY DEF SInv, FoundShape, found
<1> QED
  BY <1>1, <1>2, OwnStep

(* The end of a run, with an error or without one. *)
LEMMA EndKeeps ==
  ASSUME NEW s \in Setups, IInv, SInv(s), NEW c \in Commands,
         UNCHANGED <<chain, given, found, tx>>,
         NEW where \in Ended, NEW error \in Errors \ {"insufficient"},
         pc' = [pc EXCEPT ![c] = where], why'[c] = error,
         why' = [why EXCEPT ![c] = error] \/ UNCHANGED why,
         where # "failed" => error = "none",
         error = "rejected" /\ quiet(c) => RejectionTrue(c)
  PROVE  SInv(s)'
<1> SUFFICES ASSUME Ever(s)' = Ever(s) PROVE ScanInv(s, c)'
  BY PlaceStep
<1>1. /\ UNCHANGED wallet /\ UNCHANGED request /\ UNCHANGED unspent /\ UNCHANGED accepted
      /\ UNCHANGED chain /\ UNCHANGED tx /\ UNCHANGED toScan /\ UNCHANGED began
      /\ UNCHANGED balance /\ UNCHANGED pool /\ UNCHANGED feeRate
      /\ pc'[c] = where /\ why'[c] = error
  BY DEF chain, given, found, IInv, ShapeInv
<1>2. KeptAt(s, c) /\ BeganAt(c)
  BY DEF SInv, ScanInv
<1>3. KeptAt(s, c)'
  BY <1>1, <1>2 DEF KeptAt, allAddresses, legacyAddresses, segwitAddresses
<1>4. PlaceAt(c)'
  BY <1>1 DEF PlaceAt, Ended
<1>5. BeganAt(c)'
  BY <1>1, <1>2 DEF BeganAt, spentSince
<1>6. QuietAt(c)'
  <2>1. RejectionTrue(c)' <=> RejectionTrue(c)
    BY <1>1 DEF RejectionTrue, underestimated, dustOf, outputSizeOf, segwitInputs, legacyInputs,
         segwitAddresses, legacyAddresses
  <2>2. quiet(c)' <=> quiet(c)
    BY <1>1 DEF quiet
  <2> QED
    BY <1>1, <2>1, <2>2 DEF QuietAt, Ended
<1>7. BuiltAt(s, c)' /\ FoundAt(c)'
  BY <1>1 DEF BuiltAt, FoundAt, Ended
<1> QED
  BY <1>1, <1>3, <1>4, <1>5, <1>6, <1>7 DEF ScanInv

(* The run is loaded: it asks for the coins of every address. *)
LEMMA StartScan ==
  ASSUME NEW s \in Setups, IInv, SInv(s), NEW c \in Commands, Start(c)
  PROVE  SInv(s)'
<1>1. /\ UNCHANGED wallet /\ UNCHANGED request /\ UNCHANGED unspent /\ UNCHANGED accepted
      /\ UNCHANGED chain /\ UNCHANGED tx /\ UNCHANGED balance /\ UNCHANGED pool /\ UNCHANGED feeRate
      /\ UNCHANGED why /\ UNCHANGED given
      /\ pc[c] = "idle" /\ pc' = [pc EXCEPT ![c] = "balance"]
      /\ toScan' = [toScan EXCEPT ![c] = allAddresses] /\ began' = [began EXCEPT ![c] = chain]
  BY DEF Start, chain, given, Goto, BeginScan
<1>2. /\ pc'[c] = "balance" /\ toScan'[c] = allAddresses /\ began'[c] = chain
      /\ allAddresses' = allAddresses
  BY <1>1 DEF IInv, ShapeInv, SInv, FoundShape, allAddresses, legacyAddresses, segwitAddresses
<1>3. KeptAt(s, c) /\ PlaceAt(c) /\ why[c] = "none" /\ balance[c] = 0 /\ pool[c] = {}
  BY <1>1 DEF SInv, ScanInv, PlaceAt
<1> SUFFICES ASSUME Ever(s)' = Ever(s) PROVE ScanInv(s, c)'
  <2>1. \A d \in Commands \ {c} : Same(d)
    BY <1>1 DEF IInv, ShapeInv, SInv, FoundShape, Same
  <2>2. FoundShape'
    BY <1>1 DEF SInv, FoundShape
  <2> QED
    BY <1>1, <2>1, <2>2, OwnStep
<1>4. KeptAt(s, c)'
  BY <1>1, <1>2, <1>3 DEF KeptAt
<1>5. PlaceAt(c)'
  BY <1>1, <1>2, <1>3 DEF PlaceAt
<1>6. BeganAt(c)'
  BY <1>1, <1>2 DEF BeganAt, chain
<1>7. FoundAt(c)'
  <2>1. \A coin \in unspent : coin.addr \in allAddresses
    BY DEF SInv, ChainInv
  <2>2. Counted(c, {})'
    BY <1>1, <1>2, <1>3, <2>1, TotalOfFew DEF Counted, staying
  <2> QED
    BY <1>2, <2>2 DEF FoundAt
<1>8. QuietAt(c)' /\ BuiltAt(s, c)' /\ why'[c] = "none"
  BY <1>1, <1>2, <1>3 DEF QuietAt, BuiltAt
<1> QED
  BY <1>4, <1>5, <1>6, <1>7, <1>8 DEF ScanInv

(* The balance is known; a send begins the scan for its inputs. *)
LEMMA BalanceKnownScan ==
  ASSUME NEW s \in Setups, IInv, SInv(s), NEW c \in Commands, BalanceKnown(c)
  PROVE  SInv(s)'
<1>1. /\ UNCHANGED wallet /\ UNCHANGED request /\ UNCHANGED unspent /\ UNCHANGED accepted
      /\ UNCHANGED chain /\ UNCHANGED tx /\ UNCHANGED pool /\ UNCHANGED feeRate
      /\ UNCHANGED why /\ UNCHANGED given
      /\ pc[c] = "balance"
  BY DEF BalanceKnown, chain, given, Goto
<1>2. KeptAt(s, c) /\ PlaceAt(c) /\ why[c] = "none" /\ pool[c] = {}
  BY <1>1 DEF SInv, ScanInv, PlaceAt
<1>3. CASE ~isSend(c)
  <2>1. pc' = [pc EXCEPT ![c] = "ok"] /\ UNCHANGED found
    BY <1>1, <1>3 DEF BalanceKnown, Goto, found
  <2> QED
    BY <1>1, <1>2, <2>1, EndKeeps DEF Ended, Errors
<1>4. CASE isSend(c)
  <2>1. /\ pc' = [pc EXCEPT ![c] = "collecting"]
        /\ toScan' = [toScan EXCEPT ![c] = sourceAddresses(c)]
        /\ began' = [began EXCEPT ![c] = chain]
        /\ balance' = [balance EXCEPT ![c] = 0]
    BY <1>4 DEF BalanceKnown, Goto, BeginScan
  <2>2. /\ pc'[c] = "collecting" /\ toScan'[c] = sourceAddresses(c) /\ began'[c] = chain
        /\ balance'[c] = 0
    BY <2>1 DEF IInv, ShapeInv, SInv, FoundShape
  <2>3. allAddresses' = allAddresses /\ sourceAddresses(c)' = sourceAddresses(c)
        /\ sourceAddresses(c) \subseteq allAddresses
    BY <1>1 DEF allAddresses, legacyAddresses, segwitAddresses, sourceAddresses, isSegwitSend
  <2> SUFFICES ASSUME Ever(s)' = Ever(s) PROVE ScanInv(s, c)'
    <3>1. \A d \in Commands \ {c} : Same(d)
      BY <1>1, <2>1 DEF IInv, ShapeInv, SInv, FoundShape, Same
    <3>2. FoundShape'
      BY <1>1, <2>1 DEF SInv, FoundShape
    <3> QED
      BY <1>1, <3>1, <3>2, OwnStep
  <2>4. KeptAt(s, c)'
    BY <1>1, <1>2, <2>2, <2>3 DEF KeptAt
  <2>5. PlaceAt(c)'
    BY <1>1, <1>2, <1>4, <2>2, <2>3 DEF PlaceAt, isSend
  <2>6. BeganAt(c)'
    BY <1>1, <2>2 DEF BeganAt, chain
  <2>7. FoundAt(c)' /\ why'[c] = "none"
    BY <1>1, <1>2, <2>2, <2>3 DEF FoundAt
  <2>8. QuietAt(c)'
    <3>1. coinsAt(sourceAddresses(c) \ toScan[c])' = {}
      BY <2>2, <2>3 DEF coinsAt
    <3> QED
      BY <1>1, <1>2, <2>2, <3>1 DEF QuietAt
  <2>9. BuiltAt(s, c)'
    BY <2>2 DEF BuiltAt
  <2> QED
    BY <2>4, <2>5, <2>6, <2>7, <2>8, <2>9 DEF ScanInv
<1> QED
  BY <1>3, <1>4

(* An address answers: its coins are added to what is known of the others. *)
LEMMA AskCoinsScan ==
  ASSUME NEW s \in Setups, IInv, SInv(s), NEW c \in Commands,
         NEW address \in allAddresses, AskCoins(c, address)
  PROVE  SInv(s)'
<1> DEFINE coins == coinsAt({address})
           left == toScan[c] \ {address}
<1>1. /\ UNCHANGED wallet /\ UNCHANGED request /\ UNCHANGED unspent /\ UNCHANGED accepted
      /\ UNCHANGED chain /\ UNCHANGED tx /\ UNCHANGED feeRate
      /\ UNCHANGED pc /\ UNCHANGED why /\ UNCHANGED given /\ UNCHANGED began
      /\ address \in toScan[c]
      /\ toScan' = [toScan EXCEPT ![c] = left]
      /\ \/ /\ pc[c] = "balance" /\ UNCHANGED pool
            /\ balance' = [balance EXCEPT ![c] = @ + TotalOf(coins)]
         \/ /\ pc[c] = "collecting" /\ UNCHANGED balance
            /\ pool' = [pool EXCEPT ![c] = @ \cup coins]
  <2>1. coins = {coin \in unspent : coin.addr = address}
    BY DEF coinsAt
  <2> QED
    BY <2>1 DEF AskCoins, chain, given, ends
<1> HIDE DEF coins, left
<1>2. KeptAt(s, c) /\ PlaceAt(c) /\ BeganAt(c) /\ QuietAt(c) /\ FoundAt(c)
  BY <1>1 DEF SInv, ScanInv
<1>3. /\ toScan'[c] = left
      /\ pc[c] = "balance" => balance'[c] = balance[c] + TotalOf(coins) /\ pool'[c] = pool[c]
      /\ pc[c] = "collecting" => pool'[c] = pool[c] \cup coins /\ balance'[c] = balance[c]
      /\ pc[c] = "balance" \/ pc[c] = "collecting"
  BY <1>1 DEF SInv, FoundShape
<1>4. Priced(unspent) /\ unspent \subseteq Ever(s) /\ coins \subseteq unspent
      /\ \A coin \in unspent : coin.addr \in allAddresses
  <2>1. ChainInv(s)
    BY DEF SInv
  <2>2. Priced(Ever(s)) /\ unspent \subseteq Ever(s)
    BY <2>1, EverBounded DEF ChainInv
  <2>3. coins \subseteq unspent
    BY DEF coins, coinsAt
  <2> QED
    BY <2>1, <2>2, <2>3, TotalSplit DEF ChainInv
<1>5. TotalOf(coins) \in Nat
  BY <1>4, TotalSplit
<1>6. allAddresses' = allAddresses /\ sourceAddresses(c)' = sourceAddresses(c)
  BY <1>1 DEF allAddresses, legacyAddresses, segwitAddresses, sourceAddresses, isSegwitSend
<1>7. \A addresses : coinsAt(addresses)' = coinsAt(addresses)
  BY <1>1 DEF coinsAt
<1> SUFFICES ASSUME Ever(s)' = Ever(s) PROVE ScanInv(s, c)'
  <2>1. \A d \in Commands \ {c} : Same(d)
    BY <1>1 DEF SInv, FoundShape, Same
  <2>2. FoundShape'
    BY <1>1 DEF SInv, FoundShape
  <2> QED
    BY <1>1, <2>1, <2>2, OwnStep
<1>8. KeptAt(s, c)'
  <2>1. toScan'[c] \subseteq allAddresses
    BY <1>2, <1>3 DEF KeptAt, left
  <2>2. balance'[c] \in Nat
    BY <1>2, <1>3, <1>5 DEF KeptAt
  <2>3. pool'[c] \subseteq Ever(s) /\ \A coin \in pool'[c] : coin.addr \in allAddresses
    BY <1>2, <1>3, <1>4 DEF KeptAt
  <2> QED
    BY <1>1, <1>2, <1>6, <2>1, <2>2, <2>3 DEF KeptAt
<1>9. PlaceAt(c)' /\ why'[c] = "none"
  <2>1. pc[c] = "collecting" => \A coin \in pool'[c] : coin.addr \in sourceAddresses(c)
    BY <1>1, <1>2, <1>3 DEF PlaceAt, coins, coinsAt
  <2> QED
    BY <1>1, <1>2, <1>3, <1>6, <2>1 DEF PlaceAt, isSend, left
<1>10. BeganAt(c)' /\ spentSince(c)' = spentSince(c) /\ staying(c)' = staying(c)
  BY <1>1, <1>2 DEF BeganAt, spentSince, staying
<1>11. FoundAt(c)'
  <2>1. CASE pc[c] = "balance"
    <3>1. PICK before : Counted(c, before)
      BY <1>2, <2>1 DEF FoundAt
    <3> DEFINE now == before \cup coins
    <3>2. now \subseteq unspent \cup spentSince(c) /\ \A coin \in now : coin.addr \notin left
      BY <1>1, <1>4, <3>1 DEF Counted, left, coins, coinsAt
    <3>3. \A coin \in staying(c) : coin.addr \notin left => coin \in now
      BY <3>1 DEF Counted, left, staying, coins, coinsAt
    <3>4. TotalOf(now) = TotalOf(before) + TotalOf(coins)
      <4>1. unspent \cup spentSince(c) \subseteq Ever(s) /\ Priced(Ever(s))
        BY <1>2, <1>4, PricedChain
      <4>2. before \subseteq Ever(s) /\ coins \subseteq Ever(s)
        BY <1>4, <3>1, <4>1 DEF Counted
      <4>3. Priced(before) /\ Priced(coins)
        BY <4>1, <4>2, TotalSplit
      <4>4. before \cap coins = {}
        BY <1>1, <3>1 DEF Counted, coins, coinsAt
      <4> QED
        BY <4>3, <4>4, TotalUnion
    <3> HIDE DEF now
    <3>5. balance'[c] = TotalOf(now)
      BY <1>3, <2>1, <3>1, <3>4 DEF Counted
    <3>6. ASSUME NEW result, result = now PROVE Counted(c, result)'
      BY <1>1, <1>3, <1>10, <3>2, <3>3, <3>5, <3>6 DEF Counted
    <3> QED
      BY <1>1, <2>1, <3>6 DEF FoundAt
  <2>2. CASE pc[c] = "collecting"
    <3>1. \A coin \in staying(c) : coin.addr \in sourceAddresses(c) \ left => coin \in pool'[c]
      BY <1>2, <1>3, <2>2 DEF FoundAt, left, staying, coins, coinsAt
    <3> QED
      BY <1>1, <1>3, <1>6, <1>10, <2>2, <3>1 DEF FoundAt
  <2> QED
    BY <1>3, <2>1, <2>2
<1>12. QuietAt(c)'
  <2> SUFFICES ASSUME quiet(c), pc[c] = "collecting"
               PROVE  pool'[c] = coinsAt(sourceAddresses(c) \ left)
    <3>1. coinsAt(sourceAddresses(c) \ toScan[c])' = coinsAt(sourceAddresses(c) \ left)
      BY <1>1, <1>3, <1>6 DEF coinsAt
    <3>2. quiet(c)' => quiet(c)
      BY <1>1 DEF quiet, chain
    <3> QED
      BY <1>1, <1>3, <1>9, <3>1, <3>2 DEF QuietAt
  <2>1. pool[c] = coinsAt(sourceAddresses(c) \ toScan[c])
    BY <1>2 DEF QuietAt
  <2>2. address \in sourceAddresses(c)
    BY <1>1, <1>2 DEF PlaceAt
  <2> QED
    BY <1>1, <1>3, <2>1, <2>2 DEF left, coins, coinsAt
<1>13. BuiltAt(s, c)'
  BY <1>1, <1>3 DEF BuiltAt
<1> QED
  BY <1>8, <1>9, <1>10, <1>11, <1>12, <1>13 DEF ScanInv

(* All addresses have answered: the scan is over, and what it found stands. *)
LEMMA CoinsKnownScan ==
  ASSUME NEW s \in Setups, IInv, SInv(s), NEW c \in Commands, CoinsKnown(c)
  PROVE  SInv(s)'
<1>1. /\ UNCHANGED wallet /\ UNCHANGED request /\ UNCHANGED unspent /\ UNCHANGED accepted
      /\ UNCHANGED chain /\ UNCHANGED tx /\ UNCHANGED toScan /\ UNCHANGED began
      /\ UNCHANGED balance /\ UNCHANGED pool /\ UNCHANGED feeRate /\ UNCHANGED why
      /\ UNCHANGED given /\ UNCHANGED found
      /\ pc[c] = "collecting" /\ toScan[c] = {} /\ pc' = [pc EXCEPT ![c] = "fees"]
  BY DEF CoinsKnown, chain, given, found, Goto
<1>2. pc'[c] = "fees"
  BY <1>1 DEF IInv, ShapeInv
<1>3. ScanInv(s, c) /\ why[c] = "none"
  BY <1>1 DEF SInv, ScanInv, PlaceAt
<1> SUFFICES ASSUME Ever(s)' = Ever(s) PROVE ScanInv(s, c)'
  BY <1>1, PlaceStep
<1>4. KeptAt(s, c)'
  BY <1>1, <1>3 DEF ScanInv, KeptAt, allAddresses, legacyAddresses, segwitAddresses
<1>5. PlaceAt(c)'
  BY <1>1, <1>2, <1>3 DEF ScanInv, PlaceAt, isSend, sourceAddresses, isSegwitSend, allAddresses,
       legacyAddresses, segwitAddresses
<1>6. BeganAt(c)'
  BY <1>1, <1>3 DEF ScanInv, BeganAt, spentSince
<1>7. QuietAt(c)'
  <2>1. quiet(c)' => quiet(c)
    BY <1>1 DEF quiet, chain
  <2>2. coinsAt(sourceAddresses(c) \ toScan[c])' = coinsAt(sourceAddresses(c) \ toScan[c])
    BY <1>1 DEF coinsAt, sourceAddresses, isSegwitSend, allAddresses, legacyAddresses, segwitAddresses
  <2> QED
    BY <1>1, <1>2, <1>3, <2>1, <2>2 DEF ScanInv, QuietAt
<1>8. BuiltAt(s, c)' /\ why'[c] = "none"
  BY <1>1, <1>2, <1>3 DEF BuiltAt
<1>9. FoundAt(c)'
  BY <1>1, <1>2, <1>3 DEF ScanInv, FoundAt, staying, sourceAddresses, isSegwitSend, allAddresses,
     legacyAddresses, segwitAddresses
<1> QED
  BY <1>4, <1>5, <1>6, <1>7, <1>8, <1>9 DEF ScanInv

(* The fees are known. *)
LEMMA AskFeesScan ==
  ASSUME NEW s \in Setups, IInv, SInv(s), NEW c \in Commands, AskFees(c)
  PROVE  SInv(s)'
<1>1. /\ UNCHANGED wallet /\ UNCHANGED request /\ UNCHANGED unspent /\ UNCHANGED accepted
      /\ UNCHANGED chain /\ UNCHANGED tx /\ UNCHANGED toScan /\ UNCHANGED began
      /\ UNCHANGED balance /\ UNCHANGED pool /\ UNCHANGED why /\ UNCHANGED given
      /\ pc[c] = "fees" /\ pc' = [pc EXCEPT ![c] = "building"]
      /\ \E rate \in FeeRates : feeRate' = [feeRate EXCEPT ![c] = rate]
  BY DEF AskFees, chain, given, Goto
<1>2. pc'[c] = "building" /\ feeRate'[c] \in FeeRates
  BY <1>1 DEF IInv, ShapeInv, SInv, FoundShape
<1>3. ScanInv(s, c) /\ why[c] = "none"
  BY <1>1 DEF SInv, ScanInv, PlaceAt
<1> SUFFICES ASSUME Ever(s)' = Ever(s) PROVE ScanInv(s, c)'
  <2>1. \A d \in Commands \ {c} : Same(d)
    BY <1>1 DEF IInv, ShapeInv, SInv, FoundShape, Same
  <2>2. FoundShape'
    BY <1>1 DEF SInv, FoundShape
  <2> QED
    BY <1>1, <2>1, <2>2, OwnStep
<1>4. KeptAt(s, c)'
  BY <1>1, <1>2, <1>3 DEF ScanInv, KeptAt, allAddresses, legacyAddresses, segwitAddresses
<1>5. PlaceAt(c)'
  BY <1>1, <1>2, <1>3 DEF ScanInv, PlaceAt, isSend, sourceAddresses, isSegwitSend, allAddresses,
       legacyAddresses, segwitAddresses
<1>6. BeganAt(c)'
  BY <1>1, <1>3 DEF ScanInv, BeganAt, spentSince
<1>7. QuietAt(c)'
  <2>1. quiet(c)' => quiet(c)
    BY <1>1 DEF quiet, chain
  <2>2. coinsAt(sourceAddresses(c) \ toScan[c])' = coinsAt(sourceAddresses(c) \ toScan[c])
    BY <1>1 DEF coinsAt, sourceAddresses, isSegwitSend, allAddresses, legacyAddresses, segwitAddresses
  <2> QED
    BY <1>1, <1>2, <1>3, <2>1, <2>2 DEF ScanInv, QuietAt
<1>8. BuiltAt(s, c)' /\ why'[c] = "none"
  BY <1>1, <1>2, <1>3 DEF BuiltAt
<1>9. FoundAt(c)'
  BY <1>1, <1>2, <1>3 DEF ScanInv, FoundAt, staying, sourceAddresses, isSegwitSend, allAddresses,
     legacyAddresses, segwitAddresses
<1> QED
  BY <1>4, <1>5, <1>6, <1>7, <1>8, <1>9 DEF ScanInv

(***************************************************************************)
(* The chain moves under a run that does nothing itself, or that waits for *)
(* a reply from now on: it is no longer quiet, and the rest stands.        *)
(***************************************************************************)
LEMMA ChainMoves ==
  ASSUME NEW s \in Setups, NEW d \in Commands, ScanInv(s, d), UNCHANGED given,
         UNCHANGED <<found, tx, why>>,
         pc'[d] = pc[d] \/ (pc[d] = "broadcasting" /\ pc'[d] = "replying"),
         BeganAt(d)', ~quiet(d)', Ever(s) \subseteq Ever(s)', staying(d)' \subseteq staying(d),
         unspent \cup spentSince(d) \subseteq unspent' \cup spentSince(d)'
  PROVE  ScanInv(s, d)'
<1>1. /\ UNCHANGED wallet /\ UNCHANGED request /\ UNCHANGED tx /\ UNCHANGED toScan
      /\ UNCHANGED balance /\ UNCHANGED pool /\ UNCHANGED why /\ UNCHANGED feeRate
      /\ UNCHANGED began
  BY DEF given, found
<1>2. KeptAt(s, d)'
  BY <1>1 DEF ScanInv, KeptAt, allAddresses, legacyAddresses, segwitAddresses
<1>3. sourceAddresses(d)' = sourceAddresses(d) /\ segwitAddresses' = segwitAddresses
      /\ (isSegwitSend(d)' <=> isSegwitSend(d))
  BY <1>1 DEF sourceAddresses, isSegwitSend, allAddresses, legacyAddresses, segwitAddresses
<1>4. PlaceAt(d)'
  BY <1>1, <1>3 DEF ScanInv, PlaceAt, isSend
<1>5. QuietAt(d)'
  BY DEF QuietAt
<1>6. FoundAt(d)'
  <2>1. \A coins : Counted(d, coins) => Counted(d, coins)'
    BY <1>1 DEF Counted
  <2> QED
    BY <1>1, <1>3, <2>1 DEF ScanInv, FoundAt
<1>7. why'[d] = "insufficient" => RefusalTrue(d)'
  <2> SUFFICES ASSUME RefusalTrue(d) PROVE RefusalTrue(d)'
    BY <1>1 DEF ScanInv
  <2>1. \A coin : coin \in began'[d][1] /\ coin \in unspent' => coin \in began[d][1] /\ coin \in unspent
    BY DEF staying
  <2> DEFINE before == {coin \in began[d][1] \cap unspent : coin.addr \in sourceAddresses(d)}
             after == {coin \in began'[d][1] \cap unspent' : coin.addr \in sourceAddresses(d)'}
  <2>2. after \subseteq before
    BY <1>3, <2>1
  <2>3. \A coins : coversCost(coins, request[d].amount, feeRate[d])' <=>
                     coversCost(coins, request[d].amount, feeRate[d])
    BY <1>1, <1>3 DEF coversCost
  <2>4. ~isSegwitSend(d) => \A choice \in SUBSET before :
                             ~coversCost(choice, request[d].amount, feeRate[d])
    BY DEF RefusalTrue
  <2> HIDE DEF before
  <2>5. ~isSegwitSend(d)' => \A choice \in SUBSET after :
                              ~coversCost(choice, request[d].amount, feeRate[d])'
    BY <1>3, <2>2, <2>3, <2>4
  <2> QED
    BY <2>5 DEF RefusalTrue
<1>8. BuiltAt(s, d)'
  BY <1>1, <1>3 DEF ScanInv, BuiltAt, paid, estimate, segwitOf
<1> QED
  BY <1>2, <1>4, <1>5, <1>6, <1>7, <1>8 DEF ScanInv

(* A stranger pays: no scan that began before is quiet any more. *)
LEMMA DepositScan ==
  ASSUME NEW s \in Setups, IInv, SInv(s), NEW coin \in Deposits, Deposit(coin)
  PROVE  SInv(s)'
<1>1. /\ UNCHANGED wallet /\ UNCHANGED accepted /\ UNCHANGED request /\ UNCHANGED tx
      /\ UNCHANGED given /\ UNCHANGED found /\ UNCHANGED pc /\ UNCHANGED why
      /\ \A e \in accepted : coin \notin tx[e].inputs
      /\ coin \notin unspent /\ unspent' = unspent \cup {coin} /\ coin.addr \in allAddresses
  BY DEF Deposit, given, ends
<1>2. Ever(s)' = Ever(s)
  BY <1>1 DEF Ever, changeCoin
<1>3. ChainInv(s)'
  <2>1. coin \in Ever(s)
    BY DEF Ever
  <2> QED
    BY <1>1, <1>2, <2>1 DEF SInv, ChainInv, isSend, allAddresses, legacyAddresses, segwitAddresses
<1>4. FoundShape'
  BY <1>1 DEF SInv, FoundShape, found
<1>5. ASSUME NEW d \in Commands PROVE ScanInv(s, d)'
  <2>1. BeganAt(d)
    BY DEF SInv, ScanInv
  <2>2. UNCHANGED began
    BY <1>1 DEF found
  <2>3. spentSince(d)' = spentSince(d) /\ coin \notin spentSince(d)
    BY <1>1, <2>2 DEF spentSince
  <2>4. BeganAt(d)' /\ coin \notin began[d][1]
    BY <1>1, <2>1, <2>2, <2>3 DEF BeganAt
  <2>5. staying(d)' \subseteq staying(d)
    BY <1>1, <2>2, <2>4 DEF staying
  <2>6. ~quiet(d)'
    <3> SUFFICES ASSUME began'[d] = chain' PROVE FALSE
      BY DEF quiet
    <3>1. chain' = <<unspent \cup {coin}, accepted>>
      BY <1>1 DEF chain
    <3>2. began[d] = <<unspent \cup {coin}, accepted>>
      BY <2>2, <3>1
    <3>3. began[d][1] = unspent \cup {coin} /\ began[d][2] = accepted
      BY <3>2
    <3> QED
      BY <2>4, <3>3
  <2> QED
    BY <1>1, <1>2, <2>3, <2>4, <2>5, <2>6, ChainMoves DEF SInv
<1> QED
  BY <1>3, <1>4, <1>5 DEF SInv

(* The coins of the wallet after a broadcast, and what they come to. *)
LEMMA BroadcastMoves ==
  ASSUME NEW s \in Setups, IInv, SInv(s), NEW c \in Commands, Broadcast(c)
  PROVE  /\ c \notin accepted /\ accepted' = accepted \cup {c}
         /\ unspent' \subseteq unspent \cup {changeCoin(c)}
         /\ unspent \ tx[c].inputs \subseteq unspent'
         /\ changeCoin(c).addr \in allAddresses
         /\ TotalOf(unspent') = TotalOf(unspent) - TotalOf(tx[c].inputs) + tx[c].change
         /\ TotalOf(unspent) \in Nat /\ TotalOf(tx[c].inputs) \in Nat /\ tx[c].change \in Nat
<1> DEFINE rest == unspent \ tx[c].inputs
           new == changeCoin(c)
<1>1. /\ pc[c] = "broadcasting" /\ tx[c].inputs \subseteq unspent
      /\ accepted' = accepted \cup {c}
      /\ unspent' = rest \cup (IF tx[c].change > 0 THEN {new} ELSE {})
  BY DEF Broadcast, valid, changeCoin
<1>2. c \notin accepted /\ tx[c].changeAddr \in changeAddresses(c)
  BY <1>1 DEF IInv, RunInv, HonestAt, ChangeAt, Unsent
<1>3. new.addr \in allAddresses
  <2>1. tx[c].changeAddr \in sourceAddresses(c)
    BY <1>2, ChangeAddressesAreSources DEF IInv
  <2> QED
    BY <2>1 DEF changeCoin, sourceAddresses, allAddresses
<1>4. /\ Priced(unspent) /\ unspent \subseteq Ever(s)
      /\ \A coin \in Ever(s) : coin.id \in Commands => coin.id \in accepted
  <2>1. ChainInv(s)
    BY DEF SInv
  <2>2. Priced(Ever(s)) /\ unspent \subseteq Ever(s)
        /\ \A coin \in Ever(s) : coin.id \in Commands => coin.id \in accepted
    BY <2>1, EverBounded DEF ChainInv
  <2> QED
    BY <2>2, TotalSplit
<1>5. new \notin unspent
  BY <1>2, <1>4 DEF changeCoin
<1>6. tx[c].change \in Nat
  BY DEF SInv, ScanInv, KeptAt
<1>7. /\ Priced(rest) /\ TotalOf(unspent) = TotalOf(tx[c].inputs) + TotalOf(rest)
      /\ TotalOf(tx[c].inputs) \in Nat /\ TotalOf(rest) \in Nat
  BY <1>1, <1>4, TotalSplit
<1>8. TotalOf(unspent') = TotalOf(rest) + tx[c].change
  <2>1. CASE tx[c].change > 0
    <3>1. new.value \in Nat /\ new.value = tx[c].change
      BY <1>6 DEF changeCoin
    <3>2. rest \cap {new} = {} /\ unspent' = rest \cup {new}
      BY <1>1, <1>5, <2>1
    <3> HIDE DEF rest, new
    <3>3. Priced({new}) /\ TotalOf({new}) = new.value
      BY <3>1, TotalOfFew
    <3>4. TotalOf(rest \cup {new}) = TotalOf(rest) + TotalOf({new})
      BY <1>7, <3>2, <3>3, TotalUnion
    <3> QED
      BY <3>1, <3>2, <3>3, <3>4
  <2>2. CASE tx[c].change = 0
    <3>1. unspent' = rest
      BY <1>1, <2>2
    <3> QED
      BY <1>7, <2>2, <3>1
  <2> QED
    BY <1>6, <2>1, <2>2
<1> HIDE DEF rest
<1>9. TotalOf(unspent) \in Nat
  BY <1>7
<1>10. TotalOf(unspent') = TotalOf(unspent) - TotalOf(tx[c].inputs) + tx[c].change
  BY <1>6, <1>7, <1>8
<1>11. unspent' \subseteq unspent \cup {changeCoin(c)} /\ unspent \ tx[c].inputs \subseteq unspent'
  BY <1>1 DEF rest, new
<1> QED
  BY <1>1, <1>2, <1>3, <1>6, <1>7, <1>9, <1>10, <1>11

(* A transaction enters the chain: no scan that began before is quiet any more. *)
LEMMA BroadcastScan ==
  ASSUME NEW s \in Setups, IInv, SInv(s), NEW c \in Commands, Broadcast(c)
  PROVE  SInv(s)'
<1>1. /\ UNCHANGED wallet /\ UNCHANGED request /\ UNCHANGED tx /\ UNCHANGED why
      /\ UNCHANGED given /\ UNCHANGED found
      /\ pc[c] = "broadcasting" /\ pc' = [pc EXCEPT ![c] = "replying"]
  BY DEF Broadcast, given, Goto
<1>2. /\ c \notin accepted /\ accepted' = accepted \cup {c}
      /\ unspent' \subseteq unspent \cup {changeCoin(c)} /\ unspent \ tx[c].inputs \subseteq unspent'
      /\ changeCoin(c).addr \in allAddresses
  BY BroadcastMoves
<1>3. Ever(s)' = Ever(s) \cup {changeCoin(c)}
  BY <1>1, <1>2 DEF Ever, changeCoin
<1>4. ChainInv(s)'
  <2>1. isSend(c) /\ Worth(s, tx[c].change) /\ tx[c].inputs \subseteq Ever(s)
    BY <1>1 DEF SInv, ScanInv, PlaceAt, BuiltAt
  <2>2. allAddresses' = allAddresses /\ \A d \in Commands : isSend(d)' = isSend(d)
    BY <1>1 DEF allAddresses, legacyAddresses, segwitAddresses, isSend
  <2>3. /\ wallet = s.wallet /\ unspent \subseteq Ever(s)
        /\ \A coin \in unspent : coin.addr \in allAddresses
        /\ \A d \in accepted : isSend(d) /\ Worth(s, tx[d].change) /\ tx[d].inputs \subseteq Ever(s)
        /\ accepted \subseteq Commands
    BY DEF SInv, ChainInv, IInv, ShapeInv
  <2>4. unspent' \subseteq Ever(s)'
    BY <1>2, <1>3, <2>3
  <2>5. \A coin \in unspent' : coin.addr \in allAddresses
    BY <1>2, <2>3
  <2>6. \A d \in accepted' : isSend(d)' /\ Worth(s, tx[d].change)' /\ tx'[d].inputs \subseteq Ever(s)'
    BY <1>1, <1>2, <1>3, <2>1, <2>2, <2>3 DEF Worth
  <2> QED
    BY <1>1, <2>2, <2>3, <2>4, <2>5, <2>6 DEF ChainInv
<1>5. FoundShape'
  BY <1>1 DEF SInv, FoundShape, found
<1>6. ASSUME NEW d \in Commands PROVE ScanInv(s, d)'
  <2>1. BeganAt(d)
    BY DEF SInv, ScanInv
  <2>2. UNCHANGED began
    BY <1>1 DEF found
  <2>3. unspent \cup spentSince(d) \subseteq unspent' \cup spentSince(d)'
    <3>1. c \in accepted' \ began'[d][2] /\ accepted \ began[d][2] \subseteq accepted' \ began'[d][2]
      BY <1>2, <2>1, <2>2 DEF BeganAt
    <3>2. tx[c].inputs \subseteq spentSince(d)' /\ spentSince(d) \subseteq spentSince(d)'
      BY <1>1, <3>1 DEF spentSince
    <3> QED
      BY <1>2, <3>2
  <2>4. BeganAt(d)'
    BY <1>2, <2>1, <2>2, <2>3 DEF BeganAt
  <2>5. staying(d)' \subseteq staying(d)
    <3>1. \A coin \in Ever(s) : coin.id \in Commands => coin.id \in accepted
      BY EverBounded DEF SInv
    <3>2. began[d][1] \subseteq Ever(s)
      BY <2>1, PricedChain DEF BeganAt
    <3>3. changeCoin(c) \notin began[d][1]
      BY <1>2, <3>1, <3>2 DEF changeCoin
    <3> QED
      BY <1>2, <2>2, <3>3 DEF staying
  <2>6. ~quiet(d)'
    <3> SUFFICES ASSUME began'[d] = chain' PROVE FALSE
      BY DEF quiet
    <3>1. began[d] = <<unspent', accepted'>>
      BY <2>2 DEF chain
    <3>2. began[d][2] = accepted'
      BY <3>1
    <3>3. began[d][2] \subseteq accepted
      BY <2>1 DEF BeganAt
    <3> QED
      BY <1>2, <3>2, <3>3
  <2>7. pc'[d] = pc[d] \/ (pc[d] = "broadcasting" /\ pc'[d] = "replying")
    BY <1>1 DEF IInv, ShapeInv
  <2> QED
    BY <1>1, <1>3, <2>3, <2>4, <2>5, <2>6, <2>7, ChainMoves DEF SInv
<1> QED
  BY <1>4, <1>5, <1>6 DEF SInv
-----------------------------------------------------------------------------
(* A function that repeats nothing and leaves nothing out keeps the number. *)
LEMMA SameSize ==
  ASSUME NEW A, IsFiniteSet(A), NEW B, NEW p \in [A -> B],
         \A x, y \in A : p[x] = p[y] => x = y, \A y \in B : \E x \in A : p[x] = y
  PROVE  IsFiniteSet(B) /\ Cardinality(A) = Cardinality(B)
<1>1. p \in Surjection(A, B)
  BY DEF Surjection
<1>2. p \in Injection(A, B)
  BY DEF Injection, IsInjective
<1> QED
  BY <1>1, <1>2, FS_Surjection

(* The pool of c as selectInputs sees it. *)
utxosOf(c) == {asUtxo(coin) : coin \in pool[c]}

(* An order of the pool: every coin of it once, and not too many. *)
Orders(o, c) ==
  /\ o \in Seq(utxosOf(c))
  /\ \A i \in 1 .. Len(o) : o[i].coin \in pool[c] /\ o[i] = asUtxo(o[i].coin)
  /\ \A i, j \in 1 .. Len(o) : o[i].coin = o[j].coin => i = j
  /\ \A coin \in pool[c] : \E i \in 1 .. Len(o) : o[i].coin = coin

(* What selections takes for an order is one. *)
LEMMA OrderOfPool ==
  ASSUME NEW s \in Setups, IInv, SInv(s), NEW c \in Commands, NEW o \in SetToSeqs(utxosOf(c))
  PROVE  Orders(o, c) /\ Len(o) <= MostCoins(s) /\ MostCoins(s) \in Nat /\ Valued(utxosOf(c))
<1> DEFINE n == Cardinality(utxosOf(c))
<1>1. /\ pool[c] \subseteq Ever(s) /\ IsFiniteSet(Ever(s)) /\ Cardinality(Ever(s)) <= MostCoins(s)
      /\ MostCoins(s) \in Nat /\ \A coin \in Ever(s) : coin.value \in Nat
  BY EverBounded DEF SInv, ScanInv, KeptAt, Priced
<1>2. IsFiniteSet(pool[c]) /\ Cardinality(pool[c]) <= Cardinality(Ever(s))
  BY <1>1, FS_Subset
<1>3. IsFiniteSet(utxosOf(c)) /\ n <= Cardinality(pool[c])
  <2>1. [coin \in pool[c] |-> asUtxo(coin)] \in Surjection(pool[c], utxosOf(c))
    BY DEF Surjection, utxosOf
  <2> QED
    BY <1>2, <2>1, FS_Surjection
<1>4. n \in Nat /\ Cardinality(pool[c]) \in Nat /\ Cardinality(Ever(s)) \in Nat
  BY <1>1, <1>2, <1>3, FS_CardinalityType
<1>5. o \in [1 .. n -> utxosOf(c)] /\ \A i, j \in 1 .. n : i # j => o[i] # o[j]
  BY DEF SetToSeqs
<1> HIDE DEF n
<1>6. o \in Seq(utxosOf(c)) /\ Len(o) = n
  BY <1>4, <1>5
<1>7. \A u \in utxosOf(c) : \E i \in 1 .. n : o[i] = u
  <2>1. o \in Injection(1 .. n, utxosOf(c))
    BY <1>5 DEF Injection, IsInjective
  <2>2. IsFiniteSet(1 .. n) /\ Cardinality(1 .. n) = n
    BY <1>4, Positions
  <2>3. o \in Surjection(1 .. n, utxosOf(c))
    BY <1>3, <2>1, <2>2, FS_Injection DEF n
  <2> QED
    BY <2>3 DEF Surjection
<1>8. \A u \in utxosOf(c) : u.coin \in pool[c] /\ u = asUtxo(u.coin) /\ u.value = u.coin.value
  BY DEF utxosOf, asUtxo
<1>9. \A coin \in pool[c] : asUtxo(coin) \in utxosOf(c) /\ asUtxo(coin).coin = coin
  BY DEF utxosOf, asUtxo
<1>10. Valued(utxosOf(c))
  BY <1>1, <1>8 DEF Valued
<1>11. \A i \in 1 .. n : o[i].coin \in pool[c] /\ o[i] = asUtxo(o[i].coin)
  BY <1>5, <1>8
<1>12. \A i, j \in 1 .. n : o[i].coin = o[j].coin => i = j
  BY <1>5, <1>11
<1>13. \A coin \in pool[c] : \E i \in 1 .. n : o[i].coin = coin
  BY <1>7, <1>9
<1>14. n <= MostCoins(s)
  BY <1>1, <1>2, <1>3, <1>4
<1>15. Orders(o, c)
  BY <1>6, <1>11, <1>12, <1>13 DEF Orders
<1> QED
  BY <1>1, <1>6, <1>10, <1>14, <1>15

(* The places of some of the coins in an order. *)
placesOf(choice, o) == {i \in 1 .. Len(o) : o[i].coin \in choice}

(* The size of a transaction of the coins at some places. *)
sizeAt(o, I) ==
  currentSize(Cardinality({i \in I : ~isSegwitUTXO(o[i])}), Cardinality({i \in I : isSegwitUTXO(o[i])}))

(* Some of the coins of the pool are worth, and cost, what their places in an order do. *)
LEMMA ChoiceMeasured ==
  ASSUME NEW s \in Setups, IInv, SInv(s), NEW c \in Commands, NEW o, Orders(o, c),
         Valued(utxosOf(c)), NEW choice \in SUBSET pool[c], NEW rate \in Nat, NEW amount \in Nat
  PROVE  LET I == placesOf(choice, o)
         IN  /\ IsFiniteSet(I) /\ I \subseteq 1 .. Len(o)
             /\ TotalOf(choice) = SumOver(ValuesOf(o), I) /\ SumOver(ValuesOf(o), I) \in Nat
             /\ sizeAt(o, I) =
                  currentSize(Cardinality(choice \ segwitOf(choice)), Cardinality(segwitOf(choice)))
             /\ coversCost(choice, amount, rate) <=>
                  SumOver(ValuesOf(o), I) >= amount + CostOf(o, I, rate)
<1> DEFINE n == Len(o)
           I == placesOf(choice, o)
           p == [i \in I |-> o[i].coin]
           v == ValuesOf(o)
           w == ValuesIn(choice)
<1>1. n \in Nat /\ DOMAIN o = 1 .. n /\ o \in Seq(utxosOf(c))
  BY DEF Orders
<1>2. I \subseteq 1 .. n /\ \A i \in 1 .. n : i \in I <=> o[i].coin \in choice
  BY DEF placesOf
<1> HIDE DEF I
<1>3. IsFiniteSet(I)
  BY <1>1, <1>2, Positions, FS_Subset
<1>4. /\ p \in [I -> choice] /\ \A i \in I : p[i] = o[i].coin
      /\ \A i, j \in I : p[i] = p[j] => i = j
      /\ \A coin \in choice : \E i \in I : p[i] = coin
  BY <1>2 DEF Orders
<1>5. \A i \in I : /\ isSegwitUTXO(o[i]) <=> p[i].addr \in segwitAddresses
                   /\ o[i].value = p[i].value /\ o[i].value \in Nat
  <2> SUFFICES ASSUME NEW i \in I
               PROVE  /\ isSegwitUTXO(o[i]) <=> p[i].addr \in segwitAddresses
                      /\ o[i].value = p[i].value /\ o[i].value \in Nat
    OBVIOUS
  <2>1. o[i] = asUtxo(p[i]) /\ o[i] \in utxosOf(c)
    BY <1>1, <1>2, <1>4 DEF Orders
  <2>2. o[i].value \in Nat
    BY <2>1 DEF Valued
  <2> HIDE DEF p
  <2>3. o[i].value = p[i].value /\ o[i].scriptType = scriptTypeOf(p[i].addr)
    BY <2>1 DEF asUtxo
  <2> QED
    BY <2>2, <2>3 DEF isSegwitUTXO, scriptTypeOf
<1> HIDE DEF p
<1>6. SumOver(v, I) = SumOver(w, choice)
  <2>1. \A coin \in choice : w[coin] \in Int
    BY <1>4, <1>5 DEF ValuesIn
  <2>2. \A i \in I : v[i] = w[p[i]]
    BY <1>1, <1>2, <1>4, <1>5 DEF ValuesOf, ValuesIn
  <2> HIDE DEF v, w
  <2> QED
    BY <1>3, <1>4, <2>1, <2>2, SumRenamed
<1>7. TotalOf(choice) = SumOver(w, choice)
  <2>1. \A coin \in choice : w[coin] = coin.value
    BY DEF ValuesIn
  <2> HIDE DEF w
  <2> QED
    BY <2>1, TotalIsSum
<1>8. SumOver(v, I) \in Nat
  <2>1. \A i \in I : v[i] \in Nat
    BY <1>1, <1>2, <1>5 DEF ValuesOf
  <2> HIDE DEF v
  <2> QED
    BY <1>3, <2>1, SumType
<1> HIDE DEF v, w
<1>9. /\ Cardinality({i \in I : isSegwitUTXO(o[i])}) =
           Cardinality({coin \in choice : coin.addr \in segwitAddresses})
      /\ Cardinality({i \in I : ~isSegwitUTXO(o[i])}) =
           Cardinality(choice \ {coin \in choice : coin.addr \in segwitAddresses})
  <2> DEFINE A == {i \in I : isSegwitUTXO(o[i])}
             B == {coin \in choice : coin.addr \in segwitAddresses}
             C == {i \in I : ~isSegwitUTXO(o[i])}
             D == choice \ B
  <2>1. Cardinality(A) = Cardinality(B)
    <3> DEFINE q == [i \in A |-> p[i]]
    <3>1. IsFiniteSet(A)
      BY <1>3, FS_Subset
    <3>2. q \in [A -> B] /\ \A x, y \in A : q[x] = q[y] => x = y
      BY <1>4, <1>5
    <3>3. \A y \in B : \E x \in A : q[x] = y
      BY <1>4, <1>5
    <3> HIDE DEF A, B, q
    <3> QED
      BY <3>1, <3>2, <3>3, SameSize
  <2>2. Cardinality(C) = Cardinality(D)
    <3> DEFINE q == [i \in C |-> p[i]]
    <3>1. IsFiniteSet(C)
      BY <1>3, FS_Subset
    <3>2. q \in [C -> D] /\ \A x, y \in C : q[x] = q[y] => x = y
      BY <1>4, <1>5
    <3>3. \A y \in D : \E x \in C : q[x] = y
      BY <1>4, <1>5
    <3> HIDE DEF C, D, q
    <3> QED
      BY <3>1, <3>2, <3>3, SameSize
  <2> QED
    BY <2>1, <2>2
<1>10. coversCost(choice, amount, rate) <=> SumOver(v, I) >= amount + CostOf(o, I, rate)
  BY <1>6, <1>7, <1>9 DEF coversCost, CostOf
<1> QED
  BY <1>2, <1>3, <1>6, <1>7, <1>8, <1>9, <1>10 DEF v, I, segwitOf, sizeAt

(* The size of a prefix of an order, by the kinds of its coins. *)
LEMMA PrefixSize ==
  ASSUME NEW S, Valued(S), NEW p \in Seq(S), NEW k \in 0 .. Len(p)
  PROVE  SizeOf(SubSeq(p, 1, k)) = sizeAt(p, 1 .. k)
<1> DEFINE q == SubSeq(p, 1, k)
           A == {i \in 1 .. k : isSegwitUTXO(p[i])}
           B == {i \in 1 .. k : ~isSegwitUTXO(p[i])}
<1>1. Len(q) = k /\ CountSegwit(q) = Cardinality(A)
  BY PrefixMeasures
<1>2. k \in Nat /\ IsFiniteSet(1 .. k) /\ Cardinality(1 .. k) = k
  <2>1. k \in Nat
    OBVIOUS
  <2> QED
    BY <2>1, Positions
<1>3. A \cup B = 1 .. k /\ A \cap B = {}
  OBVIOUS
<1>4. IsFiniteSet(A) /\ IsFiniteSet(B)
  BY <1>2, FS_Subset
<1> HIDE DEF q, A, B
<1>5. k = Cardinality(A) + Cardinality(B)
  <2>1. Cardinality(A \cup B) = Cardinality(A) + Cardinality(B) - Cardinality(A \cap B)
    BY <1>4, FS_Union
  <2>2. Cardinality(A) \in Nat /\ Cardinality(B) \in Nat
    BY <1>4, FS_CardinalityType
  <2>3. Cardinality(A \cup B) = k
    BY <1>2, <1>3
  <2>4. Cardinality(A \cap B) = 0
    BY <1>3, FS_EmptySet
  <2> QED
    BY <2>1, <2>2, <2>3, <2>4
<1>6. Cardinality(A) \in Nat /\ Cardinality(B) \in Nat
  BY <1>4, FS_CardinalityType
<1>7. SizeOf(q) = currentSize(Cardinality(B), Cardinality(A))
  BY <1>1, <1>5, <1>6 DEF SizeOf
<1> QED
  BY <1>7 DEF q, A, B, sizeAt

(* The largest fee is a natural number. *)
LEMMA LargestFeeType ==
  ASSUME NEW s \in Setups, MostCoins(s) \in Nat, NEW rate \in FeeRates
  PROVE  rate \in Nat /\ LargestFee(s, rate) \in Nat
<1>1. rate \in Nat
  BY RatesAssumption
<1>2. currentSize(MostCoins(s), 0) \in Nat /\ changeOutputSize \in Nat
  BY SizeType DEF changeOutputSize
<1>3. (currentSize(MostCoins(s), 0) + changeOutputSize) * rate \in Nat
  BY <1>1, <1>2
<1> QED
  BY <1>1, <1>3 DEF LargestFee

(* An amount, a rate and the largest fee, as numbers. *)
LEMMA RequestInRange ==
  ASSUME NEW s \in Setups, IInv, NEW c \in Commands, NEW r \in FeeRates, MostCoins(s) \in Nat
  PROVE  /\ request[c].amount \in 1 .. MaxInt /\ r \in Nat
         /\ LargestFee(s, r) \in Nat /\ request[c].amount + LargestFee(s, r) <= MaxInt
         /\ \A v \in Nat : Worth(s, v) => request[c].amount + LargestFee(s, r) + v <= MaxInt
<1>1. request[c] \in Requests /\ request[c].amount \in Nat \ {0} /\ r \in Nat
  BY SpendingRequestsAssumption, RatesAssumption DEF IInv, ShapeInv
<1>2. LargestFee(s, r) \in Nat
  BY LargestFeeType
<1>3. Fits(s, 0)
  BY RangeAssumption
<1>4. request[c].amount + LargestFee(s, r) + 0 <= MaxInt
  BY <1>1, <1>3 DEF Fits
<1>5. \A v \in Nat : Worth(s, v) => request[c].amount + LargestFee(s, r) + v <= MaxInt
  BY <1>1 DEF Worth, Fits
<1>6. request[c].amount \in 1 .. MaxInt /\ request[c].amount + LargestFee(s, r) <= MaxInt
  BY <1>1, <1>2, <1>4, MaxIntAssumption
<1> QED
  BY <1>1, <1>2, <1>5, <1>6

(* A smaller value is worth no more than fits, either. *)
LEMMA WorthLess ==
  ASSUME NEW s \in Setups, MostCoins(s) \in Nat, NEW v \in Nat, Worth(s, v),
         NEW u \in Nat, u <= v
  PROVE  Worth(s, u)
<1> SUFFICES ASSUME NEW r \in Requests, NEW rate \in FeeRates
             PROVE  r.amount + LargestFee(s, rate) + u <= MaxInt
  BY DEF Worth, Fits
<1>1. r.amount \in Nat /\ LargestFee(s, rate) \in Nat
  BY SpendingRequestsAssumption, LargestFeeType
<1>2. r.amount + LargestFee(s, rate) + v <= MaxInt
  BY DEF Worth, Fits
<1> QED
  BY <1>1, <1>2, MaxIntAssumption

(***************************************************************************)
(* "insufficient funds" for a pool of coins of the send's addresses: they  *)
(* do not cover it, and if the send has legacy coins only, no choice of    *)
(* them does.                                                              *)
(***************************************************************************)
LEMMA RefusalRight ==
  ASSUME NEW s \in Setups, IInv, SInv(s), NEW c \in Commands, feeRate[c] \in FeeRates,
         \A coin \in pool[c] : coin.addr \in sourceAddresses(c),
         NEW o, Orders(o, c), Len(o) <= MostCoins(s), MostCoins(s) \in Nat, Valued(utxosOf(c)),
         Descending(o), PassedBy(o, request[c].amount, feeRate[c], Len(o) + 1)
  PROVE  /\ ~isSegwitSend(c) => \A choice \in SUBSET pool[c] :
                                    ~coversCost(choice, request[c].amount, feeRate[c])
         /\ ~coversCost(pool[c], request[c].amount, feeRate[c])
<1> DEFINE amt == request[c].amount
           r == feeRate[c]
           n == Len(o)
<1>1. /\ amt \in 1 .. MaxInt /\ amt \in Nat /\ amt > 0 /\ r \in Nat
      /\ amt + (currentSize(MostCoins(s), 0) + changeOutputSize) * r <= MaxInt
  BY RequestInRange DEF LargestFee
<1>2. n \in Nat /\ n \in 0 .. Len(o) /\ o \in Seq(utxosOf(c)) /\ DOMAIN o = 1 .. n
  BY DEF Orders
<1>3. Short(o, amt, r, n)
  <2>1. PassedBy(o, amt, r, n + 1) /\ n <= MostCoins(s)
    OBVIOUS
  <2> HIDE DEF amt, r
  <2> QED
    BY <1>1, <1>2, <2>1, PassedByShort
<1> SUFFICES ASSUME NEW choice \in SUBSET pool[c],
                    isSegwitSend(c) => choice = pool[c]
             PROVE  ~coversCost(choice, amt, r)
  OBVIOUS
<1> DEFINE I == placesOf(choice, o)
<1> HIDE DEF amt, r
<1>4. /\ IsFiniteSet(I) /\ I \subseteq 1 .. n /\ SumOver(ValuesOf(o), I) \in Nat
      /\ coversCost(choice, amt, r) <=> SumOver(ValuesOf(o), I) >= amt + CostOf(o, I, r)
  BY <1>1, ChoiceMeasured
<1>5. CostOf(o, I, r) \in Nat
  BY <1>1, <1>4, CostType
<1>6. SumOver(ValuesOf(o), I) < amt + CostOf(o, I, r)
  <2>1. CASE choice = pool[c]
    <3>1. I = DOMAIN o
      BY <1>2, <2>1 DEF placesOf, Orders
    <3> HIDE DEF I
    <3>2. SumOver(ValuesOf(o), DOMAIN o) < amt + CostOf(o, DOMAIN o, r)
      BY <1>1, <1>2, <1>3, WholeShort
    <3> QED
      BY <3>1, <3>2
  <2>2. CASE ~isSegwitSend(c)
    <3>1. legacyAddresses \cap segwitAddresses = {}
      <4>1. wallet = s.wallet
        BY DEF SInv, ChainInv
      <4> QED
        BY <4>1, SetupsAssumption DEF legacyAddresses, segwitAddresses
    <3>2. \A i \in 1 .. n : ~isSegwitUTXO(o[i])
      <4> SUFFICES ASSUME NEW i \in 1 .. n PROVE ~isSegwitUTXO(o[i])
        OBVIOUS
      <4>1. o[i].coin \in pool[c] /\ o[i] = asUtxo(o[i].coin)
        BY DEF Orders
      <4>2. o[i].coin.addr \notin segwitAddresses
        BY <2>2, <3>1, <4>1 DEF sourceAddresses
      <4>3. o[i].scriptType = "p2pkh"
        BY <4>1, <4>2 DEF asUtxo, scriptTypeOf
      <4> QED
        BY <4>3 DEF isSegwitUTXO
    <3>3. Uniform(o)
      BY <1>2, <3>2 DEF Uniform
    <3>4. I \in SUBSET DOMAIN o /\ Cardinality(I) <= n
      BY <1>2, <1>4, Positions, FS_Subset
    <3> HIDE DEF I
    <3> QED
      BY <1>1, <1>2, <1>3, <3>3, <3>4, NoChoiceCovers
  <2> QED
    BY <2>1, <2>2
<1> HIDE DEF I
<1> QED
  BY <1>1, <1>4, <1>5, <1>6

(***************************************************************************)
(* What selectInputs returns over a pool and its orders: the inputs are of *)
(* the pool and pay for the transaction built of them, or it refuses.      *)
(***************************************************************************)
LEMMA SelectionRight ==
  ASSUME NEW s \in Setups, IInv, SInv(s), NEW c \in Commands, pc[c] = "building",
         NEW sel \in selections(c), NEW address, NEW saved \in Savings
  PROVE  \/ sel.err = "insufficient" /\ RefusalTrue(c)
         \/ LET t == txOf(sel.result, address, saved)
                p == TotalOf(t.inputs) - request[c].amount - t.change
            IN  /\ sel.err = "nil"
                /\ t.inputs \subseteq pool[c] /\ t.saved = saved
                /\ t.size = estimate(t) /\ Worth(s, t.change)
                /\ p >= t.size * feeRate[c]
                /\ p <= (t.size + changeOutputSize) * feeRate[c]
<1> DEFINE amt == request[c].amount
           r == feeRate[c]
<1>1. PICK o \in SetToSeqs(utxosOf(c)) :
        /\ \A i, j \in DOMAIN o : i < j => ~Less(o[j], o[i])
        /\ sel = selectInputs(o, amt, r)
  BY DEF selections, utxosOf
<1> DEFINE n == Len(o)
           m == MostCoins(s)
<1>2. Orders(o, c) /\ n <= m /\ m \in Nat /\ Valued(utxosOf(c)) /\ n \in Nat
      /\ o \in Seq(utxosOf(c)) /\ DOMAIN o = 1 .. n
  <2>1. Orders(o, c) /\ Len(o) <= MostCoins(s) /\ MostCoins(s) \in Nat /\ Valued(utxosOf(c))
    BY OrderOfPool
  <2>2. o \in Seq(utxosOf(c))
    BY <2>1 DEF Orders
  <2> QED
    BY <2>1, <2>2
<1>3. feeRate[c] \in FeeRates /\ toScan[c] = {}
  BY DEF SInv, ScanInv, PlaceAt
<1>4. /\ amt \in 1 .. MaxInt /\ amt \in Nat /\ amt > 0 /\ r \in Nat
      /\ \A v \in Nat : Worth(s, v) =>
           amt + (currentSize(m, 0) + changeOutputSize) * r + v <= MaxInt
  BY <1>2, <1>3, RequestInRange DEF LargestFee
<1>5. CASE PassedBy(o, amt, r, n + 1)
  <2>1. sel.err = "insufficient"
    <3>1. selectInputs(o, amt, r) =
            [err |-> "insufficient", result |-> [inputs |-> <<>>, fee |-> 0, change |-> 0]]
      <4> HIDE DEF amt, r
      <4> QED
        BY <1>2, <1>5, SelectNothing
    <3> QED
      BY <1>1, <3>1
  <2>2. RefusalTrue(c)
    <3> DEFINE stayed == {coin \in began[c][1] \cap unspent : coin.addr \in sourceAddresses(c)}
    <3>1. PlaceAt(c) /\ BeganAt(c) /\ FoundAt(c) /\ QuietAt(c)
      BY DEF SInv, ScanInv
    <3>2. stayed \subseteq pool[c] /\ \A coin \in pool[c] : coin.addr \in sourceAddresses(c)
      BY <1>3, <3>1 DEF FoundAt, PlaceAt, staying
    <3>3. ASSUME quiet(c) PROVE stayed = pool[c]
      <4>1. pool[c] = coinsAt(sourceAddresses(c) \ toScan[c])
        BY <3>1, <3>3 DEF QuietAt
      <4>2. sourceAddresses(c) \ toScan[c] = sourceAddresses(c)
        BY <1>3
      <4>3. began[c][1] = unspent
        BY <3>3 DEF quiet, chain
      <4> QED
        BY <4>1, <4>2, <4>3 DEF coinsAt
    <3>4. Descending(o)
      <4>1. \A i \in 1 .. n : o[i].value \in Nat
        BY <1>2 DEF Valued
      <4> QED
        BY <1>1, <1>2, <4>1 DEF Descending, Less
    <3>5. /\ ~isSegwitSend(c) => \A choice \in SUBSET pool[c] : ~coversCost(choice, amt, r)
          /\ ~coversCost(pool[c], amt, r)
      BY <1>2, <1>3, <1>5, <3>2, <3>4, RefusalRight
    <3> QED
      BY <3>2, <3>3, <3>5 DEF RefusalTrue
  <2> QED
    BY <2>1, <2>2
<1>6. CASE \E k \in 1 .. n : PassedBy(o, amt, r, k) /\ (~o[k].validTxId \/ CoversAt(o, amt, r, k))
  <2>1. PICK k \in 1 .. n : PassedBy(o, amt, r, k) /\ (~o[k].validTxId \/ CoversAt(o, amt, r, k))
    BY <1>6
  <2> DEFINE q == SubSeq(o, 1, k)
             st == Settle(ValueOf(q), amt, SizeOf(q), r)
             t == txOf(sel.result, address, saved)
             p == TotalOf(t.inputs) - amt - t.change
  <2>2. /\ o[k].validTxId /\ o[k].coin \in pool[c] /\ o[k].value = o[k].coin.value
        /\ o[k].value \in Nat
    <3>1. o[k] = asUtxo(o[k].coin) /\ o[k].coin \in pool[c] /\ o[k] \in utxosOf(c)
      BY <1>2 DEF Orders
    <3>2. asUtxo(o[k].coin).validTxId = TRUE /\ asUtxo(o[k].coin).value = o[k].coin.value
      BY DEF asUtxo
    <3> QED
      BY <1>2, <3>1, <3>2 DEF Valued
  <2>3. CoversAt(o, amt, r, k)
    BY <2>1, <2>2
  <2>4. Worth(s, o[k].value)
    <3>1. pool[c] \subseteq Ever(s) /\ \A coin \in Ever(s) : Worth(s, coin.value)
      BY EverBounded DEF SInv, ScanInv, KeptAt
    <3> QED
      BY <2>2, <3>1
  <2>5. sel = [err |-> "nil", result |-> [inputs |-> q, fee |-> st.fee, change |-> st.change]]
    <3>1. selectInputs(o, amt, r) =
            IF ~o[k].validTxId
            THEN [err |-> "badTxId", result |-> [inputs |-> <<>>, fee |-> 0, change |-> 0]]
            ELSE [err |-> "nil", result |-> [inputs |-> q, fee |-> st.fee, change |-> st.change]]
      <4> HIDE DEF amt, r
      <4> QED
        BY <1>2, <2>1, SelectAt
    <3> QED
      BY <1>1, <2>2, <3>1
  <2>6. /\ ValueOf(q) \in Nat /\ SizeOf(q) \in Nat
        /\ st.change \in Nat /\ st.change <= o[k].value
        /\ st.change > 0 => ValueOf(q) - amt - st.change = (SizeOf(q) + changeOutputSize) * r
        /\ st.change = 0 => /\ ValueOf(q) - amt - st.change >= SizeOf(q) * r
                            /\ ValueOf(q) - amt - st.change - SizeOf(q) * r <= changeOutputSize * r
    <3>1. amt + (currentSize(m, 0) + changeOutputSize) * r + o[k].value <= MaxInt
      BY <1>4, <2>2, <2>4
    <3> HIDE DEF amt, r, m
    <3> QED
      BY <1>2, <1>4, <2>1, <2>3, <3>1, SelectionPays
  <2>7. /\ Len(q) = k /\ \A i \in 1 .. k : q[i] = o[i]
        /\ ValueOf(q) = SumOver(ValuesOf(o), 1 .. k)
    <3>1. k \in 0 .. Len(o)
      OBVIOUS
    <3> QED
      BY <1>2, <3>1, PrefixMeasures
  <2> HIDE DEF st
  <2>8. /\ t.inputs = {q[i].coin : i \in DOMAIN q} /\ t.change = st.change
        /\ t.size = SizeOf(q) + (IF st.change > 0 THEN changeOutputSize ELSE 0) /\ t.saved = saved
    BY <2>5 DEF txOf
  <2> HIDE DEF t
  <2>9. t.inputs = {o[i].coin : i \in 1 .. k}
    <3>1. DOMAIN q = 1 .. k
      <4>1. q \in Seq(utxosOf(c))
        BY <1>2
      <4> HIDE DEF q
      <4> QED
        BY <2>7, <4>1
    <3> HIDE DEF q
    <3> QED
      BY <2>7, <2>8, <3>1
  <2>10. t.inputs \subseteq pool[c] /\ placesOf(t.inputs, o) = 1 .. k
    <3>1. /\ \A i \in 1 .. n : o[i].coin \in pool[c]
          /\ \A i, j \in 1 .. n : o[i].coin = o[j].coin => i = j
          /\ \A i \in 1 .. k : i \in 1 .. n
      BY <1>2 DEF Orders
    <3>2. t.inputs \subseteq pool[c]
      BY <2>9, <3>1
    <3>3. \A i \in 1 .. n : o[i].coin \in t.inputs <=> i \in 1 .. k
      BY <2>9, <3>1
    <3>4. placesOf(t.inputs, o) = 1 .. k
      BY <3>1, <3>3 DEF placesOf
    <3> QED
      BY <3>2, <3>4
  <2>11. TotalOf(t.inputs) = ValueOf(q) /\ t.size = estimate(t)
    <3>1. /\ TotalOf(t.inputs) = SumOver(ValuesOf(o), placesOf(t.inputs, o))
          /\ sizeAt(o, placesOf(t.inputs, o)) =
               currentSize(Cardinality(t.inputs \ segwitOf(t.inputs)), Cardinality(segwitOf(t.inputs)))
      BY <1>2, <1>4, <2>10, ChoiceMeasured
    <3>2. SizeOf(q) = sizeAt(o, 1 .. k)
      <4>1. k \in 0 .. Len(o)
        OBVIOUS
      <4> QED
        BY <1>2, <4>1, PrefixSize
    <3> QED
      BY <2>7, <2>8, <2>10, <3>1, <3>2 DEF estimate
  <2>12. Worth(s, t.change)
    BY <1>2, <2>2, <2>4, <2>6, <2>8, WorthLess
  <2> HIDE DEF q, amt, r
  <2>13. p >= t.size * r /\ p <= (t.size + changeOutputSize) * r
    <3> DEFINE z == SizeOf(q)
               w == ValueOf(q) - amt - st.change
    <3>1. p = w
      BY <2>8, <2>11
    <3>2. z \in Nat /\ w \in Int /\ changeOutputSize = 34
      BY <1>4, <2>6 DEF changeOutputSize
    <3>3. (z + 34) * r = z * r + 34 * r /\ z * r \in Nat /\ 34 * r \in Nat /\ (z + 34) * r \in Nat
          /\ (z + 34 + 34) * r = z * r + 34 * r + 34 * r
      <4> HIDE DEF z
      <4> QED
        BY <1>4, <3>2
    <3>4. CASE st.change > 0
      <4>1. t.size = z + 34 /\ w = (z + 34) * r
        BY <2>6, <2>8, <3>2, <3>4
      <4> HIDE DEF z, w, p
      <4> QED
        BY <3>1, <3>2, <3>3, <4>1
    <3>5. CASE st.change = 0
      <4>1. t.size = z /\ w >= z * r /\ w - z * r <= 34 * r
        BY <2>6, <2>8, <3>2, <3>5
      <4> HIDE DEF z, w, p
      <4> QED
        BY <3>1, <3>2, <3>3, <4>1
    <3> QED
      BY <2>6, <3>4, <3>5
  <2>14. sel.err = "nil"
    BY <2>5
  <2> QED
    BY <2>8, <2>10, <2>11, <2>12, <2>13, <2>14 DEF t, amt, r
<1>7. PassedBy(o, amt, r, n + 1)
      \/ \E k \in 1 .. n : PassedBy(o, amt, r, k) /\ (~o[k].validTxId \/ CoversAt(o, amt, r, k))
  <2> HIDE DEF amt, r
  <2> QED
    BY <1>2, SelectCases
<1> QED
  BY <1>5, <1>6, <1>7

(* Build: a transaction that balances is on its way, or the run has failed. *)
LEMMA BuildScan ==
  ASSUME NEW s \in Setups, IInv, SInv(s), NEW c \in Commands, Build(c)
  PROVE  SInv(s)'
<1>1. /\ UNCHANGED wallet /\ UNCHANGED request /\ UNCHANGED unspent /\ UNCHANGED accepted
      /\ UNCHANGED chain /\ UNCHANGED toScan /\ UNCHANGED began /\ UNCHANGED balance
      /\ UNCHANGED feeRate /\ UNCHANGED given
      /\ pc[c] = "building" /\ pool' = [pool EXCEPT ![c] = {}]
  BY DEF Build, chain, given
<1>2. /\ c \notin accepted /\ ScanInv(s, c) /\ why[c] = "none"
      /\ feeRate[c] \in FeeRates /\ toScan[c] = {} /\ isSend(c) /\ pool'[c] = {}
  BY <1>1 DEF SInv, ScanInv, PlaceAt, IInv, RunInv, HonestAt, Unsent, FoundShape
<1>3. \/ \E error \in {"noChangeAddress", "undecodable"} : Fail(c, error) /\ UNCHANGED tx
      \/ Fail(c, "insufficient") /\ UNCHANGED tx /\ RefusalTrue(c)
      \/ \E sel \in selections(c) : \E address : \E saved \in Savings :
           /\ sel.err = "nil" /\ Goto(c, "broadcasting")
           /\ tx' = [tx EXCEPT ![c] = txOf(sel.result, address, saved)]
  <2>1. PICK sel \in selections(c) :
          \/ sel.err # "nil" /\ Fail(c, sel.err) /\ UNCHANGED tx
          \/ sel.err = "nil" /\ changeAddresses(c) = {} /\ Fail(c, "noChangeAddress") /\ UNCHANGED tx
          \/ /\ sel.err = "nil"
             /\ \E address \in changeAddresses(c) :
                  IF decodes(request[c].dest) /\ (sel.result.change > 0 => decodes(address))
                  THEN /\ Goto(c, "broadcasting")
                       /\ \E saved \in Savings :
                            tx' = [tx EXCEPT ![c] = txOf(sel.result, address, saved)]
                  ELSE Fail(c, "undecodable") /\ UNCHANGED tx
    BY DEF Build
  <2>2. CASE sel.err # "nil" /\ Fail(c, sel.err) /\ UNCHANGED tx
    <3>1. sel.err = "insufficient" /\ RefusalTrue(c)
      BY <1>1, <2>2, SelectionRight, RatesAssumption
    <3> QED
      BY <2>2, <3>1
  <2>3. CASE sel.err = "nil" /\ changeAddresses(c) = {} /\ Fail(c, "noChangeAddress") /\ UNCHANGED tx
    BY <2>3
  <2>4. CASE /\ sel.err = "nil"
             /\ \E address \in changeAddresses(c) :
                  IF decodes(request[c].dest) /\ (sel.result.change > 0 => decodes(address))
                  THEN /\ Goto(c, "broadcasting")
                       /\ \E saved \in Savings :
                            tx' = [tx EXCEPT ![c] = txOf(sel.result, address, saved)]
                  ELSE Fail(c, "undecodable") /\ UNCHANGED tx
    BY <2>4
  <2> QED
    BY <2>1, <2>2, <2>3, <2>4
<1> SUFFICES ASSUME Ever(s)' = Ever(s) PROVE ScanInv(s, c)'
  <2>1. \A d \in Commands \ {c} : Same(d)
    BY <1>1, <1>3 DEF IInv, ShapeInv, SInv, FoundShape, Same, Fail, Goto
  <2>2. FoundShape'
    BY <1>1 DEF SInv, FoundShape
  <2> QED
    BY <1>1, <1>2, <2>1, <2>2, OwnStep
<1>4. spentSince(c)' = spentSince(c)
  <2>1. \A e \in accepted : tx'[e] = tx[e]
    BY <1>2, <1>3 DEF IInv, ShapeInv
  <2> QED
    BY <1>1, <2>1 DEF spentSince
<1>5. BeganAt(c)'
  BY <1>1, <1>2, <1>4 DEF ScanInv, BeganAt
<1>6. CASE \E error \in {"noChangeAddress", "undecodable", "insufficient"} :
             /\ Fail(c, error) /\ UNCHANGED tx
             /\ error = "insufficient" => RefusalTrue(c)
  <2>1. PICK error \in {"noChangeAddress", "undecodable", "insufficient"} :
             /\ Fail(c, error) /\ UNCHANGED tx
             /\ error = "insufficient" => RefusalTrue(c)
    BY <1>6
  <2>2. pc'[c] = "failed" /\ why'[c] = error /\ UNCHANGED tx
    BY <2>1 DEF Fail, IInv, ShapeInv
  <2>3. KeptAt(s, c)'
    BY <1>1, <1>2, <2>2 DEF ScanInv, KeptAt, Errors, allAddresses, legacyAddresses, segwitAddresses
  <2>4. PlaceAt(c)'
    BY <2>2 DEF PlaceAt
  <2>5. QuietAt(c)'
    BY <2>1, <2>2 DEF QuietAt
  <2>6. BuiltAt(s, c)' /\ FoundAt(c)'
    BY <2>2 DEF BuiltAt, FoundAt
  <2>7. RefusalTrue(c) => RefusalTrue(c)'
    BY <1>1 DEF RefusalTrue, quiet, coversCost, sourceAddresses, isSegwitSend, allAddresses,
         legacyAddresses, segwitAddresses
  <2> QED
    BY <1>5, <2>1, <2>2, <2>3, <2>4, <2>5, <2>6, <2>7 DEF ScanInv
<1>7. CASE \E sel \in selections(c) : \E address : \E saved \in Savings :
             /\ sel.err = "nil" /\ Goto(c, "broadcasting")
             /\ tx' = [tx EXCEPT ![c] = txOf(sel.result, address, saved)]
  <2>1. PICK sel \in selections(c), saved \in Savings : \E address :
             /\ sel.err = "nil" /\ Goto(c, "broadcasting")
             /\ tx' = [tx EXCEPT ![c] = txOf(sel.result, address, saved)]
    BY <1>7
  <2>2. PICK address :
             /\ sel.err = "nil" /\ Goto(c, "broadcasting")
             /\ tx' = [tx EXCEPT ![c] = txOf(sel.result, address, saved)]
    BY <2>1
  <2> DEFINE t == txOf(sel.result, address, saved)
             p == TotalOf(t.inputs) - request[c].amount - t.change
  <2>3. pc'[c] = "broadcasting" /\ UNCHANGED why /\ tx'[c] = t
    BY <2>2 DEF Goto, IInv, ShapeInv
  <2>4. /\ t.inputs \subseteq pool[c] /\ t.saved = saved
        /\ t.size = estimate(t) /\ Worth(s, t.change)
        /\ p >= t.size * feeRate[c]
        /\ p <= (t.size + changeOutputSize) * feeRate[c]
    BY <1>1, <2>2, SelectionRight
  <2> HIDE DEF t
  <2>5. KeptAt(s, c)'
    BY <1>1, <1>2, <2>3, <2>4
       DEF ScanInv, KeptAt, Worth, allAddresses, legacyAddresses, segwitAddresses
  <2>6. PlaceAt(c)'
    BY <1>1, <1>2, <2>3 DEF PlaceAt, isSend
  <2>7. QuietAt(c)'
    <3>1. quiet(c)' => quiet(c)
      BY <1>1 DEF quiet, chain
    <3>2. quiet(c) => t.inputs \subseteq unspent
      BY <1>1, <1>2, <2>4 DEF ScanInv, QuietAt, coinsAt
    <3> QED
      BY <1>1, <1>2, <2>3, <3>1, <3>2 DEF QuietAt
  <2>8. BuiltAt(s, c)'
    <3>1. t.inputs \subseteq Ever(s) /\ \A coin \in t.inputs : coin.addr \in sourceAddresses(c)
      BY <1>1, <1>2, <2>4 DEF ScanInv, KeptAt, PlaceAt
    <3>2. paid(c)' = p
      BY <1>1, <2>3 DEF paid
    <3>3. sourceAddresses(c)' = sourceAddresses(c) /\ estimate(t)' = estimate(t)
      BY <1>1 DEF sourceAddresses, isSegwitSend, allAddresses, legacyAddresses, segwitAddresses,
         estimate, segwitOf, t
    <3> HIDE DEF p
    <3> QED
      BY <1>1, <2>3, <2>4, <3>1, <3>2, <3>3 DEF BuiltAt, Worth
  <2>9. FoundAt(c)' /\ why'[c] = "none"
    BY <1>2, <2>3 DEF FoundAt
  <2> QED
    BY <1>5, <2>5, <2>6, <2>7, <2>8, <2>9 DEF ScanInv
<1> QED
  BY <1>3, <1>6, <1>7

(* What the parts of a transaction on its way may be. *)
LEMMA PartsOfWeight ==
  ASSUME NEW s \in Setups, IInv, SInv(s), NEW c \in Commands, pc[c] = "broadcasting"
  PROVE  LET l == Cardinality(legacyInputs(c))
             g == Cardinality(segwitInputs(c))
         IN  /\ l \in Nat /\ g \in Nat /\ Cardinality(tx[c].inputs) = l + g
             /\ g = 0 <=> segwitInputs(c) = {}
             /\ tx[c].change \in Nat /\ tx[c].saved \in Nat
             /\ tx[c].size = 44 + 148 * l + 68 * g + (IF tx[c].change > 0 THEN 34 ELSE 0)
             /\ outputSizeOf(request[c].dest) \in {31, 32, 34, 43}
             /\ outputSizeOf(tx[c].changeAddr) \in {31, 34}
             /\ g > 0 => outputSizeOf(tx[c].changeAddr) = 31
<1> DEFINE L == legacyInputs(c)
           G == segwitInputs(c)
<1>1. KeptAt(s, c) /\ BuiltAt(s, c) /\ wallet = s.wallet
  BY DEF SInv, ScanInv, ChainInv
<1>2. IsFiniteSet(tx[c].inputs)
  <2>1. IsFiniteSet(Ever(s)) /\ tx[c].inputs \subseteq Ever(s)
    BY <1>1, EverBounded DEF SInv, BuiltAt, Priced
  <2> QED
    BY <2>1, FS_Subset
<1>3. L \cup G = tx[c].inputs /\ L \cap G = {} /\ L = tx[c].inputs \ G /\ G = segwitOf(tx[c].inputs)
  BY DEF legacyInputs, segwitInputs, segwitOf
<1> HIDE DEF L, G
<1>4. IsFiniteSet(L) /\ IsFiniteSet(G)
  BY <1>2, <1>3, FS_Subset
<1>5. Cardinality(L) \in Nat /\ Cardinality(G) \in Nat /\ (Cardinality(G) = 0 <=> G = {})
  BY <1>4, FS_CardinalityType, FS_EmptySet
<1>6. Cardinality(tx[c].inputs) = Cardinality(L) + Cardinality(G)
  <2>1. Cardinality(L \cup G) = Cardinality(L) + Cardinality(G) - Cardinality(L \cap G)
    BY <1>4, FS_Union
  <2> QED
    BY <1>3, <1>5, <2>1, FS_EmptySet
<1>7. tx[c].change \in Nat /\ tx[c].saved \in Nat
  BY <1>1, RatesAssumption DEF KeptAt
<1>8. tx[c].size = 44 + 148 * Cardinality(L) + 68 * Cardinality(G)
                     + (IF tx[c].change > 0 THEN 34 ELSE 0)
  <2>1. tx[c].size = currentSize(Cardinality(L), Cardinality(G))
                       + (IF tx[c].change > 0 THEN changeOutputSize ELSE 0)
    BY <1>1, <1>3 DEF BuiltAt, estimate
  <2> QED
    BY <1>5, <2>1
       DEF currentSize, baseSize, legacyInputSize, segwitInputSize, changeOutputSize
<1>9. outputSizeOf(request[c].dest) \in {31, 32, 34, 43}
  <2>1. request[c].dest \in LegacyDests \cup SegwitDests
    BY SpendingRequestsAssumption DEF IInv, ShapeInv
  <2> QED
    BY <2>1, OutputSizeAssumption DEF outputSizeOf
<1>10. legacyAddresses \cap segwitAddresses = {}
  BY <1>1, SetupsAssumption DEF legacyAddresses, segwitAddresses
<1>11. /\ tx[c].changeAddr \in sourceAddresses(c)
       /\ isSegwitSend(c) <=> tx[c].changeAddr \in segwitAddresses
  <2>1. tx[c].changeAddr \in changeAddresses(c)
    BY DEF IInv, RunInv, ChangeAt
  <2> QED
    BY <2>1, ChangeAddressesAreSources DEF IInv
<1>12. outputSizeOf(tx[c].changeAddr) \in {31, 34}
  BY <1>11 DEF outputSizeOf, sourceAddresses, allAddresses
<1>13. ASSUME G # {} PROVE outputSizeOf(tx[c].changeAddr) = 31
  <2>1. PICK coin \in tx[c].inputs : coin.addr \in segwitAddresses
    BY <1>13 DEF G, segwitInputs
  <2>2. coin.addr \in sourceAddresses(c)
    BY <1>1, <2>1 DEF BuiltAt
  <2>3. isSegwitSend(c)
    BY <1>10, <2>1, <2>2 DEF sourceAddresses
  <2> QED
    BY <1>11, <2>3 DEF outputSizeOf
<1>14. Cardinality(G) > 0 => outputSizeOf(tx[c].changeAddr) = 31
  BY <1>5, <1>13
<1> QED
  BY <1>5, <1>6, <1>7, <1>8, <1>9, <1>12, <1>14 DEF L, G

(***************************************************************************)
(* The arithmetic of sizes. In weight units, the bytes posted exceed the   *)
(* estimate by those of the number of inputs (n) above one, by what the    *)
(* destination's output (d) is above 34 and the change's (a) below it, and *)
(* by the marker, the flag and the witnesses' lengths, 2 + l.              *)
(***************************************************************************)
LEMMA EstimateArithmetic ==
  ASSUME NEW l \in Nat, NEW g \in Nat, NEW n \in {1, 3, 5}, NEW d \in {31, 32, 34, 43},
         NEW a \in {31, 34}, NEW ch \in BOOLEAN, g > 0 => a = 31
  PROVE  LET size == 44 + 148 * l + 68 * g + (IF ch THEN 34 ELSE 0)
             most == 4 * (9 + n + 148 * l + 41 * g + (d + (IF ch THEN a ELSE 0)))
                       + (IF g > 0 THEN 2 + l + 108 * g ELSE 0)
         IN  /\ size \in Nat /\ most \in Nat /\ most <= 8 * size
             /\ n = 1 /\ d <= 34 /\ (g > 0 => l <= 10 /\ (ch \/ d <= 31)) => most <= 4 * size
<1>1. CASE ch
  <2>1. CASE g > 0
    BY <1>1, <2>1
  <2>2. CASE g = 0
    BY <1>1, <2>2
  <2> QED
    BY <2>1, <2>2
<1>2. CASE ~ch
  <2>1. CASE g > 0
    BY <1>2, <2>1
  <2>2. CASE g = 0
    BY <1>2, <2>2
  <2> QED
    BY <2>1, <2>2
<1> QED
  BY <1>1, <1>2

(* What is estimated covers the bytes posted but in the cases named, and always covers half. *)
LEMMA WeightCovered ==
  ASSUME NEW s \in Setups, IInv, SInv(s), NEW c \in Commands, pc[c] = "broadcasting"
  PROVE  /\ tx[c].size \in Nat /\ weight(c) \in Int /\ weight(c) <= 8 * tx[c].size
         /\ ~underestimated(c) => weight(c) <= 4 * tx[c].size
<1> DEFINE l == Cardinality(legacyInputs(c))
           g == Cardinality(segwitInputs(c))
           n == countSize(l + g)
           d == outputSizeOf(request[c].dest)
           a == outputSizeOf(tx[c].changeAddr)
           ch == tx[c].change > 0
           w == tx[c].saved
           bytes == 9 + n + 148 * l + 41 * g + (d + (IF ch THEN a ELSE 0))
           witness == IF g > 0 THEN 2 + l + 108 * g ELSE 0
           most == 4 * bytes + witness
<1>1. /\ l \in Nat /\ g \in Nat /\ Cardinality(tx[c].inputs) = l + g
      /\ g = 0 <=> segwitInputs(c) = {}
      /\ tx[c].change \in Nat /\ w \in Nat
      /\ tx[c].size = 44 + 148 * l + 68 * g + (IF ch THEN 34 ELSE 0)
      /\ d \in {31, 32, 34, 43} /\ a \in {31, 34} /\ (g > 0 => a = 31)
  BY PartsOfWeight
<1>2. n \in {1, 3, 5} /\ (l + g < 253 => n = 1)
  BY DEF countSize
<1>3. weight(c) = most - w
  <2>1. weight(c) = 4 * bytes + (witness - w)
    BY DEF weight
  <2>2. bytes \in Nat /\ witness \in Nat
    <3> HIDE DEF l, g, n, d, a, ch
    <3> QED
      BY <1>1, <1>2
  <2> HIDE DEF bytes, witness, w
  <2> QED
    BY <1>1, <2>1, <2>2
<1>4. ch \in BOOLEAN /\ (~ch <=> tx[c].change = 0)
  BY <1>1
<1>5. ~underestimated(c) => l + g < 253 /\ d <= 34 /\ (g > 0 => l <= 10 /\ (ch \/ d <= 31))
  <2> HIDE DEF l, g, d, ch
  <2>1. underestimated(c) <=>
          d > 34 \/ l + g >= 253 \/ (g # 0 /\ ((tx[c].change = 0 /\ d > 31) \/ l > 10))
    BY <1>1 DEF underestimated, l, d
  <2> QED
    BY <1>1, <1>4, <2>1
<1> HIDE DEF l, g, n, d, a, ch, w
<1>6. /\ tx[c].size \in Nat /\ most \in Nat /\ most <= 8 * tx[c].size
      /\ n = 1 /\ d <= 34 /\ (g > 0 => l <= 10 /\ (ch \/ d <= 31)) => most <= 4 * tx[c].size
  BY <1>1, <1>2, <1>4, EstimateArithmetic
<1> HIDE DEF most
<1> QED
  BY <1>1, <1>2, <1>3, <1>5, <1>6

(* The node finds fault with a transaction: not because of the run, if it is quiet. *)
LEMMA RejectionRight ==
  ASSUME NEW s \in Setups, IInv, SInv(s), NEW c \in Commands, NodeRejects(c), quiet(c)
  PROVE  RejectionTrue(c)
<1>1. pc[c] = "broadcasting" /\ ~valid(c)
  BY DEF NodeRejects
<1>2. tx[c].inputs \subseteq unspent
  BY <1>1 DEF SInv, ScanInv, QuietAt
<1>3. belowPolicy(c)
  BY <1>1, <1>2 DEF valid
<1>4. KeptAt(s, c) /\ BuiltAt(s, c)
  BY DEF SInv, ScanInv
<1>5. feeRate[c] \in Nat /\ tx[c].change \in Nat
  <2>1. \A rate \in FeeRates \cup {0} : rate \in Nat
    BY RatesAssumption
  <2> QED
    BY <1>4, <2>1 DEF KeptAt
<1>6. /\ tx[c].size \in Nat /\ weight(c) \in Int /\ weight(c) <= 8 * tx[c].size
      /\ ~underestimated(c) => weight(c) <= 4 * tx[c].size
  BY <1>1, WeightCovered
<1>7. paid(c) >= tx[c].size * feeRate[c] /\ paid(c) \in Int
  <2>1. Priced(tx[c].inputs)
    <3>1. Priced(Ever(s)) /\ tx[c].inputs \subseteq Ever(s)
      BY <1>1, <1>4, EverBounded DEF SInv, BuiltAt
    <3> QED
      BY <3>1, TotalSplit
  <2>2. TotalOf(tx[c].inputs) \in Nat
    BY <2>1, TotalType
  <2>3. request[c].amount \in Nat
    BY SpendingRequestsAssumption DEF IInv, ShapeInv
  <2>4. paid(c) \in Int
    BY <1>5, <2>2, <2>3 DEF paid
  <2> QED
    BY <1>1, <1>4, <2>4 DEF BuiltAt
<1>8. CASE 4 * paid(c) < weight(c)
  <2> DEFINE z == tx[c].size
             r == feeRate[c]
             p == paid(c)
             w == weight(c)
  <2>1. /\ z \in Nat /\ r \in Nat /\ p \in Int /\ w \in Int
        /\ p >= z * r /\ z * r = r * z /\ z * r \in Nat /\ 4 * p < w /\ w <= 8 * z
        /\ ~underestimated(c) => w <= 4 * z
    BY <1>5, <1>6, <1>7, <1>8
  <2> HIDE DEF z, r, p, w
  <2>2. r < 2
    <3> SUFFICES ASSUME r >= 2 PROVE FALSE
      BY <2>1
    <3>1. 2 * z <= r * z
      BY <2>1, CostMonotone
    <3> QED
      BY <2>1, <3>1
  <2>3. r = 1 => underestimated(c)
    BY <2>1
  <2> QED
    BY <2>1, <2>2, <2>3 DEF RejectionTrue, r
<1>9. CASE request[c].amount < dustOf(request[c].dest)
  BY <1>9 DEF RejectionTrue
<1>10. CASE tx[c].change > 0 /\ tx[c].change < dustOf(tx[c].changeAddr)
  <2>1. outputSizeOf(tx[c].changeAddr) \in {31, 34}
    BY <1>1, PartsOfWeight
  <2>2. dustOf(tx[c].changeAddr) \in Nat
    BY <2>1 DEF dustOf
  <2>3. tx[c].change \in 1 .. dustOf(tx[c].changeAddr) - 1
    BY <1>5, <1>10, <2>2
  <2> QED
    BY <2>3 DEF RejectionTrue
<1> QED
  BY <1>3, <1>8, <1>9, <1>10 DEF belowPolicy

(* The other steps of a run end it, or change nothing but its place. *)
LEMMA EndScan ==
  ASSUME NEW s \in Setups, IInv, SInv(s), NEW c \in Commands,
         NoAnswer(c) \/ NodeRejects(c) \/ Reply(c) \/ NoReply(c) \/ Crash(c)
  PROVE  SInv(s)'
<1>1. PlaceAt(c) /\ UNCHANGED <<chain, given, found, tx>>
  BY DEF SInv, ScanInv, NoAnswer, NodeRejects, Reply, NoReply, Crash
<1>2. \A where, error : pc' = [pc EXCEPT ![c] = where] /\ why' = [why EXCEPT ![c] = error] => why'[c] = error
  BY DEF IInv, ShapeInv
<1>3. CASE NoAnswer(c)
  BY <1>1, <1>2, <1>3, EndKeeps DEF NoAnswer, Fail, Ended, Errors
<1>4. CASE NodeRejects(c)
  BY <1>1, <1>2, <1>4, EndKeeps, RejectionRight DEF NodeRejects, Fail, Ended, Errors
<1>5. CASE Reply(c)
  <2>1. why[c] = "none"
    BY <1>1, <1>5 DEF Reply, PlaceAt
  <2> QED
    BY <1>1, <1>5, <2>1, EndKeeps DEF Reply, Goto, Ended, Errors
<1>6. CASE NoReply(c)
  <2>1. PICK error \in {"broadcast", "status"} : Fail(c, error)
    BY <1>6 DEF NoReply
  <2> QED
    BY <1>1, <1>2, <2>1, EndKeeps DEF Fail, Ended, Errors
<1>7. CASE Crash(c)
  <2>1. why[c] = "none"
    BY <1>1, <1>7 DEF Crash, PlaceAt, Running
  <2> QED
    BY <1>1, <1>7, <2>1, EndKeeps DEF Crash, Goto, Ended, Errors
<1> QED
  BY <1>3, <1>4, <1>5, <1>6, <1>7

(* Nothing happens. *)
LEMMA StillScan ==
  ASSUME NEW s \in Setups, SInv(s), UNCHANGED vars
  PROVE  SInv(s)'
<1>1. /\ UNCHANGED wallet /\ UNCHANGED request /\ UNCHANGED tx /\ UNCHANGED accepted
      /\ UNCHANGED unspent /\ UNCHANGED <<chain, given>> /\ UNCHANGED found /\ UNCHANGED ends
  BY DEF vars, chain, given
<1>2. Ever(s)' = Ever(s)
  BY <1>1 DEF Ever, changeCoin
<1>3. ChainInv(s)' /\ FoundShape'
  BY <1>1, <1>2 DEF SInv, ChainInv, FoundShape, found, isSend, allAddresses, legacyAddresses, segwitAddresses
<1>4. \A d \in Commands : ScanInv(s, d)'
  BY <1>1, <1>2, OthersKeep DEF SInv, Same, found, ends
<1> QED
  BY <1>3, <1>4 DEF SInv

(* The initial states: no run knows anything yet. *)
LEMMA InitScan == Init => \E s \in Setups : SInv(s)
<1> SUFFICES ASSUME Init PROVE \E s \in Setups : SInv(s)
  OBVIOUS
<1>1. PICK s \in Setups : wallet = s.wallet /\ unspent = s.coins
  BY DEF Init
<1>2. ChainInv(s)
  <2>1. accepted = {}
    BY DEF Init
  <2>2. \A coin \in s.coins : coin.addr \in allAddresses
    BY <1>1, SetupsAssumption DEF allAddresses, legacyAddresses, segwitAddresses
  <2> QED
    BY <1>1, <2>1, <2>2 DEF ChainInv, Ever
<1>3. FoundShape
  BY DEF Init, FoundShape
<1>4. ASSUME NEW c \in Commands PROVE ScanInv(s, c)
  <2>1. /\ pc[c] = "idle" /\ why[c] = "none" /\ toScan[c] = {} /\ began[c] = chain /\ balance[c] = 0
        /\ pool[c] = {} /\ feeRate[c] = 0 /\ tx[c].change = 0 /\ tx[c].saved = 0
    BY DEF Init, NoTx
  <2>2. KeptAt(s, c)
    BY <2>1, RatesAssumption DEF KeptAt, Errors
  <2>3. PlaceAt(c)
    BY <2>1 DEF PlaceAt
  <2>4. BeganAt(c)
    BY <2>1 DEF BeganAt, chain
  <2>5. FoundAt(c) /\ QuietAt(c) /\ BuiltAt(s, c)
    BY <2>1 DEF FoundAt, QuietAt, BuiltAt
  <2> QED
    BY <2>1, <2>2, <2>3, <2>4, <2>5 DEF ScanInv
<1> QED
  BY <1>2, <1>3, <1>4 DEF SInv

(* Every step keeps the invariant. *)
LEMMA NextScan ==
  ASSUME NEW s \in Setups, IInv, SInv(s), [Next]_vars
  PROVE  SInv(s)'
BY StartScan, AskCoinsScan, BalanceKnownScan, CoinsKnownScan, AskFeesScan, BuildScan, BroadcastScan,
   EndScan, DepositScan, StillScan DEF Next, Step, AllEnded

(* The invariant for the wallet and the coins that the behaviour began with. *)
SomeSInv == \E s \in Setups : SInv(s)

(* Both invariants hold of every behaviour. *)
LEMMA SInvAlways == Spec => [](IInv /\ SomeSInv)
<1>1. Init => SomeSInv
  BY InitScan DEF SomeSInv
<1>2. IInv /\ SomeSInv /\ [Next]_vars => SomeSInv'
  BY NextScan DEF SomeSInv
<1> QED
  BY <1>1, <1>2, InitInv, NextInv, PTL DEF Spec

(* The types of the variables. *)
THEOREM SpendingTypeCorrect == Spec => []TypeOK
<1>1. IInv /\ SomeSInv => TypeOK
  <2> SUFFICES ASSUME IInv, NEW s \in Setups, SInv(s) PROVE TypeOK
    BY DEF SomeSInv
  <2>1. \A c \in Commands : KeptAt(s, c)
    BY DEF SInv, ScanInv
  <2>2. \A coin \in unspent : coin.value \in Nat /\ coin.addr \in allAddresses
    BY EverBounded DEF SInv, ChainInv, Priced
  <2>3. accepted \subseteq {c \in Commands : isSend(c)}
    BY DEF IInv, ShapeInv, SInv, ChainInv
  <2>4. why \in [Commands -> Errors]
    BY <2>1 DEF IInv, ShapeInv, KeptAt
  <2>5. /\ toScan \in [Commands -> SUBSET allAddresses] /\ balance \in [Commands -> Nat]
        /\ feeRate \in [Commands -> FeeRates \cup {0}]
    BY <2>1 DEF SInv, FoundShape, KeptAt
  <2>6. \A c \in Commands : /\ \A coin \in pool[c] : coin.addr \in allAddresses
                           /\ tx[c].change \in Nat /\ tx[c].saved \in Savings
    BY <2>1 DEF KeptAt
  <2> QED
    BY <2>2, <2>3, <2>4, <2>5, <2>6 DEF TypeOK, IInv, ShapeInv
<1> QED
  BY <1>1, SInvAlways, PTL

(***************************************************************************)
(* However many addresses are asked, one by one and in any order, while    *)
(* runs spend and strangers pay: the balance counts every coin that was    *)
(* there from the first question to the last, and only coins that were     *)
(* there at some time in between, once each.                               *)
(***************************************************************************)
THEOREM BalanceIsRight == Spec => []BalanceBracketed
<1>1. IInv /\ SomeSInv => BalanceBracketed
  <2> SUFFICES ASSUME IInv, NEW s \in Setups, SInv(s), NEW c \in Commands,
                      pc[c] = "balance", toScan[c] = {}
               PROVE  /\ TotalOf(staying(c)) <= balance[c]
                      /\ balance[c] <= TotalOf(unspent \cup spentSince(c))
    BY DEF SomeSInv, BalanceBracketed, staying
  <2>1. FoundAt(c)
    BY DEF SInv, ScanInv
  <2>2. PICK coins : Counted(c, coins)
    BY <2>1 DEF FoundAt
  <2> DEFINE all == unspent \cup spentSince(c)
  <2>3. staying(c) \subseteq coins /\ coins \subseteq all /\ balance[c] = TotalOf(coins)
    BY <2>2 DEF Counted
  <2>4. Priced(all)
    BY PricedChain
  <2> HIDE DEF all
  <2>5. /\ Priced(coins) /\ TotalOf(all) = TotalOf(coins) + TotalOf(all \ coins)
        /\ TotalOf(coins) \in Nat /\ TotalOf(all \ coins) \in Nat
    BY <2>3, <2>4, TotalSplit
  <2>6. /\ TotalOf(coins) = TotalOf(staying(c)) + TotalOf(coins \ staying(c))
        /\ TotalOf(staying(c)) \in Nat /\ TotalOf(coins \ staying(c)) \in Nat
    BY <2>3, <2>5, TotalSplit
  <2>7. TotalOf(staying(c)) <= balance[c] /\ balance[c] <= TotalOf(all)
    BY <2>3, <2>5, <2>6
  <2> QED
    BY <2>7 DEF all
<1> QED
  BY <1>1, SInvAlways, PTL

(***************************************************************************)
(* The node, which weighs the bytes posted, never has a reason of the      *)
(* program's making to reject a transaction built from a quiet scan, but a *)
(* dusty output, a rate below one, or a rate of one and a size that        *)
(* selectInputs underestimates: any rate above that makes up for it.       *)
(***************************************************************************)
THEOREM RejectionIsNotOurs == Spec => []QuietRejection
<1>1. IInv /\ SomeSInv => QuietRejection
  BY DEF SomeSInv, SInv, ScanInv, QuietAt, QuietRejection, RejectionTrue
<1> QED
  BY <1>1, SInvAlways, PTL

(***************************************************************************)
(* "insufficient funds" overlooks no coin that was there throughout the    *)
(* scan, whatever the chain did meanwhile: no choice of such coins covers  *)
(* a send of legacy coins, and after a quiet scan all of them do not cover *)
(* a send of either kind.                                                  *)
(***************************************************************************)
THEOREM RefusalIsRight == Spec => []NoCoinOverlooked
<1>1. IInv /\ SomeSInv => NoCoinOverlooked
  BY DEF SomeSInv, SInv, ScanInv, NoCoinOverlooked, RefusalTrue
<1> QED
  BY <1>1, SInvAlways, PTL

(***************************************************************************)
(* No step takes value from the wallet but the acceptance of a transaction *)
(* it has built, which takes the amount, a fee at the rate read and at     *)
(* most the price of one change output.                                    *)
(***************************************************************************)
THEOREM LossIsExplained == Spec => LossExplained
<1> DEFINE Explained ==
             TotalOf(unspent') < TotalOf(unspent) =>
               \E c \in accepted' \ accepted :
                 LET fee == TotalOf(unspent) - TotalOf(unspent') - request[c].amount
                 IN  /\ fee >= tx[c].size * feeRate[c]
                     /\ fee <= (tx[c].size + changeOutputSize) * feeRate[c]
<1>1. ASSUME IInv, NEW s \in Setups, SInv(s), [Next]_vars PROVE Explained
  <2>1. Priced(unspent) /\ TotalOf(unspent) \in Nat
    <3>1. Priced(Ever(s)) /\ unspent \subseteq Ever(s)
      BY <1>1, EverBounded DEF SInv, ChainInv
    <3> QED
      BY <3>1, TotalSplit
  <2>2. CASE UNCHANGED unspent
    BY <2>1, <2>2
  <2>3. ASSUME NEW coin \in Deposits, Deposit(coin) PROVE Explained
    <3>1. unspent' = unspent \cup {coin} /\ coin \notin unspent
      BY <2>3 DEF Deposit
    <3>2. coin.value \in Nat
      BY <1>1, CoinsAssumption
    <3>3. Priced({coin}) /\ TotalOf({coin}) = coin.value
      BY <3>2, TotalOfFew
    <3>4. unspent \cap {coin} = {}
      BY <3>1
    <3>5. TotalOf(unspent') = TotalOf(unspent) + TotalOf({coin})
      BY <2>1, <3>1, <3>3, <3>4, TotalUnion
    <3> QED
      BY <2>1, <3>2, <3>3, <3>5
  <2>4. ASSUME NEW c \in Commands, Broadcast(c) PROVE Explained
    <3>1. /\ c \notin accepted /\ accepted' = accepted \cup {c}
          /\ TotalOf(unspent') = TotalOf(unspent) - TotalOf(tx[c].inputs) + tx[c].change
          /\ TotalOf(unspent) \in Nat /\ TotalOf(tx[c].inputs) \in Nat /\ tx[c].change \in Nat
      BY <1>1, <2>4, BroadcastMoves
    <3>2. /\ paid(c) >= tx[c].size * feeRate[c]
          /\ paid(c) <= (tx[c].size + changeOutputSize) * feeRate[c]
      BY <1>1, <2>4 DEF Broadcast, SInv, ScanInv, BuiltAt
    <3>3. request[c].amount \in Nat
      BY <1>1, SpendingRequestsAssumption DEF IInv, ShapeInv
    <3>4. TotalOf(unspent) - TotalOf(unspent') - request[c].amount = paid(c)
      BY <3>1, <3>3 DEF paid
    <3>5. c \in accepted' \ accepted
      BY <3>1
    <3> QED
      BY <3>2, <3>4, <3>5
  <2>5. \/ UNCHANGED unspent
        \/ \E coin \in Deposits : Deposit(coin)
        \/ \E c \in Commands : Broadcast(c)
    BY <1>1 DEF Next, Step, AllEnded, vars, chain, Start, AskCoins, NoAnswer, BalanceKnown, CoinsKnown,
       AskFees, Build, NodeRejects, Reply, NoReply, Crash
  <2> QED
    BY <2>2, <2>3, <2>4, <2>5
<1>2. IInv /\ SomeSInv /\ [Next]_vars => [Explained]_vars
  BY <1>1 DEF SomeSInv
<1> QED
  BY <1>2, SInvAlways, PTL DEF Spec, LossExplained
=============================================================================
