---------------------------- MODULE Backup_proofs ----------------------------
(***************************************************************************)
(* What export and import promise, proved for any number of names, keys,   *)
(* addresses and commands, any buffer and any files of other programs,     *)
(* with any command failing or killed at any point.                        *)
(***************************************************************************)
EXTENDS Backup, FiniteSetTheorems, TLAPS

(***************************************************************************)
(* Two things that files of other programs, whose addresses import does    *)
(* not check, need not have. A wallet is unambiguous if maps that share an *)
(* address agree on its key and kind, and genuine if every address is that *)
(* of its key and among those of its kind.                                 *)
(***************************************************************************)
Agree(w) ==
  \A m1, m2 \in Maps : \A a \in DOMAIN w[m1] \cap DOMAIN w[m2] : w[m1][a] = w[m2][a]

Fit(w) ==
  \A m \in Maps : \A a \in DOMAIN w[m] :
    /\ w[m][a] = [key |-> a.key, legacy |-> a.legacy]
    /\ a.legacy = (m \in {"ReceiversLegacy", "ChangeLegacy"})

(* All wallets there are at first, and all that foreign files give, are so. *)
Unambiguous ==
  /\ \A s \in Stores : \A i \in DOMAIN s : Agree(s[i])
  /\ \A f \in DOMAIN ForeignTexts : Agree(walletOf(f.type, ForeignTexts[f]))

Genuine ==
  /\ \A s \in Stores : \A i \in DOMAIN s : Fit(s[i])
  /\ \A f \in DOMAIN ForeignTexts : Fit(walletOf(f.type, ForeignTexts[f]))

Proper(w) == (Unambiguous => Agree(w)) /\ (Genuine => Fit(w))

(* Every row in these lines is that of an address of the wallet w. *)
From(lines, w) ==
  \A n \in DOMAIN lines : lines[n].line = "row" =>
    \E a \in DOMAIN allAddresses(w) : lines[n] = rowOf(a, allAddresses(w)[a])

(* The text of a whole export of the wallet w. *)
Text(lines, type, w) ==
  /\ lines \in Seq(Lines) /\ lines # <<>> /\ From(lines, w)
  /\ \A a \in DOMAIN allAddresses(w) : \E n \in rowsIn(type, lines) : lines[n].address = a
  /\ \A n \in DOMAIN lines : lines[n] # Torn
  /\ \A n \in DOMAIN lines : lines[n] = Close <=> type = "json" /\ n = Len(lines)

(* What an export of the wallet w leaves in a file, wherever it stops. *)
Trace(lines, type, w) ==
  /\ From(lines, w)
  /\ type = "json" /\ Readable(type, lines) => Text(lines, type, w)

Acceptable(f, testnet) ==
  /\ Readable(f.type, files[f])
  /\ \A n \in rowsIn(f.type, files[f]) : files[f][n].testnet = testnet

(***************************************************************************)
(* The inductive invariant. Its two type parts are TypeOK and more.        *)
(***************************************************************************)
DiskType ==
  /\ DOMAIN wallets \subseteq Ids /\ spoilt \subseteq Ids \ DOMAIN wallets
  /\ \A i \in DOMAIN wallets : isWallet(wallets[i])
  /\ files \in [Files -> Seq(Lines) \cup {NoFile}]
  /\ DOMAIN backup = ExportFiles

RunType ==
  /\ runs \in 0 .. MaxRuns
  /\ run \in [pc : Running \cup Ended, id : Ids \cup {NoWallet}, file : Files \cup {NoFile},
              text : Seq(Lines), taken : Nat, flushed : Nat, wallet : {run.wallet}]
  /\ isWallet(run.wallet)
  /\ run.flushed <= run.taken /\ run.taken <= Len(run.text)
  /\ run.pc \notin {"idle", "failed"} => run.id \in Ids /\ run.file \in Files

(* An export knows the wallet it copies, and a file that is being written. *)
ExportAt ==
  /\ run.pc \in {"exporting", "writing", "exported"} => run.file \in ExportFiles
  /\ run.pc \in {"exporting", "writing"} =>
       run.id \in DOMAIN wallets /\ wallets[run.id] = run.wallet
  /\ run.pc = "exporting" => run.taken = 0 /\ run.flushed = 0
  /\ run.pc = "writing" =>
       /\ Text(run.text, run.file.type, run.wallet)
       /\ backup[run.file] =
            [id |-> run.id, keys |-> entriesOf(run.wallet), status |-> "begun"]

(* An import's file is what it was when it was read. *)
ImportAt ==
  /\ run.pc \in {"importing", "checking", "saving", "imported", "refused"} =>
       files[run.file] # NoFile
  /\ run.pc \in {"checking", "saving", "imported"} => Readable(run.file.type, files[run.file])
  /\ run.pc \in {"checking", "saving"} =>
       run.wallet = walletOf(run.file.type, files[run.file])
  /\ run.pc = "saving" => run.id \notin DOMAIN wallets \cup spoilt
  /\ run.pc = "imported" =>
       /\ run.id \in DOMAIN wallets
       /\ wallets[run.id] = walletOf(run.file.type, files[run.file])
  /\ run.pc = "refused" => ~Acceptable(run.file, run.id.testnet)

(* Every export file is what the export of some wallet has left in it. *)
Source(f, w) ==
  /\ isWallet(w) /\ Proper(w) /\ Trace(files[f], f.type, w)
  /\ backup[f] = [id |-> backup[f].id, keys |-> entriesOf(w), status |-> backup[f].status]
  /\ backup[f].status = "whole" => Text(files[f], f.type, w)

Sourced ==
  \A f \in ExportFiles :
    /\ backup[f] = NoBackup <=> files[f] = NoFile
    /\ backup[f] # NoBackup => \E w : Source(f, w)

(* Neither a wallet nor a file has lost what all had at first. *)
KeptProper ==
  /\ \A i \in DOMAIN wallets : Proper(wallets[i])
  /\ \A f \in Files : files[f] # NoFile => Proper(walletOf(f.type, files[f]))

BInv == DiskType /\ RunType /\ ExportAt /\ ImportAt /\ Sourced /\ KeptProper

------------------------------------------------------------------------------
(***************************************************************************)
(* Maps of addresses.                                                      *)
(***************************************************************************)

(* Every set of natural numbers with an upper bound has a greatest member. *)
LEMMA GreatestMember ==
  ASSUME NEW n \in Nat, NEW S \in SUBSET (1 .. n), S # {}
  PROVE  Max(S) \in S /\ \A k \in S : Max(S) >= k
<1> DEFINE R    == {pair \in Nat \X Nat : pair[1] < pair[2]}
           back == {n - k : k \in S}
<1>1. IsWellFoundedOn(R, Nat)
  BY NatLessThanWellFounded DEF OpToRel
<1>3. \A j, k \in Nat : <<j, k>> \in R <=> j < k
  OBVIOUS
<1> HIDE DEF R
<1>2. back \in SUBSET Nat /\ back # {}
  <2>1. \A k \in S : n - k \in Nat
    OBVIOUS
  <2>2. PICK k : k \in S
    OBVIOUS
  <2>3. n - k \in back
    BY <2>2
  <2> QED
    BY <2>1, <2>3
<1>4. PICK l \in back : \A j \in back : <<j, l>> \notin R
  <2> HIDE DEF back
  <2> QED
    BY <1>1, <1>2, WFMin
<1>5. PICK m \in S : l = n - m
  BY <1>4
<1>6. \A k \in S : n - k \in back /\ n - k \in Nat /\ l \in Nat
  BY <1>2, <1>4
<1>7. \A k \in S : ~(n - k < n - m)
  BY <1>3, <1>4, <1>5, <1>6
<1>8. m \in S /\ \A k \in S : m >= k
  BY <1>7
<1> QED
  BY <1>8 DEF Max

(* A finite set of positions has finitely many images. *)
LEMMA ImageFinite ==
  ASSUME NEW n \in Nat, NEW D \in SUBSET (1 .. n), NEW g
  PROVE  IsFiniteSet({g[k] : k \in D})
<1> DEFINE f == [k \in D |-> g[k]]
<1>1. IsFiniteSet(D)
  <2>1. IsFiniteSet(1 .. n)
    BY FS_Interval
  <2> QED
    BY <2>1, FS_Subset
<1>2. f \in Surjection(D, {g[k] : k \in D})
  BY DEF Surjection
<1> QED
  BY <1>1, <1>2, FS_Surjection

(* Maps put together are a map, and each entry is that of one of them. *)
LEMMA TogetherMap ==
  ASSUME NEW m1, NEW m2, NEW m3, NEW m4, isMap(m1), isMap(m2), isMap(m3), isMap(m4)
  PROVE  isMap(together(m1, m2, m3, m4))
<1> DEFINE D == DOMAIN m1 \cup DOMAIN m2 \cup DOMAIN m3 \cup DOMAIN m4
           t == together(m1, m2, m3, m4)
<1>1. IsFiniteSet(D)
  BY FS_Union DEF isMap
<1>2. DOMAIN t = D
  BY DEF together
<1>3. \A a \in D : t[a] \in Entries
  BY DEF together, isMap
<1>4. D \subseteq Addresses
  BY DEF isMap
<1>5. t \in [DOMAIN t -> Entries]
  BY <1>2, <1>3 DEF together
<1> QED
  BY <1>1, <1>2, <1>4, <1>5 DEF isMap

(* The two ways of putting a wallet's maps together. *)
LEMMA Together ==
  ASSUME NEW w, isWallet(w)
  PROVE  /\ isMap(entriesOf(w)) /\ isMap(allAddresses(w))
         /\ \A a \in DOMAIN allAddresses(w) :
              \E m \in Maps : a \in DOMAIN w[m] /\ allAddresses(w)[a] = w[m][a]
         /\ \A a \in DOMAIN entriesOf(w) :
              \E m \in Maps : a \in DOMAIN w[m] /\ entriesOf(w)[a] = w[m][a]
<1>1. \A m \in Maps : isMap(w[m])
  BY DEF isWallet
<1>2. isMap(entriesOf(w)) /\ isMap(allAddresses(w))
  BY <1>1, TogetherMap DEF entriesOf, allAddresses, Maps
<1>3. \A a \in DOMAIN allAddresses(w) :
         \E m \in Maps : a \in DOMAIN w[m] /\ allAddresses(w)[a] = w[m][a]
  BY DEF together, allAddresses, Maps
<1>4. \A a \in DOMAIN entriesOf(w) :
         \E m \in Maps : a \in DOMAIN w[m] /\ entriesOf(w)[a] = w[m][a]
  BY DEF together, entriesOf, Maps
<1> QED
  BY <1>2, <1>3, <1>4

(* In an unambiguous wallet the order of the maps is of no importance. *)
LEMMA SameTogether ==
  ASSUME NEW w, Agree(w)
  PROVE  entriesOf(w) = allAddresses(w)
BY DEF together, entriesOf, allAddresses, Maps, Agree

------------------------------------------------------------------------------
(***************************************************************************)
(* What a file gives back.                                                 *)
(***************************************************************************)

(* A line that is a row is one of Rows. *)
LEMMA RowType ==
  ASSUME NEW lines \in Seq(Lines), NEW n \in DOMAIN lines, lines[n].line = "row"
  PROVE  lines[n] \in Rows
BY DEF Lines, Header, Open, Close, Torn

(* What import makes of a row. *)
entryOf(row) == [key |-> row.key, legacy |-> row.prefix = "p2pkh"]

(* It is an entry of a map. *)
LEMMA EntryType ==
  ASSUME NEW row \in Rows
  PROVE  entryOf(row) \in Entries
<1>1. row.key \in Keys
  BY DEF Rows
<1>2. \A b \in BOOLEAN : [key |-> row.key, legacy |-> b] \in Entries
  BY <1>1 DEF Entries
<1>3. CASE row.prefix = "p2pkh"
  BY <1>2, <1>3 DEF entryOf
<1>4. CASE row.prefix # "p2pkh"
  BY <1>2, <1>4 DEF entryOf
<1> QED
  BY <1>3, <1>4

(* The map of the rows with a prefix. *)
LEMMA MapOfRows ==
  ASSUME NEW type, NEW lines \in Seq(Lines), NEW pre
  PROVE  /\ isMap(mapOf(type, lines, pre))
         /\ \A n \in rowsIn(type, lines) :
              lines[n].prefix = pre => lines[n].address \in DOMAIN mapOf(type, lines, pre)
         /\ \A a \in DOMAIN mapOf(type, lines, pre) :
              \E n \in rowsIn(type, lines) :
                /\ lines[n].prefix = pre /\ lines[n].address = a
                /\ mapOf(type, lines, pre)[a] = entryOf(lines[n])
<1> DEFINE rows == {n \in rowsIn(type, lines) : lines[n].prefix = pre}
           last(a) == Max({n \in rows : lines[n].address = a})
           m == mapOf(type, lines, pre)
           g == [n \in rows |-> lines[n].address]
<1>1. rows \in SUBSET (1 .. Len(lines)) /\ Len(lines) \in Nat
  BY DEF rowsIn
<1>2. m = [a \in {lines[n].address : n \in rows} |->
             [key |-> lines[last(a)].key, legacy |-> pre = "p2pkh"]]
  BY DEF mapOf
<1>3. \A n \in rows : lines[n] \in Rows
  BY RowType DEF rowsIn
<1>4. {lines[n].address : n \in rows} = {g[n] : n \in rows}
  OBVIOUS
<1> HIDE DEF rows, g, m
<1>5. IsFiniteSet({lines[n].address : n \in rows})
  BY <1>1, <1>4, ImageFinite
<1>6. ASSUME NEW a \in {lines[n].address : n \in rows}
      PROVE  last(a) \in rows /\ lines[last(a)].address = a
  <2> DEFINE those == {n \in rows : lines[n].address = a}
  <2>1. those \in SUBSET (1 .. Len(lines)) /\ those # {}
    BY <1>1
  <2> HIDE DEF those
  <2>2. Max(those) \in those
    BY <1>1, <2>1, GreatestMember
  <2> QED
    BY <2>2 DEF those
<1> HIDE DEF last
<1>7. DOMAIN m = {lines[n].address : n \in rows}
  BY <1>2
<1>8. \A a \in DOMAIN m : m[a] = [key |-> lines[last(a)].key, legacy |-> pre = "p2pkh"]
  BY <1>2
<1>9. \A a \in DOMAIN m : a \in Addresses
  BY <1>3, <1>7 DEF Rows
<1>12. \A a \in DOMAIN m : \E n \in rows : lines[n].address = a /\ m[a] = entryOf(lines[n])
  <2> SUFFICES ASSUME NEW a \in DOMAIN m
               PROVE  \E n \in rows : lines[n].address = a /\ m[a] = entryOf(lines[n])
    OBVIOUS
  <2>1. last(a) \in rows /\ lines[last(a)].address = a
    BY <1>6, <1>7
  <2>2. lines[last(a)].prefix = pre
    BY <2>1 DEF rows
  <2>3. m[a] = entryOf(lines[last(a)])
    BY <1>8, <2>2 DEF entryOf
  <2> QED
    BY <2>1, <2>3
<1>10. \A a \in DOMAIN m : m[a] \in Entries
  BY <1>3, <1>12, EntryType
<1>11. isMap(m)
  BY <1>2, <1>5, <1>7, <1>9, <1>10 DEF isMap
<1>13. \A n \in rows : lines[n].address \in DOMAIN m
  BY <1>7
<1> QED
  BY <1>11, <1>12, <1>13 DEF m, rows

(***************************************************************************)
(* Each row is in the map of its prefix as it is, or a later one for the   *)
(* same address.                                                           *)
(***************************************************************************)
LEMMA RowIsTaken ==
  ASSUME NEW type, NEW lines \in Seq(Lines), NEW pre, NEW n \in rowsIn(type, lines),
         lines[n].prefix = pre
  PROVE  LET m == mapOf(type, lines, pre)
             a == lines[n].address
         IN  /\ a \in DOMAIN m
             /\ \/ m[a] = entryOf(lines[n])
                \/ \E k \in rowsIn(type, lines) :
                     k > n /\ lines[k].prefix = pre /\ lines[k].address = a
<1> DEFINE rows == {k \in rowsIn(type, lines) : lines[k].prefix = pre}
           m == mapOf(type, lines, pre)
           a == lines[n].address
           those == {k \in rows : lines[k].address = a}
<1>1. those \in SUBSET (1 .. Len(lines)) /\ n \in those /\ Len(lines) \in Nat
  BY DEF rowsIn
<1>2. a \in DOMAIN m /\ m[a] = [key |-> lines[Max(those)].key, legacy |-> pre = "p2pkh"]
  BY DEF mapOf
<1> HIDE DEF those, m
<1>3. Max(those) \in those /\ Max(those) >= n
  BY <1>1, GreatestMember
<1>4. PICK k \in those : k = Max(those)
  BY <1>3
<1>5. k \in rowsIn(type, lines) /\ lines[k].prefix = pre /\ lines[k].address = a
      /\ k \in Nat /\ n \in Nat /\ k >= n
  BY <1>1, <1>3, <1>4 DEF those
<1>6. CASE k > n
  BY <1>2, <1>5, <1>6 DEF m
<1>7. CASE k = n
  <2>1. m[a] = entryOf(lines[n])
    BY <1>2, <1>4, <1>7 DEF entryOf
  <2> QED
    BY <1>2, <2>1 DEF m
<1> QED
  BY <1>5, <1>6, <1>7

(* The wallet that import builds has two maps; the others are empty. *)
LEMMA WalletOfLines ==
  ASSUME NEW type, NEW lines \in Seq(Lines)
  PROVE  LET w == walletOf(type, lines)
         IN  /\ isWallet(w)
             /\ w["ReceiversLegacy"] = mapOf(type, lines, "p2pkh")
             /\ w["ReceiversSegwit"] = mapOf(type, lines, "p2wpkh")
             /\ DOMAIN w["ChangeLegacy"] = {} /\ DOMAIN w["ChangeSegwit"] = {}
<1> DEFINE w == walletOf(type, lines)
<1>1. /\ w["ReceiversLegacy"] = mapOf(type, lines, "p2pkh")
      /\ w["ReceiversSegwit"] = mapOf(type, lines, "p2wpkh")
      /\ w["ChangeLegacy"] = EmptyMap /\ w["ChangeSegwit"] = EmptyMap
      /\ w = [m \in Maps |-> w[m]]
  BY DEF walletOf, EmptyWallet, Maps
<1>2. isMap(EmptyMap) /\ DOMAIN EmptyMap = {}
  <2>1. DOMAIN EmptyMap = {} /\ EmptyMap \in [DOMAIN EmptyMap -> Entries]
    BY DEF EmptyMap
  <2> QED
    BY <2>1, FS_EmptySet DEF isMap
<1>3. isMap(mapOf(type, lines, "p2pkh")) /\ isMap(mapOf(type, lines, "p2wpkh"))
  BY MapOfRows
<1> HIDE DEF w
<1>4. \A m \in Maps : isMap(w[m])
  BY <1>1, <1>2, <1>3 DEF Maps
<1> QED
  BY <1>1, <1>2, <1>4 DEF isWallet, w

(* All that import takes from a file: an entry for each address of its rows. *)
LEMMA EntriesOfLines ==
  ASSUME NEW type, NEW lines \in Seq(Lines)
  PROVE  LET e == entriesOf(walletOf(type, lines))
         IN  /\ \A a \in DOMAIN e :
                  \E n \in rowsIn(type, lines) :
                    /\ lines[n].prefix \in {"p2pkh", "p2wpkh"} /\ lines[n].address = a
                    /\ e[a] = entryOf(lines[n])
             /\ \A n \in rowsIn(type, lines) :
                  lines[n].prefix \in {"p2pkh", "p2wpkh"} => lines[n].address \in DOMAIN e
<1> DEFINE w == walletOf(type, lines)
<1>1. /\ w["ReceiversLegacy"] = mapOf(type, lines, "p2pkh")
      /\ w["ReceiversSegwit"] = mapOf(type, lines, "p2wpkh")
      /\ DOMAIN w["ChangeLegacy"] = {} /\ DOMAIN w["ChangeSegwit"] = {}
  BY WalletOfLines
<1> HIDE DEF w
<1>2. /\ DOMAIN entriesOf(w) = DOMAIN w["ReceiversLegacy"] \cup DOMAIN w["ReceiversSegwit"]
      /\ \A a \in DOMAIN entriesOf(w) :
           \/ a \in DOMAIN w["ReceiversLegacy"] /\ entriesOf(w)[a] = w["ReceiversLegacy"][a]
           \/ a \in DOMAIN w["ReceiversSegwit"] /\ entriesOf(w)[a] = w["ReceiversSegwit"][a]
  BY <1>1 DEF entriesOf, together
<1> DEFINE m(pre) == mapOf(type, lines, pre)
<1>3. \A pre : \A a \in DOMAIN m(pre) :
        \E n \in rowsIn(type, lines) :
          /\ lines[n].prefix = pre /\ lines[n].address = a
          /\ m(pre)[a] = entryOf(lines[n])
  BY MapOfRows
<1>6. \A n \in rowsIn(type, lines) : lines[n].address \in DOMAIN m(lines[n].prefix)
  BY MapOfRows
<1>7. w["ReceiversLegacy"] = m("p2pkh") /\ w["ReceiversSegwit"] = m("p2wpkh")
  BY <1>1
<1> HIDE DEF m
<1>4. \A n \in rowsIn(type, lines) :
        lines[n].prefix \in {"p2pkh", "p2wpkh"} => lines[n].address \in DOMAIN entriesOf(w)
  BY <1>2, <1>6, <1>7
<1>5. \A a \in DOMAIN entriesOf(w) :
         \E n \in rowsIn(type, lines) :
           /\ lines[n].prefix \in {"p2pkh", "p2wpkh"} /\ lines[n].address = a
           /\ entriesOf(w)[a] = entryOf(lines[n])
  <2> SUFFICES ASSUME NEW a \in DOMAIN entriesOf(w)
               PROVE  \E n \in rowsIn(type, lines) :
                        /\ lines[n].prefix \in {"p2pkh", "p2wpkh"} /\ lines[n].address = a
                        /\ entriesOf(w)[a] = entryOf(lines[n])
    OBVIOUS
  <2>1. PICK pre \in {"p2pkh", "p2wpkh"} : a \in DOMAIN m(pre) /\ entriesOf(w)[a] = m(pre)[a]
    BY <1>2, <1>7
  <2>2. PICK n \in rowsIn(type, lines) :
          /\ lines[n].prefix = pre /\ lines[n].address = a
          /\ m(pre)[a] = entryOf(lines[n])
    BY <1>3, <2>1
  <2> QED
    BY <2>1, <2>2
<1> QED
  BY <1>4, <1>5 DEF w

------------------------------------------------------------------------------
(***************************************************************************)
(* What an export writes is what an import reads.                          *)
(***************************************************************************)

(* A row gives back the entry it was made of, and is one of Rows. *)
LEMMA RowGivesBack ==
  ASSUME NEW a, NEW entry \in Entries
  PROVE  /\ rowOf(a, entry).line = "row" /\ rowOf(a, entry).address = a
         /\ rowOf(a, entry).prefix = prefixOf(entry) /\ rowOf(a, entry).testnet = wifNetwork
         /\ prefixOf(entry) \in {"p2pkh", "p2wpkh"}
         /\ entryOf(rowOf(a, entry)) = entry
         /\ a \in Addresses => rowOf(a, entry) \in Rows
<1> DEFINE row == rowOf(a, entry)
<1>1. row = [line |-> "row", address |-> a, prefix |-> prefixOf(entry),
             key |-> entry.key, testnet |-> wifNetwork]
  BY DEF rowOf
<1>2. PICK k \in Keys, b \in BOOLEAN : entry = [key |-> k, legacy |-> b]
  BY DEF Entries
<1>3. entry.key = k /\ entry.legacy = b
  BY <1>2
<1>4. prefixOf(entry) = IF b = TRUE THEN "p2pkh" ELSE "p2wpkh"
  BY <1>3 DEF prefixOf
<1>5. prefixOf(entry) \in KeyPrefixes
  BY <1>4 DEF KeyPrefixes
<1>6. wifNetwork = TRUE /\ wifNetwork \in BOOLEAN
  BY DEF wifNetwork
<1>7. /\ row.line = "row" /\ row.address = a /\ row.prefix = prefixOf(entry)
      /\ row.key = k /\ row.testnet = wifNetwork
  BY <1>1, <1>3
<1>8. a \in Addresses => row \in Rows
  BY <1>1, <1>3, <1>5, <1>6 DEF Rows
<1> HIDE DEF row
<1>9. entryOf(row) = entry
  <2>1. CASE b = TRUE
    BY <1>2, <1>4, <1>7, <2>1 DEF entryOf
  <2>2. CASE b = FALSE
    BY <1>2, <1>4, <1>7, <2>2 DEF entryOf
  <2> QED
    BY <2>1, <2>2
<1>10. prefixOf(entry) \in {"p2pkh", "p2wpkh"}
  BY <1>4
<1> QED
  BY <1>7, <1>8, <1>9, <1>10 DEF row

(* The prefix tells the kind. *)
LEMMA PrefixOfKind ==
  ASSUME NEW entry \in Entries
  PROVE  /\ entry.legacy \in BOOLEAN
         /\ prefixOf(entry) = "p2pkh" <=> entry.legacy = TRUE
BY DEF prefixOf, Entries

(* A row of a wallet's export gives back its entry for that address. *)
LEMMA RowOfSource ==
  ASSUME NEW w, isWallet(w), NEW lines, From(lines, w),
         NEW n \in DOMAIN lines, lines[n].line = "row"
  PROVE  LET a == lines[n].address
         IN  /\ a \in DOMAIN allAddresses(w) /\ allAddresses(w)[a] \in Entries
             /\ entryOf(lines[n]) = allAddresses(w)[a]
             /\ lines[n].testnet = wifNetwork
             /\ lines[n].prefix = prefixOf(allAddresses(w)[a])
             /\ lines[n].prefix \in {"p2pkh", "p2wpkh"}
<1>1. PICK a \in DOMAIN allAddresses(w) : lines[n] = rowOf(a, allAddresses(w)[a])
  BY DEF From
<1>2. allAddresses(w)[a] \in Entries
  <2>1. isMap(allAddresses(w))
    BY Together
  <2> QED
    BY <2>1 DEF isMap
<1>3. lines[n].address = a
  BY <1>1, <1>2, RowGivesBack
<1>4. /\ entryOf(lines[n]) = allAddresses(w)[a] /\ lines[n].testnet = wifNetwork
      /\ lines[n].prefix = prefixOf(allAddresses(w)[a])
      /\ lines[n].prefix \in {"p2pkh", "p2wpkh"}
  BY <1>1, <1>2, RowGivesBack
<1> QED
  BY <1>1, <1>2, <1>3, <1>4

(* Import takes a part of what was exported, with the same keys and kinds. *)
LEMMA PartGivenBack ==
  ASSUME NEW w, isWallet(w), NEW type, NEW lines \in Seq(Lines), From(lines, w)
  PROVE  Promise!isPart(entriesOf(walletOf(type, lines)), allAddresses(w))
<1> DEFINE e == entriesOf(walletOf(type, lines))
<1>1. ASSUME NEW a \in DOMAIN e
      PROVE  a \in DOMAIN allAddresses(w) /\ e[a] = allAddresses(w)[a]
  <2>1. PICK n \in rowsIn(type, lines) : lines[n].address = a /\ e[a] = entryOf(lines[n])
    BY EntriesOfLines
  <2>2. n \in DOMAIN lines /\ lines[n].line = "row"
    BY DEF rowsIn
  <2> QED
    BY <2>1, <2>2, RowOfSource
<1> QED
  BY <1>1 DEF Promise!isPart

(* From a whole text it takes everything. *)
LEMMA AllGivenBack ==
  ASSUME NEW w, isWallet(w), NEW type, NEW lines, Text(lines, type, w)
  PROVE  entriesOf(walletOf(type, lines)) = allAddresses(w)
<1> DEFINE e == entriesOf(walletOf(type, lines))
<1>1. lines \in Seq(Lines) /\ From(lines, w)
  BY DEF Text
<1>2. Promise!isPart(e, allAddresses(w))
  BY <1>1, PartGivenBack
<1>3. ASSUME NEW a \in DOMAIN allAddresses(w) PROVE a \in DOMAIN e
  <2>1. PICK n \in rowsIn(type, lines) : lines[n].address = a
    BY DEF Text
  <2>2. n \in DOMAIN lines /\ lines[n].line = "row"
    BY DEF rowsIn
  <2>3. lines[n].prefix \in {"p2pkh", "p2wpkh"}
    BY <1>1, <2>2, RowOfSource
  <2> QED
    BY <1>1, <2>1, <2>3, EntriesOfLines
<1>4. isMap(e) /\ isMap(allAddresses(w))
  BY <1>1, WalletOfLines, Together
<1> HIDE DEF e
<1>5. DOMAIN e = DOMAIN allAddresses(w) /\ \A a \in DOMAIN e : e[a] = allAddresses(w)[a]
  BY <1>2, <1>3 DEF Promise!isPart
<1>6. e = allAddresses(w)
  BY <1>4, <1>5 DEF isMap
<1> QED
  BY <1>6 DEF e

(* An address of a map stands in a row of the prefix of the map. *)
LEMMA RowOfEntry ==
  ASSUME NEW type, NEW lines \in Seq(Lines), NEW pre, NEW a \in DOMAIN mapOf(type, lines, pre)
  PROVE  \E n \in rowsIn(type, lines) : lines[n].prefix = pre /\ lines[n].address = a
<1> DEFINE rows == {n \in rowsIn(type, lines) : lines[n].prefix = pre}
<1>1. DOMAIN mapOf(type, lines, pre) = {lines[n].address : n \in rows}
  BY DEF mapOf
<1>2. a \in {lines[n].address : n \in rows}
  BY <1>1
<1> QED
  BY <1>2

(* No address of an export is given back as of two kinds. *)
LEMMA GivenBackAgrees ==
  ASSUME NEW w, isWallet(w), NEW type, NEW lines \in Seq(Lines), From(lines, w)
  PROVE  Agree(walletOf(type, lines))
<1> DEFINE u == walletOf(type, lines)
           legacy == mapOf(type, lines, "p2pkh")
           segwit == mapOf(type, lines, "p2wpkh")
<1>1. /\ u["ReceiversLegacy"] = legacy /\ u["ReceiversSegwit"] = segwit
      /\ DOMAIN u["ChangeLegacy"] = {} /\ DOMAIN u["ChangeSegwit"] = {}
  BY WalletOfLines
<1>2. ASSUME NEW a \in DOMAIN legacy, a \in DOMAIN segwit PROVE FALSE
  <2>1. PICK n \in rowsIn(type, lines) : lines[n].prefix = "p2pkh" /\ lines[n].address = a
    BY <1>2, RowOfEntry
  <2>2. PICK k \in rowsIn(type, lines) : lines[k].prefix = "p2wpkh" /\ lines[k].address = a
    BY <1>2, RowOfEntry
  <2>3. \A j \in rowsIn(type, lines) : j \in DOMAIN lines /\ lines[j].line = "row"
    BY DEF rowsIn
  <2>4. lines[n].prefix = prefixOf(allAddresses(w)[a])
    BY <2>1, <2>3, RowOfSource
  <2>5. lines[k].prefix = prefixOf(allAddresses(w)[a])
    BY <2>2, <2>3, RowOfSource
  <2> QED
    BY <2>1, <2>2, <2>4, <2>5
<1> HIDE DEF u, legacy, segwit
<1>3. Agree(u)
  BY <1>1, <1>2 DEF Agree, Maps
<1> QED
  BY <1>3 DEF u

(* If the wallet's addresses fit their keys, those that come back do. *)
LEMMA GivenBackFits ==
  ASSUME NEW w, isWallet(w), Fit(w), NEW type, NEW lines \in Seq(Lines), From(lines, w)
  PROVE  Fit(walletOf(type, lines))
<1> DEFINE u == walletOf(type, lines)
           all == allAddresses(w)
<1>1. /\ u["ReceiversLegacy"] = mapOf(type, lines, "p2pkh")
      /\ u["ReceiversSegwit"] = mapOf(type, lines, "p2wpkh")
      /\ DOMAIN u["ChangeLegacy"] = {} /\ DOMAIN u["ChangeSegwit"] = {}
  BY WalletOfLines
<1>2. \A a \in DOMAIN all : all[a] = [key |-> a.key, legacy |-> a.legacy]
  <2> TAKE a \in DOMAIN all
  <2>1. PICK m \in Maps : a \in DOMAIN w[m] /\ all[a] = w[m][a]
    BY Together
  <2> QED
    BY <2>1 DEF Fit
<1> DEFINE m(pre) == mapOf(type, lines, pre)
<1>8. \A pre : \A a \in DOMAIN m(pre) :
        \E n \in rowsIn(type, lines) :
          /\ lines[n].prefix = pre /\ lines[n].address = a
          /\ m(pre)[a] = entryOf(lines[n])
  BY ONLY MapOfRows, lines \in Seq(Lines) DEF m
<1>9. u["ReceiversLegacy"] = m("p2pkh") /\ u["ReceiversSegwit"] = m("p2wpkh")
  BY <1>1
<1> HIDE DEF u, all, m
<1>3. ASSUME NEW pre, NEW a \in DOMAIN m(pre)
      PROVE  /\ m(pre)[a] = [key |-> a.key, legacy |-> a.legacy]
             /\ a.legacy \in BOOLEAN
             /\ pre = "p2pkh" <=> a.legacy = TRUE
  <2>1. PICK n \in rowsIn(type, lines) :
          /\ lines[n].prefix = pre /\ lines[n].address = a
          /\ m(pre)[a] = entryOf(lines[n])
    BY <1>8
  <2>2. n \in DOMAIN lines /\ lines[n].line = "row"
    BY DEF rowsIn
  <2>3. /\ a \in DOMAIN all /\ all[a] \in Entries
        /\ entryOf(lines[n]) = all[a]
        /\ pre = prefixOf(all[a])
    BY <2>1, <2>2, RowOfSource DEF all
  <2>4. all[a].legacy = a.legacy
    BY <1>2, <2>3
  <2>5. /\ all[a].legacy \in BOOLEAN
        /\ pre = "p2pkh" <=> all[a].legacy = TRUE
    BY <2>3, PrefixOfKind
  <2> QED
    BY <1>2, <2>1, <2>3, <2>4, <2>5
<1>4. ASSUME NEW a \in DOMAIN u["ReceiversLegacy"]
      PROVE  /\ u["ReceiversLegacy"][a] = [key |-> a.key, legacy |-> a.legacy]
             /\ a.legacy = TRUE
  BY <1>3, <1>9
<1>5. ASSUME NEW a \in DOMAIN u["ReceiversSegwit"]
      PROVE  /\ u["ReceiversSegwit"][a] = [key |-> a.key, legacy |-> a.legacy]
             /\ a.legacy = FALSE
  <2>1. a \in DOMAIN m("p2wpkh")
    BY <1>9
  <2>2. /\ m("p2wpkh")[a] = [key |-> a.key, legacy |-> a.legacy]
        /\ a.legacy \in BOOLEAN /\ a.legacy # TRUE
    BY <1>3, <2>1
  <2> QED
    BY <1>9, <2>2
<1>6. ASSUME NEW x \in Maps, NEW a \in DOMAIN u[x]
      PROVE  /\ u[x][a] = [key |-> a.key, legacy |-> a.legacy]
             /\ a.legacy = (x \in {"ReceiversLegacy", "ChangeLegacy"})
  <2>1. CASE x = "ReceiversLegacy"
    BY <1>4, <1>6, <2>1
  <2>2. CASE x = "ReceiversSegwit"
    <3>1. (x \in {"ReceiversLegacy", "ChangeLegacy"}) = FALSE
      BY <2>2
    <3> QED
      BY <1>5, <1>6, <2>2, <3>1
  <2>3. x \notin {"ChangeLegacy", "ChangeSegwit"}
    BY <1>1, <1>6
  <2> QED
    BY <2>1, <2>2, <2>3 DEF Maps
<1>7. Fit(u)
  BY <1>6 DEF Fit
<1> QED
  BY <1>7 DEF u

------------------------------------------------------------------------------
(***************************************************************************)
(* What is left in a file by a write that stops.                           *)
(***************************************************************************)

(* Lines of a text up to one of them, and perhaps a torn one. *)
LEMMA BeginningOf ==
  ASSUME NEW text \in Seq(Lines), NEW n \in 0 .. Len(text), NEW torn \in BOOLEAN
  PROVE  LET l == SubSeq(text, 1, n) \o (IF torn THEN <<Torn>> ELSE <<>>)
         IN  /\ l \in Seq(Lines)
             /\ Len(l) = IF torn THEN n + 1 ELSE n
             /\ \A k \in 1 .. n : l[k] = text[k]
             /\ torn => l[n + 1] = Torn
<1> DEFINE s == SubSeq(text, 1, n)
           l(t) == s \o t
<1>1. /\ s \in Seq(Lines) /\ Len(s) = n /\ n \in Nat /\ \A k \in 1 .. n : s[k] = text[k]
  OBVIOUS
<1> HIDE DEF s
<1>2. Torn \in Lines
  BY DEF Lines
<1> HIDE DEF Torn
<1>3. CASE torn
  <2>1. <<Torn>> \in Seq(Lines) /\ Len(<<Torn>>) = 1 /\ <<Torn>>[1] = Torn
    BY <1>2
  <2>2. /\ s \o <<Torn>> \in Seq(Lines) /\ Len(s \o <<Torn>>) = n + 1
        /\ \A k \in 1 .. n : (s \o <<Torn>>)[k] = s[k]
        /\ (s \o <<Torn>>)[n + 1] = Torn
    BY <1>1, <2>1
  <2> QED
    BY <1>1, <1>3, <2>2 DEF s
<1>4. CASE ~torn
  <2>1. s \o <<>> = s
    BY <1>1
  <2> QED
    BY <1>1, <1>4, <2>1 DEF s
<1> QED
  BY <1>3, <1>4

(* Such lines are what an export of the text's wallet may leave. *)
LEMMA BeginningIsTrace ==
  ASSUME NEW w, NEW type, NEW text, Text(text, type, w),
         NEW n \in 0 .. Len(text), NEW torn \in BOOLEAN, torn => n < Len(text)
  PROVE  LET l == SubSeq(text, 1, n) \o (IF torn THEN <<Torn>> ELSE <<>>)
         IN  l \in Seq(Lines) /\ Trace(l, type, w)
<1> DEFINE l == SubSeq(text, 1, n) \o (IF torn THEN <<Torn>> ELSE <<>>)
<1>1. text \in Seq(Lines) /\ From(text, w)
  BY DEF Text
<1>2. /\ l \in Seq(Lines) /\ Len(l) = IF torn THEN n + 1 ELSE n
      /\ \A k \in 1 .. n : l[k] = text[k]
      /\ torn => l[n + 1] = Torn
  BY <1>1, BeginningOf
<1> HIDE DEF l
<1>3. n \in Nat /\ Len(text) \in Nat /\ n <= Len(text)
  BY <1>1
<1>4. From(l, w)
  <2>1. ASSUME NEW k \in DOMAIN l, l[k].line = "row"
        PROVE  k \in DOMAIN text /\ l[k] = text[k]
    <3>1. k \in 1 .. Len(l)
      BY <1>2
    <3>2. CASE k \in 1 .. n
      BY <1>1, <1>2, <1>3, <3>2
    <3>3. CASE k \notin 1 .. n
      <4>1. torn /\ k = n + 1
        BY <1>2, <1>3, <3>1, <3>3
      <4> QED
        BY <1>2, <2>1, <4>1 DEF Torn
    <3> QED
      BY <3>2, <3>3
  <2> QED
    BY <1>1, <2>1 DEF From
<1>5. ASSUME type = "json", Readable(type, l) PROVE Text(l, type, w)
  <2>1. Len(l) \in Nat /\ Len(l) # 0 /\ l[Len(l)] = Close
    BY <1>2, <1>5 DEF Readable, Last
  <2>2. ~torn
    <3>1. Torn # Close
      BY DEF Torn, Close
    <3> QED
      BY <1>2, <2>1, <3>1
  <2>3. Len(l) = n /\ n # 0
    BY <1>2, <2>1, <2>2
  <2>4. text[n] = Close /\ n \in DOMAIN text
    BY <1>1, <1>2, <1>3, <2>1, <2>3
  <2>5. n = Len(text)
    BY <1>5, <2>4 DEF Text
  <2>6. l = text
    BY <1>1, <1>2, <2>3, <2>5
  <2> QED
    BY <2>6
<1>6. Trace(l, type, w)
  BY <1>4, <1>5 DEF Trace
<1> QED
  BY <1>2, <1>6 DEF l

(* A whole text can be read, and is a trace of itself. *)
LEMMA TextIsReadable ==
  ASSUME NEW w, NEW type \in {"json", "csv"}, NEW text, Text(text, type, w)
  PROVE  Readable(type, text) /\ Trace(text, type, w)
<1>1. text \in Seq(Lines) /\ text # <<>>
  BY DEF Text
<1>2. Len(text) \in DOMAIN text
  BY <1>1
<1>3. Last(text) = text[Len(text)]
  BY DEF Last
<1>4. Last(text) # Torn /\ type = "json" => Last(text) = Close
  BY <1>2, <1>3 DEF Text
<1>5. Readable(type, text)
  BY <1>1, <1>2, <1>3 DEF Readable, Text
<1> QED
  BY <1>5 DEF Trace, Text

------------------------------------------------------------------------------
(***************************************************************************)
(* The text of an export.                                                  *)
(***************************************************************************)

(* A list of a finite set has all its elements, and no others. *)
LEMMA ListHasAll ==
  ASSUME NEW S, IsFiniteSet(S), NEW s \in SetToSeqs(S)
  PROVE  /\ s \in Seq(S)
         /\ \A x \in S : \E n \in DOMAIN s : s[n] = x
<1> DEFINE D == 1 .. Cardinality(S)
<1>1. Cardinality(S) \in Nat
  BY FS_CardinalityType
<1>2. IsFiniteSet(D) /\ Cardinality(D) = Cardinality(S)
  BY <1>1, FS_Interval
<1>3. s \in [D -> S] /\ \A i, j \in D : i # j => s[i] # s[j]
  BY DEF SetToSeqs
<1>4. s \in Injection(D, S)
  BY <1>3 DEF Injection, IsInjective
<1>5. s \in Surjection(D, S)
  BY <1>2, <1>4, FS_Injection
<1>6. s \in Seq(S)
  BY <1>1, <1>3
<1> QED
  BY <1>3, <1>5, <1>6 DEF Surjection

(* What the rows of an export are: those of all addresses of the wallet. *)
Listed(rows, w) ==
  /\ rows \in Seq(Rows)
  /\ \A n \in DOMAIN rows : \E a \in DOMAIN allAddresses(w) : rows[n] = rowOf(a, allAddresses(w)[a])
  /\ \A a \in DOMAIN allAddresses(w) : \E n \in DOMAIN rows : rows[n] = rowOf(a, allAddresses(w)[a])

(* Two lists, one after the other, have the members of both. *)
LEMMA MembersOfBoth ==
  ASSUME NEW T, NEW s \in Seq(T), NEW l \in Seq(T)
  PROVE  /\ s \o l \in Seq(T)
         /\ \A n \in DOMAIN (s \o l) :
              \/ \E k \in DOMAIN s : (s \o l)[n] = s[k]
              \/ \E k \in DOMAIN l : (s \o l)[n] = l[k]
         /\ \A k \in DOMAIN s : k \in DOMAIN (s \o l) /\ (s \o l)[k] = s[k]
         /\ \A k \in DOMAIN l :
              Len(s) + k \in DOMAIN (s \o l) /\ (s \o l)[Len(s) + k] = l[k]
<1>1. /\ s \o l \in Seq(T) /\ Len(s \o l) = Len(s) + Len(l)
      /\ Len(s) \in Nat /\ Len(l) \in Nat
  OBVIOUS
<1>2. \A n \in 1 .. Len(s) + Len(l) :
        (s \o l)[n] = IF n <= Len(s) THEN s[n] ELSE l[n - Len(s)]
  OBVIOUS
<1>3. \A n \in DOMAIN (s \o l) :
        \/ n \in DOMAIN s /\ (s \o l)[n] = s[n]
        \/ n - Len(s) \in DOMAIN l /\ (s \o l)[n] = l[n - Len(s)]
  BY <1>1, <1>2
<1>4. \A k \in DOMAIN s : k \in DOMAIN (s \o l) /\ (s \o l)[k] = s[k]
  BY <1>1, <1>2
<1>5. \A k \in DOMAIN l : Len(s) + k \in DOMAIN (s \o l) /\ (s \o l)[Len(s) + k] = l[k]
  BY <1>1, <1>2
<1> QED
  BY <1>1, <1>3, <1>4, <1>5

(* The rows of an export are those of all addresses, and nothing else. *)
LEMMA ExportListsAll ==
  ASSUME NEW w, isWallet(w), NEW rows \in exportData(w)
  PROVE  Listed(rows, w)
<1> DEFINE all == allAddresses(w)
           of(legacy) == {b \in DOMAIN all : all[b].legacy = legacy}
           rowsOf(legacy) == {rowOf(a, all[a]) : a \in of(legacy)}
<1>1. PICK s \in SetToSeqs(rowsOf(FALSE)), l \in SetToSeqs(rowsOf(TRUE)) : rows = s \o l
  <2> DEFINE A == SetToSeqs(rowsOf(FALSE))
             B == SetToSeqs(rowsOf(TRUE))
  <2>1. exportData(w) = {s \o l : s \in A, l \in B}
    BY DEF exportData
  <2> HIDE DEF A, B
  <2>2. rows \in {s \o l : s \in A, l \in B}
    BY <2>1
  <2>3. \E s \in A, l \in B : rows = s \o l
    BY <2>2
  <2> QED
    BY <2>3 DEF A, B
<1>2. IsFiniteSet(DOMAIN all) /\ DOMAIN all \subseteq Addresses
      /\ \A a \in DOMAIN all : all[a] \in Entries
  <2>1. isMap(all)
    BY Together
  <2> QED
    BY <2>1 DEF isMap
<1>3. \A a \in DOMAIN all : rowOf(a, all[a]) \in Rows /\ all[a].legacy \in BOOLEAN
  BY <1>2, RowGivesBack, PrefixOfKind
<1> HIDE DEF all
<1>4. ASSUME NEW legacy \in BOOLEAN
      PROVE  IsFiniteSet(rowsOf(legacy)) /\ rowsOf(legacy) \subseteq Rows
  <2> DEFINE f == [a \in of(legacy) |-> rowOf(a, all[a])]
  <2>1. IsFiniteSet(of(legacy))
    BY <1>2, FS_Subset
  <2>2. f \in Surjection(of(legacy), rowsOf(legacy))
    BY DEF Surjection
  <2>3. IsFiniteSet(rowsOf(legacy))
    BY <2>1, <2>2, FS_Surjection
  <2> QED
    BY <1>3, <2>3
<1>5. /\ s \in Seq(rowsOf(FALSE)) /\ l \in Seq(rowsOf(TRUE))
      /\ \A x \in rowsOf(FALSE) : \E n \in DOMAIN s : s[n] = x
      /\ \A x \in rowsOf(TRUE) : \E n \in DOMAIN l : l[n] = x
  <2>1. /\ s \in SetToSeqs(rowsOf(FALSE)) /\ IsFiniteSet(rowsOf(FALSE))
        /\ l \in SetToSeqs(rowsOf(TRUE)) /\ IsFiniteSet(rowsOf(TRUE))
    BY <1>4
  <2> HIDE DEF rowsOf
  <2>2. s \in Seq(rowsOf(FALSE)) /\ \A x \in rowsOf(FALSE) : \E n \in DOMAIN s : s[n] = x
    BY ONLY <2>1, ListHasAll
  <2>3. l \in Seq(rowsOf(TRUE)) /\ \A x \in rowsOf(TRUE) : \E n \in DOMAIN l : l[n] = x
    BY ONLY <2>1, ListHasAll
  <2> QED
    BY <2>2, <2>3
<1> DEFINE both == rowsOf(FALSE) \cup rowsOf(TRUE)
<1>6. s \in Seq(both) /\ l \in Seq(both)
  <2>1. \A A, B : /\ s \in Seq(A) => s \in Seq(A \cup B)
                  /\ l \in Seq(B) => l \in Seq(A \cup B)
    OBVIOUS
  <2> HIDE DEF rowsOf
  <2> QED
    BY <1>5, <2>1
<1>7. both \subseteq Rows
  BY <1>4
<1>8. \A x \in both : \E a \in DOMAIN all : x = rowOf(a, all[a])
  OBVIOUS
<1>9. \A a \in DOMAIN all : rowOf(a, all[a]) \in rowsOf(FALSE) \/ rowOf(a, all[a]) \in rowsOf(TRUE)
  BY <1>3
<1> HIDE DEF rowsOf, both
<1>10. rows \in Seq(both)
  BY <1>1, <1>6, MembersOfBoth
<1>11. rows \in Seq(Rows)
  BY <1>7, <1>10
<1>12. \A n \in DOMAIN rows : \E a \in DOMAIN all : rows[n] = rowOf(a, all[a])
  BY <1>8, <1>10
<1>13. ASSUME NEW a \in DOMAIN all
       PROVE  \E n \in DOMAIN rows : rows[n] = rowOf(a, all[a])
  <2>1. CASE rowOf(a, all[a]) \in rowsOf(FALSE)
    <3>1. PICK n \in DOMAIN s : s[n] = rowOf(a, all[a])
      BY <1>5, <2>1
    <3>2. n \in DOMAIN rows /\ rows[n] = s[n]
      BY <1>1, <1>6, MembersOfBoth
    <3> QED
      BY <3>1, <3>2
  <2>2. CASE rowOf(a, all[a]) \in rowsOf(TRUE)
    <3>1. PICK n \in DOMAIN l : l[n] = rowOf(a, all[a])
      BY <1>5, <2>2
    <3>2. Len(s) + n \in DOMAIN rows /\ rows[Len(s) + n] = l[n]
      BY <1>1, <1>6, MembersOfBoth
    <3> QED
      BY <3>1, <3>2
  <2> QED
    BY <1>9, <2>1, <2>2
<1> QED
  BY <1>11, <1>12, <1>13 DEF Listed, all

(* Where the lines of a JSON file are. *)
LEMMA JsonLines ==
  ASSUME NEW rows \in Seq(Rows)
  PROVE  LET text == <<Open>> \o rows \o <<Close>>
         IN  /\ text \in Seq(Lines) /\ Len(text) = Len(rows) + 2
             /\ text[1] = Open /\ text[Len(rows) + 2] = Close
             /\ \A n \in DOMAIN rows : text[n + 1] = rows[n]
<1> DEFINE first == <<Open>> \o rows
<1>1. Open \in Lines /\ Close \in Lines /\ Rows \subseteq Lines
  BY DEF Lines
<1> HIDE DEF Open, Close, Rows, Lines
<1>2. rows \in Seq(Lines) /\ <<Open>> \in Seq(Lines) /\ <<Close>> \in Seq(Lines)
  BY <1>1
<1>3. /\ first \in Seq(Lines) /\ Len(first) = Len(rows) + 1 /\ first[1] = Open
      /\ \A n \in DOMAIN rows : first[n + 1] = rows[n]
      /\ Len(rows) \in Nat
  BY <1>2
<1> HIDE DEF first
<1>4. /\ first \o <<Close>> \in Seq(Lines) /\ Len(first \o <<Close>>) = Len(rows) + 2
      /\ (first \o <<Close>>)[Len(rows) + 2] = Close
      /\ \A n \in 1 .. Len(rows) + 1 : (first \o <<Close>>)[n] = first[n]
  BY <1>2, <1>3
<1>5. 1 \in 1 .. Len(rows) + 1 /\ \A n \in DOMAIN rows : n + 1 \in 1 .. Len(rows) + 1
  BY <1>2, <1>3
<1> QED
  BY <1>3, <1>4, <1>5 DEF first

(* Where the lines of a CSV file are. *)
LEMMA CsvLines ==
  ASSUME NEW rows \in Seq(Rows)
  PROVE  LET text == <<Header>> \o rows
         IN  /\ text \in Seq(Lines) /\ Len(text) = Len(rows) + 1
             /\ text[1] = Header
             /\ \A n \in DOMAIN rows : text[n + 1] = rows[n]
<1>1. Header \in Lines /\ Rows \subseteq Lines
  BY DEF Lines
<1> HIDE DEF Header, Rows, Lines
<1>2. rows \in Seq(Lines) /\ <<Header>> \in Seq(Lines)
  BY <1>1
<1> QED
  BY <1>2

(* What export writes when nothing stops it is a whole text. *)
LEMMA ExportIsText ==
  ASSUME NEW w, isWallet(w), NEW rows \in exportData(w), NEW type \in {"json", "csv"}
  PROVE  Text(textOf(type, rows), type, w)
<1> DEFINE text == textOf(type, rows)
           last == IF type = "json" THEN Len(rows) + 2 ELSE Len(rows) + 1
<1>1. Listed(rows, w)
  BY ExportListsAll
<1>2. rows \in Seq(Rows) /\ Len(rows) \in Nat
  BY <1>1 DEF Listed
<1>3. /\ text \in Seq(Lines) /\ Len(text) = last
      /\ text[1] \in {Open, Header}
      /\ \A n \in DOMAIN rows : text[n + 1] = rows[n]
      /\ type = "json" => text[last] = Close
  BY <1>2, JsonLines, CsvLines DEF textOf
<1> HIDE DEF text
<1>4. \A n \in DOMAIN text :
        \/ n = 1
        \/ n - 1 \in DOMAIN rows /\ text[n] = rows[n - 1]
        \/ type = "json" /\ n = last /\ text[n] = Close
  <2> SUFFICES ASSUME NEW n \in DOMAIN text
               PROVE  \/ n = 1
                      \/ n - 1 \in DOMAIN rows /\ text[n] = rows[n - 1]
                      \/ type = "json" /\ n = last /\ text[n] = Close
    OBVIOUS
  <2>1. n \in 1 .. last
    BY <1>3
  <2>2. CASE n = last /\ type = "json"
    BY <1>3, <2>2
  <2>3. CASE n # 1 /\ ~(n = last /\ type = "json")
    <3>1. n - 1 \in 1 .. Len(rows)
      BY <1>2, <2>1, <2>3
    <3>2. n - 1 \in DOMAIN rows /\ (n - 1) + 1 = n
      BY <1>2, <3>1
    <3> QED
      BY <1>3, <3>2
  <2> QED
    BY <2>2, <2>3
<1>5. \A n \in DOMAIN rows : rows[n] \in Rows /\ rows[n].line = "row"
  <2>1. \A n \in DOMAIN rows : rows[n] \in Rows
    BY <1>2
  <2>2. \A row \in Rows : row.line = "row"
    BY DEF Rows
  <2> QED
    BY <2>1, <2>2
<1>6. /\ Open.line = "[" /\ Header.line = "header" /\ Close.line = "]" /\ Torn.line = "torn"
  BY DEF Open, Header, Close, Torn
<1>7. text # <<>> /\ 1 \in DOMAIN text /\ last \in DOMAIN text
  BY <1>2, <1>3
<1>8. From(text, w)
  BY <1>1, <1>3, <1>4, <1>6 DEF From, Listed
<1>9. \A n \in DOMAIN text : text[n] # Torn
  BY <1>3, <1>4, <1>5, <1>6
<1>10. \A n \in DOMAIN text : text[n] = Close <=> type = "json" /\ n = last
  <2>1. last # 1 \/ type # "json"
    BY <1>2
  <2> HIDE DEF last
  <2> QED
    BY <1>3, <1>4, <1>5, <1>6, <2>1
<1>11. ASSUME NEW a \in DOMAIN allAddresses(w)
       PROVE  \E n \in rowsIn(type, text) : text[n].address = a
  <2>1. PICK n \in DOMAIN rows : rows[n] = rowOf(a, allAddresses(w)[a])
    BY <1>1 DEF Listed
  <2>2. n + 1 \in DOMAIN text /\ n + 1 # 1 /\ text[n + 1] = rows[n]
    BY <1>2, <1>3
  <2>3. n + 1 \in rowsIn(type, text)
    BY <1>5, <2>2 DEF rowsIn
  <2>4. rows[n].address = a
    BY <2>1 DEF rowOf
  <2> QED
    BY <2>2, <2>3, <2>4
<1> QED
  BY <1>3, <1>7, <1>8, <1>9, <1>10, <1>11 DEF Text, text

------------------------------------------------------------------------------
(***************************************************************************)
(* The steps, by what they change.                                         *)
(***************************************************************************)

(* A wallet with nothing in it is a wallet. *)
LEMMA EmptyIsWallet == isWallet(EmptyWallet)
<1>1. DOMAIN EmptyMap = {} /\ EmptyMap \in [DOMAIN EmptyMap -> Entries]
  BY DEF EmptyMap
<1>2. isMap(EmptyMap)
  BY <1>1, FS_EmptySet DEF isMap
<1> QED
  BY <1>2 DEF isWallet, EmptyWallet

(* A run that leaves the disk alone. *)
LEMMA DiskKept ==
  ASSUME BInv, UNCHANGED <<wallets, spoilt, files, backup>>
  PROVE  DiskType' /\ Sourced' /\ KeptProper'
<1>1. DiskType'
  BY DEF BInv, DiskType
<1>2. Sourced'
  BY DEF BInv, Sourced, Source
<1>3. KeptProper'
  BY DEF BInv, KeptProper
<1> QED
  BY <1>1, <1>2, <1>3

(* A run that begins, or of which only its end is known. *)
LEMMA FreshRun ==
  ASSUME NEW i \in Ids \cup {NoWallet}, NEW f \in Files \cup {NoFile},
         NEW where \in Running \cup Ended, NEW w, isWallet(w),
         where \notin {"idle", "failed"} => i \in Ids /\ f \in Files,
         run' = runOf(i, f, where, w), runs' \in 0 .. MaxRuns
  PROVE  /\ RunType' /\ run'.pc = where /\ run'.id = i /\ run'.file = f /\ run'.wallet = w
         /\ run'.taken = 0 /\ run'.flushed = 0
<1>1. run' = [pc |-> where, id |-> i, file |-> f, text |-> <<>>, taken |-> 0,
              flushed |-> 0, wallet |-> w]
  BY DEF runOf
<1>2. <<>> \in Seq(Lines) /\ Len(<<>>) = 0
  OBVIOUS
<1>3. run' \in [pc : Running \cup Ended, id : Ids \cup {NoWallet}, file : Files \cup {NoFile},
                text : Seq(Lines), taken : Nat, flushed : Nat, wallet : {run'.wallet}]
  BY <1>1, <1>2
<1> QED
  BY <1>1, <1>2, <1>3 DEF RunType

(* A run that fails has nothing to keep. *)
LEMMA FailedRun ==
  ASSUME Fail, runs' \in 0 .. MaxRuns
  PROVE  RunType' /\ ExportAt' /\ ImportAt'
<1>1. RunType' /\ run'.pc = "failed"
  <2>1. "failed" \in Running \cup Ended
    BY DEF Ended
  <2> QED
    BY <2>1, EmptyIsWallet, FreshRun DEF Fail
<1>2. ExportAt' /\ ImportAt'
  BY <1>1 DEF ExportAt, ImportAt
<1> QED
  BY <1>1, <1>2

(* An export of the run's wallet, as far as it has got. *)
LEMMA FileWritten ==
  ASSUME BInv, run.pc \in {"exporting", "writing"},
         NEW lines \in Seq(Lines), Trace(lines, run.file.type, run.wallet),
         NEW status \in Statuses,
         status = "whole" => Text(lines, run.file.type, run.wallet),
         files' = [files EXCEPT ![run.file] = lines],
         DOMAIN backup' = ExportFiles,
         backup'[run.file] =
           [id |-> run.id, keys |-> entriesOf(run.wallet), status |-> status],
         \A g \in ExportFiles : g # run.file => backup'[g] = backup[g],
         UNCHANGED <<wallets, spoilt>>
  PROVE  DiskType' /\ Sourced' /\ KeptProper'
<1>10. PICK w : w = run.wallet
  OBVIOUS
<1>11. PICK f : f = run.file
  OBVIOUS
<1>1. /\ f \in ExportFiles /\ f \in Files /\ run.id \in Ids
      /\ isWallet(w) /\ run.id \in DOMAIN wallets /\ wallets[run.id] = w
  BY <1>10, <1>11 DEF BInv, RunType, ExportAt
<1>2. Proper(w)
  BY <1>1 DEF BInv, KeptProper
<1>3. /\ files' \in [Files -> Seq(Lines) \cup {NoFile}]
      /\ files'[f] = lines /\ \A g \in Files : g # f => files'[g] = files[g]
  BY <1>11, <1>1 DEF BInv, DiskType
<1>4. DiskType'
  BY <1>3 DEF BInv, DiskType
<1>5. Source(f, w)'
  <2>1. isWallet(w) /\ Proper(w) /\ Trace(files'[f], f.type, w)
    BY <1>10, <1>11, <1>1, <1>2, <1>3
  <2>2. backup'[f] = [id |-> backup'[f].id, keys |-> entriesOf(w), status |-> backup'[f].status]
    BY <1>10, <1>11
  <2>3. backup'[f].status = "whole" => Text(files'[f], f.type, w)
    BY <1>10, <1>11, <1>3
  <2> QED
    BY <2>1, <2>2, <2>3 DEF Source
<1>6. backup'[f] # NoBackup /\ files'[f] # NoFile
  <2>1. isMap(entriesOf(w))
    BY <1>1, Together
  <2>2. PICK S \in SUBSET Addresses : entriesOf(w) \in [S -> Entries]
    BY <2>1 DEF isMap
  <2>3. backup'[f] \in [id : Ids, keys : [S -> Entries], status : Statuses]
    BY <1>10, <1>11, <1>1, <2>2
  <2>4. NoBackup \notin [id : Ids, keys : [S -> Entries], status : Statuses]
    BY MarkersAssumption
  <2>5. NoFile \notin Seq(Lines)
    BY MarkersAssumption
  <2> QED
    BY <1>3, <2>3, <2>4, <2>5
<1>7. Sourced'
  <2>1. ASSUME NEW g \in ExportFiles
        PROVE  /\ backup'[g] = NoBackup <=> files'[g] = NoFile
               /\ backup'[g] # NoBackup => \E u : Source(g, u)'
    <3>1. CASE g = f
      BY <1>5, <1>6, <3>1
    <3>2. CASE g # f
      <4>1. backup'[g] = backup[g] /\ files'[g] = files[g]
        BY <1>11, <1>3, <3>2 DEF Files
      <4>2. /\ backup[g] = NoBackup <=> files[g] = NoFile
            /\ backup[g] # NoBackup => \E u : Source(g, u)
        BY DEF BInv, Sourced
      <4>3. \A u : Source(g, u) => Source(g, u)'
        BY <4>1 DEF Source
      <4> QED
        BY <4>1, <4>2, <4>3
    <3> QED
      BY <3>1, <3>2
  <2> QED
    BY <2>1 DEF Sourced
<1>8. KeptProper'
  <2>1. From(lines, w)
    BY <1>10 DEF Trace
  <2>2. Agree(walletOf(f.type, lines))
    BY <1>1, <2>1, GivenBackAgrees
  <2>3. Fit(w) => Fit(walletOf(f.type, lines))
    BY <1>1, <2>1, GivenBackFits
  <2>4. Proper(walletOf(f.type, lines))
    BY <1>2, <2>2, <2>3 DEF Proper
  <2> QED
    BY <1>3, <2>4 DEF BInv, KeptProper
<1> QED
  BY <1>4, <1>7, <1>8

(* What a write that stops leaves is in the text's beginning. *)
LEMMA LeftIsTrace ==
  ASSUME BInv, run.pc = "writing",
         NEW n \in 0 .. Len(run.text), NEW torn \in BOOLEAN, torn => n < Len(run.text)
  PROVE  /\ beginning(n, torn) \in Seq(Lines)
         /\ Trace(beginning(n, torn), run.file.type, run.wallet)
<1>1. Text(run.text, run.file.type, run.wallet)
  BY DEF BInv, ExportAt
<1>2. LET l == SubSeq(run.text, 1, n) \o (IF torn THEN <<Torn>> ELSE <<>>)
      IN  l \in Seq(Lines) /\ Trace(l, run.file.type, run.wallet)
  BY <1>1, BeginningIsTrace
<1> QED
  BY <1>2 DEF beginning

(* So is a write that does not get to its end. *)
LEMMA CutShortIsTrace ==
  ASSUME BInv, run.pc = "writing", NEW n \in Nat, n <= Len(run.text), NEW left \in cutShort(n)
  PROVE  left \in Seq(Lines) /\ Trace(left, run.file.type, run.wallet)
<1>1. run.flushed \in Nat /\ Len(run.text) \in Nat
  BY DEF BInv, RunType
<1>2. PICK m \in run.flushed .. n - 1, torn \in BOOLEAN : left = beginning(m, torn)
  BY DEF cutShort
<1>3. m \in 0 .. Len(run.text) /\ m < Len(run.text)
  BY <1>1, <1>2
<1> QED
  BY <1>2, <1>3, LeftIsTrace

(* The whole text can be in the file too. *)
LEMMA WholeIsTrace ==
  ASSUME BInv, run.pc = "writing"
  PROVE  /\ run.text \in Seq(Lines) /\ Text(run.text, run.file.type, run.wallet)
         /\ Readable(run.file.type, run.text)
         /\ Trace(run.text, run.file.type, run.wallet)
<1>1. Text(run.text, run.file.type, run.wallet) /\ run.file \in ExportFiles
  BY DEF BInv, ExportAt
<1>2. run.file.type \in {"json", "csv"}
  BY <1>1 DEF ExportFiles
<1> QED
  BY <1>1, <1>2, TextIsReadable DEF Text

------------------------------------------------------------------------------
(***************************************************************************)
(* Each action keeps the invariant.                                        *)
(***************************************************************************)

(* A command begins, and leaves the disk alone. *)
LEMMA BeginKeeps ==
  ASSUME BInv, NEW i \in Ids \cup {NoWallet}, NEW f \in Files \cup {NoFile},
         NEW where \in Running \cup Ended, NEW w, isWallet(w),
         where \notin {"idle", "failed"} => i \in Ids /\ f \in Files,
         Begin(i, f, where, w)
  PROVE  /\ DiskType' /\ Sourced' /\ KeptProper' /\ RunType'
         /\ run'.pc = where /\ run'.id = i /\ run'.file = f /\ run'.wallet = w
         /\ run'.taken = 0 /\ run'.flushed = 0
         /\ UNCHANGED <<wallets, spoilt, files, backup>>
<1>1. /\ run' = runOf(i, f, where, w) /\ runs < MaxRuns /\ runs' = runs + 1
      /\ UNCHANGED <<wallets, spoilt, files, backup>>
  BY DEF Begin
<1>2. runs' \in 0 .. MaxRuns
  BY <1>1, ConstantsAssumption DEF BInv, RunType
<1>3. DiskType' /\ Sourced' /\ KeptProper'
  BY <1>1, DiskKept
<1> QED
  BY <1>1, <1>2, <1>3, FreshRun

(* A command that does not come to anything. *)
LEMMA BeginFailed ==
  ASSUME BInv, Begin(NoWallet, NoFile, "failed", EmptyWallet)
  PROVE  BInv'
<1>1. "failed" \in Running \cup Ended
  BY DEF Ended
<1>2. /\ DiskType' /\ Sourced' /\ KeptProper' /\ RunType' /\ run'.pc = "failed"
  BY <1>1, EmptyIsWallet, BeginKeeps
<1>3. ExportAt' /\ ImportAt'
  BY <1>2 DEF ExportAt, ImportAt
<1> QED
  BY <1>2, <1>3 DEF BInv

(* An export begins with a wallet that is on disk. *)
LEMMA StartExportKeeps ==
  ASSUME BInv, NEW i \in Ids, NEW type \in {"json", "csv"}, StartExport(i, type)
  PROVE  BInv'
<1> DEFINE f == [name |-> i.name, type |-> type]
<1>1. CASE loads(i) /\ Begin(i, f, "exporting", wallets[i])
  <2>1. f \in ExportFiles /\ f \in Files
    BY DEF ExportFiles, Files, Ids
  <2>2. i \in DOMAIN wallets /\ isWallet(wallets[i]) /\ "exporting" \in Running \cup Ended
    BY <1>1 DEF loads, BInv, DiskType, Running
  <2> HIDE DEF f
  <2>3. /\ DiskType' /\ Sourced' /\ KeptProper' /\ RunType'
        /\ run'.pc = "exporting" /\ run'.id = i /\ run'.file = f /\ run'.wallet = wallets[i]
        /\ run'.taken = 0 /\ run'.flushed = 0
        /\ UNCHANGED <<wallets, spoilt, files, backup>>
    BY <1>1, <2>1, <2>2, BeginKeeps
  <2>4. ExportAt' /\ ImportAt'
    BY <2>1, <2>2, <2>3 DEF ExportAt, ImportAt
  <2> QED
    BY <2>3, <2>4 DEF BInv
<1>2. CASE Begin(NoWallet, NoFile, "failed", EmptyWallet)
  BY <1>2, BeginFailed
<1> QED
  BY <1>1, <1>2 DEF StartExport

(* An import begins with a file that is there. *)
LEMMA StartImportKeeps ==
  ASSUME BInv, NEW i \in Ids, NEW f \in Files, StartImport(i, f)
  PROVE  BInv'
<1>1. CASE files[f] = NoFile
  BY <1>1, BeginFailed DEF StartImport
<1>2. CASE files[f] # NoFile
  <2>1. Begin(i, f, "importing", EmptyWallet) /\ "importing" \in Running \cup Ended
    BY <1>2 DEF StartImport, Running
  <2>2. /\ DiskType' /\ Sourced' /\ KeptProper' /\ RunType'
        /\ run'.pc = "importing" /\ run'.file = f
        /\ UNCHANGED <<wallets, spoilt, files, backup>>
    BY <2>1, EmptyIsWallet, BeginKeeps
  <2>3. ExportAt' /\ ImportAt'
    BY <1>2, <2>2 DEF ExportAt, ImportAt
  <2> QED
    BY <2>2, <2>3 DEF BInv
<1> QED
  BY <1>1, <1>2

(* A run that goes on, with the wallet it has or another. *)
LEMMA RunMoves ==
  ASSUME BInv, NEW where \in Running \cup Ended, NEW w, isWallet(w),
         run.pc \notin {"idle", "failed"},
         run' = [run EXCEPT !.pc = where, !.wallet = w], runs' = runs
  PROVE  /\ RunType' /\ run'.pc = where /\ run'.wallet = w
         /\ run'.id = run.id /\ run'.file = run.file /\ run'.text = run.text
<1>1. run' = [pc |-> where, id |-> run.id, file |-> run.file, text |-> run.text,
              taken |-> run.taken, flushed |-> run.flushed, wallet |-> w]
  BY DEF BInv, RunType
<1>2. /\ run.id \in Ids /\ run.file \in Files /\ run.text \in Seq(Lines)
      /\ run.taken \in Nat /\ run.flushed \in Nat
      /\ run.flushed <= run.taken /\ run.taken <= Len(run.text)
  BY DEF BInv, RunType
<1>3. run' \in [pc : Running \cup Ended, id : Ids \cup {NoWallet}, file : Files \cup {NoFile},
                text : Seq(Lines), taken : Nat, flushed : Nat, wallet : {run'.wallet}]
  BY <1>1, <1>2
<1> QED
  BY <1>1, <1>2, <1>3 DEF BInv, RunType

(* The end of a run that keeps what it was about. *)
LEMMA EndedRun ==
  ASSUME BInv, NEW how \in Ended, run.pc \notin {"idle", "failed"}, End(how), runs' = runs
  PROVE  RunType' /\ run'.pc = how /\ run'.id = run.id /\ run'.file = run.file
<1>1. run.id \in Ids /\ run.file \in Files /\ runs' \in 0 .. MaxRuns
  BY DEF BInv, RunType
<1> QED
  BY <1>1, EmptyIsWallet, FreshRun DEF End

(* The emptied file is the first trace of the new export. *)
LEMMA OpenFileKeeps ==
  ASSUME BInv, OpenFile
  PROVE  BInv'
<1>1. PICK rows \in exportData(run.wallet) :
        run' = [run EXCEPT !.pc = "writing", !.text = textOf(run.file.type, rows)]
  BY DEF OpenFile
<1>2. /\ run.pc = "exporting" /\ files' = [files EXCEPT ![run.file] = <<>>]
      /\ backup' = [backup EXCEPT ![run.file] =
           [id |-> run.id, keys |-> entriesOf(run.wallet), status |-> "begun"]]
      /\ UNCHANGED <<wallets, spoilt, runs>>
  BY DEF OpenFile
<1>3. /\ run.file \in ExportFiles /\ run.id \in DOMAIN wallets /\ wallets[run.id] = run.wallet
      /\ isWallet(run.wallet) /\ run.id \in Ids /\ run.file \in Files
      /\ run.taken = 0 /\ run.flushed = 0
  BY <1>2 DEF BInv, RunType, ExportAt
<1>4. run.file.type \in {"json", "csv"}
  BY <1>3 DEF ExportFiles
<1> DEFINE text == textOf(run.file.type, rows)
<1>5. Text(text, run.file.type, run.wallet)
  BY <1>3, <1>4, ExportIsText
<1> HIDE DEF text
<1>11. text \in Seq(Lines)
  BY <1>5 DEF Text
<1>6. DiskType' /\ Sourced' /\ KeptProper'
  <2>1. /\ DOMAIN backup' = ExportFiles
        /\ backup'[run.file] =
             [id |-> run.id, keys |-> entriesOf(run.wallet), status |-> "begun"]
        /\ \A g \in ExportFiles : g # run.file => backup'[g] = backup[g]
    BY <1>2, <1>3 DEF BInv, DiskType
  <2>2. <<>> \in Seq(Lines) /\ Trace(<<>>, run.file.type, run.wallet) /\ "begun" \in Statuses
    BY DEF Trace, From, Readable, Statuses
  <2> QED
    BY <1>2, <2>1, <2>2, FileWritten
<1>7. /\ run'.pc = "writing" /\ run'.id = run.id /\ run'.file = run.file
      /\ run'.wallet = run.wallet /\ run'.text = text
      /\ run'.taken = run.taken /\ run'.flushed = run.flushed
  BY <1>1 DEF text, BInv, RunType
<1>8. RunType'
  <2>1. run' = [pc |-> "writing", id |-> run.id, file |-> run.file, text |-> text,
                taken |-> 0, flushed |-> 0, wallet |-> run.wallet]
    BY <1>1, <1>3 DEF text, BInv, RunType
  <2>2. "writing" \in Running \cup Ended /\ 0 <= Len(text)
    BY <1>11 DEF Running
  <2>3. run' \in [pc : Running \cup Ended, id : Ids \cup {NoWallet}, file : Files \cup {NoFile},
                  text : Seq(Lines), taken : Nat, flushed : Nat, wallet : {run'.wallet}]
    BY <1>3, <1>11, <2>1, <2>2
  <2> QED
    BY <1>2, <1>3, <2>1, <2>2, <2>3 DEF BInv, RunType
<1>9. ExportAt'
  <2>1. backup'[run.file] =
          [id |-> run.id, keys |-> entriesOf(run.wallet), status |-> "begun"]
    BY <1>2, <1>3 DEF BInv, DiskType
  <2> QED
    BY <1>2, <1>3, <1>5, <1>7, <2>1 DEF ExportAt
<1>10. ImportAt'
  BY <1>7 DEF ImportAt
<1> QED
  BY <1>6, <1>8, <1>9, <1>10 DEF BInv

(* Lines reach the file, and the export goes on or fails. *)
LEMMA LinesWritten ==
  ASSUME BInv, run.pc = "writing", NEW lines \in Seq(Lines),
         Trace(lines, run.file.type, run.wallet), writes(lines), UNCHANGED backup
  PROVE  DiskType' /\ Sourced' /\ KeptProper'
<1>1. /\ DOMAIN backup' = ExportFiles
      /\ backup'[run.file] = [id |-> run.id, keys |-> entriesOf(run.wallet), status |-> "begun"]
  BY DEF BInv, DiskType, ExportAt
<1>2. "begun" \in Statuses
  BY DEF Statuses
<1> QED
  BY <1>1, <1>2, FileWritten DEF writes

(* Lines reach the file, and the export is reported. *)
LEMMA LinesReported ==
  ASSUME BInv, run.pc = "writing", NEW lines \in Seq(Lines),
         Trace(lines, run.file.type, run.wallet), writes(lines),
         NEW status \in {"whole", "short"},
         status = "whole" => Text(lines, run.file.type, run.wallet),
         Report(status)
  PROVE  BInv'
<1>1. /\ DOMAIN backup = ExportFiles /\ run.file \in ExportFiles
      /\ backup[run.file] = [id |-> run.id, keys |-> entriesOf(run.wallet), status |-> "begun"]
  BY DEF BInv, DiskType, ExportAt
<1>2. backup' = [backup EXCEPT ![run.file] = [backup[run.file] EXCEPT !.status = status]]
  BY DEF Report
<1>3. /\ DOMAIN backup' = ExportFiles
      /\ backup'[run.file] = [id |-> run.id, keys |-> entriesOf(run.wallet), status |-> status]
      /\ \A g \in ExportFiles : g # run.file => backup'[g] = backup[g]
  BY <1>1, <1>2
<1>4. DiskType' /\ Sourced' /\ KeptProper'
  <2>1. status \in Statuses
    BY DEF Statuses
  <2> QED
    BY <1>3, <2>1, FileWritten DEF writes
<1>5. RunType' /\ run'.pc = "exported" /\ run'.file = run.file
  <2>1. "exported" \in Ended
    BY DEF Ended
  <2> QED
    BY <2>1, EndedRun DEF Report, writes
<1>6. ExportAt' /\ ImportAt'
  BY <1>1, <1>5 DEF ExportAt, ImportAt
<1> QED
  BY <1>4, <1>5, <1>6 DEF BInv

(* The export fails, with some lines in the file. *)
LEMMA LinesLeft ==
  ASSUME BInv, run.pc = "writing", NEW lines \in Seq(Lines),
         Trace(lines, run.file.type, run.wallet), writes(lines), UNCHANGED backup, Fail
  PROVE  BInv'
<1>1. DiskType' /\ Sourced' /\ KeptProper'
  BY LinesWritten
<1>2. RunType' /\ ExportAt' /\ ImportAt'
  BY FailedRun DEF BInv, RunType, writes
<1> QED
  BY <1>1, <1>2 DEF BInv

(* JSON is there in full, or cannot be read. *)
LEMMA WriteJsonKeeps ==
  ASSUME BInv, WriteJson
  PROVE  BInv'
<1>1. run.pc = "writing" /\ Len(run.text) \in Nat
  BY DEF WriteJson, writing, BInv, RunType
<1>2. CASE writes(run.text) /\ Report("whole")
  BY <1>1, <1>2, WholeIsTrace, LinesReported
<1>3. ASSUME NEW left \in cutShort(Len(run.text)), writes(left), Fail, UNCHANGED backup
      PROVE  BInv'
  <2>1. left \in Seq(Lines) /\ Trace(left, run.file.type, run.wallet)
    BY <1>1, CutShortIsTrace
  <2> QED
    BY <1>1, <1>3, <2>1, LinesLeft
<1> QED
  BY <1>2, <1>3 DEF WriteJson

(* The CSV writer takes the next line, and lines may leave its buffer. *)
LEMMA WriterMoves ==
  ASSUME BInv, run.pc = "writing", run.taken < Len(run.text),
         NEW flushed \in {run.flushed, run.taken},
         run' = [run EXCEPT !.flushed = flushed, !.taken = run.taken + 1],
         UNCHANGED <<wallets, runs, backup>>
  PROVE  RunType' /\ ExportAt' /\ ImportAt'
<1>1. /\ run.id \in Ids /\ run.file \in Files /\ run.text \in Seq(Lines)
      /\ run.taken \in Nat /\ run.flushed \in Nat /\ run.flushed <= run.taken
      /\ Len(run.text) \in Nat
  BY DEF BInv, RunType
<1>2. run' = [pc |-> "writing", id |-> run.id, file |-> run.file, text |-> run.text,
              taken |-> run.taken + 1, flushed |-> flushed, wallet |-> run.wallet]
  BY DEF BInv, RunType
<1>3. flushed \in Nat /\ flushed <= run.taken + 1 /\ run.taken + 1 <= Len(run.text)
      /\ run.taken + 1 \in Nat
  BY <1>1
<1>4. run' \in [pc : Running \cup Ended, id : Ids \cup {NoWallet}, file : Files \cup {NoFile},
                text : Seq(Lines), taken : Nat, flushed : Nat, wallet : {run'.wallet}]
  <2>1. "writing" \in Running \cup Ended
    BY DEF Running
  <2> QED
    BY <1>1, <1>2, <1>3, <2>1
<1>5. RunType'
  BY <1>1, <1>2, <1>3, <1>4 DEF BInv, RunType
<1>6. /\ run'.pc = "writing" /\ run'.id = run.id /\ run'.file = run.file
      /\ run'.text = run.text /\ run'.wallet = run.wallet
  BY <1>2
<1>7. ExportAt'
  BY <1>6 DEF BInv, ExportAt
<1>8. ImportAt'
  BY <1>6 DEF ImportAt
<1> QED
  BY <1>5, <1>7, <1>8

(* A record in the buffer leaves the disk alone. *)
LEMMA WriteRecordKeeps ==
  ASSUME BInv, WriteRecord
  PROVE  BInv'
<1>1. /\ run.pc = "writing" /\ run.taken < Len(run.text)
      /\ run' = [run EXCEPT !.taken = run.taken + 1]
      /\ UNCHANGED <<wallets, spoilt, files, runs, backup>>
  BY DEF WriteRecord, writing
<1>2. run' = [run EXCEPT !.flushed = run.flushed, !.taken = run.taken + 1]
  BY <1>1 DEF BInv, RunType
<1>3. RunType' /\ ExportAt' /\ ImportAt'
  BY <1>1, <1>2, WriterMoves
<1>4. DiskType' /\ Sourced' /\ KeptProper'
  BY <1>1, DiskKept
<1> QED
  BY <1>3, <1>4 DEF BInv

(* A full buffer goes to the file, whole or in part. *)
LEMMA WriteThroughKeeps ==
  ASSUME BInv, WriteThrough
  PROVE  BInv'
<1>1. /\ run.pc = "writing" /\ run.taken < Len(run.text) /\ UNCHANGED backup
  BY DEF WriteThrough, writing
<1>2. run.taken \in Nat /\ Len(run.text) \in Nat
  BY DEF BInv, RunType
<1>3. ASSUME NEW torn \in BOOLEAN, writes(beginning(run.taken, torn)),
             run' = [run EXCEPT !.flushed = run.taken, !.taken = run.taken + 1]
      PROVE  BInv'
  <2>1. run.taken \in 0 .. Len(run.text) /\ (torn => run.taken < Len(run.text))
    BY <1>1, <1>2
  <2>2. /\ beginning(run.taken, torn) \in Seq(Lines)
        /\ Trace(beginning(run.taken, torn), run.file.type, run.wallet)
    BY <1>1, <2>1, LeftIsTrace
  <2>3. DiskType' /\ Sourced' /\ KeptProper'
    BY <1>1, <1>3, <2>2, LinesWritten
  <2>4. RunType' /\ ExportAt' /\ ImportAt'
    BY <1>1, <1>3, WriterMoves DEF writes
  <2> QED
    BY <2>3, <2>4 DEF BInv
<1>4. ASSUME NEW left \in cutShort(run.taken + 1), writes(left), Fail
      PROVE  BInv'
  <2>1. run.taken + 1 \in Nat /\ run.taken + 1 <= Len(run.text)
    BY <1>1, <1>2
  <2>2. left \in Seq(Lines) /\ Trace(left, run.file.type, run.wallet)
    BY <1>1, <2>1, CutShortIsTrace
  <2> QED
    BY <1>1, <1>4, <2>2, LinesLeft
<1> QED
  BY <1>3, <1>4 DEF WriteThrough

(* A flush that is reported as whole has written the whole text. *)
LEMMA FlushKeeps ==
  ASSUME BInv, Flush
  PROVE  BInv'
<1>1. run.pc = "writing" /\ run.taken = Len(run.text) /\ run.taken \in Nat
  BY DEF Flush, writing, BInv, RunType
<1>2. CASE writes(run.text) /\ Report("whole")
  BY <1>1, <1>2, WholeIsTrace, LinesReported
<1>3. ASSUME NEW left \in cutShort(run.taken), writes(left), Report("short")
      PROVE  BInv'
  <2>1. left \in Seq(Lines) /\ Trace(left, run.file.type, run.wallet)
    BY <1>1, CutShortIsTrace
  <2> QED
    BY <1>1, <1>3, <2>1, LinesReported
<1> QED
  BY <1>2, <1>3 DEF Flush

(* The wallet that is built is that of the lines that were read. *)
LEMMA ReadKeysKeeps ==
  ASSUME BInv, ReadKeys
  PROVE  BInv'
<1> DEFINE lines == files[run.file]
           w     == walletOf(run.file.type, lines)
<1>1. run.pc = "importing" /\ UNCHANGED <<wallets, spoilt, files, runs, backup>>
  BY DEF ReadKeys
<1>2. /\ run.file \in Files /\ run.id \in Ids /\ lines # NoFile /\ lines \in Seq(Lines)
  BY <1>1 DEF BInv, RunType, ImportAt, DiskType
<1>3. DiskType' /\ Sourced' /\ KeptProper'
  BY <1>1, DiskKept
<1>4. CASE Acceptable(run.file, run.id.testnet)
  <2>1. run' = [run EXCEPT !.pc = "checking", !.wallet = w] /\ Readable(run.file.type, lines)
    BY <1>4 DEF ReadKeys, Acceptable
  <2>2. isWallet(w) /\ "checking" \in Running \cup Ended
    BY <1>2, WalletOfLines DEF Running
  <2> HIDE DEF w
  <2>3. /\ RunType' /\ run'.pc = "checking" /\ run'.wallet = w
        /\ run'.id = run.id /\ run'.file = run.file
    BY <1>1, <2>1, <2>2, RunMoves
  <2>4. ExportAt'
    BY <2>3 DEF ExportAt
  <2>5. ImportAt'
    BY <1>1, <1>2, <2>1, <2>3 DEF ImportAt, w
  <2> QED
    BY <1>3, <2>3, <2>4, <2>5 DEF BInv
<1>5. CASE ~Acceptable(run.file, run.id.testnet)
  <2>1. End("refused") /\ "refused" \in Ended
    BY <1>5 DEF ReadKeys, Acceptable, Ended
  <2>2. RunType' /\ run'.pc = "refused" /\ run'.id = run.id /\ run'.file = run.file
    BY <1>1, <2>1, EndedRun
  <2>3. ExportAt'
    BY <2>2 DEF ExportAt
  <2>4. ImportAt'
    BY <1>1, <1>2, <1>5, <2>2 DEF ImportAt, Acceptable
  <2> QED
    BY <1>3, <2>2, <2>3, <2>4 DEF BInv
<1> QED
  BY <1>4, <1>5

(* A name that passes has no wallet, and none comes in between. *)
LEMMA CheckNameKeeps ==
  ASSUME BInv, CheckName
  PROVE  BInv'
<1>1. run.pc = "checking" /\ UNCHANGED <<wallets, spoilt, files, runs, backup>>
  BY DEF CheckName
<1>2. DiskType' /\ Sourced' /\ KeptProper'
  BY <1>1, DiskKept
<1>3. CASE Fail
  BY <1>1, <1>2, <1>3, FailedRun DEF BInv, RunType
<1>4. CASE run.id \notin DOMAIN wallets \cup spoilt /\ Goto("saving")
  <2>1. run' = [run EXCEPT !.pc = "saving", !.wallet = run.wallet]
    BY <1>4 DEF Goto, BInv, RunType
  <2>2. isWallet(run.wallet) /\ "saving" \in Running \cup Ended
    BY DEF BInv, RunType, Running
  <2>3. /\ RunType' /\ run'.pc = "saving" /\ run'.wallet = run.wallet
        /\ run'.id = run.id /\ run'.file = run.file
    BY <1>1, <2>1, <2>2, RunMoves
  <2>4. ExportAt'
    BY <2>3 DEF ExportAt
  <2>5. ImportAt'
    BY <1>1, <1>4, <2>3 DEF BInv, ImportAt
  <2> QED
    BY <1>2, <2>3, <2>4, <2>5 DEF BInv
<1> QED
  BY <1>3, <1>4 DEF CheckName

(* What the disk is like when a wallet has been saved, or spoilt. *)
LEMMA SavesKeeps ==
  ASSUME BInv, run.pc = "saving", saves, UNCHANGED backup
  PROVE  /\ DiskType' /\ Sourced' /\ KeptProper'
         /\ run.id \in DOMAIN wallets' /\ wallets'[run.id] = run.wallet
<1>1. /\ run.id \in Ids /\ isWallet(run.wallet) /\ run.file \in Files
      /\ files[run.file] # NoFile /\ run.wallet = walletOf(run.file.type, files[run.file])
  BY DEF BInv, RunType, ImportAt
<1>2. /\ DOMAIN wallets' = DOMAIN wallets \cup {run.id} /\ spoilt' = spoilt \ {run.id}
      /\ wallets'[run.id] = run.wallet
      /\ \A i \in DOMAIN wallets : i # run.id => wallets'[i] = wallets[i]
      /\ UNCHANGED <<files, runs>>
  BY DEF saves
<1>3. DiskType'
  BY <1>1, <1>2 DEF BInv, DiskType
<1>4. Sourced'
  BY <1>2 DEF BInv, Sourced, Source
<1>5. KeptProper'
  <2>1. Proper(run.wallet)
    BY <1>1 DEF BInv, KeptProper
  <2> QED
    BY <1>2, <2>1 DEF BInv, KeptProper
<1> QED
  BY <1>2, <1>3, <1>4, <1>5

(* A spoilt file is no wallet. *)
LEMMA SpoilsKeeps ==
  ASSUME BInv, run.pc = "saving", spoils, UNCHANGED backup
  PROVE  DiskType' /\ Sourced' /\ KeptProper'
<1>1. run.id \in Ids
  BY DEF BInv, RunType
<1>2. /\ DOMAIN wallets' = DOMAIN wallets \ {run.id} /\ spoilt' = spoilt \cup {run.id}
      /\ \A i \in DOMAIN wallets : i # run.id => wallets'[i] = wallets[i]
      /\ UNCHANGED <<files, runs>>
  BY DEF spoils
<1>3. DiskType'
  BY <1>1, <1>2 DEF BInv, DiskType
<1>4. Sourced'
  BY <1>2 DEF BInv, Sourced, Source
<1>5. KeptProper'
  BY <1>2 DEF BInv, KeptProper
<1> QED
  BY <1>3, <1>4, <1>5

(* A new wallet, or the end of the run. *)
LEMMA SaveKeeps ==
  ASSUME BInv, Save
  PROVE  BInv'
<1>1. run.pc = "saving" /\ UNCHANGED backup /\ runs' = runs /\ files' = files
  BY DEF Save, saves, spoils
<1>2. CASE saves /\ End("imported")
  <2>1. /\ DiskType' /\ Sourced' /\ KeptProper'
        /\ run.id \in DOMAIN wallets' /\ wallets'[run.id] = run.wallet
    BY <1>1, <1>2, SavesKeeps
  <2>2. RunType' /\ run'.pc = "imported" /\ run'.id = run.id /\ run'.file = run.file
    <3>1. "imported" \in Ended
      BY DEF Ended
    <3> QED
      BY <1>1, <1>2, <3>1, EndedRun
  <2>3. ExportAt'
    BY <2>2 DEF ExportAt
  <2>4. /\ files[run.file] # NoFile /\ Readable(run.file.type, files[run.file])
        /\ run.wallet = walletOf(run.file.type, files[run.file])
    BY <1>1 DEF BInv, ImportAt
  <2>5. ImportAt'
    BY <1>1, <2>1, <2>2, <2>4 DEF ImportAt
  <2> QED
    BY <2>1, <2>2, <2>3, <2>5 DEF BInv
<1>3. CASE spoils /\ Fail
  BY <1>1, <1>3, SpoilsKeeps, FailedRun DEF BInv, RunType
<1> QED
  BY <1>2, <1>3 DEF Save

(* An error leaves the disk alone. *)
LEMMA GiveUpKeeps ==
  ASSUME BInv, GiveUp
  PROVE  BInv'
BY DiskKept, FailedRun DEF GiveUp, BInv, RunType

(* A killed run leaves a trace of its export, or a new wallet, or nothing. *)
LEMMA CrashKeeps ==
  ASSUME BInv, Crash
  PROVE  BInv'
<1>1. Fail /\ UNCHANGED backup
  BY DEF Crash
<1>2. run.taken \in Nat /\ Len(run.text) \in Nat /\ run.taken <= Len(run.text)
  BY DEF BInv, RunType
<1>3. CASE UNCHANGED <<wallets, spoilt, files, runs>>
  BY <1>1, <1>3, DiskKept, FailedRun DEF BInv, RunType
<1>4. ASSUME writing("json"), NEW left \in cutShort(Len(run.text)) \cup {run.text}, writes(left)
      PROVE  BInv'
  <2>1. left \in Seq(Lines) /\ Trace(left, run.file.type, run.wallet)
    BY <1>2, <1>4, CutShortIsTrace, WholeIsTrace DEF writing
  <2> QED
    BY <1>1, <1>4, <2>1, LinesLeft DEF writing
<1>5. ASSUME writing("csv"), writes(beginning(run.taken, FALSE)) PROVE BInv'
  <2>1. run.taken \in 0 .. Len(run.text)
    BY <1>2
  <2>2. /\ beginning(run.taken, FALSE) \in Seq(Lines)
        /\ Trace(beginning(run.taken, FALSE), run.file.type, run.wallet)
    BY <1>5, <2>1, LeftIsTrace DEF writing
  <2> QED
    BY <1>1, <1>5, <2>2, LinesLeft DEF writing
<1>6. ASSUME writing("csv"), NEW left \in cutShort(run.taken), writes(left) PROVE BInv'
  <2>1. left \in Seq(Lines) /\ Trace(left, run.file.type, run.wallet)
    BY <1>2, <1>6, CutShortIsTrace DEF writing
  <2> QED
    BY <1>1, <1>6, <2>1, LinesLeft DEF writing
<1>7. CASE run.pc = "saving" /\ (saves \/ spoils)
  <2>1. DiskType' /\ Sourced' /\ KeptProper'
    BY <1>1, <1>7, SavesKeeps, SpoilsKeeps
  <2>2. RunType' /\ ExportAt' /\ ImportAt'
    BY <1>1, <1>7, FailedRun DEF BInv, RunType, saves, spoils
  <2> QED
    BY <2>1, <2>2 DEF BInv
<1> QED
  BY <1>3, <1>4, <1>5, <1>6, <1>7 DEF Crash

(* The invariant holds at first ... *)
LEMMA InitBInv == Init => BInv
<1> SUFFICES ASSUME Init PROVE BInv
  OBVIOUS
<1>1. /\ wallets \in Stores /\ spoilt = {} /\ runs = 0
      /\ files = [f \in Files |-> IF f \in ExportFiles THEN NoFile ELSE ForeignTexts[f]]
      /\ run = runOf(NoWallet, NoFile, "idle", EmptyWallet)
      /\ backup = [f \in ExportFiles |-> NoBackup]
  BY DEF Init
<1>2. \A f \in Files : f \notin ExportFiles =>
        /\ f \in DOMAIN ForeignTexts /\ files[f] = ForeignTexts[f]
        /\ ForeignTexts[f] \in Seq(Lines)
  BY <1>1, ConstantsAssumption DEF Files
<1>3. \A f \in ExportFiles : f \in Files /\ files[f] = NoFile /\ backup[f] = NoBackup
  BY <1>1 DEF Files
<1>4. DiskType
  BY <1>1, <1>2, <1>3, ConstantsAssumption DEF DiskType
<1>5. RunType
  <2>1. run = [pc |-> "idle", id |-> NoWallet, file |-> NoFile, text |-> <<>>, taken |-> 0,
               flushed |-> 0, wallet |-> EmptyWallet]
    BY <1>1 DEF runOf
  <2>2. "idle" \in Running \cup Ended /\ <<>> \in Seq(Lines) /\ Len(<<>>) = 0
    BY DEF Ended
  <2>3. NoWallet \in Ids \cup {NoWallet} /\ NoFile \in Files \cup {NoFile}
    OBVIOUS
  <2>4. run \in [pc : Running \cup Ended, id : Ids \cup {NoWallet}, file : Files \cup {NoFile},
                text : Seq(Lines), taken : Nat, flushed : Nat, wallet : {run.wallet}]
    BY <2>1, <2>2, <2>3
  <2>5. isWallet(run.wallet)
    BY <2>1, EmptyIsWallet
  <2>6. runs \in 0 .. MaxRuns
    BY <1>1, ConstantsAssumption
  <2> QED
    BY <2>1, <2>2, <2>4, <2>5, <2>6 DEF RunType
<1>6. ExportAt /\ ImportAt
  BY <1>1 DEF ExportAt, ImportAt, runOf
<1>7. Sourced
  BY <1>3 DEF Sourced
<1>8. KeptProper
  <2>1. \A i \in DOMAIN wallets : Proper(wallets[i])
    BY <1>1 DEF Proper, Unambiguous, Genuine
  <2>2. \A f \in Files : files[f] # NoFile => Proper(walletOf(f.type, files[f]))
    BY <1>2, <1>3 DEF Proper, Unambiguous, Genuine
  <2> QED
    BY <2>1, <2>2 DEF KeptProper
<1> QED
  BY <1>4, <1>5, <1>6, <1>7, <1>8 DEF BInv

(* ... every step keeps it ... *)
LEMMA NextBInv == BInv /\ [Next]_vars => BInv'
<1> SUFFICES ASSUME BInv, [Next]_vars PROVE BInv'
  OBVIOUS
<1>1. CASE UNCHANGED vars
  <2>1. UNCHANGED <<wallets, spoilt, files, runs, run, backup>>
    BY <1>1 DEF vars
  <2>2. DiskType' /\ Sourced' /\ KeptProper'
    BY <2>1, DiskKept
  <2>3. RunType' /\ ExportAt' /\ ImportAt'
    BY <2>1 DEF BInv, RunType, ExportAt, ImportAt, Acceptable
  <2> QED
    BY <2>2, <2>3 DEF BInv
<1>2. CASE Export
  BY <1>2, StartExportKeeps, OpenFileKeeps, WriteJsonKeeps, WriteRecordKeeps,
     WriteThroughKeeps, FlushKeeps DEF Export
<1>3. CASE Import
  BY <1>3, StartImportKeeps, ReadKeysKeeps, CheckNameKeeps, SaveKeeps DEF Import
<1>4. CASE GiveUp \/ Crash
  BY <1>4, GiveUpKeeps, CrashKeeps
<1> QED
  BY <1>1, <1>2, <1>3, <1>4 DEF Next, Done

(* ... so it always holds. *)
LEMMA BInvAlways == Spec => []BInv
BY InitBInv, NextBInv, PTL DEF Spec
------------------------------------------------------------------------------
(***************************************************************************)
(* The theorems.                                                           *)
(***************************************************************************)

(* Every wallet, file and run is of its type, whatever failed or was       *)
(* killed (all of backup.go, and EncryptAndSaveWallet).                    *)
THEOREM BackupTypeCorrect == Spec => []TypeOK
<1>1. BInv => TypeOK
  <2> SUFFICES ASSUME BInv PROVE TypeOK
    OBVIOUS
  <2>1. /\ DOMAIN wallets \subseteq Ids /\ spoilt \subseteq Ids \ DOMAIN wallets
        /\ \A i \in DOMAIN wallets : isWallet(wallets[i])
    BY DEF BInv, DiskType
  <2>2. ASSUME NEW f \in Files, files[f] # NoFile
        PROVE  \A n \in DOMAIN files[f] : files[f][n] \in Lines
    <3>1. files[f] \in Seq(Lines)
      BY <2>2 DEF BInv, DiskType
    <3> QED
      BY <3>1
  <2>3. /\ runs \in 0 .. MaxRuns /\ run.pc \in Running \cup Ended
        /\ run.pc \notin {"idle", "failed"} => run.id \in Ids /\ run.file \in Files
    BY DEF BInv, RunType
  <2>4. run.flushed \in 0 .. run.taken /\ run.taken \in 0 .. Len(run.text)
    BY DEF BInv, RunType
  <2> QED
    BY <2>1, <2>2, <2>3, <2>4 DEF TypeOK
<1> QED
  BY <1>1, BInvAlways, PTL

(* A file that is there has lines, and its import gives a wallet. *)
LEMMA FileLines ==
  ASSUME BInv, NEW f \in Files, files[f] # NoFile
  PROVE  files[f] \in Seq(Lines) /\ isWallet(walletOf(f.type, files[f]))
<1>1. files[f] \in Seq(Lines)
  BY DEF BInv, DiskType
<1> QED
  BY <1>1, WalletOfLines

(* An import that succeeded took what its file gives back. *)
LEMMA ImportedWallet ==
  ASSUME BInv, run.pc = "imported"
  PROVE  /\ run.id \in Ids /\ run.file \in Files /\ files[run.file] \in Seq(Lines)
         /\ Readable(run.file.type, files[run.file])
         /\ wallets[run.id] = walletOf(run.file.type, files[run.file])
<1>1. run.file \in Files /\ run.id \in Ids
  BY DEF BInv, RunType
<1>2. files[run.file] # NoFile
  BY DEF BInv, ImportAt
<1>3. files[run.file] \in Seq(Lines)
  BY <1>1, <1>2, FileLines
<1> QED
  BY <1>1, <1>3 DEF BInv, ImportAt

(***************************************************************************)
(* An import that reports success has taken every key of its file, header  *)
(* or not, with its address and kind, but what is not of a kind it knows,  *)
(* what stands first in CSV and what a later line replaces.                *)
(***************************************************************************)
THEOREM EveryKeyIsImported == Spec => []EveryKeyImported
<1>1. BInv => EveryKeyImported
  <2> SUFFICES ASSUME BInv, run.pc = "imported"
               PROVE  EveryKeyImported
    BY DEF EveryKeyImported
  <2> DEFINE lines == files[run.file]
             w == wallets[run.id]
             type == run.file.type
             m(row) == w[IF row.prefix = "p2pkh" THEN "ReceiversLegacy" ELSE "ReceiversSegwit"]
  <2>1. lines \in Seq(Lines) /\ w = walletOf(type, lines)
    BY ImportedWallet
  <2> HIDE DEF lines, w, type
  <2>2. SUFFICES ASSUME NEW n \in DOMAIN lines, lines[n].line = "row",
                        lines[n].prefix # "other", ~(type = "csv" /\ n = 1)
                 PROVE  \/ \E k \in DOMAIN lines :
                             /\ k > n /\ lines[k].line = "row"
                             /\ lines[k].prefix = lines[n].prefix
                             /\ lines[k].address = lines[n].address
                        \/ /\ lines[n].address \in DOMAIN m(lines[n])
                           /\ m(lines[n])[lines[n].address] =
                                [key |-> lines[n].key, legacy |-> lines[n].prefix = "p2pkh"]
    BY <2>2 DEF EveryKeyImported, lines, w, type
  <2>3. n \in rowsIn(type, lines)
    BY <2>2 DEF rowsIn
  <2>4. lines[n].prefix \in {"p2pkh", "p2wpkh"}
    <3>1. lines[n] \in Rows
      BY <2>1, <2>2, RowType
    <3> QED
      BY <2>2, <3>1 DEF Rows, KeyPrefixes
  <2>5. m(lines[n]) = mapOf(type, lines, lines[n].prefix)
    BY <2>1, <2>4, WalletOfLines
  <2>6. /\ lines[n].address \in DOMAIN m(lines[n])
        /\ \/ m(lines[n])[lines[n].address] = entryOf(lines[n])
           \/ \E k \in rowsIn(type, lines) :
                /\ k > n /\ lines[k].prefix = lines[n].prefix
                /\ lines[k].address = lines[n].address
    BY <2>1, <2>3, <2>5, RowIsTaken
  <2>7. \A k \in rowsIn(type, lines) : k \in DOMAIN lines /\ lines[k].line = "row"
    BY DEF rowsIn
  <2> QED
    BY <2>6, <2>7 DEF entryOf
<1> QED
  BY <1>1, BInvAlways, PTL

(* An export that was reported whole can be read, and all its keys are in  *)
(* the format of the testnet (SkToWif).                                    *)
LEMMA WholeIsAcceptable ==
  ASSUME BInv, NEW f \in ExportFiles, backup[f].status = "whole", backup[f] # NoBackup
  PROVE  Acceptable(f, TRUE)
<1>1. PICK w : Source(f, w)
  BY DEF BInv, Sourced
<1>2. Text(files[f], f.type, w) /\ isWallet(w)
  BY <1>1 DEF Source
<1>3. f.type \in {"json", "csv"}
  BY DEF ExportFiles
<1>4. Readable(f.type, files[f])
  BY <1>2, <1>3, TextIsReadable
<1>5. ASSUME NEW n \in rowsIn(f.type, files[f]) PROVE files[f][n].testnet = TRUE
  <2>1. n \in DOMAIN files[f] /\ files[f][n].line = "row" /\ From(files[f], w)
    BY <1>2 DEF rowsIn, Text
  <2> QED
    BY <1>2, <2>1, RowOfSource DEF wifNetwork
<1> QED
  BY <1>4, <1>5 DEF Acceptable

(* Import under the testnet flag refuses no file whose export was reported *)
(* and was not cut short: the formats of export and import agree (SkToWif, *)
(* WifToSk).                                                               *)
THEOREM WholeIsAccepted == Spec => []WholeBackupAccepted
<1>1. BInv => WholeBackupAccepted
  <2> SUFFICES ASSUME BInv, run.pc = "refused", run.file \in ExportFiles, run.id.testnet
               PROVE  backup[run.file].status # "whole"
    BY DEF WholeBackupAccepted
  <2>1. files[run.file] # NoFile /\ ~Acceptable(run.file, run.id.testnet)
    BY DEF BInv, ImportAt
  <2>2. backup[run.file] # NoBackup
    BY <2>1 DEF BInv, Sourced
  <2>3. run.id.testnet = TRUE
    <3>1. run.id \in Ids
      BY DEF BInv, RunType
    <3> QED
      BY <3>1 DEF Ids
  <2> QED
    BY <2>1, <2>2, <2>3, WholeIsAcceptable
<1> QED
  BY <1>1, BInvAlways, PTL

(* If the wallets there were, and the files of other programs, keep every  *)
(* address with its own key and among those of its kind, then so does      *)
(* every wallet after any exports and imports.                             *)
THEOREM KeysAlwaysFit == ASSUME Genuine PROVE Spec => []KeysFit
<1>1. BInv => KeysFit
  BY DEF BInv, KeptProper, Proper, KeysFit, Fit
<1> QED
  BY <1>1, BInvAlways, PTL

(* What is known of a file that was exported to, if no wallet keeps one    *)
(* address with two keys.                                                  *)
LEMMA SourceOf ==
  ASSUME Unambiguous, BInv, NEW f \in ExportFiles, backup[f] # NoBackup
  PROVE  /\ files[f] \in Seq(Lines)
         /\ Promise!isPart(Contents(f), backup[f].keys)
         /\ f.type = "json" /\ Readable(f.type, files[f]) => Contents(f) = backup[f].keys
         /\ backup[f].status = "whole" =>
              Readable(f.type, files[f]) /\ Contents(f) = backup[f].keys
<1>1. PICK w : Source(f, w)
  BY DEF BInv, Sourced
<1>2. isWallet(w) /\ Agree(w) /\ Trace(files[f], f.type, w)
  BY <1>1 DEF Source, Proper
<1>3. backup[f].keys = allAddresses(w)
  BY <1>1, <1>2, SameTogether DEF Source
<1>4. files[f] \in Seq(Lines)
  <2>1. f \in Files /\ files[f] # NoFile
    BY DEF Files, BInv, Sourced
  <2> QED
    BY <2>1, FileLines
<1>5. Promise!isPart(Contents(f), backup[f].keys)
  BY <1>2, <1>3, <1>4, PartGivenBack DEF Trace, Contents
<1>6. f.type \in {"json", "csv"}
  BY DEF ExportFiles
<1>7. Text(files[f], f.type, w) => Readable(f.type, files[f]) /\ Contents(f) = backup[f].keys
  BY <1>2, <1>3, <1>6, TextIsReadable, AllGivenBack DEF Contents
<1> QED
  BY <1>1, <1>2, <1>4, <1>5, <1>7 DEF Source, Trace

(* A file whose export was reported, and not cut short by a flush, gives   *)
(* back all addresses of the wallet, with their keys and kinds.            *)
THEOREM WholeIsKept == ASSUME Unambiguous PROVE Spec => []ReportedIsWhole
<1>1. BInv => ReportedIsWhole
  BY SourceOf DEF ReportedIsWhole
<1> QED
  BY <1>1, BInvAlways, PTL

(* A wallet made from an export file holds what the exported wallet held,  *)
(* or less if the file is CSV and broke off; never another key.            *)
THEOREM RestoredIsSame == ASSUME Unambiguous PROVE Spec => []RestoredIsWhole
<1>1. BInv => RestoredIsWhole
  <2> SUFFICES ASSUME BInv, run.pc = "imported", run.file \in ExportFiles
               PROVE  LET b   == backup[run.file]
                          got == entriesOf(wallets[run.id])
                      IN  /\ Promise!isPart(got, b.keys)
                          /\ got # b.keys => run.file.type = "csv" /\ b.status # "whole"
    BY DEF RestoredIsWhole
  <2>1. entriesOf(wallets[run.id]) = Contents(run.file) /\ Readable(run.file.type, files[run.file])
    BY ImportedWallet DEF Contents
  <2>2. backup[run.file] # NoBackup
    BY DEF BInv, Sourced, ImportAt
  <2>3. run.file.type \in {"json", "csv"}
    BY DEF ExportFiles
  <2> QED
    BY <2>1, <2>2, <2>3, SourceOf
<1> QED
  BY <1>1, BInvAlways, PTL

------------------------------------------------------------------------------
(***************************************************************************)
(* Export and import, line by line, keep KeyBackup's promise.              *)
(***************************************************************************)

(* What an export file gives back is a part of what was exported to it. *)
PartOfBackup ==
  \A f \in ExportFiles :
    backup[f] # NoBackup => Promise!isPart(Contents(f), backup[f].keys)

(* Keys are not one of the marks for no keys. *)
LEMMA KeysAreNoMark ==
  ASSUME NEW w, isWallet(w)
  PROVE  entriesOf(w) # NoWallet /\ entriesOf(w) # Unreadable
<1>1. isMap(entriesOf(w))
  BY Together
<1> QED
  BY <1>1, MarkersAssumption DEF isMap

(* A wallet holds keys just if its file can be read. *)
LEMMA HoldsKeys ==
  ASSUME BInv, NEW i \in Ids
  PROVE  /\ i \in DOMAIN wallets =>
              holds[i] = entriesOf(wallets[i]) /\ holds[i] \notin {NoWallet, Unreadable}
         /\ i \in spoilt => holds[i] = Unreadable
         /\ i \notin DOMAIN wallets \cup spoilt => holds[i] = NoWallet
<1>1. \A j \in DOMAIN wallets : isWallet(wallets[j])
  BY DEF BInv, DiskType
<1>2. spoilt \subseteq Ids \ DOMAIN wallets
  BY DEF BInv, DiskType
<1> QED
  BY <1>1, <1>2, KeysAreNoMark DEF holds

(* In the beginning no wallet is spoilt. *)
LEMMA InitPromised == Init => Promise!Init
<1> SUFFICES ASSUME Init, NEW i \in Ids PROVE holds[i] # Unreadable
  BY DEF Promise!Init
<1>1. spoilt = {}
  BY DEF Init
<1>2. BInv
  BY InitBInv
<1> QED
  BY <1>1, <1>2, HoldsKeys, MarkersAssumption

(* Steps that leave the files and wallets alone are not seen. *)
LEMMA Unseen ==
  ASSUME UNCHANGED <<wallets, spoilt, files>>
  PROVE  UNCHANGED Promise!vars
BY DEF Promise!vars, holds, kept, Contents

(* A step of an export that writes to its file. *)
LEMMA FileStep ==
  ASSUME BInv, PartOfBackup', run.pc \in {"exporting", "writing"},
         NEW lines, files' = [files EXCEPT ![run.file] = lines],
         NEW status \in Statuses,
         backup'[run.file] =
           [id |-> run.id, keys |-> entriesOf(run.wallet), status |-> status],
         UNCHANGED <<wallets, spoilt>>
  PROVE  Promise!Write
<1>1. PICK f : f = run.file
  OBVIOUS
<1>2. /\ f \in ExportFiles /\ f \in Files /\ run.id \in Ids
      /\ isWallet(run.wallet) /\ run.id \in DOMAIN wallets /\ wallets[run.id] = run.wallet
  BY <1>1 DEF BInv, RunType, ExportAt
<1>3. UNCHANGED holds
  BY DEF holds
<1>4. \A g \in Files : g # f => kept'[g] = kept[g]
  <2>1. files' = [files EXCEPT ![f] = lines] /\ files \in [Files -> Seq(Lines) \cup {NoFile}]
    BY <1>1 DEF BInv, DiskType
  <2>2. \A g \in Files : g # f => files'[g] = files[g]
    BY <2>1
  <2> QED
    BY <2>2 DEF kept, Contents
<1>5. kept'[f] = NoWallet \/ kept'[f] = Contents(f)'
  BY <1>2 DEF kept
<1>6. holds[run.id] = entriesOf(run.wallet) /\ Promise!isWallet(run.id)
  BY <1>2, HoldsKeys DEF Promise!isWallet
<1>7. backup'[f].keys = entriesOf(run.wallet) /\ backup'[f] # NoBackup
  <2>1. backup'[f] = [id |-> run.id, keys |-> entriesOf(run.wallet), status |-> status]
    BY <1>1
  <2>2. isMap(entriesOf(run.wallet))
    BY <1>2, Together
  <2> QED
    BY <1>2, <2>1, <2>2, MarkersAssumption DEF isMap
<1>8. Promise!isPart(Contents(f)', holds[run.id])
  BY <1>2, <1>6, <1>7 DEF PartOfBackup
<1> QED
  BY <1>2, <1>3, <1>4, <1>5, <1>6, <1>8 DEF Promise!Write

(* A step that makes a new wallet's file, whole or not. *)
LEMMA WalletStep ==
  ASSUME BInv, run.pc = "saving", saves \/ spoils
  PROVE  Promise!Restore
<1>1. /\ run.id \in Ids /\ run.file \in Files /\ run.id \notin DOMAIN wallets \cup spoilt
      /\ files[run.file] # NoFile /\ Readable(run.file.type, files[run.file])
      /\ run.wallet = walletOf(run.file.type, files[run.file])
      /\ isWallet(run.wallet)
  BY DEF BInv, RunType, ImportAt
<1>2. holds[run.id] = NoWallet
  BY <1>1, HoldsKeys
<1>3. kept[run.file] = entriesOf(run.wallet) /\ kept[run.file] # NoWallet
  BY <1>1, KeysAreNoMark DEF kept, Contents
<1>4. UNCHANGED kept
  BY DEF saves, spoils, kept, Contents
<1>5. CASE saves
  <2>1. /\ DOMAIN wallets' = DOMAIN wallets \cup {run.id} /\ wallets'[run.id] = run.wallet
        /\ \A i \in DOMAIN wallets : i # run.id => wallets'[i] = wallets[i]
        /\ spoilt' = spoilt \ {run.id}
    BY <1>5 DEF saves
  <2>2. holds' = [holds EXCEPT ![run.id] = kept[run.file]]
    BY <1>1, <1>3, <2>1 DEF holds
  <2> QED
    BY <1>1, <1>2, <1>3, <1>4, <2>2 DEF Promise!Restore
<1>6. CASE spoils
  <2>1. /\ DOMAIN wallets' = DOMAIN wallets \ {run.id}
        /\ \A i \in DOMAIN wallets' : wallets'[i] = wallets[i]
        /\ spoilt' = spoilt \cup {run.id}
    BY <1>6 DEF spoils
  <2>2. holds' = [holds EXCEPT ![run.id] = Unreadable]
    BY <1>1, <2>1 DEF holds
  <2> QED
    BY <1>1, <1>2, <1>3, <1>4, <2>2 DEF Promise!Restore
<1> QED
  BY <1>5, <1>6

(* What an export writes while it runs. *)
LEMMA WriteStep ==
  ASSUME BInv, PartOfBackup', run.pc = "writing", NEW lines, writes(lines),
         UNCHANGED backup \/ (\E status \in Statuses : Report(status))
  PROVE  Promise!Write
<1>1. /\ run.file \in ExportFiles
      /\ backup[run.file] =
           [id |-> run.id, keys |-> entriesOf(run.wallet), status |-> "begun"]
      /\ DOMAIN backup = ExportFiles
  BY DEF BInv, DiskType, ExportAt
<1>2. "begun" \in Statuses
  BY DEF Statuses
<1>3. \E status \in Statuses :
        backup'[run.file] =
          [id |-> run.id, keys |-> entriesOf(run.wallet), status |-> status]
  <2>1. CASE UNCHANGED backup
    BY <1>1, <1>2, <2>1
  <2>2. ASSUME NEW status \in Statuses, Report(status)
        PROVE  backup'[run.file] =
                 [id |-> run.id, keys |-> entriesOf(run.wallet), status |-> status]
    BY <1>1, <2>2 DEF Report
  <2> QED
    BY <2>1, <2>2
<1> QED
  BY <1>3, FileStep DEF writes

(* Each step of an export or an import is one of KeyBackup, or not seen. *)
LEMMA StepPromised ==
  ASSUME BInv, PartOfBackup', [Next]_vars
  PROVE  [Promise!Next]_Promise!vars
<1> USE DEF Promise!Next
<1>1. CASE UNCHANGED <<wallets, spoilt, files>>
  BY <1>1, Unseen
<1>2. CASE OpenFile
  <2>1. run.pc = "exporting" /\ run.file \in ExportFiles /\ DOMAIN backup = ExportFiles
    BY <1>2 DEF OpenFile, BInv, DiskType, ExportAt
  <2>2. backup'[run.file] =
          [id |-> run.id, keys |-> entriesOf(run.wallet), status |-> "begun"]
    BY <1>2, <2>1 DEF OpenFile
  <2>3. "begun" \in Statuses
    BY DEF Statuses
  <2> QED
    BY <1>2, <2>1, <2>2, <2>3, FileStep DEF OpenFile
<1>3. ASSUME NEW lines, run.pc = "writing", writes(lines),
             UNCHANGED backup \/ Report("whole") \/ Report("short")
      PROVE  Promise!Write
  <2>1. "whole" \in Statuses /\ "short" \in Statuses
    BY DEF Statuses
  <2> QED
    BY <1>3, <2>1, WriteStep
<1>4. CASE WriteJson \/ WriteThrough \/ Flush
  <2>1. \/ UNCHANGED <<wallets, spoilt, files>>
        \/ \E lines : /\ run.pc = "writing" /\ writes(lines)
                      /\ UNCHANGED backup \/ Report("whole") \/ Report("short")
    BY <1>4 DEF WriteJson, WriteThrough, Flush, writing
  <2> QED
    BY <1>3, <2>1, Unseen
<1>5. CASE Save
  BY <1>5, WalletStep DEF Save
<1>6. CASE Crash
  <2>1. \/ UNCHANGED <<wallets, spoilt, files>>
        \/ \E lines : run.pc = "writing" /\ writes(lines) /\ UNCHANGED backup
        \/ run.pc = "saving" /\ (saves \/ spoils)
    BY <1>6 DEF Crash, writing
  <2> QED
    BY <1>3, <2>1, Unseen, WalletStep
<1>7. CASE UNCHANGED vars
  BY <1>1, <1>7 DEF vars
<1>8. ASSUME NEW i, NEW type, StartExport(i, type) PROVE UNCHANGED <<wallets, spoilt, files>>
  BY <1>8 DEF StartExport, Begin
<1>9. ASSUME NEW i, NEW f, StartImport(i, f) PROVE UNCHANGED <<wallets, spoilt, files>>
  BY <1>9 DEF StartImport, Begin
<1>10. WriteRecord \/ ReadKeys \/ CheckName \/ GiveUp => UNCHANGED <<wallets, spoilt, files>>
  BY DEF WriteRecord, ReadKeys, CheckName, GiveUp
<1> QED
  BY <1>1, <1>2, <1>4, <1>5, <1>6, <1>7, <1>8, <1>9, <1>10 DEF Next, Export, Import, Done

(* Export and import implement KeyBackup: whatever fails, is killed or is  *)
(* torn, a backup gives back keys of one wallet only, and a new wallet     *)
(* holds exactly what its backup gives back.                               *)
THEOREM KeepsThePromise == ASSUME Unambiguous PROVE Spec => ImplementsKeyBackup
<1>1. BInv => PartOfBackup
  BY SourceOf DEF PartOfBackup
<1>2. BInv /\ PartOfBackup' /\ [Next]_vars => [Promise!Next]_Promise!vars
  BY StepPromised
<1> QED
  BY <1>1, <1>2, InitPromised, BInvAlways, PTL DEF Spec, ImplementsKeyBackup, Promise!Spec
==============================================================================
