------------------------------- MODULE Backup -------------------------------
(***************************************************************************)
(* The backup of a wallet's keys (src/wallet/backup.go): export writes     *)
(* them to a JSON or a CSV file in the home directory, import makes a new  *)
(* wallet from such a file, or from one of another program. A file is a    *)
(* sequence of lines, the last of which may be torn: a write that fails,   *)
(* or a run that is killed, leaves a beginning of what was to be written.  *)
(*                                                                         *)
(* Runs follow one another here; those that compete for a wallet's name    *)
(* are the subject of WalletStore.                                         *)
(***************************************************************************)
EXTENDS Naturals, Sequences, SequencesExt, FiniteSetsExt

CONSTANTS
  Names,         \* Names of wallets.
  Keys,          \* Secret keys.
  Stores,        \* The wallets there may be in the beginning: see Init.
  ForeignTexts,  \* Files of other programs: a function from files to texts.
  Buffer,        \* How many lines fit in the CSV writer's buffer.
  MaxRuns,       \* A bound: how many commands are given.
  NoWallet,      \* No wallet, or no keys of one.
  Unreadable,    \* A wallet's file that was not written to its end.
  NoFile,        \* No export file.
  NoBackup       \* Nothing was ever exported to this file.

Maps == {"ReceiversLegacy", "ChangeLegacy", "ReceiversSegwit", "ChangeSegwit"}

Ids == [name : Names, testnet : BOOLEAN]

(* The files export writes: the network is not part of the name. *)
ExportFiles == [name : Names, type : {"json", "csv"}]

Files == ExportFiles \cup DOMAIN ForeignTexts

(***************************************************************************)
(* The address of a key: what the hash, the version byte and the prefix of *)
(* bech32 tell apart.                                                      *)
(***************************************************************************)
Addresses == [key : Keys, legacy : BOOLEAN, testnet : BOOLEAN]

Entries == [key : Keys, legacy : BOOLEAN]

(* The kinds of keys that import's switch tells apart. *)
KeyPrefixes == {"p2pkh", "p2wpkh", "other"}

(* A line of a key. The signing key is a prefix and the WIF of a key. *)
Rows == [line : {"row"}, address : Addresses, prefix : KeyPrefixes,
         key : Keys, testnet : BOOLEAN]

Header == [line |-> "header"]
Open == [line |-> "["]
Close == [line |-> "]"]
Torn == [line |-> "torn"]

Lines == Rows \cup {Header, Open, Close, Torn}

(* A map of a wallet: finitely many addresses, each with its key and kind. *)
isMap(m) ==
  /\ DOMAIN m \subseteq Addresses /\ IsFiniteSet(DOMAIN m)
  /\ m \in [DOMAIN m -> Entries]

isWallet(w) == w = [m \in Maps |-> w[m]] /\ \A m \in Maps : isMap(w[m])

Statuses == {"begun", "whole", "short"}

ASSUME ConstantsAssumption ==
  /\ Buffer \in Nat \ {0} /\ MaxRuns \in Nat
  /\ \A s \in Stores : DOMAIN s \subseteq Ids /\ \A i \in DOMAIN s : isWallet(s[i])
  /\ \A f \in DOMAIN ForeignTexts :
       f \notin ExportFiles /\ ForeignTexts[f] \in Seq(Lines)

(* What stands for something that is not there is not a thing of its kind. *)
ASSUME MarkersAssumption ==
  /\ NoWallet # Unreadable /\ NoFile \notin Seq(Lines)
  /\ \A S \in SUBSET Addresses :
       /\ NoWallet \notin [S -> Entries] /\ Unreadable \notin [S -> Entries]
       /\ NoBackup \notin [id : Ids, keys : [S -> Entries], status : Statuses]

VARIABLES
  wallets,  \* wallets[i]: the four maps of wallet i, if it has a file.
  spoilt,   \* The wallets whose file was not written to its end.
  files,    \* files[f]: the lines of the file f.
  runs,     \* How many commands have been given.
  run,      \* The current command: see Begin.
  backup    \* backup[f]: history: whose keys were last exported to f, and
            \* whether that export was reported or its flush failed.

vars == <<wallets, spoilt, files, runs, run, backup>>

Ended == {"idle", "exported", "imported", "refused", "failed"}
Running == {"exporting", "writing", "importing", "checking", "saving"}

EmptyMap == [a \in {} |-> [key |-> {}, legacy |-> TRUE]]
EmptyWallet == [m \in Maps |-> EmptyMap]

(* Maps put together with maps.Copy: of those that have an address the last. *)
together(m1, m2, m3, m4) ==
  [a \in DOMAIN m1 \cup DOMAIN m2 \cup DOMAIN m3 \cup DOMAIN m4 |->
     IF a \in DOMAIN m4 THEN m4[a]
     ELSE IF a \in DOMAIN m3 THEN m3[a]
     ELSE IF a \in DOMAIN m2 THEN m2[a] ELSE m1[a]]

(* All that a wallet holds; an address and its key are in one map only. *)
entriesOf(w) ==
  together(w["ChangeSegwit"], w["ChangeLegacy"], w["ReceiversSegwit"], w["ReceiversLegacy"])

(* Mutant of allAddresses: the change addresses of segwit are forgotten. *)
allAddressesButOneMap(w) ==
  together(w["ReceiversLegacy"], w["ChangeLegacy"], w["ReceiversSegwit"], EmptyMap)

(* The four maps, one after the other. *)
allAddresses(w) ==
  together(w["ReceiversLegacy"], w["ChangeLegacy"], w["ReceiversSegwit"], w["ChangeSegwit"])

(* Mutant of wifNetwork: keys are exported in the format of mainnet. *)
wifNetworkMain == FALSE

(* SkToWif knows the testnet's format only. *)
wifNetwork == TRUE

(* Mutant of prefixOf: the two kinds are swapped. *)
prefixOfOtherKind(entry) == IF entry.legacy THEN "p2wpkh" ELSE "p2pkh"

prefixOf(entry) == IF entry.legacy THEN "p2pkh" ELSE "p2wpkh"

rowOf(a, entry) ==
  [line |-> "row", address |-> a, prefix |-> prefixOf(entry),
   key |-> entry.key, testnet |-> wifNetwork]

(***************************************************************************)
(* exportData: one row for every address, segwit first. Within a kind the  *)
(* order is that of the addresses, which are hashes: any order.            *)
(***************************************************************************)
exportData(w) ==
  LET all == allAddresses(w)
      rowsOf(legacy) == {rowOf(a, all[a]) : a \in {b \in DOMAIN all : all[b].legacy = legacy}}
  IN  {s \o l : s \in SetToSeqs(rowsOf(FALSE)), l \in SetToSeqs(rowsOf(TRUE))}

textOf(type, rows) ==
  IF type = "json" THEN <<Open>> \o rows \o <<Close>> ELSE <<Header>> \o rows

(* What is in a file when its writing stops after n lines, or within the next. *)
beginning(n, torn) ==
  SubSeq(run.text, 1, n) \o (IF torn THEN <<Torn>> ELSE <<>>)

(* What a write of the lines up to n leaves when it does not get to its end. *)
cutShort(n) ==
  {beginning(m, torn) : m \in run.flushed .. n - 1, torn \in BOOLEAN}

(* Mutant of Readable: the rows before the place where a file breaks off count. *)
ReadableInPart(type, lines) == type \in {"json", "csv"} /\ lines # <<>>

(***************************************************************************)
(* json.Unmarshal takes a whole array; csv.ReadAll any number of whole     *)
(* records, after a first one that may be anything. Other extensions are   *)
(* not read.                                                               *)
(***************************************************************************)
Readable(type, lines) ==
  \/ type = "json" /\ lines # <<>> /\ Last(lines) = Close
  \/ type = "csv" /\ lines # <<>> /\ (Last(lines) = Torn => Len(lines) = 1)

(* Mutant of rowsIn: the first two records of CSV are skipped. *)
rowsInFromThird(type, lines) ==
  {n \in DOMAIN lines : lines[n].line = "row" /\ (type = "csv" => n > 2)}

(* Where the keys of a file are. The first record of CSV is skipped. *)
rowsIn(type, lines) ==
  {n \in DOMAIN lines : lines[n].line = "row" /\ (type = "csv" => n # 1)}

(* The map of the rows with a prefix; of two rows for an address the last. *)
mapOf(type, lines, pre) ==
  LET rows == {n \in rowsIn(type, lines) : lines[n].prefix = pre}
      last(a) == Max({n \in rows : lines[n].address = a})
  IN  [a \in {lines[n].address : n \in rows} |->
         [key |-> lines[last(a)].key, legacy |-> pre = "p2pkh"]]

(* The wallet import builds. Rows of other prefixes are dropped. *)
walletOf(type, lines) ==
  [EmptyWallet EXCEPT !["ReceiversLegacy"] = mapOf(type, lines, "p2pkh"),
                      !["ReceiversSegwit"] = mapOf(type, lines, "p2wpkh")]

TypeOK ==
  /\ DOMAIN wallets \subseteq Ids /\ spoilt \subseteq Ids \ DOMAIN wallets
  /\ \A i \in DOMAIN wallets : isWallet(wallets[i])
  /\ \A f \in Files : files[f] # NoFile =>
       \A n \in DOMAIN files[f] : files[f][n] \in Lines
  /\ runs \in 0 .. MaxRuns /\ run.pc \in Running \cup Ended
  /\ run.pc \notin {"idle", "failed"} => run.id \in Ids /\ run.file \in Files
  /\ run.flushed \in 0 .. run.taken /\ run.taken \in 0 .. Len(run.text)

(***************************************************************************)
(* pc says where the command is, or how it ended; text is what an export   *)
(* has to write, taken how many lines of it the CSV writer was given, and  *)
(* flushed how many are in the file; wallet is the one an export has       *)
(* loaded, or the one an import builds.                                    *)
(***************************************************************************)
runOf(i, f, where, w) ==
  [pc |-> where, id |-> i, file |-> f, text |-> <<>>, taken |-> 0, flushed |-> 0,
   wallet |-> w]

Init ==
  /\ wallets \in Stores /\ spoilt = {}
  /\ files = [f \in Files |-> IF f \in ExportFiles THEN NoFile ELSE ForeignTexts[f]]
  /\ runs = 0
  /\ run = runOf(NoWallet, NoFile, "idle", EmptyWallet)
  /\ backup = [f \in ExportFiles |-> NoBackup]

Goto(where) == run' = [run EXCEPT !.pc = where]

(* The run is over: of its variables at most what it was about is left. *)
End(how) == run' = runOf(run.id, run.file, how, EmptyWallet)

(* The run ends with an error, or is killed. *)
Fail == run' = runOf(NoWallet, NoFile, "failed", EmptyWallet)

(* The next command, once the last one has ended. *)
Begin(i, f, where, w) ==
  /\ run.pc \in Ended /\ runs < MaxRuns
  /\ runs' = runs + 1
  /\ run' = runOf(i, f, where, w)
  /\ UNCHANGED <<wallets, spoilt, files, backup>>

(* The server answers for addresses of its own network only. *)
loads(i) ==
  /\ i \in DOMAIN wallets
  /\ \A m \in Maps : \A a \in DOMAIN wallets[i][m] : a.testnet = i.testnet

(* LoadWallet succeeds, or fails: a wrong password, no file, no answer. *)
StartExport(i, type) ==
  LET f == [name |-> i.name, type |-> type]
  IN  \/ loads(i) /\ Begin(i, f, "exporting", wallets[i])
      \/ Begin(NoWallet, NoFile, "failed", EmptyWallet)

(* The file is opened, and truncated; what was in it is gone. *)
OpenFile ==
  /\ run.pc = "exporting"
  /\ \E rows \in exportData(run.wallet) :
       run' = [run EXCEPT !.pc = "writing", !.text = textOf(run.file.type, rows)]
  /\ files' = [files EXCEPT ![run.file] = <<>>]
  /\ backup' = [backup EXCEPT ![run.file] =
       [id |-> run.id, keys |-> entriesOf(run.wallet), status |-> "begun"]]
  /\ UNCHANGED <<wallets, spoilt, runs>>

writing(type) == run.pc = "writing" /\ run.file.type = type

writes(lines) ==
  /\ files' = [files EXCEPT ![run.file] = lines]
  /\ UNCHANGED <<wallets, spoilt, runs>>

(* The run says "Wallet exported successfully". *)
Report(status) ==
  /\ End("exported")
  /\ backup' = [backup EXCEPT ![run.file].status = status]

(* os.WriteFile: the error of a write that is cut short is returned. *)
WriteJson ==
  /\ writing("json")
  /\ \/ writes(run.text) /\ Report("whole")
     \/ \E left \in cutShort(Len(run.text)) :
          writes(left) /\ Fail /\ UNCHANGED backup

bufferFull == run.taken - run.flushed = Buffer

(* Mutant of WriteRecord: a line is counted twice. *)
WriteRecordTwice ==
  /\ writing("csv") /\ run.taken < Len(run.text) /\ ~bufferFull
  /\ run' = [run EXCEPT !.taken = @ + 2]
  /\ UNCHANGED <<wallets, spoilt, files, runs, backup>>

(* csv.Writer.Write, as long as there is room in its buffer. *)
WriteRecord ==
  /\ writing("csv") /\ run.taken < Len(run.text) /\ ~bufferFull
  /\ run' = [run EXCEPT !.taken = @ + 1]
  /\ UNCHANGED <<wallets, spoilt, files, runs, backup>>

(* A Write that overflows the buffer, with a part of its line or none. *)
WriteThrough ==
  /\ writing("csv") /\ run.taken < Len(run.text) /\ bufferFull
  /\ \/ /\ \E torn \in BOOLEAN : writes(beginning(run.taken, torn))
        /\ run' = [run EXCEPT !.flushed = run.taken, !.taken = @ + 1]
     \/ /\ \E left \in cutShort(run.taken + 1) : writes(left)
        /\ Fail
  /\ UNCHANGED backup

(* The deferred Flush: nobody looks at its error. *)
Flush ==
  /\ writing("csv") /\ run.taken = Len(run.text)
  /\ \/ writes(run.text) /\ Report("whole")
     \/ \E left \in cutShort(run.taken) : writes(left) /\ Report("short")

StartImport(i, f) ==
  IF files[f] = NoFile
  THEN Begin(NoWallet, NoFile, "failed", EmptyWallet)
  ELSE Begin(i, f, "importing", EmptyWallet)

(***************************************************************************)
(* The file is read, and every WIF in it decoded: one that is torn or of   *)
(* the other network refuses them all. The address is taken as it is.      *)
(***************************************************************************)
ReadKeys ==
  /\ run.pc = "importing"
  /\ LET lines == files[run.file]
         type  == run.file.type
     IN  IF /\ Readable(type, lines)
            /\ \A n \in rowsIn(type, lines) : lines[n].testnet = run.id.testnet
         THEN run' = [run EXCEPT !.pc = "checking", !.wallet = walletOf(type, lines)]
         ELSE End("refused")
  /\ UNCHANGED <<wallets, spoilt, files, runs, backup>>

(* Mutant of CheckName: the name is not checked. *)
CheckNameUnchecked ==
  /\ run.pc = "checking"
  /\ Goto("saving")
  /\ UNCHANGED <<wallets, spoilt, files, runs, backup>>

(* getWalletPath refuses a name that is taken. *)
CheckName ==
  /\ run.pc = "checking"
  /\ IF run.id \in DOMAIN wallets \cup spoilt THEN Fail ELSE Goto("saving")
  /\ UNCHANGED <<wallets, spoilt, files, runs, backup>>

saves ==
  /\ wallets' = [i \in DOMAIN wallets \cup {run.id} |->
                   IF i = run.id THEN run.wallet ELSE wallets[i]]
  /\ spoilt' = spoilt \ {run.id}
  /\ UNCHANGED <<files, runs>>

(* The file is there, but its writing did not get to its end. *)
spoils ==
  /\ wallets' = [i \in DOMAIN wallets \ {run.id} |-> wallets[i]]
  /\ spoilt' = spoilt \cup {run.id}
  /\ UNCHANGED <<files, runs>>

(* EncryptAndSaveWallet. The balance is asked for, and its error ignored. *)
Save ==
  /\ run.pc = "saving"
  /\ \/ saves /\ End("imported")
     \/ spoils /\ Fail
  /\ UNCHANGED backup

(* Other errors: a file or a directory that cannot be opened or made. *)
GiveUp ==
  /\ run.pc \in {"exporting", "importing", "checking", "saving"}
  /\ Fail
  /\ UNCHANGED <<wallets, spoilt, files, runs, backup>>

(* Killed between two system calls, or in the middle of one. *)
Crash ==
  /\ run.pc \in Running
  /\ Fail
  /\ \/ UNCHANGED <<wallets, spoilt, files, runs>>
     \/ writing("json") /\ \E left \in cutShort(Len(run.text)) \cup {run.text} : writes(left)
     \/ /\ writing("csv") /\ (bufferFull \/ run.taken = Len(run.text))
        /\ \E left \in cutShort(run.taken) \cup {beginning(run.taken, FALSE)} : writes(left)
     \/ run.pc = "saving" /\ (saves \/ spoils)
  /\ UNCHANGED backup

Export ==
  \/ \E i \in Ids, type \in {"json", "csv"} : StartExport(i, type)
  \/ OpenFile \/ WriteJson \/ WriteRecord \/ WriteThrough \/ Flush

Import ==
  \/ \E i \in Ids, f \in Files : StartImport(i, f)
  \/ ReadKeys \/ CheckName \/ Save

(* The user gives no more commands. *)
Done == run.pc \in Ended /\ runs = MaxRuns /\ UNCHANGED vars

Next == Export \/ Import \/ GiveUp \/ Crash \/ Done

Spec == Init /\ [][Next]_vars
------------------------------------------------------------------------------
(* What a file gives back to an import that accepts its keys. *)
Contents(f) == entriesOf(walletOf(f.type, files[f]))

holds == [i \in Ids |-> IF i \in DOMAIN wallets THEN entriesOf(wallets[i])
                       ELSE IF i \in spoilt THEN Unreadable ELSE NoWallet]

kept == [f \in Files |-> IF files[f] # NoFile /\ Readable(f.type, files[f])
                         THEN Contents(f) ELSE NoWallet]

Promise == INSTANCE KeyBackup WITH Nothing <- NoWallet, Spoilt <- Unreadable

(***************************************************************************)
(* A file whose export was reported, and whose flush did not fail without  *)
(* notice, gives back all addresses of the wallet with their keys and      *)
(* kinds, until another export of that name and format begins (ExportKeys).*)
(***************************************************************************)
ReportedIsWhole ==
  \A f \in ExportFiles :
    backup[f] # NoBackup /\ backup[f].status = "whole" =>
      /\ Readable(f.type, files[f])
      /\ Contents(f) = backup[f].keys

(***************************************************************************)
(* A wallet imported from an export file holds what the exported wallet    *)
(* held. It holds less only if the file is CSV and broke off, because the  *)
(* export was killed or failed, or because of the flush (lines 126, 163).  *)
(***************************************************************************)
RestoredIsWhole ==
  run.pc = "imported" /\ run.file \in ExportFiles =>
    LET b   == backup[run.file]
        got == entriesOf(wallets[run.id])
    IN  /\ Promise!isPart(got, b.keys)
        /\ got # b.keys => run.file.type = "csv" /\ b.status # "whole"

(***************************************************************************)
(* Import refuses no whole backup of keys under the testnet flag: the      *)
(* formats of export and import agree (SkToWif, WifToSk).                  *)
(***************************************************************************)
WholeBackupAccepted ==
  run.pc = "refused" /\ run.file \in ExportFiles /\ run.id.testnet =>
    backup[run.file].status # "whole"

(***************************************************************************)
(* The usage shows an export followed by an import without -testnet: what  *)
(* was exported in full can be imported on the network it comes from.      *)
(***************************************************************************)
ExportedCanBeImported ==
  run.pc = "refused" /\ run.file \in ExportFiles =>
    LET b == backup[run.file]
    IN  b.status = "whole" => run.id.testnet # b.id.testnet

(***************************************************************************)
(* Every wallet keeps an address with its own key and among those of its   *)
(* kind, however often keys were exported and imported: the sends choose   *)
(* the script and the signature by it.                                     *)
(***************************************************************************)
KeysFit ==
  \A i \in DOMAIN wallets :
    \A m \in Maps : \A a \in DOMAIN wallets[i][m] :
      /\ wallets[i][m][a] = [key |-> a.key, legacy |-> a.legacy]
      /\ a.legacy = (m \in {"ReceiversLegacy", "ChangeLegacy"})

(***************************************************************************)
(* An import that reports success leaves out no key of the file without a  *)
(* reason: every line of a key, wherever it is, is in the new wallet, with *)
(* its address, its key and among those of its kind, but for those of      *)
(* foreign kinds, what stands first in CSV, which is taken for the header  *)
(* (line 175), and those that a later line of their kind replaces, as it   *)
(* has the same address.                                                   *)
(***************************************************************************)
EveryKeyImported ==
  run.pc = "imported" =>
    LET lines == files[run.file]
        mapFor(row) == wallets[run.id][IF row.prefix = "p2pkh" THEN "ReceiversLegacy"
                                       ELSE "ReceiversSegwit"]
        isReplaced(n) ==
          \E k \in DOMAIN lines :
            /\ k > n /\ lines[k].line = "row"
            /\ lines[k].prefix = lines[n].prefix /\ lines[k].address = lines[n].address
    IN  \A n \in DOMAIN lines :
          LET row == lines[n]
          IN  row.line = "row" =>
                \/ row.prefix = "other"
                \/ run.file.type = "csv" /\ n = 1
                \/ isReplaced(n)
                \/ /\ row.address \in DOMAIN mapFor(row)
                   /\ mapFor(row)[row.address] =
                        [key |-> row.key, legacy |-> row.prefix = "p2pkh"]

(***************************************************************************)
(* "Wallet exported successfully" (main.go:155) is said of a file with all *)
(* the keys of the wallet in it.                                           *)
(***************************************************************************)
ReportIsTrue ==
  run.pc = "exported" =>
    /\ Readable(run.file.type, files[run.file])
    /\ Contents(run.file) = backup[run.file].keys

(* Export and import, line by line, do what KeyBackup does at once. *)
ImplementsKeyBackup == Promise!Spec
==============================================================================
