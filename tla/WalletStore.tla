----------------------------- MODULE WalletStore -----------------------------
(***************************************************************************)
(* The wallets on disk, and the runs of the program that create and read   *)
(* them: new, import and load (main.go, src/wallet/wallet.go, storage.go,  *)
(* backup.go). Every run is an operating system process of its own; the    *)
(* program takes no lock, so runs interleave between any two system calls, *)
(* and any of them may be killed at any point.                             *)
(*                                                                         *)
(* os.WriteFile truncates the file when it opens it and then writes, each  *)
(* writer at its own offset: a file is a sequence of blocks, each named    *)
(* after the run that wrote it. What a run writes is encrypted under its   *)
(* password with an authenticated cipher and a fresh salt and nonce, so    *)
(* only a file with all its blocks, and only its blocks, decrypts.         *)
(***************************************************************************)
EXTENDS Integers, Sequences, FiniteSets

CONSTANTS
  Paths,        \* Wallet files: getWalletPath of a name and a network.
  Commands,     \* Runs of the program.
  Requests,     \* What a run may be asked: see below.
  OneAtATime,   \* TRUE if the user waits for a command before the next one.
  Hole,         \* A block of a file that nobody wrote.
  Nobody        \* "no owner": nothing loaded.

Actions == {"new", "import", "load"}

ASSUME RequestsAssumption ==
  \A r \in Requests :
    /\ r.action \in Actions
    /\ r.path \in Paths
    /\ r.size \in Nat \ {0}   \* Blocks the envelope takes: no wallet is empty.

ASSUME ConstantsAssumption ==
  /\ OneAtATime \in BOOLEAN
  /\ Hole \notin Commands /\ Nobody \notin Commands

VARIABLES
  request,   \* request[c]: the flags c was given, never assigned. c's password too.
  pc,        \* pc[c]: where c is, or how it ended.
  exists,    \* The paths at which there is a file.
  data,      \* data[p]: the blocks of the file at p.
  written,   \* written[c]: how many blocks c has written.
  got,       \* got[c]: the blocks c has read.
  loaded     \* loaded[c]: whose wallet c has decrypted.

disk == <<exists, data>>
vars == <<request, pc, disk, written, got, loaded>>

Ended == {"ok", "failed", "crashed"}
Running == {"checking", "sealing", "writing", "reading", "decrypting", "asking"}

pathOf(c) == request[c].path
isSaver(c) == request[c].action \in {"new", "import"}

(* The whole of what c writes. *)
Envelope(c) == [i \in 1 .. request[c].size |-> c]

isWhole(blocks) == \E c \in Commands : isSaver(c) /\ blocks = Envelope(c)

TypeOK ==
  /\ request \in [Commands -> Requests]
  /\ pc \in [Commands -> {"idle"} \cup Running \cup Ended]
  /\ exists \subseteq Paths
  /\ data \in [Paths -> Seq(Commands \cup {Hole})]
  /\ written \in [Commands -> Nat]
  /\ got \in [Commands -> Seq(Commands \cup {Hole})]
  /\ loaded \in [Commands -> Commands \cup {Nobody}]

Init ==
  /\ request \in [Commands -> Requests]
  /\ pc = [c \in Commands |-> "idle"]
  /\ exists = {} /\ data = [p \in Paths |-> <<>>]
  /\ written = [c \in Commands |-> 0]
  /\ got = [c \in Commands |-> <<>>]
  /\ loaded = [c \in Commands |-> Nobody]

Goto(c, where) == pc' = [pc EXCEPT ![c] = where]

(* main dispatches on -action. *)
Start(c) ==
  /\ pc[c] = "idle"
  /\ OneAtATime => \A d \in Commands : pc[d] \notin Running
  /\ Goto(c, IF isSaver(c) THEN "checking" ELSE "reading")
  /\ UNCHANGED <<request, disk, written, got, loaded>>

(* Mutant of CheckName: Stat is not called. *)
CheckNameUnchecked(c) ==
  /\ pc[c] = "checking"
  /\ Goto(c, "sealing")
  /\ UNCHANGED <<request, disk, written, got, loaded>>

(* getWalletPath: the name is refused if Stat finds its file. *)
CheckName(c) ==
  /\ pc[c] = "checking"
  /\ Goto(c, IF pathOf(c) \in exists THEN "failed" ELSE "sealing")
  /\ UNCHANGED <<request, disk, written, got, loaded>>

(* Mutant of GiveUp: the file is removed, whoever created it. *)
GiveUpAndRemove(c) ==
  /\ pc[c] \in {"checking", "sealing", "reading"}
  /\ Goto(c, "failed")
  /\ exists' = exists \ {pathOf(c)}
  /\ data' = [data EXCEPT ![pathOf(c)] = <<>>]
  /\ UNCHANGED <<request, written, got, loaded>>

(***************************************************************************)
(* Errors that leave the disk alone: no entropy or an import file that is  *)
(* refused, before the name is checked; a directory that cannot be made,   *)
(* keys that cannot be derived, a file that cannot be opened, after it;    *)
(* a file that cannot be read.                                             *)
(***************************************************************************)
GiveUp(c) ==
  /\ pc[c] \in {"checking", "sealing", "reading"}
  /\ Goto(c, "failed")
  /\ UNCHANGED <<request, disk, written, got, loaded>>

(* WriteFile opens the file with O_CREATE and O_TRUNC, not with O_EXCL. *)
CreateFile(c) ==
  /\ pc[c] = "sealing"
  /\ exists' = exists \cup {pathOf(c)}
  /\ data' = [data EXCEPT ![pathOf(c)] = <<>>]
  /\ Goto(c, "writing")
  /\ UNCHANGED <<request, written, got, loaded>>

(* Blocks with c's block at offset i; a gap before it is filled with holes. *)
Overwrite(blocks, i, c) ==
  [j \in 1 .. (IF i > Len(blocks) THEN i ELSE Len(blocks)) |->
     IF j = i THEN c ELSE IF j <= Len(blocks) THEN blocks[j] ELSE Hole]

WriteBlock(c) ==
  /\ pc[c] = "writing" /\ written[c] < request[c].size
  /\ data' = [data EXCEPT ![pathOf(c)] = Overwrite(@, written[c] + 1, c)]
  /\ written' = [written EXCEPT ![c] = @ + 1]
  /\ UNCHANGED <<request, pc, exists, got, loaded>>

(* Mutant of WriteFails: the count takes back a block that was not written. *)
WriteFailsUncounting(c) ==
  /\ pc[c] = "writing"
  /\ Goto(c, "failed")
  /\ written' = [written EXCEPT ![c] = @ - 1]
  /\ UNCHANGED <<request, disk, got, loaded>>

(* The disk is full, or Close reports an error: the file stays as it is. *)
WriteFails(c) ==
  /\ pc[c] = "writing"
  /\ Goto(c, "failed")
  /\ UNCHANGED <<request, disk, written, got, loaded>>

(* Mutant of CloseFile: a short write passes for a complete one. *)
CloseFileEarly(c) ==
  /\ pc[c] = "writing"
  /\ Goto(c, "asking")
  /\ UNCHANGED <<request, disk, written, got, loaded>>

(* All blocks are written and the file is closed. *)
CloseFile(c) ==
  /\ pc[c] = "writing" /\ written[c] = request[c].size
  /\ Goto(c, "asking")
  /\ UNCHANGED <<request, disk, written, got, loaded>>

(* Mutant of ReadFile: the last block is not read. *)
ReadFileShort(c) ==
  /\ pc[c] = "reading"
  /\ LET blocks == data[pathOf(c)]
         i      == Len(got[c]) + 1
     IN  IF pathOf(c) \notin exists
         THEN Goto(c, "failed") /\ UNCHANGED got
         ELSE IF i < Len(blocks)
         THEN got' = [got EXCEPT ![c] = Append(@, blocks[i])] /\ UNCHANGED pc
         ELSE Goto(c, "decrypting") /\ UNCHANGED got
  /\ UNCHANGED <<request, disk, written, loaded>>

(***************************************************************************)
(* ReadFile, block by block until the end of the file, at c's own offset.  *)
(* An absent file, or an absent directory, is an error.                    *)
(***************************************************************************)
ReadFile(c) ==
  /\ pc[c] = "reading"
  /\ LET blocks == data[pathOf(c)]
         i      == Len(got[c]) + 1
     IN  IF pathOf(c) \notin exists
         THEN Goto(c, "failed") /\ UNCHANGED got
         ELSE IF i <= Len(blocks)
         THEN got' = [got EXCEPT ![c] = Append(@, blocks[i])] /\ UNCHANGED pc
         ELSE Goto(c, "decrypting") /\ UNCHANGED got
  /\ UNCHANGED <<request, disk, written, loaded>>

(* Mutant of Opens: the cipher does not authenticate what it decrypts. *)
OpensUnauthenticated(c, owner) ==
  /\ isSaver(owner)
  /\ got[c] # <<>> /\ got[c][1] = owner
  /\ request[owner].password = request[c].password

(* Unmarshal and AES-GCM Open: the envelope is whole and the password its own. *)
Opens(c, owner) ==
  /\ isSaver(owner)
  /\ got[c] = Envelope(owner)
  /\ request[owner].password = request[c].password

(* Mutant of Decrypt: a file that does not open is tried again and again. *)
DecryptUntilItOpens(c) ==
  /\ pc[c] = "decrypting"
  /\ \E owner \in Commands :
       /\ Opens(c, owner)
       /\ loaded' = [loaded EXCEPT ![c] = owner]
       /\ Goto(c, "asking")
  /\ UNCHANGED <<request, disk, written, got>>

(* The wallet is there if the envelope opens, and the run fails if not. *)
Decrypt(c) ==
  /\ pc[c] = "decrypting"
  /\ \/ \E owner \in Commands :
          /\ Opens(c, owner)
          /\ loaded' = [loaded EXCEPT ![c] = owner]
          /\ Goto(c, "asking")
     \/ /\ \A owner \in Commands : ~Opens(c, owner)
        /\ Goto(c, "failed")
        /\ UNCHANGED loaded
  /\ UNCHANGED <<request, disk, written, got>>

(* Mutant of AskServer: new and import undo the save if it fails. *)
AskServerOrUndo(c) ==
  /\ pc[c] = "asking"
  /\ \E answered \in BOOLEAN :
       /\ Goto(c, IF answered THEN "ok" ELSE "failed")
       /\ exists' = IF answered THEN exists ELSE exists \ {pathOf(c)}
       /\ data' = IF answered THEN data ELSE [data EXCEPT ![pathOf(c)] = <<>>]
  /\ UNCHANGED <<request, written, got, loaded>>

(***************************************************************************)
(* getBalance: the server answers or the request fails. new and import     *)
(* ignore the error, load does not.                                        *)
(***************************************************************************)
AskServer(c) ==
  /\ pc[c] = "asking"
  /\ \E answered \in BOOLEAN :
       Goto(c, IF answered \/ isSaver(c) THEN "ok" ELSE "failed")
  /\ UNCHANGED <<request, disk, written, got, loaded>>

(* Killed, or ended by a panic. *)
Crash(c) ==
  /\ pc[c] \in Running
  /\ Goto(c, "crashed")
  /\ UNCHANGED <<request, disk, written, got, loaded>>

(* What c does on its own, without the user, the server or a failure. *)
Proceed(c) ==
  \/ CheckName(c) \/ CreateFile(c) \/ WriteBlock(c) \/ CloseFile(c)
  \/ ReadFile(c) \/ Decrypt(c)

(* What may happen to c. *)
Suffer(c) == GiveUp(c) \/ WriteFails(c) \/ Crash(c)

(* Every run has ended. *)
AllEnded == (\A c \in Commands : pc[c] \in Ended) /\ UNCHANGED vars

Next ==
  \/ \E c \in Commands : Start(c) \/ Proceed(c) \/ AskServer(c) \/ Suffer(c)
  \/ AllEnded

(***************************************************************************)
(* The operating system runs every process. Nothing makes the user start   *)
(* one, and nothing makes the server answer: http.Get has no time limit.   *)
(***************************************************************************)
Spec == Init /\ [][Next]_vars /\ \A c \in Commands : WF_vars(Proceed(c))
-----------------------------------------------------------------------------
(***************************************************************************)
(* Properties that hold if commands run one at a time.                     *)
(***************************************************************************)
beingWritten(p) == \E c \in Commands : pc[c] = "writing" /\ pathOf(c) = p

(***************************************************************************)
(* A file is never touched again once its writer is done with it: a wallet *)
(* is not overwritten by a later new or import of the same name, and a     *)
(* torn file is not repaired by one either.                                *)
(***************************************************************************)
FileKept ==
  [][\A p \in exists : ~beingWritten(p) => p \in exists' /\ data'[p] = data[p]]_vars

(***************************************************************************)
(* The keys a successful new or import has shown the user (or has just     *)
(* saved) are the ones on the disk, to the last block, from then on.       *)
(***************************************************************************)
ShownIsStored ==
  \A c \in Commands :
    isSaver(c) /\ pc[c] \in {"asking", "ok"} =>
      pathOf(c) \in exists /\ data[pathOf(c)] = Envelope(c)

(***************************************************************************)
(* A file that is no wallet is the trace of a save that failed or crashed: *)
(* no sequence of commands that all succeed leaves one.                    *)
(***************************************************************************)
TornByFailureOnly ==
  \A p \in exists :
    ~isWhole(data[p]) /\ ~beingWritten(p) =>
      \E c \in Commands :
        isSaver(c) /\ pathOf(c) = p /\ pc[c] \in {"failed", "crashed"}
          /\ written[c] < request[c].size

(***************************************************************************)
(* load reads all of the file: whenever it has read to the end of one that *)
(* a save with its password has completed, it decrypts that save's wallet. *)
(***************************************************************************)
LoadFinds ==
  \A c, owner \in Commands :
    /\ pc[c] = "decrypting" /\ isSaver(owner) /\ pc[owner] = "ok"
    /\ pathOf(owner) = pathOf(c) /\ request[owner].password = request[c].password
    => Opens(c, owner)

(***************************************************************************)
(* The store implements WalletVault: a name holds nothing until its writer *)
(* is done, then that writer's wallet or, if it was interrupted, a file    *)
(* that is none.                                                           *)
(***************************************************************************)
vaultOf(p) ==
  IF p \notin exists \/ beingWritten(p) THEN Nobody
  ELSE IF isWhole(data[p]) THEN data[p][1] ELSE Hole

Vault == INSTANCE WalletVault WITH
  NoWallet <- Nobody, Broken <- Hole, vault <- [p \in Paths |-> vaultOf(p)]

ImplementsVault == Vault!Spec

(***************************************************************************)
(* Nothing but the server keeps a run waiting: once started, it ends or    *)
(* gets to the point where it waits for an answer.                         *)
(***************************************************************************)
OnlyServerBlocks ==
  \A c \in Commands : pc[c] \in Running ~> pc[c] \in Ended \cup {"asking"}
-----------------------------------------------------------------------------
(***************************************************************************)
(* Properties that hold even if commands run at the same time.             *)
(***************************************************************************)
rivals(c) == {d \in Commands \ {c} : isSaver(d) /\ pathOf(d) = pathOf(c)}

(***************************************************************************)
(* A load that succeeds shows one run's wallet, under its password, and    *)
(* that run had written all of it: however the writes of several runs mix  *)
(* in a file, no mixture is taken for a wallet.                            *)
(***************************************************************************)
LoadedIsOneWallet ==
  \A c \in Commands :
    loaded[c] # Nobody =>
      /\ isSaver(loaded[c]) /\ pathOf(loaded[c]) = pathOf(c)
      /\ request[loaded[c]].password = request[c].password
      /\ written[loaded[c]] = request[loaded[c]].size

(***************************************************************************)
(* Runs under different names do not disturb each other: the keys shown by *)
(* a run that no other run competes with for the name are on the disk.     *)
(***************************************************************************)
StoredWithoutRivals ==
  \A c \in Commands :
    isSaver(c) /\ pc[c] \in {"asking", "ok"} /\ rivals(c) = {} =>
      pathOf(c) \in exists /\ data[pathOf(c)] = Envelope(c)

(***************************************************************************)
(* A run that succeeds although a file of its name was there when it came  *)
(* to check is one that checked before that file was created: a name that  *)
(* some run has secured before another starts is refused to it.            *)
(***************************************************************************)
NoNewRivalSucceeds ==
  [][\A c, d \in Commands :
       /\ c # d /\ isSaver(c) /\ isSaver(d) /\ pathOf(c) = pathOf(d)
       /\ pc[c] \in {"asking", "ok"} /\ pc[d] \in {"idle", "checking"}
       => pc'[d] # "sealing"]_vars

(***************************************************************************)
(* What TODO.md says of the store, whatever the user does: a wallet that   *)
(* is there is not overwritten. Two runs that both pass the check before   *)
(* either writes refute it.                                                *)
(***************************************************************************)
ExistingWalletKept ==
  [][\A p \in exists : isWhole(data[p]) => data'[p] = data[p]]_vars
=============================================================================
