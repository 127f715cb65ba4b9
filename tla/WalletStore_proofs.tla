-------------------------- MODULE WalletStore_proofs --------------------------
(***************************************************************************)
(* What the wallet store promises, proved for any number of names, runs,   *)
(* passwords and sizes of envelopes, with any of the runs failing or       *)
(* killed at any point: first to a user who waits for one command before   *)
(* the next, then however runs interleave.                                 *)
(***************************************************************************)
EXTENDS WalletStore, TLAPS

(***************************************************************************)
(* The inductive invariant. At most one run is alive; between its check of *)
(* the name and its creation of the file, the name is free; while it       *)
(* writes, its file holds what it has written and nothing else.            *)
(***************************************************************************)
Alone ==
  \A c, d \in Commands : pc[c] \in Running /\ pc[d] \in Running => c = d

OnTrack ==
  \A c \in Commands :
    /\ pc[c] \in {"checking", "sealing", "writing"} => isSaver(c)
    /\ pc[c] \in {"reading", "decrypting"} => ~isSaver(c)

NotBegun ==
  \A c \in Commands : pc[c] \in {"idle", "checking", "sealing"} => written[c] = 0

NameFree ==
  \A c \in Commands : pc[c] = "sealing" => pathOf(c) \notin exists

OwnBlocks ==
  \A c \in Commands :
    pc[c] = "writing" =>
      /\ pathOf(c) \in exists
      /\ written[c] <= request[c].size
      /\ data[pathOf(c)] = [i \in 1 .. written[c] |-> c]

IInv ==
  TypeOK /\ Alone /\ OnTrack /\ NotBegun /\ NameFree /\ OwnBlocks /\ ShownIsStored

(* The path and the size of a run's request. *)
LEMMA RequestType ==
  ASSUME TypeOK, NEW c \in Commands
  PROVE  pathOf(c) \in Paths /\ request[c].size \in Nat \ {0}
BY RequestsAssumption DEF TypeOK, pathOf

(* Writing the next block after one's own blocks adds one more. *)
LEMMA OverwriteOwn ==
  ASSUME NEW c, NEW n \in Nat
  PROVE  Overwrite([i \in 1 .. n |-> c], n + 1, c) = [i \in 1 .. n + 1 |-> c]
<1> DEFINE b == [i \in 1 .. n |-> c]
<1>1. Len(b) = n
  OBVIOUS
<1>2. \A j \in 1 .. n + 1 : j # n + 1 => j <= n /\ b[j] = c
  OBVIOUS
<1> HIDE DEF b
<1>3. n + 1 > n
  OBVIOUS
<1>4. Overwrite(b, n + 1, c) =
        [j \in 1 .. n + 1 |-> IF j = n + 1 THEN c ELSE IF j <= Len(b) THEN b[j] ELSE Hole]
  BY <1>1, <1>3 DEF Overwrite
<1>5. \A j \in 1 .. n + 1 :
        (IF j = n + 1 THEN c ELSE IF j <= Len(b) THEN b[j] ELSE Hole) = c
  BY <1>1, <1>2
<1>6. [j \in 1 .. n + 1 |-> IF j = n + 1 THEN c ELSE IF j <= Len(b) THEN b[j] ELSE Hole]
        = [i \in 1 .. n + 1 |-> c]
  BY <1>5
<1> QED
  BY <1>4, <1>6 DEF b

(* Whatever is written, a file stays a sequence of blocks. *)
LEMMA OverwriteType ==
  ASSUME NEW b \in Seq(Commands \cup {Hole}), NEW i \in Nat \ {0}, NEW c \in Commands
  PROVE  Overwrite(b, i, c) \in Seq(Commands \cup {Hole})
<1>1. PICK n \in Nat : n = IF i > Len(b) THEN i ELSE Len(b)
  OBVIOUS
<1>2. \A j \in 1 .. n :
        (IF j = i THEN c ELSE IF j <= Len(b) THEN b[j] ELSE Hole) \in Commands \cup {Hole}
  OBVIOUS
<1>3. [j \in 1 .. n |-> IF j = i THEN c ELSE IF j <= Len(b) THEN b[j] ELSE Hole]
        \in Seq(Commands \cup {Hole})
  BY <1>1, <1>2
<1> QED
  BY <1>1, <1>3 DEF Overwrite

(* A run that is writing has not taken a name that holds another's wallet. *)
LEMMA WriterOwnsName ==
  ASSUME IInv, NEW c \in Commands, NEW d \in Commands,
         isSaver(c), pc[c] \in {"asking", "ok"}, pc[d] = "writing"
  PROVE  pathOf(c) # pathOf(d)
<1> SUFFICES ASSUME pathOf(c) = pathOf(d) PROVE FALSE
  OBVIOUS
<1>1. [i \in 1 .. request[c].size |-> c] = [i \in 1 .. written[d] |-> d]
  BY DEF IInv, ShownIsStored, OwnBlocks, Envelope
<1>2. request[c].size \in Nat \ {0} /\ written[d] \in Nat
  BY RequestType DEF IInv, TypeOK
<1>3. 1 .. request[c].size = 1 .. written[d]
  BY <1>1
<1>4. 1 \in 1 .. request[c].size
  BY <1>2
<1>5. c = d
  BY <1>1, <1>3, <1>4
<1> QED
  BY <1>5

(* The initial states satisfy the invariant. *)
LEMMA InitIInv == Init => IInv
BY DEF Init, IInv, TypeOK, Alone, OnTrack, NotBegun, NameFree, OwnBlocks, ShownIsStored,
       Running

(* Every step keeps the types. *)
LEMMA NextTypeOK == TypeOK /\ [Next]_vars => TypeOK'
<1> SUFFICES ASSUME TypeOK, [Next]_vars PROVE TypeOK'
  OBVIOUS
<1> USE DEF TypeOK, Goto, disk
<1>1. ASSUME NEW c \in Commands, Start(c) PROVE TypeOK'
  BY <1>1 DEF Start, Running
<1>2. ASSUME NEW c \in Commands, CheckName(c) PROVE TypeOK'
  BY <1>2 DEF CheckName, Running, Ended
<1>3. ASSUME NEW c \in Commands, GiveUp(c) PROVE TypeOK'
  BY <1>3 DEF GiveUp, Ended
<1>4. ASSUME NEW c \in Commands, CreateFile(c) PROVE TypeOK'
  <2>1. pathOf(c) \in Paths
    BY RequestType
  <2> QED
    BY <1>4, <2>1 DEF CreateFile, Running
<1>5. ASSUME NEW c \in Commands, WriteBlock(c) PROVE TypeOK'
  <2>1. pathOf(c) \in Paths
    BY RequestType
  <2>2. Overwrite(data[pathOf(c)], written[c] + 1, c) \in Seq(Commands \cup {Hole})
    <3>1. data[pathOf(c)] \in Seq(Commands \cup {Hole}) /\ written[c] + 1 \in Nat \ {0}
      BY <2>1
    <3> QED
      BY ONLY <3>1, OverwriteType, c \in Commands
  <2>3. data' \in [Paths -> Seq(Commands \cup {Hole})]
    BY <1>5, <2>1, <2>2 DEF WriteBlock
  <2> QED
    BY <1>5, <2>3 DEF WriteBlock
<1>6. ASSUME NEW c \in Commands, WriteFails(c) PROVE TypeOK'
  BY <1>6 DEF WriteFails, Ended
<1>7. ASSUME NEW c \in Commands, CloseFile(c) PROVE TypeOK'
  BY <1>7 DEF CloseFile, Running
<1>8. ASSUME NEW c \in Commands, ReadFile(c) PROVE TypeOK'
  <2>1. data[pathOf(c)] \in Seq(Commands \cup {Hole})
    BY RequestType
  <2>2. got' \in [Commands -> Seq(Commands \cup {Hole})]
    <3> DEFINE i == Len(got[c]) + 1
    <3>1. CASE i <= Len(data[pathOf(c)]) /\ got' = [got EXCEPT ![c]
                 = Append(got[c], data[pathOf(c)][i])]
      <4>1. data[pathOf(c)][i] \in Commands \cup {Hole}
        BY <2>1, <3>1
      <4>2. Append(got[c], data[pathOf(c)][i]) \in Seq(Commands \cup {Hole})
        BY <4>1
      <4> QED
        BY <3>1, <4>2
    <3>2. CASE got' = got
      BY <3>2
    <3> QED
      BY <1>8, <3>1, <3>2 DEF ReadFile
  <2>3. pc' \in [Commands -> {"idle"} \cup Running \cup Ended]
    BY <1>8 DEF ReadFile, Running, Ended
  <2> QED
    BY <1>8, <2>2, <2>3 DEF ReadFile
<1>9. ASSUME NEW c \in Commands, Decrypt(c) PROVE TypeOK'
  BY <1>9 DEF Decrypt, Running, Ended
<1>10. ASSUME NEW c \in Commands, AskServer(c) PROVE TypeOK'
  BY <1>10 DEF AskServer, Ended
<1>11. ASSUME NEW c \in Commands, Crash(c) PROVE TypeOK'
  BY <1>11 DEF Crash, Ended
<1>12. CASE UNCHANGED vars
  BY <1>12 DEF vars
<1> QED
  BY <1>1, <1>2, <1>3, <1>4, <1>5, <1>6, <1>7, <1>8, <1>9, <1>10, <1>11, <1>12
  DEF Next, Proceed, Suffer, AllEnded

(***************************************************************************)
(* A step that only moves a live run on, to a place where it saves and     *)
(* owns nothing yet, keeps the rest of the invariant.                      *)
(***************************************************************************)
LEMMA QuietStep ==
  ASSUME IInv, TypeOK', NEW c \in Commands,
         pc[c] \in Running,
         \E w \in {"reading", "decrypting", "asking", "ok", "failed", "crashed"} :
           pc' = [pc EXCEPT ![c] = w],
         pc'[c] \in {"reading", "decrypting"} => ~isSaver(c),
         pc'[c] \in {"asking", "ok"} => pc[c] = "asking" \/ ~isSaver(c),
         request' = request, exists' = exists, data' = data, written' = written
  PROVE  IInv'
<1>1. /\ \A d \in Commands : pathOf(d)' = pathOf(d) /\ isSaver(d)' = isSaver(d)
      /\ \A d \in Commands : Envelope(d)' = Envelope(d)
  BY DEF pathOf, isSaver, Envelope
<1>2. \A d \in Commands : d # c => pc'[d] = pc[d]
  BY DEF IInv, TypeOK
<1>3. pc'[c] \in {"reading", "decrypting", "asking", "ok", "failed", "crashed"}
  BY DEF IInv, TypeOK
<1>4. Alone'
  BY <1>2, <1>3 DEF IInv, Alone
<1>5. OnTrack' /\ NotBegun'
  BY <1>1, <1>2, <1>3 DEF IInv, OnTrack, NotBegun
<1>6. NameFree' /\ OwnBlocks'
  BY <1>1, <1>2, <1>3 DEF IInv, NameFree, OwnBlocks
<1>7. ShownIsStored'
  BY <1>1, <1>2, <1>3 DEF IInv, ShownIsStored
<1> QED
  BY <1>4, <1>5, <1>6, <1>7 DEF IInv

(* One at a time, every step keeps the invariant. *)
LEMMA NextIInv ==
  ASSUME OneAtATime
  PROVE  IInv /\ [Next]_vars => IInv'
<1> SUFFICES ASSUME IInv, [Next]_vars PROVE IInv'
  OBVIOUS
<1>0. TypeOK /\ TypeOK'
  BY NextTypeOK DEF IInv
<1>1. ASSUME NEW c \in Commands, Start(c) PROVE IInv'
  <2>1. /\ pc[c] = "idle" /\ \A d \in Commands : pc[d] \notin Running
        /\ pc' = [pc EXCEPT ![c] = IF isSaver(c) THEN "checking" ELSE "reading"]
        /\ request' = request /\ exists' = exists /\ data' = data /\ written' = written
    BY <1>1 DEF Start, Goto, disk
  <2>2. /\ \A d \in Commands : pathOf(d)' = pathOf(d) /\ isSaver(d)' = isSaver(d)
        /\ \A d \in Commands : Envelope(d)' = Envelope(d)
    BY <2>1 DEF pathOf, isSaver, Envelope
  <2>3. /\ \A d \in Commands : d # c => pc'[d] = pc[d]
        /\ pc'[c] = IF isSaver(c) THEN "checking" ELSE "reading"
    BY <1>0, <2>1 DEF TypeOK
  <2>4. Alone' /\ OnTrack' /\ NotBegun'
    BY <2>1, <2>2, <2>3 DEF IInv, Alone, OnTrack, NotBegun
  <2>5. NameFree' /\ OwnBlocks' /\ ShownIsStored'
    BY <2>1, <2>2, <2>3 DEF IInv, NameFree, OwnBlocks, ShownIsStored
  <2> QED
    BY <1>0, <2>4, <2>5 DEF IInv
<1>2. ASSUME NEW c \in Commands, CheckName(c) PROVE IInv'
  <2>1. /\ pc[c] = "checking" /\ pc[c] \in Running
        /\ pc' = [pc EXCEPT ![c] = IF pathOf(c) \in exists THEN "failed" ELSE "sealing"]
        /\ request' = request /\ exists' = exists /\ data' = data /\ written' = written
    BY <1>2 DEF CheckName, Goto, disk, Running
  <2>2. CASE pathOf(c) \in exists
    <3>1. pc' = [pc EXCEPT ![c] = "failed"] /\ pc'[c] = "failed"
      BY <1>0, <2>1, <2>2 DEF TypeOK
    <3> QED
      BY <1>0, <2>1, <3>1, QuietStep
  <2>3. CASE pathOf(c) \notin exists
    <3>1. /\ \A d \in Commands : pathOf(d)' = pathOf(d) /\ isSaver(d)' = isSaver(d)
          /\ \A d \in Commands : Envelope(d)' = Envelope(d)
      BY <2>1 DEF pathOf, isSaver, Envelope
    <3>2. pc'[c] = "sealing" /\ \A d \in Commands : d # c => pc'[d] = pc[d]
      BY <1>0, <2>1, <2>3 DEF TypeOK
    <3>3. Alone' /\ OnTrack' /\ NotBegun'
      BY <2>1, <3>1, <3>2 DEF IInv, Alone, OnTrack, NotBegun
    <3>4. NameFree' /\ OwnBlocks' /\ ShownIsStored'
      BY <2>1, <2>3, <3>1, <3>2 DEF IInv, NameFree, OwnBlocks, ShownIsStored
    <3> QED
      BY <1>0, <3>3, <3>4 DEF IInv
  <2> QED
    BY <2>2, <2>3
<1>3. ASSUME NEW c \in Commands, GiveUp(c) PROVE IInv'
  <2>1. /\ pc[c] \in Running /\ pc' = [pc EXCEPT ![c] = "failed"] /\ pc'[c] = "failed"
        /\ request' = request /\ exists' = exists /\ data' = data /\ written' = written
    BY <1>0, <1>3 DEF GiveUp, Goto, disk, Running, TypeOK
  <2> QED
    BY <1>0, <2>1, QuietStep
<1>4. ASSUME NEW c \in Commands, CreateFile(c) PROVE IInv'
  <2>1. /\ pc[c] = "sealing" /\ pc[c] \in Running
        /\ exists' = exists \cup {pathOf(c)}
        /\ data' = [data EXCEPT ![pathOf(c)] = <<>>]
        /\ pc' = [pc EXCEPT ![c] = "writing"]
        /\ UNCHANGED <<request, written>>
    BY <1>4 DEF CreateFile, Goto, Running
  <2>2. /\ \A d \in Commands : pathOf(d)' = pathOf(d) /\ isSaver(d)' = isSaver(d)
        /\ \A d \in Commands : Envelope(d)' = Envelope(d)
    BY <2>1 DEF pathOf, isSaver, Envelope
  <2>3. pc'[c] = "writing" /\ \A d \in Commands : d # c => pc'[d] = pc[d]
    BY <1>0, <2>1 DEF TypeOK
  <2>4. pathOf(c) \in Paths /\ request[c].size \in Nat \ {0} /\ written[c] = 0
    BY <1>0, <2>1, RequestType DEF IInv, NotBegun
  <2>5. /\ data'[pathOf(c)] = <<>>
        /\ \A p \in Paths : p # pathOf(c) => data'[p] = data[p]
    BY <1>0, <2>1, <2>4 DEF TypeOK
  <2>6. Alone' /\ OnTrack' /\ NotBegun'
    BY <2>1, <2>2, <2>3 DEF IInv, Alone, OnTrack, NotBegun
  <2>7. \A d \in Commands : d # c => pc[d] \notin Running
    BY <2>1 DEF IInv, Alone
  <2>8. NameFree'
    BY <2>3, <2>7 DEF NameFree, Running
  <2>9. OwnBlocks'
    <3>1. [i \in 1 .. 0 |-> c] = <<>>
      OBVIOUS
    <3> QED
      BY <2>1, <2>2, <2>3, <2>4, <2>5, <2>7, <3>1 DEF OwnBlocks, Running
  <2>10. ShownIsStored'
    <3> SUFFICES ASSUME NEW d \in Commands, isSaver(d), pc'[d] \in {"asking", "ok"}
                 PROVE  pathOf(d) \in exists' /\ data'[pathOf(d)] = Envelope(d)
      BY <2>2 DEF ShownIsStored
    <3>1. d # c /\ pc[d] \in {"asking", "ok"}
      BY <2>3
    <3>2. pathOf(d) \in exists /\ data[pathOf(d)] = Envelope(d)
      BY <3>1 DEF IInv, ShownIsStored
    <3>3. pathOf(d) # pathOf(c)
      BY <2>1, <3>2 DEF IInv, NameFree
    <3>4. pathOf(d) \in Paths
      BY <1>0, RequestType
    <3> QED
      BY <2>1, <2>5, <3>2, <3>3, <3>4
  <2> QED
    BY <1>0, <2>6, <2>8, <2>9, <2>10 DEF IInv
<1>5. ASSUME NEW c \in Commands, WriteBlock(c) PROVE IInv'
  <2>1. /\ pc[c] = "writing" /\ pc[c] \in Running /\ written[c] < request[c].size
        /\ data' = [data EXCEPT ![pathOf(c)]
                      = Overwrite(data[pathOf(c)], written[c] + 1, c)]
        /\ written' = [written EXCEPT ![c] = written[c] + 1]
        /\ UNCHANGED <<request, pc, exists>>
    BY <1>5 DEF WriteBlock, Running
  <2>2. /\ \A d \in Commands : pathOf(d)' = pathOf(d) /\ isSaver(d)' = isSaver(d)
        /\ \A d \in Commands : Envelope(d)' = Envelope(d)
    BY <2>1 DEF pathOf, isSaver, Envelope
  <2>3. pathOf(c) \in Paths /\ request[c].size \in Nat /\ written[c] \in Nat
    BY <1>0, RequestType DEF TypeOK
  <2>4. /\ pathOf(c) \in exists
        /\ data[pathOf(c)] = [i \in 1 .. written[c] |-> c]
    BY <2>1 DEF IInv, OwnBlocks
  <2>5. /\ data'[pathOf(c)] = [i \in 1 .. written[c] + 1 |-> c]
        /\ \A p \in Paths : p # pathOf(c) => data'[p] = data[p]
    <3>1. Overwrite(data[pathOf(c)], written[c] + 1, c) = [i \in 1 .. written[c] + 1 |-> c]
      BY <2>3, <2>4, OverwriteOwn
    <3>2. data' = [data EXCEPT ![pathOf(c)] = [i \in 1 .. written[c] + 1 |-> c]]
      BY <2>1, <3>1
    <3> QED
      BY <1>0, <2>3, <3>2 DEF TypeOK
  <2>6. /\ written'[c] = written[c] + 1 /\ written[c] + 1 <= request[c].size
        /\ \A d \in Commands : d # c => written'[d] = written[d]
    BY <1>0, <2>1, <2>3 DEF TypeOK
  <2>7. \A d \in Commands : d # c => pc[d] \notin Running
    BY <2>1 DEF IInv, Alone
  <2>8. Alone' /\ OnTrack' /\ NotBegun' /\ NameFree'
    BY <2>1, <2>2, <2>6 DEF IInv, Alone, OnTrack, NotBegun, NameFree
  <2>9. OwnBlocks'
    <3>1. /\ data'[pathOf(c)] = [i \in 1 .. written'[c] |-> c]
          /\ pathOf(c) \in exists' /\ written'[c] <= request'[c].size
      BY <2>1, <2>4, <2>5, <2>6
    <3>2. \A d \in Commands : pc'[d] = "writing" => d = c
      BY <2>1, <2>7 DEF Running
    <3> QED
      BY <2>2, <3>1, <3>2 DEF OwnBlocks
  <2>10. ShownIsStored'
    <3> SUFFICES ASSUME NEW d \in Commands, isSaver(d), pc[d] \in {"asking", "ok"}
                 PROVE  pathOf(d) \in exists' /\ data'[pathOf(d)] = Envelope(d)
      BY <2>1, <2>2 DEF ShownIsStored
    <3>1. pathOf(d) \in exists /\ data[pathOf(d)] = Envelope(d)
      BY DEF IInv, ShownIsStored
    <3>2. pathOf(d) # pathOf(c) /\ pathOf(d) \in Paths
      BY <1>0, <2>1, RequestType, WriterOwnsName
    <3> QED
      BY <2>1, <2>5, <3>1, <3>2
  <2> QED
    BY <1>0, <2>8, <2>9, <2>10 DEF IInv
<1>6. ASSUME NEW c \in Commands, WriteFails(c) PROVE IInv'
  <2>1. /\ pc[c] \in Running /\ pc' = [pc EXCEPT ![c] = "failed"] /\ pc'[c] = "failed"
        /\ request' = request /\ exists' = exists /\ data' = data /\ written' = written
    BY <1>0, <1>6 DEF WriteFails, Goto, disk, Running, TypeOK
  <2> QED
    BY <1>0, <2>1, QuietStep
<1>7. ASSUME NEW c \in Commands, CloseFile(c) PROVE IInv'
  <2>1. /\ pc[c] = "writing" /\ pc[c] \in Running /\ written[c] = request[c].size
        /\ pc' = [pc EXCEPT ![c] = "asking"]
        /\ request' = request /\ exists' = exists /\ data' = data /\ written' = written
    BY <1>7 DEF CloseFile, Goto, disk, Running
  <2>2. /\ \A d \in Commands : pathOf(d)' = pathOf(d) /\ isSaver(d)' = isSaver(d)
        /\ \A d \in Commands : Envelope(d)' = Envelope(d)
    BY <2>1 DEF pathOf, isSaver, Envelope
  <2>3. pc'[c] = "asking" /\ \A d \in Commands : d # c => pc'[d] = pc[d]
    BY <1>0, <2>1 DEF TypeOK
  <2>4. pathOf(c) \in exists /\ data[pathOf(c)] = Envelope(c)
    BY <2>1 DEF IInv, OwnBlocks, Envelope
  <2>5. Alone' /\ OnTrack' /\ NotBegun'
    BY <2>1, <2>2, <2>3 DEF IInv, Alone, OnTrack, NotBegun
  <2>6. NameFree' /\ OwnBlocks'
    BY <2>1, <2>2, <2>3 DEF IInv, NameFree, OwnBlocks
  <2>7. ShownIsStored'
    BY <2>1, <2>2, <2>3, <2>4 DEF IInv, ShownIsStored
  <2> QED
    BY <1>0, <2>5, <2>6, <2>7 DEF IInv
<1>8. ASSUME NEW c \in Commands, ReadFile(c) PROVE IInv'
  <2>1. /\ pc[c] = "reading" /\ pc[c] \in Running
        /\ request' = request /\ exists' = exists /\ data' = data /\ written' = written
        /\ \E w \in {"reading", "decrypting", "failed"} : pc' = [pc EXCEPT ![c] = w] /\ pc'[c] = w
    BY <1>0, <1>8 DEF ReadFile, Goto, disk, Running, TypeOK
  <2>2. ~isSaver(c)
    BY <2>1 DEF IInv, OnTrack
  <2> QED
    BY <1>0, <2>1, <2>2, QuietStep
<1>9. ASSUME NEW c \in Commands, Decrypt(c) PROVE IInv'
  <2>1. /\ pc[c] = "decrypting" /\ pc[c] \in Running
        /\ request' = request /\ exists' = exists /\ data' = data /\ written' = written
        /\ \E w \in {"asking", "failed"} : pc' = [pc EXCEPT ![c] = w] /\ pc'[c] = w
    BY <1>0, <1>9 DEF Decrypt, Goto, disk, Running, TypeOK
  <2>2. ~isSaver(c)
    BY <2>1 DEF IInv, OnTrack
  <2> QED
    BY <1>0, <2>1, <2>2, QuietStep
<1>10. ASSUME NEW c \in Commands, AskServer(c) PROVE IInv'
  <2>1. /\ pc[c] = "asking" /\ pc[c] \in Running
        /\ request' = request /\ exists' = exists /\ data' = data /\ written' = written
        /\ \E w \in {"ok", "failed"} : pc' = [pc EXCEPT ![c] = w] /\ pc'[c] = w
    BY <1>0, <1>10 DEF AskServer, Goto, disk, Running, TypeOK
  <2> QED
    BY <1>0, <2>1, QuietStep
<1>11. ASSUME NEW c \in Commands, Crash(c) PROVE IInv'
  <2>1. /\ pc[c] \in Running /\ pc' = [pc EXCEPT ![c] = "crashed"] /\ pc'[c] = "crashed"
        /\ request' = request /\ exists' = exists /\ data' = data /\ written' = written
    BY <1>0, <1>11 DEF Crash, Goto, disk, TypeOK
  <2> QED
    BY <1>0, <2>1, QuietStep
<1>12. CASE UNCHANGED vars
  BY <1>0, <1>12 DEF vars, disk, IInv, Alone, OnTrack, NotBegun, NameFree, OwnBlocks,
                     ShownIsStored, pathOf, isSaver, Envelope
<1> QED
  BY <1>1, <1>2, <1>3, <1>4, <1>5, <1>6, <1>7, <1>8, <1>9, <1>10, <1>11, <1>12
  DEF Next, Proceed, Suffer, AllEnded

(* One at a time, the invariant holds in every reachable state. *)
THEOREM Invariance ==
  ASSUME OneAtATime
  PROVE  Spec => []IInv
BY InitIInv, NextIInv, PTL DEF Spec

(* Types hold however runs interleave. *)
THEOREM TypeCorrect == Spec => []TypeOK
<1>1. Init => TypeOK
  BY DEF Init, TypeOK
<1> QED
  BY <1>1, NextTypeOK, PTL DEF Spec

(* One at a time, the keys shown to the user are those on the disk. *)
THEOREM ShownStored ==
  ASSUME OneAtATime
  PROVE  Spec => []ShownIsStored
<1>1. IInv => ShownIsStored
  BY DEF IInv
<1> QED
  BY <1>1, Invariance, PTL

(* What a step does to the disk: nothing, or only to its own run's file. *)
LEMMA DiskStep ==
  ASSUME IInv, [Next]_vars
  PROVE  /\ exists \subseteq exists'
         /\ \/ UNCHANGED data
            \/ \E c \in Commands :
                 /\ \/ pc[c] = "sealing" /\ pathOf(c) \notin exists
                    \/ pc[c] = "writing"
                 /\ \A p \in Paths : p # pathOf(c) => data'[p] = data[p]
<1>0. TypeOK
  BY DEF IInv
<1>1. ASSUME NEW c \in Commands, CreateFile(c)
      PROVE  /\ exists \subseteq exists'
             /\ pc[c] = "sealing" /\ pathOf(c) \notin exists
             /\ \A p \in Paths : p # pathOf(c) => data'[p] = data[p]
  BY <1>0, <1>1 DEF CreateFile, IInv, NameFree, TypeOK
<1>2. ASSUME NEW c \in Commands, WriteBlock(c)
      PROVE  /\ exists \subseteq exists'
             /\ pc[c] = "writing"
             /\ \A p \in Paths : p # pathOf(c) => data'[p] = data[p]
  BY <1>0, <1>2 DEF WriteBlock, TypeOK
<1>3. ASSUME NEW c \in Commands,
             \/ Start(c) \/ CheckName(c) \/ GiveUp(c) \/ WriteFails(c) \/ CloseFile(c)
             \/ ReadFile(c) \/ Decrypt(c) \/ AskServer(c) \/ Crash(c)
      PROVE  UNCHANGED <<exists, data>>
  BY <1>3 DEF Start, CheckName, GiveUp, WriteFails, CloseFile, ReadFile, Decrypt, AskServer,
              Crash, disk
<1>4. CASE UNCHANGED vars
  BY <1>4 DEF vars, disk
<1> QED
  BY <1>1, <1>2, <1>3, <1>4 DEF Next, Proceed, Suffer, AllEnded

(***************************************************************************)
(* One at a time, no file is touched once its writer is done with it, torn *)
(* or whole: no new and no import ever writes over a wallet.               *)
(***************************************************************************)
THEOREM FilesKept ==
  ASSUME OneAtATime
  PROVE  Spec => FileKept
<1>1. ASSUME IInv, [Next]_vars
      PROVE  \A p \in exists : ~beingWritten(p) => p \in exists' /\ data'[p] = data[p]
  <2> SUFFICES ASSUME NEW p \in exists, ~beingWritten(p)
               PROVE  p \in exists' /\ data'[p] = data[p]
    OBVIOUS
  <2>1. p \in Paths
    BY <1>1 DEF IInv, TypeOK
  <2> QED
    BY <1>1, <2>1, DiskStep DEF beingWritten
<1> QED
  BY <1>1, Invariance, PTL DEF Spec, FileKept

(* A whole file holds the wallet of the run named by its first block. *)
LEMMA WholeHasOwner ==
  ASSUME TypeOK, NEW p \in Paths, isWhole(data[p])
  PROVE  data[p][1] \in Commands
<1>1. PICK c \in Commands : data[p] = Envelope(c)
  BY DEF isWhole
<1>2. 1 \in 1 .. request[c].size
  BY RequestType
<1> QED
  BY <1>1, <1>2 DEF Envelope

(* A step that leaves the disk and the writers alone leaves the vault alone. *)
LEMMA VaultUnchanged ==
  ASSUME NEW p \in Paths, UNCHANGED <<request, exists>>, data'[p] = data[p],
         beingWritten(p)' <=> beingWritten(p)
  PROVE  vaultOf(p)' = vaultOf(p)
<1>1. isWhole(data[p])' <=> isWhole(data[p])
  BY DEF isWhole, isSaver, Envelope
<1>2. data[p][1]' = data[p][1]
  OBVIOUS
<1> QED
  BY <1>1, <1>2 DEF vaultOf

(* The end of a write, however it ends, stores a wallet or spoils the name. *)
LEMMA WriterEnds ==
  ASSUME IInv, TypeOK', NEW c \in Commands,
         pc[c] = "writing", pc'[c] # "writing",
         \A d \in Commands : d # c => pc'[d] = pc[d],
         request' = request, exists' = exists, data' = data
  PROVE  [Vault!Next]_[p \in Paths |-> vaultOf(p)]
<1> DEFINE v == [p \in Paths |-> vaultOf(p)]
<1>1. pathOf(c) \in Paths /\ TypeOK
  BY RequestType DEF IInv
<1> SUFFICES ASSUME NEW q \in Paths, q = pathOf(c)
             PROVE  [Vault!Next]_[p \in Paths |-> vaultOf(p)]
  BY <1>1
<1>2. \A d \in Commands : pathOf(d)' = pathOf(d)
  BY DEF pathOf
<1>3. v[q] = Nobody
  BY <1>1 DEF beingWritten, vaultOf
<1>4. vaultOf(q)' \in Commands \cup {Nobody, Hole}
  <2>1. isWhole(data[q])' <=> isWhole(data[q])
    BY DEF isWhole, isSaver, Envelope
  <2>2. isWhole(data[q]) => data[q][1] \in Commands
    BY <1>1, WholeHasOwner
  <2> QED
    BY <2>1, <2>2 DEF vaultOf
<1>5. \A p \in Paths : p # q => vaultOf(p)' = vaultOf(p)
  <2> SUFFICES ASSUME NEW p \in Paths, p # q PROVE vaultOf(p)' = vaultOf(p)
    OBVIOUS
  <2>1. beingWritten(p)' <=> beingWritten(p)
    BY <1>2 DEF beingWritten
  <2> QED
    BY <2>1, VaultUnchanged
<1>6. v' = [v EXCEPT ![q] = vaultOf(q)']
  BY <1>1, <1>5
<1> HIDE DEF v
<1>7. v' = v \/ \E p \in Paths : Vault!Spoil(p) \/ \E d \in Commands : Vault!Store(p, d)
  BY <1>1, <1>3, <1>4, <1>6 DEF Vault!Spoil, Vault!Store, v
<1> QED
  BY <1>7 DEF Vault!Next, v

(* Any other step stutters: a file that is being written is no wallet yet. *)
LEMMA OtherSteps ==
  ASSUME IInv, NEW c \in Commands, request' = request,
         \A d \in Commands : pc'[d] = "writing" <=> pc[d] = "writing",
         \/ exists' = exists /\ data' = data
         \/ /\ pc[c] = "writing" /\ exists' = exists
            /\ \A p \in Paths : p # pathOf(c) => data'[p] = data[p]
  PROVE  [p \in Paths |-> vaultOf(p)]' = [p \in Paths |-> vaultOf(p)]
<1> SUFFICES ASSUME NEW p \in Paths PROVE vaultOf(p)' = vaultOf(p)
  OBVIOUS
<1>1. \A d \in Commands : pathOf(d)' = pathOf(d)
  BY DEF pathOf
<1>2. beingWritten(p)' <=> beingWritten(p)
  BY <1>1 DEF beingWritten
<1>3. CASE data'[p] = data[p]
  BY <1>2, <1>3, VaultUnchanged
<1>4. CASE pc[c] = "writing" /\ p = pathOf(c)
  <2>1. beingWritten(p)
    BY <1>4 DEF beingWritten
  <2> QED
    BY <1>2, <2>1 DEF vaultOf
<1> QED
  BY <1>3, <1>4

(* Creating the file changes the vault no more: the name was free. *)
LEMMA CreateStutters ==
  ASSUME IInv, TypeOK', NEW c \in Commands, CreateFile(c)
  PROVE  [p \in Paths |-> vaultOf(p)]' = [p \in Paths |-> vaultOf(p)]
<1> SUFFICES ASSUME NEW p \in Paths PROVE vaultOf(p)' = vaultOf(p)
  OBVIOUS
<1>1. /\ pc[c] = "sealing" /\ request' = request
      /\ exists' = exists \cup {pathOf(c)}
      /\ data' = [data EXCEPT ![pathOf(c)] = <<>>]
      /\ pc'[c] = "writing" /\ \A d \in Commands : d # c => pc'[d] = pc[d]
  BY DEF CreateFile, Goto, IInv, TypeOK
<1>2. /\ \A d \in Commands : pathOf(d)' = pathOf(d)
      /\ data \in [Paths -> Seq(Commands \cup {Hole})]
  BY <1>1 DEF pathOf, IInv, TypeOK
<1>3. CASE p = pathOf(c)
  <2>1. p \notin exists
    BY <1>1, <1>3 DEF IInv, NameFree
  <2>2. beingWritten(p)'
    BY <1>1, <1>2, <1>3 DEF beingWritten
  <2> QED
    BY <2>1, <2>2 DEF vaultOf
<1>4. CASE p # pathOf(c)
  <2>1. data'[p] = data[p] /\ (p \in exists' <=> p \in exists)
    BY <1>1, <1>2, <1>4
  <2>2. beingWritten(p)' <=> beingWritten(p)
    BY <1>1, <1>2, <1>4 DEF beingWritten
  <2>3. isWhole(data[p])' <=> isWhole(data[p])
    BY <1>1, <2>1 DEF isWhole, isSaver, Envelope
  <2> QED
    BY <2>1, <2>2, <2>3 DEF vaultOf
<1> QED
  BY <1>3, <1>4

(***************************************************************************)
(* One at a time, the store implements WalletVault: every step of a run is *)
(* a step of the vault or does not show in it.                             *)
(***************************************************************************)
THEOREM Implements ==
  ASSUME OneAtATime
  PROVE  Spec => ImplementsVault
<1>1. Init => Vault!Init
  BY DEF Init, Vault!Init, vaultOf
<1>2. ASSUME IInv, [Next]_vars
      PROVE  [Vault!Next]_[p \in Paths |-> vaultOf(p)]
  <2>0. TypeOK /\ TypeOK'
    BY <1>2, NextTypeOK DEF IInv
  <2>1. ASSUME NEW c \in Commands, CreateFile(c)
        PROVE  [Vault!Next]_[p \in Paths |-> vaultOf(p)]
    BY <1>2, <2>0, <2>1, CreateStutters
  <2>2. ASSUME NEW c \in Commands, WriteBlock(c)
        PROVE  [Vault!Next]_[p \in Paths |-> vaultOf(p)]
    <3>1. /\ pc[c] = "writing" /\ exists' = exists /\ request' = request /\ pc' = pc
          /\ \A p \in Paths : p # pathOf(c) => data'[p] = data[p]
      BY <2>0, <2>2 DEF WriteBlock, TypeOK
    <3> QED
      BY <1>2, <3>1, OtherSteps
  <2>3. ASSUME NEW c \in Commands, WriteFails(c) \/ CloseFile(c) \/ Crash(c)
        PROVE  [Vault!Next]_[p \in Paths |-> vaultOf(p)]
    <3>1. /\ request' = request /\ exists' = exists /\ data' = data
          /\ \A d \in Commands : d # c => pc'[d] = pc[d]
          /\ pc'[c] # "writing"
      BY <2>0, <2>3 DEF WriteFails, CloseFile, Crash, Goto, disk, TypeOK
    <3>2. CASE pc[c] = "writing"
      BY <1>2, <2>0, <3>1, <3>2, WriterEnds
    <3>3. CASE pc[c] # "writing"
      <4>1. \A d \in Commands : pc'[d] = "writing" <=> pc[d] = "writing"
        BY <3>1, <3>3
      <4> QED
        BY <1>2, <3>1, <4>1, OtherSteps
    <3> QED
      BY <3>2, <3>3
  <2>4. ASSUME NEW c \in Commands,
               \/ Start(c) \/ CheckName(c) \/ GiveUp(c)
               \/ ReadFile(c) \/ Decrypt(c) \/ AskServer(c)
        PROVE  [Vault!Next]_[p \in Paths |-> vaultOf(p)]
    <3>1. /\ request' = request /\ exists' = exists /\ data' = data
          /\ \A d \in Commands : d # c => pc'[d] = pc[d]
          /\ pc[c] # "writing" /\ pc'[c] # "writing"
      BY <2>0, <2>4
      DEF Start, CheckName, GiveUp, ReadFile, Decrypt, AskServer, Goto, disk, TypeOK
    <3>2. \A d \in Commands : pc'[d] = "writing" <=> pc[d] = "writing"
      BY <3>1
    <3> QED
      BY <1>2, <3>1, <3>2, OtherSteps
  <2>5. CASE UNCHANGED vars
    BY <2>5 DEF vars, disk, vaultOf, isWhole, isSaver, Envelope, beingWritten, pathOf
  <2> QED
    BY <1>2, <2>1, <2>2, <2>3, <2>4, <2>5 DEF Next, Proceed, Suffer, AllEnded
<1> QED
  BY <1>1, <1>2, Invariance, PTL DEF Spec, ImplementsVault, Vault!Spec

------------------------------------------------------------------------------
(***************************************************************************)
(* Which files are wallets and which are torn, and what a load reads of    *)
(* them, for a user who waits for one command before the next.             *)
(***************************************************************************)

(***************************************************************************)
(* Every file is the trace of one run: the blocks it has written, and no   *)
(* others. Unless it has written all of them, it is still at it or ended   *)
(* without success.                                                        *)
(***************************************************************************)
Left(c, p) ==
  /\ isSaver(c) /\ pathOf(c) = p
  /\ data[p] = [i \in 1 .. written[c] |-> c]
  /\ written[c] <= request[c].size
  /\ pc[c] \in {"writing", "asking", "ok", "failed", "crashed"}
  /\ written[c] < request[c].size => pc[c] \in {"writing", "failed", "crashed"}

Traced == \A p \in exists : \E c \in Commands : Left(c, p)

(* What has been read of a file is how it begins, and is all of it in the end. *)
BeginsWith(blocks, part) ==
  /\ Len(part) <= Len(blocks)
  /\ \A i \in 1 .. Len(part) : part[i] = blocks[i]

ReadSoFar ==
  \A c \in Commands :
    /\ pc[c] = "idle" => got[c] = <<>>
    /\ pc[c] = "reading" => BeginsWith(data[pathOf(c)], got[c])
    /\ pc[c] = "decrypting" => got[c] = data[pathOf(c)]

FInv == IInv /\ Traced /\ ReadSoFar

(* A run that does not touch the disk leaves every file as somebody's trace. *)
LEMMA TracedKept ==
  ASSUME IInv, Traced, NEW c \in Commands, NEW where,
         pc' = [pc EXCEPT ![c] = where],
         UNCHANGED <<request, disk, written>>,
         pc[c] \in {"writing", "asking", "ok", "failed", "crashed"} =>
           \/ where \in {"failed", "crashed"}
           \/ where \in {"asking", "ok"} /\ (pc[c] = "asking" \/ written[c] = request[c].size)
  PROVE  Traced'
<1>1. \A d \in Commands : pc'[d] = IF d = c THEN where ELSE pc[d]
  BY DEF IInv, TypeOK
<1>2. ASSUME NEW p \in exists PROVE \E d \in Commands : Left(d, p)'
  <2>1. PICK d \in Commands : Left(d, p)
    BY DEF Traced
  <2>2. /\ isSaver(d)' /\ pathOf(d)' = p /\ data'[p] = [i \in 1 .. written'[d] |-> d]
        /\ written'[d] <= request'[d].size
    BY <2>1 DEF Left, isSaver, pathOf, disk
  <2>3. request[d].size \in Nat /\ written[d] \in Nat
    BY RequestType DEF IInv, TypeOK
  <2>4. /\ pc'[d] \in {"writing", "asking", "ok", "failed", "crashed"}
        /\ written[d] < request[d].size => pc'[d] \in {"writing", "failed", "crashed"}
    BY <1>1, <2>1, <2>3 DEF Left
  <2>5. Left(d, p)'
    BY <2>2, <2>4 DEF Left
  <2> QED
    BY <2>5
<1> QED
  BY <1>2 DEF Traced, disk

(* A step of c that reads nothing and leaves the disk alone. *)
LEMMA ReadKept ==
  ASSUME IInv, ReadSoFar, NEW c \in Commands,
         NEW where, where \notin {"idle", "decrypting"},
         where = "reading" => pc[c] = "idle",
         pc' = [pc EXCEPT ![c] = where],
         UNCHANGED <<request, disk, got>>
  PROVE  ReadSoFar'
<1>1. \A d \in Commands : pc'[d] = IF d = c THEN where ELSE pc[d]
  BY DEF IInv, TypeOK
<1>2. got[c] = <<>> => BeginsWith(data[pathOf(c)], got[c])
  <2>1. data[pathOf(c)] \in Seq(Commands \cup {Hole})
    BY RequestType DEF IInv, TypeOK
  <2> QED
    BY <2>1 DEF BeginsWith
<1> QED
  BY <1>1, <1>2 DEF ReadSoFar, pathOf, disk

(* While c writes, nobody reads. *)
LEMMA NobodyReads ==
  ASSUME IInv, NEW c \in Commands, pc[c] \in {"sealing", "writing"},
         NEW d \in Commands
  PROVE  pc[d] \notin {"reading", "decrypting"}
BY DEF IInv, Alone, Running

(* A step that writes is of no reader's concern. *)
LEMMA ReadUndisturbed ==
  ASSUME IInv, ReadSoFar, NEW c \in Commands, pc[c] \in {"sealing", "writing"},
         pc' = [pc EXCEPT ![c] = "writing"], UNCHANGED got
  PROVE  ReadSoFar'
<1>1. \A d \in Commands : pc'[d] = IF d = c THEN "writing" ELSE pc[d]
  BY DEF IInv, TypeOK
<1> QED
  BY <1>1, NobodyReads DEF ReadSoFar

(* After c has written, its file is c's trace and the others are as before. *)
LEMMA TracedByWriter ==
  ASSUME IInv, Traced, NEW c \in Commands, pc[c] \in {"sealing", "writing"},
         pc' = [pc EXCEPT ![c] = "writing"],
         exists' = exists \cup {pathOf(c)}, UNCHANGED request,
         \A p \in Paths : p # pathOf(c) => data'[p] = data[p],
         \A d \in Commands : d # c => written'[d] = written[d],
         data'[pathOf(c)] = [i \in 1 .. written'[c] |-> c],
         written'[c] <= request[c].size
  PROVE  Traced'
<1>1. \A d \in Commands : pc'[d] = IF d = c THEN "writing" ELSE pc[d]
  BY DEF IInv, TypeOK
<1>2. Left(c, pathOf(c))'
  BY <1>1 DEF Left, IInv, OnTrack, isSaver, pathOf
<1>3. ASSUME NEW p \in exists, p # pathOf(c) PROVE \E d \in Commands : Left(d, p)'
  <2>1. PICK d \in Commands : Left(d, p)
    BY DEF Traced
  <2>2. d # c /\ p \in Paths
    BY <1>3, <2>1 DEF Left, IInv, TypeOK
  <2>3. Left(d, p)'
    BY <1>1, <1>3, <2>1, <2>2 DEF Left, isSaver, pathOf
  <2> QED
    BY <2>3
<1> QED
  BY <1>2, <1>3 DEF Traced, pathOf

(* Creating a file, writing to it and reading it: each keeps both parts. *)
LEMMA CreateTraced ==
  ASSUME FInv, NEW c \in Commands, CreateFile(c)
  PROVE  Traced' /\ ReadSoFar'
<1> USE DEF FInv
<1>1. /\ pc[c] = "sealing" /\ pc' = [pc EXCEPT ![c] = "writing"]
      /\ exists' = exists \cup {pathOf(c)}
      /\ data' = [data EXCEPT ![pathOf(c)] = <<>>]
      /\ UNCHANGED <<request, written, got>>
  BY DEF CreateFile, Goto
<1>2. pathOf(c) \in Paths /\ request[c].size \in Nat /\ written[c] = 0
  BY <1>1, RequestType DEF IInv, NotBegun
<1>3. /\ data'[pathOf(c)] = <<>>
      /\ \A p \in Paths : p # pathOf(c) => data'[p] = data[p]
  BY <1>1, <1>2 DEF IInv, TypeOK
<1>4. [i \in 1 .. 0 |-> c] = <<>>
  OBVIOUS
<1>5. data'[pathOf(c)] = [i \in 1 .. written'[c] |-> c] /\ written'[c] <= request[c].size
  BY <1>1, <1>2, <1>3, <1>4
<1>6. Traced'
  BY <1>1, <1>3, <1>5, TracedByWriter
<1> QED
  BY <1>1, <1>6, ReadUndisturbed

(* A block that is written keeps every file a trace. *)
LEMMA WriteTraced ==
  ASSUME FInv, NEW c \in Commands, WriteBlock(c)
  PROVE  Traced' /\ ReadSoFar'
<1> USE DEF FInv
<1>1. /\ pc[c] = "writing" /\ written[c] < request[c].size
      /\ data' = [data EXCEPT ![pathOf(c)] =
                    Overwrite(data[pathOf(c)], written[c] + 1, c)]
      /\ written' = [written EXCEPT ![c] = written[c] + 1]
      /\ UNCHANGED <<request, pc, exists, got>>
  BY DEF WriteBlock
<1>2. pathOf(c) \in Paths /\ request[c].size \in Nat /\ written[c] \in Nat
  BY RequestType DEF IInv, TypeOK
<1>3. pathOf(c) \in exists /\ data[pathOf(c)] = [i \in 1 .. written[c] |-> c]
  BY <1>1 DEF IInv, OwnBlocks
<1>4. Overwrite(data[pathOf(c)], written[c] + 1, c) = [i \in 1 .. written[c] + 1 |-> c]
  BY <1>2, <1>3, OverwriteOwn
<1>5. /\ data'[pathOf(c)] = [i \in 1 .. written[c] + 1 |-> c]
      /\ \A p \in Paths : p # pathOf(c) => data'[p] = data[p]
  <2>1. data' = [data EXCEPT ![pathOf(c)] = [i \in 1 .. written[c] + 1 |-> c]]
    BY <1>1, <1>4
  <2> QED
    BY <1>2, <2>1 DEF IInv, TypeOK
<1>6. /\ written'[c] = written[c] + 1 /\ written[c] + 1 <= request[c].size
      /\ \A d \in Commands : d # c => written'[d] = written[d]
  BY <1>1, <1>2 DEF IInv, TypeOK
<1>7. pc' = [pc EXCEPT ![c] = "writing"] /\ exists' = exists \cup {pathOf(c)}
  BY <1>1, <1>3 DEF IInv, TypeOK
<1>8. Traced'
  BY <1>1, <1>5, <1>6, <1>7, TracedByWriter
<1> QED
  BY <1>1, <1>7, <1>8, ReadUndisturbed

(* A block that is read is how the file begins. *)
LEMMA ReadTraced ==
  ASSUME FInv, NEW c \in Commands, ReadFile(c)
  PROVE  Traced' /\ ReadSoFar'
<1> USE DEF FInv
<1> DEFINE blocks == data[pathOf(c)]
           i      == Len(got[c]) + 1
<1>1. pc[c] = "reading" /\ UNCHANGED <<request, disk, written>>
  BY DEF ReadFile
<1>2. /\ blocks \in Seq(Commands \cup {Hole}) /\ got[c] \in Seq(Commands \cup {Hole})
      /\ BeginsWith(blocks, got[c])
  BY <1>1, RequestType DEF IInv, TypeOK, ReadSoFar
<1>3. CASE pathOf(c) \notin exists
  <2>1. pc' = [pc EXCEPT ![c] = "failed"] /\ UNCHANGED got
    BY <1>3 DEF ReadFile, Goto
  <2> QED
    BY <1>1, <2>1, TracedKept, ReadKept
<1>4. CASE pathOf(c) \in exists /\ i <= Len(blocks)
  <2>1. got' = [got EXCEPT ![c] = Append(got[c], blocks[i])] /\ UNCHANGED pc
    BY <1>4 DEF ReadFile
  <2>2. Traced'
    BY <1>1, <2>1 DEF Traced, Left, isSaver, pathOf, disk
  <2>3. got'[c] = Append(got[c], blocks[i]) /\ \A d \in Commands : d # c => got'[d] = got[d]
    BY <2>1 DEF IInv, TypeOK
  <2>4. BeginsWith(blocks, Append(got[c], blocks[i]))
    <3>1. /\ Len(Append(got[c], blocks[i])) = i
          /\ \A j \in 1 .. i : Append(got[c], blocks[i])[j]
                                 = IF j = i THEN blocks[i] ELSE got[c][j]
      BY <1>2
    <3>2. \A j \in 1 .. i : j # i => j \in 1 .. Len(got[c])
      BY <1>2
    <3> HIDE DEF i, blocks
    <3> QED
      BY <1>2, <1>4, <3>1, <3>2 DEF BeginsWith
  <2>5. ReadSoFar'
    BY <1>1, <2>1, <2>3, <2>4 DEF ReadSoFar, pathOf, disk
  <2> QED
    BY <2>2, <2>5
<1>5. CASE pathOf(c) \in exists /\ ~(i <= Len(blocks))
  <2>1. pc' = [pc EXCEPT ![c] = "decrypting"] /\ UNCHANGED got
    BY <1>5 DEF ReadFile, Goto
  <2>2. Traced'
    BY <1>1, <2>1, TracedKept
  <2>3. got[c] = blocks
    BY <1>2, <1>5 DEF BeginsWith
  <2>4. \A d \in Commands : pc'[d] = IF d = c THEN "decrypting" ELSE pc[d]
    BY <2>1 DEF IInv, TypeOK
  <2>5. ReadSoFar'
    BY <1>1, <2>1, <2>3, <2>4 DEF ReadSoFar, pathOf, disk
  <2> QED
    BY <2>2, <2>5
<1> QED
  BY <1>3, <1>4, <1>5

(***************************************************************************)
(* The other steps move one run on, and none to where it has read a file.  *)
(***************************************************************************)
LEMMA MoveTraced ==
  ASSUME FInv, NEW c \in Commands,
         \/ Start(c) \/ CheckName(c) \/ CloseFile(c) \/ Decrypt(c) \/ AskServer(c)
         \/ Suffer(c)
  PROVE  Traced' /\ ReadSoFar'
<1> USE DEF FInv
<1>1. UNCHANGED <<request, disk, written, got>>
  BY DEF Start, CheckName, CloseFile, Decrypt, AskServer, Suffer, GiveUp, WriteFails, Crash
<1>2. PICK where \in {"checking", "sealing", "reading", "asking", "ok", "failed", "crashed"} :
        /\ pc' = [pc EXCEPT ![c] = where]
        /\ where = "reading" => pc[c] = "idle"
        /\ pc[c] \in {"writing", "asking", "ok", "failed", "crashed"} =>
             \/ where \in {"failed", "crashed"}
             \/ where \in {"asking", "ok"} /\ (pc[c] = "asking" \/ written[c] = request[c].size)
  <2>1. CASE Start(c)
    BY <2>1 DEF Start, Goto
  <2>2. CASE CheckName(c)
    BY <2>2 DEF CheckName, Goto
  <2>3. CASE CloseFile(c)
    BY <2>3 DEF CloseFile, Goto
  <2>4. CASE Decrypt(c)
    BY <2>4 DEF Decrypt, Goto
  <2>5. CASE AskServer(c)
    BY <2>5 DEF AskServer, Goto
  <2>6. CASE Suffer(c)
    BY <2>6 DEF Suffer, GiveUp, WriteFails, Crash, Goto
  <2> QED
    BY <2>1, <2>2, <2>3, <2>4, <2>5, <2>6
<1>3. Traced'
  BY <1>1, <1>2, TracedKept
<1>4. ReadSoFar'
  BY <1>1, <1>2, ReadKept
<1> QED
  BY <1>3, <1>4

(* At the start no file exists and none is read. *)
LEMMA InitFInv == Init => FInv
<1> SUFFICES ASSUME Init PROVE FInv
  OBVIOUS
<1>1. Traced /\ ReadSoFar
  BY DEF Init, Traced, ReadSoFar
<1> QED
  BY <1>1, InitIInv DEF FInv

(* Every action keeps the invariant of the files. *)
LEMMA NextFInv ==
  ASSUME OneAtATime
  PROVE  FInv /\ [Next]_vars => FInv'
<1> SUFFICES ASSUME FInv, [Next]_vars PROVE FInv'
  OBVIOUS
<1>1. IInv'
  BY NextIInv DEF FInv
<1>2. CASE UNCHANGED vars
  BY <1>1, <1>2 DEF FInv, vars, disk, Traced, Left, ReadSoFar, isSaver, pathOf
<1>3. CASE \E c \in Commands : Start(c) \/ Proceed(c) \/ AskServer(c) \/ Suffer(c)
  BY <1>1, <1>3, CreateTraced, WriteTraced, ReadTraced, MoveTraced DEF FInv, Proceed
<1> QED
  BY <1>2, <1>3 DEF Next, AllEnded

(* The invariant of the files, when commands run one at a time. *)
LEMMA FInvAlways ==
  ASSUME OneAtATime
  PROVE  Spec => []FInv
<1>1. Init => FInv
  BY InitFInv
<1>2. FInv /\ [Next]_vars => FInv'
  BY NextFInv
<1> QED
  BY <1>1, <1>2, PTL DEF Spec

(***************************************************************************)
(* If commands run one at a time, a file that is no wallet is the trace of *)
(* a new or import that failed or was killed before its last block.        *)
(***************************************************************************)
THEOREM TornHasCause ==
  ASSUME OneAtATime
  PROVE  Spec => []TornByFailureOnly
<1>1. FInv => TornByFailureOnly
  <2> SUFFICES ASSUME FInv, NEW p \in exists, ~isWhole(data[p]), ~beingWritten(p)
               PROVE  \E c \in Commands :
                        /\ isSaver(c) /\ pathOf(c) = p /\ pc[c] \in {"failed", "crashed"}
                        /\ written[c] < request[c].size
    BY DEF TornByFailureOnly
  <2>1. PICK c \in Commands : Left(c, p)
    BY DEF FInv, Traced
  <2>2. written[c] # request[c].size
    BY <2>1 DEF Left, isWhole, Envelope
  <2>3. request[c].size \in Nat /\ written[c] \in Nat
    BY RequestType DEF FInv, IInv, TypeOK
  <2>4. pc[c] # "writing"
    BY <2>1 DEF Left, beingWritten
  <2> QED
    BY <2>1, <2>2, <2>3, <2>4 DEF Left
<1> QED
  BY <1>1, FInvAlways, PTL

(***************************************************************************)
(* If commands run one at a time, a load with the password of a new or     *)
(* import that succeeded has read that run's wallet, and it opens.         *)
(***************************************************************************)
THEOREM SavedIsFound ==
  ASSUME OneAtATime
  PROVE  Spec => []LoadFinds
<1>1. FInv => LoadFinds
  BY DEF FInv, IInv, ShownIsStored, ReadSoFar, LoadFinds, Opens
<1> QED
  BY <1>1, FInvAlways, PTL
------------------------------------------------------------------------------
(***************************************************************************)
(* However runs interleave, with any number of them at the same file at    *)
(* the same time. The inductive invariant: where a block stands in a file, *)
(* or in what has been read of one, tells how far its writer must have     *)
(* come; a run with no rivals for its name finds its file as it left it.   *)
(***************************************************************************)
WrittenAs(b, i, p) ==
  b = Hole \/ (b \in Commands /\ isSaver(b) /\ pathOf(b) = p /\ i <= written[b])

Counted == \A c \in Commands : written[c] <= request[c].size

BlocksWritten == \A p \in Paths : \A i \in 1 .. Len(data[p]) : WrittenAs(data[p][i], i, p)

BlocksRead == \A c \in Commands : \A i \in 1 .. Len(got[c]) : WrittenAs(got[c][i], i, pathOf(c))

Undisturbed ==
  \A c \in Commands :
    isSaver(c) /\ rivals(c) = {} /\ pc[c] \in {"writing", "asking", "ok"} =>
      /\ pathOf(c) \in exists
      /\ data[pathOf(c)] = [i \in 1 .. written[c] |-> c]
      /\ pc[c] # "writing" => written[c] = request[c].size

CInv == /\ TypeOK /\ OnTrack /\ NotBegun /\ Counted
        /\ BlocksWritten /\ BlocksRead /\ LoadedIsOneWallet /\ Undisturbed

(* At the start no block is written. *)
LEMMA InitCInv == Init => CInv
<1> SUFFICES ASSUME Init PROVE CInv
  OBVIOUS
<1>1. TypeOK
  BY DEF Init, TypeOK
<1>2. Counted
  BY <1>1, RequestType DEF Init, Counted
<1>3. OnTrack /\ NotBegun /\ LoadedIsOneWallet /\ Undisturbed
  BY DEF Init, OnTrack, NotBegun, LoadedIsOneWallet, Undisturbed
<1>4. BlocksWritten /\ BlocksRead
  BY DEF Init, BlocksWritten, BlocksRead
<1> QED
  BY <1>1, <1>2, <1>3, <1>4 DEF CInv

(* Requests are never assigned. *)
LEMMA SameRequests ==
  ASSUME [Next]_vars
  PROVE  /\ request' = request
         /\ \A c \in Commands : /\ pathOf(c)' = pathOf(c) /\ isSaver(c)' = isSaver(c)
                                /\ rivals(c)' = rivals(c) /\ Envelope(c)' = Envelope(c)
<1>1. request' = request
  BY DEF Next, Start, Proceed, Suffer, AllEnded, CheckName, GiveUp, CreateFile, WriteBlock,
         WriteFails, CloseFile, ReadFile, Decrypt, AskServer, Crash, vars
<1> QED
  BY <1>1 DEF pathOf, isSaver, rivals, Envelope

(* A step that writes and reads no block, and loads nothing. *)
LEMMA ControlStep ==
  ASSUME CInv, [Next]_vars, NEW c \in Commands, NEW w,
         pc' = [pc EXCEPT ![c] = w], UNCHANGED <<disk, written, got, loaded>>,
         w \in {"checking", "sealing"} => isSaver(c) /\ pc[c] \in {"idle", "checking"},
         w = "writing" => FALSE,
         w \in {"reading", "decrypting"} => ~isSaver(c),
         w \in {"asking", "ok"} /\ isSaver(c) =>
           \/ pc[c] = "asking"
           \/ pc[c] = "writing" /\ written[c] = request[c].size,
         w # "idle"
  PROVE  CInv'
<1> USE DEF CInv, disk
<1>1. TypeOK'
  BY NextTypeOK
<1>2. pc'[c] = w /\ \A d \in Commands : d # c => pc'[d] = pc[d]
  BY DEF TypeOK
<1>3. OnTrack' /\ NotBegun'
  BY <1>2, SameRequests DEF OnTrack, NotBegun
<1>4. Counted' /\ BlocksWritten' /\ BlocksRead' /\ LoadedIsOneWallet'
  <2>1. Counted'
    BY SameRequests DEF Counted
  <2>2. \A b, i, p : WrittenAs(b, i, p) => WrittenAs(b, i, p)'
    BY SameRequests DEF WrittenAs
  <2>3. BlocksWritten'
    BY <2>2 DEF BlocksWritten
  <2>4. BlocksRead'
    BY <2>2, SameRequests DEF BlocksRead
  <2>5. LoadedIsOneWallet'
    BY SameRequests DEF LoadedIsOneWallet, TypeOK
  <2> QED
    BY <2>1, <2>3, <2>4, <2>5
<1>5. Undisturbed'
  <2> SUFFICES ASSUME NEW d \in Commands, isSaver(d), rivals(d) = {},
                      pc'[d] \in {"writing", "asking", "ok"}
               PROVE  /\ pathOf(d) \in exists
                      /\ data[pathOf(d)] = [i \in 1 .. written[d] |-> d]
                      /\ pc'[d] # "writing" => written[d] = request[d].size
    BY SameRequests DEF Undisturbed
  <2>1. CASE d # c
    BY <2>1, <1>2 DEF Undisturbed
  <2>2. CASE d = c
    BY <2>2, <1>2 DEF Undisturbed
  <2> QED
    BY <2>1, <2>2
<1> QED
  BY <1>1, <1>3, <1>4, <1>5

(* A file that is created loses its blocks. *)
LEMMA CreateStep ==
  ASSUME CInv, [Next]_vars, NEW c \in Commands, CreateFile(c)
  PROVE  CInv'
<1> USE DEF CInv
<1>1. TypeOK'
  BY NextTypeOK
<1>2. /\ pc[c] = "sealing" /\ pc' = [pc EXCEPT ![c] = "writing"]
      /\ exists' = exists \cup {pathOf(c)} /\ data' = [data EXCEPT ![pathOf(c)] = <<>>]
      /\ UNCHANGED <<request, written, got, loaded>>
  BY DEF CreateFile, Goto
<1>3. pc'[c] = "writing" /\ \A d \in Commands : d # c => pc'[d] = pc[d]
  BY <1>2 DEF TypeOK
<1>4. isSaver(c) /\ written[c] = 0 /\ pathOf(c) \in Paths
  BY <1>2, RequestType DEF OnTrack, NotBegun
<1>5. /\ data'[pathOf(c)] = <<>>
      /\ \A p \in Paths : p # pathOf(c) => data'[p] = data[p]
  BY <1>2, <1>4 DEF TypeOK
<1>6. OnTrack' /\ NotBegun' /\ Counted'
  BY <1>2, <1>3, <1>4, SameRequests DEF OnTrack, NotBegun, Counted
<1>7. \A b, i, p : WrittenAs(b, i, p) => WrittenAs(b, i, p)'
  BY <1>2, SameRequests DEF WrittenAs
<1>8. BlocksWritten'
  <2> SUFFICES ASSUME NEW p \in Paths, NEW i \in 1 .. Len(data'[p]),
                      NEW b, b = data'[p][i]
               PROVE  WrittenAs(b, i, p)'
    BY DEF BlocksWritten, WrittenAs
  <2>1. p # pathOf(c)
    BY <1>5
  <2> QED
    BY <2>1, <1>5, <1>7 DEF BlocksWritten
<1>9. BlocksRead'
  BY <1>2, <1>7, SameRequests DEF BlocksRead
<1>10. LoadedIsOneWallet'
  BY <1>2, SameRequests DEF LoadedIsOneWallet, TypeOK
<1>11. Undisturbed'
  <2> SUFFICES ASSUME NEW d \in Commands, isSaver(d), rivals(d) = {},
                      pc'[d] \in {"writing", "asking", "ok"}
               PROVE  /\ pathOf(d) \in exists'
                      /\ data'[pathOf(d)] = [i \in 1 .. written[d] |-> d]
                      /\ pc'[d] # "writing" => written[d] = request[d].size
    BY <1>2, SameRequests DEF Undisturbed
  <2>1. CASE d # c
    <3>1. pathOf(d) # pathOf(c) /\ pathOf(d) \in Paths
      BY <2>1, <1>4, RequestType DEF rivals
    <3> QED
      BY <2>1, <3>1, <1>2, <1>3, <1>5 DEF Undisturbed
  <2>2. CASE d = c
    <3>1. [i \in 1 .. 0 |-> c] = <<>>
      OBVIOUS
    <3> QED
      BY <2>2, <3>1, <1>2, <1>3, <1>4, <1>5
  <2> QED
    BY <2>1, <2>2
<1> QED
  BY <1>1, <1>6, <1>8, <1>9, <1>10, <1>11

(* A block is written by a run that has come as far as its place. *)
LEMMA WriteStep ==
  ASSUME CInv, [Next]_vars, NEW c \in Commands, WriteBlock(c)
  PROVE  CInv'
<1> USE DEF CInv
<1> DEFINE n == written[c] + 1
           blocks == data[pathOf(c)]
<1>1. TypeOK'
  BY NextTypeOK
<1>2. /\ pc[c] = "writing" /\ written[c] < request[c].size
      /\ data' = [data EXCEPT ![pathOf(c)] = Overwrite(blocks, n, c)]
      /\ written' = [written EXCEPT ![c] = n]
      /\ UNCHANGED <<request, pc, exists, got, loaded>>
  BY DEF WriteBlock
<1>3. /\ isSaver(c) /\ pathOf(c) \in Paths /\ written[c] \in Nat
      /\ request[c].size \in Nat /\ blocks \in Seq(Commands \cup {Hole})
  BY <1>2, RequestType DEF OnTrack, TypeOK
<1>4. /\ data'[pathOf(c)] = Overwrite(blocks, n, c)
      /\ \A p \in Paths : p # pathOf(c) => data'[p] = data[p]
      /\ written'[c] = n /\ \A d \in Commands : d # c => written'[d] = written[d]
  BY <1>2, <1>3 DEF TypeOK
<1>5. OnTrack' /\ NotBegun'
  BY <1>2, <1>4, SameRequests DEF OnTrack, NotBegun
<1>6. Counted'
  BY <1>2, <1>3, <1>4 DEF Counted
<1>7. \A b, i, p : i \in Nat /\ WrittenAs(b, i, p) => WrittenAs(b, i, p)'
  BY <1>3, <1>4, SameRequests DEF WrittenAs
<1>8. BlocksWritten'
  <2> SUFFICES ASSUME NEW p \in Paths, NEW i \in 1 .. Len(data'[p]),
                      NEW b, b = data'[p][i]
               PROVE  WrittenAs(b, i, p)'
    BY DEF BlocksWritten, WrittenAs
  <2>1. CASE p # pathOf(c)
    BY <2>1, <1>4, <1>7 DEF BlocksWritten
  <2>2. CASE p = pathOf(c)
    <3> DEFINE m == IF n > Len(blocks) THEN n ELSE Len(blocks)
               put == [j \in 1 .. m |->
                         IF j = n THEN c ELSE IF j <= Len(blocks) THEN blocks[j] ELSE Hole]
    <3>1. data'[p] = put /\ m \in Nat
      BY <2>2, <1>3, <1>4 DEF Overwrite
    <3>2. Len(put) = m
      BY <3>1
    <3>3. i \in 1 .. m /\ i \in Nat
      BY <3>1, <3>2
    <3>4. b = IF i = n THEN c ELSE IF i <= Len(blocks) THEN blocks[i] ELSE Hole
      BY <3>1, <3>3
    <3>5. CASE i = n
      BY <3>4, <3>5, <2>2, <1>3, <1>4, SameRequests DEF WrittenAs
    <3>6. CASE i # n /\ i <= Len(blocks)
      BY <3>3, <3>4, <3>6, <2>2, <1>7 DEF BlocksWritten
    <3>7. CASE i # n /\ ~(i <= Len(blocks))
      BY <3>4, <3>7 DEF WrittenAs
    <3> QED
      BY <3>5, <3>6, <3>7
  <2> QED
    BY <2>1, <2>2
<1>9. BlocksRead'
  BY <1>2, <1>7, SameRequests DEF BlocksRead
<1>10. LoadedIsOneWallet'
  <2>1. \A d \in Commands : loaded[d] # c \/ loaded[d] = Nobody
    BY <1>2, <1>3 DEF LoadedIsOneWallet
  <2> QED
    BY <2>1, <1>2, <1>4, SameRequests, ConstantsAssumption DEF LoadedIsOneWallet, TypeOK
<1>11. Undisturbed'
  <2> SUFFICES ASSUME NEW d \in Commands, isSaver(d), rivals(d) = {},
                      pc[d] \in {"writing", "asking", "ok"}
               PROVE  /\ pathOf(d) \in exists
                      /\ data'[pathOf(d)] = [i \in 1 .. written'[d] |-> d]
                      /\ pc[d] # "writing" => written'[d] = request[d].size
    BY <1>2, SameRequests DEF Undisturbed
  <2>1. CASE d # c
    <3>1. pathOf(d) # pathOf(c) /\ pathOf(d) \in Paths
      BY <2>1, <1>3, RequestType DEF rivals
    <3>2. data'[pathOf(d)] = data[pathOf(d)] /\ written'[d] = written[d]
      BY <2>1, <3>1, <1>4
    <3>3. /\ pathOf(d) \in exists
          /\ data[pathOf(d)] = [i \in 1 .. written[d] |-> d]
          /\ pc[d] # "writing" => written[d] = request[d].size
      BY DEF Undisturbed
    <3> QED
      BY <3>2, <3>3
  <2>2. CASE d = c
    <3>1. blocks = [i \in 1 .. written[c] |-> c] /\ pathOf(c) \in exists
      BY <2>2 DEF Undisturbed
    <3>2. Overwrite(blocks, n, c) = [i \in 1 .. n |-> c]
      BY <3>1, <1>3, OverwriteOwn
    <3>3. data'[pathOf(c)] = [i \in 1 .. n |-> c]
      BY <3>2, <1>4
    <3>4. written'[c] = n /\ pc[c] = "writing"
      BY <1>2, <1>4
    <3> HIDE DEF n, blocks
    <3> QED
      BY <2>2, <3>1, <3>3, <3>4
  <2> QED
    BY <2>1, <2>2
<1> QED
  BY <1>1, <1>5, <1>6, <1>8, <1>9, <1>10, <1>11

(* What is read of a file is what stood in it. *)
LEMMA ReadStep ==
  ASSUME CInv, [Next]_vars, NEW c \in Commands, ReadFile(c)
  PROVE  CInv'
<1> USE DEF CInv
<1> DEFINE blocks == data[pathOf(c)]
           i      == Len(got[c]) + 1
<1>1. CASE pathOf(c) \notin exists
  BY <1>1, ControlStep DEF ReadFile, Goto, OnTrack
<1>2. CASE pathOf(c) \in exists /\ ~(i <= Len(blocks))
  BY <1>2, ControlStep DEF ReadFile, Goto, OnTrack
<1>3. CASE pathOf(c) \in exists /\ i <= Len(blocks)
  <2>1. /\ got' = [got EXCEPT ![c] = Append(got[c], blocks[i])]
        /\ UNCHANGED <<request, pc, exists, data, written, loaded>>
    BY <1>3 DEF ReadFile, disk
  <2>2. TypeOK'
    BY NextTypeOK
  <2>3. OnTrack' /\ NotBegun' /\ Counted' /\ LoadedIsOneWallet'
    BY <2>1, SameRequests DEF OnTrack, NotBegun, Counted, LoadedIsOneWallet, TypeOK
  <2>4. \A b, j, p : WrittenAs(b, j, p) => WrittenAs(b, j, p)'
    BY <2>1, SameRequests DEF WrittenAs
  <2>5. BlocksWritten'
    BY <2>1, <2>4 DEF BlocksWritten
  <2>6. BlocksRead'
    <3> SUFFICES ASSUME NEW d \in Commands, NEW j \in 1 .. Len(got'[d]),
                        NEW b, b = got'[d][j]
                 PROVE  WrittenAs(b, j, pathOf(d))'
      BY DEF BlocksRead, WrittenAs
    <3>1. CASE d # c
      <4>1. got'[d] = got[d]
        BY <3>1, <2>1 DEF TypeOK
      <4>2. WrittenAs(b, j, pathOf(d))
        BY <4>1 DEF BlocksRead
      <4> QED
        BY <4>2, <2>1 DEF WrittenAs, pathOf, isSaver
    <3>2. CASE d = c
      <4>1. /\ got[c] \in Seq(Commands \cup {Hole}) /\ blocks \in Seq(Commands \cup {Hole})
            /\ pathOf(c) \in Paths
        BY RequestType DEF TypeOK
      <4>2. got'[c] = Append(got[c], blocks[i])
        BY <2>1 DEF TypeOK
      <4>3. CASE j = i
        <5>1. b = blocks[i] /\ i \in 1 .. Len(blocks)
          BY <3>2, <4>1, <4>2, <4>3, <1>3
        <5>2. WrittenAs(b, j, pathOf(c))
          BY <5>1, <4>1, <4>3 DEF BlocksWritten
        <5> QED
          BY <5>2, <3>2, <2>1 DEF WrittenAs, pathOf, isSaver
      <4>4. CASE j # i
        <5>1. b = got[c][j] /\ j \in 1 .. Len(got[c])
          BY <3>2, <4>1, <4>2, <4>4
        <5>2. WrittenAs(b, j, pathOf(c))
          BY <5>1 DEF BlocksRead
        <5> QED
          BY <5>2, <3>2, <2>1 DEF WrittenAs, pathOf, isSaver
      <4> QED
        BY <4>3, <4>4
    <3> QED
      BY <3>1, <3>2
  <2>7. Undisturbed'
    BY <2>1, SameRequests DEF Undisturbed
  <2> QED
    BY <2>2, <2>3, <2>5, <2>6, <2>7
<1> QED
  BY <1>1, <1>2, <1>3

(***************************************************************************)
(* What opens was written to its end: the last block of an envelope stands *)
(* at its size, and only its writer can have put it there.                 *)
(***************************************************************************)
LEMMA DecryptStep ==
  ASSUME CInv, [Next]_vars, NEW c \in Commands, Decrypt(c)
  PROVE  CInv'
<1> USE DEF CInv
<1>1. pc[c] = "decrypting" /\ ~isSaver(c) /\ UNCHANGED <<request, disk, written, got>>
  BY DEF Decrypt, OnTrack
<1>2. CASE UNCHANGED loaded /\ Goto(c, "failed")
  BY <1>1, <1>2, ControlStep DEF Goto
<1>3. ASSUME NEW owner \in Commands, Opens(c, owner), Goto(c, "asking"),
             loaded' = [loaded EXCEPT ![c] = owner]
      PROVE  CInv'
  <2> DEFINE size == request[owner].size
  <2>1. size \in Nat \ {0} /\ owner # Hole
    BY RequestType, ConstantsAssumption
  <2>2. Len(got[c]) = size /\ got[c][size] = owner
    BY <1>3, <2>1 DEF Opens, Envelope
  <2>3. WrittenAs(owner, size, pathOf(c))
    BY <2>1, <2>2 DEF BlocksRead
  <2>4. pathOf(owner) = pathOf(c) /\ written[owner] = size
    BY <2>1, <2>3 DEF WrittenAs, Counted, TypeOK
  <2>5. LoadedIsOneWallet'
    <3> SUFFICES ASSUME NEW d \in Commands, NEW w, w = loaded'[d], w # Nobody
                 PROVE  /\ isSaver(w) /\ pathOf(w) = pathOf(d)
                        /\ request[w].password = request[d].password
                        /\ written[w] = request[w].size
      BY <1>1 DEF LoadedIsOneWallet, isSaver, pathOf
    <3>1. CASE d # c
      <4>1. loaded[d] = w
        BY <3>1, <1>3 DEF TypeOK
      <4> QED
        BY <4>1 DEF LoadedIsOneWallet
    <3>2. CASE d = c
      <4>1. w = owner
        BY <3>2, <1>3 DEF TypeOK
      <4> QED
        BY <4>1, <3>2, <2>4, <1>3 DEF Opens
    <3> QED
      BY <3>1, <3>2
  <2>6. pc'[c] = "asking" /\ \A d \in Commands : d # c => pc'[d] = pc[d]
    BY <1>3 DEF Goto, TypeOK
  <2>7. TypeOK'
    BY NextTypeOK
  <2>8. OnTrack' /\ NotBegun' /\ Counted'
    BY <1>1, <2>6, SameRequests DEF OnTrack, NotBegun, Counted
  <2>9. \A b, j, p : WrittenAs(b, j, p) => WrittenAs(b, j, p)'
    BY <1>1, SameRequests DEF WrittenAs
  <2>10. BlocksWritten'
    BY <1>1, <2>9 DEF BlocksWritten, disk
  <2>11. BlocksRead'
    BY <1>1, <2>9, SameRequests DEF BlocksRead
  <2>12. Undisturbed'
    BY <1>1, <2>6, SameRequests DEF Undisturbed, disk
  <2> QED
    BY <2>5, <2>7, <2>8, <2>10, <2>11, <2>12
<1> QED
  BY <1>2, <1>3 DEF Decrypt

(* Every action keeps the invariant of the blocks, in any interleaving. *)
LEMMA NextCInv == CInv /\ [Next]_vars => CInv'
<1> SUFFICES ASSUME CInv, [Next]_vars PROVE CInv'
  OBVIOUS
<1> USE DEF CInv, OnTrack
<1>1. ASSUME NEW c \in Commands, Start(c) PROVE CInv'
  <2>1. CASE isSaver(c)
    <3>1. pc' = [pc EXCEPT ![c] = "checking"]
      BY <1>1, <2>1 DEF Start, Goto
    <3> QED
      BY <1>1, <2>1, <3>1, ControlStep DEF Start
  <2>2. CASE ~isSaver(c)
    <3>1. pc' = [pc EXCEPT ![c] = "reading"]
      BY <1>1, <2>2 DEF Start, Goto
    <3> QED
      BY <1>1, <2>2, <3>1, ControlStep DEF Start
  <2> QED
    BY <2>1, <2>2
<1>2. ASSUME NEW c \in Commands, CheckName(c) PROVE CInv'
  <2>0. pc[c] = "checking" /\ UNCHANGED <<disk, written, got, loaded>>
    BY <1>2 DEF CheckName
  <2>1. CASE pathOf(c) \in exists
    <3>1. pc' = [pc EXCEPT ![c] = "failed"]
      BY <1>2, <2>1 DEF CheckName, Goto
    <3> QED
      BY ZenonT(30), <2>0, <3>1, ControlStep
  <2>2. CASE pathOf(c) \notin exists
    <3>1. pc' = [pc EXCEPT ![c] = "sealing"]
      BY <1>2, <2>2 DEF CheckName, Goto
    <3>2. isSaver(c)
      BY <2>0
    <3> QED
      BY <2>0, <3>1, <3>2, ControlStep
  <2> QED
    BY <2>1, <2>2
<1>3. ASSUME NEW c \in Commands, GiveUp(c) PROVE CInv'
  <2>1. pc' = [pc EXCEPT ![c] = "failed"] /\ UNCHANGED <<disk, written, got, loaded>>
    BY <1>3 DEF GiveUp, Goto
  <2> QED
    BY <2>1, ControlStep
<1>4. ASSUME NEW c \in Commands, WriteFails(c) PROVE CInv'
  <2>1. pc' = [pc EXCEPT ![c] = "failed"] /\ UNCHANGED <<disk, written, got, loaded>>
    BY <1>4 DEF WriteFails, Goto
  <2> QED
    BY <2>1, ControlStep
<1>5. ASSUME NEW c \in Commands, CloseFile(c) PROVE CInv'
  <2>1. pc' = [pc EXCEPT ![c] = "asking"] /\ UNCHANGED <<disk, written, got, loaded>>
    BY <1>5 DEF CloseFile, Goto
  <2>2. pc[c] = "writing" /\ written[c] = request[c].size
    BY <1>5 DEF CloseFile
  <2> QED
    BY ZenonT(30), <2>1, <2>2, ControlStep
<1>6. ASSUME NEW c \in Commands, AskServer(c) PROVE CInv'
  <2>1. PICK w \in {"ok", "failed"} : pc' = [pc EXCEPT ![c] = w]
    BY <1>6 DEF AskServer, Goto
  <2>2. pc[c] = "asking" /\ UNCHANGED <<disk, written, got, loaded>>
    BY <1>6 DEF AskServer
  <2>3. CASE w = "ok"
    BY <2>1, <2>2, <2>3, ControlStep
  <2>4. CASE w = "failed"
    BY <2>1, <2>2, <2>4, ControlStep
  <2> QED
    BY <2>3, <2>4
<1>7. ASSUME NEW c \in Commands, Crash(c) PROVE CInv'
  <2>1. pc' = [pc EXCEPT ![c] = "crashed"] /\ UNCHANGED <<disk, written, got, loaded>>
    BY <1>7 DEF Crash, Goto
  <2> QED
    BY <2>1, ControlStep
<1>8. CASE UNCHANGED vars
  <2>1. TypeOK'
    BY NextTypeOK
  <2>2. UNCHANGED <<request, pc, exists, data, written, got, loaded>>
    BY <1>8 DEF vars, disk
  <2> QED
    BY <2>1, <2>2
    DEF NotBegun, Counted, BlocksWritten, BlocksRead, WrittenAs, LoadedIsOneWallet,
        Undisturbed, pathOf, isSaver, rivals
<1> QED
  BY <1>1, <1>2, <1>3, <1>4, <1>5, <1>6, <1>7, <1>8,
     CreateStep, WriteStep, ReadStep, DecryptStep
  DEF Next, Proceed, Suffer, AllEnded

(* The invariant holds in every interleaving, with any failures and crashes. *)
THEOREM CInvAlways == Spec => []CInv
<1> QED
  BY InitCInv, NextCInv, PTL DEF Spec

(***************************************************************************)
(* A load that succeeds shows one run's wallet, which that run has written *)
(* to the end, however many runs write to the file while it is read.       *)
(***************************************************************************)
THEOREM NoMixtureLoaded == Spec => []LoadedIsOneWallet
<1>1. CInv => LoadedIsOneWallet
  BY DEF CInv
<1> QED
  BY <1>1, CInvAlways, PTL

(***************************************************************************)
(* The keys that a new or import shows are on the disk from then on if no  *)
(* other run, at whatever time, saves under the same name.                 *)
(***************************************************************************)
THEOREM NamesAreApart == Spec => []StoredWithoutRivals
<1>1. CInv => StoredWithoutRivals
  <2> SUFFICES ASSUME CInv, NEW c \in Commands, isSaver(c),
                      pc[c] \in {"asking", "ok"}, rivals(c) = {}
               PROVE  pathOf(c) \in exists /\ data[pathOf(c)] = Envelope(c)
    BY DEF StoredWithoutRivals
  <2> QED
    BY DEF CInv, Undisturbed, Envelope
<1> QED
  BY <1>1, CInvAlways, PTL

(***************************************************************************)
(* Files are never removed, so a run that has created its file is found by *)
(* every check of the name from then on.                                   *)
(***************************************************************************)
Secured ==
  \A c \in Commands :
    isSaver(c) /\ pc[c] \in {"writing", "asking", "ok"} => pathOf(c) \in exists

(* And every action leaves the names that are secured. *)
LEMMA NextSecured == CInv /\ Secured /\ [Next]_vars => Secured'
<1> SUFFICES ASSUME CInv, Secured, [Next]_vars PROVE Secured'
  OBVIOUS
<1> USE DEF CInv
<1>1. exists \subseteq exists'
  BY DEF Next, Start, Proceed, Suffer, AllEnded, CheckName, GiveUp, CreateFile, WriteBlock,
         WriteFails, CloseFile, ReadFile, Decrypt, AskServer, Crash, vars, disk
<1>2. ASSUME NEW c \in Commands, isSaver(c), pc'[c] \in {"writing", "asking", "ok"}
      PROVE  pathOf(c) \in exists'
  <2>1. CASE pc[c] \in {"writing", "asking", "ok"}
    BY <1>1, <1>2, <2>1 DEF Secured
  <2>2. CASE pc[c] \notin {"writing", "asking", "ok"}
    <3>1. CreateFile(c)
      BY <1>2, <2>2
      DEF Next, Start, Proceed, Suffer, AllEnded, CheckName, GiveUp, CreateFile, WriteBlock,
          WriteFails, CloseFile, ReadFile, Decrypt, AskServer, Crash, vars, Goto, TypeOK,
          OnTrack
    <3> QED
      BY <3>1 DEF CreateFile
  <2> QED
    BY <2>1, <2>2
<1> QED
  BY <1>2, SameRequests DEF Secured

(***************************************************************************)
(* A name that one run has secured before another checks it is refused to  *)
(* that other run.                                                         *)
(***************************************************************************)
THEOREM SecuredNameRefused == Spec => NoNewRivalSucceeds
<1> DEFINE Refused ==
      \A c, d \in Commands :
        /\ c # d /\ isSaver(c) /\ isSaver(d) /\ pathOf(c) = pathOf(d)
        /\ pc[c] \in {"asking", "ok"} /\ pc[d] \in {"idle", "checking"}
        => pc'[d] # "sealing"
<1>1. Init => Secured
  BY DEF Init, Secured
<1>2. CInv /\ Secured /\ [Next]_vars => [Refused]_vars
  <2> SUFFICES ASSUME CInv, Secured, [Next]_vars,
                      NEW c \in Commands, NEW d \in Commands,
                      isSaver(c), pathOf(c) = pathOf(d), pc[c] \in {"asking", "ok"},
                      pc[d] \in {"idle", "checking"}, pc'[d] = "sealing"
               PROVE  FALSE
    BY DEF CInv
  <2>1. pathOf(d) \in exists
    BY DEF Secured
  <2>2. CheckName(d)
    BY DEF Next, Start, Proceed, Suffer, AllEnded, CheckName, GiveUp, CreateFile, WriteBlock,
           WriteFails, CloseFile, ReadFile, Decrypt, AskServer, Crash, vars, Goto, CInv, TypeOK
  <2> QED
    BY <2>1, <2>2 DEF CheckName, Goto, CInv, TypeOK
<1> QED
  BY <1>1, <1>2, NextSecured, CInvAlways, PTL DEF Spec, NoNewRivalSucceeds
=============================================================================
