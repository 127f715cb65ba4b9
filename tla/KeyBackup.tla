------------------------------ MODULE KeyBackup ------------------------------
(***************************************************************************)
(* What a user counts on when the keys of a wallet are exported and        *)
(* imported (src/wallet/backup.go), as if both happened at once: a backup  *)
(* gives back addresses and keys of one wallet only, and a new wallet      *)
(* holds exactly what the backup it was made from gives back. Nothing      *)
(* else touches a wallet that exists.                                      *)
(***************************************************************************)
CONSTANTS
  Ids,       \* A wallet's name and network.
  Files,     \* Where backups are kept.
  Nothing,   \* No wallet, or a file that gives nothing back.
  Spoilt     \* A wallet that is on disk and cannot be opened.

VARIABLES
  holds,  \* holds[i]: the addresses of wallet i with their keys.
  kept    \* kept[f]: the addresses and keys that the file f gives back.

vars == <<holds, kept>>

isWallet(i) == holds[i] \notin {Nothing, Spoilt}

(* A map with some of the entries of another. *)
isPart(part, whole) ==
  /\ DOMAIN part \subseteq DOMAIN whole
  /\ \A a \in DOMAIN part : part[a] = whole[a]

Init == \A i \in Ids : holds[i] # Spoilt

(* A backup becomes one of a wallet, or of some of its keys, or nothing. *)
Write ==
  /\ UNCHANGED holds
  /\ LET next == kept'
         new  == {f \in Files : next[f] # kept[f]}
     IN  /\ \A f, g \in new : f = g
         /\ \A f \in new :
              \/ next[f] = Nothing
              \/ \E i \in Ids : isWallet(i) /\ isPart(next[f], holds[i])

(* A new wallet is made from a backup, or its file is spoilt. *)
Restore ==
  /\ UNCHANGED kept
  /\ \E i \in Ids, f \in Files :
       /\ holds[i] = Nothing /\ kept[f] # Nothing
       /\ holds' \in {[holds EXCEPT ![i] = kept[f]], [holds EXCEPT ![i] = Spoilt]}

Next == Write \/ Restore

Spec == Init /\ [][Next]_vars
==============================================================================
