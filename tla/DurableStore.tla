---------------------------- MODULE DurableStore ----------------------------
(***************************************************************************)
(* What LevelDB promises about writes and crashes, without files: a set of     *)
(* writes that recovery would find, the part of it that even the death of the  *)
(* machine leaves, and the writes that have been acknowledged                 *)
(* (WriteOptions::sync, include/leveldb/options.h).  Flushes, compactions,     *)
(* garbage collection, recovery and the death of the process do not show.     *)
(* A write may also return an error after it reached the log: it is forgotten. *)
(***************************************************************************)
CONSTANT Write

VARIABLES
    contents,    \* what a recovery would find now
    durable,     \* what it would find after the machine died now
    acked,       \* acknowledged writes whose loss was not accepted
    syncAcked    \* those acknowledged with sync

storeVars == <<contents, durable, acked, syncAcked>>

StoreInit == contents = {} /\ durable = {} /\ acked = {} /\ syncAcked = {}

(* A group of writes reaches the log.                                        *)
Record ==
    /\ contents \subseteq contents' /\ contents' \ contents \subseteq Write
    /\ UNCHANGED <<durable, acked, syncAcked>>

(* Some of what is there becomes durable: by Sync, or by a table.            *)
Harden ==
    /\ durable \subseteq durable' /\ durable' \subseteq contents
    /\ UNCHANGED <<contents, acked, syncAcked>>

(* A write returns an error: from then on it may be found or not.             *)
Fail ==
    /\ \E w \in contents \ acked :
         contents' = contents \ {w} /\ durable' = durable \ {w}
    /\ UNCHANGED <<acked, syncAcked>>

Acknowledge ==
    /\ \E w \in contents :
         /\ acked' = acked \cup {w}
         /\ \/ UNCHANGED syncAcked
            \/ w \in durable /\ syncAcked' = syncAcked \cup {w}
    /\ UNCHANGED <<contents, durable>>

(* The machine dies: writes that were not durable may go, and what is left     *)
(* has been read back from the disk.                                         *)
MachineDies ==
    /\ durable \subseteq contents' /\ contents' \subseteq contents
    /\ durable' = contents'
    /\ acked' = syncAcked
    /\ UNCHANGED syncAcked

StoreNext == Record \/ Harden \/ Fail \/ Acknowledge \/ MachineDies

StoreSpec == StoreInit /\ [][StoreNext]_storeVars

(* What was acknowledged is there, and what was acknowledged with sync is      *)
(* durable (WriteOptions::sync).                                             *)
Kept ==
    /\ syncAcked \subseteq acked /\ acked \subseteq contents
    /\ syncAcked \subseteq durable /\ durable \subseteq contents
=============================================================================
