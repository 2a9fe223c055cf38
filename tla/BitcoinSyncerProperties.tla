------------------------ MODULE BitcoinSyncerProperties ------------------------
(***************************************************************************)
(* What the bitcoin syncer promises.                                       *)
(***************************************************************************)
EXTENDS BitcoinSyncer, SyncerProperties

(***************************************************************************)
(* A lost connection costs no notice of a watched address.  (A failed      *)
(* request does: the new status is stored before the history is asked for, *)
(* address_change_check.)                                                  *)
(***************************************************************************)
NoticesKept == MaxErrors = 0 => AddressTold

===============================================================================
