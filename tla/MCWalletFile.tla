---------------------------- MODULE MCWalletFile ----------------------------
(* Two workers that do what they like, and one that syncs.                  *)
EXTENDS WalletFile

(* The UI syncs after every action, at most every 30 s, and the sync of a    *)
(* node that can be reached again and again is not cut off each time.        *)
(* Nothing is assumed of the other workers, which may hang or end.          *)
FairSpec == Spec /\ WF_vars(SyncOpen(Syncer)) /\ SF_vars(SyncStore(Syncer))

(* Again and again the file knows the latest version of every holding.       *)
FileCatchesUp == []<>(file.known = [n \in Note |-> Current(n)])

=============================================================================
