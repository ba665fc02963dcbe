----------------------------- MODULE WalletFile -----------------------------
(***************************************************************************)
(* The wallet's storage file.  Every call of the FFI, every job of the        *)
(* mini-app and every command of the CLI opens the file, works on a copy of  *)
(* its own and writes the whole copy back.  Nothing locks the file, and jobs *)
(* run detached, beside the balance sync and beside the CLI.                 *)
(*                                                                         *)
(* A private holding is on chain as one commitment.  A transaction that      *)
(* touches it replaces the commitment, so it has to be made from the latest  *)
(* one.  The file knows a version of each holding, up to which block it was  *)
(* synced, and the keys of the accounts the wallet has made.  A call that    *)
(* sees its own transaction included folds the new version in; the sync      *)
(* scans the blocks since the last one.                                     *)
(***************************************************************************)
EXTENDS Naturals

CONSTANTS
    Note,       \* the private holdings
    Account,    \* single-use public accounts the wallet may make
    Worker,     \* threads and processes that open the file
    Syncer,     \* the one that only syncs: syncPrivateBalances' thread
    NoAccount,
    Nobody,
    MaxChanges, \* bound on the blocks that change a holding
    MaxOps      \* bound on the operations begun

ASSUME WalletFileAssumption ==
    /\ NoAccount \notin Account
    /\ Nobody \notin Worker
    /\ Syncer \in Worker
    /\ MaxChanges \in Nat
    /\ MaxOps \in Nat

VARIABLES
    height,      \* blocks so far
    version,     \* version[n][h]: the version of holding n after block h
    initialised, \* single-use accounts that are token holdings
    funded,      \* single-use accounts with the user's tokens in them
    txs,         \* transactions under way
    file,        \* the storage file
    copy,        \* worker -> the copy it works on
    pc,          \* worker -> where it is
    job,         \* worker -> what it does
    ops,
    forgotten    \* accounts a store dropped whose copy was from before them

chainVars == <<height, version, initialised, funded>>
fileVars == <<file, copy, forgotten>>
vars == <<chainVars, txs, fileVars, pc, job, ops>>

Current(n) == version[n][height]

(* A copy is stale once the file has been stored since it was opened.  The   *)
(* head is the block a sync goes to, and 0 in the copy of a job.            *)
Opened(head) ==
    [synced |-> file.synced, known |-> file.known, keys |-> file.keys,
     head |-> head, stale |-> FALSE]

Contents(c) == [synced |-> c.synced, known |-> c.known, keys |-> c.keys]

Closed == [synced |-> 0, known |-> [n \in Note |-> 0], keys |-> {},
           head |-> 0, stale |-> FALSE]

(* What a worker does: move value between a private holding and an account   *)
(* of its own, a single-use account, or a pool, and fold the result or not.  *)
(* Which holding it is about matters from the transaction on.                *)
NoResult == [note |-> "none", seen |-> 0]

Job == [dir : {"in", "out", "none"}, account : Account \cup {NoAccount}, saga : BOOLEAN,
        result : {NoResult} \cup [note : Note, seen : Nat]]

NoJob == [dir |-> "none", account |-> NoAccount, saga |-> FALSE, result |-> NoResult]

Saga(a) == [dir |-> "in", account |-> a, saga |-> TRUE, result |-> NoResult]

Init ==
    /\ height = 0
    /\ version = [n \in Note |-> [h \in {0} |-> 0]]
    /\ initialised = {}
    /\ funded = {}
    /\ txs = {}
    /\ file = Contents(Closed)
    /\ copy = [w \in Worker |-> Closed]
    /\ forgotten = {}
    /\ pc = [w \in Worker |-> "idle"]
    /\ job = [w \in Worker |-> NoJob]
    /\ ops = 0

-----------------------------------------------------------------------------
(* Opening, storing and ending.                                            *)

At(w, stage) == pc[w] = stage
Goto(w, stage) == pc' = [pc EXCEPT ![w] = stage]

Open(w, head) ==
    /\ copy' = [copy EXCEPT ![w] = Opened(head)]
    /\ UNCHANGED <<file, forgotten>>

(* The whole copy replaces the file, and every other copy is stale.         *)
Store(w, c) ==
    /\ file' = Contents(c)
    /\ copy' = [v \in Worker |->
                  IF v = w THEN [c EXCEPT !.stale = FALSE]
                  ELSE [copy[v] EXCEPT !.stale = ~At(v, "idle")]]
    /\ forgotten' = (IF c.stale THEN forgotten \cup (file.keys \ c.keys) ELSE forgotten)
                        \ c.keys

(* The store is the last thing the worker does.                            *)
StoreAndClose(w, c) ==
    /\ file' = Contents(c)
    /\ copy' = [v \in Worker |->
                  IF v = w THEN Closed
                  ELSE [copy[v] EXCEPT !.stale = ~At(v, "idle")]]
    /\ forgotten' = (IF c.stale THEN forgotten \cup (file.keys \ c.keys) ELSE forgotten)
                        \ c.keys

Begin(w, stage) ==
    /\ At(w, "idle")
    /\ w # Syncer
    /\ ops < MaxOps
    /\ ops' = ops + 1
    /\ Goto(w, stage)

-----------------------------------------------------------------------------
(* syncPrivateBalances, and the sync of the CLI.                            *)

SyncOpen(w) ==
    /\ At(w, "idle")
    /\ \/ w = Syncer /\ UNCHANGED ops
       \/ w # Syncer /\ ops < MaxOps /\ ops' = ops + 1
    /\ Goto(w, "syncing")
    /\ Open(w, height)
    /\ UNCHANGED <<chainVars, txs, job>>

(* Variant: the scan starts from an empty storage.                          *)
ScannedAnew(c) ==
    [c EXCEPT !.synced = c.head,
              !.known = [n \in Note |-> version[n][c.head]],
              !.keys = {}]

(* The blocks since the copy's last sync are scanned: a holding that changed *)
(* in them is brought to its version at the head.                           *)
Scanned(c) ==
    [c EXCEPT !.synced = c.head,
              !.known = [n \in Note |->
                  IF version[n][c.head] # version[n][c.synced]
                  THEN version[n][c.head] ELSE c.known[n]]]

SyncStore(w) ==
    /\ At(w, "syncing")
    /\ StoreAndClose(w, Scanned(copy[w]))
    /\ Goto(w, "idle")
    /\ UNCHANGED <<chainVars, txs, job, ops>>

-----------------------------------------------------------------------------
(* Operations of one transaction: a shield or deshield of a key holding,     *)
(* which is folded; a shield of what a single-use account has left; and a    *)
(* private swap or private liquidity, which ends without a fold.  To or from *)
(* an account that holds its key for good, the two directions behave alike.  *)

StartCall(w) ==
    /\ Begin(w, "opened")
    /\ Open(w, 0)
    /\ \E a \in funded \cup {NoAccount} :
          job' = [job EXCEPT ![w] =
              [dir |-> "out", account |-> a, saga |-> FALSE, result |-> NoResult]]
    /\ UNCHANGED <<chainVars, txs>>

(* The disposable swap: the plugin makes single-use accounts and saves them, *)
(* has them initialised, and makes the call, which opens the file anew,      *)
(* deshields into them and shields from them.  Two accounts behave like one. *)
StartSwap(w) ==
    /\ Begin(w, "creating")
    /\ Open(w, 0)
    /\ UNCHANGED <<chainVars, txs, job>>

(* Which account the wallet makes is not in src/: one the copy has not.      *)
CreateSave(w) ==
    /\ At(w, "creating")
    /\ \E a \in Account \ copy[w].keys :
          /\ StoreAndClose(w, [copy[w] EXCEPT !.keys = @ \cup {a}])
          /\ job' = [job EXCEPT ![w] = Saga(a)]
    /\ Goto(w, "created")
    /\ UNCHANGED <<chainVars, txs, ops>>

(* ldex_amm_init_token_holding signs with a key of the file as it is now;     *)
(* what it returns is not looked at.                                        *)
InitHolding(w) ==
    /\ At(w, "created")
    /\ \/ job[w].account \in file.keys /\ initialised' = initialised \cup {job[w].account}
       \/ UNCHANGED initialised
    /\ Goto(w, "prepared")
    /\ UNCHANGED <<height, version, funded, txs, fileVars, job, ops>>

CallOpen(w) ==
    /\ At(w, "prepared")
    /\ Open(w, 0)
    /\ Goto(w, "opened")
    /\ UNCHANGED <<chainVars, txs, job, ops>>

(* The transaction is made from the version the copy knows; to spend from a  *)
(* single-use account takes its key.  A saga shields into the holding that   *)
(* receives or, when the swap failed, back into the first.                  *)
Send(w) ==
    /\ At(w, "opened")
    /\ LET j == job[w]
           signs == j.account \in copy[w].keys
       IN  /\ j.dir = "out" => signs \/ j.account = NoAccount
           /\ \E n \in Note :
                 txs' = txs \cup {[by |-> w, note |-> n, base |-> copy[w].known[n],
                                   dir |-> j.dir, account |-> j.account, signed |-> signs]}
    /\ Goto(w, "sent")
    /\ UNCHANGED <<chainVars, fileVars, job, ops>>

(* Variant: the fold is taken for a sync.                                   *)
FoldedAndSynced(w) ==
    [copy[w] EXCEPT !.known = [@ EXCEPT ![job[w].result.note] = job[w].result.seen],
                    !.synced = height]

Folded(w) ==
    [copy[w] EXCEPT !.known = [@ EXCEPT ![job[w].result.note] = job[w].result.seen]]

(* The result is folded and stored.  After the deshield of a saga the same   *)
(* copy goes on with the shield.                                            *)
FoldStore(w) ==
    /\ At(w, "included")
    /\ \/ /\ job[w].saga /\ job[w].dir = "in"
          /\ Store(w, Folded(w))
          /\ job' = [job EXCEPT ![w].dir = "out", ![w].result = NoResult]
          /\ Goto(w, "opened")
       \/ /\ ~(job[w].saga /\ job[w].dir = "in")
          /\ StoreAndClose(w, Folded(w))
          /\ job' = [job EXCEPT ![w] = NoJob]
          /\ Goto(w, "idle")
    /\ UNCHANGED <<chainVars, txs, ops>>

(* The worker ends without a store: it does not fold, a call failed, a wait  *)
(* was given up, or the process ended.  Its transaction may still arrive.    *)
End(w) ==
    /\ ~At(w, "idle")
    /\ Goto(w, "idle")
    /\ copy' = [copy EXCEPT ![w] = Closed]
    /\ job' = [job EXCEPT ![w] = NoJob]
    /\ txs' = {IF t.by = w THEN [t EXCEPT !.by = Nobody] ELSE t : t \in txs}
    /\ UNCHANGED <<chainVars, file, forgotten, ops>>

-----------------------------------------------------------------------------
(* The chain.  A transaction that is refused or lost is never included.     *)

Valid(t) ==
    /\ t.base = Current(t.note)
    /\ t.account # NoAccount =>
          \/ t.dir = "in" /\ (t.signed \/ t.account \in initialised)
          \/ t.dir = "out" /\ t.account \in funded

Include(t) ==
    /\ height < MaxChanges
    /\ Valid(t)
    /\ txs' = txs \ {t}
    /\ height' = height + 1
    /\ version' = [n \in Note |-> [h \in 0 .. height + 1 |->
                      IF h <= height THEN version[n][h]
                      ELSE IF n = t.note THEN Current(n) + 1 ELSE Current(n)]]
    /\ IF t.account = NoAccount THEN UNCHANGED <<initialised, funded>>
       ELSE /\ initialised' = initialised \cup {t.account}
            /\ funded' = IF t.dir = "in" THEN funded \cup {t.account}
                                         ELSE funded \ {t.account}
    /\ IF t.by = Nobody THEN UNCHANGED <<pc, job>>
       ELSE /\ Goto(t.by, "included")
            /\ job' = [job EXCEPT ![t.by].result =
                                  [note |-> t.note, seen |-> Current(t.note) + 1]]
    /\ UNCHANGED <<fileVars, ops>>

-----------------------------------------------------------------------------
Next ==
    \/ \E w \in Worker :
          \/ SyncOpen(w) \/ SyncStore(w)
          \/ StartCall(w) \/ StartSwap(w) \/ CreateSave(w) \/ InitHolding(w)
          \/ CallOpen(w) \/ Send(w) \/ FoldStore(w) \/ End(w)
    \/ \E t \in txs : Include(t)

Spec == Init /\ [][Next]_vars

-----------------------------------------------------------------------------
(* Safety.                                                                 *)

(* The version a copy knows of a holding is at least the one at its last     *)
(* sync, and not from the future: whoever stored last, over whomever, the    *)
(* next sync brings the file up to date.                                    *)
Honest(c) ==
    /\ c.synced <= height
    /\ \A n \in Note : version[n][c.synced] <= c.known[n] /\ c.known[n] <= Current(n)

CopiesHonest == Honest(file) /\ \A w \in Worker : Honest(copy[w])

(* The key of a single-use account is in the file before anything is in the  *)
(* account, and stays, unless a writer stores a copy from before it.         *)
FundsReachable == funded \subseteq file.keys \cup forgotten

=============================================================================
