-------------------------- MODULE WalletFileTheorems --------------------------
(* No key is lost but to a copy from before it, and no copy's knowledge of   *)
(* a holding is behind its own last sync: for any holdings, accounts and     *)
(* workers, and any number of blocks and operations.                        *)
EXTENDS WalletFile, TLAPS

Copy == [synced : Nat, known : [Note -> Nat], keys : SUBSET Account,
         head : Nat, stale : BOOLEAN]

Stage == {"idle", "syncing", "creating", "created", "prepared", "opened", "sent",
          "included"}

Tx == [by : Worker \cup {Nobody}, note : Note, base : Nat,
       dir : {"in", "out", "none"}, account : Account \cup {NoAccount}, signed : BOOLEAN]

TypeOK ==
    /\ height \in Nat
    /\ version \in [Note -> [0 .. height -> Nat]]
    /\ initialised \subseteq Account
    /\ funded \subseteq Account
    /\ txs \subseteq Tx
    /\ file \in [synced : Nat, known : [Note -> Nat], keys : SUBSET Account]
    /\ copy \in [Worker -> Copy]
    /\ pc \in [Worker -> Stage]
    /\ job \in [Worker -> Job]
    /\ forgotten \subseteq Account

(* Versions only grow, and a sync never goes past the chain.                *)
Monotone ==
    /\ \A n \in Note : \A g, h \in 0 .. height : g <= h => version[n][g] <= version[n][h]
    /\ \A n \in Note : version[n][0] = 0
    /\ \A w \in Worker : copy[w].head <= height

(* What is folded is at least what the copy synced to.                      *)
ResultHonest(w) ==
    LET r == job[w].result
    IN  /\ r \in [note : Note, seen : Nat]
        /\ version[r.note][copy[w].synced] <= r.seen
        /\ r.seen <= Current(r.note)

ResultsHonest == \A w \in Worker : At(w, "included") => ResultHonest(w)

CopiesInv == TypeOK /\ Monotone /\ ResultsHonest /\ CopiesHonest

-----------------------------------------------------------------------------
(* The closed copy and no job are of their types.                          *)
LEMMA ClosedIsCopy == Closed \in Copy /\ NoJob \in Job
BY DEF Closed, Copy, NoJob, Job, NoResult

(* So is a copy that is opened.                                            *)
LEMMA OpenedIsCopy ==
    ASSUME TypeOK, NEW head \in Nat PROVE Opened(head) \in Copy
BY DEF TypeOK, Opened, Copy

(* A scan leaves a copy honest, up to its head.                            *)
LEMMA ScanHonest ==
    ASSUME TypeOK, Monotone, NEW w \in Worker, Honest(copy[w])
    PROVE  Scanned(copy[w]) \in Copy /\ Honest(Scanned(copy[w]))
<1> DEFINE c == copy[w]
           s == Scanned(copy[w])
<1>1. c \in Copy /\ c.head <= height /\ c.synced <= height
    BY DEF TypeOK, Monotone, Honest
<1>2. c.head \in 0 .. height /\ c.synced \in 0 .. height /\ height \in 0 .. height
    BY <1>1 DEF TypeOK, Copy
<1>3. ASSUME NEW n \in Note
      PROVE  /\ version[n][c.head] \in Nat /\ version[n][c.head] <= Current(n)
             /\ c.known[n] \in Nat /\ Current(n) \in Nat
             /\ version[n][c.synced] <= c.known[n] /\ c.known[n] <= Current(n)
    BY <1>1, <1>2, <1>3 DEF TypeOK, Monotone, Honest, Current, Copy
<1> DEFINE k == [n \in Note |-> IF version[n][c.head] # version[n][c.synced]
                                THEN version[n][c.head] ELSE c.known[n]]
<1>4. s = [c EXCEPT !.synced = c.head, !.known = k]
    BY DEF Scanned
<1>5. s = [synced |-> c.head, known |-> k, keys |-> c.keys, head |-> c.head,
           stale |-> c.stale]
    <2> HIDE DEF k
    <2> QED
        BY <1>1, <1>4 DEF Copy
<1>6. k \in [Note -> Nat]
    BY <1>3
<1>7. s \in Copy
    <2> HIDE DEF k, c
    <2> QED
        BY <1>1, <1>5, <1>6 DEF Copy
<1>8. Honest(s)
    <2>1. s.synced = c.head /\ s.known = k
        BY <1>5
    <2>2. ASSUME NEW n \in Note
          PROVE  version[n][c.head] <= s.known[n] /\ s.known[n] <= Current(n)
        BY <1>3, <2>1, <2>2
    <2> QED
        BY <1>1, <2>1, <2>2 DEF Honest
<1> QED
    BY <1>7, <1>8

(* A store keeps everything honest if what is stored is.                    *)
LEMMA StoreHonest ==
    ASSUME TypeOK, Monotone, CopiesHonest, NEW w \in Worker, NEW c \in Copy,
           Honest(c), c.head <= height, Store(w, c) \/ StoreAndClose(w, c),
           UNCHANGED <<height, version>>
    PROVE  /\ file' \in [synced : Nat, known : [Note -> Nat], keys : SUBSET Account]
           /\ copy' \in [Worker -> Copy]
           /\ forgotten' \subseteq Account
           /\ \A v \in Worker : copy'[v].head <= height
           /\ \A v \in Worker \ {w} : copy'[v].synced = copy[v].synced
           /\ CopiesHonest'
<1>1. file' = Contents(c)
    BY DEF Store, StoreAndClose
<1>2. /\ file' \in [synced : Nat, known : [Note -> Nat], keys : SUBSET Account]
      /\ file'.synced = c.synced /\ file'.known = c.known
    BY <1>1 DEF Contents, Copy
<1>3. forgotten' \subseteq Account
    BY DEF Store, StoreAndClose, TypeOK
<1>4. ASSUME NEW v \in Worker \ {w}
      PROVE  /\ copy'[v] \in Copy /\ copy'[v].head = copy[v].head
             /\ copy'[v].synced = copy[v].synced /\ copy'[v].known = copy[v].known
    <2>1. copy'[v] = [copy[v] EXCEPT !.stale = ~At(v, "idle")]
        BY <1>4 DEF Store, StoreAndClose
    <2>2. copy[v] \in Copy
        BY <1>4 DEF TypeOK
    <2>3. \/ copy'[v] = [copy[v] EXCEPT !.stale = TRUE]
          \/ copy'[v] = [copy[v] EXCEPT !.stale = FALSE]
        BY <2>1 DEF At
    <2> QED
        BY <2>2, <2>3 DEF Copy
<1>5. copy'[w] = [c EXCEPT !.stale = FALSE] \/ copy'[w] = Closed
    BY DEF Store, StoreAndClose
<1>6. /\ copy'[w] \in Copy /\ copy'[w].head <= height
      /\ (copy'[w].synced = c.synced /\ copy'[w].known = c.known) \/ copy'[w] = Closed
    <2>1. CASE copy'[w] = Closed
        <3>1. 0 <= height
            BY DEF TypeOK
        <3> QED
            BY <2>1, <3>1, ClosedIsCopy DEF Closed
    <2>2. CASE copy'[w] = [c EXCEPT !.stale = FALSE]
        BY <2>2 DEF Copy
    <2> QED
        BY <1>5, <2>1, <2>2
<1>7. copy' \in [Worker -> Copy]
    <2>1. copy' = [v \in Worker |-> copy'[v]]
        BY DEF Store, StoreAndClose
    <2> QED
        BY <1>4, <1>6, <2>1
<1>8. \A v \in Worker : copy'[v].head <= height
    BY <1>4, <1>6 DEF Monotone
<1>9. CopiesHonest'
    <2>1. Honest(file)'
        BY <1>2 DEF Honest, Current
    <2>2. ASSUME NEW v \in Worker \ {w} PROVE Honest(copy[v])'
        BY <1>4, <2>2 DEF Honest, Current, CopiesHonest
    <2>3. Honest(copy[w])'
        <3>1. CASE copy'[w] = Closed
            <4>1. 0 \in 0 .. height /\ height \in 0 .. height /\ 0 <= height
                BY DEF TypeOK
            <4>2. \A n \in Note : version[n][0] = 0 /\ 0 <= Current(n)
                BY <4>1 DEF TypeOK, Monotone, Current
            <4> QED
                BY <3>1, <4>1, <4>2 DEF Honest, Current, Closed
        <3>2. CASE copy'[w].synced = c.synced /\ copy'[w].known = c.known
            BY <3>2 DEF Honest, Current
        <3> QED
            BY <1>6, <3>1, <3>2
    <2> QED
        BY <2>1, <2>2, <2>3 DEF CopiesHonest
<1> QED
    BY <1>2, <1>3, <1>4, <1>7, <1>8, <1>9

(* An opened copy is as honest as the file.                                 *)
LEMMA OpenHonest ==
    ASSUME TypeOK, Monotone, CopiesHonest, NEW w \in Worker, NEW head \in 0 .. height,
           Open(w, head), UNCHANGED <<height, version>>
    PROVE  /\ copy' \in [Worker -> Copy]
           /\ \A v \in Worker : copy'[v].head <= height
           /\ \A v \in Worker \ {w} : copy'[v] = copy[v]
           /\ CopiesHonest'
<1>1. /\ Opened(head) \in Copy /\ Opened(head).head = head
      /\ Opened(head).synced = file.synced /\ Opened(head).known = file.known
    BY OpenedIsCopy DEF Opened, TypeOK
<1>2. copy \in [Worker -> Copy] /\ copy' = [copy EXCEPT ![w] = Opened(head)] /\ file' = file
    BY DEF Open, TypeOK
<1>3. head <= height
    BY DEF TypeOK
<1>4. Honest(file) /\ \A v \in Worker : Honest(copy[v])
    BY DEF CopiesHonest
<1>5. \A v \in Worker : Honest(copy[v])'
    BY <1>1, <1>2, <1>4 DEF Honest, Current
<1>6. Honest(file)'
    BY <1>2, <1>4 DEF Honest, Current
<1> QED
    BY <1>1, <1>2, <1>3, <1>5, <1>6 DEF Monotone, CopiesHonest

(* A step of one worker that does not take it to "included" disturbs no      *)
(* result.                                                                 *)
LEMMA ResultsKept ==
    ASSUME ResultsHonest, UNCHANGED <<height, version>>, NEW w \in Worker,
           ~At(w, "included")',
           \A v \in Worker \ {w} : /\ pc'[v] = pc[v] /\ job'[v] = job[v]
                                   /\ copy'[v].synced = copy[v].synced
    PROVE  ResultsHonest'
BY DEF ResultsHonest, ResultHonest, At, Current

(* Folding an included result leaves a copy honest.                         *)
LEMMA FoldHonest ==
    ASSUME CopiesInv, NEW w \in Worker, At(w, "included")
    PROVE  /\ Folded(w) \in Copy /\ Honest(Folded(w)) /\ Folded(w).head <= height
           /\ Folded(w).keys = copy[w].keys /\ Folded(w).stale = copy[w].stale
<1> DEFINE c == copy[w]
           r == job[w].result
           k == [c.known EXCEPT ![r.note] = r.seen]
<1>1. c \in Copy /\ Honest(c) /\ c.head <= height /\ ResultHonest(w)
    BY DEF CopiesInv, TypeOK, CopiesHonest, Monotone, ResultsHonest
<1>2. Folded(w) = [c EXCEPT !.known = k]
    BY DEF Folded
<1>3. r.note \in Note /\ r.seen \in Nat
    BY <1>1 DEF ResultHonest
<1>4. k \in [Note -> Nat]
    BY <1>1, <1>3 DEF Copy
<1>5. Folded(w) = [synced |-> c.synced, known |-> k, keys |-> c.keys, head |-> c.head,
                   stale |-> c.stale]
    <2> HIDE DEF k, c
    <2> QED
        BY <1>1, <1>2 DEF Copy
<1>6. Folded(w) \in Copy
    <2> HIDE DEF k, c
    <2> QED
        BY <1>1, <1>4, <1>5 DEF Copy
<1>7. ASSUME NEW n \in Note
      PROVE  version[n][c.synced] <= k[n] /\ k[n] <= Current(n)
    <2>1. CASE n = r.note
        BY <1>1, <1>3, <2>1 DEF ResultHonest, Copy
    <2>2. CASE n # r.note
        BY <1>1, <1>3, <2>2 DEF Honest, Copy
    <2> QED
        BY <2>1, <2>2
<1>8. Honest(Folded(w))
    BY <1>1, <1>5, <1>7 DEF Honest
<1> QED
    BY <1>1, <1>5, <1>6, <1>8

(* A block extends the versions: what was honest stays so.                   *)
LEMMA BlockHonest ==
    ASSUME CopiesInv, NEW t \in txs, Include(t)
    PROVE  /\ height' \in Nat /\ height' = height + 1
           /\ version' \in [Note -> [0 .. height' -> Nat]]
           /\ Monotone'
           /\ CopiesHonest'
           /\ \A n \in Note : Current(n)' >= Current(n)
           /\ Current(t.note)' = Current(t.note) + 1
           /\ \A n \in Note, h \in 0 .. height : version'[n][h] = version[n][h]
<1>1. height \in Nat /\ height' = height + 1 /\ t.note \in Note
    BY DEF CopiesInv, TypeOK, Include, Tx
<1>2. ASSUME NEW n \in Note
      PROVE  /\ version'[n] \in [0 .. height' -> Nat]
             /\ \A h \in 0 .. height : version'[n][h] = version[n][h]
             /\ version'[n][height'] = IF n = t.note THEN Current(n) + 1 ELSE Current(n)
             /\ Current(n) \in Nat
    <2>1. version'[n] = [h \in 0 .. height + 1 |->
                            IF h <= height THEN version[n][h]
                            ELSE IF n = t.note THEN Current(n) + 1 ELSE Current(n)]
        BY <1>2 DEF Include
    <2>2. version[n] \in [0 .. height -> Nat] /\ Current(n) \in Nat
        BY <1>1, <1>2 DEF CopiesInv, TypeOK, Current
    <2> QED
        BY <1>1, <2>1, <2>2
<1>3. version' \in [Note -> [0 .. height' -> Nat]]
    <2>1. version' = [n \in Note |-> version'[n]]
        BY DEF Include
    <2> QED
        BY <1>2, <2>1
<1>4. \A n \in Note : Current(n)' >= Current(n)
    BY <1>2 DEF Current
<1>5. Monotone'
    <2>1. ASSUME NEW n \in Note, NEW g \in 0 .. height', NEW h \in 0 .. height', g <= h
          PROVE  version'[n][g] <= version'[n][h]
        <3>1. CASE h <= height
            BY SMTT(30), <1>1, <1>2, <2>1, <3>1 DEF CopiesInv, Monotone
        <3>2. CASE h = height' /\ g <= height
            <4>1. version[n][g] <= Current(n) /\ version[n][g] \in Nat
                BY <1>1, <2>1, <3>2 DEF CopiesInv, Monotone, TypeOK, Current
            <4>2. version'[n][g] = version[n][g]
                BY <1>1, <1>2, <2>1, <3>2
            <4>3. version'[n][h] \in Nat /\ version'[n][h] >= Current(n) /\ Current(n) \in Nat
                BY <1>2, <2>1, <3>2
            <4> QED
                BY <4>1, <4>2, <4>3
        <3>3. CASE h = height' /\ g = height'
            BY <1>2, <3>3
        <3>4. h <= height \/ (h = height' /\ (g <= height \/ g = height'))
            BY <1>1, <2>1
        <3> QED
            BY <3>1, <3>2, <3>3, <3>4
    <2>2. ASSUME NEW n \in Note PROVE version'[n][0] = 0
        <3>1. 0 \in 0 .. height
            BY <1>1
        <3>2. version'[n][0] = version[n][0]
            BY <1>2, <3>1
        <3>3. version[n][0] = 0
            BY DEF CopiesInv, Monotone
        <3> QED
            BY <3>2, <3>3
    <2>3. \A w \in Worker : copy'[w].head <= height'
        BY <1>1 DEF CopiesInv, Monotone, TypeOK, Copy, Include, fileVars
    <2> QED
        BY <2>1, <2>2, <2>3 DEF Monotone
<1>6. ASSUME NEW c, c.synced \in Nat, c.known \in [Note -> Nat], Honest(c)
      PROVE  /\ c.synced <= height'
             /\ \A n \in Note : /\ version'[n][c.synced] <= c.known[n]
                                /\ c.known[n] <= Current(n)'
    <2>1. c.synced \in 0 .. height /\ c.synced <= height'
        BY <1>1, <1>6 DEF Honest
    <2>2. ASSUME NEW n \in Note
          PROVE  version'[n][c.synced] <= c.known[n] /\ c.known[n] <= Current(n)'
        <3>1. version[n][c.synced] <= c.known[n] /\ c.known[n] <= Current(n)
            BY <1>6 DEF Honest
        <3>2. c.known[n] \in Nat /\ Current(n) \in Nat /\ Current(n)' >= Current(n)
              /\ Current(n)' \in Nat
            BY <1>1, <1>2, <1>4, <1>6 DEF Current
        <3> QED
            BY <1>2, <2>1, <3>1, <3>2
    <2> QED
        BY <2>1, <2>2
<1>7. CopiesHonest'
    <2>1. file' = file /\ copy' = copy
        BY DEF Include, fileVars
    <2>2. Honest(file)'
        BY <1>6, <2>1 DEF CopiesInv, TypeOK, CopiesHonest, Honest
    <2>3. ASSUME NEW w \in Worker PROVE Honest(copy[w])'
        <3>1. copy[w] \in Copy /\ Honest(copy[w])
            BY DEF CopiesInv, TypeOK, CopiesHonest
        <3> QED
            BY <1>6, <2>1, <3>1 DEF Copy, Honest
    <2> QED
        BY <2>2, <2>3 DEF CopiesHonest
<1>8. Current(t.note)' = Current(t.note) + 1
    BY <1>1, <1>2 DEF Current, CopiesInv, TypeOK, Tx, Include
<1> QED
    BY <1>1, <1>2, <1>3, <1>4, <1>5, <1>7, <1>8

(* Every step keeps every copy honest.                                     *)
LEMMA CopiesStep ==
    ASSUME CopiesInv, [Next]_vars
    PROVE  CopiesInv'
<1>0. TypeOK /\ Monotone /\ ResultsHonest /\ CopiesHonest
    BY DEF CopiesInv
<1>1. ASSUME NEW w \in Worker, SyncOpen(w) PROVE CopiesInv'
    <2>1. Open(w, height) /\ UNCHANGED <<chainVars, txs, job>> /\ height \in 0 .. height
        BY <1>0, <1>1 DEF SyncOpen, TypeOK
    <2>2. pc' = [pc EXCEPT ![w] = "syncing"] /\ pc \in [Worker -> Stage]
        BY <1>0, <1>1 DEF SyncOpen, Goto, TypeOK
    <2>3. Monotone' /\ CopiesHonest' /\ copy' \in [Worker -> Copy]
          /\ \A v \in Worker \ {w} : copy'[v] = copy[v]
        BY <1>0, <2>1, OpenHonest DEF chainVars, Monotone
    <2>4. TypeOK'
        BY <1>0, <2>1, <2>2, <2>3 DEF TypeOK, chainVars, Open, Stage
    <2>5. ResultsHonest'
        BY <1>0, <2>1, <2>2, <2>3, ResultsKept DEF chainVars, At
    <2> QED
        BY <2>3, <2>4, <2>5 DEF CopiesInv
<1>2. ASSUME NEW w \in Worker, SyncStore(w) PROVE CopiesInv'
    <2>1. /\ StoreAndClose(w, Scanned(copy[w])) /\ UNCHANGED <<chainVars, txs, job>>
          /\ pc' = [pc EXCEPT ![w] = "idle"] /\ pc \in [Worker -> Stage]
        BY <1>0, <1>2 DEF SyncStore, Goto, TypeOK
    <2>2. Scanned(copy[w]) \in Copy /\ Honest(Scanned(copy[w]))
        BY <1>0, ScanHonest DEF CopiesHonest
    <2>3. Scanned(copy[w]).head <= height
        <3>1. copy[w] \in Copy /\ copy[w].head <= height
            BY <1>0 DEF TypeOK, Monotone
        <3> QED
            BY <3>1 DEF Scanned, Copy
    <2> QED
        <3>1. /\ file' \in [synced : Nat, known : [Note -> Nat], keys : SUBSET Account]
              /\ copy' \in [Worker -> Copy] /\ forgotten' \subseteq Account
              /\ \A v \in Worker : copy'[v].head <= height
              /\ \A v \in Worker \ {w} : copy'[v].synced = copy[v].synced
              /\ CopiesHonest'
            BY <1>0, <2>1, <2>2, <2>3, StoreHonest DEF chainVars
        <3>2. TypeOK'
            BY <1>0, <2>1, <3>1 DEF TypeOK, chainVars, Stage
        <3>3. Monotone'
            BY <1>0, <2>1, <3>1 DEF Monotone, chainVars
        <3>4. ResultsHonest'
            BY <1>0, <2>1, <3>1, ResultsKept DEF chainVars, At
        <3> QED
            BY <3>1, <3>2, <3>3, <3>4 DEF CopiesInv
<1>3. ASSUME NEW w \in Worker, StartCall(w) PROVE CopiesInv'
    <2>1. Open(w, 0) /\ UNCHANGED <<chainVars, txs>> /\ 0 \in 0 .. height
        BY <1>0, <1>3 DEF StartCall, TypeOK
    <2>2. pc' = [pc EXCEPT ![w] = "opened"] /\ pc \in [Worker -> Stage]
        BY <1>0, <1>3 DEF StartCall, Begin, Goto, TypeOK
    <2>3. job' \in [Worker -> Job] /\ \A v \in Worker \ {w} : job'[v] = job[v]
        <3>1. PICK a \in funded \cup {NoAccount} :
                  job' = [job EXCEPT ![w] = [dir |-> "out", account |-> a, saga |-> FALSE,
                                             result |-> NoResult]]
            BY <1>3 DEF StartCall
        <3> QED
            BY <1>0, <3>1 DEF TypeOK, Job
    <2>4. Monotone' /\ CopiesHonest' /\ copy' \in [Worker -> Copy]
          /\ \A v \in Worker \ {w} : copy'[v] = copy[v]
        BY <1>0, <2>1, OpenHonest DEF chainVars, Monotone
    <2>5. TypeOK'
        BY <1>0, <2>1, <2>2, <2>3, <2>4 DEF TypeOK, chainVars, Open, Stage
    <2>6. ResultsHonest'
        BY <1>0, <2>1, <2>2, <2>3, <2>4, ResultsKept DEF chainVars, At
    <2> QED
        BY <2>4, <2>5, <2>6 DEF CopiesInv
<1>4. ASSUME NEW w \in Worker, StartSwap(w) \/ CallOpen(w) PROVE CopiesInv'
    <2>1. Open(w, 0) /\ UNCHANGED <<chainVars, txs, job>> /\ 0 \in 0 .. height
        BY <1>0, <1>4 DEF StartSwap, CallOpen, TypeOK
    <2>2. /\ pc' = [pc EXCEPT ![w] = "creating"] \/ pc' = [pc EXCEPT ![w] = "opened"]
          /\ pc \in [Worker -> Stage]
        BY <1>0, <1>4 DEF StartSwap, CallOpen, Begin, Goto, TypeOK
    <2>3. Monotone' /\ CopiesHonest' /\ copy' \in [Worker -> Copy]
          /\ \A v \in Worker \ {w} : copy'[v] = copy[v]
        BY <1>0, <2>1, OpenHonest DEF chainVars, Monotone
    <2>4. TypeOK'
        BY <1>0, <2>1, <2>2, <2>3 DEF TypeOK, chainVars, Open, Stage
    <2>5. ResultsHonest'
        BY <1>0, <2>1, <2>2, <2>3, ResultsKept DEF chainVars, At
    <2> QED
        BY <2>3, <2>4, <2>5 DEF CopiesInv
<1>5. ASSUME NEW w \in Worker, CreateSave(w) PROVE CopiesInv'
    <2> PICK a \in Account \ copy[w].keys :
            /\ StoreAndClose(w, [copy[w] EXCEPT !.keys = @ \cup {a}])
            /\ job' = [job EXCEPT ![w] = Saga(a)]
        BY <1>5 DEF CreateSave
    <2> DEFINE c == [copy[w] EXCEPT !.keys = @ \cup {a}]
    <2>1. /\ UNCHANGED <<chainVars, txs>>
          /\ pc' = [pc EXCEPT ![w] = "created"] /\ pc \in [Worker -> Stage]
        BY <1>0, <1>5 DEF CreateSave, Goto, TypeOK
    <2>2. c \in Copy /\ Honest(c) /\ c.head <= height
        <3>1. copy[w] \in Copy /\ copy[w].head <= height /\ Honest(copy[w])
            BY <1>0 DEF TypeOK, Monotone, CopiesHonest
        <3> QED
            BY <3>1 DEF Copy, Honest
    <2>3. /\ file' \in [synced : Nat, known : [Note -> Nat], keys : SUBSET Account]
          /\ copy' \in [Worker -> Copy] /\ forgotten' \subseteq Account
          /\ \A v \in Worker : copy'[v].head <= height
          /\ \A v \in Worker \ {w} : copy'[v].synced = copy[v].synced
          /\ CopiesHonest'
        <3> HIDE DEF c
        <3>1. StoreAndClose(w, c)
            BY DEF c
        <3> QED
            BY <1>0, <2>1, <2>2, <3>1, StoreHonest DEF chainVars
    <2>4. job' \in [Worker -> Job] /\ \A v \in Worker \ {w} : job'[v] = job[v]
        BY <1>0 DEF TypeOK, Job, Saga
    <2>5. TypeOK'
        BY <1>0, <2>1, <2>3, <2>4 DEF TypeOK, chainVars, Stage
    <2>6. Monotone'
        BY <1>0, <2>1, <2>3 DEF Monotone, chainVars
    <2>7. ResultsHonest'
        BY <1>0, <2>1, <2>3, <2>4, ResultsKept DEF chainVars, At
    <2> QED
        BY <2>3, <2>5, <2>6, <2>7 DEF CopiesInv
<1>6. ASSUME NEW w \in Worker, InitHolding(w) PROVE CopiesInv'
    <2>1. UNCHANGED <<height, version, funded, txs, fileVars, job>>
        BY <1>6 DEF InitHolding
    <2>2. initialised' \subseteq Account
        BY <1>0, <1>6 DEF InitHolding, TypeOK
    <2>3. pc' = [pc EXCEPT ![w] = "prepared"] /\ pc \in [Worker -> Stage]
        BY <1>0, <1>6 DEF InitHolding, Goto, TypeOK
    <2>4. TypeOK' /\ Monotone' /\ CopiesHonest'
        BY <1>0, <2>1, <2>2, <2>3
           DEF TypeOK, Monotone, CopiesHonest, Honest, Current, fileVars, Stage
    <2>5. ResultsHonest'
        BY <1>0, <2>1, <2>3, ResultsKept DEF fileVars, At
    <2> QED
        BY <2>4, <2>5 DEF CopiesInv
<1>7. ASSUME NEW w \in Worker, Send(w) PROVE CopiesInv'
    <2>1. UNCHANGED <<chainVars, fileVars, job>>
        BY <1>7 DEF Send
    <2>2. pc' = [pc EXCEPT ![w] = "sent"] /\ pc \in [Worker -> Stage]
        BY <1>0, <1>7 DEF Send, Goto, TypeOK
    <2>3. txs' \subseteq Tx
        <3>1. PICK n \in Note :
                  txs' = txs \cup {[by |-> w, note |-> n, base |-> copy[w].known[n],
                                    dir |-> job[w].dir, account |-> job[w].account,
                                    signed |-> job[w].account \in copy[w].keys]}
            BY <1>7 DEF Send
        <3>2. job[w] \in Job /\ copy[w] \in Copy
            BY <1>0 DEF TypeOK
        <3>3. copy[w].known[n] \in Nat /\ job[w].dir \in {"in", "out", "none"}
              /\ job[w].account \in Account \cup {NoAccount}
            BY <3>2 DEF Copy, Job
        <3>4. PICK b \in BOOLEAN :
                  txs' = txs \cup {[by |-> w, note |-> n, base |-> copy[w].known[n],
                                    dir |-> job[w].dir, account |-> job[w].account,
                                    signed |-> b]}
            <4>1. CASE job[w].account \in copy[w].keys
                BY <3>1, <4>1
            <4>2. CASE ~(job[w].account \in copy[w].keys)
                <5>1. (job[w].account \in copy[w].keys) = FALSE
                    BY <4>2
                <5> QED
                    BY <3>1, <5>1
            <4> QED
                BY <4>1, <4>2
        <3> QED
            BY <1>0, <3>3, <3>4 DEF TypeOK, Tx
    <2>4. TypeOK' /\ Monotone' /\ CopiesHonest'
        BY <1>0, <2>1, <2>2, <2>3
           DEF TypeOK, Monotone, CopiesHonest, Honest, Current, chainVars, fileVars, Stage
    <2>5. ResultsHonest'
        BY <1>0, <2>1, <2>2, ResultsKept DEF chainVars, fileVars, At
    <2> QED
        BY <2>4, <2>5 DEF CopiesInv
<1>8. ASSUME NEW w \in Worker, FoldStore(w) PROVE CopiesInv'
    <2>1. At(w, "included") /\ UNCHANGED <<chainVars, txs>>
        BY <1>8 DEF FoldStore
    <2>2. Folded(w) \in Copy /\ Honest(Folded(w)) /\ Folded(w).head <= height
        BY <2>1, FoldHonest
    <2>3. Store(w, Folded(w)) \/ StoreAndClose(w, Folded(w))
        BY <1>8 DEF FoldStore
    <2>4. /\ pc' = [pc EXCEPT ![w] = "opened"] \/ pc' = [pc EXCEPT ![w] = "idle"]
          /\ pc \in [Worker -> Stage]
        BY <1>0, <1>8 DEF FoldStore, Goto, TypeOK
    <2>5. job' \in [Worker -> Job] /\ \A v \in Worker \ {w} : job'[v] = job[v]
        <3>1. \/ job' = [job EXCEPT ![w].dir = "out", ![w].result = NoResult]
              \/ job' = [job EXCEPT ![w] = NoJob]
            BY <1>8 DEF FoldStore
        <3>2. job \in [Worker -> Job]
            BY <1>0 DEF TypeOK
        <3> QED
            BY <3>1, <3>2, ClosedIsCopy DEF Job
    <2>6. /\ file' \in [synced : Nat, known : [Note -> Nat], keys : SUBSET Account]
          /\ copy' \in [Worker -> Copy] /\ forgotten' \subseteq Account
          /\ \A v \in Worker : copy'[v].head <= height
          /\ \A v \in Worker \ {w} : copy'[v].synced = copy[v].synced
          /\ CopiesHonest'
        BY <1>0, <2>1, <2>2, <2>3, StoreHonest DEF chainVars
    <2>7. TypeOK'
        BY <1>0, <2>1, <2>4, <2>5, <2>6 DEF TypeOK, chainVars, Stage
    <2>8. Monotone'
        BY <1>0, <2>1, <2>6 DEF Monotone, chainVars
    <2>9. ResultsHonest'
        BY <1>0, <2>1, <2>4, <2>5, <2>6, ResultsKept DEF chainVars, At
    <2> QED
        BY <2>6, <2>7, <2>8, <2>9 DEF CopiesInv
<1>9. ASSUME NEW w \in Worker, End(w) PROVE CopiesInv'
    <2>1. /\ UNCHANGED <<chainVars, file, forgotten>>
          /\ copy' = [copy EXCEPT ![w] = Closed] /\ job' = [job EXCEPT ![w] = NoJob]
        BY <1>9 DEF End
    <2>2. pc' = [pc EXCEPT ![w] = "idle"] /\ pc \in [Worker -> Stage]
        BY <1>0, <1>9 DEF End, Goto, TypeOK
    <2>3. txs' \subseteq Tx
        <3>1. txs' = {IF t.by = w THEN [t EXCEPT !.by = Nobody] ELSE t : t \in txs}
            BY <1>9 DEF End
        <3>2. \A t \in txs : t \in Tx /\ [t EXCEPT !.by = Nobody] \in Tx
            BY <1>0 DEF TypeOK, Tx
        <3> QED
            BY <3>1, <3>2
    <2>4. TypeOK'
        BY <1>0, <2>1, <2>2, <2>3, ClosedIsCopy DEF TypeOK, chainVars, Stage
    <2>5. height \in Nat /\ copy \in [Worker -> Copy]
        BY <1>0 DEF TypeOK
    <2>6. Monotone'
        BY <1>0, <2>1, <2>5 DEF Monotone, chainVars, Closed
    <2>7. Honest(Closed)
        BY <1>0, <2>5 DEF TypeOK, Monotone, Honest, Closed, Current
    <2>8. CopiesHonest'
        <3>1. Honest(file)' /\ \A v \in Worker \ {w} : Honest(copy[v])'
            BY <1>0, <2>1, <2>5 DEF CopiesHonest, Honest, Current, chainVars
        <3>2. Honest(copy[w])'
            BY <2>1, <2>5, <2>7 DEF Honest, Current, chainVars
        <3> QED
            BY <3>1, <3>2 DEF CopiesHonest
    <2>9. ResultsHonest'
        BY <1>0, <2>1, <2>2, <2>5, ResultsKept DEF chainVars, At, TypeOK
    <2> QED
        BY <2>4, <2>6, <2>8, <2>9 DEF CopiesInv
<1>10. ASSUME NEW t \in txs, Include(t) PROVE CopiesInv'
    <2>1. /\ height' \in Nat /\ height' = height + 1
          /\ version' \in [Note -> [0 .. height' -> Nat]]
          /\ Monotone' /\ CopiesHonest'
          /\ \A n \in Note : Current(n)' >= Current(n)
          /\ Current(t.note)' = Current(t.note) + 1
          /\ \A n \in Note, h \in 0 .. height : version'[n][h] = version[n][h]
        BY <1>10, BlockHonest
    <2>2. t \in Tx /\ UNCHANGED fileVars
        BY <1>0, <1>10 DEF TypeOK, Include
    <2>3. initialised' \subseteq Account /\ funded' \subseteq Account /\ txs' \subseteq Tx
        BY <1>0, <1>10, <2>2 DEF Include, TypeOK, Tx
    <2> DEFINE r == [note |-> t.note, seen |-> Current(t.note) + 1]
    <2>4. /\ pc' = IF t.by = Nobody THEN pc ELSE [pc EXCEPT ![t.by] = "included"]
          /\ job' = IF t.by = Nobody THEN job ELSE [job EXCEPT ![t.by].result = r]
        BY <1>10 DEF Include, Goto
    <2>5. r \in [note : Note, seen : Nat]
        BY <1>0, <2>2 DEF Tx, TypeOK, Current
    <2>6. pc' \in [Worker -> Stage] /\ job' \in [Worker -> Job]
        <3>1. pc \in [Worker -> Stage] /\ job \in [Worker -> Job] /\ t.by \in Worker \cup {Nobody}
            BY <1>0, <2>2 DEF TypeOK, Tx
        <3> HIDE DEF r
        <3> QED
            BY <2>4, <2>5, <3>1 DEF Stage, Job
    <2>7. TypeOK'
        BY <1>0, <2>1, <2>2, <2>3, <2>6 DEF TypeOK, fileVars
    <2>8. ASSUME NEW w \in Worker, At(w, "included")' PROVE ResultHonest(w)'
        <3>1. copy[w] \in Copy /\ copy[w].synced <= height /\ Honest(copy[w])
            BY <1>0 DEF TypeOK, CopiesHonest, Honest
        <3>2. copy[w].synced \in 0 .. height /\ copy' = copy
            BY <1>0, <2>2, <3>1 DEF Copy, fileVars, TypeOK
        <3>3. CASE t.by = w
            <4>1. job'[w].result = r
                BY <1>0, <2>4, <3>3, WalletFileAssumption DEF TypeOK, Job
            <4>2. version[t.note][copy[w].synced] <= Current(t.note)
                  /\ version[t.note][copy[w].synced] \in Nat /\ Current(t.note) \in Nat
                BY <1>0, <2>2, <3>2 DEF Monotone, TypeOK, Current, Tx
            <4> QED
                BY SMTT(30), <2>1, <2>2, <2>5, <3>2, <4>1, <4>2 DEF ResultHonest, Tx
        <3>4. CASE t.by # w
            <4>1. job'[w].result = job[w].result /\ At(w, "included")
                BY <1>0, <2>4, <2>8, <3>4 DEF TypeOK, Job, At
            <4>2. ResultHonest(w)
                BY <1>0, <4>1 DEF ResultsHonest
            <4>3. job[w].result.note \in Note /\ job[w].result.seen \in Nat
                BY <4>2 DEF ResultHonest
            <4>4. ASSUME NEW n \in Note
                  PROVE  /\ version[n][height] \in Nat /\ version'[n][height'] \in Nat
                         /\ version[n][height] <= version'[n][height']
                BY SMTT(30), <1>0, <2>1 DEF TypeOK, Current
            <4> QED
                BY SMTT(30), <2>1, <3>2, <4>1, <4>2, <4>3, <4>4 DEF ResultHonest, Current
        <3> QED
            BY <3>3, <3>4
    <2> QED
        BY <2>1, <2>7, <2>8 DEF CopiesInv, ResultsHonest
<1>11. CASE UNCHANGED vars
    BY <1>0, <1>11 DEF vars, chainVars, fileVars, CopiesInv, TypeOK, Monotone, ResultsHonest,
                       ResultHonest, CopiesHonest, Honest, Current, At
<1> QED
    BY <1>1, <1>2, <1>3, <1>4, <1>5, <1>6, <1>7, <1>8, <1>9, <1>10, <1>11 DEF Next

(* Copies are honest and typed.                                            *)
LEMMA CopiesInvariant == Spec => []CopiesInv
<1>1. Init => CopiesInv
    <2> SUFFICES ASSUME Init PROVE CopiesInv
        OBVIOUS
    <2>1. Closed \in Copy /\ NoJob \in Job
        BY ClosedIsCopy
    <2>2. file = [synced |-> 0, known |-> [n \in Note |-> 0], keys |-> {}]
        BY DEF Init, Contents, Closed
    <2>3. version = [n \in Note |-> [h \in 0 .. 0 |-> 0]] /\ height = 0
        BY DEF Init
    <2>4. TypeOK
        BY <2>1, <2>2, <2>3 DEF Init, TypeOK, Stage
    <2>5. \A n \in Note : version[n][0] = 0
        <3>1. 0 \in 0 .. 0
            OBVIOUS
        <3> QED
            BY <2>3, <3>1
    <2>6. Monotone /\ ResultsHonest
        BY <2>3, <2>5 DEF Init, Monotone, ResultsHonest, At, Closed
    <2>7. CopiesHonest
        <3>1. \A n \in Note : Closed.known[n] = 0 /\ file.known[n] = 0
            BY <2>2 DEF Closed
        <3>2. file.synced = 0 /\ Closed.synced = 0
            BY <2>2 DEF Closed
        <3>4. \A w \in Worker : copy[w] = Closed
            BY DEF Init
        <3>3. 0 <= 0
            OBVIOUS
        <3> QED
            BY <2>3, <2>5, <3>1, <3>2, <3>3, <3>4 DEF CopiesHonest, Honest, Current
    <2> QED
        BY <2>4, <2>6, <2>7 DEF CopiesInv
<1>2. CopiesInv /\ [Next]_vars => CopiesInv'
    BY CopiesStep
<1> QED
    BY <1>1, <1>2, PTL DEF Spec

(* Every copy of the file, and the file, keep at least what their own last   *)
(* sync found: an overwritten fold is found again by the next sync.          *)
THEOREM CopiesStayHonest == Spec => []CopiesHonest
<1>1. CopiesInv => CopiesHonest
    BY DEF CopiesInv
<1> QED
    BY <1>1, CopiesInvariant, PTL

-----------------------------------------------------------------------------
(* Where a worker holds a copy that it may store.                          *)
Holding == {"syncing", "creating", "opened", "sent", "included"}

Ever == file.keys \cup forgotten

(* Only a key that the file has or had can sign, and only what such a key    *)
(* signed can fund an account.  A copy lacks a key of the file only when it  *)
(* is stale.                                                               *)
KeysInv ==
    /\ funded \subseteq Ever
    /\ initialised \subseteq Ever
    /\ \A t \in txs : t.signed => t.account \in Ever
    /\ \A w \in Worker : copy[w].keys \subseteq Ever
    /\ \A w \in Worker :
          pc[w] \in Holding /\ ~copy[w].stale => file.keys \subseteq copy[w].keys

(* A worker waits for the one transaction it has under way.                 *)
Awaited ==
    \A t \in txs : t.by \in Worker =>
        At(t.by, "sent") /\ \A u \in txs : u.by = t.by => u = t

(* Every step keeps what is waited for.                                    *)
LEMMA AwaitedStep ==
    ASSUME TypeOK, Awaited, [Next]_vars
    PROVE  Awaited'
<1>0. pc \in [Worker -> Stage] /\ Nobody \notin Worker
    BY WalletFileAssumption DEF TypeOK
<1>1. ASSUME NEW w \in Worker, ~At(w, "sent"), txs' = txs, NEW stage,
             pc' = [pc EXCEPT ![w] = stage]
      PROVE  Awaited'
    BY <1>0, <1>1 DEF Awaited, At
<1>2. ASSUME NEW w \in Worker, \/ SyncOpen(w) \/ SyncStore(w) \/ StartCall(w)
                               \/ StartSwap(w) \/ CreateSave(w) \/ InitHolding(w)
                               \/ CallOpen(w) \/ FoldStore(w)
      PROVE  Awaited'
    <2>1. txs' = txs /\ ~At(w, "sent")
        BY <1>2 DEF SyncOpen, SyncStore, StartCall, StartSwap, CreateSave, InitHolding,
                    CallOpen, FoldStore, Begin, At
    <2>2. \E stage \in Stage : pc' = [pc EXCEPT ![w] = stage]
        BY <1>2 DEF SyncOpen, SyncStore, StartCall, StartSwap, CreateSave, InitHolding,
                    CallOpen, FoldStore, Begin, Goto, Stage
    <2> QED
        BY <1>1, <2>1, <2>2
<1>3. ASSUME NEW w \in Worker, Send(w) PROVE Awaited'
    <2> DEFINE t(n) == [by |-> w, note |-> n, base |-> copy[w].known[n],
                        dir |-> job[w].dir, account |-> job[w].account,
                        signed |-> job[w].account \in copy[w].keys]
    <2>1. \E n \in Note : txs' = txs \cup {t(n)}
        BY <1>3 DEF Send
    <2>4. \A n \in Note : t(n).by = w
        OBVIOUS
    <2> HIDE DEF t
    <2>2. At(w, "opened") /\ pc' = [pc EXCEPT ![w] = "sent"]
        BY <1>3 DEF Send, Goto
    <2>3. \A u \in txs : u.by # w
        BY <2>2 DEF Awaited, At
    <2> QED
        BY <1>0, <2>1, <2>2, <2>3, <2>4 DEF Awaited, At
<1>4. ASSUME NEW w \in Worker, End(w) PROVE Awaited'
    <2>1. /\ txs' = {IF t.by = w THEN [t EXCEPT !.by = Nobody] ELSE t : t \in txs}
          /\ pc' = [pc EXCEPT ![w] = "idle"]
        BY <1>4 DEF End, Goto
    <2>2. ASSUME NEW t \in txs', t.by \in Worker
          PROVE  t \in txs /\ t.by # w
        <3>1. PICK u \in txs : t = IF u.by = w THEN [u EXCEPT !.by = Nobody] ELSE u
            BY <2>1
        <3>2. u \in Tx
            BY DEF TypeOK
        <3>3. [u EXCEPT !.by = Nobody].by = Nobody
            BY <3>2 DEF Tx
        <3> QED
            BY <1>0, <2>2, <3>1, <3>3
    <2> QED
        BY <1>0, <2>1, <2>2 DEF Awaited, At
<1>5. ASSUME NEW t \in txs, Include(t) PROVE Awaited'
    <2>1. /\ txs' = txs \ {t}
          /\ pc' = IF t.by = Nobody THEN pc ELSE [pc EXCEPT ![t.by] = "included"]
          /\ t.by \in Worker \cup {Nobody}
        BY <1>5 DEF Include, Goto, TypeOK, Tx
    <2>2. \A u \in txs' : u \in txs /\ (u.by \in Worker => u.by # t.by)
        BY <2>1 DEF Awaited
    <2> QED
        BY <1>0, <2>1, <2>2 DEF Awaited, At
<1>6. CASE UNCHANGED vars
    BY <1>6 DEF vars, Awaited, At
<1> QED
    BY <1>2, <1>3, <1>4, <1>5, <1>6 DEF Next

(* A store loses no key without its being noted.                            *)
LEMMA StoreKeys ==
    ASSUME TypeOK, KeysInv, NEW w \in Worker, NEW c \in Copy,
           ~c.stale => file.keys \subseteq c.keys,
           Store(w, c) \/ StoreAndClose(w, c)
    PROVE  /\ Ever \subseteq Ever' /\ file'.keys = c.keys
           /\ \A v \in Worker \ {w} : /\ copy'[v].keys = copy[v].keys
                                      /\ ~At(v, "idle") => copy'[v].stale
           /\ copy'[w].keys \subseteq c.keys
           /\ Store(w, c) => copy'[w].keys = c.keys
<1>1. file' = Contents(c)
    BY DEF Store, StoreAndClose
<1>2. file'.keys = c.keys
    BY <1>1 DEF Contents
<1>3. forgotten' = (IF c.stale THEN forgotten \cup (file.keys \ c.keys) ELSE forgotten) \ c.keys
    BY DEF Store, StoreAndClose
<1>4. Ever \subseteq Ever'
    BY <1>2, <1>3 DEF Ever
<1>5. ASSUME NEW v \in Worker \ {w}
      PROVE  copy'[v].keys = copy[v].keys /\ (~At(v, "idle") => copy'[v].stale)
    <2>1. copy'[v] = [copy[v] EXCEPT !.stale = ~At(v, "idle")] /\ copy[v] \in Copy
        BY <1>5 DEF Store, StoreAndClose, TypeOK
    <2>2. copy'[v].keys = copy[v].keys
        BY <2>1 DEF Copy
    <2>3. ASSUME ~At(v, "idle") PROVE copy'[v].stale
        <3>1. (~At(v, "idle")) = TRUE
            BY <2>3
        <3>2. copy'[v] = [copy[v] EXCEPT !.stale = TRUE]
            BY <2>1, <3>1
        <3> QED
            BY <2>1, <3>2 DEF Copy
    <2> QED
        BY <2>2, <2>3
<1>6. Store(w, c) => copy'[w] = [c EXCEPT !.stale = FALSE]
    BY DEF Store
<1>7. StoreAndClose(w, c) => copy'[w] = Closed
    BY DEF StoreAndClose
<1>8. Closed.keys = {}
    BY DEF Closed
<1>9. [c EXCEPT !.stale = FALSE].keys = c.keys
    BY DEF Copy
<1> QED
    BY <1>2, <1>4, <1>5, <1>6, <1>7, <1>8, <1>9

(* Every step keeps the keys reachable.                                    *)
LEMMA KeysStep ==
    ASSUME CopiesInv, Awaited, KeysInv, [Next]_vars
    PROVE  KeysInv'
<1>0. TypeOK /\ KeysInv
    BY DEF CopiesInv
<1>1. ASSUME NEW w \in Worker, NEW head, NEW stage \in Stage, Open(w, head),
             pc' = [pc EXCEPT ![w] = stage], UNCHANGED <<chainVars, txs>>
      PROVE  KeysInv'
    <2>1. copy' = [copy EXCEPT ![w] = Opened(head)] /\ UNCHANGED <<file, forgotten>>
        BY <1>1 DEF Open
    <2>2. Opened(head).keys = file.keys
        BY DEF Opened
    <2>3. Ever' = Ever /\ file.keys \subseteq Ever
        BY <2>1 DEF Ever
    <2> QED
        BY <1>0, <1>1, <2>1, <2>2, <2>3 DEF KeysInv, TypeOK, chainVars
<1>2. ASSUME NEW w \in Worker, NEW c \in Copy, NEW stage \in Stage,
             ~c.stale => file.keys \subseteq c.keys,
             \/ Store(w, c)
             \/ StoreAndClose(w, c) /\ stage \notin Holding,
             pc' = [pc EXCEPT ![w] = stage], UNCHANGED <<chainVars, txs>>
      PROVE  KeysInv'
    <2>1. /\ Ever \subseteq Ever' /\ file'.keys = c.keys
          /\ \A v \in Worker \ {w} : /\ copy'[v].keys = copy[v].keys
                                     /\ ~At(v, "idle") => copy'[v].stale
          /\ copy'[w].keys \subseteq c.keys
          /\ Store(w, c) => copy'[w].keys = c.keys
        BY <1>0, <1>2, StoreKeys
    <2>2. c.keys \subseteq Ever'
        BY <2>1 DEF Ever
    <2>3. pc \in [Worker -> Stage]
        BY <1>0 DEF TypeOK
    <2>4. ASSUME NEW v \in Worker PROVE copy'[v].keys \subseteq Ever'
        <3>1. CASE v = w
            BY <2>1, <2>2, <3>1
        <3>2. CASE v # w
            BY <1>0, <2>1, <3>2 DEF KeysInv
        <3> QED
            BY <3>1, <3>2
    <2>5. ASSUME NEW v \in Worker, pc'[v] \in Holding, ~copy'[v].stale
          PROVE  file'.keys \subseteq copy'[v].keys
        <3>1. CASE v = w
            BY <1>2, <2>1, <2>3, <2>5, <3>1
        <3>2. CASE v # w
            BY <1>2, <2>1, <2>3, <2>5, <3>2 DEF At, Holding
        <3> QED
            BY <3>1, <3>2
    <2> QED
        BY <1>0, <1>2, <2>1, <2>4, <2>5 DEF KeysInv, chainVars
<1>3. ASSUME NEW w \in Worker, SyncOpen(w) \/ StartCall(w) \/ StartSwap(w) \/ CallOpen(w)
      PROVE  KeysInv'
    BY <1>1, <1>3 DEF SyncOpen, StartCall, StartSwap, CallOpen, Begin, Goto, Stage
<1>4. ASSUME NEW w \in Worker, SyncStore(w) PROVE KeysInv'
    <2>1. copy[w] \in Copy /\ pc[w] \in Holding /\ Honest(copy[w])
        BY <1>0, <1>4 DEF SyncStore, At, TypeOK, Holding, CopiesInv, CopiesHonest
    <2>2. Scanned(copy[w]) \in Copy
        BY <2>1, ScanHonest DEF CopiesInv
    <2>3. Scanned(copy[w]).keys = copy[w].keys /\ Scanned(copy[w]).stale = copy[w].stale
        BY <2>1 DEF Scanned, Copy
    <2>4. ~Scanned(copy[w]).stale => file.keys \subseteq Scanned(copy[w]).keys
        BY <1>0, <2>1, <2>3 DEF KeysInv
    <2>5. "idle" \in Stage \ Holding
        BY DEF Stage, Holding
    <2> QED
        BY <1>2, <1>4, <2>2, <2>4, <2>5 DEF SyncStore, Goto
<1>5. ASSUME NEW w \in Worker, CreateSave(w) PROVE KeysInv'
    <2> PICK a \in Account \ copy[w].keys :
            StoreAndClose(w, [copy[w] EXCEPT !.keys = @ \cup {a}])
        BY <1>5 DEF CreateSave
    <2> DEFINE c == [copy[w] EXCEPT !.keys = @ \cup {a}]
    <2>1. copy[w] \in Copy /\ pc[w] \in Holding
        BY <1>0, <1>5 DEF CreateSave, At, TypeOK, Holding
    <2>2. c \in Copy /\ c.keys = copy[w].keys \cup {a} /\ c.stale = copy[w].stale
        BY <2>1 DEF Copy
    <2>3. ~c.stale => file.keys \subseteq c.keys
        BY <1>0, <2>1, <2>2 DEF KeysInv
    <2>4. "created" \in Stage \ Holding
        BY DEF Stage, Holding
    <2>5. StoreAndClose(w, c)
        OBVIOUS
    <2> HIDE DEF c
    <2> QED
        BY <1>2, <1>5, <2>2, <2>3, <2>4, <2>5 DEF CreateSave, Goto
<1>6. ASSUME NEW w \in Worker, InitHolding(w) PROVE KeysInv'
    <2>1. /\ UNCHANGED <<funded, txs, fileVars>> /\ pc' = [pc EXCEPT ![w] = "prepared"]
          /\ pc \in [Worker -> Stage]
        BY <1>0, <1>6 DEF InitHolding, Goto, TypeOK
    <2>2. Ever' = Ever /\ file.keys \subseteq Ever
        BY <2>1 DEF Ever, fileVars
    <2>3. initialised' \subseteq Ever
        BY <1>0, <1>6, <2>2 DEF InitHolding, KeysInv
    <2> QED
        BY <1>0, <2>1, <2>2, <2>3 DEF KeysInv, fileVars, Holding
<1>7. ASSUME NEW w \in Worker, Send(w) PROVE KeysInv'
    <2>1. /\ UNCHANGED <<chainVars, fileVars>> /\ pc' = [pc EXCEPT ![w] = "sent"]
          /\ pc \in [Worker -> Stage] /\ pc[w] = "opened"
        BY <1>0, <1>7 DEF Send, Goto, At, TypeOK
    <2>2. Ever' = Ever
        BY <2>1 DEF Ever, fileVars
    <2>3. ASSUME NEW t \in txs', t.signed PROVE t.account \in Ever
        <3>1. PICK n \in Note :
                  txs' = txs \cup {[by |-> w, note |-> n, base |-> copy[w].known[n],
                                    dir |-> job[w].dir, account |-> job[w].account,
                                    signed |-> job[w].account \in copy[w].keys]}
            BY <1>7 DEF Send
        <3>2. CASE t \in txs
            BY <1>0, <2>3, <3>2 DEF KeysInv
        <3>3. CASE t \notin txs
            <4>1. t.account = job[w].account /\ t.signed = (job[w].account \in copy[w].keys)
                BY <3>1, <3>3
            <4>2. job[w].account \in copy[w].keys
                BY <2>3, <4>1
            <4> QED
                BY <1>0, <4>1, <4>2 DEF KeysInv
        <3> QED
            BY <3>2, <3>3
    <2> QED
        BY <1>0, <2>1, <2>2, <2>3 DEF KeysInv, chainVars, fileVars, Holding
<1>8. ASSUME NEW w \in Worker, FoldStore(w) PROVE KeysInv'
    <2>1. At(w, "included") /\ UNCHANGED <<chainVars, txs>>
        BY <1>8 DEF FoldStore
    <2>2. Folded(w) \in Copy /\ Folded(w).keys = copy[w].keys /\ Folded(w).stale = copy[w].stale
        BY <2>1, FoldHonest
    <2>3. ~Folded(w).stale => file.keys \subseteq Folded(w).keys
        BY <1>0, <2>1, <2>2 DEF KeysInv, At, Holding
    <2>4. "idle" \in Stage \ Holding /\ "opened" \in Stage
        BY DEF Stage, Holding
    <2> QED
        BY <1>2, <1>8, <2>1, <2>2, <2>3, <2>4 DEF FoldStore, Goto
<1>9. ASSUME NEW w \in Worker, End(w) PROVE KeysInv'
    <2>1. /\ UNCHANGED <<chainVars, file, forgotten>> /\ copy' = [copy EXCEPT ![w] = Closed]
          /\ pc' = [pc EXCEPT ![w] = "idle"] /\ pc \in [Worker -> Stage]
        BY <1>0, <1>9 DEF End, Goto, TypeOK
    <2>2. Ever' = Ever /\ Closed.keys = {}
        BY <2>1 DEF Ever, Closed
    <2>3. ASSUME NEW t \in txs', t.signed PROVE t.account \in Ever
        <3>1. PICK u \in txs : t = IF u.by = w THEN [u EXCEPT !.by = Nobody] ELSE u
            BY <1>9 DEF End
        <3>2. u \in Tx
            BY <1>0 DEF TypeOK
        <3>3. t.signed = u.signed /\ t.account = u.account
            BY <3>1, <3>2 DEF Tx
        <3> QED
            BY <1>0, <2>3, <3>3 DEF KeysInv
    <2>4. copy \in [Worker -> Copy]
        BY <1>0 DEF TypeOK
    <2> QED
        BY <1>0, <2>1, <2>2, <2>3, <2>4 DEF KeysInv, chainVars, Holding
<1>10. ASSUME NEW t \in txs, Include(t) PROVE KeysInv'
    <2>1. t \in Tx /\ UNCHANGED fileVars /\ txs' = txs \ {t}
        BY <1>0, <1>10 DEF TypeOK, Include
    <2>2. Ever' = Ever
        BY <2>1 DEF Ever, fileVars
    <2>3. t.account # NoAccount => t.account \in Ever
        BY <1>0, <1>10 DEF Include, Valid, KeysInv
    <2>4. funded' \subseteq Ever /\ initialised' \subseteq Ever
        BY <1>0, <1>10, <2>3 DEF Include, KeysInv
    <2>5. ASSUME NEW v \in Worker, pc'[v] \in Holding, ~copy[v].stale
          PROVE  file.keys \subseteq copy[v].keys
        <3>1. pc[v] \in Holding
            BY <1>0, <1>10, <2>1, <2>5 DEF Include, Goto, Awaited, At, Holding, TypeOK, Tx
        <3> QED
            BY <1>0, <2>5, <3>1 DEF KeysInv
    <2> QED
        BY <1>0, <2>1, <2>2, <2>4, <2>5 DEF KeysInv, fileVars
<1>11. CASE UNCHANGED vars
    BY <1>0, <1>11 DEF vars, chainVars, fileVars, KeysInv, Ever
<1> QED
    BY <1>3, <1>4, <1>5, <1>6, <1>7, <1>8, <1>9, <1>10, <1>11 DEF Next

(* Whatever is in a single-use account can be got back with a key that is in *)
(* the file, or was dropped from it by the store of an older copy: no order  *)
(* of jobs, syncs, failures and late transactions loses a key otherwise.     *)
THEOREM FundsStayReachable == Spec => []FundsReachable
<1>1. Init => Awaited /\ KeysInv
    BY DEF Init, Awaited, KeysInv, Holding, Closed, Contents
<1>2. CopiesInv /\ Awaited /\ KeysInv /\ [Next]_vars => Awaited' /\ KeysInv'
    BY AwaitedStep, KeysStep DEF CopiesInv
<1>3. KeysInv => FundsReachable
    BY DEF KeysInv, FundsReachable, Ever
<1> QED
    BY <1>1, <1>2, <1>3, CopiesInvariant, PTL DEF Spec
=============================================================================
