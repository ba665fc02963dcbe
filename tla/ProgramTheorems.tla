-------------------------- MODULE ProgramTheorems ---------------------------
(***************************************************************************)
(* Proofs about the programs that hold value or prices beside the pool: the *)
(* token program, the WLEZ bridge and the oracle of a pool, for any accounts, *)
(* amounts, price history, ring capacity and width of the accumulators.    *)
(***************************************************************************)
EXTENDS Token, Wlez, PoolOracleHistory, ArithmeticTheorems

-----------------------------------------------------------------------------
(* The token program.  A definition is made once, and only together with    *)
(* the holding of its whole supply; every other holding of it starts at     *)
(* nothing.  From there on a master only moves as a whole.                  *)

TokenTypeOK ==
    /\ definition \in [Definitions -> TokenDefinition]
    /\ holding \in [Accounts -> TokenHolding]

(* Nothing is held of a token that is not defined.                         *)
HeldIsDefined ==
    \A a \in Accounts, d \in Definitions :
        holding[a].of = d => definition[d].kind # "none"

IsMaster(a, d) == holding[a].kind = "master" /\ holding[a].of = d /\ holding[a].amount > 0

MasterUnique ==
    \A d \in Definitions : \A a, b \in Accounts : IsMaster(a, d) /\ IsMaster(b, d) => a = b

TokenInv == TokenTypeOK /\ HeldIsDefined /\ MasterUnique

(* A holding that changes one field is still a holding.                     *)
LEMMA HoldingType ==
    ASSUME TokenTypeOK, NEW a \in Accounts
    PROVE  /\ holding[a].kind \in {"none", "fungible", "master", "copy"}
           /\ holding[a].of \in Definitions \cup {NoDefinition}
           /\ holding[a].amount \in Amount
           /\ holding[a] = [kind |-> holding[a].kind, of |-> holding[a].of,
                            amount |-> holding[a].amount]
BY DEF TokenTypeOK, TokenHolding

(* Amounts are in range.                                                   *)
LEMMA AmountsAreNaturals == Amount \subseteq Nat /\ Amounts \subseteq Amount /\ 0 \in Amount
BY TokenAssumption, U128Assumption DEF Amount

-----------------------------------------------------------------------------
(* One lemma per instruction.                                              *)

(* A new definition keeps the invariant, and so does each of the handlers  *)
(* below.                                                                  *)
LEMMA NewDefinitionStep ==
    ASSUME TokenInv, NEW d \in Definitions, NEW a \in Accounts,
           NEW kind \in {"fungible", "nonfungible"}, NEW supply \in Amounts,
           NewDefinition(d, a, kind, supply)
    PROVE  TokenInv'
<1> USE AmountsAreNaturals
<1>1. TokenTypeOK'
    BY DEF TokenInv, TokenTypeOK, NewDefinition, TokenDefinition, TokenHolding
<1>2. HeldIsDefined'
    BY DEF TokenInv, TokenTypeOK, HeldIsDefined, NewDefinition
<1>3. \A b \in Accounts : ~IsMaster(b, d)
    BY DEF TokenInv, HeldIsDefined, NewDefinition, IsMaster
<1>4. MasterUnique'
    BY <1>3 DEF TokenInv, TokenTypeOK, MasterUnique, NewDefinition, IsMaster
<1> QED
    BY <1>1, <1>2, <1>4 DEF TokenInv

(* An empty holding.                                                       *)
LEMMA InitializeStep ==
    ASSUME TokenInv, NEW d \in Definitions, NEW a \in Accounts, InitializeAccount(d, a)
    PROVE  TokenInv'
<1> USE AmountsAreNaturals
<1>1. TokenTypeOK'
    BY DEF TokenInv, TokenTypeOK, InitializeAccount, ZeroizedFrom, Zeroized, TokenHolding
<1>2. HeldIsDefined'
    BY DEF TokenInv, TokenTypeOK, HeldIsDefined, InitializeAccount, ZeroizedFrom, Zeroized
<1>3. MasterUnique'
    BY DEF TokenInv, TokenTypeOK, MasterUnique, InitializeAccount, ZeroizedFrom, Zeroized,
           IsMaster
<1> QED
    BY <1>1, <1>2, <1>3 DEF TokenInv

(* New units.                                                              *)
LEMMA MintStep ==
    ASSUME TokenInv, NEW d \in Definitions, NEW a \in Accounts, NEW amount \in Amounts,
           Mint(d, a, amount)
    PROVE  TokenInv'
<1> DEFINE receiver == AsReceiver(a, ZeroizedFrom(d))
<1> USE AmountsAreNaturals
<1>1. receiver \in TokenHolding
    BY HoldingType DEF TokenInv, TokenTypeOK, AsReceiver, ZeroizedFrom, Zeroized, TokenHolding
<1>2. /\ definition[d].kind = "fungible" /\ receiver.kind = "fungible" /\ receiver.of = d
      /\ receiver.amount + amount \in Amount
      /\ definition[d].supply + amount \in Amount
      /\ holding' = [holding EXCEPT ![a] = [receiver EXCEPT !.amount = @ + amount]]
      /\ definition' = [definition EXCEPT ![d].supply = @ + amount]
    BY <1>1, TokenAssumption, U128Assumption
       DEF TokenInv, TokenTypeOK, TokenDefinition, TokenHolding, Mint, Fits, Amount
<1> HIDE DEF receiver
<1>3. TokenTypeOK'
    BY <1>1, <1>2 DEF TokenInv, TokenTypeOK, TokenDefinition, TokenHolding
<1>4. HeldIsDefined'
    BY <1>1, <1>2 DEF TokenInv, TokenTypeOK, HeldIsDefined, TokenDefinition, TokenHolding
<1>5. \A b \in Accounts, e \in Definitions : IsMaster(b, e)' => IsMaster(b, e)
    BY <1>1, <1>2 DEF TokenInv, TokenTypeOK, TokenHolding, IsMaster
<1>6. MasterUnique'
    BY <1>5 DEF TokenInv, MasterUnique
<1> QED
    BY <1>3, <1>4, <1>6 DEF TokenInv

(* Burnt units.                                                            *)
LEMMA BurnStep ==
    ASSUME TokenInv, NEW d \in Definitions, NEW a \in Accounts, NEW amount \in Amounts,
           Burn(d, a, amount)
    PROVE  TokenInv'
<1>1. /\ holding[a].amount - amount \in Amount
      /\ definition[d].supply - amount \in Amount
    BY TokenAssumption, U128Assumption, HoldingType
       DEF TokenInv, TokenTypeOK, TokenDefinition, Burn, Amount
<1>2. TokenTypeOK'
    BY <1>1 DEF TokenInv, TokenTypeOK, TokenDefinition, TokenHolding, Burn
<1>3. HeldIsDefined'
    BY DEF TokenInv, TokenTypeOK, HeldIsDefined, TokenDefinition, TokenHolding, Burn
<1>4. \A b \in Accounts, e \in Definitions : IsMaster(b, e)' => IsMaster(b, e)
    BY AmountsAreNaturals, HoldingType DEF TokenInv, TokenTypeOK, TokenHolding, Burn, IsMaster
<1>5. MasterUnique'
    BY <1>4 DEF TokenInv, MasterUnique
<1> QED
    BY <1>2, <1>3, <1>5 DEF TokenInv

(* What a transfer does to the two holdings.                               *)
LEMMA TransferEffect ==
    ASSUME TokenInv, NEW from \in Accounts, NEW to \in Accounts, NEW amount \in Amounts,
           Transfer(from, to, amount)
    PROVE  /\ from # to
           /\ holding[from].kind # "none"
           /\ holding[to].kind # "none" =>
                 holding[to].kind = holding[from].kind /\ holding[to].of = holding[from].of
           /\ \E left, received \in Amount :
                 /\ holding' = [holding EXCEPT
                                  ![from] = [holding[from] EXCEPT !.amount = left],
                                  ![to] = [kind |-> holding[from].kind,
                                           of |-> holding[from].of,
                                           amount |-> received]]
                 /\ holding[from].kind = "master" =>
                       left = 0 /\ received = holding[from].amount
           /\ UNCHANGED definition
<1> DEFINE sender == holding[from]
           receiver == AsReceiver(to, Zeroized(sender.kind, sender.of))
<1> USE AmountsAreNaturals
<1>1. sender \in TokenHolding /\ receiver \in TokenHolding
    BY HoldingType DEF TokenInv, TokenTypeOK, TokenHolding, AsReceiver, Zeroized
<1>2. /\ from # to /\ sender.kind # "none"
      /\ receiver.of = sender.of /\ receiver.kind = sender.kind
      /\ Movable(sender, receiver, amount)
      /\ holding' = [holding EXCEPT ![from].amount = @ - amount,
                                    ![to] = [receiver EXCEPT !.amount = @ + amount]]
      /\ UNCHANGED definition
    BY DEF Transfer, Default
<1>3. holding[to].kind # "none" =>
          holding[to].kind = sender.kind /\ holding[to].of = sender.of
    BY <1>2 DEF AsReceiver, Default
<1> HIDE DEF receiver
<1>4. /\ sender.amount - amount \in Amount
      /\ receiver.amount + amount \in Amount
      /\ sender.kind = "master" =>
            sender.amount - amount = 0 /\ receiver.amount + amount = sender.amount
    BY <1>1, <1>2, TokenAssumption, U128Assumption DEF Movable, TokenHolding, Amount, Fits
<1>5. [receiver EXCEPT !.amount = @ + amount] =
          [kind |-> sender.kind, of |-> sender.of, amount |-> receiver.amount + amount]
    BY <1>1, <1>2 DEF TokenHolding
<1> QED
    BY <1>2, <1>3, <1>4, <1>5

(* A transfer.                                                             *)
LEMMA TransferStep ==
    ASSUME TokenInv, NEW from \in Accounts, NEW to \in Accounts, NEW amount \in Amounts,
           Transfer(from, to, amount)
    PROVE  TokenInv'
<1>1. PICK left \in Amount, received \in Amount :
          /\ holding' = [holding EXCEPT
                           ![from] = [holding[from] EXCEPT !.amount = left],
                           ![to] = [kind |-> holding[from].kind, of |-> holding[from].of,
                                    amount |-> received]]
          /\ holding[from].kind = "master" => left = 0 /\ received = holding[from].amount
    BY TransferEffect
<1>2. from # to /\ UNCHANGED definition
    BY TransferEffect
<1>3. TokenTypeOK'
    BY <1>1, <1>2, HoldingType DEF TokenInv, TokenTypeOK, TokenHolding
<1>4. HeldIsDefined'
    BY <1>1, <1>2, HoldingType DEF TokenInv, TokenTypeOK, TokenHolding, HeldIsDefined
<1>5. ASSUME NEW d \in Definitions, NEW b \in Accounts, IsMaster(b, d)'
      PROVE  \/ b # to /\ IsMaster(b, d)
             \/ b = to /\ IsMaster(from, d)
    BY <1>1, <1>2, <1>5, HoldingType DEF TokenInv, TokenTypeOK, TokenHolding, IsMaster
<1>6. ASSUME NEW d \in Definitions, IsMaster(to, d)' PROVE ~IsMaster(from, d)'
    BY <1>1, <1>2, <1>6, AmountsAreNaturals, HoldingType
       DEF TokenInv, TokenTypeOK, TokenHolding, IsMaster
<1>7. MasterUnique'
    BY <1>5, <1>6 DEF TokenInv, MasterUnique
<1> QED
    BY <1>3, <1>4, <1>7 DEF TokenInv

(* A copy printed from a master.                                           *)
LEMMA PrintStep ==
    ASSUME TokenInv, NEW master \in Accounts, NEW printed \in Accounts,
           PrintNft(master, printed)
    PROVE  TokenInv'
<1>1. holding[master].amount - 1 \in Amount /\ 1 \in Amount
    <2>1. holding[master].amount \in Amount /\ holding[master].amount > 1
        BY HoldingType DEF TokenInv, PrintNft
    <2> QED
        BY <2>1, TokenAssumption, U128Assumption DEF Amount
<1>2. TokenTypeOK'
    BY <1>1, HoldingType DEF TokenInv, TokenTypeOK, TokenHolding, PrintNft
<1>3. HeldIsDefined'
    BY HoldingType DEF TokenInv, TokenTypeOK, TokenHolding, HeldIsDefined, PrintNft
<1>4. \A b \in Accounts, d \in Definitions : IsMaster(b, d)' => IsMaster(b, d)
    BY AmountsAreNaturals, HoldingType
       DEF TokenInv, TokenTypeOK, TokenHolding, PrintNft, IsMaster
<1>5. MasterUnique'
    BY <1>4 DEF TokenInv, MasterUnique
<1> QED
    BY <1>2, <1>3, <1>5 DEF TokenInv

-----------------------------------------------------------------------------
(* Holdings and definitions are well formed, and masters and prints are    *)
(* where they belong, under any sequence of instructions                   *)
(* (src/programs/token).                                                   *)
THEOREM TokenInvariant == TokenSpec => []TokenInv
<1>1. TokenInit => TokenInv
    BY AmountsAreNaturals, TokenAssumption, U128Assumption
       DEF TokenInit, TokenInv, TokenTypeOK, HeldIsDefined, MasterUnique, IsMaster, Zeroized,
           TokenDefinition, TokenHolding
<1>2. TokenInv /\ [TokenNext]_tokenVars => TokenInv'
    <2> SUFFICES ASSUME TokenInv, [TokenNext]_tokenVars PROVE TokenInv'
        OBVIOUS
    <2>1. ASSUME NEW d \in Definitions, NEW a \in Accounts,
                 NEW kind \in {"fungible", "nonfungible"}, NEW supply \in Amounts,
                 NewDefinition(d, a, kind, supply)
          PROVE  TokenInv'
        BY <2>1, NewDefinitionStep
    <2>2. ASSUME NEW d \in Definitions, NEW a \in Accounts, InitializeAccount(d, a)
          PROVE  TokenInv'
        BY <2>2, InitializeStep
    <2>3. ASSUME NEW d \in Definitions, NEW a \in Accounts, NEW amount \in Amounts,
                 Mint(d, a, amount) \/ Burn(d, a, amount)
          PROVE  TokenInv'
        BY <2>3, MintStep, BurnStep
    <2>4. ASSUME NEW from \in Accounts, NEW to \in Accounts, NEW amount \in Amounts,
                 Transfer(from, to, amount)
          PROVE  TokenInv'
        BY <2>4, TransferStep
    <2>5. ASSUME NEW from \in Accounts, NEW to \in Accounts, PrintNft(from, to)
          PROVE  TokenInv'
        BY <2>5, PrintStep
    <2>6. CASE UNCHANGED tokenVars
        BY <2>6 DEF tokenVars, TokenInv, TokenTypeOK, HeldIsDefined, MasterUnique, IsMaster
    <2> QED
        BY <2>1, <2>2, <2>3, <2>4, <2>5, <2>6 DEF TokenNext
<1> QED
    BY <1>1, <1>2, PTL DEF TokenSpec

(* An NFT never has two masters, whatever is printed, moved and burnt and    *)
(* however many accounts there are.                                         *)
THEOREM OneMasterAlways == TokenSpec => []OneMaster
<1>1. TokenInv => OneMaster
    <2> SUFFICES ASSUME TokenInv, NEW d \in Definitions PROVE Cardinality(Masters(d)) <= 1
        BY DEF OneMaster
    <2>1. \A a, b \in Masters(d) : a = b
        BY DEF TokenInv, MasterUnique, Masters, HoldingsOf, IsMaster
    <2>2. CASE Masters(d) = {}
        BY <2>2, FS_EmptySet
    <2>3. CASE Masters(d) # {}
        <3> PICK a \in Masters(d) : Masters(d) = {a}
            BY <2>1, <2>3
        <3>1. Cardinality(Masters(d)) = 1
            BY FS_Singleton
        <3> QED
            BY <3>1
    <2> QED
        BY <2>2, <2>3
<1> QED
    BY <1>1, TokenInvariant, PTL

(* Only a burn of the last unit leaves an NFT without its master: printing   *)
(* keeps one back and a transfer takes the whole.                          *)
THEOREM MasterOutlastsPrinting == TokenSpec => PrintingSparesMaster
<1> DEFINE Spared ==
        \A d \in Definitions :
            (Masters(d) # {} /\ definition'[d] = definition[d]) => Masters(d)' # {}
<1>1. TokenInv /\ [TokenNext]_tokenVars => [Spared]_tokenVars
    <2> SUFFICES ASSUME TokenInv, TokenNext,
                        NEW d \in Definitions, definition'[d] = definition[d],
                        NEW m \in Accounts, IsMaster(m, d)
                 PROVE  \E b \in Accounts : IsMaster(b, d)'
        BY DEF Masters, HoldingsOf, IsMaster
    <2> USE AmountsAreNaturals
    <2>1. ASSUME NEW e \in Definitions, NEW a \in Accounts,
                 NEW kind \in {"fungible", "nonfungible"}, NEW supply \in Amounts,
                 NewDefinition(e, a, kind, supply)
          PROVE  IsMaster(m, d)'
        BY <2>1 DEF TokenInv, TokenTypeOK, NewDefinition, Default, IsMaster
    <2>2. ASSUME NEW e \in Definitions, NEW a \in Accounts, InitializeAccount(e, a)
          PROVE  IsMaster(m, d)'
        BY <2>2 DEF TokenInv, TokenTypeOK, InitializeAccount, Default, IsMaster
    <2>3. ASSUME NEW e \in Definitions, NEW a \in Accounts, NEW amount \in Amounts,
                 Mint(e, a, amount)
          PROVE  IsMaster(m, d)'
        <3>1. m # a
            BY <2>3 DEF Mint, AsReceiver, Default, IsMaster
        <3> QED
            BY <2>3, <3>1 DEF TokenInv, TokenTypeOK, Mint, IsMaster
    <2>4. ASSUME NEW e \in Definitions, NEW a \in Accounts, NEW amount \in Amounts,
                 Burn(e, a, amount)
          PROVE  IsMaster(m, d)'
        <3>1. m = a => amount = 0
            BY <2>4 DEF TokenInv, TokenTypeOK, TokenDefinition, Burn, IsMaster
        <3> QED
            BY <2>4, <3>1 DEF TokenInv, TokenTypeOK, TokenHolding, Burn, IsMaster
    <2>5. ASSUME NEW from \in Accounts, NEW to \in Accounts, NEW amount \in Amounts,
                 Transfer(from, to, amount)
          PROVE  IsMaster(m, d)' \/ IsMaster(to, d)'
        <3>1. m = to => IsMaster(from, d) \/ IsMaster(m, d)'
            BY <2>5 DEF Transfer, AsReceiver, Default, Movable, IsMaster
        <3>2. m = from => IsMaster(to, d)'
            BY <2>5, TransferEffect DEF TokenInv, TokenTypeOK, IsMaster
        <3> QED
            BY <2>5, <3>1, <3>2, TransferEffect DEF TokenInv, TokenTypeOK, IsMaster
    <2>6. ASSUME NEW from \in Accounts, NEW to \in Accounts, PrintNft(from, to)
          PROVE  IsMaster(m, d)'
        BY <2>6, HoldingType DEF TokenInv, TokenTypeOK, TokenHolding, PrintNft, Default, IsMaster
    <2> QED
        BY <2>1, <2>2, <2>3, <2>4, <2>5, <2>6 DEF TokenNext
<1> QED
    BY <1>1, TokenInvariant, PTL DEF TokenSpec, PrintingSparesMaster

(* An account that holds a token holds it for ever, in the same way.         *)
THEOREM HoldingsKeepToken == TokenSpec => HoldingKeepsToken
<1> DEFINE Kept ==
        \A a \in Accounts : ~Default(a) =>
            /\ holding'[a].of = holding[a].of
            /\ holding'[a].kind = holding[a].kind
<1>1. TokenInv /\ [TokenNext]_tokenVars => [Kept]_tokenVars
    <2> SUFFICES ASSUME TokenInv, TokenNext, NEW a \in Accounts, holding[a].kind # "none"
                 PROVE  holding'[a].of = holding[a].of /\ holding'[a].kind = holding[a].kind
        BY DEF Default
    <2>1. ASSUME NEW d \in Definitions, NEW b \in Accounts,
                 NEW kind \in {"fungible", "nonfungible"}, NEW supply \in Amounts,
                 NewDefinition(d, b, kind, supply) \/ InitializeAccount(d, b)
          PROVE  holding'[a] = holding[a]
        BY <2>1 DEF TokenInv, TokenTypeOK, NewDefinition, InitializeAccount, Default
    <2>2. ASSUME NEW d \in Definitions, NEW b \in Accounts, NEW amount \in Amounts,
                 Mint(d, b, amount)
          PROVE  holding'[a].of = holding[a].of /\ holding'[a].kind = holding[a].kind
        <3>1. AsReceiver(b, ZeroizedFrom(d)) \in TokenHolding
            BY AmountsAreNaturals, HoldingType
               DEF TokenInv, TokenTypeOK, AsReceiver, ZeroizedFrom, Zeroized, TokenHolding
        <3> QED
            BY <2>2, <3>1 DEF TokenInv, TokenTypeOK, TokenHolding, Mint, AsReceiver, Default
    <2>3. ASSUME NEW d \in Definitions, NEW b \in Accounts, NEW amount \in Amounts,
                 Burn(d, b, amount)
          PROVE  holding'[a].of = holding[a].of /\ holding'[a].kind = holding[a].kind
        BY <2>3 DEF TokenInv, TokenTypeOK, TokenHolding, Burn
    <2>4. ASSUME NEW from \in Accounts, NEW to \in Accounts, NEW amount \in Amounts,
                 Transfer(from, to, amount)
          PROVE  holding'[a].of = holding[a].of /\ holding'[a].kind = holding[a].kind
        BY <2>4, TransferEffect DEF TokenInv, TokenTypeOK, TokenHolding
    <2>5. ASSUME NEW from \in Accounts, NEW to \in Accounts, PrintNft(from, to)
          PROVE  holding'[a].of = holding[a].of /\ holding'[a].kind = holding[a].kind
        BY <2>5 DEF TokenInv, TokenTypeOK, TokenHolding, PrintNft, Default
    <2>6. ASSUME NEW d \in Definitions, NEW b \in Accounts, InitializeAccount(d, b)
          PROVE  holding'[a] = holding[a]
        BY <2>6 DEF TokenInv, TokenTypeOK, InitializeAccount, Default
    <2> QED
        BY <2>1, <2>2, <2>3, <2>4, <2>5, <2>6 DEF TokenNext
<1> QED
    BY <1>1, TokenInvariant, PTL DEF TokenSpec, HoldingKeepsToken

-----------------------------------------------------------------------------
(* The supply.                                                             *)

(* What each account adds to the holdings of d.                            *)
Shares(h, d) == [a \in Accounts |-> IF h[a].of = d THEN h[a].amount ELSE 0]
Shared(h, d) == Total(Shares(h, d), Accounts)

(* A holding's share of a supply is a number.                              *)
LEMMA SharesAreNaturals ==
    ASSUME NEW h \in [Accounts -> TokenHolding], NEW d
    PROVE  /\ \A a \in Accounts : Shares(h, d)[a] \in Nat /\ Shares(h, d)[a] \in Int
           /\ Shared(h, d) \in Int
<1>1. ASSUME NEW a \in Accounts PROVE Shares(h, d)[a] \in Nat /\ Shares(h, d)[a] \in Int
    <2>1. h[a].amount \in Nat
        BY AmountsAreNaturals DEF TokenHolding
    <2> QED
        BY <2>1 DEF Shares
<1> QED
    BY <1>1, TokenAssumption, TotalInt DEF Shared

(* The shares add up to the holdings of the definition.                    *)
LEMMA SharesAddUp ==
    ASSUME NEW h \in [Accounts -> TokenHolding], NEW d
    PROVE  Total([a \in Accounts |-> h[a].amount], {a \in Accounts : h[a].of = d})
               = Shared(h, d)
<1> DEFINE R == {a \in Accounts : h[a].of = d}
           f == [a \in Accounts |-> h[a].amount]
<1>1. /\ \A a \in R : f[a] \in Int /\ Shares(h, d)[a] = f[a]
      /\ \A a \in Accounts \ R : Shares(h, d)[a] = 0
      /\ R \in SUBSET Accounts
    BY SharesAreNaturals DEF Shares
<1> HIDE DEF R, f
<1> QED
    BY <1>1, TokenAssumption, TotalSupport DEF Shared, R, f

(* One account changes, or two.                                            *)
LEMMA ShareChange ==
    ASSUME NEW h \in [Accounts -> TokenHolding], NEW g \in [Accounts -> TokenHolding], NEW d,
           NEW a \in Accounts, \A c \in Accounts \ {a} : g[c] = h[c]
    PROVE  Shared(g, d) = Shared(h, d) + Shares(g, d)[a] - Shares(h, d)[a]
<1>1. /\ \A c \in Accounts : Shares(h, d)[c] \in Int /\ Shares(g, d)[c] \in Int
      /\ \A c \in Accounts \ {a} : Shares(g, d)[c] = Shares(h, d)[c]
    BY SharesAreNaturals DEF Shares
<1> QED
    BY <1>1, TokenAssumption, TotalChange DEF Shared

(* Two accounts change, and the sum by as much.                            *)
LEMMA SharesChange ==
    ASSUME NEW h \in [Accounts -> TokenHolding], NEW g \in [Accounts -> TokenHolding], NEW d,
           NEW a \in Accounts, NEW b \in Accounts, a # b,
           \A c \in Accounts \ {a, b} : g[c] = h[c]
    PROVE  Shared(g, d) = Shared(h, d) + (Shares(g, d)[a] - Shares(h, d)[a])
                                       + (Shares(g, d)[b] - Shares(h, d)[b])
<1> DEFINE m == [c \in Accounts |-> IF c = a THEN g[a] ELSE h[c]]
<1>1. /\ m \in [Accounts -> TokenHolding] /\ m[a] = g[a] /\ m[b] = h[b]
      /\ \A c \in Accounts \ {a} : m[c] = h[c]
      /\ \A c \in Accounts \ {b} : g[c] = m[c]
    OBVIOUS
<1> HIDE DEF m
<1>2. Shared(m, d) = Shared(h, d) + Shares(m, d)[a] - Shares(h, d)[a]
    BY <1>1, ShareChange
<1>3. Shared(g, d) = Shared(m, d) + Shares(g, d)[b] - Shares(m, d)[b]
    BY <1>1, ShareChange
<1>4. Shares(m, d)[a] = Shares(g, d)[a] /\ Shares(m, d)[b] = Shares(h, d)[b]
    BY <1>1 DEF Shares
<1>5. /\ Shared(h, d) \in Int /\ Shares(h, d)[a] \in Int /\ Shares(h, d)[b] \in Int
      /\ Shares(g, d)[a] \in Int /\ Shares(g, d)[b] \in Int
    BY SharesAreNaturals
<1> QED
    BY <1>2, <1>3, <1>4, <1>5

(* An account nobody claimed holds nothing, and the holdings of each token   *)
(* add up.                                                                 *)
SupplyInv ==
    /\ \A a \in Accounts : Default(a) => holding[a].of = NoDefinition
    /\ \A d \in Definitions : Shared(holding, d) = definition[d].supply

(* Every instruction changes holdings and supply by the same.              *)
LEMMA SupplyStep ==
    ASSUME TokenInv, TokenInv', SupplyInv, TokenNext
    PROVE  SupplyInv'
<1> USE AmountsAreNaturals
<1>1. holding \in [Accounts -> TokenHolding] /\ holding' \in [Accounts -> TokenHolding]
    BY DEF TokenInv, TokenTypeOK
<1>2. \A e \in Definitions : Shared(holding, e) \in Int /\ definition[e].supply \in Int
    <2>1. ASSUME NEW e \in Definitions PROVE Shared(holding, e) \in Int
        BY <1>1, SharesAreNaturals
    <2>2. ASSUME NEW e \in Definitions PROVE definition[e].supply \in Int
        <3>1. definition[e] \in TokenDefinition
            BY DEF TokenInv, TokenTypeOK
        <3>2. definition[e].supply \in Amount
            BY <3>1 DEF TokenDefinition
        <3> QED
            BY <3>2 DEF Amount
    <2> QED
        BY <2>1, <2>2
<1>3. NoDefinition \notin Definitions
    BY TokenAssumption
<1>4. ASSUME NEW d \in Definitions, NEW a \in Accounts,
             NEW kind \in {"fungible", "nonfungible"}, NEW supply \in Amounts,
             NewDefinition(d, a, kind, supply)
      PROVE  SupplyInv'
    <2>1. ASSUME NEW e \in Definitions
          PROVE  Shared(holding', e) = definition'[e].supply
        <3>0. \A c \in Accounts \ {a} : holding'[c] = holding[c]
            BY <1>1, <1>4 DEF NewDefinition
        <3>1. Shared(holding', e) = Shared(holding, e) + Shares(holding', e)[a] - Shares(holding, e)[a]
            BY <1>1, <3>0, ShareChange
        <3>2. Shares(holding, e)[a] = 0
            BY <1>3, <1>4 DEF SupplyInv, Shares, NewDefinition
        <3>3. Shares(holding', e)[a] = IF e = d THEN supply ELSE 0
            BY <1>1, <1>4 DEF Shares, NewDefinition
        <3>4. CASE e = d
            <4>1. \A c \in Accounts : Shares(holding, d)[c] = 0
                BY <1>4 DEF Shares, NewDefinition, TokenInv, HeldIsDefined
            <4>2. Shared(holding, d) = 0
                BY <4>1, TokenAssumption, TotalZero DEF Shared
            <4>3. definition'[d].supply = supply
                BY <1>4 DEF NewDefinition, TokenInv, TokenTypeOK
            <4>4. Shared(holding', d) = 0 + supply - 0 /\ supply \in Int
                BY <3>1, <3>2, <3>3, <3>4, <4>2
            <4> QED
                BY <3>4, <4>3, <4>4
        <3>5. CASE e # d
            <4>1. definition'[e] = definition[e]
                BY <1>4, <3>5 DEF NewDefinition, TokenInv, TokenTypeOK
            <4> QED
                BY <1>2, <3>1, <3>2, <3>3, <3>5, <4>1 DEF SupplyInv
        <3> QED
            BY <3>4, <3>5
    <2>2. \A b \in Accounts : Default(b)' => holding'[b].of = NoDefinition
        BY <1>1, <1>4 DEF NewDefinition, SupplyInv, Default
    <2> QED
        BY <2>1, <2>2 DEF SupplyInv
<1>5. ASSUME NEW d \in Definitions, NEW a \in Accounts, InitializeAccount(d, a)
      PROVE  SupplyInv'
    <2>1. ASSUME NEW e \in Definitions
          PROVE  Shared(holding', e) = definition'[e].supply
        <3>0. \A c \in Accounts \ {a} : holding'[c] = holding[c]
            BY <1>1, <1>5 DEF InitializeAccount
        <3>1. Shared(holding', e) = Shared(holding, e) + Shares(holding', e)[a] - Shares(holding, e)[a]
            BY <1>1, <3>0, ShareChange
        <3>2. Shares(holding, e)[a] = 0
            BY <1>3, <1>5 DEF SupplyInv, Shares, InitializeAccount
        <3>3. Shares(holding', e)[a] = 0
            BY <1>1, <1>5 DEF Shares, InitializeAccount, ZeroizedFrom, Zeroized
        <3> QED
            BY <1>2, <1>5, <3>1, <3>2, <3>3 DEF SupplyInv, InitializeAccount
    <2>2. \A b \in Accounts : Default(b)' => holding'[b].of = NoDefinition
        BY <1>1, <1>5 DEF InitializeAccount, SupplyInv, Default, ZeroizedFrom, Zeroized
    <2> QED
        BY <2>1, <2>2 DEF SupplyInv
<1>6. ASSUME NEW d \in Definitions, NEW a \in Accounts, NEW amount \in Amounts,
             Mint(d, a, amount)
      PROVE  SupplyInv'
    <2> DEFINE receiver == AsReceiver(a, ZeroizedFrom(d))
    <2>0. receiver \in TokenHolding
        BY HoldingType DEF TokenInv, TokenTypeOK, AsReceiver, ZeroizedFrom, Zeroized, TokenHolding
    <2>1. /\ receiver.kind = "fungible" /\ receiver.of = d
          /\ holding'[a] = [receiver EXCEPT !.amount = @ + amount]
          /\ \A c \in Accounts \ {a} : holding'[c] = holding[c]
          /\ definition' = [definition EXCEPT ![d].supply = @ + amount]
        BY <1>1, <1>6 DEF Mint
    <2>2. Default(a) => receiver.amount = 0 /\ holding[a].of = NoDefinition
        BY <1>6 DEF AsReceiver, ZeroizedFrom, Zeroized, SupplyInv
    <2>3. ~Default(a) => receiver = holding[a]
        BY DEF AsReceiver
    <2> HIDE DEF receiver
    <2>4. /\ holding'[a].kind = "fungible" /\ holding'[a].of = d
          /\ holding'[a].amount = receiver.amount + amount
          /\ receiver.amount \in Int /\ amount \in Int
        BY <2>0, <2>1 DEF TokenHolding
    <2>5. ASSUME NEW e \in Definitions
          PROVE  Shared(holding', e) = definition'[e].supply
        <3>1. Shared(holding', e) = Shared(holding, e) + Shares(holding', e)[a] - Shares(holding, e)[a]
            BY <1>1, <2>1, ShareChange
        <3>2. Shares(holding, e)[a] = IF e = d THEN receiver.amount ELSE 0
            BY <1>3, <2>1, <2>2, <2>3 DEF Shares
        <3>3. Shares(holding', e)[a] = IF e = d THEN receiver.amount + amount ELSE 0
            BY <2>4 DEF Shares
        <3>4. definition'[e].supply = definition[e].supply + (IF e = d THEN amount ELSE 0)
            BY <1>2, <2>1 DEF TokenInv, TokenTypeOK, TokenDefinition
        <3> QED
            BY <1>2, <2>4, <3>1, <3>2, <3>3, <3>4 DEF SupplyInv
    <2>6. \A b \in Accounts : Default(b)' => holding'[b].of = NoDefinition
        BY <2>1, <2>4 DEF SupplyInv, Default
    <2> QED
        BY <2>5, <2>6 DEF SupplyInv
<1>7. ASSUME NEW d \in Definitions, NEW a \in Accounts, NEW amount \in Amounts,
             Burn(d, a, amount)
      PROVE  SupplyInv'
    <2>1. /\ holding[a].of = d /\ amount \in Int /\ holding[a].amount \in Int
          /\ holding'[a].of = d /\ holding'[a].amount = holding[a].amount - amount
          /\ holding'[a].kind = holding[a].kind
          /\ \A c \in Accounts \ {a} : holding'[c] = holding[c]
        BY <1>1, <1>7, HoldingType DEF Burn, TokenHolding, TokenInv
    <2>2. ASSUME NEW e \in Definitions
          PROVE  Shared(holding', e) = definition'[e].supply
        <3>1. Shared(holding', e) = Shared(holding, e) + Shares(holding', e)[a] - Shares(holding, e)[a]
            BY <1>1, <2>1, ShareChange
        <3>2. /\ Shares(holding, e)[a] = IF e = d THEN holding[a].amount ELSE 0
              /\ Shares(holding', e)[a] = IF e = d THEN holding[a].amount - amount ELSE 0
            BY <2>1 DEF Shares
        <3>3. definition'[e].supply = definition[e].supply - (IF e = d THEN amount ELSE 0)
            BY <1>2, <1>7, <2>1 DEF TokenInv, TokenTypeOK, TokenDefinition, Burn
        <3> QED
            BY <1>2, <2>1, <3>1, <3>2, <3>3 DEF SupplyInv
    <2>3. \A b \in Accounts : Default(b)' => holding'[b].of = NoDefinition
        BY <2>1 DEF SupplyInv, Default
    <2> QED
        BY <2>2, <2>3 DEF SupplyInv
<1>8. ASSUME NEW from \in Accounts, NEW to \in Accounts, NEW amount \in Amounts,
             Transfer(from, to, amount)
      PROVE  SupplyInv'
    <2> DEFINE like == Zeroized(holding[from].kind, holding[from].of)
               receiver == AsReceiver(to, like)
    <2>0. receiver \in TokenHolding
        BY <1>1, HoldingType DEF TokenInv, TokenHolding, AsReceiver, Zeroized
    <2>1. /\ from # to /\ holding[from].kind # "none"
          /\ receiver.of = holding[from].of /\ receiver.kind = holding[from].kind
          /\ holding'[from] = [holding[from] EXCEPT !.amount = @ - amount]
          /\ holding'[to] = [receiver EXCEPT !.amount = @ + amount]
          /\ \A c \in Accounts \ {from, to} : holding'[c] = holding[c]
          /\ definition' = definition
        BY <1>1, <1>8 DEF Transfer, Default
    <2>2. Default(to) => receiver.amount = 0 /\ holding[to].of = NoDefinition
        BY DEF AsReceiver, Zeroized, SupplyInv
    <2>3. ~Default(to) => receiver = holding[to]
        BY DEF AsReceiver
    <2> HIDE DEF receiver
    <2>4. /\ holding'[from].of = holding[from].of /\ holding'[from].kind = holding[from].kind
          /\ holding'[from].amount = holding[from].amount - amount
          /\ holding'[to].of = holding[from].of /\ holding'[to].kind = holding[from].kind
          /\ holding'[to].amount = receiver.amount + amount
          /\ receiver.amount \in Int /\ amount \in Int /\ holding[from].amount \in Int
        BY <1>1, <2>0, <2>1 DEF TokenHolding
    <2>5. ASSUME NEW e \in Definitions
          PROVE  Shared(holding', e) = definition'[e].supply
        <3> DEFINE mine == holding[from].of = e
        <3>1. Shared(holding', e) = Shared(holding, e)
                  + (Shares(holding', e)[from] - Shares(holding, e)[from])
                  + (Shares(holding', e)[to] - Shares(holding, e)[to])
            BY <1>1, <2>1, SharesChange
        <3>2. Shares(holding, e)[to] = IF mine THEN receiver.amount ELSE 0
            BY <1>3, <2>1, <2>2, <2>3 DEF Shares
        <3>3. /\ Shares(holding', e)[to] = IF mine THEN receiver.amount + amount ELSE 0
              /\ Shares(holding, e)[from] = IF mine THEN holding[from].amount ELSE 0
              /\ Shares(holding', e)[from] = IF mine THEN holding[from].amount - amount ELSE 0
            BY <2>4 DEF Shares
        <3> HIDE DEF mine
        <3> QED
            BY <1>2, <2>1, <2>4, <3>1, <3>2, <3>3 DEF SupplyInv
    <2>6. \A b \in Accounts : Default(b)' => holding'[b].of = NoDefinition
        BY <2>1, <2>4 DEF SupplyInv, Default
    <2> QED
        BY <2>5, <2>6 DEF SupplyInv
<1>9. ASSUME NEW master \in Accounts, NEW printed \in Accounts, PrintNft(master, printed)
      PROVE  SupplyInv'
    <2>1. /\ master # printed /\ holding[master].kind = "master" /\ Default(printed)
          /\ holding'[master] = [holding[master] EXCEPT !.amount = @ - 1]
          /\ holding'[printed] = [kind |-> "copy", of |-> holding[master].of, amount |-> 1]
          /\ \A c \in Accounts \ {master, printed} : holding'[c] = holding[c]
          /\ definition' = definition
        BY <1>1, <1>9 DEF PrintNft, Default
    <2>2. /\ holding'[master].of = holding[master].of /\ holding'[master].kind = "master"
          /\ holding'[master].amount = holding[master].amount - 1
          /\ holding'[printed].of = holding[master].of /\ holding'[printed].kind = "copy"
          /\ holding'[printed].amount = 1
          /\ holding[master].amount \in Int
        BY <1>1, <2>1 DEF TokenHolding
    <2>3. ASSUME NEW e \in Definitions
          PROVE  Shared(holding', e) = definition'[e].supply
        <3>1. Shared(holding', e) = Shared(holding, e)
                  + (Shares(holding', e)[master] - Shares(holding, e)[master])
                  + (Shares(holding', e)[printed] - Shares(holding, e)[printed])
            BY <1>1, <2>1, SharesChange
        <3>2. Shares(holding, e)[printed] = 0
            BY <1>3, <2>1 DEF Shares, SupplyInv
        <3>3. (Shares(holding', e)[master] - Shares(holding, e)[master])
                  + Shares(holding', e)[printed] = 0
            BY <2>2 DEF Shares
        <3>4. Shares(holding, e)[master] \in Int /\ Shares(holding', e)[master] \in Int
              /\ Shares(holding', e)[printed] \in Int
            BY <1>1, SharesAreNaturals
        <3> QED
            BY <1>2, <2>1, <3>1, <3>2, <3>3, <3>4 DEF SupplyInv
    <2>4. \A b \in Accounts : Default(b)' => holding'[b].of = NoDefinition
        BY <2>1, <2>2 DEF SupplyInv, Default
    <2> QED
        BY <2>3, <2>4 DEF SupplyInv
<1> QED
    BY <1>4, <1>5, <1>6, <1>7, <1>8, <1>9 DEF TokenNext

(* The supply a definition records is what its holdings add up to, under   *)
(* any sequence of instructions.                                           *)
THEOREM SupplyInvariant == TokenSpec => []SupplyInv
<1>1. TokenInit => SupplyInv
    <2> SUFFICES ASSUME TokenInit PROVE SupplyInv
        OBVIOUS
    <2>1. \A d \in Definitions, a \in Accounts : Shares(holding, d)[a] = 0
        BY DEF TokenInit, Shares, Zeroized
    <2>2. \A d \in Definitions : Shared(holding, d) = 0
        BY <2>1, TokenAssumption, TotalZero DEF Shared
    <2> QED
        BY <2>2 DEF TokenInit, SupplyInv, Default, Zeroized
<1>2. SupplyInv /\ UNCHANGED tokenVars => SupplyInv'
    BY DEF SupplyInv, tokenVars, Default
<1>3. TokenInv /\ TokenInv' /\ SupplyInv /\ [TokenNext]_tokenVars => SupplyInv'
    BY <1>2, SupplyStep
<1> QED
    BY <1>1, <1>3, TokenInvariant, PTL DEF TokenSpec

(* Tokens come into being by definitions and mints alone and leave by burns  *)
(* alone: transfers, prints and new holdings never change what is held in   *)
(* all, which is the supply that the definition states.                     *)
THEOREM SupplyAlwaysAccounted == TokenSpec => []SupplyAccounted
<1>1. TokenInv /\ SupplyInv => SupplyAccounted
    <2> SUFFICES ASSUME TokenInv, SupplyInv, NEW d \in Definitions
                 PROVE  InHoldings(d) = definition[d].supply
        BY DEF SupplyAccounted
    <2>1. InHoldings(d) = Total(Balances, HoldingsOf(d))
        BY DEF InHoldings, Total
    <2>2. Total(Balances, HoldingsOf(d)) = Shared(holding, d)
        BY SharesAddUp DEF Balances, HoldingsOf, TokenInv, TokenTypeOK
    <2> QED
        BY <2>1, <2>2 DEF SupplyInv
<1> QED
    BY <1>1, TokenInvariant, SupplyInvariant, PTL

-----------------------------------------------------------------------------
(* The WLEZ bridge.  Every WLEZ in circulation is backed by a LEZ in the    *)
(* vault.  The proofs are one step per instruction.                         *)

WlezInv == WlezTypeOK /\ VaultBacksSupply

(* A balance may be empty.                                                 *)
LEMMA ZeroIsAmount == 0 \in Amount
BY WlezAssumption, U128Assumption DEF Amount

(* No instruction of the WLEZ program, and no transfer or burn beside it,   *)
(* makes an amount leave the u128 range or the supply exceed the vault.     *)
LEMMA WlezStep ==
    ASSUME WlezInv, [WlezNext]_wlezVars
    PROVE  WlezInv'
<1>1. CASE Initialize
    <2>1. vault >= 0
        BY WlezAssumption, U128Assumption DEF WlezInv, WlezTypeOK, Amount
    <2>2. CASE UNCHANGED wlezVars
        BY <2>2 DEF wlezVars, WlezInv, WlezTypeOK, VaultBacksSupply
    <2>3. CASE ~initialised
        BY <1>1, <2>1, <2>2, <2>3, ZeroIsAmount
           DEF Initialize, WlezInv, WlezTypeOK, VaultBacksSupply
    <2> QED
        BY <1>1, <2>2, <2>3 DEF Initialize
<1> USE WlezAssumption, U128Assumption DEF WlezInv, WlezTypeOK, VaultBacksSupply, Amount, Fits
<1>2. CASE \E u \in Users : CreateHolding(u)
    BY <1>2 DEF CreateHolding
<1>3. CASE \E u, to \in Users, amount \in LezAmounts :
              Wrap(u, to, amount) \/ Unwrap(u, to, amount) \/ TransferWlez(u, to, amount)
    <2> PICK u \in Users, to \in Users, amount \in LezAmounts :
            Wrap(u, to, amount) \/ Unwrap(u, to, amount) \/ TransferWlez(u, to, amount)
        BY <1>3
    <2>1. CASE Wrap(u, to, amount)
        BY <2>1 DEF Wrap
    <2>2. CASE Unwrap(u, to, amount)
        BY <2>2 DEF Unwrap
    <2>3. CASE TransferWlez(u, to, amount)
        BY <2>3 DEF TransferWlez
    <2> QED
        BY <2>1, <2>2, <2>3
<1>4. CASE \E u \in Users, amount \in LezAmounts :
              TransferToVault(u, amount) \/ BurnWlez(u, amount)
    <2> PICK u \in Users, amount \in LezAmounts :
            TransferToVault(u, amount) \/ BurnWlez(u, amount)
        BY <1>4
    <2>1. CASE TransferToVault(u, amount)
        BY <2>1 DEF TransferToVault
    <2>2. CASE BurnWlez(u, amount)
        BY <2>2 DEF BurnWlez
    <2> QED
        BY <2>1, <2>2
<1>5. CASE UNCHANGED wlezVars
    BY <1>5 DEF wlezVars
<1> QED
    BY <1>1, <1>2, <1>3, <1>4, <1>5 DEF WlezNext

(* The program keeps both conjuncts of the inductive invariant.             *)
THEOREM WlezInvariant == WlezSpec => []WlezInv
<1>1. WlezInit => WlezInv
    <2> SUFFICES ASSUME WlezInit PROVE WlezInv
        OBVIOUS
    <2>1. user_native \in [Users -> Amount] /\ user_holding \in [Users -> Amount]
        BY WlezAssumption, U128Assumption, ZeroIsAmount DEF WlezInit
    <2>2. VaultBacksSupply
        BY DEF WlezInit, VaultBacksSupply
    <2> QED
        BY <2>1, <2>2, ZeroIsAmount DEF WlezInit, WlezInv, WlezTypeOK
<1>2. WlezInv /\ [WlezNext]_wlezVars => WlezInv'
    BY WlezStep
<1> QED
    BY <1>1, <1>2, PTL DEF WlezSpec

(* The vault can redeem the whole supply at any time: unwrap's              *)
(* the vault-balance assertion never refuses what has been wrapped.           *)
THEOREM VaultAlwaysBacks == WlezSpec => []VaultBacksSupply
<1>1. WlezInv => VaultBacksSupply
    BY DEF WlezInv
<1> QED
    BY <1>1, WlezInvariant, PTL

-----------------------------------------------------------------------------
(* What all holders have together.                                         *)

(* What the users hold is a number.                                        *)
LEMMA HeldInt == ASSUME NEW f \in [Users -> Int] PROVE Held(f) \in Int
<1>1. Held(f) = Total(f, Users)
    BY DEF Held, Total
<1> QED
    BY <1>1, LezAssumption, TotalInt

(* One holding changes, and the sum by as much.                            *)
LEMMA HeldChange ==
    ASSUME NEW f \in [Users -> Int], NEW g \in [Users -> Int], NEW u \in Users,
           \A w \in Users \ {u} : g[w] = f[w]
    PROVE  Held(g) = Held(f) + g[u] - f[u]
<1>1. Held(f) = Total(f, Users) /\ Held(g) = Total(g, Users)
    BY DEF Held, Total
<1> QED
    BY <1>1, LezAssumption, TotalChange

(* A transfer between users leaves the sum.                                *)
LEMMA HeldMoves ==
    ASSUME NEW f \in [Users -> Int], NEW g \in [Users -> Int],
           NEW u \in Users, NEW w \in Users, u # w,
           g[u] + g[w] = f[u] + f[w],
           \A v \in Users \ {u, w} : g[v] = f[v]
    PROVE  Held(g) = Held(f)
<1> DEFINE h == [v \in Users |-> IF v = u THEN g[u] ELSE f[v]]
<1>1. h \in [Users -> Int] /\ h[u] = g[u] /\ h[w] = f[w]
    OBVIOUS
<1>2. \A v \in Users \ {u} : h[v] = f[v]
    OBVIOUS
<1>3. \A v \in Users \ {w} : g[v] = h[v]
    OBVIOUS
<1> HIDE DEF h
<1>4. Held(h) = Held(f) + h[u] - f[u]
    BY <1>1, <1>2, HeldChange
<1>5. Held(g) = Held(h) + g[w] - h[w]
    BY <1>1, <1>3, HeldChange
<1> QED
    BY <1>1, <1>4, <1>5, HeldInt

(* No holder has more than all have together.                              *)
LEMMA HeldCovers ==
    ASSUME NEW f \in [Users -> Nat], NEW u \in Users
    PROVE  f[u] <= Held(f)
<1>1. Held(f) = Total(f, Users)
    BY DEF Held, Total
<1>2. Total(f, Users) = f[u] + Total(f, Users \ {u})
    BY LezAssumption, TotalRemove
<1>3. Total(f, Users \ {u}) \in Nat
    BY LezAssumption, TotalPart
<1> QED
    BY <1>1, <1>2, <1>3

(* The strengthening: the sums behind both properties, that WLEZ is only in *)
(* holdings that exist, and that there is none before the definition.       *)
WlezSums ==
    /\ Held(user_holding) = total_supply
    /\ NativeConserved
    /\ \A u \in Users : user_holding[u] > 0 => u \in holding_exists
    /\ ~initialised => total_supply = 0

(* Every step keeps the two sums.                                          *)
LEMMA WlezSumsStep ==
    ASSUME WlezInv, WlezInv', WlezSums, [WlezNext]_wlezVars
    PROVE  WlezSums'
<1>0. user_native' \in [Users -> Int] /\ user_holding' \in [Users -> Int]
    BY U128Assumption DEF WlezInv, WlezTypeOK, Amount
<1>1. /\ user_native \in [Users -> Int] /\ user_holding \in [Users -> Int]
      /\ user_native \in [Users -> Nat] /\ user_holding \in [Users -> Nat]
      /\ vault \in Nat /\ total_supply \in Nat /\ Held(InitialNative) \in Int
    BY U128Assumption, LezAssumption DEF WlezInv, WlezTypeOK, Amount
<1> USE DEF WlezSums, NativeConserved
<1>2. CASE Initialize
    BY <1>1, <1>2 DEF Initialize, wlezVars
<1>3. CASE \E u \in Users : CreateHolding(u)
    BY <1>1, <1>3 DEF CreateHolding
<1>4. ASSUME NEW u \in Users, NEW to \in Users, NEW amount \in LezAmounts,
             Wrap(u, to, amount)
      PROVE  WlezSums'
    <2>1. amount \in Int
        BY U128Assumption, WlezAssumption DEF Amount
    <2>2. /\ user_native'[u] = user_native[u] - amount
          /\ user_holding'[to] = user_holding[to] + amount
          /\ \A w \in Users \ {u} : user_native'[w] = user_native[w]
          /\ \A w \in Users \ {to} : user_holding'[w] = user_holding[w]
        BY <1>1, <1>4 DEF Wrap
    <2>3. Held(user_native') = Held(user_native) - amount
        <3>1. Held(user_native') = Held(user_native) + user_native'[u] - user_native[u]
            BY <1>0, <1>1, <2>2, HeldChange
        <3>2. Held(user_native) \in Int /\ user_native[u] \in Int
            BY <1>1, HeldInt
        <3> QED
            BY <2>1, <2>2, <3>1, <3>2
    <2>4. Held(user_holding') = Held(user_holding) + amount
        <3>1. Held(user_holding') = Held(user_holding) + user_holding'[to] - user_holding[to]
            BY <1>0, <1>1, <2>2, HeldChange
        <3>2. Held(user_holding) \in Int /\ user_holding[to] \in Int
            BY <1>1, HeldInt
        <3> QED
            BY <2>1, <2>2, <3>1, <3>2
    <2> QED
        <3>1. Held(user_holding)' = total_supply'
            BY <1>1, <1>4, <2>1, <2>4 DEF Wrap
        <3>2. NativeConserved'
            BY <1>1, <1>4, <2>1, <2>3, HeldInt DEF Wrap
        <3>3. initialised' /\ \A w \in Users : user_holding'[w] > 0 => w \in holding_exists'
            BY <1>1, <1>4, <2>1 DEF Wrap
        <3> QED
            BY <3>1, <3>2, <3>3
<1>5. ASSUME NEW u \in Users, NEW to \in Users, NEW amount \in LezAmounts,
             Unwrap(u, to, amount)
      PROVE  WlezSums'
    <2>1. amount \in Int
        BY U128Assumption, WlezAssumption DEF Amount
    <2>2. /\ user_native'[to] = user_native[to] + amount
          /\ user_holding'[u] = user_holding[u] - amount
          /\ \A w \in Users \ {to} : user_native'[w] = user_native[w]
          /\ \A w \in Users \ {u} : user_holding'[w] = user_holding[w]
        BY <1>1, <1>5 DEF Unwrap
    <2>3. Held(user_native') = Held(user_native) + amount
        <3>1. Held(user_native') = Held(user_native) + user_native'[to] - user_native[to]
            BY <1>0, <1>1, <2>2, HeldChange
        <3>2. Held(user_native) \in Int /\ user_native[to] \in Int
            BY <1>1, HeldInt
        <3> QED
            BY <2>1, <2>2, <3>1, <3>2
    <2>4. Held(user_holding') = Held(user_holding) - amount
        <3>1. Held(user_holding') = Held(user_holding) + user_holding'[u] - user_holding[u]
            BY <1>0, <1>1, <2>2, HeldChange
        <3>2. Held(user_holding) \in Int /\ user_holding[u] \in Int
            BY <1>1, HeldInt
        <3> QED
            BY <2>1, <2>2, <3>1, <3>2
    <2> QED
        <3>1. Held(user_holding)' = total_supply'
            BY <1>1, <1>5, <2>1, <2>4 DEF Unwrap
        <3>2. NativeConserved'
            BY <1>1, <1>5, <2>1, <2>3, HeldInt DEF Unwrap
        <3>3. initialised' /\ \A w \in Users : user_holding'[w] > 0 => w \in holding_exists'
            BY <1>1, <1>5, <2>1 DEF Unwrap
        <3> QED
            BY <3>1, <3>2, <3>3
<1>6. ASSUME NEW u \in Users, NEW to \in Users, NEW amount \in LezAmounts,
             TransferWlez(u, to, amount)
      PROVE  WlezSums'
    <2>1. amount \in Int
        BY U128Assumption, WlezAssumption DEF Amount
    <2>2. /\ u # to
          /\ user_holding'[u] + user_holding'[to] = user_holding[u] + user_holding[to]
          /\ \A w \in Users \ {u, to} : user_holding'[w] = user_holding[w]
        BY <1>1, <1>6, <2>1 DEF TransferWlez
    <2>3. Held(user_holding') = Held(user_holding)
        BY <1>0, <1>1, <2>2, HeldMoves
    <2> QED
        BY <1>1, <1>6, <2>1, <2>2, <2>3 DEF TransferWlez
<1>7. ASSUME NEW u \in Users, NEW amount \in LezAmounts, TransferToVault(u, amount)
      PROVE  WlezSums'
    <2>1. amount \in Int
        BY U128Assumption, WlezAssumption DEF Amount
    <2>2. /\ user_native'[u] = user_native[u] - amount
          /\ \A w \in Users \ {u} : user_native'[w] = user_native[w]
        BY <1>1, <1>7 DEF TransferToVault
    <2>3. Held(user_native') = Held(user_native) - amount /\ Held(user_native) \in Int
        <3>1. Held(user_native') = Held(user_native) + user_native'[u] - user_native[u]
            BY <1>0, <1>1, <2>2, HeldChange
        <3>2. Held(user_native) \in Int /\ user_native[u] \in Int
            BY <1>1, HeldInt
        <3> QED
            BY <2>1, <2>2, <3>1, <3>2
    <2> QED
        BY <1>1, <1>7, <2>1, <2>2, <2>3 DEF TransferToVault
<1>8. ASSUME NEW u \in Users, NEW amount \in LezAmounts, BurnWlez(u, amount)
      PROVE  WlezSums'
    <2>1. amount \in Nat
        BY U128Assumption, WlezAssumption DEF Amount
    <2>2. /\ user_holding'[u] = user_holding[u] - amount
          /\ \A w \in Users \ {u} : user_holding'[w] = user_holding[w]
        BY <1>1, <1>8 DEF BurnWlez
    <2>3. Held(user_holding') = Held(user_holding) - amount
        <3>1. Held(user_holding') = Held(user_holding) + user_holding'[u] - user_holding[u]
            BY <1>0, <1>1, <2>2, HeldChange
        <3>2. Held(user_holding) \in Int /\ user_holding[u] \in Int
            BY <1>1, HeldInt
        <3> QED
            BY <2>1, <2>2, <3>1, <3>2
    <2> QED
        BY <1>1, <1>8, <2>1, <2>2, <2>3 DEF BurnWlez
<1>9. CASE UNCHANGED wlezVars
    BY <1>9 DEF wlezVars
<1> QED
    BY <1>2, <1>3, <1>4, <1>5, <1>6, <1>7, <1>8, <1>9 DEF WlezNext

(* LEZ is neither made nor lost by wrapping, and every unit of WLEZ is a   *)
(* unit of LEZ in the vault, whoever wraps, unwraps and transfers          *)
(* (src/programs/wlez_bridge).                                             *)
THEOREM WlezSumsInvariant == WlezSpec => []WlezSums
<1>1. WlezInit => WlezSums
    <2> SUFFICES ASSUME WlezInit PROVE WlezSums
        OBVIOUS
    <2>1. Held(user_holding) = Total(user_holding, Users)
        BY DEF Held, Total
    <2>2. Total(user_holding, Users) = 0
        BY LezAssumption, TotalZero DEF WlezInit
    <2>3. vault + Held(user_native) = Held(InitialNative)
        BY U128Assumption, LezAssumption DEF WlezInit, Amount
    <2> QED
        BY <2>1, <2>2, <2>3 DEF WlezInit, WlezSums, NativeConserved
<1>2. WlezInv /\ WlezInv' /\ WlezSums /\ [WlezNext]_wlezVars => WlezSums'
    BY WlezSumsStep
<1> QED
    BY <1>1, <1>2, WlezInvariant, PTL DEF WlezSpec

(* LEZ is neither made nor lost by wrapping, unwrapping, giving and burning. *)
THEOREM NativeAlwaysConserved == WlezSpec => []NativeConserved
<1>1. WlezSums => NativeConserved
    BY DEF WlezSums
<1> QED
    BY <1>1, WlezSumsInvariant, PTL

(* Whoever holds WLEZ can have all of it unwrapped, to any account: neither  *)
(* the vault nor the supply nor the receiver's balance is in the way.       *)
THEOREM WlezAlwaysRedeemable == WlezSpec => []AlwaysRedeemable
<1>1. WlezInv /\ WlezSums => AlwaysRedeemable
    <2> SUFFICES ASSUME WlezInv, WlezSums, NEW u \in Users, NEW to \in Users, user_holding[u] > 0
                 PROVE  /\ vault >= user_holding[u]
                        /\ u \in holding_exists
                        /\ Fits(user_native[to] + user_holding[u])
        BY DEF AlwaysRedeemable, WlezSums
    <2>1. /\ user_native \in [Users -> Nat] /\ user_holding \in [Users -> Nat]
          /\ vault \in Nat /\ total_supply \in Nat
          /\ Held(InitialNative) \in Int /\ Held(InitialNative) <= U128_MAX
        BY U128Assumption, LezAssumption DEF WlezInv, WlezTypeOK, Amount
    <2>2. user_holding[u] <= Held(user_holding) /\ user_native[to] <= Held(user_native)
        BY <2>1, HeldCovers
    <2>3. vault >= user_holding[u]
        BY <2>1, <2>2 DEF WlezInv, VaultBacksSupply, WlezSums
    <2>4. Held(user_native) \in Int
        BY <2>1, HeldInt
    <2>5. user_native[to] + user_holding[u] <= Held(InitialNative)
        BY <2>1, <2>2, <2>3, <2>4 DEF WlezSums, NativeConserved
    <2> QED
        BY <2>1, <2>3, <2>5, U128Assumption DEF WlezSums, Fits
<1> QED
    BY <1>1, WlezInvariant, WlezSumsInvariant, PTL

-----------------------------------------------------------------------------
(* The oracle.  What a chart reads off two observations is the integral of  *)
(* the price between them, and the ring is in order.                        *)

-----------------------------------------------------------------------------
(* Congruence modulo the width of an accumulator.                          *)

Cong(x, y) == \E k \in Int : x = y + k * Modulus

(* The width of the accumulators.                                          *)
LEMMA ModulusFacts == Modulus \in Nat \ {0}
<1>1. Q64 \in Nat \ {0}
  BY PoolOracleAssumption
<1>2. Q64 * Q64 \in Nat /\ Q64 * Q64 # 0
  BY <1>1, Z3
<1> QED
  BY <1>2 DEF Modulus

(* Quotient and remainder, of a negative number too.                       *)
LEMMA RemainderFacts ==
    ASSUME NEW x \in Int, NEW m \in Nat \ {0}
    PROVE  /\ x % m \in Nat /\ x % m < m
           /\ x \div m \in Int
           /\ x = m * (x \div m) + (x % m)
  BY Z3

(* Two remainders that differ by a multiple of the divisor are the same.     *)
LEMMA NoOtherRemainder ==
    ASSUME NEW m \in Nat \ {0}, NEW r \in Nat, NEW s \in Nat, r < m, s < m,
           NEW j \in Int, r = s + j * m
    PROVE  r = s
<1>1. CASE j >= 1
  <2>1. j * m >= m
    BY <1>1, Z3
  <2>2. j * m \in Int
    OBVIOUS
  <2> QED
    BY <2>1, <2>2
<1>2. CASE j <= -1
  <2>1. j * m <= -m
    BY <1>2, Z3
  <2>2. j * m \in Int
    OBVIOUS
  <2> QED
    BY <2>1, <2>2
<1>3. CASE j = 0
  BY <1>3
<1> QED
  BY <1>1, <1>2, <1>3

(* Congruence is having the same remainder.                                *)
LEMMA CongIsEqualMod ==
    ASSUME NEW x \in Int, NEW y \in Int
    PROVE  Cong(x, y) <=> x % Modulus = y % Modulus
<1> DEFINE m == Modulus
           p == x \div m
           q == y \div m
           r == x % m
           s == y % m
<1>1. m \in Nat \ {0}
  BY ModulusFacts
<1> HIDE DEF m
<1>2. /\ r \in Nat /\ r < m /\ p \in Int /\ x = m * p + r
      /\ s \in Nat /\ s < m /\ q \in Int /\ y = m * q + s
  BY <1>1, RemainderFacts
<1> HIDE DEF p, q, r, s
<1>3. ASSUME r = s PROVE Cong(x, y)
  <2>1. x = y + (p - q) * m
    BY <1>1, <1>2, <1>3, Z3
  <2>2. p - q \in Int
    BY <1>2
  <2> QED
    BY <2>1, <2>2 DEF Cong, m
<1>4. ASSUME Cong(x, y) PROVE r = s
  <2>1. PICK k \in Int : x = y + k * m
    BY <1>4 DEF Cong, m
  <2>2. r = s + (q - p + k) * m
    BY <1>1, <1>2, <2>1, Z3
  <2>3. q - p + k \in Int
    BY <1>2, <2>1
  <2> QED
    BY <1>1, <1>2, <2>2, <2>3, NoOtherRemainder
<1> QED
  BY <1>3, <1>4 DEF r, s, m

(* Congruence is an equivalence, kept by sums and differences.             *)
LEMMA CongRefl ==
    ASSUME NEW x \in Int
    PROVE  Cong(x, x)
<1>1. x = x + 0 * Modulus
  BY ModulusFacts
<1> QED
  BY <1>1 DEF Cong

(* It is symmetric.                                                        *)
LEMMA CongSym ==
    ASSUME NEW x \in Int, NEW y \in Int, Cong(x, y)
    PROVE  Cong(y, x)
<1>1. x % Modulus = y % Modulus
  BY CongIsEqualMod
<1> QED
  BY <1>1, CongIsEqualMod

(* It is transitive.                                                       *)
LEMMA CongTrans ==
    ASSUME NEW x \in Int, NEW y \in Int, NEW z \in Int, Cong(x, y), Cong(y, z)
    PROVE  Cong(x, z)
<1>1. x % Modulus = y % Modulus /\ y % Modulus = z % Modulus
  BY CongIsEqualMod
<1> QED
  BY <1>1, CongIsEqualMod

(* Sums are congruent.                                                     *)
LEMMA CongAdd ==
    ASSUME NEW a \in Int, NEW b \in Int, NEW c \in Int, NEW d \in Int,
           Cong(a, b), Cong(c, d)
    PROVE  Cong(a + c, b + d)
<1> DEFINE m == Modulus
<1>1. m \in Nat \ {0}
  BY ModulusFacts
<1>2. PICK k \in Int : a = b + k * m
  BY DEF Cong
<1>3. PICK l \in Int : c = d + l * m
  BY DEF Cong
<1> HIDE DEF m
<1>4. a + c = b + d + (k + l) * m
  BY <1>1, <1>2, <1>3, Z3
<1>5. k + l \in Int
  BY <1>2, <1>3
<1> QED
  BY <1>4, <1>5 DEF Cong, m

(* Differences are congruent.                                              *)
LEMMA CongSub ==
    ASSUME NEW a \in Int, NEW b \in Int, NEW c \in Int, NEW d \in Int,
           Cong(a, b), Cong(c, d)
    PROVE  Cong(a - c, b - d)
<1> DEFINE m == Modulus
<1>1. m \in Nat \ {0}
  BY ModulusFacts
<1>2. PICK k \in Int : a = b + k * m
  BY DEF Cong
<1>3. PICK l \in Int : c = d + l * m
  BY DEF Cong
<1> HIDE DEF m
<1>4. a - c = b - d + (k - l) * m
  BY <1>1, <1>2, <1>3, Z3
<1>5. k - l \in Int
  BY <1>2, <1>3
<1> QED
  BY <1>4, <1>5 DEF Cong, m

(* Shifted by the same, numbers stay congruent.                            *)
LEMMA CongShift ==
    ASSUME NEW a \in Int, NEW b \in Int, NEW c \in Int, Cong(a, b)
    PROVE  Cong(a + c, b + c) /\ Cong(a - c, b - c)
<1>1. Cong(c, c)
  BY CongRefl
<1> QED
  BY <1>1, CongAdd, CongSub

(* An accumulator that wraps is congruent to one that does not.            *)
LEMMA WrapFacts ==
    ASSUME NEW x \in Int
    PROVE  /\ x % Modulus \in Nat
           /\ Cong(x % Modulus, x)
<1> DEFINE m == Modulus
           p == x \div m
           r == x % m
<1>1. m \in Nat \ {0}
  BY ModulusFacts
<1> HIDE DEF m
<1>2. r \in Nat /\ p \in Int /\ x = m * p + r
  BY <1>1, RemainderFacts
<1> HIDE DEF p, r
<1>3. r = x + (-p) * m /\ -p \in Int
  BY <1>1, <1>2, Z3
<1> QED
  BY <1>2, <1>3 DEF Cong, m, r

-----------------------------------------------------------------------------
(* The ring after a push: its newest entries, in their order.               *)
LEMMA NewestFacts ==
    ASSUME NEW S, NEW ring \in Seq(S)
    PROVE  /\ Newest(ring) \in Seq(S)
           /\ Len(Newest(ring)) <= ORACLE_RING_CAP
           /\ \E d \in Nat :
                 /\ Len(ring) = Len(Newest(ring)) + d
                 /\ \A i \in 1 .. Len(Newest(ring)) : Newest(ring)[i] = ring[i + d]
<1>1. ORACLE_RING_CAP \in Nat \ {0} /\ Len(ring) \in Nat
  BY PoolOracleAssumption
<1>2. CASE Len(ring) > ORACLE_RING_CAP
  <2> DEFINE d == Len(ring) - ORACLE_RING_CAP
             sub == SubSeq(ring, d + 1, Len(ring))
  <2>1. d \in Nat /\ d + 1 \in 1 .. Len(ring) /\ Newest(ring) = sub
    BY <1>1, <1>2 DEF Newest
  <2>2. sub \in Seq(S) /\ Len(sub) = ORACLE_RING_CAP
        /\ \A i \in 1 .. Len(sub) : sub[i] = ring[i + d]
    BY <1>1, <2>1
  <2> HIDE DEF sub
  <2>3. Len(ring) = Len(sub) + d
    BY <1>1, <2>2
  <2> HIDE DEF d
  <2> QED
    BY <2>1, <2>2, <2>3, <1>1
<1>3. CASE ~(Len(ring) > ORACLE_RING_CAP)
  <2>1. Newest(ring) = ring /\ Len(ring) <= ORACLE_RING_CAP
    BY <1>1, <1>3 DEF Newest
  <2>2. \A i \in 1 .. Len(ring) : ring[i] = ring[i + 0]
    BY <1>1
  <2> QED
    BY <1>1, <2>1, <2>2
<1> QED
  BY <1>2, <1>3

-----------------------------------------------------------------------------
(* The invariant: what is stored, and how it relates to the true integral.   *)

Pair == [Side -> Nat]

TypeInv ==
    /\ clock \in Nat /\ block_ts_last \in Nat /\ block_ts_last <= clock
    /\ reserve \in Pair /\ price_cum_last \in Pair
    /\ obs \in Seq(Observation)
    /\ integral \in Seq(Pair) /\ Len(integral) = clock + 1
    /\ ~USES_CLOCK => block_ts_last = 0
    /\ ~USES_CLOCK \/ ~pool_exists => obs = <<>>

RingInv ==
    /\ RingOrdered
    /\ \A i \in 1 .. Len(obs) : obs[i].ts <= block_ts_last

(* Since the last update the price has not changed, ...                     *)
PriceHeld(s) ==
    Cong(integral[clock + 1][s],
         integral[block_ts_last + 1][s] + HeldPrice(s) * (clock - block_ts_last))

(* ... and the accumulator is as far from each observation as the integral.  *)
AsFar(s, i) ==
    Cong(price_cum_last[s] - obs[i].cum[s],
         integral[block_ts_last + 1][s] - integral[obs[i].ts + 1][s])

Books ==
    USES_CLOCK /\ ~blind_move /\ pool_exists =>
        \A s \in Side : /\ PriceHeld(s)
                        /\ \A i \in 1 .. Len(obs) : AsFar(s, i)

OracleInv == TypeInv /\ RingInv /\ Books

-----------------------------------------------------------------------------
(* A quotient is a number.                                                 *)
LEMMA DivIsNat ==
    ASSUME NEW n \in Nat, NEW d \in Nat \ {0}
    PROVE  n \div d \in Nat
  BY Z3

(* A price is a number.                                                    *)
LEMMA PriceFacts ==
    ASSUME TypeInv, NEW s \in Side
    PROVE  /\ HeldPrice(s) \in Nat
           /\ (\A t \in Side : reserve[t] # 0) => Price(s) \in Nat
<1>1. reserve[s] \in Nat /\ reserve[Other(s)] \in Nat /\ Q64 \in Nat
  BY PoolOracleAssumption DEF TypeInv, Pair, Side, Other
<1>2. reserve[Other(s)] * Q64 \in Nat
  BY <1>1
<1>3. ASSUME \A t \in Side : reserve[t] # 0 PROVE Price(s) \in Nat
  <2>1. reserve[s] \in Nat \ {0}
    BY <1>1, <1>3
  <2> QED
    BY <2>1, <1>2, DivIsNat DEF Price
<1>4. HeldPrice(s) \in Nat
  BY <1>3 DEF HeldPrice
<1> QED
  BY <1>3, <1>4

(* Looking up the ring and the integral.                                   *)
LEMMA LookupFacts ==
    ASSUME TypeInv, RingInv
    PROVE  /\ \A t \in 0 .. clock, s \in Side : integral[t + 1][s] \in Nat
           /\ \A i \in 1 .. Len(obs) :
                 /\ obs[i].ts \in 0 .. clock
                 /\ \A s \in Side : obs[i].cum[s] \in Nat
           /\ Len(obs) \in Nat
           /\ \A s \in Side : price_cum_last[s] \in Nat
<1>1. ASSUME NEW t \in 0 .. clock, NEW s \in Side PROVE integral[t + 1][s] \in Nat
  <2>1. t + 1 \in 1 .. Len(integral)
    BY DEF TypeInv
  <2>2. integral[t + 1] \in Pair
    BY <2>1 DEF TypeInv
  <2> QED
    BY <2>2 DEF Pair
<1>2. ASSUME NEW i \in 1 .. Len(obs)
      PROVE  obs[i].ts \in 0 .. clock /\ \A s \in Side : obs[i].cum[s] \in Nat
  <2>1. obs[i] \in Observation
    BY DEF TypeInv
  <2>2. obs[i].ts \in Nat /\ obs[i].cum \in [Side -> Nat]
    BY <2>1 DEF Observation
  <2>3. obs[i].ts <= block_ts_last /\ block_ts_last <= clock /\ clock \in Nat
        /\ block_ts_last \in Nat
    BY DEF TypeInv, RingInv
  <2> QED
    BY <2>2, <2>3
<1> QED
  BY <1>1, <1>2 DEF TypeInv, Pair

(* A call of oracle_update closes the books up to now: it either adds the     *)
(* price held so far and pushes, or moves the timestamp over an interval     *)
(* that counts nothing.                                                    *)
LEMMA UpdateFacts ==
    ASSUME TypeInv, OracleUpdate(ClockArg)
    PROVE  /\ block_ts_last' \in Nat /\ block_ts_last <= block_ts_last'
           /\ block_ts_last' <= clock
           /\ USES_CLOCK => block_ts_last' = clock
           /\ ~USES_CLOCK => block_ts_last' = 0
           /\ \/ /\ UNCHANGED <<price_cum_last, obs>>
                 /\ \A s \in Side : block_ts_last' # block_ts_last => HeldPrice(s) = 0
              \/ /\ USES_CLOCK /\ Accumulate(clock) /\ block_ts_last < clock
                 /\ \A t \in Side : reserve[t] # 0
                 /\ InDomain
<1>1. clock \in Nat /\ block_ts_last \in Nat /\ block_ts_last <= clock
      /\ (~USES_CLOCK => block_ts_last = 0)
  BY DEF TypeInv
<1>2. ClockArg \in Nat /\ ClockArg <= clock /\ (USES_CLOCK => ClockArg = clock)
      /\ (~USES_CLOCK => ClockArg = 0)
  BY <1>1 DEF ClockArg
<1>3. CASE (\E s \in Side : reserve[s] = 0) /\ Rebase(ClockArg)
  <2>1. \A s \in Side : HeldPrice(s) = 0
    BY <1>3 DEF HeldPrice
  <2> QED
    BY <1>1, <1>2, <1>3, <2>1 DEF Rebase, ClockArg
<1>4. CASE ClockArg <= block_ts_last /\ UNCHANGED oracleVars
  BY <1>1, <1>2, <1>4 DEF oracleVars
<1>5. CASE ~InDomain /\ ClockArg > block_ts_last /\ Rebase(ClockArg)
  <2>1. \A s \in Side : HeldPrice(s) = 0
    BY <1>5 DEF HeldPrice
  <2> QED
    BY <1>1, <1>2, <1>5, <2>1 DEF Rebase
<1>6. CASE /\ \A s \in Side : reserve[s] # 0
           /\ ClockArg > block_ts_last
           /\ InDomain
           /\ Accumulate(ClockArg)
  <2>1. USES_CLOCK /\ ClockArg = clock
    BY <1>1, <1>2, <1>6
  <2> QED
    BY <1>1, <1>6, <2>1 DEF Accumulate
<1> QED
  BY <1>3, <1>4, <1>5, <1>6 DEF OracleUpdate

-----------------------------------------------------------------------------
(* Accumulating and pushing keeps the ring and the books.                   *)
LEMMA PushFacts ==
    ASSUME TypeInv, RingInv, Accumulate(clock), block_ts_last < clock,
           \A t \in Side : reserve[t] # 0
    PROVE  /\ price_cum_last' \in Pair
           /\ \A s \in Side : Cong(price_cum_last'[s],
                 price_cum_last[s] + Price(s) * (clock - block_ts_last))
           /\ obs' \in Seq(Observation)
           /\ RingInv'
           /\ \A j \in 1 .. Len(obs') :
                 \/ obs'[j] = [ts |-> clock, cum |-> price_cum_last']
                 \/ \E i \in 1 .. Len(obs) : obs'[j] = obs[i]
<1> DEFINE e == [ts |-> clock, cum |-> price_cum_last']
           ring == Append(obs, e)
<1>1. clock \in Nat /\ block_ts_last \in Nat /\ clock - block_ts_last \in Nat
  BY DEF TypeInv
<1>2. ASSUME NEW s \in Side
      PROVE  /\ price_cum_last'[s] \in Nat
             /\ Cong(price_cum_last'[s],
                     price_cum_last[s] + Price(s) * (clock - block_ts_last))
  <2> DEFINE x == price_cum_last[s] + Price(s) * (clock - block_ts_last)
  <2>1. price_cum_last[s] \in Nat /\ Price(s) \in Nat
    BY PriceFacts, LookupFacts
  <2>2. Price(s) * (clock - block_ts_last) \in Nat
    BY <1>1, <2>1
  <2>3. x \in Int
    BY <2>1, <2>2
  <2>4. price_cum_last'[s] = x % Modulus
    BY DEF Accumulate, Modulus
  <2> HIDE DEF x
  <2>5. price_cum_last'[s] \in Nat /\ Cong(price_cum_last'[s], x)
    BY <2>3, <2>4, WrapFacts
  <2> QED
    BY <2>5 DEF x
<1>3. price_cum_last' \in Pair
  <2>1. price_cum_last' = [s \in Side |-> price_cum_last'[s]]
    BY DEF Accumulate
  <2> QED
    BY <2>1, <1>2 DEF Pair
<1>4. e \in Observation
  BY <1>1, <1>3 DEF Observation, Pair
<1>5. block_ts_last' = clock /\ obs' = Newest(ring)
  BY DEF Accumulate
<1>6. obs \in Seq(Observation) /\ Len(obs) \in Nat
  BY DEF TypeInv
<1>7. e.ts = clock /\ e.cum = price_cum_last'
  OBVIOUS
<1> HIDE DEF e
<1>8. /\ ring \in Seq(Observation) /\ Len(ring) = Len(obs) + 1
      /\ ring[Len(obs) + 1] = e
      /\ \A i \in 1 .. Len(obs) : ring[i] = obs[i]
  BY <1>4, <1>6
<1> HIDE DEF ring
<1>9. /\ obs' \in Seq(Observation) /\ Len(obs') <= ORACLE_RING_CAP /\ Len(obs') \in Nat
      /\ \E d \in Nat : /\ Len(ring) = Len(obs') + d
                        /\ \A i \in 1 .. Len(obs') : obs'[i] = ring[i + d]
  <2> DEFINE newest == Newest(ring)
  <2>1. /\ newest \in Seq(Observation) /\ Len(newest) <= ORACLE_RING_CAP
        /\ \E d \in Nat : /\ Len(ring) = Len(newest) + d
                          /\ \A i \in 1 .. Len(newest) : newest[i] = ring[i + d]
    <3>1. ring \in Seq(Observation)
      BY <1>8
    <3> QED
      BY <3>1, NewestFacts, Zenon
  <2> HIDE DEF newest
  <2>2. Len(newest) \in Nat
    BY <2>1
  <2>3. obs' = newest
    BY <1>5 DEF newest
  <2> QED
    BY <2>1, <2>2, <2>3, Zenon
<1>10. PICK d \in Nat : /\ Len(obs) + 1 = Len(obs') + d
                        /\ \A i \in 1 .. Len(obs') : obs'[i] = ring[i + d]
  BY <1>8, <1>9
<1>11. \A j \in 1 .. Len(obs') : obs'[j] = e \/ \E i \in 1 .. Len(obs) : obs'[j] = obs[i]
  <2> TAKE j \in 1 .. Len(obs')
  <2>1. obs'[j] = ring[j + d] /\ j + d \in 1 .. (Len(obs) + 1)
    BY <1>6, <1>9, <1>10
  <2>2. CASE j + d = Len(obs) + 1
    BY <2>1, <2>2, <1>8
  <2>3. CASE j + d # Len(obs) + 1
    <3>1. j + d \in 1 .. Len(obs)
      BY <2>1, <2>3, <1>6
    <3> QED
      BY <2>1, <3>1, <1>8
  <2> QED
    BY <2>2, <2>3
<1>12. \A i, j \in 1 .. Len(ring) : i < j => ring[i].ts < ring[j].ts
  <2> TAKE i, j \in 1 .. Len(ring)
  <2> HAVE i < j
  <2>1. i \in 1 .. Len(obs)
    BY <1>6, <1>8
  <2>2. obs[i].ts <= block_ts_last /\ obs[i].ts \in 0 .. clock
    BY <2>1, LookupFacts DEF RingInv
  <2>3. CASE j = Len(obs) + 1
    BY <2>1, <2>2, <2>3, <1>1, <1>7, <1>8
  <2>4. CASE j # Len(obs) + 1
    <3>1. j \in 1 .. Len(obs)
      BY <2>4, <1>6, <1>8
    <3> QED
      BY <2>1, <3>1, <1>8 DEF RingInv, RingOrdered
  <2> QED
    BY <2>3, <2>4
<1>13. \A i \in 1 .. Len(obs') : i + d \in 1 .. Len(ring)
  BY <1>6, <1>8, <1>9, <1>10
<1>14. \A i, j \in 1 .. Len(obs') : i < j => obs'[i].ts < obs'[j].ts
  <2> TAKE i, j \in 1 .. Len(obs')
  <2> HAVE i < j
  <2>1. i + d \in 1 .. Len(ring) /\ j + d \in 1 .. Len(ring) /\ i + d < j + d
    BY <1>9, <1>13
  <2>2. ring[i + d].ts < ring[j + d].ts
    BY <2>1, <1>12
  <2> QED
    BY <2>2, <1>10
<1>15. \A i \in 1 .. Len(obs') : obs'[i].ts <= block_ts_last'
  <2> TAKE i \in 1 .. Len(obs')
  <2>1. CASE obs'[i] = e
    BY <2>1, <1>1, <1>5, <1>7
  <2>2. CASE \E k \in 1 .. Len(obs) : obs'[i] = obs[k]
    BY <2>2, <1>1, <1>5, LookupFacts
  <2> QED
    BY <2>1, <2>2, <1>11
<1>16. obs' # <<>> => obs'[Len(obs')].ts <= block_ts_last'
                      /\ obs'[Len(obs')].cum = price_cum_last'
  <2> SUFFICES ASSUME obs' # <<>> PROVE obs'[Len(obs')] = e
    BY <1>1, <1>5, <1>7
  <2>1. Len(obs') \in 1 .. Len(obs')
    BY <1>9
  <2>2. obs'[Len(obs')] = ring[Len(obs') + d] /\ Len(obs') + d = Len(obs) + 1
    BY <2>1, <1>10
  <2> QED
    BY <2>2, <1>8
<1>17. RingInv'
  BY <1>9, <1>14, <1>15, <1>16 DEF RingInv, RingOrdered
<1> QED
  BY <1>2, <1>3, <1>9, <1>11, <1>17 DEF e

-----------------------------------------------------------------------------
(* So is the next.                                                         *)
LEMMA NextPriceFacts ==
    ASSUME reserve' \in Pair, NEW s \in Side
    PROVE  HeldPrice(s)' \in Nat
<1>1. reserve'[s] \in Nat /\ reserve'[Other(s)] \in Nat /\ Q64 \in Nat
  BY PoolOracleAssumption DEF Pair, Side, Other
<1>2. reserve'[Other(s)] * Q64 \in Nat
  BY <1>1
<1>3. ASSUME \A t \in Side : reserve'[t] # 0 PROVE Price(s)' \in Nat
  <2>1. reserve'[s] \in Nat \ {0}
    BY <1>1, <1>3
  <2> QED
    BY <2>1, <1>2, DivIsNat DEF Price
<1> QED
  BY <1>3 DEF HeldPrice

(* Right after an update the price has been held for no time.               *)
LEMMA JustUpdated ==
    ASSUME OracleInv, clock' = clock, integral' = integral, block_ts_last' = clock,
           reserve' \in Pair, NEW s \in Side
    PROVE  PriceHeld(s)'
<1>1. integral[clock + 1][s] \in Nat /\ clock \in Nat
  BY LookupFacts DEF OracleInv, TypeInv
<1>2. HeldPrice(s)' \in Nat
  BY NextPriceFacts
<1>3. integral[clock + 1][s] + HeldPrice(s)' * (clock - clock) = integral[clock + 1][s]
  BY <1>1, <1>2
<1>4. Cong(integral[clock + 1][s], integral[clock + 1][s])
  BY <1>1, CongRefl
<1>5. PriceHeld(s)' = Cong(integral'[clock' + 1][s],
                           integral'[block_ts_last' + 1][s]
                             + HeldPrice(s)' * (clock' - block_ts_last'))
  BY DEF PriceHeld, Cong, Modulus
<1> QED
  BY <1>3, <1>4, <1>5

(* The next block: the integral grows by the price that is held.            *)
LEMMA AdvanceStep ==
    ASSUME OracleInv, HAdvanceClock
    PROVE  OracleInv'
<1> DEFINE f == [s \in Side |-> (integral[clock + 1][s] + HeldPrice(s)) % Modulus]
<1>1. /\ clock' = clock + 1 /\ integral' = Append(integral, f)
      /\ UNCHANGED <<pool_exists, reserve, price_cum_last, block_ts_last, obs, blind_move>>
  BY DEF HAdvanceClock, AdvanceClock, oracleVars
<1>2. TypeInv /\ RingInv
  BY DEF OracleInv
<1>3. clock \in Nat /\ block_ts_last \in Nat /\ block_ts_last <= clock
      /\ Len(integral) = clock + 1 /\ integral \in Seq(Pair)
  BY <1>2 DEF TypeInv
<1>4. ASSUME NEW s \in Side
      PROVE  /\ f[s] \in Nat
             /\ Cong(f[s], integral[clock + 1][s] + HeldPrice(s))
             /\ integral[clock + 1][s] \in Nat /\ HeldPrice(s) \in Nat
  <2> DEFINE x == integral[clock + 1][s] + HeldPrice(s)
  <2>1. integral[clock + 1][s] \in Nat /\ HeldPrice(s) \in Nat
    BY <1>2, <1>3, LookupFacts, PriceFacts
  <2>2. f[s] = x % Modulus /\ x \in Int
    BY <2>1
  <2> HIDE DEF f, x
  <2>3. f[s] \in Nat /\ Cong(f[s], x)
    BY <2>2, WrapFacts
  <2> QED
    BY <2>1, <2>3 DEF x
<1>5. f \in Pair
  <2>1. f = [s \in Side |-> f[s]]
    OBVIOUS
  <2> HIDE DEF f
  <2> QED
    BY <1>4, <2>1 DEF Pair
<1> HIDE DEF f
<1>6. /\ integral' \in Seq(Pair) /\ Len(integral') = clock' + 1
      /\ integral'[clock' + 1] = f
      /\ \A t \in 0 .. clock : integral'[t + 1] = integral[t + 1]
  <2>1. integral' \in Seq(Pair) /\ Len(integral') = Len(integral) + 1
        /\ integral'[Len(integral) + 1] = f
        /\ \A k \in 1 .. Len(integral) : integral'[k] = integral[k]
    BY <1>1, <1>3, <1>5
  <2>2. \A t \in 0 .. clock : t + 1 \in 1 .. Len(integral)
    BY <1>3
  <2> QED
    BY <2>1, <2>2, <1>1, <1>3
<1>7. TypeInv'
  BY <1>1, <1>2, <1>3, <1>6 DEF TypeInv
<1>8. RingInv'
  BY <1>1, <1>2 DEF RingInv, RingOrdered
<1>9. Books'
  <2> SUFFICES ASSUME USES_CLOCK, ~blind_move, pool_exists, NEW s \in Side
               PROVE  PriceHeld(s)' /\ \A i \in 1 .. Len(obs) : AsFar(s, i)'
    BY <1>1 DEF Books
  <2>1. PriceHeld(s) /\ \A i \in 1 .. Len(obs) : AsFar(s, i)
    BY DEF OracleInv, Books
  <2> DEFINE h == HeldPrice(s)
             old == integral[block_ts_last + 1][s]
             now == integral[clock + 1][s]
  <2>2. h \in Nat /\ old \in Nat /\ now \in Nat
    BY <1>2, <1>3, <1>4, LookupFacts
  <2>3. HeldPrice(s)' = h
    BY <1>1 DEF HeldPrice, Price, InDomain
  <2>4. integral'[block_ts_last' + 1][s] = old /\ integral'[clock' + 1][s] = f[s]
    BY <1>1, <1>3, <1>6
  <2>5. Cong(now, old + h * (clock - block_ts_last)) /\ Cong(f[s], now + h)
    BY <2>1, <1>4 DEF PriceHeld
  <2>6. f[s] \in Nat
    BY <1>4
  <2> HIDE DEF h, old, now
  <2>7. Cong(f[s], old + h * (clock' - block_ts_last'))
    <3>1. h * (clock - block_ts_last) \in Nat
      BY <1>3, <2>2
    <3>2. Cong(now + h, (old + h * (clock - block_ts_last)) + h)
      <4>1. Cong(h, h)
        BY <2>2, CongRefl
      <4> QED
        BY <4>1, <2>2, <2>5, <3>1, CongAdd
    <3>3. (old + h * (clock - block_ts_last)) + h = old + h * (clock' - block_ts_last')
      BY <1>1, <1>3, <2>2, <3>1
    <3>4. Cong(f[s], (old + h * (clock - block_ts_last)) + h)
      BY <2>2, <2>5, <2>6, <3>1, <3>2, CongTrans
    <3> QED
      BY <3>3, <3>4
  <2>8. PriceHeld(s)'
    BY <2>3, <2>4, <2>7 DEF PriceHeld, Cong, Modulus
  <2>9. ASSUME NEW i \in 1 .. Len(obs) PROVE AsFar(s, i)'
    <3>1. obs[i].ts \in 0 .. clock /\ block_ts_last \in 0 .. clock
      BY <1>2, <1>3, LookupFacts
    <3>2. integral'[obs'[i].ts + 1][s] = integral[obs[i].ts + 1][s]
          /\ integral'[block_ts_last' + 1][s] = integral[block_ts_last + 1][s]
      BY <3>1, <1>1, <1>6
    <3>3. AsFar(s, i)
      BY <2>1
    <3> QED
      BY <3>2, <3>3, <1>1 DEF AsFar, Cong, Modulus
  <2> QED
    BY <2>8, <2>9
<1> QED
  BY <1>7, <1>8, <1>9 DEF OracleInv

(* A new pool: no observation, and nothing to account for yet.               *)
LEMMA CreateStep ==
    ASSUME OracleInv, HCreate
    PROVE  OracleInv'
<1>1. /\ ~pool_exists /\ pool_exists' = TRUE
      /\ reserve' \in [Side -> ReserveValues \ {0}]
      /\ block_ts_last' = ClockArg /\ price_cum_last' = [s \in Side |-> 0]
      /\ obs' = <<>> /\ UNCHANGED <<clock, integral, blind_move>>
  BY DEF HCreate, Create, historyVars
<1>2. TypeInv
  BY DEF OracleInv
<1>3. reserve' \in Pair
  BY <1>1, PoolOracleAssumption DEF Pair
<1>4. price_cum_last' \in Pair /\ obs' \in Seq(Observation) /\ Len(obs') = 0
  BY <1>1 DEF Pair
<1>5. TypeInv'
  BY <1>1, <1>2, <1>3, <1>4 DEF TypeInv, ClockArg
<1>6. RingInv'
  BY <1>1, <1>4, PoolOracleAssumption DEF RingInv, RingOrdered
<1>7. Books'
  <2> SUFFICES ASSUME USES_CLOCK, NEW s \in Side PROVE PriceHeld(s)'
    BY <1>4 DEF Books
  <2>1. block_ts_last' = clock
    BY <1>1 DEF ClockArg
  <2> QED
    BY <2>1, <1>1, <1>3, JustUpdated
<1> QED
  BY <1>5, <1>6, <1>7 DEF OracleInv

(* Moving the timestamp up to now takes each observation along.             *)
LEMMA FarAsBefore ==
    ASSUME OracleInv, USES_CLOCK, ~blind_move, pool_exists,
           NEW s \in Side, NEW i \in 1 .. Len(obs),
           NEW cum \in Nat,
           Cong(cum, price_cum_last[s] + HeldPrice(s) * (clock - block_ts_last))
    PROVE  Cong(cum - obs[i].cum[s],
                integral[clock + 1][s] - integral[obs[i].ts + 1][s])
<1> DEFINE p == price_cum_last[s]
           x == HeldPrice(s) * (clock - block_ts_last)
           old == integral[block_ts_last + 1][s]
           now == integral[clock + 1][s]
           c == obs[i].cum[s]
           then == integral[obs[i].ts + 1][s]
<1>1. TypeInv /\ RingInv /\ PriceHeld(s) /\ AsFar(s, i)
  BY DEF OracleInv, Books
<1>2. clock \in Nat /\ block_ts_last \in 0 .. clock /\ clock - block_ts_last \in Nat
  BY <1>1 DEF TypeInv
<1>3. p \in Nat /\ old \in Nat /\ now \in Nat /\ c \in Nat /\ then \in Nat /\ x \in Nat
  <2>1. HeldPrice(s) \in Nat
    BY <1>1, PriceFacts
  <2>2. x \in Nat
    BY <1>2, <2>1
  <2>3. obs[i].ts \in 0 .. clock /\ c \in Nat /\ p \in Nat
    BY <1>1, LookupFacts
  <2>4. clock \in 0 .. clock
    BY <1>2
  <2>5. old \in Nat /\ now \in Nat /\ then \in Nat
    BY <1>1, <1>2, <2>3, <2>4, LookupFacts
  <2> QED
    BY <2>2, <2>3, <2>5
<1>4. Cong(cum, p + x) /\ Cong(now, old + x) /\ Cong(p - c, old - then)
  BY <1>1 DEF PriceHeld, AsFar
<1> HIDE DEF p, x, old, now, c, then
<1>5. Cong(cum - c, (p + x) - c)
  <2> DEFINE px == p + x
  <2>1. px \in Int /\ cum \in Int /\ c \in Int /\ Cong(cum, px)
    BY <1>3, <1>4
  <2> HIDE DEF px
  <2>2. Cong(cum - c, px - c)
    BY <2>1, CongShift
  <2> QED
    BY <2>2 DEF px
<1>6. Cong((p - c) + x, (old - then) + x)
  <2> DEFINE pc == p - c
             ot == old - then
  <2>1. pc \in Int /\ ot \in Int /\ x \in Int /\ Cong(pc, ot)
    BY <1>3, <1>4
  <2> HIDE DEF pc, ot
  <2>2. Cong(pc + x, ot + x)
    BY <2>1, CongShift
  <2> QED
    BY <2>2 DEF pc, ot
<1>7. Cong(now - then, (old + x) - then)
  <2> DEFINE ox == old + x
  <2>1. ox \in Int /\ now \in Int /\ then \in Int /\ Cong(now, ox)
    BY <1>3, <1>4
  <2> HIDE DEF ox
  <2>2. Cong(now - then, ox - then)
    BY <2>1, CongShift
  <2> QED
    BY <2>2 DEF ox
<1>8. (p + x) - c = (p - c) + x /\ (old + x) - then = (old - then) + x
  BY <1>3
<1>9. Cong((old - then) + x, now - then)
  BY <1>3, <1>7, <1>8, CongSym
<1>10. Cong(cum - c, (old - then) + x)
  BY <1>3, <1>5, <1>6, <1>8, CongTrans
<1>11. Cong(cum - c, now - then)
  BY <1>3, <1>9, <1>10, CongTrans
<1> QED
  BY <1>11 DEF c, now, then

(* A public instruction: the books are closed, then the reserves move.       *)
LEMMA MutateStep ==
    ASSUME OracleInv, HMutate
    PROVE  OracleInv'
<1>1. /\ pool_exists /\ OracleUpdate(ClockArg) /\ reserve' \in [Side -> ReserveValues]
      /\ UNCHANGED <<pool_exists, clock, integral, blind_move>>
  BY DEF HMutate, Mutate, historyVars
<1>2. TypeInv /\ RingInv
  BY DEF OracleInv
<1>3. reserve' \in Pair
  BY <1>1, PoolOracleAssumption DEF Pair
<1>4. /\ block_ts_last' \in Nat /\ block_ts_last <= block_ts_last'
      /\ block_ts_last' <= clock
      /\ USES_CLOCK => block_ts_last' = clock
      /\ ~USES_CLOCK => block_ts_last' = 0
  BY <1>1, <1>2, UpdateFacts
<1>5. CASE /\ UNCHANGED <<price_cum_last, obs>>
           /\ \A s \in Side : block_ts_last' # block_ts_last => HeldPrice(s) = 0
  <2>1. TypeInv'
    BY <1>1, <1>2, <1>3, <1>4, <1>5 DEF TypeInv
  <2>2. RingInv'
    <3>1. obs # <<>> => Len(obs) \in 1 .. Len(obs)
      BY <1>2 DEF TypeInv
    <3>2. \A i \in 1 .. Len(obs) : obs[i].ts \in Nat /\ block_ts_last \in Nat
      BY <1>2, LookupFacts DEF TypeInv
    <3> QED
      BY <1>2, <1>4, <1>5, <3>1, <3>2 DEF RingInv, RingOrdered
  <2>3. Books'
    <3> SUFFICES ASSUME USES_CLOCK, ~blind_move, NEW s \in Side
                 PROVE  PriceHeld(s)' /\ \A i \in 1 .. Len(obs) : AsFar(s, i)'
      BY <1>1, <1>5 DEF Books
    <3>1. PriceHeld(s)'
      BY <1>1, <1>3, <1>4, JustUpdated
    <3>2. ASSUME NEW i \in 1 .. Len(obs) PROVE AsFar(s, i)'
      <4>1. price_cum_last[s] \in Nat /\ HeldPrice(s) \in Nat
            /\ clock \in Nat /\ block_ts_last \in Nat
        BY <1>2, LookupFacts, PriceFacts DEF TypeInv
      <4>2. HeldPrice(s) * (clock - block_ts_last) = 0
        <5>1. CASE block_ts_last' = block_ts_last
          BY <4>1, <5>1, <1>4
        <5>2. CASE block_ts_last' # block_ts_last
          BY <4>1, <5>2, <1>5
        <5> QED
          BY <5>1, <5>2
      <4>3. Cong(price_cum_last[s],
                 price_cum_last[s] + HeldPrice(s) * (clock - block_ts_last))
        BY <4>1, <4>2, CongRefl
      <4>4. Cong(price_cum_last[s] - obs[i].cum[s],
                 integral[clock + 1][s] - integral[obs[i].ts + 1][s])
        BY <1>1, <4>1, <4>3, FarAsBefore
      <4> QED
        BY <4>4, <1>1, <1>4, <1>5 DEF AsFar, Cong, Modulus
    <3> QED
      BY <3>1, <3>2
  <2> QED
    BY <2>1, <2>2, <2>3 DEF OracleInv
<1>6. CASE /\ USES_CLOCK /\ Accumulate(clock) /\ block_ts_last < clock
           /\ \A t \in Side : reserve[t] # 0
           /\ InDomain
  <2>1. /\ price_cum_last' \in Pair /\ obs' \in Seq(Observation) /\ RingInv'
        /\ \A s \in Side : Cong(price_cum_last'[s],
              price_cum_last[s] + Price(s) * (clock - block_ts_last))
        /\ \A j \in 1 .. Len(obs') :
              \/ obs'[j] = [ts |-> clock, cum |-> price_cum_last']
              \/ \E i \in 1 .. Len(obs) : obs'[j] = obs[i]
    BY <1>2, <1>6, PushFacts
  <2>2. TypeInv'
    BY <1>1, <1>2, <1>3, <1>4, <1>6, <2>1 DEF TypeInv
  <2>3. Books'
    <3> SUFFICES ASSUME ~blind_move, NEW s \in Side
                 PROVE  PriceHeld(s)' /\ \A j \in 1 .. Len(obs') : AsFar(s, j)'
      BY <1>1 DEF Books
    <3>1. PriceHeld(s)'
      BY <1>1, <1>3, <1>4, <1>6, JustUpdated
    <3>2. HeldPrice(s) = Price(s)
      BY <1>1, <1>6 DEF HeldPrice
    <3>3. price_cum_last'[s] \in Nat
      BY <2>1 DEF Pair
    <3>4. ASSUME NEW j \in 1 .. Len(obs') PROVE AsFar(s, j)'
      <4>1. CASE obs'[j] = [ts |-> clock, cum |-> price_cum_last']
        <5>1. integral[clock + 1][s] \in Nat
          <6>1. TypeInv /\ RingInv
            BY <1>2
          <6>2. clock \in 0 .. clock
            BY <6>1 DEF TypeInv
          <6> QED
            BY <6>1, <6>2, LookupFacts
        <5>2. Cong(price_cum_last'[s] - price_cum_last'[s],
                   integral[clock + 1][s] - integral[clock + 1][s])
          <6>1. price_cum_last'[s] - price_cum_last'[s]
                  = integral[clock + 1][s] - integral[clock + 1][s]
            BY <3>3, <5>1
          <6>2. integral[clock + 1][s] - integral[clock + 1][s] \in Int
            BY <5>1
          <6> QED
            BY <6>1, <6>2, CongRefl
        <5>3. obs'[j].ts = clock /\ obs'[j].cum = price_cum_last'
          BY <4>1
        <5> QED
          BY <5>2, <5>3, <1>1, <1>4, <1>6 DEF AsFar, Cong, Modulus
      <4>2. CASE \E i \in 1 .. Len(obs) : obs'[j] = obs[i]
        <5>1. PICK i \in 1 .. Len(obs) : obs'[j] = obs[i]
          BY <4>2
        <5>2. Cong(price_cum_last'[s],
                   price_cum_last[s] + HeldPrice(s) * (clock - block_ts_last))
          BY <2>1, <3>2
        <5>3. Cong(price_cum_last'[s] - obs[i].cum[s],
                   integral[clock + 1][s] - integral[obs[i].ts + 1][s])
          BY <1>1, <1>6, <3>3, <5>2, FarAsBefore
        <5> QED
          BY <5>1, <5>3, <1>1, <1>4, <1>6 DEF AsFar, Cong, Modulus
      <4> QED
        BY <4>1, <4>2, <2>1
    <3> QED
      BY <3>1, <3>4
  <2> QED
    BY <2>1, <2>2, <2>3 DEF OracleInv
<1> QED
  BY <1>1, <1>2, <1>5, <1>6, UpdateFacts

(* A circuit swap: either it counts as blind, or no time had passed.         *)
LEMMA BlindStep ==
    ASSUME OracleInv, HMutateWithoutOracle
    PROVE  OracleInv'
<1>1. /\ pool_exists /\ reserve' \in [Side -> ReserveValues]
      /\ UNCHANGED <<pool_exists, price_cum_last, block_ts_last, obs, clock, integral>>
      /\ blind_move' = (blind_move \/ (clock > block_ts_last /\ reserve' # reserve))
  BY DEF HMutateWithoutOracle, MutateWithoutOracle, oracleVars
<1>2. TypeInv /\ RingInv
  BY DEF OracleInv
<1>3. reserve' \in Pair
  BY <1>1, PoolOracleAssumption DEF Pair
<1>4. TypeInv' /\ RingInv'
  BY <1>1, <1>2, <1>3 DEF TypeInv, RingInv, RingOrdered
<1>5. Books'
  <2> SUFFICES ASSUME USES_CLOCK, ~blind_move', NEW s \in Side
               PROVE  PriceHeld(s)' /\ \A i \in 1 .. Len(obs) : AsFar(s, i)'
    BY <1>1 DEF Books
  <2>1. ~blind_move /\ ~(clock > block_ts_last /\ reserve' # reserve)
    BY <1>1
  <2>2. PriceHeld(s) /\ \A i \in 1 .. Len(obs) : AsFar(s, i)
    BY <1>1, <2>1 DEF OracleInv, Books
  <2>3. \A i \in 1 .. Len(obs) : AsFar(s, i)'
    BY <1>1, <2>2 DEF AsFar, Cong, Modulus
  <2>4. CASE reserve' = reserve
    <3>1. HeldPrice(s)' = HeldPrice(s)
      BY <1>1, <2>4 DEF HeldPrice, Price, InDomain
    <3> QED
      BY <1>1, <2>2, <2>3, <3>1 DEF PriceHeld, Cong, Modulus
  <2>5. CASE ~(clock > block_ts_last)
    <3>1. block_ts_last' = clock
      BY <1>1, <1>2, <2>5 DEF TypeInv
    <3> QED
      BY <1>1, <1>3, <2>3, <3>1, JustUpdated
  <2> QED
    BY <2>1, <2>4, <2>5
<1> QED
  BY <1>4, <1>5 DEF OracleInv

-----------------------------------------------------------------------------
(* Stored and true history stay together.                                  *)
THEOREM OracleInvariant == HSpec => []OracleInv
<1>1. HInit => OracleInv
  <2> SUFFICES ASSUME HInit PROVE OracleInv
    OBVIOUS
  <2> DEFINE zero == [s \in Side |-> 0]
  <2>1. zero \in Pair
    BY DEF Pair
  <2>2. integral = <<zero>> /\ reserve = zero /\ price_cum_last = zero /\ obs = <<>>
        /\ clock = 0 /\ block_ts_last = 0 /\ ~pool_exists
    BY DEF HInit, Init
  <2> HIDE DEF zero
  <2>3. integral \in Seq(Pair) /\ Len(integral) = 1 /\ Len(obs) = 0
        /\ obs \in Seq(Observation)
    BY <2>1, <2>2
  <2>4. TypeInv
    BY <2>1, <2>2, <2>3 DEF TypeInv
  <2>5. RingInv
    BY <2>2, <2>3, PoolOracleAssumption DEF RingInv, RingOrdered
  <2> QED
    BY <2>2, <2>4, <2>5 DEF OracleInv, Books
<1>2. OracleInv /\ [HNext]_allVars => OracleInv'
  <2> SUFFICES ASSUME OracleInv, [HNext]_allVars PROVE OracleInv'
    OBVIOUS
  <2>1. CASE UNCHANGED allVars
    <3>1. UNCHANGED <<pool_exists, reserve, price_cum_last, block_ts_last, obs, clock,
                      integral, blind_move>>
      BY <2>1 DEF allVars, vars, historyVars
    <3> QED
      BY <3>1 DEF OracleInv, TypeInv, RingInv, RingOrdered, Books, PriceHeld, AsFar,
                  HeldPrice, Price, InDomain, Cong, Modulus
  <2> QED
    BY <2>1, AdvanceStep, CreateStep, MutateStep, BlindStep DEF HNext
<1> QED
  BY <1>1, <1>2, PTL DEF HSpec

(* The ring keeps its newest entries in the order of time.                  *)
THEOREM RingAlwaysOrdered == HSpec => []RingOrdered
<1>1. OracleInv => RingOrdered
  BY DEF OracleInv, RingInv
<1> QED
  BY <1>1, OracleInvariant, PTL

(* Two observations give the very integral of the price between them, as      *)
(* long as no swap without the oracle moved the reserves under it.          *)
THEOREM ObservationsAlwaysExact == HSpec => []ObservationsExactUnlessBlind
<1>1. OracleInv => ObservationsExactUnlessBlind
  <2> SUFFICES ASSUME OracleInv, ~blind_move,
                      NEW i \in 1 .. Len(obs), NEW j \in 1 .. Len(obs), NEW s \in Side
               PROVE  (obs[j].cum[s] - obs[i].cum[s]) % Modulus =
                      (integral[obs[j].ts + 1][s] - integral[obs[i].ts + 1][s]) % Modulus
    BY DEF ObservationsExactUnlessBlind, ObservationsExact, TwapExact
  <2>1. TypeInv /\ RingInv
    BY DEF OracleInv
  <2>2. USES_CLOCK /\ pool_exists
    <3>1. Len(obs) # 0
      BY <2>1, LookupFacts
    <3>2. obs # <<>>
      BY <3>1
    <3> QED
      BY <2>1, <3>2 DEF TypeInv
  <2>3. AsFar(s, i) /\ AsFar(s, j)
    BY <2>2 DEF OracleInv, Books
  <2> DEFINE p == price_cum_last[s]
             ci == obs[i].cum[s]
             cj == obs[j].cum[s]
             b == integral[block_ts_last + 1][s]
             ti == integral[obs[i].ts + 1][s]
             tj == integral[obs[j].ts + 1][s]
  <2>4. p \in Nat /\ ci \in Nat /\ cj \in Nat /\ b \in Nat /\ ti \in Nat /\ tj \in Nat
    <3>1. block_ts_last \in 0 .. clock
      BY <2>1 DEF TypeInv
    <3> QED
      BY <2>1, <3>1, LookupFacts
  <2>5. Cong(p - ci, b - ti) /\ Cong(p - cj, b - tj)
    BY <2>3 DEF AsFar
  <2> HIDE DEF p, ci, cj, b, ti, tj
  <2>6. Cong((p - ci) - (p - cj), (b - ti) - (b - tj))
    BY <2>4, <2>5, CongSub
  <2>7. (p - ci) - (p - cj) = cj - ci /\ (b - ti) - (b - tj) = tj - ti
    BY <2>4
  <2>8. (cj - ci) % Modulus = (tj - ti) % Modulus
    BY <2>4, <2>6, <2>7, CongIsEqualMod
  <2> QED
    BY <2>8 DEF ci, cj, ti, tj
<1> QED
  BY <1>1, OracleInvariant, PTL

(* Extrapolating from the accumulator gives the integral up to now.          *)
THEOREM AccumulatorAlwaysCatchesUp == HSpec => []AccumulatorCatchesUp
<1>1. OracleInv => AccumulatorCatchesUp
  <2> SUFFICES ASSUME OracleInv, obs # <<>>, USES_CLOCK, ~blind_move, NEW s \in Side
               PROVE  (price_cum_last[s] + HeldPrice(s) * (clock - block_ts_last)
                          - obs[1].cum[s]) % Modulus =
                      (integral[clock + 1][s] - integral[obs[1].ts + 1][s]) % Modulus
    BY DEF AccumulatorCatchesUp
  <2>1. TypeInv /\ RingInv /\ pool_exists
    BY DEF OracleInv, TypeInv
  <2>2. 1 \in 1 .. Len(obs)
    BY <2>1 DEF TypeInv
  <2>3. AsFar(s, 1) /\ PriceHeld(s)
    BY <2>1, <2>2 DEF OracleInv, Books
  <2> DEFINE p == price_cum_last[s]
             x == HeldPrice(s) * (clock - block_ts_last)
             b == integral[block_ts_last + 1][s]
             n == integral[clock + 1][s]
             c == obs[1].cum[s]
             t == integral[obs[1].ts + 1][s]
  <2>4. p \in Nat /\ x \in Nat /\ b \in Nat /\ n \in Nat /\ c \in Nat /\ t \in Nat
    <3>1. block_ts_last \in 0 .. clock /\ clock \in 0 .. clock
          /\ clock - block_ts_last \in Nat
      BY <2>1 DEF TypeInv
    <3>2. HeldPrice(s) \in Nat
      BY <2>1, PriceFacts
    <3>3. x \in Nat
      BY <3>1, <3>2
    <3>4. obs[1].ts \in 0 .. clock /\ c \in Nat /\ p \in Nat
      BY <2>1, <2>2, LookupFacts
    <3>5. b \in Nat /\ n \in Nat /\ t \in Nat
      BY <2>1, <3>1, <3>4, LookupFacts
    <3> QED
      BY <3>3, <3>4, <3>5
  <2>5. Cong(p - c, b - t) /\ Cong(n, b + x)
    BY <2>3 DEF AsFar, PriceHeld
  <2> HIDE DEF p, x, b, n, c, t
  <2>6. Cong((p - c) + x, (b - t) + x)
    <3> DEFINE pc == p - c
               bt == b - t
    <3>1. pc \in Int /\ bt \in Int /\ x \in Int /\ Cong(pc, bt)
      BY <2>4, <2>5
    <3> HIDE DEF pc, bt
    <3>2. Cong(pc + x, bt + x)
      BY <3>1, CongShift
    <3> QED
      BY <3>2 DEF pc, bt
  <2>7. Cong(n - t, (b + x) - t)
    <3> DEFINE bx == b + x
    <3>1. bx \in Int /\ n \in Int /\ t \in Int /\ Cong(n, bx)
      BY <2>4, <2>5
    <3> HIDE DEF bx
    <3>2. Cong(n - t, bx - t)
      BY <3>1, CongShift
    <3> QED
      BY <3>2 DEF bx
  <2>8. p + (x - c) = (p - c) + x /\ (b + x) - t = (b - t) + x
    BY <2>4
  <2>9. (p + (x - c)) % Modulus = (n - t) % Modulus
    BY <2>4, <2>6, <2>7, <2>8, CongIsEqualMod
  <2> QED
    BY <2>9, Zenon DEF p, x, n, c, t
<1> QED
  BY <1>1, OracleInvariant, PTL

=============================================================================
