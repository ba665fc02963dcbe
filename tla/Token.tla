-------------------------------- MODULE Token --------------------------------
(***************************************************************************)
(* The token program: fungible tokens, and NFTs with a master from which    *)
(* copies are printed.  An account holds one kind of holding of one         *)
(* definition for ever, once it is claimed.  Every instruction is atomic.   *)
(* Who signs is not modelled: any owner may sign whatever is asked of it.   *)
(***************************************************************************)
EXTENDS U128, FiniteSetsExt

CONSTANTS
    Definitions,
    Accounts,
    Amounts,        \* amounts an instruction may name
    NoDefinition

ASSUME TokenAssumption ==
    /\ NoDefinition \notin Definitions
    /\ Amounts \subseteq Amount
    /\ IsFiniteSet(Accounts)

VARIABLES
    definition,  \* TokenDefinition: kind, and total or printable supply
    holding      \* TokenHolding: kind, definition, and balance, print_balance
                 \* or, for a copy, 1 if it is owned

tokenVars == <<definition, holding>>

TokenDefinition == [kind : {"none", "fungible", "nonfungible"}, supply : Amount]
TokenHolding == [kind : {"none", "fungible", "master", "copy"},
                 of : Definitions \cup {NoDefinition}, amount : Amount]

(* Account::default().                                                     *)
Default(a) == holding[a].kind = "none"

Zeroized(kind, d) == [kind |-> kind, of |-> d, amount |-> 0]

(* zeroized_from_definition: a holding of an NFT is an unowned copy.       *)
ZeroizedFrom(d) ==
    Zeroized(IF definition[d].kind = "fungible" THEN "fungible" ELSE "copy", d)

(* What an account holds when it is named as the receiver of `like`.       *)
AsReceiver(a, like) == IF Default(a) THEN like ELSE holding[a]

TokenInit ==
    /\ definition = [d \in Definitions |-> [kind |-> "none", supply |-> 0]]
    /\ holding = [a \in Accounts |-> Zeroized("none", NoDefinition)]

(* new_fungible_definition and new_definition_with_metadata: the whole     *)
(* supply goes to one new holding, the master if it is an NFT.             *)
NewDefinition(d, a, kind, supply) ==
    /\ definition[d].kind = "none"
    /\ Default(a)
    /\ definition' = [definition EXCEPT ![d] = [kind |-> kind, supply |-> supply]]
    /\ holding' = [holding EXCEPT ![a] =
                     [kind |-> IF kind = "fungible" THEN "fungible" ELSE "master",
                      of |-> d, amount |-> supply]]

InitializeAccount(d, a) ==
    /\ definition[d].kind # "none"
    /\ Default(a)
    /\ holding' = [holding EXCEPT ![a] = ZeroizedFrom(d)]
    /\ UNCHANGED definition

Mint(d, a, amount) ==
    LET receiver == AsReceiver(a, ZeroizedFrom(d))
    IN  /\ definition[d].kind = "fungible"
        /\ receiver.kind = "fungible"
        /\ receiver.of = d
        /\ Fits(receiver.amount + amount)
        /\ Fits(definition[d].supply + amount)
        /\ holding' = [holding EXCEPT ![a] = [receiver EXCEPT !.amount = @ + amount]]
        /\ definition' = [definition EXCEPT ![d].supply = @ + amount]

(* Variant: a burnt copy stays in the printable supply.                    *)
BurnKeepingSupply(d, a, amount) ==
    /\ holding[a].of = d
    /\ holding[a].amount >= amount
    /\ holding' = [holding EXCEPT ![a].amount = @ - amount]
    /\ UNCHANGED definition

(* A copy is burnt whole: its amount is 1 and so must the burnt one be.    *)
Burn(d, a, amount) ==
    /\ definition[d].kind # "none"
    /\ holding[a].of = d
    /\ holding[a].kind = "copy" => amount = 1
    /\ holding[a].amount >= amount
    /\ definition[d].supply >= amount
    /\ holding' = [holding EXCEPT ![a].amount = @ - amount]
    /\ definition' = [definition EXCEPT ![d].supply = @ - amount]

(* Variant: a master moves in part, like a balance.                        *)
MovableInPart(sender, receiver, amount) ==
    /\ sender.amount >= amount
    /\ Fits(receiver.amount + amount)

(* The amounts of the two holdings after a transfer: fungible balances move *)
(* in part, a master moves as a whole to an empty master, a copy moves to  *)
(* one that is not owned.                                                  *)
Movable(sender, receiver, amount) ==
    \/ /\ sender.kind = "fungible"
       /\ sender.amount >= amount
       /\ Fits(receiver.amount + amount)
    \/ /\ sender.kind = "master"
       /\ receiver.amount = 0
       /\ sender.amount = amount
    \/ /\ sender.kind = "copy"
       /\ amount = 1
       /\ sender.amount = 1
       /\ receiver.amount = 0

(* Variant: the receiver takes over the sender's holding.                  *)
TransferHolding(from, to, amount) ==
    /\ from # to
    /\ ~Default(from)
    /\ Movable(holding[from], Zeroized(holding[from].kind, holding[from].of), amount)
    /\ holding' = [holding EXCEPT ![from] = holding[to], ![to] = holding[from]]
    /\ UNCHANGED definition

Transfer(from, to, amount) ==
    LET sender == holding[from]
        receiver == AsReceiver(to, Zeroized(sender.kind, sender.of))
    IN  /\ from # to
        /\ ~Default(from)
        /\ sender.of = receiver.of
        /\ sender.kind = receiver.kind
        /\ Movable(sender, receiver, amount)
        /\ holding' = [holding EXCEPT
                         ![from].amount = @ - amount,
                         ![to] = [receiver EXCEPT !.amount = @ + amount]]
        /\ UNCHANGED definition

(* Variant: the master itself is printed away.                             *)
PrintLast(master, printed) ==
    /\ holding[master].kind = "master"
    /\ Default(printed)
    /\ holding[master].amount > 0
    /\ holding' = [holding EXCEPT
                     ![master].amount = @ - 1,
                     ![printed] = [kind |-> "copy", of |-> holding[master].of, amount |-> 1]]
    /\ UNCHANGED definition

(* One of the printable supply is the master itself.                       *)
PrintNft(master, printed) ==
    /\ holding[master].kind = "master"
    /\ Default(printed)
    /\ holding[master].amount > 1
    /\ holding' = [holding EXCEPT
                     ![master].amount = @ - 1,
                     ![printed] = [kind |-> "copy", of |-> holding[master].of, amount |-> 1]]
    /\ UNCHANGED definition

TokenNext ==
    \/ \E d \in Definitions, a \in Accounts :
        \/ \E kind \in {"fungible", "nonfungible"}, supply \in Amounts :
              NewDefinition(d, a, kind, supply)
        \/ InitializeAccount(d, a)
        \/ \E amount \in Amounts : Mint(d, a, amount) \/ Burn(d, a, amount)
    \/ \E from, to \in Accounts :
        \/ \E amount \in Amounts : Transfer(from, to, amount)
        \/ PrintNft(from, to)

TokenSpec == TokenInit /\ [][TokenNext]_tokenVars

-----------------------------------------------------------------------------
(* Safety.                                                                 *)

HoldingsOf(d) == {a \in Accounts : holding[a].of = d}

(* The supply in the definition is what the holdings add up to: balances of *)
(* a fungible token, and of an NFT the copies that may still be printed     *)
(* together with the copies that are owned.                                *)
Balances == [a \in Accounts |-> holding[a].amount]
InHoldings(d) == MapThenSumSet(LAMBDA a : Balances[a], HoldingsOf(d))
SupplyAccounted == \A d \in Definitions : InHoldings(d) = definition[d].supply

Masters(d) == {a \in HoldingsOf(d) : holding[a].kind = "master" /\ holding[a].amount > 0}

(* However the master moves and its copies are printed, given away and       *)
(* burnt, an NFT has one master at most.                                   *)
OneMaster == \A d \in Definitions : Cardinality(Masters(d)) <= 1

(* The last of the supply stays the master's unless its owner burns it:     *)
(* printing never hands out the master itself.                             *)
PrintingSparesMaster ==
    [][\A d \in Definitions :
         (Masters(d) # {} /\ definition'[d] = definition[d]) => Masters(d)' # {}]_tokenVars

(* No instruction turns a holding into one of another token or kind: a      *)
(* mismatched transfer, mint or burn is refused, never converted.          *)
HoldingKeepsToken ==
    [][\A a \in Accounts : ~Default(a) =>
         /\ holding'[a].of = holding[a].of
         /\ holding'[a].kind = holding[a].kind]_tokenVars

=============================================================================
