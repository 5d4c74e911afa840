------------------------------- MODULE UsageAccounts -------------------------------
(* What the project table promises of the tokens it holds: accounts that    *)
(* are opened once, into which every booking goes whole, and of which two   *)
(* may become one without a token being lost, doubled or left on a closed   *)
(* account.  Projects implements it.                                        *)
EXTENDS Integers

CONSTANTS Accounts, Minutes

VARIABLES opened, closed, balance

accountVars == <<opened, closed, balance>>

NothingBooked == [a \in Accounts |-> [m \in Minutes |-> 0]]

AccountsInit == opened = {} /\ closed = {} /\ balance = NothingBooked

\* A new account; a closed one never comes back.
OpenAccount(a) ==
    /\ a \notin opened \cup closed
    /\ opened' = opened \cup {a}
    /\ UNCHANGED <<closed, balance>>

Deposit(a, m) ==
    /\ a \in opened
    /\ balance' = [balance EXCEPT ![a][m] = @ + 1]
    /\ UNCHANGED <<opened, closed>>

\* `from` is closed and what it held stands on `into`, minute by minute.
Absorb(from, into) ==
    /\ {from, into} \subseteq opened
    /\ from # into
    /\ opened' = opened \ {from}
    /\ closed' = closed \cup {from}
    /\ balance' = [balance EXCEPT ![from] = [m \in Minutes |-> 0],
                                  ![into] = [m \in Minutes |-> @[m] + balance[from][m]]]

AccountsNext ==
    \/ \E a \in Accounts : OpenAccount(a)
    \/ \E a \in Accounts, m \in Minutes : Deposit(a, m)
    \/ \E from, into \in Accounts : Absorb(from, into)

AccountsSpec == AccountsInit /\ [][AccountsNext]_accountVars
==================================================================================
