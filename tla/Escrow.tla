------------------------------- MODULE Escrow -------------------------------
(***************************************************************************)
(* What the wallet promises its callers, without rows, totals or a ledger: *)
(* an account has money to spend, a purchase has money of one owner set    *)
(* aside for it, every source pays in at most once and every purchase is   *)
(* settled at most once, for no more than was set aside.                   *)
(***************************************************************************)
EXTENDS Integers

CONSTANTS Owners, Purchases, Sources,
          Money,      \* the positive amounts
          Nobody      \* the owner of a purchase nothing was set aside for

VARIABLES available,  \* money an owner can still commit
          owner,      \* who set money aside for a purchase
          reserved,   \* how much is set aside for it
          paid,       \* what it cost when it was settled, Unsettled before
          deposits    \* the sources whose money has been received

escrowVars == <<available, owner, reserved, paid, deposits>>

Unsettled == -1

EscrowInit ==
  /\ available = [o \in Owners |-> 0]
  /\ owner = [p \in Purchases |-> Nobody]
  /\ reserved = [p \in Purchases |-> 0]
  /\ paid = [p \in Purchases |-> Unsettled]
  /\ deposits = {}

Deposit(o, s, n) ==
  /\ s \notin deposits
  /\ deposits' = deposits \cup {s}
  /\ available' = [available EXCEPT ![o] = @ + n]
  /\ UNCHANGED <<owner, reserved, paid>>

\* Set n more of o's money aside for p.
SetAside(o, p, n) ==
  /\ owner[p] \in {o, Nobody} /\ paid[p] = Unsettled
  /\ n <= available[o]
  /\ owner' = [owner EXCEPT ![p] = o]
  /\ available' = [available EXCEPT ![o] = @ - n]
  /\ reserved' = [reserved EXCEPT ![p] = @ + n]
  /\ UNCHANGED <<paid, deposits>>

\* p costs n; the rest of what was set aside goes back to its owner.
Settle(o, p, n) ==
  /\ owner[p] = o /\ paid[p] = Unsettled
  /\ n <= reserved[p]
  /\ paid' = [paid EXCEPT ![p] = n]
  /\ reserved' = [reserved EXCEPT ![p] = 0]
  /\ available' = [available EXCEPT ![o] = @ + (reserved[p] - n)]
  /\ UNCHANGED <<owner, deposits>>

EscrowNext ==
  \/ \E o \in Owners, s \in Sources, n \in Money: Deposit(o, s, n)
  \/ \E o \in Owners, p \in Purchases, n \in Money: SetAside(o, p, n)
  \/ \E o \in Owners, p \in Purchases, n \in Money \cup {0}: Settle(o, p, n)

EscrowSpec == EscrowInit /\ [][EscrowNext]_escrowVars
=============================================================================
