------------------------------ MODULE TurnLedger ------------------------------
(***************************************************************************)
(* What the ledger of a composed run promises (docs/spec/                   *)
(* component-composition.md, section 10): one cap shared by the root and    *)
(* all descendants, allowances granted before they are used, and never the  *)
(* same turn promised twice.                                                *)
(***************************************************************************)
EXTENDS Integers

CONSTANTS
    Holders, Cap,
    Overrun     \* whether a holder may use more than it was granted

VARIABLES
    free,    \* the turns that nobody was promised
    grant,   \* grant[h]: the turns h may still use
    spent    \* the turns used so far

ledgerVars == <<free, grant, spent>>

LedgerInit == free = Cap /\ grant = [h \in Holders |-> 0] /\ spent = 0

Grant(h) ==
    /\ grant[h] = 0
    /\ \E n \in 1..free : grant' = [grant EXCEPT ![h] = n] /\ free' = free - n
    /\ UNCHANGED spent

\* h uses some turns and keeps what is left, or gives it back.
Use(h) ==
    \E n \in 0..grant[h] :
        /\ spent' = spent + n
        /\ \/ grant' = [grant EXCEPT ![h] = @ - n] /\ UNCHANGED free
           \/ grant' = [grant EXCEPT ![h] = 0] /\ free' = free + grant[h] - n

\* Who used more than its grant has nothing left, and takes from nobody else.
Forfeit(h) ==
    /\ Overrun /\ spent' > spent + grant[h]
    /\ grant' = [grant EXCEPT ![h] = 0]
    /\ UNCHANGED free

LedgerNext == \E h \in Holders : Grant(h) \/ Use(h) \/ Forfeit(h)

LedgerSpec == LedgerInit /\ [][LedgerNext]_ledgerVars
===============================================================================
