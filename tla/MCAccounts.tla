----------------------------- MODULE MCAccounts -----------------------------
EXTENDS Accounts, TLC
CONSTANTS e1, e2, e3, n1, n2, t1, t2
MCNorm == [e \in {e1, e2, e3} |-> IF e = e3 THEN n2 ELSE n1]
MCIp == [t \in {t1, t2} |-> AccLocal]
MCSymmetry == Permutations({t1, t2}) \cup Permutations({e1, e2})
=============================================================================
