----------------------------- MODULE MCRefStore -----------------------------
(* A small instance of RefStore for TLC: two refs, two values, three       *)
(* transaction ids, one of which two clients reuse for different work.     *)
EXTENDS RefStore

CONSTANTS main, dev, a, b, t1, t2, t3, alice, bob

Up(tx, ref, old, new, signer) ==
    [tx |-> tx,
     op |-> [ref |-> ref, old |-> old, new |-> new, force |-> FALSE,
             epoch |-> 0, signer |-> signer]]

\* Create, move, move back, delete; two pushes racing from the same old
\* value (t1 and t2); and t3 sent for a deletion and for another ref.
MCUpdates ==
    {Up(t1, main, NoOid, a, alice), Up(t1, dev, NoOid, a, alice),
     Up(t2, main, a, b, alice), Up(t2, main, NoOid, b, bob),
     Up(t3, main, b, a, bob), Up(t3, main, a, NoOid, bob),
     Up(t3, dev, NoOid, b, bob)}

=============================================================================
