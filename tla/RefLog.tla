------------------------------- MODULE RefLog -------------------------------
(***************************************************************************)
(* What a ref store promises, with none of its data structures: one log of *)
(* the compare-and-swaps that took effect, each exactly once, each against *)
(* the value the log itself gives the ref, and a crash loses nothing that  *)
(* was made durable.  A swap may be made durable as it takes effect, or    *)
(* later.  RefStore.tla and RefDaemon.tla implement it.                    *)
(***************************************************************************)
EXTENDS Integers, Sequences

CONSTANTS RefNames, Oids, TxIds, NoOid

VARIABLES
    log,       \* the swaps that took effect, in order
    durable    \* how many of them a crash cannot undo

vars == <<log, durable>>

Target == Oids \cup {NoOid}

Swap == [tx: TxIds, ref: RefNames, old: Target, new: Target]

Writes(l, r) == {i \in 1..Len(l) : l[i].ref = r}

LastWrite(l, r) == CHOOSE i \in Writes(l, r) : \A j \in Writes(l, r) : j <= i

(* The value of a ref is what the last swap of it wrote. *)
HeadOf(l, r) == IF Writes(l, r) = {} THEN NoOid ELSE l[LastWrite(l, r)].new

Init == log = <<>> /\ durable = 0

Commit(swap) ==
    /\ \A i \in 1..Len(log) : log[i].tx # swap.tx
    /\ HeadOf(log, swap.ref) = swap.old
    /\ log' = Append(log, swap)
    /\ durable' \in {durable, Len(log')}

Persist ==
    /\ durable' = Len(log)
    /\ UNCHANGED log

Crash ==
    /\ log' = SubSeq(log, 1, durable)
    /\ UNCHANGED durable

Next == (\E swap \in Swap : Commit(swap)) \/ Persist \/ Crash

Spec == Init /\ [][Next]_vars
=============================================================================
