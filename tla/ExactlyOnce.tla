---------------------------- MODULE ExactlyOnce ----------------------------
(***************************************************************************)
(* What REF_UPDATE promises its clients, with none of the daemon: a        *)
(* compare-and-swap register for each ref, which decides a transaction     *)
(* once and answers every repetition of it as the first.  There is no      *)
(* memory, no file and no crash here.                                      *)
(***************************************************************************)
EXTENDS Naturals

CONSTANTS RefNames, Oids, NoOid, Signers, Anonymous, Epochs, Requests,
          Refused      \* the answer to another request with the same transaction id

VARIABLES
    value,      \* of each ref
    decided,    \* [tx, request, answer]: what was decided, each with the epoch it was taken for
    told        \* [request, receipt]: what clients were answered

vars == <<value, decided, told>>

Init ==
    /\ value = [r \in RefNames |-> NoOid]
    /\ decided = {}
    /\ told = {}

(* An unsigned request names no epoch: it is taken for any.                *)
Readings(q) ==
    [ref: {q.ref}, old: {q.old}, new: {q.new}, force: {q.force}, signer: {q.signer},
     epoch: IF q.signer = Anonymous THEN Epochs ELSE {q.epoch}]

Tell(q, answer) == told' = told \cup {[request |-> q, receipt |-> answer]}

Decision(q, reading, answer) == [tx |-> q.tx, request |-> reading, answer |-> answer]

Swap(q, reading) ==
    LET answer == [status |-> "committed", ref |-> q.ref, old |-> q.old, new |-> q.new]
    IN  /\ value[q.ref] = q.old
        /\ value' = [value EXCEPT ![q.ref] = q.new]
        /\ decided' = decided \cup {Decision(q, reading, answer)}
        /\ Tell(q, answer)

Conflict(q, reading) ==
    LET answer == [status |-> "conflict", ref |-> q.ref, old |-> q.old, new |-> value[q.ref]]
    IN  /\ value[q.ref] # q.old
        /\ decided' = decided \cup {Decision(q, reading, answer)}
        /\ Tell(q, answer)
        /\ UNCHANGED value

Decide(q) ==
    /\ \A d \in decided : d.tx # q.tx
    /\ \E reading \in Readings(q) : Swap(q, reading) \/ Conflict(q, reading)

Repeat(q) ==
    /\ \E reading \in Readings(q), d \in decided :
          d.tx = q.tx /\ Tell(q, IF d.request = reading THEN d.answer ELSE Refused)
    /\ UNCHANGED <<value, decided>>

Next == \E q \in Requests : Decide(q) \/ Repeat(q)

Spec == Init /\ [][Next]_vars
=============================================================================
