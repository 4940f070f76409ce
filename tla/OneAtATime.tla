----------------------------- MODULE OneAtATime -----------------------------
(***************************************************************************)
(* What the socket of the daemon promises, with neither threads nor a      *)
(* mutex: the commands of its clients take effect one at a time, each once *)
(* at most.  A client that is answered knows that its command was run, one *)
(* that is told of an error that it was not and never will be; a client    *)
(* that is told nothing knows nothing.                                     *)
(***************************************************************************)
EXTENDS Sequences

CONSTANT Clients

VARIABLES
    sound,      \* no command left the state broken
    ran,        \* the clients whose commands took effect, in their order
    told        \* what each of them was told: "none", "answer" or "error"

vars == <<sound, ran, told>>

Init ==
    /\ sound = TRUE
    /\ ran = <<>>
    /\ told = [c \in Clients |-> "none"]

Open(c) == told[c] = "none" /\ \A k \in DOMAIN ran : ran[k] # c

Perform(c) ==
    /\ sound /\ Open(c)
    /\ ran' = Append(ran, c)
    /\ \/ told' = [told EXCEPT ![c] = "answer"] /\ UNCHANGED sound
       \/ sound' \in BOOLEAN /\ UNCHANGED told

Refuse(c) ==
    /\ Open(c)
    /\ told' = [told EXCEPT ![c] = "error"]
    /\ UNCHANGED <<sound, ran>>

Next == \E c \in Clients : Perform(c) \/ Refuse(c)

Spec == Init /\ [][Next]_vars
=============================================================================
