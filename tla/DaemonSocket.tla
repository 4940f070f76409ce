---------------------------- MODULE DaemonSocket ----------------------------
(***************************************************************************)
(* The socket of gitmeshd: a thread for each connection reads one request, *)
(* a line of text or a binary frame, and runs its command on the state all *)
(* of them share behind a mutex.  A client may stop in the middle of its   *)
(* request, for ever or by hanging up, and a command may panic.            *)
(*                                                                         *)
(* What a command does is what the other modules are about; here it is how *)
(* it ends:                                                                *)
(*                                                                         *)
(*    "answers"    with an answer, OK or ERR                               *)
(*    "bulky"      with one that is too long for a frame                   *)
(*    "panics"     the thread dies holding the mutex                       *)
(*    "denied"     not run: it needs the admin token                       *)
(*    "malformed"  not run: no command or no request id that is one        *)
(*    "too large"  not read to its end                                     *)
(***************************************************************************)
EXTENDS Naturals, Sequences

CONSTANTS
    Connections,
    Nobody,
    Requests       \* [form, does] that clients send; form is "line" or "frame"

Ends == {"answers", "bulky", "panics", "denied", "malformed", "too large"}

ASSUME SocketAssumption ==
    /\ Nobody \notin Connections
    /\ Requests # {} /\ Requests \subseteq [form: {"line", "frame"}, does: Ends]

VARIABLES
    conn,          \* [at, request, sent, ended, answer] of each connection
    mutex,         \* who holds the state
    ran            \* the connections whose commands were run, in their order

socketVars == <<conn, mutex, ran>>

SocketInit ==
    /\ conn = [c \in Connections |->
          [at |-> "unconnected", request |-> CHOOSE r \in Requests : TRUE, sent |-> "nothing",
           ended |-> FALSE, answer |-> "none"]]
    /\ mutex = Nobody
    /\ ran = <<>>

-----------------------------------------------------------------------------
(* The client: request_unix_socket, request_unix_socket_frame.             *)

Connect(c) ==
    /\ conn[c].at = "unconnected"
    /\ \E r \in Requests : conn' = [conn EXCEPT ![c].at = "reading", ![c].request = r]
    /\ UNCHANGED <<mutex, ran>>

Send(c) ==
    /\ conn[c].at = "reading" /\ ~ conn[c].ended /\ conn[c].sent # "all"
    /\ \E sent \in {"some", "all"} \ {conn[c].sent} : conn' = [conn EXCEPT ![c].sent = sent]
    /\ UNCHANGED <<mutex, ran>>

HangUp(c) ==
    /\ conn[c].at = "reading" /\ ~ conn[c].ended
    /\ conn' = [conn EXCEPT ![c].ended = TRUE]
    /\ UNCHANGED <<mutex, ran>>

-----------------------------------------------------------------------------
(* The thread of a connection: handle_unix_stream.                         *)

Close(c)          == conn' = [conn EXCEPT ![c].at = "closed"]
Answer(c, answer) == conn' = [conn EXCEPT ![c].at = "closed", ![c].answer = answer]

(* A line ends with the newline, or where the client hung up: what came of *)
(* it then is taken for the command, whatever that is.                     *)
LineIs(c) ==
    CASE conn[c].sent = "all" -> {conn[c].request.does} \ {"too large"}
      [] conn[c].sent = "some" /\ conn[c].ended -> {"answers", "denied", "malformed"}
      [] OTHER -> {}

(* parse_client_request and authorize_command, for a line                  *)
ReadLine(c) ==
    /\ conn[c].at = "reading" /\ conn[c].request.form = "line"
    /\ \E does \in LineIs(c) :
          IF does \in {"denied", "malformed"}
          THEN Answer(c, "error")
          ELSE conn' = [conn EXCEPT ![c].at = "locking", ![c].request.does = does]
    /\ UNCHANGED <<mutex, ran>>

(* read_exact of what the header of the frame says                         *)
WholeFrame(c) == conn[c].sent = "all"

(* BinaryDaemonFrame::decode and authorize_command: a frame without a      *)
(* request id cannot be answered.                                          *)
ReadFrame(c) ==
    LET does == conn[c].request.does
    IN  /\ conn[c].at = "reading" /\ conn[c].request.form = "frame"
        /\ does # "too large" /\ WholeFrame(c)
        /\ CASE does = "malformed" -> Close(c)
             [] does = "denied"    -> Answer(c, "error")
             [] OTHER              -> conn' = [conn EXCEPT ![c].at = "locking"]
        /\ UNCHANGED <<mutex, ran>>

(* What is too large is not answered, nor is the beginning of a frame or   *)
(* less than four bytes.                                                   *)
GiveUp(c) ==
    /\ conn[c].at = "reading"
    /\ \/ conn[c].ended /\ conn[c].sent # "all"
       \/ conn[c].request.does = "too large" /\ conn[c].sent # "nothing"
    /\ Close(c)
    /\ UNCHANGED <<mutex, ran>>

Poisoned == \E k \in DOMAIN ran : conn[ran[k]].request.does = "panics"

\* The state is taken out of the poisoned mutex.
Lock_Bug(c) ==
    /\ conn[c].at = "locking" /\ mutex = Nobody
    /\ mutex' = c
    /\ conn' = [conn EXCEPT ![c].at = "running"]
    /\ UNCHANGED ran

Lock(c) ==
    /\ conn[c].at = "locking" /\ mutex = Nobody
    /\ IF Poisoned
       THEN /\ IF conn[c].request.form = "line" THEN Answer(c, "error") ELSE Close(c)
            /\ UNCHANGED mutex
       ELSE /\ mutex' = c
            /\ conn' = [conn EXCEPT ![c].at = "running"]
    /\ UNCHANGED ran

\* The mutex stays locked when the command panics.
Unlocked_Bug(c) == IF conn[c].request.does = "panics" THEN c ELSE Nobody

(* The guard is dropped when the handler returns, and when it panics.      *)
Unlocked(c) == Nobody

\* An answer that is too long for a frame is reported as an error.
Run_Bug(c) ==
    LET request == conn[c].request
    IN  /\ conn[c].at = "running"
        /\ ran' = Append(ran, c)
        /\ mutex' = Unlocked(c)
        /\ CASE request.does = "panics" -> Close(c)
             [] request.does = "bulky" /\ request.form = "frame" -> Answer(c, "error")
             [] OTHER -> Answer(c, "answer")

(* handle_command, and the answer                                          *)
Run(c) ==
    LET request == conn[c].request
    IN  /\ conn[c].at = "running"
        /\ ran' = Append(ran, c)
        /\ mutex' = Unlocked(c)
        /\ IF request.does = "panics" \/ (request.does = "bulky" /\ request.form = "frame")
           THEN Close(c)
           ELSE Answer(c, "answer")

Thread(c) == ReadLine(c) \/ ReadFrame(c) \/ GiveUp(c) \/ Lock(c) \/ Run(c)

SocketNext == \E c \in Connections : Connect(c) \/ Send(c) \/ HangUp(c) \/ Thread(c)

(* Threads run while they can; of a client nothing is assumed.  Each       *)
(* connection asks for the mutex once, so that it is enough that one which *)
(* can lock it is not put off for ever.                                    *)
SocketFairness == \A c \in Connections : WF_socketVars(Thread(c))

SocketSpec == SocketInit /\ [][SocketNext]_socketVars /\ SocketFairness

-----------------------------------------------------------------------------
(* Properties. *)

(* A client that sent all of its request gets an answer or is told that    *)
(* there is none, whatever the other clients leave unsent.                 *)
EveryRequestEnds ==
    \A c \in Connections :
        conn[c].at = "reading" /\ conn[c].sent = "all" ~> conn[c].at = "closed"

(* After a command that panicked, the state that it left is not used: no   *)
(* command runs on it, and none is confirmed.  And of a frame that was cut *)
(* off nothing is run.                                                     *)
OnlySoundRuns ==
    \A k \in DOMAIN ran :
        /\ \A j \in 1..(k - 1) : conn[ran[j]].request.does # "panics"
        /\ conn[ran[k]].request.form = "frame" => conn[ran[k]].sent = "all"

(* However the threads interleave, to its clients the daemon is one that   *)
(* runs their commands one at a time (docs/COORDINATION.md:14).  It gives  *)
(* an answer of what was run, and an error of its own of what was not: one *)
(* who got that may send the command again, and one who got neither must   *)
(* find out what became of it.                                             *)
Serial == INSTANCE OneAtATime WITH
    Clients <- Connections, sound <- ~ Poisoned,
    told <- [c \in Connections |-> conn[c].answer]

CommandsOneAtATime == Serial!Spec
=============================================================================
