---------------------------- MODULE ClientsProofs ----------------------------
(***************************************************************************)
(* What holds between clients and the stores of a daemon: commands run on  *)
(* its state only while that is sound, the packs it is sent are resolved   *)
(* into objects or refused, and the copies that are made of its repository *)
(* are whole.                                                              *)
(***************************************************************************)
EXTENDS CloneRepository, DaemonSocket, PackDeltas, TLAPS

-----------------------------------------------------------------------------
(* The socket. *)

(* A line that was cut off is taken for what came of it, so that what its  *)
(* command does need not be among the requests.                            *)
Connection ==
    [at: {"unconnected", "reading", "locking", "running", "closed"},
     request: [form: {"line", "frame"}, does: Ends],
     sent: {"nothing", "some", "all"}, ended: BOOLEAN, answer: {"none", "answer", "error"}]

SocketTypeOK ==
    /\ conn \in [Connections -> Connection]
    /\ ran \in Seq(Connections)

(* The mutex is held by whoever runs a command, which is so of one at a    *)
(* time, and of none once a command panicked.                              *)
OneRuns == \A c \in Connections : conn[c].at = "running" => mutex = c /\ ~ Poisoned

(* No command of a frame is waited for or run unless all of it came.       *)
FramesCame ==
    \A c \in Connections :
        conn[c].at \in {"locking", "running"} /\ conn[c].request.form = "frame"
            => conn[c].sent = "all"

(* What was run is over.                                                   *)
RunsEnded == \A k \in DOMAIN ran : conn[ran[k]].at = "closed"

(* No client is told anything before its connection closes.                *)
ToldAtTheEnd == \A c \in Connections : conn[c].at # "closed" => conn[c].answer = "none"

SocketInv ==
    SocketTypeOK /\ OneRuns /\ FramesCame /\ RunsEnded /\ ToldAtTheEnd /\ OnlySoundRuns

(* No connection has been made.                                            *)
LEMMA SocketInvInit == SocketInit => SocketInv
<1> SUFFICES ASSUME SocketInit PROVE SocketInv
  OBVIOUS
<1> DEFINE first == CHOOSE r \in Requests : TRUE
<1>1. first \in Requests
  BY SocketAssumption
<1>2. first \in [form: {"line", "frame"}, does: Ends]
  BY <1>1, SocketAssumption
<1>3. conn = [c \in Connections |->
          [at |-> "unconnected", request |-> first, sent |-> "nothing",
           ended |-> FALSE, answer |-> "none"]]
  BY DEF SocketInit
<1> HIDE DEF first
<1>4. conn \in [Connections -> Connection]
  BY <1>2, <1>3 DEF Connection
<1>5. \A c \in Connections : conn[c].at = "unconnected" /\ conn[c].answer = "none"
  BY <1>3
<1>6. ran = <<>>
  BY DEF SocketInit
<1> QED
  BY <1>4, <1>5, <1>6
  DEF SocketInv, SocketTypeOK, OneRuns, FramesCame, RunsEnded, ToldAtTheEnd, OnlySoundRuns

(* The client is told nothing, or of an error when the connection closes.  *)
ToldNoMore(c, new) ==
    new.answer = conn[c].answer \/ (new.at = "closed" /\ new.answer = "error")

(* What a connection does before it waits for the mutex: nothing is run,   *)
(* and it waits with a frame only when all of it came.                     *)
Prepares(c, new) ==
    /\ conn[c].at \in {"unconnected", "reading"}
    /\ new.at \in {"reading", "locking", "closed"}
    /\ new.at = "locking" /\ new.request.form = "frame" => new.sent = "all"
    /\ ToldNoMore(c, new)
    /\ UNCHANGED <<mutex, ran>>

(* Its turn comes: it runs its command or is refused.                      *)
Enters(c, new) ==
    /\ conn[c].at = "locking" /\ ToldNoMore(c, new)
    /\ \/ new.at = "closed" /\ mutex' = mutex
       \/ /\ new.at = "running" /\ new.request = conn[c].request /\ new.sent = conn[c].sent
          /\ mutex = Nobody /\ ~ Poisoned /\ mutex' = c
    /\ ran' = ran

(* Its command is run to its end.                                          *)
Leaves(c, new) ==
    /\ conn[c].at = "running" /\ new.at = "closed"
    /\ new.request = conn[c].request /\ new.sent = conn[c].sent
    /\ \/ new.answer = conn[c].answer
       \/ new.answer = "answer" /\ new.request.does # "panics"
    /\ ran' = Append(ran, c)
    /\ mutex' = Nobody

(* Every step of the socket is one of the three, of one connection.        *)
LEMMA SocketSteps ==
    ASSUME SocketTypeOK, SocketNext
    PROVE  \E c \in Connections, new \in Connection :
              /\ conn' = [conn EXCEPT ![c] = new]
              /\ Prepares(c, new) \/ Enters(c, new) \/ Leaves(c, new)
<1> DEFINE Steps(c, new) ==
        /\ conn' = [conn EXCEPT ![c] = new]
        /\ Prepares(c, new) \/ Enters(c, new) \/ Leaves(c, new)
<1> SUFFICES \E c \in Connections : \E new \in Connection : Steps(c, new)
  OBVIOUS
<1>1. PICK c \in Connections : Connect(c) \/ Send(c) \/ HangUp(c) \/ Thread(c)
  BY DEF SocketNext
<1> DEFINE old == conn[c]
<1>2. old \in Connection
  BY DEF SocketTypeOK
<1>3. conn \in [Connections -> Connection]
  BY DEF SocketTypeOK
<1>c. ASSUME Close(c)
      PROVE  /\ conn' = [conn EXCEPT ![c] = [old EXCEPT !.at = "closed"]]
             /\ [old EXCEPT !.at = "closed"] \in Connection
  BY <1>2, <1>3, <1>c DEF Close, Connection
<1>a. ASSUME NEW answer \in {"none", "answer", "error"}, Answer(c, answer)
      PROVE  /\ conn' = [conn EXCEPT ![c] = [old EXCEPT !.at = "closed", !.answer = answer]]
             /\ [old EXCEPT !.at = "closed", !.answer = answer] \in Connection
  BY <1>2, <1>3, <1>a DEF Answer, Connection
<1>4. CASE Connect(c)
  <2>1. PICK r \in Requests : conn' = [conn EXCEPT ![c].at = "reading", ![c].request = r]
    BY <1>4 DEF Connect
  <2> DEFINE new == [old EXCEPT !.at = "reading", !.request = r]
  <2>2. new \in Connection /\ new.at = "reading" /\ new.answer = old.answer
    BY <1>2, SocketAssumption DEF Connection
  <2>3. conn' = [conn EXCEPT ![c] = new]
    BY <1>3, <2>1
  <2>4. Prepares(c, new)
    BY <1>4, <2>2 DEF Connect, Prepares, ToldNoMore
  <2> QED
    BY <2>2, <2>3, <2>4
<1>5. CASE Send(c)
  <2>1. PICK sent \in {"some", "all"} : conn' = [conn EXCEPT ![c].sent = sent]
    BY <1>5 DEF Send
  <2> DEFINE new == [old EXCEPT !.sent = sent]
  <2>1a. new \in Connection /\ new.at = old.at /\ new.answer = old.answer
    BY <1>2 DEF Connection
  <2>2a. old.at = "reading"
    BY <1>5 DEF Send
  <2>2. new \in Connection /\ new.at = "reading" /\ new.answer = old.answer
    BY <2>1a, <2>2a
  <2>3. conn' = [conn EXCEPT ![c] = new]
    BY <1>3, <2>1
  <2>4. Prepares(c, new)
    BY <1>5, <2>2 DEF Send, Prepares, ToldNoMore
  <2> QED
    BY <2>2, <2>3, <2>4
<1>6. CASE HangUp(c)
  <2> DEFINE new == [old EXCEPT !.ended = TRUE]
  <2>1a. new \in Connection /\ new.at = old.at /\ new.answer = old.answer
    BY <1>2 DEF Connection
  <2>2. new \in Connection /\ new.at = "reading" /\ new.answer = old.answer
    BY <1>6, <2>1a DEF HangUp
  <2>3. conn' = [conn EXCEPT ![c] = new]
    BY <1>3, <1>6 DEF HangUp
  <2>4. Prepares(c, new)
    BY <1>6, <2>2 DEF HangUp, Prepares, ToldNoMore
  <2> QED
    BY <2>2, <2>3, <2>4
<1>p. ASSUME old.at = "reading", UNCHANGED <<mutex, ran>>, NEW new \in Connection,
             conn' = [conn EXCEPT ![c] = new], new.at = "closed",
             new.answer \in {old.answer, "error"}
      PROVE  \E n \in Connection : Steps(c, n)
  <2>1. Prepares(c, new)
    BY <1>p DEF Prepares, ToldNoMore
  <2> QED
    BY <1>p, <2>1
<1>7. CASE ReadLine(c)
  <2>1. PICK does \in LineIs(c) :
            IF does \in {"denied", "malformed"} THEN Answer(c, "error")
            ELSE conn' = [conn EXCEPT ![c].at = "locking", ![c].request.does = does]
    BY <1>7 DEF ReadLine
  <2>2. does \in Ends
    BY <1>2 DEF LineIs, Ends, Connection
  <2>3. CASE Answer(c, "error")
    BY <1>2, <1>7, <1>a, <1>p, <2>3 DEF ReadLine, Connection
  <2>4. CASE conn' = [conn EXCEPT ![c].at = "locking", ![c].request.does = does]
    <3> DEFINE new == [old EXCEPT !.at = "locking", !.request.does = does]
    <3>1. new \in Connection /\ new.at = "locking" /\ new.request.form = old.request.form
          /\ new.answer = old.answer
      BY <1>2, <2>2 DEF Connection
    <3>2. conn' = [conn EXCEPT ![c] = new]
      BY <1>3, <2>4
    <3>3. Prepares(c, new)
      BY <1>7, <3>1 DEF ReadLine, Prepares, ToldNoMore
    <3> QED
      BY <3>1, <3>2, <3>3
  <2> QED
    BY <2>1, <2>3, <2>4
<1>8. CASE ReadFrame(c)
  <2>1. \/ Close(c) \/ Answer(c, "error") \/ conn' = [conn EXCEPT ![c].at = "locking"]
    BY <1>8 DEF ReadFrame
  <2>2. CASE Close(c)
    BY <1>2, <1>8, <1>c, <1>p, <2>2 DEF ReadFrame, Connection
  <2>3. CASE Answer(c, "error")
    BY <1>2, <1>8, <1>a, <1>p, <2>3 DEF ReadFrame, Connection
  <2>4. CASE conn' = [conn EXCEPT ![c].at = "locking"]
    <3> DEFINE new == [old EXCEPT !.at = "locking"]
    <3>1. new \in Connection /\ new.at = "locking" /\ new.sent = old.sent
          /\ new.answer = old.answer
      BY <1>2 DEF Connection
    <3>2. conn' = [conn EXCEPT ![c] = new]
      BY <1>3, <2>4
    <3>3. Prepares(c, new)
      BY <1>8, <3>1 DEF ReadFrame, WholeFrame, Prepares, ToldNoMore
    <3> QED
      BY <3>1, <3>2, <3>3
  <2> QED
    BY <2>1, <2>2, <2>3, <2>4
<1>9. CASE GiveUp(c)
  BY <1>2, <1>9, <1>c, <1>p DEF GiveUp, Connection
<1>10. CASE Lock(c)
  <2>1. CASE Poisoned
    <3>1. PICK new \in Connection :
              /\ conn' = [conn EXCEPT ![c] = new] /\ new.at = "closed"
              /\ new.answer \in {old.answer, "error"}
      <4>1. CASE Close(c)
        BY <1>2, <1>c, <4>1 DEF Connection
      <4>2. CASE Answer(c, "error")
        BY <1>2, <1>a, <4>2 DEF Connection
      <4> QED
        BY <1>10, <2>1, <4>1, <4>2 DEF Lock
    <3>2. Enters(c, new)
      BY <1>10, <2>1, <3>1 DEF Lock, Enters, ToldNoMore
    <3> QED
      BY <3>1, <3>2
  <2>2. CASE ~ Poisoned
    <3> DEFINE new == [old EXCEPT !.at = "running"]
    <3>1. /\ new \in Connection /\ new.at = "running"
          /\ new.request = old.request /\ new.sent = old.sent /\ new.answer = old.answer
      BY <1>2 DEF Connection
    <3>2. conn' = [conn EXCEPT ![c] = new]
      BY <1>3, <1>10, <2>2 DEF Lock
    <3>3. Enters(c, new)
      BY <1>10, <2>2, <3>1 DEF Lock, Enters, ToldNoMore
    <3> QED
      BY <3>1, <3>2, <3>3
  <2> QED
    BY <2>1, <2>2
<1>11. CASE Run(c)
  <2>1. PICK new \in Connection :
            /\ conn' = [conn EXCEPT ![c] = new] /\ new.at = "closed"
            /\ new.request = old.request /\ new.sent = old.sent
            /\ \/ new.answer = old.answer
               \/ new.answer = "answer" /\ new.request.does # "panics"
    <3>1. CASE Close(c)
      BY <1>2, <1>c, <3>1 DEF Connection
    <3>2. CASE Answer(c, "answer") /\ old.request.does # "panics"
      BY <1>2, <1>a, <3>2 DEF Connection
    <3> QED
      BY <1>11, <3>1, <3>2 DEF Run
  <2>2. Leaves(c, new)
    BY <1>11, <2>1 DEF Run, Unlocked, Leaves
  <2> QED
    BY <2>1, <2>2
<1> QED
  BY <1>1, <1>4, <1>5, <1>6, <1>7, <1>8, <1>9, <1>10, <1>11 DEF Thread
(* The requests of others are not changed by a step.                       *)
LEMMA OthersKeep ==
    ASSUME NEW c \in Connections, NEW new, conn \in [Connections -> Connection],
           conn' = [conn EXCEPT ![c] = new], NEW d \in Connections
    PROVE  conn'[d] = IF d = c THEN new ELSE conn[d]
OBVIOUS

(* A step keeps it.                                                        *)
LEMMA SocketInvNext ==
    ASSUME SocketInv, [SocketNext]_socketVars
    PROVE  SocketInv'
<1>u. CASE UNCHANGED socketVars
  BY <1>u DEF socketVars, SocketInv, SocketTypeOK, OneRuns, FramesCame, RunsEnded,
              ToldAtTheEnd, OnlySoundRuns, Poisoned
<1>n. CASE SocketNext
  <2>1. PICK c \in Connections, new \in Connection :
            /\ conn' = [conn EXCEPT ![c] = new]
            /\ Prepares(c, new) \/ Enters(c, new) \/ Leaves(c, new)
    BY <1>n, SocketSteps DEF SocketInv
  <2>2. conn \in [Connections -> Connection] /\ ran \in Seq(Connections)
    BY DEF SocketInv, SocketTypeOK
  <2>3. \A d \in Connections : conn'[d] = IF d = c THEN new ELSE conn[d]
    BY <2>1, <2>2, OthersKeep
  <2>4. \A k \in DOMAIN ran : ran[k] \in Connections
    BY <2>2
  <2>5. conn[c].at # "closed"
    BY <2>1 DEF Prepares, Enters, Leaves
  <2>6. \A k \in DOMAIN ran : conn'[ran[k]] = conn[ran[k]]
    BY <2>3, <2>4, <2>5 DEF SocketInv, RunsEnded
  <2>7. conn' \in [Connections -> Connection]
    BY <2>1, <2>2
  <2>8. FramesCame'
    BY <2>1, <2>3 DEF SocketInv, FramesCame, Prepares, Enters, Leaves
  <2>8a. ToldAtTheEnd'
    BY <2>1, <2>3, <2>5 DEF SocketInv, ToldAtTheEnd, Prepares, Enters, Leaves, ToldNoMore
  <2>9. CASE Prepares(c, new) \/ Enters(c, new)
    <3>1. ran' = ran
      BY <2>9 DEF Prepares, Enters
    <3>2. Poisoned' = Poisoned
      BY <3>1, <2>6 DEF Poisoned
    <3>3. OneRuns'
      <4>1. CASE Prepares(c, new)
        BY <2>3, <3>2, <4>1 DEF SocketInv, OneRuns, Prepares
      <4>2. CASE Enters(c, new)
        BY <2>3, <3>2, <4>2, SocketAssumption DEF SocketInv, OneRuns, Enters
      <4> QED
        BY <2>9, <4>1, <4>2
    <3>4. RunsEnded' /\ OnlySoundRuns'
      BY <2>2, <2>6, <3>1 DEF SocketInv, RunsEnded, OnlySoundRuns
    <3>5. SocketTypeOK'
      BY <2>2, <2>7, <3>1 DEF SocketTypeOK
    <3> QED
      BY <2>8, <2>8a, <3>3, <3>4, <3>5 DEF SocketInv
  <2>10. CASE Leaves(c, new)
    <3>1. ran' = Append(ran, c) /\ ran' \in Seq(Connections) /\ Len(ran') = Len(ran) + 1
      BY <2>2, <2>10 DEF Leaves
    <3>2. \A k \in DOMAIN ran : k \in DOMAIN ran' /\ ran'[k] = ran[k]
      BY <2>2, <3>1
    <3>3. \A k \in DOMAIN ran' : k \in DOMAIN ran \/ k = Len(ran) + 1
      BY <2>2, <3>1
    <3>4. ran'[Len(ran) + 1] = c
      BY <2>2, <3>1
    <3>5. mutex = c /\ ~ Poisoned
      BY <2>10 DEF SocketInv, OneRuns, Leaves
    <3>6. conn'[c] = new
      BY <2>3
    <3>7. OneRuns'
      BY <2>3, <2>10, <3>5, SocketAssumption DEF SocketInv, OneRuns, Leaves
    <3>8. RunsEnded'
      BY <2>6, <2>10, <3>2, <3>3, <3>4, <3>6 DEF SocketInv, RunsEnded, Leaves
    <3>9. OnlySoundRuns'
      <4> SUFFICES ASSUME NEW k \in DOMAIN ran'
                   PROVE  /\ \A j \in 1..(k - 1) : conn'[ran'[j]].request.does # "panics"
                          /\ conn'[ran'[k]].request.form = "frame"
                                => conn'[ran'[k]].sent = "all"
        BY DEF OnlySoundRuns
      <4>1. CASE k \in DOMAIN ran
        <5>1. \A j \in 1..(k - 1) : j \in DOMAIN ran
          BY <2>2, <4>1
        <5> QED
          BY <2>6, <3>2, <4>1, <5>1 DEF SocketInv, OnlySoundRuns
      <4>2. CASE k = Len(ran) + 1
        <5>1. \A j \in 1..(k - 1) : j \in DOMAIN ran
          BY <2>2, <4>2
        <5>2. \A j \in 1..(k - 1) : conn'[ran'[j]].request.does # "panics"
          BY <2>6, <3>2, <3>5, <5>1 DEF Poisoned
        <5>3. new.request.form = "frame" => new.sent = "all"
          BY <2>10 DEF SocketInv, FramesCame, Leaves
        <5> QED
          BY <3>4, <3>6, <4>2, <5>2, <5>3
      <4> QED
        BY <3>3, <4>1, <4>2
    <3>10. SocketTypeOK'
      BY <2>7, <3>1 DEF SocketTypeOK
    <3> QED
      BY <2>8, <2>8a, <3>7, <3>8, <3>9, <3>10 DEF SocketInv
  <2> QED
    BY <2>1, <2>9, <2>10
<1> QED
  BY <1>u, <1>n

(* However many connections there are and whatever their clients send or   *)
(* leave unsent, no command runs on a state that a panic left, and none    *)
(* comes of a frame that was cut off.                                      *)
THEOREM OnlySoundAlways == SocketSpec => []OnlySoundRuns
<1>1. SocketInv => OnlySoundRuns
  BY DEF SocketInv
<1> QED
  BY <1>1, SocketInvInit, SocketInvNext, PTL DEF SocketSpec

(* What a step does to the promise: a command is performed, an error is    *)
(* told, or neither.                                                       *)
LEMMA SocketSerial ==
    ASSUME SocketInv, SocketNext
    PROVE  Serial!Next \/ UNCHANGED <<~ Poisoned, ran, [c \in Connections |-> conn[c].answer]>>
<1> DEFINE told == [d \in Connections |-> conn[d].answer]
<1>1. PICK c \in Connections, new \in Connection :
          /\ conn' = [conn EXCEPT ![c] = new]
          /\ Prepares(c, new) \/ Enters(c, new) \/ Leaves(c, new)
  BY SocketSteps DEF SocketInv
<1>2. conn \in [Connections -> Connection] /\ ran \in Seq(Connections)
  BY DEF SocketInv, SocketTypeOK
<1>3. \A d \in Connections : conn'[d] = IF d = c THEN new ELSE conn[d]
  BY <1>1, <1>2, OthersKeep
<1>4. conn[c].at # "closed" /\ conn[c].answer = "none"
  BY <1>1 DEF SocketInv, ToldAtTheEnd, Prepares, Enters, Leaves
<1>5. \A k \in DOMAIN ran : ran[k] \in Connections /\ ran[k] # c
  BY <1>2, <1>4 DEF SocketInv, RunsEnded
<1>6. told' = [told EXCEPT ![c] = new.answer]
  BY <1>3
<1>7. told[c] = "none" /\ (new.answer = "none" => told' = told)
  BY <1>4, <1>6
<1>8. Serial!Open(c)
  BY <1>5, <1>7 DEF Serial!Open
<1>9. \A k \in DOMAIN ran : conn'[ran[k]] = conn[ran[k]]
  BY <1>3, <1>5
<1> HIDE DEF told
<1>10. CASE Prepares(c, new) \/ Enters(c, new)
  <2>1. ran' = ran /\ new.answer \in {"none", "error"}
    BY <1>4, <1>10 DEF Prepares, Enters, ToldNoMore
  <2>2. Poisoned' <=> Poisoned
    BY <1>9, <2>1 DEF Poisoned
  <2>3. CASE new.answer = "none"
    BY <1>7, <2>1, <2>2, <2>3 DEF told
  <2>4. CASE new.answer = "error"
    BY <1>6, <1>8, <2>1, <2>2, <2>4 DEF Serial!Next, Serial!Refuse, told
  <2> QED
    BY <2>1, <2>3, <2>4
<1>11. CASE Leaves(c, new)
  <2>1. ran' = Append(ran, c) /\ ~ Poisoned
    BY <1>11 DEF SocketInv, OneRuns, Leaves
  <2>2. CASE new.answer = "answer" /\ new.request.does # "panics"
    <3>1. ~ Poisoned'
      <4>1. \A k \in DOMAIN ran' : (k \in DOMAIN ran /\ ran'[k] = ran[k]) \/ ran'[k] = c
        BY <1>2, <2>1
      <4>2. conn'[c].request.does # "panics"
        BY <1>3, <2>2
      <4> QED
        BY <1>9, <2>1, <4>1, <4>2 DEF Poisoned
    <3> QED
      BY <1>6, <1>8, <2>1, <2>2, <3>1 DEF Serial!Next, Serial!Perform, told
  <2>3. CASE new.answer = "none"
    <3>1. (~ Poisoned') \in BOOLEAN
      OBVIOUS
    <3> QED
      BY <1>7, <1>8, <2>1, <2>3, <3>1 DEF Serial!Next, Serial!Perform, told
  <2> QED
    BY <1>4, <1>11, <2>2, <2>3 DEF Leaves
<1> QED
  BY <1>1, <1>10, <1>11

(* For any number of connections, whatever clients send and leave unsent   *)
(* and whichever commands panic, the threads implement a daemon that runs  *)
(* one command at a time: what it answers was run, and what it refuses     *)
(* never is.                                                               *)
THEOREM SocketIsSerial == SocketSpec => CommandsOneAtATime
<1>1. SocketInit => Serial!Init
  <2> SUFFICES ASSUME SocketInit PROVE Serial!Init
    OBVIOUS
  <2>1. ran = <<>> /\ \A c \in Connections : conn[c].answer = "none"
    BY DEF SocketInit
  <2>2. ~ Poisoned
    BY <2>1 DEF Poisoned
  <2> QED
    BY <2>1, <2>2 DEF Serial!Init
<1>2. SocketInv /\ [SocketNext]_socketVars => [Serial!Next]_(Serial!vars)
  <2>1. ASSUME UNCHANGED socketVars
        PROVE  UNCHANGED <<~ Poisoned, ran, [c \in Connections |-> conn[c].answer]>>
    BY <2>1 DEF socketVars, Poisoned
  <2> QED
    BY <2>1, SocketSerial DEF Serial!vars
<1> QED
  BY <1>1, <1>2, SocketInvInit, SocketInvNext, PTL DEF SocketSpec, CommandsOneAtATime, Serial!Spec
-----------------------------------------------------------------------------
(* Copies of the repository. *)

RefsOf == [Names -> History \cup {0}]

RepositoryType == [pack: SUBSET History, index: SUBSET History, refs: RefsOf]

CloneTypeOK ==
    /\ daemon \in [objects: SUBSET History, refs: RefsOf]
    /\ gm \in [at: {"idle", "begun", "pack", "refs", "done", "failed"}, listed: RefsOf,
              again: BOOLEAN]
    /\ bare \in RepositoryType
    /\ helper \in [at: {"idle", "started", "advertised", "fetched", "fetched more", "done",
                       "failed"},
                  listed: RefsOf, pack: SUBSET History, wanted: SUBSET History]
    /\ gitDir \in RepositoryType

(* The refs of the daemon name commits it has.                             *)
DaemonNames == Commits(daemon.refs) \subseteq daemon.objects

(* git only makes an index of a pack that has the parents of all it has.   *)
IndexClosed == HasParents(bare.index) /\ HasParents(gitDir.index)

(* A new bare repository gets its refs last; what it has of them is whole. *)
BareIsWhole ==
    /\ ~ gm.again /\ gm.at \in {"begun", "pack", "refs"} => bare.refs = NoRefs
    /\ ~ gm.again => Whole(bare)

(* What the helper advertises is in the pack it has for when the daemon    *)
(* refuses it a smaller one; what git wanted first is in the repository.   *)
HelperHas ==
    /\ helper.at = "started" => Commits(helper.listed) \subseteq daemon.objects
    /\ helper.at = "advertised" => Commits(helper.listed) \subseteq helper.pack
    /\ helper.at = "fetched" => helper.wanted \subseteq Objects(gitDir)

CloneInv == CloneTypeOK /\ DaemonNames /\ IndexClosed /\ BareIsWhole /\ HelperHas

(* A commit is in its history, and a set that has the commit and the       *)
(* parents of all it has, has the history.                                 *)
LEMMA HistoryWithin ==
    /\ \A c \in History : c \in HistoryOf(c)
    /\ \A c \in History, set \in SUBSET History :
          c \in set /\ HasParents(set) => HistoryOf(c) \subseteq set
    /\ \A c \in History : HistoryOf(c) \subseteq History
BY DEF HistoryOf

(* What refs name are commits.                                             *)
LEMMA CommitsType ==
    ASSUME NEW refs \in RefsOf
    PROVE  /\ Commits(refs) \subseteq History
           /\ \A n \in Names : refs[n] # 0 => refs[n] \in Commits(refs)
           /\ \A c \in Commits(refs) : \E n \in Names : refs[n] = c /\ c # 0
BY DEF RefsOf, Commits

(* No ref names a commit in a new repository.                              *)
LEMMA NoRefsType == NoRefs \in RefsOf /\ Commits(NoRefs) = {}
BY DEF NoRefs, RefsOf, Commits

(* A new repository has its type and a history that is whole.              *)
LEMMA NewRepositoryType ==
    /\ NewRepository \in RepositoryType
    /\ NewRepository.refs = NoRefs /\ HasParents(NewRepository.index)
BY NoRefsType DEF NewRepository, RepositoryType, HasParents

(* What has been got of a pack, once it was tried to install it.           *)
LEMMA InstalledType ==
    ASSUME NEW repository \in RepositoryType, NEW pack \in SUBSET History
    PROVE  LET new == Installed(repository, pack)
           IN  /\ new \in RepositoryType
               /\ new.refs = repository.refs
               /\ HasParents(repository.index) => HasParents(new.index)
               /\ IndexPack(pack) => Objects(new) = pack
BY DEF Installed, RepositoryType, Objects, IndexPack

(* What git reads of a repository has the parents of all it has.           *)
LEMMA ObjectsClosed ==
    ASSUME NEW repository \in RepositoryType, HasParents(repository.index)
    PROVE  Objects(repository) \subseteq History /\ HasParents(Objects(repository))
BY DEF Objects, RepositoryType, HasParents

(* With a repository's objects its history stays whole when its refs come  *)
(* to be objects it has.                                                   *)
LEMMA WholeWithNewRefs ==
    ASSUME NEW old \in RepositoryType, NEW new \in RepositoryType,
           HasParents(old.index), Whole(old), Objects(new) = Objects(old),
           \A n \in Names : new.refs[n] \in Objects(old) \/ new.refs[n] = old.refs[n]
    PROVE  Whole(new)
<1> SUFFICES ASSUME NEW c \in Commits(new.refs)
             PROVE  HistoryOf(c) \subseteq Objects(old)
  BY DEF Whole
<1>1. new.refs \in RefsOf /\ old.refs \in RefsOf
  BY DEF RepositoryType
<1>2. PICK n \in Names : new.refs[n] = c /\ c # 0
  BY <1>1, CommitsType
<1>3. c \in History
  BY <1>1, CommitsType
<1>4. CASE c \in Objects(old)
  BY <1>3, <1>4, ObjectsClosed, HistoryWithin
<1>5. CASE c = old.refs[n]
  BY <1>1, <1>2, <1>5, CommitsType DEF Whole
<1> QED
  BY <1>2, <1>4, <1>5

(* Nothing has been pushed nor copied.                                     *)
LEMMA CloneInvInit == CloneInit => CloneInv
<1> SUFFICES ASSUME CloneInit PROVE CloneInv
  OBVIOUS
<1>1. CloneTypeOK
  BY NoRefsType, NewRepositoryType DEF CloneInit, CloneTypeOK
<1>2. DaemonNames
  BY NoRefsType DEF CloneInit, DaemonNames
<1>3. IndexClosed
  BY NewRepositoryType DEF CloneInit, IndexClosed
<1>4. BareIsWhole
  BY NoRefsType, NewRepositoryType DEF CloneInit, BareIsWhole, Whole
<1>5. HelperHas
  BY DEF CloneInit, HelperHas
<1> QED
  BY <1>1, <1>2, <1>3, <1>4, <1>5 DEF CloneInv

(* What the daemon is sent and what its refs become.                       *)
LEMMA DaemonKeepsCloneInv ==
    ASSUME CloneInv, \/ \E c \in History : Arrives(c)
                     \/ \E n \in Names, c \in History \cup {0} : RefMoves(n, c)
    PROVE  CloneInv'
<1>1. daemon \in [objects: SUBSET History, refs: RefsOf]
  BY DEF CloneInv, CloneTypeOK
<1> DEFINE Grows == /\ daemon' \in [objects: SUBSET History, refs: RefsOf]
                    /\ daemon.objects \subseteq daemon'.objects
                    /\ DaemonNames'
<1>2. Grows
  <2>1. ASSUME NEW c \in History, Arrives(c)
        PROVE  Grows
    BY <1>1, <2>1 DEF CloneInv, Arrives, Changed, DaemonNames, Commits
  <2>2. ASSUME NEW n \in Names, NEW c \in History \cup {0}, RefMoves(n, c)
        PROVE  Grows
    <3>1. daemon' = [daemon EXCEPT !.refs[n] = c] /\ c \in daemon.objects \cup {0}
      BY <2>2 DEF RefMoves, Changed
    <3>2. /\ daemon' \in [objects: SUBSET History, refs: RefsOf]
          /\ daemon'.objects = daemon.objects
          /\ daemon'.refs = [daemon.refs EXCEPT ![n] = c]
      BY <1>1, <3>1 DEF RefsOf
    <3>3. daemon.refs \in RefsOf
      BY <1>1
    <3>4. \A m \in Names : daemon'.refs[m] = IF m = n THEN c ELSE daemon.refs[m]
      BY <3>2, <3>3 DEF RefsOf
    <3>5. DaemonNames'
      BY <3>1, <3>2, <3>4 DEF CloneInv, DaemonNames, Commits
    <3> QED
      BY <3>2, <3>5
  <2> QED
    BY <2>1, <2>2
<1>3. UNCHANGED <<gm, bare, helper, gitDir>>
  BY DEF Arrives, RefMoves, Changed
<1> QED
  BY <1>2, <1>3 DEF CloneInv, CloneTypeOK, IndexClosed, BareIsWhole, HelperHas, Whole, Objects,
                    HasParents, HistoryOf

(* What gm does keeps it.                                                  *)
LEMMA GmKeepsCloneInv ==
    ASSUME CloneInv,
           CloneBegin \/ MaterializeAgain \/ GetPack \/ ListRefs \/ UpdateRefs
    PROVE  CloneInv'
<1> DEFINE GmType == [at: {"idle", "begun", "pack", "refs", "done", "failed"}, listed: RefsOf,
                      again: BOOLEAN]
<1>1. /\ daemon \in [objects: SUBSET History, refs: RefsOf]
      /\ gm \in GmType /\ bare \in RepositoryType /\ HasParents(bare.index)
  BY DEF CloneInv, CloneTypeOK, IndexClosed
<1>2. UNCHANGED <<daemon, helper, gitDir>>
  BY DEF CloneBegin, MaterializeAgain, GetPack, ListRefs, UpdateRefs
<1>3. ASSUME gm' \in GmType, bare' \in RepositoryType, HasParents(bare'.index),
             BareIsWhole'
      PROVE  CloneInv'
  BY <1>2, <1>3 DEF CloneInv, CloneTypeOK, DaemonNames, IndexClosed, HelperHas, Commits,
                    Objects, HasParents
<1>4. CASE CloneBegin
  <2>1. gm' = [gm EXCEPT !.at = "begun", !.again = FALSE] /\ bare' = NewRepository
    BY <1>4 DEF CloneBegin
  <2>2. gm' \in GmType
    BY <1>1, <2>1
  <2>3. BareIsWhole'
    BY <2>1, NewRepositoryType, NoRefsType DEF BareIsWhole, Whole
  <2> QED
    BY <1>3, <2>1, <2>2, <2>3, NewRepositoryType
<1>5. CASE MaterializeAgain
  <2>1. gm' = [gm EXCEPT !.at = "begun", !.again = TRUE] /\ bare' = bare
    BY <1>5 DEF MaterializeAgain
  <2>2. gm' \in GmType /\ gm'.again
    BY <1>1, <2>1
  <2> QED
    BY <1>1, <1>3, <2>1, <2>2 DEF BareIsWhole
<1>6. CASE GetPack
  <2> DEFINE all == daemon.objects
  <2>1. all \in SUBSET History
    BY <1>1
  <2>2. bare' = IF all = {} THEN bare ELSE Installed(bare, all)
    BY <1>6 DEF GetPack, PackGetAll
  <2>3. gm' = [gm EXCEPT !.at = IF IndexPack(all) THEN "pack" ELSE "failed"]
    BY <1>6 DEF GetPack, PackGetAll
  <2>4. gm' \in GmType /\ gm'.again = gm.again
    BY <1>1, <2>3
  <2>5. bare' \in RepositoryType /\ HasParents(bare'.index) /\ bare'.refs = bare.refs
    BY <1>1, <2>1, <2>2, InstalledType
  <2>6. gm.at = "begun"
    BY <1>6 DEF GetPack
  <2>7. BareIsWhole'
    BY <2>4, <2>5, <2>6, NoRefsType DEF CloneInv, BareIsWhole, Whole
  <2> QED
    BY <1>3, <2>4, <2>5, <2>7
<1>7. CASE ListRefs
  <2>1. gm.at = "pack" /\ gm' = [gm EXCEPT !.at = "refs", !.listed = daemon.refs] /\ bare' = bare
    BY <1>7 DEF ListRefs
  <2>2. gm' \in GmType /\ gm'.again = gm.again
    BY <1>1, <2>1
  <2>3. BareIsWhole'
    BY <2>1, <2>2 DEF CloneInv, BareIsWhole, Whole, Objects
  <2> QED
    BY <1>1, <1>3, <2>1, <2>2, <2>3
<1>8. CASE UpdateRefs
  <2> DEFINE lacking == {n \in Names : gm.listed[n] \notin Objects(bare) \cup {0}}
             set == {n \in Names : gm.listed[n] # 0 /\ \A m \in lacking : n < m}
             refs == [n \in Names |-> IF n \in set THEN gm.listed[n] ELSE bare.refs[n]]
             at == IF lacking = {} THEN "done" ELSE "failed"
  <2>1. bare' = [bare EXCEPT !.refs = refs]
    BY <1>1, <1>8 DEF UpdateRefs
  <2>2. gm' = [gm EXCEPT !.at = at, !.listed = NoRefs]
    BY <1>8 DEF UpdateRefs
  <2>3. \A n \in set : gm.listed[n] \in Objects(bare)
    <3> SUFFICES ASSUME NEW n \in set PROVE n \notin lacking
      OBVIOUS
    <3>1. n \in Nat /\ ~ (n < n)
      BY CloneAssumption
    <3> QED
      BY <3>1
  <2>4. refs \in RefsOf
    BY <1>1 DEF RefsOf, RepositoryType
  <2> HIDE DEF refs, at
  <2>5. /\ bare' \in RepositoryType
        /\ bare'.index = bare.index /\ bare'.pack = bare.pack /\ bare'.refs = refs
    BY <1>1, <2>1, <2>4 DEF RepositoryType
  <2>6. Objects(bare') = Objects(bare)
    BY <2>5 DEF Objects
  <2>7. gm' \in GmType /\ gm'.again = gm.again /\ gm'.at \in {"done", "failed"}
    BY <1>1, <2>2, NoRefsType DEF at
  <2>8. \A n \in Names : refs[n] \in Objects(bare) \/ refs[n] = bare.refs[n]
    BY <2>3 DEF refs
  <2>9. Whole(bare) => Whole(bare')
    BY <1>1, <2>5, <2>6, <2>8, WholeWithNewRefs
  <2>10. BareIsWhole'
    BY <2>7, <2>9 DEF CloneInv, BareIsWhole
  <2> QED
    BY <1>1, <1>3, <2>5, <2>7, <2>10
<1> QED
  BY <1>4, <1>5, <1>6, <1>7, <1>8

(* What the helper and git do keeps it.                                    *)
LEMMA HelperKeepsCloneInv ==
    ASSUME CloneInv,
           \/ HelperStart \/ HelperAdvertise \/ GitUpdatesRefs
           \/ \E wanted \in SUBSET Lacked \ {{}} : HelperFetch(wanted) \/ HelperFetchMore(wanted)
    PROVE  CloneInv'
<1> DEFINE HelperType ==
        [at: {"idle", "started", "advertised", "fetched", "fetched more", "done", "failed"},
         listed: RefsOf, pack: SUBSET History, wanted: SUBSET History]
<1>1. /\ daemon \in [objects: SUBSET History, refs: RefsOf]
      /\ helper \in HelperType /\ gitDir \in RepositoryType /\ HasParents(gitDir.index)
  BY DEF CloneInv, CloneTypeOK, IndexClosed
<1>2. UNCHANGED <<daemon, gm, bare>>
  BY DEF HelperStart, HelperAdvertise, GitUpdatesRefs, HelperFetch, HelperFetchMore
<1>3. ASSUME helper' \in HelperType, gitDir' \in RepositoryType, HasParents(gitDir'.index),
             HelperHas'
      PROVE  CloneInv'
  <2>1. DaemonNames'
    BY <1>2 DEF CloneInv, DaemonNames, Commits
  <2>2. BareIsWhole'
    BY <1>2 DEF CloneInv, BareIsWhole, Whole, Commits, Objects
  <2>3. IndexClosed'
    BY <1>2, <1>3 DEF CloneInv, IndexClosed
  <2>4. CloneTypeOK'
    BY <1>2, <1>3 DEF CloneInv, CloneTypeOK
  <2> QED
    BY <1>3, <2>1, <2>2, <2>3, <2>4 DEF CloneInv
<1>4. CASE HelperStart
  <2>1. helper' = [at |-> "started", listed |-> daemon.refs, pack |-> {}, wanted |-> {}]
    BY <1>4 DEF HelperStart
  <2>2. helper' \in HelperType
    BY <1>1, <2>1
  <2>3. HelperHas'
    BY <1>2, <2>1 DEF CloneInv, DaemonNames, HelperHas, Commits
  <2> QED
    BY <1>1, <1>3, <1>4, <2>2, <2>3 DEF HelperStart
<1>5. CASE HelperAdvertise
  <2>1. /\ helper.at = "started"
        /\ helper' = [helper EXCEPT !.at = "advertised", !.pack = daemon.objects]
    BY <1>5 DEF HelperAdvertise, PackGetAll
  <2>2. /\ helper' \in HelperType /\ helper'.at = "advertised"
        /\ helper'.pack = daemon.objects /\ helper'.listed = helper.listed
    BY <1>1, <2>1
  <2>3. HelperHas'
    BY <2>1, <2>2 DEF CloneInv, HelperHas, Commits
  <2> QED
    BY <1>1, <1>3, <1>5, <2>2, <2>3 DEF HelperAdvertise
<1>6. ASSUME NEW wanted \in SUBSET Lacked, HelperFetch(wanted)
      PROVE  CloneInv'
  <2> DEFINE pack == PackGetReachable(wanted, helper.pack)
             at == IF IndexPack(pack) THEN "fetched" ELSE "failed"
  <2>1. /\ helper.at = "advertised" /\ gitDir' = Installed(gitDir, pack)
        /\ helper' = [helper EXCEPT !.at = at, !.wanted = wanted]
    BY <1>6 DEF HelperFetch
  <2>2. wanted \subseteq Commits(helper.listed) /\ wanted \subseteq History
    <3>1. helper.listed \in RefsOf
      BY <1>1
    <3> QED
      BY <1>6, <3>1, CommitsType DEF Lacked
  <2>3. pack \in SUBSET History /\ wanted \subseteq pack
    <3>1. wanted \subseteq Reachable(wanted)
      BY <2>2, HistoryWithin DEF Reachable
    <3>2. wanted \subseteq helper.pack
      BY <2>1, <2>2 DEF CloneInv, HelperHas
    <3> QED
      BY <1>1, <3>1, <3>2 DEF PackGetReachable
  <2> HIDE DEF pack
  <2>4. helper' \in HelperType /\ helper'.at = at /\ helper'.wanted = wanted
    BY <1>1, <2>1, <2>2
  <2>5. gitDir' \in RepositoryType /\ HasParents(gitDir'.index)
    BY <1>1, <2>1, <2>3, InstalledType
  <2>6. IndexPack(pack) => Objects(gitDir') = pack
    BY <1>1, <2>1, <2>3, InstalledType
  <2>7. HelperHas'
    BY <2>3, <2>4, <2>6 DEF HelperHas
  <2> QED
    BY <1>3, <2>4, <2>5, <2>7
<1>7. ASSUME NEW wanted \in SUBSET Lacked, HelperFetchMore(wanted)
      PROVE  CloneInv'
  <2>1. helper' = [helper EXCEPT !.at = "fetched more", !.wanted = @ \cup wanted]
    BY <1>7 DEF HelperFetchMore
  <2>2. wanted \subseteq History
    <3>1. helper.listed \in RefsOf
      BY <1>1
    <3> QED
      BY <1>7, <3>1, CommitsType DEF Lacked
  <2>3. helper' \in HelperType /\ helper'.at = "fetched more"
    BY <1>1, <2>1, <2>2
  <2>4. HelperHas'
    BY <2>3 DEF HelperHas
  <2> QED
    BY <1>1, <1>3, <1>7, <2>3, <2>4 DEF HelperFetchMore
<1>8. CASE GitUpdatesRefs
  <2> DEFINE set == {n \in Names : helper.listed[n] \in helper.wanted}
             refs == [n \in Names |-> IF n \in set THEN helper.listed[n] ELSE gitDir.refs[n]]
  <2>1. \/ /\ gitDir' = [gitDir EXCEPT !.refs = refs]
           /\ helper' = [helper EXCEPT !.at = "done"]
        \/ /\ helper' = [helper EXCEPT !.at = "failed"] /\ gitDir' = gitDir
    BY <1>1, <1>8 DEF GitUpdatesRefs
  <2>2. refs \in RefsOf
    BY <1>1 DEF RefsOf, RepositoryType
  <2> HIDE DEF refs
  <2>3. gitDir' \in RepositoryType /\ HasParents(gitDir'.index)
    BY <1>1, <2>1, <2>2 DEF RepositoryType
  <2>4. helper' \in HelperType /\ helper'.at \in {"done", "failed"}
    BY <1>1, <2>1
  <2>5. HelperHas'
    BY <2>4 DEF HelperHas
  <2> QED
    BY <1>3, <2>3, <2>4, <2>5
<1> QED
  BY <1>4, <1>5, <1>6, <1>7, <1>8

(* Every step keeps it.                                                    *)
LEMMA CloneInvNext ==
    ASSUME CloneInv, [CloneNext]_cloneVars
    PROVE  CloneInv'
<1>1. CASE UNCHANGED cloneVars
  <2>1. CloneTypeOK' /\ DaemonNames' /\ IndexClosed'
    BY <1>1 DEF cloneVars, CloneInv, CloneTypeOK, DaemonNames, IndexClosed, Commits
  <2>2. BareIsWhole'
    BY <1>1 DEF cloneVars, CloneInv, BareIsWhole, Whole, Commits, Objects
  <2>3. HelperHas'
    BY <1>1 DEF cloneVars, CloneInv, HelperHas, Commits, Objects
  <2> QED
    BY <2>1, <2>2, <2>3 DEF CloneInv
<1>2. CASE CloneNext
  BY <1>2, DaemonKeepsCloneInv, GmKeepsCloneInv, HelperKeepsCloneInv DEF CloneNext
<1> QED
  BY <1>1, <1>2

(* Whatever the history of the commits is and however the daemon changes   *)
(* between the commands that copy it, a clone has the whole history of the *)
(* refs it sets, and what git asks a helper for first is all there.        *)
THEOREM CopiesAlwaysWhole == CloneSpec => []CopiesAreWhole
<1>1. CloneInv => CopiesAreWhole
  <2> SUFFICES ASSUME CloneInv, helper.at = "fetched", NEW c \in helper.wanted
               PROVE  HistoryOf(c) \subseteq Objects(gitDir)
    BY DEF CloneInv, BareIsWhole, CopiesAreWhole
  <2>1. c \in Objects(gitDir) /\ c \in History
    BY DEF CloneInv, HelperHas, CloneTypeOK
  <2>2. gitDir \in RepositoryType /\ HasParents(gitDir.index)
    BY DEF CloneInv, CloneTypeOK, IndexClosed
  <2> QED
    BY <2>1, <2>2, ObjectsClosed, HistoryWithin
<1> QED
  BY <1>1, CloneInvInit, CloneInvNext, PTL DEF CloneSpec
-----------------------------------------------------------------------------
(* Packs. *)

PackTypeOK ==
    /\ read \in Packs
    /\ calls \in [top: 0..PackSize, caller: [Entries -> 0..PackSize],
                  reached: [Entries -> 0..Returned]]
    /\ next \in 1..(PackSize + 1)
    /\ resolved \subseteq Entries /\ known \subseteq Entries
    /\ parsed \in {"not yet", "accepted", "refused"}

(* What is resolved was begun, and all that the loop went past is resolved. *)
ResolvedInOrder ==
    /\ \A i \in resolved : calls.reached[i] # NotBegun
    /\ \A i \in Entries : i < next => i \in resolved
    /\ parsed = "accepted" => resolved = Entries

PackInv == PackTypeOK /\ ResolvedInOrder /\ resolved \subseteq Sound

(* The numbers that say how far a call got are in order.                   *)
LEMMA ReachedNumbers ==
    /\ Returned \in Nat /\ NotBegun \in 0..Returned /\ Located \in 0..Returned /\ Returned \in 0..Returned
    /\ 1 \in 0..Returned /\ NotBegun < 1 /\ NotBegun < Located /\ Located < Returned
    /\ PackSize + 1 < Located
    /\ \A c \in Entries : c + 1 \in 0..Returned /\ NotBegun < c /\ c < Located
BY PackAssumption DEF NotBegun, Located, Returned, Entries

(* And so are the places in a pack, of which the last is past its entries. *)
LEMMA Places ==
    /\ 1 \in 1..(PackSize + 1) /\ 1..(PackSize + 1) \subseteq Nat /\ Entries \subseteq Nat
    /\ \A i \in Entries : i # 0 /\ ~ (i < 1) /\ i + 1 \in 1..(PackSize + 1) /\ i < PackSize + 1
    /\ \A i, j \in Entries : j < i + 1 => j < i \/ j = i
BY PackAssumption DEF Entries

(* A call brings the entry it is for further, and leaves the others.       *)
LEMMA CallOK ==
    ASSUME PackTypeOK, NEW i \in Unbegun, Call(i)
    PROVE  /\ calls' \in [top: 0..PackSize, caller: [Entries -> 0..PackSize],
                          reached: [Entries -> 0..Returned]]
           /\ calls'.top = i
           /\ calls'.caller[i] = calls.top
           /\ calls.reached[i] = NotBegun
           /\ calls'.reached[i] = IF read[i].by = "oid" /\ read[i].base \notin known
                                  THEN 1 ELSE Located
           /\ calls'.reached[i] > calls.reached[i]
           /\ \A j \in Entries \ {i} : calls'.reached[j] = calls.reached[j]
<1>1. i \in Entries /\ i \in 0..PackSize /\ calls.reached[i] = NotBegun
  BY PackAssumption DEF Unbegun, Entries
<1> QED
  BY <1>1, ReachedNumbers DEF Call, PackTypeOK

(* So does its return.                                                     *)
LEMMA ReturnOK ==
    ASSUME PackTypeOK, NEW i \in Entries, calls.top = i, calls.reached[i] < Returned, Return
    PROVE  /\ calls' \in [top: 0..PackSize, caller: [Entries -> 0..PackSize],
                          reached: [Entries -> 0..Returned]]
           /\ calls'.top = calls.caller[i]
           /\ calls'.reached[i] = Returned /\ calls'.reached[i] # NotBegun
           /\ calls'.reached[i] > calls.reached[i]
           /\ \A j \in Entries \ {i} : calls'.reached[j] = calls.reached[j]
<1>1. calls' = [calls EXCEPT !.top = calls.caller[i], !.reached[i] = Returned]
  BY DEF Return
<1>2. calls.caller[i] \in 0..PackSize
  BY DEF PackTypeOK
<1>3. Returned \in 0..Returned /\ Returned # NotBegun
  BY ReachedNumbers, PackAssumption DEF Returned, NotBegun
<1> QED
  BY <1>1, <1>2, <1>3 DEF PackTypeOK

(* A search moves on to what comes after c.                                *)
LEMMA SearchOK ==
    ASSUME PackTypeOK, NEW i \in Entries, NEW c \in Entries, NEW then \in {c + 1, Located},
           calls.reached[i] = c, calls' = [calls EXCEPT !.reached[i] = then]
    PROVE  /\ calls' \in [top: 0..PackSize, caller: [Entries -> 0..PackSize],
                          reached: [Entries -> 0..Returned]]
           /\ calls'.top = calls.top
           /\ calls'.reached[i] > calls.reached[i] /\ calls'.reached[i] # NotBegun
           /\ \A j \in Entries \ {i} : calls'.reached[j] = calls.reached[j]
<1>1. then \in 0..Returned /\ then > c /\ then # NotBegun
  BY ReachedNumbers, PackAssumption DEF Entries, NotBegun
<1> QED
  BY <1>1 DEF PackTypeOK

(* A step makes a call, searches on, returns, or is one of the loop.       *)
Calls ==
    /\ \E i \in Unbegun : Call(i)
    /\ UNCHANGED <<next, resolved, known, parsed>>

Searches ==
    /\ \E i, c \in Entries : \E then \in {c + 1, Located} :
          calls.reached[i] = c /\ calls' = [calls EXCEPT !.reached[i] = then]
    /\ known' = known \/ \E c \in Entries : known' = known \cup {c}
    /\ UNCHANGED <<next, resolved, parsed>>

Returns(i) ==
    /\ calls.top = i /\ calls.reached[i] < Returned /\ Return
    /\ \/ resolved' = resolved
       \/ /\ resolved' = resolved \cup {i}
          /\ read[i].applies /\ (read[i].by = "none" \/ read[i].base \in resolved)
    /\ UNCHANGED <<next, known, parsed>>

Loops ==
    /\ UNCHANGED <<calls, resolved>>
    /\ \/ /\ next \in resolved /\ next' = next + 1 /\ known' = known \cup {next}
          /\ UNCHANGED parsed
       \/ parsed' = "refused" /\ UNCHANGED <<next, known>>
       \/ next = PackSize + 1 /\ parsed' = "accepted" /\ UNCHANGED <<next, known>>
    /\ parsed = "not yet"

LEMMA PackSteps ==
    ASSUME PackTypeOK, PackNext
    PROVE  /\ read' = read
           /\ Calls \/ Searches \/ (\E i \in Entries : Returns(i)) \/ Loops
<1>1. ASSUME NEW i \in Entries, BeginEntry(i) \/ NextEntry(i) \/ RefusePack(i)
      PROVE  read' = read /\ (Calls \/ Loops)
  BY <1>1 DEF BeginEntry, NextEntry, RefusePack, AtEntry, Calls, Loops
<1>2. ASSUME NEW i \in Entries, NEW c \in Entries, TryCandidate(i, c)
      PROVE  read' = read /\ Calls
  BY <1>2 DEF TryCandidate, Calls
<1>3. ASSUME NEW i \in Entries, NEW c \in Entries, NextCandidate(i, c) \/ FoundCandidate(i, c)
      PROVE  read' = read /\ Searches
  BY <1>3 DEF NextCandidate, FoundCandidate, Candidate, Searches
<1>4. ASSUME NEW i \in Entries, ResolveBase(i)
      PROVE  read' = read /\ Calls
  BY <1>4 DEF ResolveBase, Calls
<1>5. ASSUME NEW i \in Entries, Succeed(i) \/ Fail(i)
      PROVE  read' = read /\ Returns(i)
  <2>1. calls.top = i /\ calls.reached[i] \in {PackSize + 1, Located}
    BY <1>5 DEF Succeed, Fail, CannotResolve, HasBase, Candidate, Runs
  <2>2. calls.reached[i] < Returned
    BY <2>1, PackAssumption DEF Located, Returned
  <2> QED
    BY <1>5, <2>1, <2>2 DEF Succeed, Fail, HasBase, Returns
<1>6. ASSUME AcceptPack
      PROVE  read' = read /\ Loops
  BY <1>6 DEF AcceptPack, AtEntry, Loops
<1> QED
  BY <1>1, <1>2, <1>3, <1>4, <1>5, <1>6 DEF PackNext, ResolvePackEntry

(* An entry that applies and whose base is sound is sound.                 *)
LEMMA SoundIsClosed ==
    ASSUME NEW i \in Entries, read[i].applies, read[i].by = "none" \/ read[i].base \in Sound
    PROVE  i \in Sound
BY DEF Sound, Closed

(* Where all entries are sound, each applies and has a base that is there, *)
(* or none: the other entries would be closed without it.                  *)
LEMMA AllSoundApply ==
    ASSUME Sound = Entries, NEW i \in Entries
    PROVE  read[i].applies /\ (read[i].by = "none" \/ read[i].base \in Entries)
<1> SUFFICES ASSUME ~ (read[i].applies /\ (read[i].by = "none" \/ read[i].base \in Entries))
             PROVE  FALSE
  OBVIOUS
<1>1. Closed(Entries \ {i})
  BY DEF Closed
<1>2. i \in Sound /\ Entries \ {i} \in SUBSET Entries
  OBVIOUS
<1> QED
  BY <1>1, <1>2 DEF Sound

LEMMA PackInvInit == PackInit => PackInv
<1> SUFFICES ASSUME PackInit PROVE PackInv
  OBVIOUS
<1>1. calls \in [top: 0..PackSize, caller: [Entries -> 0..PackSize],
                reached: [Entries -> 0..Returned]]
  <2>1. 0 \in 0..PackSize /\ NotBegun \in 0..Returned
    BY ReachedNumbers, PackAssumption
  <2> QED
    BY <2>1 DEF PackInit
<1>2. read \in Packs /\ next = 1 /\ resolved = {} /\ known = {} /\ parsed = "not yet"
  BY DEF PackInit
<1>3. next \in 1..(PackSize + 1) /\ \A i \in Entries : ~ (i < next)
  <2>1. next = 1
    BY <1>2
  <2> QED
    BY <2>1, Places
<1> QED
  BY <1>1, <1>2, <1>3 DEF PackInv, PackTypeOK, ResolvedInOrder

(* Every step resolves only what is sound.                                 *)
LEMMA PackInvNext == PackInv /\ [PackNext]_packVars => PackInv'
<1> SUFFICES ASSUME PackInv, [PackNext]_packVars
             PROVE  PackInv'
  OBVIOUS
<1> USE DEF PackInv
<1>0. ASSUME read' = read
      PROVE  Sound' = Sound
  BY <1>0 DEF Sound, Closed
<1>1. ASSUME read' = read, Calls
      PROVE  PackInv'
  <2>1. PICK i \in Unbegun : Call(i)
    BY <1>1 DEF Calls
  <2>2. resolved' = resolved /\ next' = next /\ known' = known /\ parsed' = parsed
    BY <1>1 DEF Calls
  <2>3. i \notin resolved
    BY <2>1 DEF Unbegun, ResolvedInOrder
  <2>4. \A j \in resolved : calls'.reached[j] # NotBegun
    BY <2>1, <2>3, CallOK DEF PackTypeOK, ResolvedInOrder
  <2>5. PackTypeOK'
    BY <1>1, <2>1, <2>2, CallOK DEF PackTypeOK
  <2> QED
    BY <1>0, <1>1, <2>2, <2>4, <2>5 DEF ResolvedInOrder
<1>2. ASSUME read' = read, Searches
      PROVE  PackInv'
  <2>1. PICK i \in Entries, c \in Entries : \E then \in {c + 1, Located} :
            calls.reached[i] = c /\ calls' = [calls EXCEPT !.reached[i] = then]
    BY <1>2 DEF Searches
  <2>2. /\ resolved' = resolved /\ next' = next /\ parsed' = parsed
        /\ known' \subseteq known \cup Entries
    BY <1>2 DEF Searches
  <2>3. \A j \in resolved : calls'.reached[j] # NotBegun
    BY <2>1, SearchOK DEF ResolvedInOrder, PackTypeOK
  <2>4. PackTypeOK'
    BY <1>2, <2>1, <2>2, SearchOK DEF PackTypeOK
  <2> QED
    BY <1>0, <1>2, <2>2, <2>3, <2>4 DEF ResolvedInOrder
<1>3. ASSUME read' = read, NEW i \in Entries, Returns(i)
      PROVE  PackInv'
  <2>1. calls.top = i /\ calls.reached[i] < Returned /\ Return
    BY <1>3 DEF Returns
  <2>2. resolved' = resolved \/ (resolved' = resolved \cup {i} /\ i \in Sound)
    BY <1>3, SoundIsClosed DEF Returns
  <2>3. next' = next /\ known' = known /\ parsed' = parsed
    BY <1>3 DEF Returns
  <2>4. \A j \in resolved' : calls'.reached[j] # NotBegun
    BY <2>1, <2>2, ReturnOK DEF PackTypeOK, ResolvedInOrder
  <2>5. PackTypeOK'
    BY <1>3, <2>1, <2>2, <2>3, ReturnOK DEF PackTypeOK
  <2>6. resolved \subseteq resolved' /\ resolved' \subseteq Entries
    BY <2>2 DEF PackTypeOK
  <2> QED
    BY <1>0, <1>3, <2>2, <2>3, <2>4, <2>5, <2>6 DEF ResolvedInOrder, PackTypeOK
<1>4. ASSUME read' = read, Loops
      PROVE  PackInv'
  <2>1. resolved' = resolved /\ calls' = calls /\ known' \subseteq known \cup resolved
        /\ parsed' \in {"not yet", "accepted", "refused"} /\ parsed = "not yet"
    BY <1>4 DEF Loops, PackTypeOK
  <2>2. next' = next \/ (next \in resolved /\ next' = next + 1)
    BY <1>4 DEF Loops
  <2>3. next' \in 1..(PackSize + 1)
    <3>1. next \in 1..(PackSize + 1) /\ (next' = next \/ (next \in Entries /\ next' = next + 1))
      BY <2>2 DEF PackTypeOK
    <3> QED
      BY <3>1, Places
  <2>4. \A i \in Entries : i < next' => i \in resolved
    <3>1. \A i \in Entries : i < next => i \in resolved
      BY DEF ResolvedInOrder
    <3>2. resolved \subseteq Entries
      BY DEF PackTypeOK
    <3> QED
      BY <2>2, <3>1, <3>2, Places
  <2>5. parsed' = "accepted" => resolved = Entries
    <3>1. parsed' = "accepted" => next = PackSize + 1
      BY <1>4 DEF Loops
    <3>2. /\ \A i \in Entries : i < next => i \in resolved
          /\ resolved \subseteq Entries
      BY DEF ResolvedInOrder, PackTypeOK
    <3> QED
      BY <3>1, <3>2, Places
  <2>6. PackTypeOK'
    BY <1>4, <2>1, <2>3 DEF PackTypeOK
  <2> QED
    BY <1>0, <1>4, <2>1, <2>4, <2>5, <2>6 DEF ResolvedInOrder
<1>5. CASE UNCHANGED packVars
  BY <1>5 DEF packVars, PackTypeOK, ResolvedInOrder, Sound, Closed
<1> QED
  BY <1>1, <1>2, <1>3, <1>4, <1>5, PackSteps

(* A pack that lacks nothing and has its bases first is resolved in its    *)
(* order: one call at a time, for the entry that the loop is at, and every *)
(* base is known when it is asked for.                                     *)
GoodPack == Sound = Entries /\ BasesComeFirst

InOrder ==
    /\ parsed # "refused"
    /\ \A i \in Entries : i < next => i \in known
    /\ \A i \in Entries : i > next => calls.reached[i] = NotBegun
    /\ calls.top \in {0, next}
    /\ calls.top = 0 => Resolving = {}
    /\ calls.top # 0 => /\ next \notin resolved /\ calls.reached[next] = Located
                        /\ calls.caller[next] = 0

LEMMA InOrderInit == PackInit => InOrder
<1> SUFFICES ASSUME PackInit PROVE InOrder
  OBVIOUS
<1>1. calls.top = 0 /\ \A i \in Entries : calls.reached[i] = NotBegun
  BY DEF PackInit
<1>2. next = 1 /\ parsed = "not yet"
  BY DEF PackInit
<1>3. \A i \in Entries : ~ (i < next)
  <2>1. next = 1
    BY <1>2
  <2> QED
    BY <2>1, Places
<1> QED
  BY <1>1, <1>2, <1>3 DEF InOrder, Resolving

(* It stays so.                                                            *)
LEMMA InOrderNext ==
    PackInv /\ (GoodPack => InOrder) /\ [PackNext]_packVars => (GoodPack => InOrder)'
<1> SUFFICES ASSUME PackInv, GoodPack => InOrder, [PackNext]_packVars, GoodPack'
             PROVE  InOrder'
  OBVIOUS
<1>0. read' = read
  BY PackSteps DEF PackInv, packVars
<1>1. GoodPack /\ InOrder
  BY <1>0 DEF GoodPack, Sound, Closed, BasesComeFirst
<1>2. \A i \in Entries : /\ read[i].applies
                         /\ \/ read[i].by = "none"
                            \/ /\ read[i].base \in Entries /\ read[i].base < i
  BY <1>1, AllSoundApply DEF GoodPack, BasesComeFirst
<1>3. PackTypeOK /\ ResolvedInOrder
  BY DEF PackInv
<1>4. ASSUME NEW i \in Entries, Runs(i)
      PROVE  /\ i = next /\ i \notin resolved /\ calls.reached[i] = Located
             /\ calls.caller[i] = 0
             /\ read[i].by # "none" => read[i].base \in resolved
  <2>1. calls.top = i /\ calls.top # 0
    BY <1>4, Places DEF Runs
  <2>2. i = next /\ i \notin resolved /\ calls.reached[i] = Located /\ calls.caller[i] = 0
    BY <1>1, <2>1 DEF InOrder
  <2> QED
    BY <1>2, <1>3, <2>2 DEF ResolvedInOrder
<1>5. ASSUME NEW i \in Entries, BeginEntry(i)
      PROVE  InOrder'
  <2>1. i = next /\ i \in Unbegun /\ calls.top = 0 /\ Call(i)
    BY <1>5 DEF BeginEntry, AtEntry
  <2>2. read[i].by = "oid" => read[i].base \in known
    BY <1>1, <1>2, <2>1 DEF InOrder
  <2>3. calls'.top = i /\ calls'.reached[i] = Located /\ calls'.caller[i] = 0
    BY <1>3, <2>1, <2>2, CallOK
  <2>4. \A j \in Entries \ {i} : calls'.reached[j] = calls.reached[j]
    BY <1>3, <2>1, CallOK
  <2>5. i \notin resolved
    BY <1>3, <2>1 DEF ResolvedInOrder, Unbegun
  <2>6. next' = next /\ resolved' = resolved /\ known' = known /\ parsed' = parsed
    BY <1>5 DEF BeginEntry
  <2>7. i # 0 /\ ~ (i > i)
    BY PackAssumption DEF Entries
  <2> QED
    BY <1>1, <2>1, <2>3, <2>4, <2>5, <2>6, <2>7 DEF InOrder
<1>6. ASSUME NEW i \in Entries, NextEntry(i)
      PROVE  InOrder'
  <2>1. i = next /\ i \in resolved /\ calls' = calls /\ calls.top = 0 /\ resolved' = resolved
        /\ next' = next + 1 /\ known' = known \cup {i} /\ parsed' = parsed
    BY <1>6 DEF NextEntry, AtEntry
  <2>2. \A j \in Entries : j < i + 1 => j < i \/ j = i
    BY PackAssumption DEF Entries
  <2>3. \A j \in Entries : j > i + 1 => j > i
    BY PackAssumption DEF Entries
  <2>4. Resolving' = Resolving
    BY <2>1 DEF Resolving
  <2> QED
    BY <1>1, <2>1, <2>2, <2>3, <2>4 DEF InOrder
<1>7. ASSUME NEW i \in Entries, RefusePack(i)
      PROVE  FALSE
  BY <1>1, <1>7 DEF RefusePack, AtEntry, InOrder
<1>8. ASSUME NEW i \in Entries, NEW c \in Entries,
             TryCandidate(i, c) \/ NextCandidate(i, c) \/ FoundCandidate(i, c)
      PROVE  FALSE
  BY <1>4, <1>8, ReachedNumbers DEF TryCandidate, NextCandidate, FoundCandidate, Candidate
<1>9. ASSUME NEW i \in Entries, ResolveBase(i)
      PROVE  FALSE
  BY <1>3, <1>4, <1>9 DEF ResolveBase, HasBase, Unbegun, ResolvedInOrder
<1>10. ASSUME NEW i \in Entries, Succeed(i)
       PROVE  InOrder'
  <2>1. Runs(i) /\ resolved' = resolved \cup {i} /\ Return
        /\ UNCHANGED <<read, next, known, parsed>>
    BY <1>10 DEF Succeed, HasBase
  <2>2. i = next /\ calls.top = i /\ calls.reached[i] < Returned /\ calls.caller[i] = 0
    BY <1>4, <2>1, ReachedNumbers DEF Runs
  <2>3. /\ calls'.top = 0 /\ calls'.reached[i] = Returned
        /\ \A j \in Entries \ {i} : calls'.reached[j] = calls.reached[j]
    BY <1>3, <2>1, <2>2, ReturnOK
  <2>4. Resolving' = {}
    <3>1. ASSUME NEW j \in Entries, j # i, j \notin resolved
          PROVE  calls.reached[j] = NotBegun
      BY <1>1, <1>3, <2>2, <3>1, PackAssumption DEF InOrder, ResolvedInOrder, Entries
    <3> QED
      BY <2>1, <2>3, <3>1 DEF Resolving
  <2> QED
    BY <1>1, <2>1, <2>2, <2>3, <2>4, PackAssumption DEF InOrder, Entries
<1>11. ASSUME NEW i \in Entries, Fail(i)
       PROVE  FALSE
  <2>0. 0 \notin Entries
    BY DEF Entries
  <2>1. Runs(i)
    BY <1>11 DEF Fail, CannotResolve, Candidate, HasBase
  <2>2. calls.reached[i] # PackSize + 1
    BY <1>4, <2>1, PackAssumption DEF Located
  <2>3. read[i].by # "none" => read[i].base \notin Resolving \cup {0}
    BY <1>3, <1>4, <2>0, <2>1 DEF Resolving, PackTypeOK
  <2> QED
    BY <1>2, <1>11, <2>2, <2>3 DEF Fail, CannotResolve, Candidate
<1>12. ASSUME AcceptPack
       PROVE  InOrder'
  BY <1>1, <1>12 DEF AcceptPack, InOrder, Resolving
<1>13. CASE UNCHANGED packVars
  BY <1>1, <1>13 DEF packVars, InOrder, Resolving
<1> QED
  BY <1>5, <1>6, <1>7, <1>8, <1>9, <1>10, <1>11, <1>12, <1>13 DEF PackNext, ResolvePackEntry

(* Of whatever size a pack is and whatever its deltas are made against, it *)
(* is accepted only if every entry can be built from entries that can, and *)
(* it is if they are and come after their bases.                           *)
THEOREM SoundPacksAlwaysResolve == PackSpec => []SoundPacksResolve
<1>1. PackInv /\ (GoodPack => InOrder) => SoundPacksResolve
  <2>1. PackInv => (parsed = "accepted" => Sound = Entries)
    BY DEF PackInv, ResolvedInOrder, Sound
  <2> QED
    BY <2>1 DEF GoodPack, InOrder, SoundPacksResolve
<1> QED
  BY <1>1, PackInvInit, PackInvNext, InOrderInit, InOrderNext, PTL DEF PackSpec

(* Whatever circles there are, every step of the parser brings a call, or  *)
(* the loop, further, and none back.  With at most PackSize calls, each of *)
(* at most Returned steps, this bounds the work of a pack.                 *)
THEOREM ParsingAlwaysForward == PackSpec => ParsingGoesForward
<1> DEFINE Forward ==
        /\ \A i \in Entries : calls'.reached[i] >= calls.reached[i]
        /\ next' >= next
        /\ \/ \E i \in Entries : calls'.reached[i] > calls.reached[i]
           \/ next' > next
           \/ parsed = "not yet" /\ parsed' # parsed
<1>1. ASSUME PackTypeOK, PackNext
      PROVE  Forward
  <2>0. next \in Nat /\ \A i \in Entries : calls.reached[i] \in Nat
    <3>1. next \in 1..(PackSize + 1) /\ \A i \in Entries : calls.reached[i] \in 0..Returned
      BY <1>1 DEF PackTypeOK
    <3>2. 0..Returned \subseteq Nat
      BY ReachedNumbers
    <3> QED
      BY <3>1, <3>2, Places
  <2>1. CASE Calls
    BY <1>1, <2>0, <2>1, CallOK DEF Calls, Unbegun
  <2>2. CASE Searches
    <3>1. next' = next
      BY <2>2 DEF Searches
    <3>2. PICK i \in Entries, c \in Entries : \E then \in {c + 1, Located} :
              calls.reached[i] = c /\ calls' = [calls EXCEPT !.reached[i] = then]
      BY <2>2 DEF Searches
    <3>3. /\ calls'.reached[i] > calls.reached[i]
          /\ \A j \in Entries \ {i} : calls'.reached[j] = calls.reached[j]
      <4>1. PICK then \in {c + 1, Located} :
                calls.reached[i] = c /\ calls' = [calls EXCEPT !.reached[i] = then]
        BY <3>2
      <4> QED
        BY <1>1, <4>1, SearchOK
    <3>4. calls'.reached[i] \in Nat
      <4>1. calls'.reached[i] \in 0..Returned
        BY <1>1, <3>2, SearchOK
      <4> QED
        BY <4>1, ReachedNumbers
    <3>5. \A j \in Entries : calls'.reached[j] >= calls.reached[j]
      <4> SUFFICES ASSUME NEW j \in Entries
                   PROVE  calls'.reached[j] >= calls.reached[j]
        OBVIOUS
      <4> QED
        BY <2>0, <3>3, <3>4
    <3>6. next' >= next
      BY <2>0, <3>1
    <3> QED
      BY <3>3, <3>5, <3>6
  <2>3. ASSUME NEW i \in Entries, Returns(i)
        PROVE  Forward
    BY <1>1, <2>0, <2>3, ReturnOK DEF Returns
  <2>4. CASE Loops
    <3>1. calls' = calls
      BY <2>4 DEF Loops
    <3>2. \A j \in Entries : calls'.reached[j] >= calls.reached[j]
      BY <2>0, <3>1
    <3>3. next' = next + 1 \/ (next' = next /\ parsed = "not yet" /\ parsed' # parsed)
      BY <2>4 DEF Loops
    <3>4. next' >= next /\ (next' = next + 1 => next' > next)
      <4>1. \A n \in Nat : n >= n /\ n + 1 >= n /\ n + 1 > n
        OBVIOUS
      <4> QED
        BY <2>0, <3>3, <4>1
    <3> QED
      BY <3>2, <3>3, <3>4
  <2> QED
    BY <1>1, <2>1, <2>2, <2>3, <2>4, PackSteps
<1>2. PackInv => PackTypeOK
  BY DEF PackInv
<1>3. PackInv /\ [PackNext]_packVars => [Forward]_packVars
  BY <1>1, <1>2
<1> QED
  BY <1>3, PackInvInit, PackInvNext, PTL DEF PackSpec, ParsingGoesForward
=============================================================================
