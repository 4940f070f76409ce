-------------------------- MODULE CollaborationLog --------------------------
(***************************************************************************)
(* CollaborationEventStore of gitmesh-collaboration behind gitmeshd's      *)
(* ISSUE_, PR_ and COLLAB_ commands: a log of issues and pull requests     *)
(* opened.  Their numbers are not stored: they are their places in the log.*)
(*                                                                         *)
(* An event is its own content id: two events are the same when everything *)
(* in them is, the time included.                                          *)
(***************************************************************************)
EXTENDS SequencesExt, StoreFile

CONSTANTS
    Contents,          \* what clients open: [repo, kind, actor, title]
    SignedEvents,      \* events signed by a device, with the time it gave them
    SampleEvents,      \* what COLLAB_SEED_SAMPLES inserts, in order: two issues, two pull requests
    MaxEvents,         \* bound on the log
    MaxSeconds         \* bound on the clock

ASSUME CollaborationAssumption == Len(SampleEvents) = 4

VARIABLES
    events,       \* the log in memory
    eventFile,    \* the file
    numbered,     \* the <<event, number>> clients were answered for new events
    second

collabVars == <<events, eventFile, numbered, second>>

CollabInit ==
    /\ events = <<>>
    /\ eventFile = <<>>
    /\ numbered = {}
    /\ second = 0

EventAt(content, at) ==
    [repo |-> content.repo, kind |-> content.kind, actor |-> content.actor,
     title |-> content.title, time |-> at]

\* What is in the log already is appended again.
Insert_Bug(log, event) == Append(log, event)

(* insert, with its set of the ids that were seen *)
Insert(log, event) == IF event \in ToSet(log) THEN log ELSE Append(log, event)

(* issue_summaries, pull_request_summaries: where the events of the kind   *)
(* are in the log, in whose order they are numbered                        *)
Summaries(log, event) ==
    {k \in DOMAIN log : log[k].repo = event.repo /\ log[k].kind = event.kind}

NumberOf(log, event) ==
    Cardinality({k \in Summaries(log, event) : \E l \in DOMAIN log : k <= l /\ log[l] = event})

(* The events of one command.  The number that is answered is the count of *)
(* its kind, which is the number of an event only if it was new.           *)
OpenEvent(event) ==
    /\ Len(events) < MaxEvents
    /\ events' = Insert(events, event)
    /\ eventFile' \in Saving(eventFile, events')
    /\ numbered' =
          IF events' # events /\ eventFile' = events'
          THEN numbered \cup {<<event, Cardinality(Summaries(events', event))>>}
          ELSE numbered
    /\ UNCHANGED second

(* ISSUE_OPEN, PR_OPEN: the daemon gives the event its own time.           *)
Open(content) == OpenEvent(EventAt(content, second))

(* verify_with_identity: the actor is the device that signed.              *)
SignedByActor(signed) == signed.event.actor = signed.device

(* ISSUE_OPEN_SIGNED, PR_OPEN_SIGNED *)
OpenSigned(signed) ==
    /\ SignedByActor(signed)
    /\ OpenEvent(signed.event)

(* COLLAB_SEED_SAMPLES *)
Seeded(log) ==
    Insert(Insert(Insert(Insert(log, SampleEvents[1]), SampleEvents[2]),
                  SampleEvents[3]), SampleEvents[4])

SeedSamples ==
    /\ Len(Seeded(events)) <= MaxEvents
    /\ events' = Seeded(events)
    /\ eventFile' \in Saving(eventFile, events')
    /\ UNCHANGED <<numbered, second>>

(* from_snapshot refuses a file that has an event twice.                   *)
EventsLoad(file) == IsInjective(file)

\* The events come back in the order of their ids.
ReloadEvents_Bug == SetToSortSeq(ToSet(eventFile), LAMBDA d, e : d.time > e.time)

ReloadEvents == eventFile

CollabRestart ==
    /\ EventsLoad(eventFile)
    /\ events' = ReloadEvents
    /\ UNCHANGED <<eventFile, numbered, second>>

NextSecond ==
    /\ second < MaxSeconds
    /\ second' = second + 1
    /\ UNCHANGED <<events, eventFile, numbered>>

CollabNext ==
    \/ \E content \in Contents : Open(content)
    \/ \E signed \in SignedEvents : OpenSigned(signed)
    \/ SeedSamples
    \/ CollabRestart
    \/ NextSecond

CollabSpec == CollabInit /\ [][CollabNext]_collabVars

-----------------------------------------------------------------------------
(* Properties. *)

(* The file is one from_snapshot loads, however often an event is sent.    *)
EventFileLoads == EventsLoad(eventFile)

(* The number a new issue or pull request was answered with is its number  *)
(* from then on, whichever saves fail and however often the daemon is      *)
(* restarted: people write it into other texts.                            *)
NumbersStand == \A n \in numbered : NumberOf(events, n[1]) = n[2]
=============================================================================
