----------------------------- MODULE PackDeltas -----------------------------
(***************************************************************************)
(* parse_packfile of gitmesh-git: the entries of a pack, some of them      *)
(* deltas against another entry, named by its offset or by the id of its   *)
(* object, resolved into objects one by one.                               *)
(*                                                                         *)
(* The entries are numbered in the order of the pack, and entry i makes    *)
(* object i when it is applied to its own base, if it can be applied: no   *)
(* other entry makes it.                                                   *)
(*                                                                         *)
(* resolve_pack_entry calls itself.  Its calls are kept in the state, a    *)
(* step for each thing that one of them looks at.                          *)
(***************************************************************************)
EXTENDS Naturals

CONSTANT PackSize       \* how many entries a pack has

ASSUME PackAssumption == PackSize \in Nat

Entries == 1..PackSize

(* The base of an entry: none; the entry at an offset before it, or, when  *)
(* a distance of zero is encoded, itself; or the one with an object id.    *)
(* 0 is where no entry is, and an id of none of them.  Whether it applies: *)
(* its delta to the base, or without one whether its kind is known.        *)
Bases(i) ==
    [by : {"none"}, base : {0}, applies : BOOLEAN]
    \cup [by : {"offset"}, base : 0..i, applies : BOOLEAN]
    \cup [by : {"oid"}, base : 0..PackSize, applies : BOOLEAN]

Packs == {p \in [Entries -> UNION {Bases(i) : i \in Entries}] :
             \A i \in Entries : p[i] \in Bases(i)}

(* How far the call for an entry got: not begun, the candidate its search  *)
(* for an object id is at, its base located, returned.                     *)
NotBegun == 0
Located  == PackSize + 2
Returned == PackSize + 3

VARIABLES
    read,       \* the pack
    calls,      \* [top, caller, reached]: the call that runs, who called it, how far each got
    next,       \* the entry resolve_pack_entries is at
    resolved,   \* the entries whose object is known
    known,      \* and those of them in oid_index
    parsed      \* what came of the pack

packVars == <<read, calls, next, resolved, known, parsed>>

PackInit ==
    /\ read \in Packs
    /\ calls = [top |-> 0, caller |-> [i \in Entries |-> 0],
                reached |-> [i \in Entries |-> NotBegun]]
    /\ next = 1
    /\ resolved = {} /\ known = {}
    /\ parsed = "not yet"

(* An entry whose call failed stays marked as being resolved.              *)
Resolving == {i \in Entries : calls.reached[i] # NotBegun} \ resolved

Unbegun == {i \in Entries : calls.reached[i] = NotBegun}

(* resolve_pack_entry begins: a base with an object id that is not in      *)
(* oid_index is searched for.                                              *)
Call(i) ==
    calls' = [calls EXCEPT !.top = i, !.caller[i] = calls.top,
        !.reached[i] = IF read[i].by = "oid" /\ read[i].base \notin known THEN 1 ELSE Located]

Return == calls' = [calls EXCEPT !.top = calls.caller[@], !.reached[calls.top] = Returned]

-----------------------------------------------------------------------------
(* resolve_pack_entries: the first entry that fails refuses the pack.      *)

AtEntry(i) == parsed = "not yet" /\ calls.top = 0 /\ next = i

BeginEntry(i) ==
    /\ AtEntry(i) /\ i \in Unbegun
    /\ Call(i)
    /\ UNCHANGED <<read, next, resolved, known, parsed>>

NextEntry(i) ==
    /\ AtEntry(i) /\ i \in resolved
    /\ known' = known \cup {i}
    /\ next' = next + 1
    /\ UNCHANGED <<read, calls, resolved, parsed>>

\* An entry that fails is left out.
RefusePack_Bug(i) ==
    /\ AtEntry(i) /\ i \in Resolving
    /\ next' = next + 1
    /\ UNCHANGED <<read, calls, resolved, known, parsed>>

RefusePack(i) ==
    /\ AtEntry(i) /\ i \in Resolving
    /\ parsed' = "refused"
    /\ UNCHANGED <<read, calls, next, resolved, known>>

AcceptPack ==
    /\ AtEntry(PackSize + 1)
    /\ parsed' = "accepted"
    /\ UNCHANGED <<read, calls, next, resolved, known>>

-----------------------------------------------------------------------------
(* resolve_pack_entry, of entry i.                                         *)

Runs(i) == parsed = "not yet" /\ calls.top = i

(* The candidates for an object id: each of them is resolved until one has *)
(* it, and whether that fails does not matter.                             *)
Candidate(i, c) == Runs(i) /\ calls.reached[i] = c

TryCandidate(i, c) ==
    /\ Candidate(i, c) /\ c \in Unbegun
    /\ Call(c)
    /\ UNCHANGED <<read, next, resolved, known, parsed>>

NextCandidate(i, c) ==
    /\ Candidate(i, c) /\ c \in Resolving \cup (resolved \ {read[i].base})
    /\ calls' = [calls EXCEPT !.reached[i] = c + 1]
    /\ UNCHANGED <<read, next, resolved, known, parsed>>

FoundCandidate(i, c) ==
    /\ Candidate(i, c) /\ c \in resolved /\ c = read[i].base
    /\ known' = known \cup {c}
    /\ calls' = [calls EXCEPT !.reached[i] = Located]
    /\ UNCHANGED <<read, next, resolved, parsed>>

(* The base that was located.                                              *)
HasBase(i) == Runs(i) /\ calls.reached[i] = Located

ResolveBase(i) ==
    /\ HasBase(i) /\ read[i].by # "none" /\ read[i].base \in Unbegun
    /\ Call(read[i].base)
    /\ UNCHANGED <<read, next, resolved, known, parsed>>

Succeed(i) ==
    /\ HasBase(i) /\ read[i].applies
    /\ read[i].by = "none" \/ read[i].base \in resolved
    /\ resolved' = resolved \cup {i}
    /\ Return
    /\ UNCHANGED <<read, next, known, parsed>>

(* There is no such base, it failed, it would be its own base, or it is    *)
(* not what the delta was made from (apply_pack_delta).                    *)
CannotResolve(i) ==
    \/ Candidate(i, PackSize + 1)
    \/ HasBase(i) /\ ~ read[i].applies /\ (read[i].by = "none" \/ read[i].base \in resolved)
    \/ HasBase(i) /\ read[i].by # "none" /\ read[i].base \in Resolving \cup {0}

\* What failed is no longer marked as being resolved.
Fail_Bug(i) ==
    /\ CannotResolve(i)
    /\ calls' = [calls EXCEPT !.top = calls.caller[@], !.reached[calls.top] = NotBegun]
    /\ UNCHANGED <<read, next, resolved, known, parsed>>

Fail(i) ==
    /\ CannotResolve(i)
    /\ Return
    /\ UNCHANGED <<read, next, resolved, known, parsed>>

ResolvePackEntry(i) ==
    \/ \E c \in Entries : TryCandidate(i, c) \/ NextCandidate(i, c) \/ FoundCandidate(i, c)
    \/ ResolveBase(i) \/ Succeed(i) \/ Fail(i)

PackNext ==
    \/ \E i \in Entries : BeginEntry(i) \/ NextEntry(i) \/ RefusePack(i) \/ ResolvePackEntry(i)
    \/ AcceptPack

PackSpec == PackInit /\ [][PackNext]_packVars

-----------------------------------------------------------------------------
(* Properties. *)

(* What the deltas of a pack mean, without an order of resolving them: the *)
(* sound entries are the least set that has every entry which applies and  *)
(* has no base or one in the set.                                          *)
Closed(set) ==
    \A i \in Entries :
        read[i].applies /\ (read[i].by = "none" \/ read[i].base \in set) => i \in set

Sound == {i \in Entries : \A set \in SUBSET Entries : Closed(set) => i \in set}

BasesComeFirst == \A i \in Entries : read[i].by # "none" => read[i].base < i

(* A pack that is accepted has no circle and lacks no base, and one that   *)
(* lacks none and has every base before its deltas, as git writes them, is *)
(* accepted (crates/gitmesh-git/README.md:13).                             *)
SoundPacksResolve ==
    /\ parsed = "accepted" => Sound = Entries
    /\ parsed = "refused" => ~ (Sound = Entries /\ BasesComeFirst)

(* Whatever circles its deltas make, parsing a pack goes forward: each     *)
(* entry is begun once, a search looks at each candidate once, and every   *)
(* step brings one of them further.  What bounds these numbers bounds the  *)
(* steps, so that parsing ends, unless it stopped for want of a step.      *)
ParsingGoesForward ==
    [][/\ \A i \in Entries : calls'.reached[i] >= calls.reached[i]
       /\ next' >= next
       /\ \/ \E i \in Entries : calls'.reached[i] > calls.reached[i]
          \/ next' > next
          \/ parsed = "not yet" /\ parsed' # parsed]_packVars
=============================================================================
