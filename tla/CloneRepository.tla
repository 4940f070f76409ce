--------------------------- MODULE CloneRepository ---------------------------
(***************************************************************************)
(* Copies of the repository: gm filling a bare repository, and             *)
(* git-remote-gitmesh fetching for git, from a daemon that others push to  *)
(* meanwhile.  Each reads the daemon with several commands, and between    *)
(* two of them refs move and objects arrive.                               *)
(*                                                                         *)
(* Of the daemon only what these commands see is here: it has more and     *)
(* more objects, and its refs name commits it has, though maybe not the    *)
(* history of them.  RefDaemon and PushHelper have the rest of it.         *)
(*                                                                         *)
(* A copy keeps all it gets from the daemon in one pack file of one name,  *)
(* which is written over before git indexes it.                            *)
(***************************************************************************)
EXTENDS Naturals, FiniteSets

CONSTANTS
    History,        \* the commits, numbers: those of no commit have 0
    Parents,        \* of each commit, smaller numbers
    Names,          \* the refs, numbers: they are listed in this order
    MaxMoves        \* bound on how often the daemon changes

ASSUME CloneAssumption ==
    /\ History \subseteq Nat /\ Names \subseteq Nat
    /\ \A c \in History : c > 0 /\ \A p \in Parents[c] : p \in History /\ p < c

VARIABLES
    daemon,     \* [objects, refs]; a ref that is absent is 0
    moves,      \* how often it changed
    gm,         \* [at, listed, again]: gm repo clone, or materialize once more
    bare,       \* the bare repository it fills
    helper,     \* [at, listed, pack, wanted]: the remote helper of a git fetch
    gitDir      \* the repository git fetches into

cloneVars == <<daemon, moves, gm, bare, helper, gitDir>>

NoRefs == [n \in Names |-> 0]

(* The pack file, the pack that its index is of, and the refs              *)
NewRepository == [pack |-> {}, index |-> {}, refs |-> NoRefs]

(* A pack that is not the one its index was made of cannot be read.        *)
Objects(repository) == IF repository.index = repository.pack THEN repository.pack ELSE {}

CloneInit ==
    /\ daemon = [objects |-> {}, refs |-> NoRefs] /\ moves = 0
    /\ gm = [at |-> "idle", listed |-> NoRefs, again |-> FALSE]
    /\ bare = NewRepository
    /\ helper = [at |-> "idle", listed |-> NoRefs, pack |-> {}, wanted |-> {}]
    /\ gitDir = NewRepository

(* What is in every set of commits that has c and the parents of all it has *)
HasParents(set) == \A c \in set : Parents[c] \subseteq set

HistoryOf(c) ==
    {a \in History : \A set \in SUBSET History : c \in set /\ HasParents(set) => a \in set}

Commits(refs) == {refs[n] : n \in Names} \ {0}

Whole(repository) ==
    \A c \in Commits(repository.refs) : HistoryOf(c) \subseteq Objects(repository)

-----------------------------------------------------------------------------
(* The daemon meanwhile. *)

Changed(new) ==
    /\ moves < MaxMoves
    /\ moves' = moves + 1
    /\ daemon' = new
    /\ UNCHANGED <<gm, bare, helper, gitDir>>

(* OBJECT_PUT: a push puts the newest commit first.                        *)
Arrives(c) == Changed([daemon EXCEPT !.objects = @ \cup {c}])

RefMoves(n, c) == c \in daemon.objects \cup {0} /\ Changed([daemon EXCEPT !.refs[n] = c])

-----------------------------------------------------------------------------
(* The pack that was received, and git index-pack. *)

\* Without --strict the links of what is in the pack are not followed.
IndexPack_Bug(pack) == TRUE

(* git index-pack --strict: all that is in the pack links to is in it too. *)
IndexPack(pack) == HasParents(pack)

(* The file is written, then indexed; when that fails the new file stays   *)
(* and so does the old index.                                              *)
Installed(repository, pack) ==
    [repository EXCEPT !.pack = pack, !.index = IF IndexPack(pack) THEN pack ELSE @]

-----------------------------------------------------------------------------
(* gm: clone_from_daemon, into a new bare repository, and                  *)
(* materialize_bare_repository, which is also a command of its own.        *)

CloneBegin ==
    /\ gm.at \in {"idle", "done", "failed"}
    /\ gm' = [gm EXCEPT !.at = "begun", !.again = FALSE]
    /\ bare' = NewRepository
    /\ UNCHANGED <<daemon, moves, helper, gitDir>>

MaterializeAgain ==
    /\ gm.at \in {"done", "failed"}
    /\ gm' = [gm EXCEPT !.at = "begun", !.again = TRUE]
    /\ UNCHANGED <<daemon, moves, bare, helper, gitDir>>

(* PACK_GET all: every object there is, whatever refs lead to.             *)
PackGetAll == daemon.objects

GetPack ==
    /\ gm.at = "begun"
    /\ bare' = IF PackGetAll = {} THEN bare ELSE Installed(bare, PackGetAll)
    /\ gm' = [gm EXCEPT !.at = IF IndexPack(PackGetAll) THEN "pack" ELSE "failed"]
    /\ UNCHANGED <<daemon, moves, helper, gitDir>>

ListRefs ==
    /\ gm.at = "pack"
    /\ gm' = [gm EXCEPT !.at = "refs", !.listed = daemon.refs]
    /\ UNCHANGED <<daemon, moves, bare, helper, gitDir>>

(* git update-ref for each ref that was listed, in their order: it refuses *)
(* one to an object that the repository lacks, and those before it stay.   *)
(* A ref that is not listed any more stays also.                           *)
UpdateRefs ==
    /\ gm.at = "refs"
    /\ LET lacking == {n \in Names : gm.listed[n] \notin Objects(bare) \cup {0}}
           set     == {n \in Names : gm.listed[n] # 0 /\ \A m \in lacking : n < m}
       IN  /\ bare' = [bare EXCEPT !.refs =
                          [n \in Names |-> IF n \in set THEN gm.listed[n] ELSE @[n]]]
           /\ gm' = [gm EXCEPT !.at = IF lacking = {} THEN "done" ELSE "failed", !.listed = NoRefs]
    /\ UNCHANGED <<daemon, moves, helper, gitDir>>

-----------------------------------------------------------------------------
(* git-remote-gitmesh: main and the fetch commands of one git fetch. *)

HelperStart ==
    /\ helper.at \in {"idle", "done", "failed"}
    /\ helper' = [at |-> "started", listed |-> daemon.refs, pack |-> {}, wanted |-> {}]
    /\ UNCHANGED <<daemon, moves, gm, bare, gitDir>>

(* The pack of everything is fetched before it is known what is wanted.    *)
HelperAdvertise ==
    /\ helper.at = "started"
    /\ helper' = [helper EXCEPT !.at = "advertised", !.pack = PackGetAll]
    /\ UNCHANGED <<daemon, moves, gm, bare, gitDir>>

Lacked == Commits(helper.listed) \ Objects(gitDir)

(* PACK_GET_REACHABLE: an error when anything of it is missing.            *)
Reachable(tips) == UNION {HistoryOf(c) : c \in tips}

PackGetReachable(tips, orElse) ==
    IF Reachable(tips) \subseteq daemon.objects THEN Reachable(tips) ELSE orElse

(* git asks for what was advertised and it lacks.  After an error the      *)
(* helper takes the pack that was advertised.                              *)
HelperFetch(wanted) ==
    /\ helper.at = "advertised"
    /\ LET pack == PackGetReachable(wanted, helper.pack)
       IN  /\ gitDir' = Installed(gitDir, pack)
           /\ helper' = [helper EXCEPT !.at = IF IndexPack(pack) THEN "fetched" ELSE "failed",
                                       !.wanted = wanted]
    /\ UNCHANGED <<daemon, moves, gm, bare>>

(* What git asks for after the first blank line is taken for fetched, with *)
(* the pack that was installed for it (pack_installed).                    *)
HelperFetchMore(wanted) ==
    /\ helper.at = "fetched"
    /\ helper' = [helper EXCEPT !.at = "fetched more", !.wanted = @ \cup wanted]
    /\ UNCHANGED <<daemon, moves, gm, bare, gitDir>>

(* git, after it looked itself for what it asked for, sets its refs.       *)
GitUpdatesRefs ==
    /\ helper.at \in {"fetched", "fetched more"}
    /\ LET set == {n \in Names : helper.listed[n] \in helper.wanted}
       IN  IF \A c \in helper.wanted : HistoryOf(c) \subseteq Objects(gitDir)
           THEN /\ gitDir' = [gitDir EXCEPT !.refs =
                       [n \in Names |-> IF n \in set THEN helper.listed[n] ELSE @[n]]]
                /\ helper' = [helper EXCEPT !.at = "done"]
           ELSE /\ helper' = [helper EXCEPT !.at = "failed"]
                /\ UNCHANGED gitDir
    /\ UNCHANGED <<daemon, moves, gm, bare>>

CloneNext ==
    \/ \E c \in History : Arrives(c)
    \/ \E n \in Names, c \in History \cup {0} : RefMoves(n, c)
    \/ CloneBegin \/ MaterializeAgain \/ GetPack \/ ListRefs \/ UpdateRefs
    \/ HelperStart \/ HelperAdvertise
    \/ \E wanted \in SUBSET Lacked \ {{}} : HelperFetch(wanted) \/ HelperFetchMore(wanted)
    \/ GitUpdatesRefs

CloneSpec == CloneInit /\ [][CloneNext]_cloneVars

-----------------------------------------------------------------------------
(* Properties. *)

(* Whatever is pushed between its commands, a clone has the whole history  *)
(* of every ref it sets, and git is told that a fetch is there only when   *)
(* the history of all it asked for is: of what it asks a helper for first, *)
(* what it asks for next is not fetched.                                   *)
CopiesAreWhole ==
    /\ ~ gm.again => Whole(bare)
    /\ helper.at = "fetched" =>
          \A c \in helper.wanted : HistoryOf(c) \subseteq Objects(gitDir)

(* A repository that git fetches into keeps the history of the refs it has *)
(* when more is fetched (crates/git-remote-gitmesh/README.md:11: a fetch   *)
(* installs a pack).                                                       *)
FetchKeepsHistory == Whole(gitDir)
=============================================================================
