----------------------------- MODULE SerialWalk -----------------------------
(***************************************************************************)
(* A caller iterating over a Walker: `next` is called until it returns     *)
(* None, and between two calls the caller may skip the directory it has    *)
(* just been given.  One action is one turn of the loop inside `next`.     *)
(***************************************************************************)
EXTENDS Walker

CONSTANTS Starts,     \* the roots a caller may request, as paths of one node
          MaxSkips,   \* bound on the calls of skip_current_dir
          OptionSets  \* the options a caller may choose, with the failures of the environment

ASSUME CallerAssumption ==
    /\ Starts \subseteq {<<n>> : n \in Nodes} /\ OptionSets \subseteq Options /\ MaxSkips \in Nat

VARIABLES walker,     \* the walker record
          returned,   \* the items given to the caller so far
          skipped,    \* the items after which the caller called skip_current_dir
          fresh       \* an item was just returned: the caller has the turn

serialVars == <<walker, returned, skipped, fresh>>

TypeOK ==
    /\ walker \in Walkers
    /\ returned \in Seq(Item) /\ skipped \subseteq ToSet(returned) /\ fresh \in BOOLEAN

SerialInit ==
    /\ \E start \in Starts, o \in OptionSets : /\ RootError(start, o) = None
                                               /\ walker = with_behavior(start, o)
    /\ returned = <<>> /\ skipped = {} /\ fresh = FALSE

Takes(turn) ==
    /\ walker' = turn.walker
    /\ returned' = returned \o turn.item
    /\ fresh' = (turn.item # None)
    /\ UNCHANGED skipped

YieldDeferred     == HasDeferred(walker) /\ Takes(TakeDeferred(walker))
YieldRoot         == AtRoot(walker) /\ Takes(take_root_entry(walker))
ScheduleDirectory == HasPending(walker) /\ Takes(schedule_pending_directory(walker))
FrameEnds         == InFrames(walker) /\ Top(walker).entries = <<>> /\ Takes(frame_ends(walker))
ReadEntry         == InFrames(walker) /\ Top(walker).entries # <<>> /\ Takes(read_entry(walker))

SkipCurrentDir ==
    /\ fresh /\ Cardinality(skipped) < MaxSkips
    /\ walker' = skip_current_dir(walker)
    /\ skipped' = skipped \cup {Last(returned)}
    /\ fresh' = FALSE
    /\ UNCHANGED returned

SerialNext == YieldDeferred \/ YieldRoot \/ ScheduleDirectory \/ FrameEnds \/ ReadEntry \/ SkipCurrentDir

SerialSpec == SerialInit /\ [][SerialNext]_serialVars

-----------------------------------------------------------------------------
(***************************************************************************)
(* Properties.                                                             *)
(***************************************************************************)
\* The count of open handles is the number of frames still open, through errors,
\* buffering and ends of directories, and never exceeds the limit.
HandlesAreOpenFrames ==
    /\ walker.open_handles = Cardinality({i \in DOMAIN walker.frames : walker.frames[i].open})
    /\ walker.open_handles <= walker.options.max_open

\* A directory is never open inside itself: the active set is exactly the identities
\* of the frames, no two frames share one, and no link leads out of the root.
NoDirectoryInsideItself ==
    LET frames == walker.frames
        ids    == {i \in DOMAIN frames : frames[i].identity # None}
    IN  /\ walker.active_directories = {frames[i].identity[1] : i \in ids}
        /\ \A i, j \in ids : frames[i].identity = frames[j].identity => i = j
        /\ \A i \in ids : frames[i].identity[1] \in Beneath[walker.root]

\* The frames, the handles and the active set tell one story at every step.
FramesAreAccounted == TypeOK /\ HandlesAreOpenFrames /\ NoDirectoryInsideItself
=============================================================================
