------------------------------ MODULE FlagFeed ------------------------------
(***************************************************************************)
(* What the server promises the consumers of the flag stream: the enabled  *)
(* state of a flag and the feed of FlagStateChangedEvents change together, *)
(* so replaying the feed over an older snapshot always ends in the current *)
(* state.  FlagToggle is shown to implement it; the SDK caches are         *)
(* specified against it.                                                   *)
(***************************************************************************)
EXTENDS Naturals, Sequences

CONSTANT Flags              \* flags of one project and environment

Enabled == {"enabled", "disabled"}
RowValue == Enabled \cup {"absent"}
FeedEvent == [flag : Flags, enabled : Enabled]

VARIABLES
    row,                    \* flag_environment_states of the environment
    feed                    \* published events, oldest first

feedVars == <<row, feed>>

FeedTypeOK ==
    /\ row \in [Flags -> RowValue]
    /\ feed \in Seq(FeedEvent)

FeedInit ==
    /\ row \in [Flags -> RowValue]
    /\ feed = <<>>

Toggle(f, v) ==
    /\ row' = [row EXCEPT ![f] = v]
    /\ feed' = Append(feed, [flag |-> f, enabled |-> v])

FeedNext == \E f \in Flags, v \in Enabled : Toggle(f, v)

FeedSpec == FeedInit /\ [][FeedNext]_feedVars

-----------------------------------------------------------------------------
\* Positions of the events of a flag.
EventsOf(f) == {i \in DOMAIN feed : feed[i].flag = f}

\* The newest event of a flag carries its current state.
FeedMatchesRow ==
    \A f \in Flags : \A i \in EventsOf(f) :
        (\A j \in EventsOf(f) : j <= i) => feed[i].enabled = row[f]
=============================================================================
