----------------------------- MODULE Switchboard -----------------------------
(***************************************************************************)
(* What the capture sinks promise to the tracks, with no locks, no lobby   *)
(* and no program counters: a track is tuned to at most one sink, gives up *)
(* the old one before it is tuned to the new one, never stays on a sink it *)
(* is not set to, and a guarded sink is not switched off under a track     *)
(* tuned to it.  StreamSinks implements this (module StreamSinksRefine).   *)
(***************************************************************************)
CONSTANTS
    Tracks,
    Sinks,
    Guarded,    \* the sinks that must be on while a track is tuned to them
    NoSink      \* tuned to nothing

VARIABLES
    set,    \* the sink a track's settings ask for, NoSink while paused
    tuned,  \* the sink that feeds the track
    on      \* the sink is running

vars == <<set, tuned, on>>

Init ==
    /\ set = [t \in Tracks |-> NoSink]
    /\ tuned = [t \in Tracks |-> NoSink]
    /\ on = [s \in Sinks |-> FALSE]

TuneIn(t, s) ==
    /\ tuned[t] = NoSink
    /\ s \in Guarded => on[s]
    /\ tuned' = [tuned EXCEPT ![t] = s]
    /\ UNCHANGED <<set, on>>

TuneOut(t) ==
    /\ tuned' = [tuned EXCEPT ![t] = NoSink]
    /\ UNCHANGED <<set, on>>

\* The settings only ever become what the track already hears.
Settle(t) ==
    /\ set' = [set EXCEPT ![t] = tuned[t]]
    /\ UNCHANGED <<tuned, on>>

SwitchOn(s) ==
    /\ on' = [on EXCEPT ![s] = TRUE]
    /\ UNCHANGED <<set, tuned>>

SwitchOff(s) ==
    /\ s \in Guarded => \A t \in Tracks : tuned[t] # s
    /\ on' = [on EXCEPT ![s] = FALSE]
    /\ UNCHANGED <<set, tuned>>

Next ==
    \/ \E t \in Tracks : TuneOut(t) \/ Settle(t)
    \/ \E t \in Tracks, s \in Sinks : TuneIn(t, s)
    \/ \E s \in Sinks : SwitchOn(s) \/ SwitchOff(s)

Spec == Init /\ [][Next]_vars

=============================================================================
