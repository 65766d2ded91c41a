------------------------------- MODULE Sound -------------------------------
(***************************************************************************)
(* The sound module (rust/sound/src/lib.rs): sounds by handle, each with   *)
(* at most one player.  The audio device, the files and the players of     *)
(* rodio are external: a player sounds until it is stopped or its source   *)
(* has run out, also when nobody holds it any more but dropping it stops   *)
(* it.  A handle is the place of its entry, counted from 1.                *)
(***************************************************************************)
EXTENDS Integers, Sequences

CONSTANTS
    Levels,       \* volumes, the first one of an entry among them
    Loudest,      \* the volume of a new entry
    MaxSounds,    \* bound: entries
    MaxPlayers,   \* bound: players ever made
    None          \* an empty slot; no player

\* What the constants are.
SoundAssumption ==
    /\ Loudest \in Levels /\ {MaxSounds, MaxPlayers} \subseteq Nat
    /\ None \notin Nat \cup [decoded : BOOLEAN, volume : Levels, sink : Nat \cup {None}]

VARIABLES
    device,       \* whether there is an audio device
    file,         \* whether the audio file is there
    entries,      \* the registry
    players,      \* rodio: each player's sound, volume and state
    answer        \* of the last call

vars == <<device, file, entries, players, answer>>

Entry(decoded) == [decoded |-> decoded, volume |-> Loudest, sink |-> None]
Live(i) == i \in DOMAIN entries /\ entries[i] # None
Handles == 1 .. MaxSounds

States == {"playing", "paused", "ended"}
Sounding == {p \in DOMAIN players : players[p].state = "playing"}

TypeOK ==
    /\ device \in BOOLEAN /\ file \in BOOLEAN
    /\ \A i \in DOMAIN entries : Live(i) =>
          entries[i].volume \in Levels /\ entries[i].sink \in {None} \cup DOMAIN players
    /\ \A p \in DOMAIN players : players[p].state \in States

Init ==
    /\ device \in BOOLEAN /\ file = TRUE
    /\ entries = <<>> /\ players = <<>> /\ answer = 0

Ended(p) == IF p = None THEN players ELSE [players EXCEPT ![p].state = "ended"]

\* load, loadStreaming: both read the file now, a static load keeps the samples.
load_entry(static) ==
    /\ Len(entries) < MaxSounds
    /\ entries' = IF file THEN Append(entries, Entry(static)) ELSE entries
    /\ answer' = IF file THEN Len(entries) + 1 ELSE 0
    /\ UNCHANGED <<device, file, players>>

\* A mistake: a new player has the device's volume, not the sound's.
start_playback_loud(i, looping) ==
    /\ Len(players) < MaxPlayers
    /\ IF ~device \/ ~Live(i) THEN answer' = 0 /\ UNCHANGED <<entries, players>>
       ELSE LET previous == entries[i].sink
                new == [of |-> i, volume |-> Loudest, looping |-> looping, state |-> "playing"]
            IN  IF entries[i].decoded \/ file
                THEN /\ players' = Append(Ended(previous), new)
                     /\ entries' = [entries EXCEPT ![i].sink = Len(players')]
                     /\ answer' = 1
                ELSE /\ players' = Ended(previous)
                     /\ entries' = [entries EXCEPT ![i].sink = None]
                     /\ answer' = 0
    /\ UNCHANGED <<device, file>>

\* play, loop: the player that the sound has stops first, also when the file of a
\* streaming sound has gone and no new player follows.
start_playback(i, looping) ==
    /\ Len(players) < MaxPlayers
    /\ IF ~device \/ ~Live(i) THEN answer' = 0 /\ UNCHANGED <<entries, players>>
       ELSE LET previous == entries[i].sink
                new == [of |-> i, volume |-> entries[i].volume, looping |-> looping,
                        state |-> "playing"]
            IN  IF entries[i].decoded \/ file
                THEN /\ players' = Append(Ended(previous), new)
                     /\ entries' = [entries EXCEPT ![i].sink = Len(players')]
                     /\ answer' = 1
                ELSE /\ players' = Ended(previous)
                     /\ entries' = [entries EXCEPT ![i].sink = None]
                     /\ answer' = 0
    /\ UNCHANGED <<device, file>>

stop(i) ==
    /\ IF Live(i) THEN /\ players' = Ended(entries[i].sink)
                       /\ entries' = [entries EXCEPT ![i].sink = None]
                       /\ answer' = 1
       ELSE answer' = 0 /\ UNCHANGED <<entries, players>>
    /\ UNCHANGED <<device, file>>

\* A player that was paused goes on as it was, one that has ended has nothing to
\* play.
HasPlayer(i) == Live(i) /\ entries[i].sink # None
pause(i) ==
    /\ IF HasPlayer(i)
       THEN /\ answer' = 1
            /\ players' = IF players[entries[i].sink].state = "ended" THEN players
                          ELSE [players EXCEPT ![entries[i].sink].state = "paused"]
       ELSE answer' = 0 /\ UNCHANGED players
    /\ UNCHANGED <<device, file, entries>>

resume(i) ==
    /\ IF HasPlayer(i)
       THEN /\ answer' = 1
            /\ players' = IF players[entries[i].sink].state # "paused" THEN players
                          ELSE [players EXCEPT ![entries[i].sink].state = "playing"]
       ELSE answer' = 0 /\ UNCHANGED players
    /\ UNCHANGED <<device, file, entries>>

set_volume(i, level) ==
    /\ IF Live(i)
       THEN /\ entries' = [entries EXCEPT ![i].volume = level]
            /\ players' = IF HasPlayer(i)
                          THEN [players EXCEPT ![entries[i].sink].volume = level] ELSE players
            /\ answer' = 1
       ELSE answer' = 0 /\ UNCHANGED <<entries, players>>
    /\ UNCHANGED <<device, file>>

is_playing(i) == HasPlayer(i) /\ entries[i].sink \in Sounding

\* The slot stays empty, so that no handle names another sound.
release(i) ==
    /\ IF Live(i) THEN /\ players' = Ended(entries[i].sink)
                       /\ entries' = [entries EXCEPT ![i] = None]
                       /\ answer' = 1
       ELSE answer' = 0 /\ UNCHANGED <<entries, players>>
    /\ UNCHANGED <<device, file>>

\* A source runs out, unless it is repeated; the file is removed.
PlayerEnds(p) ==
    /\ p \in Sounding /\ ~players[p].looping
    /\ players' = Ended(p)
    /\ UNCHANGED <<device, file, entries, answer>>
FileGoes ==
    /\ file /\ file' = FALSE
    /\ UNCHANGED <<device, entries, players, answer>>

Next ==
    \/ \E static \in BOOLEAN : load_entry(static)
    \/ \E i \in Handles : \/ \E looping \in BOOLEAN : start_playback(i, looping)
                          \/ stop(i) \/ pause(i) \/ resume(i) \/ release(i)
                          \/ \E level \in Levels : set_volume(i, level)
    \/ \E p \in 1 .. MaxPlayers : PlayerEnds(p)
    \/ FileGoes

Spec == Init /\ [][Next]_vars

-----------------------------------------------------------------------------
\* What is heard can be controlled: every player that sounds is the one of a
\* live handle, with the volume that was last set for that handle, so that it
\* can be stopped; a handle is heard at most once, is_playing tells whether it
\* is, and without a device nothing sounds.
PlayersFollowTheirHandle ==
    /\ \A p \in Sounding :
          LET i == players[p].of
          IN  Live(i) /\ entries[i].sink = p /\ players[p].volume = entries[i].volume
    /\ \A i \in Handles : is_playing(i) = (\E p \in Sounding : players[p].of = i)
    /\ ~device => Sounding = {}
=============================================================================
