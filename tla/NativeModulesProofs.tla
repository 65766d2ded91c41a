------------------------ MODULE NativeModulesProofs -------------------------
(****************************************************************************)
(* Proofs about the other native modules of NativeModules, for any          *)
(* registries, handles, threads and bounds.                                 *)
(*                                                                          *)
(* A behaviour follows one module.  For each module there is an invariant   *)
(* of it alone; the theorems put them under its `focus`.                    *)
(****************************************************************************)
EXTENDS GameProofs

-----------------------------------------------------------------------------
(* The sounds.                                                             *)

SoundEntry == [decoded : BOOLEAN, volume : Levels, sink : Nat \cup {None}]
SoundPlayer ==
    [of : Nat, volume : Levels, looping : BOOLEAN, state : Sounds!States]

\* The player of an entry is one of its own, with its volume.
Controls(entries, players) ==
    \A i \in DOMAIN entries : entries[i] # None /\ entries[i].sink # None =>
       LET p == entries[i].sink
       IN  p \in DOMAIN players /\ players[p].of = i /\ players[p].volume = entries[i].volume

\* A player that can be heard again is the player of an entry.
Controlled(entries, players) ==
    \A p \in DOMAIN players : players[p].state # "ended" =>
       LET i == players[p].of
       IN  i \in DOMAIN entries /\ entries[i] # None /\ entries[i].sink = p

SoundInv ==
    /\ sound_device \in BOOLEAN /\ sound_file \in BOOLEAN
    /\ sound_entries \in Seq(SoundEntry \cup {None})
    /\ sound_players \in Seq(SoundPlayer)
    /\ ~sound_device => sound_players = <<>>
    /\ Controls(sound_entries, sound_players)
    /\ Controlled(sound_entries, sound_players)

LEMMA NoEntry == /\ None \notin Nat /\ None \notin SoundEntry /\ Loudest \in Levels
                 /\ MaxSounds \in Nat /\ MaxPlayers \in Nat
  BY NativeAssumption DEF NativeAssumption, Sounds!SoundAssumption, SoundEntry

LEMMA SoundInit == ASSUME Sounds!Init PROVE SoundInv
  <1>1. /\ sound_entries = <<>> /\ sound_players = <<>>
        /\ sound_device \in BOOLEAN /\ sound_file \in BOOLEAN
    BY DEF Sounds!Init
  <1>2. DOMAIN sound_entries = {} /\ DOMAIN sound_players = {}
    BY <1>1
  <1>3. sound_entries \in Seq(SoundEntry \cup {None}) /\ sound_players \in Seq(SoundPlayer)
    BY <1>1
  <1> QED
    BY <1>1, <1>2, <1>3 DEF SoundInv, Controls, Controlled

\* One player changes.
LEMMA ChangedPlayer ==
    ASSUME NEW players \in Seq(SoundPlayer), NEW q \in DOMAIN players, NEW r \in SoundPlayer,
           r.of = players[q].of
    PROVE  /\ [players EXCEPT ![q] = r] \in Seq(SoundPlayer)
           /\ DOMAIN [players EXCEPT ![q] = r] = DOMAIN players
           /\ Len([players EXCEPT ![q] = r]) = Len(players)
           /\ \A p \in DOMAIN players :
                 [players EXCEPT ![q] = r][p] = IF p = q THEN r ELSE players[p]
  OBVIOUS

\* The players after `stop`: that of the entry has ended.
Stopped(before, after, q) ==
    /\ after \in Seq(SoundPlayer)
    /\ Len(after) = Len(before) /\ DOMAIN after = DOMAIN before
    /\ \A p \in DOMAIN before :
          /\ after[p].of = before[p].of /\ after[p].volume = before[p].volume
          /\ after[p].state = IF p = q THEN "ended" ELSE before[p].state

LEMMA EndedPlayer ==
    ASSUME SoundInv, NEW q \in DOMAIN sound_players \cup {None}
    PROVE  Stopped(sound_players, Sounds!Ended(q), q)
  <1>1. sound_players \in Seq(SoundPlayer)
    BY DEF SoundInv
  <1>2. CASE q = None
    <2>1. None \notin DOMAIN sound_players
      BY <1>1, NoEntry
    <2> QED
      BY <1>1, <1>2, <2>1 DEF Stopped, Sounds!Ended
  <1>3. CASE q # None
    <2>1. sound_players[q] \in SoundPlayer
      BY <1>1, <1>3
    <2>2. PICK r : r = [sound_players[q] EXCEPT !.state = "ended"]
      OBVIOUS
    <2>3. /\ r \in SoundPlayer /\ r.of = sound_players[q].of
          /\ r.volume = sound_players[q].volume /\ r.state = "ended"
      BY <2>1, <2>2 DEF SoundPlayer, Sounds!States
    <2>4. Sounds!Ended(q) = [sound_players EXCEPT ![q] = r]
      BY <1>3, <2>2 DEF Sounds!Ended
    <2> QED
      BY <1>1, <1>3, <2>3, <2>4, ChangedPlayer DEF Stopped
  <1> QED
    BY <1>2, <1>3

\* One entry changes.
LEMMA ChangedEntry ==
    ASSUME NEW entries \in Seq(SoundEntry \cup {None}), NEW i \in DOMAIN entries,
           NEW e \in SoundEntry \cup {None}
    PROVE  /\ [entries EXCEPT ![i] = e] \in Seq(SoundEntry \cup {None})
           /\ DOMAIN [entries EXCEPT ![i] = e] = DOMAIN entries
           /\ \A j \in DOMAIN entries :
                 [entries EXCEPT ![i] = e][j] = IF j = i THEN e ELSE entries[j]
  <1>1. PICK V : V = SoundEntry \cup {None}
    OBVIOUS
  <1>2. entries \in Seq(V) /\ e \in V
    BY <1>1
  <1>3. /\ [entries EXCEPT ![i] = e] \in Seq(V)
        /\ DOMAIN [entries EXCEPT ![i] = e] = DOMAIN entries
        /\ \A j \in DOMAIN entries :
              [entries EXCEPT ![i] = e][j] = IF j = i THEN e ELSE entries[j]
    BY <1>2
  <1> QED
    BY <1>1, <1>3

LEMMA LiveEntry ==
    ASSUME SoundInv, NEW i, Sounds!Live(i)
    PROVE  /\ i \in DOMAIN sound_entries /\ sound_entries[i] \in SoundEntry
           /\ i \in Nat
           /\ sound_entries[i].sink \in DOMAIN sound_players \cup {None}
  <1>1. PICK V : V = SoundEntry \cup {None}
    OBVIOUS
  <1>2. sound_entries \in Seq(V)
    BY <1>1 DEF SoundInv
  <1>3. i \in DOMAIN sound_entries /\ sound_entries[i] \in V /\ i \in Nat
    BY <1>2 DEF Sounds!Live
  <1>4. sound_entries[i] \in SoundEntry
    BY <1>1, <1>3 DEF Sounds!Live
  <1> QED
    BY <1>3, <1>4, NoEntry DEF SoundInv, Controls, Sounds!Live

\* The entry whose player is stopped has none; the others keep theirs.
LEMMA StopKeeps ==
    ASSUME SoundInv, NEW i, Sounds!Live(i),
           sound_players' = Sounds!Ended(sound_entries[i].sink),
           NEW e \in SoundEntry \cup {None}, e = None \/ e.sink = None,
           sound_entries' = [sound_entries EXCEPT ![i] = e],
           UNCHANGED <<sound_device, sound_file>>
    PROVE  SoundInv'
  <1>1. PICK q : q = sound_entries[i].sink
    OBVIOUS
  <1>2. /\ i \in DOMAIN sound_entries /\ sound_entries[i] # None
        /\ q \in DOMAIN sound_players \cup {None}
    BY <1>1, LiveEntry DEF Sounds!Live
  <1>3. Stopped(sound_players, sound_players', q)
    BY <1>1, <1>2, EndedPlayer
  <1>4. /\ sound_entries' \in Seq(SoundEntry \cup {None})
        /\ DOMAIN sound_entries' = DOMAIN sound_entries
        /\ \A j \in DOMAIN sound_entries :
              sound_entries'[j] = IF j = i THEN e ELSE sound_entries[j]
    BY <1>2, ChangedEntry DEF SoundInv
  <1>5. Controls(sound_entries', sound_players')
    BY <1>3, <1>4 DEF Controls, Stopped, SoundInv
  <1>6. Controlled(sound_entries', sound_players')
    <2> SUFFICES ASSUME NEW p \in DOMAIN sound_players, p # q,
                        sound_players[p].state # "ended"
                 PROVE  LET j == sound_players[p].of
                        IN  j # i /\ j \in DOMAIN sound_entries /\ sound_entries[j] # None
                            /\ sound_entries[j].sink = p
      BY <1>3, <1>4 DEF Controlled, Stopped
    <2> QED
      BY <1>1 DEF SoundInv, Controlled
  <1>7. ~sound_device' => sound_players' = <<>>
    <2> SUFFICES ASSUME ~sound_device PROVE sound_players' = <<>>
      OBVIOUS
    <2>1. sound_players = <<>>
      BY DEF SoundInv
    <2>2. q = None
      BY <1>2, <2>1
    <2> QED
      BY <1>1, <2>1, <2>2 DEF Sounds!Ended
  <1> QED
    BY <1>3, <1>4, <1>5, <1>6, <1>7 DEF SoundInv, Stopped

\* A player follows the one that is stopped.
LEMMA StartKeeps ==
    ASSUME SoundInv, NEW i, Sounds!Live(i), sound_device,
           NEW n \in SoundPlayer, n.of = i, n.volume = sound_entries[i].volume,
           sound_players' = Append(Sounds!Ended(sound_entries[i].sink), n),
           NEW e \in SoundEntry, e.sink = Len(sound_players'),
           e.volume = sound_entries[i].volume,
           sound_entries' = [sound_entries EXCEPT ![i] = e],
           UNCHANGED <<sound_device, sound_file>>
    PROVE  SoundInv'
  <1>1. PICK q : q = sound_entries[i].sink
    OBVIOUS
  <1>2. /\ i \in DOMAIN sound_entries /\ sound_entries[i] # None
        /\ q \in DOMAIN sound_players \cup {None}
    BY <1>1, LiveEntry DEF Sounds!Live
  <1>3. PICK rest : rest = Sounds!Ended(q)
    OBVIOUS
  <1>4. Stopped(sound_players, rest, q)
    BY <1>2, <1>3, EndedPlayer
  <1>5. sound_players' = Append(rest, n) /\ rest \in Seq(SoundPlayer)
    BY <1>1, <1>3, <1>4 DEF Stopped
  <1>6. /\ sound_players' \in Seq(SoundPlayer)
        /\ Len(sound_players) \in Nat
        /\ DOMAIN sound_players = 1 .. Len(sound_players)
        /\ Len(sound_players') = Len(sound_players) + 1
        /\ DOMAIN sound_players' = 1 .. (Len(sound_players) + 1)
        /\ \A p \in DOMAIN sound_players : sound_players'[p] = rest[p]
        /\ sound_players'[Len(sound_players) + 1] = n
    BY <1>4, <1>5 DEF Stopped, SoundInv
  <1>7. /\ sound_entries' \in Seq(SoundEntry \cup {None})
        /\ DOMAIN sound_entries' = DOMAIN sound_entries
        /\ \A j \in DOMAIN sound_entries :
              sound_entries'[j] = IF j = i THEN e ELSE sound_entries[j]
    BY <1>2, ChangedEntry DEF SoundInv
  <1>8. Controls(sound_entries', sound_players')
    <2> SUFFICES ASSUME NEW j \in DOMAIN sound_entries, sound_entries'[j] # None,
                        sound_entries'[j].sink # None
                 PROVE  LET p == sound_entries'[j].sink
                        IN  /\ p \in DOMAIN sound_players' /\ sound_players'[p].of = j
                            /\ sound_players'[p].volume = sound_entries'[j].volume
      BY <1>7 DEF Controls
    <2>1. CASE j = i
      BY <1>6, <1>7, <2>1
    <2>2. CASE j # i
      <3>1. /\ sound_entries'[j] = sound_entries[j]
            /\ sound_entries[j].sink \in DOMAIN sound_players
            /\ sound_players[sound_entries[j].sink].of = j
            /\ sound_players[sound_entries[j].sink].volume = sound_entries[j].volume
        BY <1>7, <2>2 DEF Controls, SoundInv
      <3> QED
        BY <1>4, <1>6, <3>1 DEF Stopped
    <2> QED
      BY <2>1, <2>2
  <1>9. Controlled(sound_entries', sound_players')
    <2> SUFFICES ASSUME NEW p \in DOMAIN sound_players', sound_players'[p].state # "ended"
                 PROVE  LET j == sound_players'[p].of
                        IN  j \in DOMAIN sound_entries' /\ sound_entries'[j] # None
                            /\ sound_entries'[j].sink = p
      BY DEF Controlled
    <2>1. CASE p = Len(sound_players) + 1
      <3>1. e # None
        BY NoEntry
      <3> QED
        BY <1>2, <1>6, <1>7, <2>1, <3>1
    <2>2. CASE p \in DOMAIN sound_players
      <3>1. /\ sound_players'[p] = rest[p] /\ p # q
            /\ sound_players[p].state # "ended" /\ rest[p].of = sound_players[p].of
        BY <1>4, <1>6, <2>2 DEF Stopped
      <3>2. LET j == sound_players[p].of
            IN  j # i /\ j \in DOMAIN sound_entries /\ sound_entries[j] # None
                /\ sound_entries[j].sink = p
        BY <1>1, <2>2, <3>1 DEF SoundInv, Controlled
      <3> QED
        BY <1>7, <3>1, <3>2
    <2>3. p = Len(sound_players) + 1 \/ p \in DOMAIN sound_players
      <3>1. p \in 1 .. (Len(sound_players) + 1) /\ Len(sound_players) \in Nat
        BY <1>6
      <3>2. p = Len(sound_players) + 1 \/ p \in 1 .. Len(sound_players)
        BY <3>1
      <3> QED
        BY <1>6, <3>2
    <2> QED
      BY <2>1, <2>2, <2>3
  <1> QED
    BY <1>6, <1>7, <1>8, <1>9 DEF SoundInv

LEMMA LoadKeeps ==
    ASSUME SoundInv, NEW static \in BOOLEAN, Sounds!load_entry(static)
    PROVE  SoundInv'
  <1>1. CASE ~sound_file
    BY <1>1 DEF Sounds!load_entry, SoundInv
  <1>2. CASE sound_file
    <2>1. PICK e : e = Sounds!Entry(static)
      OBVIOUS
    <2>2. e \in SoundEntry /\ e.sink = None
      BY <2>1, NoEntry DEF Sounds!Entry, SoundEntry
    <2>3. PICK V : V = SoundEntry \cup {None}
      OBVIOUS
    <2>4. sound_entries' = Append(sound_entries, e) /\ sound_entries \in Seq(V) /\ e \in V
      BY <1>2, <2>1, <2>2, <2>3 DEF Sounds!load_entry, SoundInv
    <2>5. /\ sound_entries' \in Seq(V)
          /\ Len(sound_entries) \in Nat /\ DOMAIN sound_entries = 1 .. Len(sound_entries)
          /\ DOMAIN sound_entries' = 1 .. (Len(sound_entries) + 1)
          /\ \A j \in DOMAIN sound_entries : sound_entries'[j] = sound_entries[j]
          /\ sound_entries'[Len(sound_entries) + 1] = e
      BY <2>4
    <2>6. \A j \in DOMAIN sound_entries' :
             j \in DOMAIN sound_entries \/ j = Len(sound_entries) + 1
      BY <2>5
    <2>7. UNCHANGED <<sound_device, sound_file, sound_players>>
      BY DEF Sounds!load_entry
    <2>8. Controls(sound_entries', sound_players')
      BY <2>2, <2>5, <2>6, <2>7 DEF SoundInv, Controls
    <2>9. Controlled(sound_entries', sound_players')
      <3>1. DOMAIN sound_entries \subseteq DOMAIN sound_entries'
        BY <2>5
      <3> QED
        BY <2>5, <2>7, <3>1 DEF SoundInv, Controlled
    <2> QED
      BY <2>3, <2>5, <2>7, <2>8, <2>9 DEF SoundInv
  <1> QED
    BY <1>1, <1>2

LEMMA PlaybackKeeps ==
    ASSUME SoundInv, NEW i, NEW looping \in BOOLEAN, Sounds!start_playback(i, looping)
    PROVE  SoundInv'
  <1>1. CASE ~sound_device \/ ~Sounds!Live(i)
    BY <1>1 DEF Sounds!start_playback, SoundInv
  <1>2. CASE sound_device /\ Sounds!Live(i)
    <2>1. /\ i \in DOMAIN sound_entries /\ sound_entries[i] \in SoundEntry /\ i \in Nat
          /\ sound_entries[i].volume \in Levels
      BY <1>2, LiveEntry DEF SoundEntry
    <2>2. UNCHANGED <<sound_device, sound_file>>
      BY DEF Sounds!start_playback
    <2>3. CASE sound_entries[i].decoded \/ sound_file
      <3>1. PICK n : n = [of |-> i, volume |-> sound_entries[i].volume,
                          looping |-> looping, state |-> "playing"]
        OBVIOUS
      <3>2. n \in SoundPlayer /\ n.of = i /\ n.volume = sound_entries[i].volume
        BY <2>1, <3>1 DEF SoundPlayer, Sounds!States
      <3>3. PICK e : e = [sound_entries[i] EXCEPT !.sink = Len(sound_players')]
        OBVIOUS
      <3>4. /\ sound_players' = Append(Sounds!Ended(sound_entries[i].sink), n)
            /\ sound_entries' = [sound_entries EXCEPT ![i] = e]
        BY <1>2, <2>3, <3>1, <3>3 DEF Sounds!start_playback
      <3>5. Len(sound_players') \in Nat
        <4>1. Sounds!Ended(sound_entries[i].sink) \in Seq(SoundPlayer)
          BY <1>2, LiveEntry, EndedPlayer DEF Stopped
        <4> QED
          BY <3>2, <3>4, <4>1
      <3>6. e \in SoundEntry /\ e.sink = Len(sound_players')
            /\ e.volume = sound_entries[i].volume
        BY <2>1, <3>3, <3>5 DEF SoundEntry
      <3> QED
        BY <1>2, <2>2, <3>2, <3>4, <3>6, StartKeeps
    <2>4. CASE ~(sound_entries[i].decoded \/ sound_file)
      <3>1. PICK e : e = [sound_entries[i] EXCEPT !.sink = None]
        OBVIOUS
      <3>2. e \in SoundEntry /\ e.sink = None
        BY <2>1, <3>1 DEF SoundEntry
      <3>3. /\ sound_players' = Sounds!Ended(sound_entries[i].sink)
            /\ sound_entries' = [sound_entries EXCEPT ![i] = e]
        BY <1>2, <2>4, <3>1 DEF Sounds!start_playback
      <3> QED
        BY <1>2, <2>2, <3>2, <3>3, StopKeeps
    <2> QED
      BY <2>3, <2>4
  <1> QED
    BY <1>1, <1>2

LEMMA StopsKeep ==
    ASSUME SoundInv, NEW i, Sounds!stop(i) \/ Sounds!release(i)
    PROVE  SoundInv'
  <1>1. CASE ~Sounds!Live(i)
    BY <1>1 DEF Sounds!stop, Sounds!release, SoundInv
  <1>2. CASE Sounds!Live(i)
    <2>1. sound_entries[i] \in SoundEntry
      BY <1>2, LiveEntry
    <2>2. PICK e : e = [sound_entries[i] EXCEPT !.sink = None]
      OBVIOUS
    <2>3. e \in SoundEntry /\ e.sink = None
      BY <2>1, <2>2 DEF SoundEntry
    <2>4. /\ sound_players' = Sounds!Ended(sound_entries[i].sink)
          /\ \/ sound_entries' = [sound_entries EXCEPT ![i] = e]
             \/ sound_entries' = [sound_entries EXCEPT ![i] = None]
          /\ UNCHANGED <<sound_device, sound_file>>
      BY <1>2, <2>2 DEF Sounds!stop, Sounds!release
    <2> QED
      BY <1>2, <2>3, <2>4, StopKeeps
  <1> QED
    BY <1>1, <1>2

\* The state of a player changes, and is "ended" if it was.
LEMMA StateKeeps ==
    ASSUME SoundInv, NEW q \in DOMAIN sound_players, NEW s \in Sounds!States,
           sound_players[q].state = "ended" => s = "ended",
           sound_players' = [sound_players EXCEPT ![q].state = s],
           UNCHANGED <<sound_device, sound_file, sound_entries>>
    PROVE  SoundInv'
  <1>0. sound_players \in Seq(SoundPlayer)
    BY DEF SoundInv
  <1>1. sound_players[q] \in SoundPlayer
    BY <1>0
  <1>2. PICK r : r = [sound_players[q] EXCEPT !.state = s]
    OBVIOUS
  <1>3. /\ r \in SoundPlayer /\ r.of = sound_players[q].of
        /\ r.volume = sound_players[q].volume /\ r.state = s
    BY <1>1, <1>2 DEF SoundPlayer
  <1>4. sound_players' = [sound_players EXCEPT ![q] = r]
    BY <1>2
  <1>5. /\ sound_players' \in Seq(SoundPlayer)
        /\ DOMAIN sound_players' = DOMAIN sound_players
        /\ \A p \in DOMAIN sound_players :
              sound_players'[p] = IF p = q THEN r ELSE sound_players[p]
    BY <1>0, <1>3, <1>4, ChangedPlayer
  <1>6. Controls(sound_entries', sound_players')
    BY <1>3, <1>5 DEF SoundInv, Controls
  <1>7. Controlled(sound_entries', sound_players')
    BY <1>3, <1>5 DEF SoundInv, Controlled
  <1>8. ~sound_device' => sound_players' = <<>>
    <2> SUFFICES ASSUME ~sound_device PROVE FALSE
      OBVIOUS
    <2>1. sound_players = <<>>
      BY DEF SoundInv
    <2> QED
      BY <2>1
  <1> QED
    BY <1>5, <1>6, <1>7, <1>8 DEF SoundInv

LEMMA PausesKeep ==
    ASSUME SoundInv, NEW i, Sounds!pause(i) \/ Sounds!resume(i)
    PROVE  SoundInv'
  <1>1. CASE sound_players' = sound_players
    BY <1>1 DEF Sounds!pause, Sounds!resume, SoundInv
  <1>2. CASE sound_players' # sound_players
    <2>1. PICK q : q = sound_entries[i].sink
      OBVIOUS
    <2>2. Sounds!HasPlayer(i)
      BY <1>2 DEF Sounds!pause, Sounds!resume
    <2>3. q \in DOMAIN sound_players
      BY <2>1, <2>2, LiveEntry DEF Sounds!HasPlayer
    <2>4. /\ sound_players[q].state # "ended"
          /\ \/ sound_players' = [sound_players EXCEPT ![q].state = "paused"]
             \/ sound_players' = [sound_players EXCEPT ![q].state = "playing"]
          /\ UNCHANGED <<sound_device, sound_file, sound_entries>>
      BY <1>2, <2>1, <2>2 DEF Sounds!pause, Sounds!resume
    <2> QED
      BY <2>3, <2>4, StateKeeps DEF Sounds!States
  <1> QED
    BY <1>1, <1>2

LEMMA VolumeKeeps ==
    ASSUME SoundInv, NEW i, NEW level \in Levels, Sounds!set_volume(i, level)
    PROVE  SoundInv'
  <1>1. CASE ~Sounds!Live(i)
    BY <1>1 DEF Sounds!set_volume, SoundInv
  <1>2. CASE Sounds!Live(i)
    <2>1. PICK q : q = sound_entries[i].sink
      OBVIOUS
    <2>2. /\ i \in DOMAIN sound_entries /\ sound_entries[i] \in SoundEntry
          /\ q \in DOMAIN sound_players \cup {None}
      BY <1>2, <2>1, LiveEntry
    <2>3. PICK e : e = [sound_entries[i] EXCEPT !.volume = level]
      OBVIOUS
    <2>4. e \in SoundEntry /\ e.volume = level /\ e.sink = q
      BY <2>1, <2>2, <2>3 DEF SoundEntry
    <2>5. sound_entries' = [sound_entries EXCEPT ![i] = e]
          /\ UNCHANGED <<sound_device, sound_file>>
      BY <1>2, <2>3 DEF Sounds!set_volume
    <2>6. /\ sound_entries' \in Seq(SoundEntry \cup {None})
          /\ DOMAIN sound_entries' = DOMAIN sound_entries
          /\ \A j \in DOMAIN sound_entries :
                sound_entries'[j] = IF j = i THEN e ELSE sound_entries[j]
      BY <2>2, <2>4, <2>5, ChangedEntry DEF SoundInv
    <2>7. e # None /\ sound_entries[i] # None
      BY <1>2, <2>4, NoEntry DEF Sounds!Live
    <2>8. CASE q = None
      <3>1. sound_players' = sound_players
        BY <1>2, <2>1, <2>8 DEF Sounds!set_volume, Sounds!HasPlayer
      <3>2. Controls(sound_entries', sound_players')
        BY <2>4, <2>6, <2>8, <3>1 DEF SoundInv, Controls
      <3>3. Controlled(sound_entries', sound_players')
        BY <2>1, <2>4, <2>6, <2>7, <3>1 DEF SoundInv, Controlled
      <3> QED
        BY <2>5, <2>6, <3>1, <3>2, <3>3 DEF SoundInv
    <2>9. CASE q # None
      <3>1. q \in DOMAIN sound_players /\ sound_players[q] \in SoundPlayer
        BY <2>2, <2>9 DEF SoundInv
      <3>2. PICK r : r = [sound_players[q] EXCEPT !.volume = level]
        OBVIOUS
      <3>3. /\ r \in SoundPlayer /\ r.of = sound_players[q].of
            /\ r.volume = level /\ r.state = sound_players[q].state
        BY <3>1, <3>2 DEF SoundPlayer
      <3>4. sound_players' = [sound_players EXCEPT ![q] = r]
        BY <1>2, <2>1, <2>9, <3>2 DEF Sounds!set_volume, Sounds!HasPlayer
      <3>5. /\ sound_players' \in Seq(SoundPlayer)
            /\ DOMAIN sound_players' = DOMAIN sound_players
            /\ \A p \in DOMAIN sound_players :
                  sound_players'[p] = IF p = q THEN r ELSE sound_players[p]
        BY <3>1, <3>3, <3>4, ChangedPlayer DEF SoundInv
      <3>6. sound_players[q].of = i
        BY <2>1, <2>2, <2>7, <2>9 DEF SoundInv, Controls
      <3>7. Controls(sound_entries', sound_players')
        <4> SUFFICES ASSUME NEW j \in DOMAIN sound_entries, sound_entries'[j] # None,
                            sound_entries'[j].sink # None
                     PROVE  LET p == sound_entries'[j].sink
                            IN  /\ p \in DOMAIN sound_players /\ sound_players'[p].of = j
                                /\ sound_players'[p].volume = sound_entries'[j].volume
          BY <2>6, <3>5 DEF Controls
        <4>1. CASE j = i
          BY <2>4, <2>6, <3>1, <3>3, <3>5, <3>6, <4>1
        <4>2. CASE j # i
          <5>1. PICK p : p = sound_entries[j].sink
            OBVIOUS
          <5>2. /\ sound_entries'[j] = sound_entries[j] /\ p \in DOMAIN sound_players
                /\ sound_players[p].of = j
                /\ sound_players[p].volume = sound_entries[j].volume
            BY <2>6, <4>2, <5>1 DEF SoundInv, Controls
          <5>3. p # q
            BY <3>6, <4>2, <5>2
          <5> QED
            BY <3>5, <5>1, <5>2, <5>3
        <4> QED
          BY <4>1, <4>2
      <3>8. Controlled(sound_entries', sound_players')
        <4> SUFFICES ASSUME NEW p \in DOMAIN sound_players, sound_players'[p].state # "ended"
                     PROVE  LET j == sound_players'[p].of
                            IN  j \in DOMAIN sound_entries /\ sound_entries'[j] # None
                                /\ sound_entries'[j].sink = p
          BY <2>6, <3>5 DEF Controlled
        <4>1. PICK j : j = sound_players[p].of
          OBVIOUS
        <4>2. sound_players'[p].of = j /\ sound_players[p].state # "ended"
          BY <3>3, <3>5, <4>1
        <4>3. j \in DOMAIN sound_entries /\ sound_entries[j] # None /\ sound_entries[j].sink = p
          BY <4>1, <4>2 DEF SoundInv, Controlled
        <4>4. sound_entries'[j] # None /\ sound_entries'[j].sink = p
          BY <2>1, <2>4, <2>6, <2>7, <4>3
        <4> QED
          BY <4>2, <4>3, <4>4
      <3>9. ~sound_device' => sound_players' = <<>>
        <4> SUFFICES ASSUME ~sound_device PROVE FALSE
          BY <2>5
        <4>1. sound_players = <<>>
          BY DEF SoundInv
        <4> QED
          BY <3>1, <4>1
      <3> QED
        BY <2>5, <2>6, <3>5, <3>7, <3>8, <3>9 DEF SoundInv
    <2> QED
      BY <2>8, <2>9
  <1> QED
    BY <1>1, <1>2

LEMMA EndKeeps == ASSUME SoundInv, NEW p, Sounds!PlayerEnds(p) PROVE SoundInv'
  <1>1. p \in DOMAIN sound_players
    BY DEF Sounds!PlayerEnds, Sounds!Sounding
  <1>2. p # None
    BY <1>1, NoEntry DEF SoundInv
  <1>3. sound_players' = [sound_players EXCEPT ![p].state = "ended"]
        /\ UNCHANGED <<sound_device, sound_file, sound_entries>>
    BY <1>2 DEF Sounds!PlayerEnds, Sounds!Ended
  <1> QED
    BY <1>1, <1>3, StateKeeps DEF Sounds!States

LEMMA SoundStep == ASSUME SoundInv, [Sounds!Next]_sound_vars PROVE SoundInv'
  <1>1. CASE Sounds!FileGoes
    BY <1>1 DEF Sounds!FileGoes, SoundInv
  <1>2. CASE UNCHANGED sound_vars
    BY <1>2 DEF sound_vars, SoundInv
  <1> QED
    BY <1>1, <1>2, LoadKeeps, PlaybackKeeps, StopsKeep, PausesKeep, VolumeKeeps, EndKeeps
       DEF Sounds!Next

LEMMA SoundInvFollows == ASSUME SoundInv PROVE Sounds!PlayersFollowTheirHandle
  <1>1. ASSUME NEW p \in Sounds!Sounding
        PROVE  LET i == sound_players[p].of
               IN  /\ Sounds!Live(i) /\ sound_entries[i].sink = p
                   /\ sound_players[p].volume = sound_entries[i].volume
    <2>1. p \in DOMAIN sound_players /\ sound_players[p].state = "playing"
      BY DEF Sounds!Sounding
    <2>2. PICK i : i = sound_players[p].of
      OBVIOUS
    <2>3. i \in DOMAIN sound_entries /\ sound_entries[i] # None /\ sound_entries[i].sink = p
      BY <2>1, <2>2 DEF SoundInv, Controlled
    <2>4. p # None
      BY <2>1, NoEntry DEF SoundInv
    <2> QED
      BY <2>2, <2>3, <2>4 DEF SoundInv, Controls, Sounds!Live
  <1>2. ASSUME NEW i
        PROVE  Sounds!is_playing(i) = (\E p \in Sounds!Sounding : sound_players[p].of = i)
    <2>1. ASSUME Sounds!is_playing(i)
          PROVE  \E p \in Sounds!Sounding : sound_players[p].of = i
      BY <2>1 DEF Sounds!is_playing, Sounds!HasPlayer, Sounds!Live, SoundInv, Controls
    <2>2. ASSUME NEW p \in Sounds!Sounding, sound_players[p].of = i
          PROVE  Sounds!is_playing(i)
      <3>1. p # None
        BY NoEntry DEF SoundInv, Sounds!Sounding
      <3> QED
        BY <1>1, <2>2, <3>1 DEF Sounds!is_playing, Sounds!HasPlayer
    <2>3. Sounds!is_playing(i) \in BOOLEAN
      BY DEF Sounds!is_playing, Sounds!HasPlayer, Sounds!Live
    <2> QED
      BY <2>1, <2>2, <2>3
  <1>3. ~sound_device => Sounds!Sounding = {}
    <2> SUFFICES ASSUME ~sound_device PROVE Sounds!Sounding = {}
      OBVIOUS
    <2>1. sound_players = <<>>
      BY DEF SoundInv
    <2> QED
      BY <2>1 DEF Sounds!Sounding
  <1> QED
    BY <1>1, <1>2, <1>3 DEF Sounds!PlayersFollowTheirHandle

\* Every player that sounds is that of a live handle, with its volume, for any
\* sounds, players and volumes, and whatever files and devices do
\* (start_playback, stop, set_volume, release).
THEOREM SoundsAreControlled == Spec => []PlayersFollowTheirHandle
  <1>1. Init => (focus = "sound" => SoundInv)
    BY FocusStart, SoundInit
  <1>2. (focus = "sound" => SoundInv) /\ [Next]_vars => (focus = "sound" => SoundInv)'
    BY FocusStep, SoundStep
  <1>3. (focus = "sound" => SoundInv) => PlayersFollowTheirHandle
    BY SoundInvFollows DEF PlayersFollowTheirHandle
  <1> QED
    BY <1>1, <1>2, <1>3, PTL DEF Spec

-----------------------------------------------------------------------------
(* The prompts of the terminal.                                            *)

\* A prompt that found raw mode found a thread in TUI mode; without a guard it
\* has left the mode alone, and it is without one in a thread in TUI mode.
PromptsInv ==
    /\ term_raw \in BOOLEAN /\ term_raw_mode \in [Threads -> BOOLEAN]
    /\ term_prompt \in Prompts!Prompt \cup {None}
    /\ term_raw => \/ \E u \in Threads : term_raw_mode[u]
                   \/ term_prompt # None /\ term_prompt.guard
    /\ term_prompt # None =>
          /\ term_prompt.before => \E u \in Threads : term_raw_mode[u]
          /\ ~term_prompt.guard => term_raw = term_prompt.before
          /\ term_prompt.kind # "password" =>
                term_prompt.guard = ~term_raw_mode[term_prompt.by]

LEMMA PromptsInit == ASSUME Prompts!Init PROVE PromptsInv
  BY DEF Prompts!Init, PromptsInv

LEMMA NoPrompt == MaxChoices \in Nat /\ None \notin Prompts!Prompt
  BY NativeAssumption DEF NativeAssumption, Prompts!PromptsAssumption

LEMMA ModesKeep ==
    ASSUME PromptsInv, NEW t \in Threads, Prompts!enter(t) \/ Prompts!exit(t)
    PROVE  PromptsInv' /\ term_prompt' = None
  <1>1. CASE Prompts!enter(t)
    BY <1>1 DEF Prompts!enter, PromptsInv
  <1>2. CASE Prompts!exit(t)
    BY <1>2 DEF Prompts!exit, PromptsInv
  <1> QED
    BY <1>1, <1>2

LEMMA BeginKeeps ==
    ASSUME PromptsInv, NEW t \in Threads, NEW kind \in Prompts!Menus \cup {"key", "password"},
           NEW entries \in Nat, NEW guard \in BOOLEAN,
           Prompts!Begin(t, kind, entries, guard),
           kind # "password" => guard = ~term_raw_mode[t], kind = "password" => guard
    PROVE  PromptsInv' /\ term_prompt = None /\ term_prompt' # None
  <1>1. PICK p : p = [by |-> t, kind |-> kind, entries |-> entries, selected |-> 0,
                      checked |-> {}, guard |-> guard, before |-> term_raw]
    OBVIOUS
  <1>2. /\ p \in Prompts!Prompt /\ p.by = t /\ p.kind = kind /\ p.guard = guard
        /\ p.before = term_raw
    BY <1>1 DEF Prompts!Prompt, PromptsInv
  <1>3. term_prompt' = p /\ term_prompt = None
        /\ term_raw' = (term_raw \/ guard) /\ term_raw_mode' = term_raw_mode
    BY <1>1 DEF Prompts!Begin
  <1>4. p # None
    BY <1>2, NoPrompt
  <1> QED
    BY <1>2, <1>3, <1>4 DEF PromptsInv

LEMMA PromptBegins ==
    ASSUME PromptsInv, NEW t \in Threads,
           \/ Prompts!read_key(t) \/ Prompts!read_secret(t)
           \/ \E entries \in 0 .. MaxChoices :
                 Prompts!select(t, entries) \/ Prompts!menu(t, entries)
                 \/ Prompts!multiselect(t, entries)
    PROVE  PromptsInv' /\ term_prompt = None /\ term_prompt' # None
  <1>1. (~term_raw_mode[t]) \in BOOLEAN
    OBVIOUS
  <1>2. CASE Prompts!read_secret(t)
    BY <1>2, BeginKeeps DEF Prompts!read_secret
  <1>3. CASE Prompts!read_key(t)
    BY <1>1, <1>3, BeginKeeps DEF Prompts!read_key, Prompts!interactive
  <1>4. ASSUME NEW entries \in 0 .. MaxChoices,
               Prompts!select(t, entries) \/ Prompts!menu(t, entries)
               \/ Prompts!multiselect(t, entries)
        PROVE  PromptsInv' /\ term_prompt = None /\ term_prompt' # None
    <2>1. PICK kind \in Prompts!Menus : Prompts!Begin(t, kind, entries, ~term_raw_mode[t])
      BY <1>4 DEF Prompts!select, Prompts!menu, Prompts!multiselect, Prompts!interactive,
                  Prompts!Menus
    <2>2. entries \in Nat /\ kind # "password"
      BY NoPrompt DEF Prompts!Menus
    <2> QED
      BY <1>1, <2>1, <2>2, BeginKeeps
  <1> QED
    BY <1>2, <1>3, <1>4

\* A key that does not end the prompt.
LEMMA KeyKeeps ==
    ASSUME PromptsInv, Prompts!Up \/ Prompts!Down \/ Prompts!Space
    PROVE  PromptsInv' /\ term_prompt # None /\ term_prompt' # None
  <1>1. term_prompt \in Prompts!Prompt /\ term_prompt # None
    BY DEF Prompts!Up, Prompts!Down, Prompts!Space, Prompts!InMenu, PromptsInv
  <1>2. \E s \in Nat, c \in SUBSET Nat :
           term_prompt' = [term_prompt EXCEPT !.selected = s, !.checked = c]
    <2>1. term_prompt.selected \in Nat /\ term_prompt.checked \in SUBSET Nat
      BY <1>1 DEF Prompts!Prompt
    <2>2. CASE Prompts!Up
      <3>1. term_prompt.selected - 1 \in Nat
        BY <2>1, <2>2 DEF Prompts!Up
      <3>2. term_prompt' = [term_prompt EXCEPT !.selected = term_prompt.selected - 1,
                                               !.checked = term_prompt.checked]
        BY <1>1, <2>2 DEF Prompts!Up, Prompts!Show, Prompts!Prompt
      <3> QED
        BY <2>1, <3>1, <3>2
    <2>3. CASE Prompts!Down
      <3>1. term_prompt.selected + 1 \in Nat
        BY <2>1
      <3>2. term_prompt' = [term_prompt EXCEPT !.selected = term_prompt.selected + 1,
                                               !.checked = term_prompt.checked]
        BY <1>1, <2>3 DEF Prompts!Down, Prompts!Show, Prompts!Prompt
      <3> QED
        BY <2>1, <3>1, <3>2
    <2>4. CASE Prompts!Space
      <3>1. PICK c : c = IF term_prompt.selected \in term_prompt.checked
                         THEN term_prompt.checked \ {term_prompt.selected}
                         ELSE term_prompt.checked \cup {term_prompt.selected}
        OBVIOUS
      <3>2. c \in SUBSET Nat
        BY <2>1, <3>1
      <3>3. term_prompt' = [term_prompt EXCEPT !.selected = term_prompt.selected,
                                               !.checked = c]
        BY <1>1, <2>4, <3>1 DEF Prompts!Space, Prompts!Show, Prompts!Prompt
      <3> QED
        BY <2>1, <3>2, <3>3
    <2> QED
      BY <2>2, <2>3, <2>4
  <1>3. /\ term_prompt' \in Prompts!Prompt
        /\ term_prompt'.by = term_prompt.by /\ term_prompt'.kind = term_prompt.kind
        /\ term_prompt'.guard = term_prompt.guard /\ term_prompt'.before = term_prompt.before
    BY <1>1, <1>2 DEF Prompts!Prompt
  <1>4. term_prompt' # None
    BY <1>3, NoPrompt
  <1>5. UNCHANGED <<term_raw, term_raw_mode>>
    BY DEF Prompts!Up, Prompts!Down, Prompts!Space, Prompts!Show
  <1> QED
    BY <1>1, <1>3, <1>4, <1>5 DEF PromptsInv

LEMMA EndRestores ==
    ASSUME PromptsInv, Prompts!Answer \/ Prompts!Read
    PROVE  PromptsInv' /\ Prompts!PromptEndsAsItBegan
  <1>1. /\ term_prompt # None /\ term_prompt' = None
        /\ term_raw' = (term_raw /\ ~term_prompt.guard) /\ term_raw_mode' = term_raw_mode
    BY DEF Prompts!Answer, Prompts!Read, Prompts!InMenu, Prompts!End
  <1>2. /\ term_prompt.by \in Threads
        /\ term_prompt.guard \in BOOLEAN /\ term_prompt.before \in BOOLEAN
    BY <1>1 DEF PromptsInv, Prompts!Prompt
  <1>3. PromptsInv'
    BY <1>1 DEF PromptsInv
  <1>4. Prompts!PromptEndsAsItBegan
    <2>1. CASE ~term_prompt.guard
      BY <1>1, <1>2, <2>1 DEF Prompts!PromptEndsAsItBegan, PromptsInv
    <2>2. CASE term_prompt.guard /\ ~term_prompt.before
      BY <1>1, <1>2, <2>2 DEF Prompts!PromptEndsAsItBegan
    <2>3. CASE term_prompt.guard /\ term_prompt.before
      BY <1>1, <1>2, <2>3 DEF Prompts!PromptEndsAsItBegan, PromptsInv
    <2> QED
      BY <1>2, <2>1, <2>2, <2>3
  <1> QED
    BY <1>3, <1>4

LEMMA PromptsStep ==
    ASSUME PromptsInv, [Prompts!Next]_term_vars
    PROVE  PromptsInv' /\ Prompts!PromptEndsAsItBegan
  <1>1. CASE UNCHANGED term_vars
    BY <1>1 DEF term_vars, PromptsInv, Prompts!PromptEndsAsItBegan
  <1>2. CASE \E t \in Threads : Prompts!enter(t) \/ Prompts!exit(t)
    BY <1>2, ModesKeep DEF Prompts!enter, Prompts!exit, Prompts!PromptEndsAsItBegan
  <1>3. CASE \E t \in Threads :
                \/ Prompts!read_key(t) \/ Prompts!read_secret(t)
                \/ \E entries \in 0 .. MaxChoices :
                      Prompts!select(t, entries) \/ Prompts!menu(t, entries)
                      \/ Prompts!multiselect(t, entries)
    BY <1>3, PromptBegins DEF Prompts!PromptEndsAsItBegan
  <1>4. CASE Prompts!Up \/ Prompts!Down \/ Prompts!Space
    BY <1>4, KeyKeeps DEF Prompts!PromptEndsAsItBegan
  <1>5. CASE Prompts!Answer \/ Prompts!Read
    BY <1>5, EndRestores
  <1> QED
    BY <1>1, <1>2, <1>3, <1>4, <1>5 DEF Prompts!Next

\* The end of a prompt leaves the mode the prompt began in, but for askPassword
\* and for threads in TUI mode in another, for any threads and menus
\* (RawModeGuard, read_key, read_secret).
THEOREM TerminalIsRestored == Spec => PromptsRestoreTheTerminal
  <1>1. Init => (focus = "prompts" => PromptsInv)
    BY FocusStart, PromptsInit
  <1>2. (focus = "prompts" => PromptsInv) /\ [Next]_vars
            => (focus = "prompts" => PromptsInv)'
    BY FocusStep, PromptsStep
  <1>3. (focus = "prompts" => PromptsInv) /\ [Next]_vars
            => [focus = "prompts" => Prompts!PromptEndsAsItBegan]_vars
    BY FocusStep, PromptsStep
  <1> QED
    BY <1>1, <1>2, <1>3, PTL DEF Spec, PromptsRestoreTheTerminal

-----------------------------------------------------------------------------
(* The displays of the terminal.                                           *)

\* The displays that are printed in place, and the height of each: 0 for one
\* that is not up or has not been printed.
InPlaceDisplays == [kind : Displays!InPlace, slot : Nat] \cup {Displays!ScreenOwner}

HeightNow(o) ==
    IF o.kind = "screen" THEN Displays!ScreenHeight
    ELSE IF Displays!Open(o.kind, o.slot) THEN disp_slots[o.kind][o.slot].rendered_height
    ELSE 0

HeightsNow == [o \in InPlaceDisplays |-> HeightNow(o)]

\* What has no height has no line; what stands alone has the last lines.
Tidy(lines, alone, heights) ==
    /\ lines \in Seq(Displays!Owners) /\ alone \subseteq InPlaceDisplays
    /\ \A o \in InPlaceDisplays :
          heights[o] = 0 => \A l \in DOMAIN lines : lines[l] # o
    /\ \A o \in alone :
          /\ heights[o] # 0 /\ heights[o] <= Len(lines)
          /\ \A l \in DOMAIN lines : lines[l] = o <=> l > Len(lines) - heights[o]

LEMMA DisplaysApart ==
    /\ InPlaceDisplays \subseteq Displays!Owners
    /\ Displays!Text \in Displays!Owners /\ Displays!Text \notin InPlaceDisplays
    /\ Displays!ScreenOwner \in InPlaceDisplays
    /\ Displays!ScreenOwner.kind = "screen"
    /\ \A k \in Displays!InPlace, i \in Nat :
          /\ [kind |-> k, slot |-> i] \in InPlaceDisplays
          /\ [kind |-> k, slot |-> i] # Displays!ScreenOwner
  BY DEF InPlaceDisplays, Displays!Owners, Displays!Text, Displays!ScreenOwner,
         Displays!InPlace

\* What is left of lines when the last h are erased.
Remains(lines, h, rest) ==
    /\ rest \in Seq(Displays!Owners)
    /\ Len(rest) = IF h >= Len(lines) THEN 0 ELSE Len(lines) - h
    /\ \A l \in DOMAIN rest : l \in DOMAIN lines /\ rest[l] = lines[l]

LEMMA LinesBelow ==
    ASSUME NEW lines \in Seq(Displays!Owners), NEW h \in Nat
    PROVE  Remains(lines, h, Displays!Below(lines, h))
  <1> SUFFICES ASSUME NEW rest, rest = Displays!Below(lines, h)
               PROVE  Remains(lines, h, rest)
    OBVIOUS
  <1>1. Len(lines) \in Nat /\ DOMAIN lines = 1 .. Len(lines)
    OBVIOUS
  <1>2. CASE h >= Len(lines)
    <2>1. rest = <<>>
      BY <1>2 DEF Displays!Below
    <2> QED
      BY <1>2, <2>1 DEF Remains
  <1>3. CASE ~(h >= Len(lines))
    <2>1. PICK m : m = Len(lines) - h
      OBVIOUS
    <2>2. m \in Nat /\ m <= Len(lines) /\ 1 <= m
      BY <1>1, <1>3, <2>1
    <2>3. rest = SubSeq(lines, 1, m)
      BY <1>3, <2>1 DEF Displays!Below
    <2>4. \A i \in 1 .. m : lines[i] \in Displays!Owners
      BY <1>1, <2>2
    <2>5. rest \in Seq(Displays!Owners) /\ Len(rest) = m
          /\ \A i \in 1 .. m : rest[i] = lines[i]
      BY <2>2, <2>3, <2>4, SubSeqProperties
    <2>6. DOMAIN rest = 1 .. m /\ 1 .. m \subseteq DOMAIN lines
      BY <1>1, <2>2, <2>5
    <2> QED
      BY <1>3, <2>1, <2>5, <2>6 DEF Remains
  <1> QED
    BY <1>2, <1>3

LEMMA LinesSettled ==
    ASSUME NEW lines \in Seq(Displays!Owners), NEW o,
           NEW kept, kept = Displays!Settled(lines, o)
    PROVE  /\ kept \in Seq(Displays!Owners) /\ Len(kept) = Len(lines)
           /\ DOMAIN kept = DOMAIN lines
           /\ \A l \in DOMAIN lines :
                 kept[l] = IF lines[l] = o THEN Displays!Text ELSE lines[l]
  <1>1. Len(lines) \in Nat /\ lines \in [1 .. Len(lines) -> Displays!Owners]
    OBVIOUS
  <1>2. kept \in [1 .. Len(lines) -> Displays!Owners]
    BY <1>1, DisplaysApart DEF Displays!Settled
  <1>3. kept \in Seq(Displays!Owners)
    BY <1>1, <1>2
  <1> QED
    BY <1>1, <1>2, <1>3 DEF Displays!Settled

\* Lines with h of o below them.
Printed(lines, o, h, after) ==
    /\ after \in Seq(Displays!Owners) /\ Len(after) = Len(lines) + h
    /\ Len(lines) \in Nat /\ DOMAIN lines = 1 .. Len(lines)
    /\ DOMAIN after = 1 .. Len(after)
    /\ \A l \in DOMAIN after : after[l] = IF l <= Len(lines) THEN lines[l] ELSE o

LEMMA LinesPrinted ==
    ASSUME NEW lines \in Seq(Displays!Owners), NEW o \in Displays!Owners, NEW h \in Nat
    PROVE  Printed(lines, o, h, lines \o Displays!Lines(o, h))
  <1> SUFFICES ASSUME NEW after, after = lines \o Displays!Lines(o, h)
               PROVE  Printed(lines, o, h, after)
    OBVIOUS
  <1>1. PICK q : q = Displays!Lines(o, h)
    OBVIOUS
  <1>2. q \in [1 .. h -> Displays!Owners] /\ \A l \in 1 .. h : q[l] = o
    BY <1>1 DEF Displays!Lines
  <1>3. q \in Seq(Displays!Owners) /\ Len(q) = h
    BY <1>2
  <1>4. after = lines \o q
    BY <1>1
  <1>5. /\ after \in Seq(Displays!Owners) /\ Len(after) = Len(lines) + h
        /\ \A l \in 1 .. (Len(lines) + h) :
              after[l] = IF l <= Len(lines) THEN lines[l] ELSE q[l - Len(lines)]
    BY <1>3, <1>4, ConcatProperties
  <1>6. Len(lines) \in Nat /\ DOMAIN lines = 1 .. Len(lines)
        /\ DOMAIN after = 1 .. (Len(lines) + h)
    BY <1>5
  <1>7. ASSUME NEW l \in DOMAIN after, ~(l <= Len(lines))
        PROVE  after[l] = o
    <2>1. l - Len(lines) \in 1 .. h
      BY <1>6, <1>7
    <2> QED
      BY <1>2, <1>5, <1>6, <1>7, <2>1
  <1> QED
    BY <1>5, <1>6, <1>7 DEF Printed

\* Lines below those of a display.
LEMMA TidyText ==
    ASSUME NEW lines, NEW alone, NEW heights, Tidy(lines, alone, heights), NEW h \in Nat,
           NEW after, after = lines \o Displays!Lines(Displays!Text, h)
    PROVE  Tidy(after, {}, heights)
  <1>1. /\ lines \in Seq(Displays!Owners)
        /\ \A o \in InPlaceDisplays :
              heights[o] = 0 => \A l \in DOMAIN lines : lines[l] # o
    BY DEF Tidy
  <1>2. /\ after \in Seq(Displays!Owners)
        /\ Len(lines) \in Nat /\ DOMAIN lines = 1 .. Len(lines)
        /\ DOMAIN after = 1 .. Len(after) /\ Len(after) = Len(lines) + h
        /\ \A l \in DOMAIN after :
              after[l] = IF l <= Len(lines) THEN lines[l] ELSE Displays!Text
    <2>1. Displays!Text \in Displays!Owners
      BY DisplaysApart
    <2>2. Printed(lines, Displays!Text, h, after)
      BY <1>1, <2>1, LinesPrinted
    <2> QED
      BY <2>2 DEF Printed
  <1>3. ASSUME NEW o \in InPlaceDisplays, heights[o] = 0, NEW l \in DOMAIN after
        PROVE  after[l] # o
    <2>1. CASE l <= Len(lines)
      BY <1>1, <1>2, <1>3, <2>1
    <2>2. CASE ~(l <= Len(lines))
      BY <1>2, <2>2, DisplaysApart
    <2> QED
      BY <2>1, <2>2
  <1> QED
    BY <1>2, <1>3 DEF Tidy

\* A rendering takes the place of the last one.
Redrawn(lines, alone, heights, o, h, after, left, new) ==
    /\ after = Displays!Below(lines, heights[o]) \o Displays!Lines(o, h)
    /\ left = (alone \cap {o}) \cup (IF heights[o] = 0 THEN {o} ELSE {})
    /\ \A p \in InPlaceDisplays : new[p] = IF p = o THEN h ELSE heights[p]

LEMMA TidyRedraw ==
    ASSUME NEW lines, NEW alone, NEW heights, Tidy(lines, alone, heights),
           NEW o \in InPlaceDisplays, heights[o] \in Nat, NEW h \in Nat \ {0},
           NEW after, NEW left, NEW new,
           Redrawn(lines, alone, heights, o, h, after, left, new)
    PROVE  Tidy(after, left, new)
  <1>0. /\ after = Displays!Below(lines, heights[o]) \o Displays!Lines(o, h)
        /\ left = (alone \cap {o}) \cup (IF heights[o] = 0 THEN {o} ELSE {})
        /\ \A p \in InPlaceDisplays : new[p] = IF p = o THEN h ELSE heights[p]
    BY DEF Redrawn
  <1>1. lines \in Seq(Displays!Owners) /\ alone \subseteq InPlaceDisplays
    BY DEF Tidy
  <1>2. PICK rest : rest = Displays!Below(lines, heights[o])
    OBVIOUS
  <1>3. /\ rest \in Seq(Displays!Owners)
        /\ Len(rest) = IF heights[o] >= Len(lines) THEN 0 ELSE Len(lines) - heights[o]
        /\ \A l \in DOMAIN rest : l \in DOMAIN lines /\ rest[l] = lines[l]
    BY <1>1, <1>2, LinesBelow DEF Remains
  <1>4. o \in Displays!Owners /\ h \in Nat /\ after = rest \o Displays!Lines(o, h)
    BY <1>0, <1>2, DisplaysApart
  <1>5. /\ after \in Seq(Displays!Owners) /\ Len(after) = Len(rest) + h
        /\ Len(rest) \in Nat /\ DOMAIN rest = 1 .. Len(rest)
        /\ DOMAIN after = 1 .. Len(after)
        /\ \A l \in DOMAIN after : after[l] = IF l <= Len(rest) THEN rest[l] ELSE o
    <2>1. Printed(rest, o, h, after)
      BY <1>3, <1>4, LinesPrinted
    <2> QED
      BY <2>1 DEF Printed
  <1>6. ASSUME NEW p \in InPlaceDisplays, new[p] = 0, NEW l \in DOMAIN after
        PROVE  after[l] # p
    <2>1. p # o /\ heights[p] = 0
      BY <1>0, <1>6
    <2>2. CASE l <= Len(rest)
      <3>1. l \in DOMAIN rest
        BY <1>5, <2>2
      <3>2. after[l] = lines[l] /\ l \in DOMAIN lines
        BY <1>3, <1>5, <2>2, <3>1
      <3> QED
        BY <2>1, <3>2 DEF Tidy
    <2>3. CASE ~(l <= Len(rest))
      BY <1>5, <2>1, <2>3
    <2> QED
      BY <2>2, <2>3
  <1>7. ASSUME o \in alone \/ heights[o] = 0, NEW l \in DOMAIN rest
        PROVE  lines[l] # o /\ l \in DOMAIN lines
    <2>1. l \in DOMAIN lines
      BY <1>3
    <2>2. CASE heights[o] = 0
      BY <2>1, <2>2 DEF Tidy
    <2>3. CASE o \in alone
      <3>1. /\ heights[o] <= Len(lines)
            /\ lines[l] = o <=> l > Len(lines) - heights[o]
        BY <2>1, <2>3 DEF Tidy
      <3>2. Len(lines) \in Nat /\ l \in 1 .. Len(rest)
        BY <1>1, <1>5
      <3>3. l <= Len(lines) - heights[o]
        BY <1>3, <3>1, <3>2
      <3>4. ~(l > Len(lines) - heights[o])
        BY <3>2, <3>3
      <3> QED
        BY <2>1, <3>1, <3>4
    <2> QED
      BY <1>7, <2>1, <2>2, <2>3
  <1>8. ASSUME o \in alone \/ heights[o] = 0
        PROVE  /\ new[o] # 0 /\ new[o] <= Len(after)
               /\ \A l \in DOMAIN after : after[l] = o <=> l > Len(after) - new[o]
    <2>1. new[o] = h /\ Len(after) - new[o] = Len(rest) /\ h # 0
      BY <1>0, <1>5
    <2>2. h <= Len(after)
      BY <1>5
    <2>3. ASSUME NEW l \in DOMAIN after
          PROVE  after[l] = o <=> l > Len(rest)
      <3>1. l \in Nat /\ l >= 1
        BY <1>5
      <3>2. CASE l <= Len(rest)
        <4>1. l \in DOMAIN rest
          BY <1>5, <3>1, <3>2
        <4>2. after[l] = lines[l]
          BY <1>3, <1>5, <3>2, <4>1
        <4>3. lines[l] # o
          BY <1>7, <1>8, <4>1
        <4>4. ~(l > Len(rest))
          BY <1>5, <3>1, <3>2
        <4> QED
          BY <4>2, <4>3, <4>4
      <3>3. CASE ~(l <= Len(rest))
        BY <1>5, <3>1, <3>3
      <3> QED
        BY <3>2, <3>3
    <2> QED
      BY <2>1, <2>2, <2>3
  <1>9. left \subseteq InPlaceDisplays /\ \A p \in left : p = o /\ (o \in alone \/ heights[o] = 0)
    BY <1>0, <1>1
  <1> QED
    BY <1>5, <1>6, <1>8, <1>9 DEF Tidy

\* A display is closed: no line is its own any more.
LEMMA TidySettled ==
    ASSUME NEW lines, NEW alone, NEW heights, Tidy(lines, alone, heights),
           NEW o \in InPlaceDisplays, NEW h \in Nat,
           NEW after, after = Displays!Settled(Displays!Below(lines, h), o),
           NEW new, \A p \in InPlaceDisplays : new[p] = IF p = o THEN 0 ELSE heights[p]
    PROVE  Tidy(after, {}, new)
  <1>1. lines \in Seq(Displays!Owners)
    BY DEF Tidy
  <1>2. PICK rest : rest = Displays!Below(lines, h)
    OBVIOUS
  <1>3. /\ rest \in Seq(Displays!Owners)
        /\ \A l \in DOMAIN rest : l \in DOMAIN lines /\ rest[l] = lines[l]
    BY <1>1, <1>2, LinesBelow DEF Remains
  <1>4. /\ after \in Seq(Displays!Owners) /\ DOMAIN after = DOMAIN rest
        /\ \A l \in DOMAIN rest : after[l] = IF rest[l] = o THEN Displays!Text ELSE rest[l]
    BY <1>2, <1>3, LinesSettled
  <1>5. ASSUME NEW p \in InPlaceDisplays, new[p] = 0, NEW l \in DOMAIN after
        PROVE  after[l] # p
    <2>1. CASE rest[l] = o
      BY <1>4, <2>1, DisplaysApart
    <2>2. CASE rest[l] # o
      <3>1. after[l] = lines[l] /\ l \in DOMAIN lines /\ lines[l] # o
        BY <1>3, <1>4, <2>2
      <3>2. CASE p = o
        BY <3>1, <3>2
      <3>3. CASE p # o
        <4>1. heights[p] = 0
          BY <1>5, <3>3
        <4> QED
          BY <3>1, <4>1 DEF Tidy
      <3> QED
        BY <3>2, <3>3
    <2> QED
      BY <2>1, <2>2
  <1> QED
    BY <1>4, <1>5 DEF Tidy

LEMMA NothingBelow ==
    ASSUME NEW lines \in Seq(Displays!Owners)
    PROVE  Displays!Below(lines, 0) = lines
  <1>1. PICK rest : rest = Displays!Below(lines, 0)
    OBVIOUS
  <1>2. Len(lines) \in Nat
    OBVIOUS
  <1>3. /\ rest \in Seq(Displays!Owners) /\ Len(rest) = Len(lines)
        /\ \A l \in DOMAIN rest : rest[l] = lines[l]
    <2>1. /\ rest \in Seq(Displays!Owners)
          /\ Len(rest) = IF 0 >= Len(lines) THEN 0 ELSE Len(lines) - 0
          /\ \A l \in DOMAIN rest : l \in DOMAIN lines /\ rest[l] = lines[l]
      BY <1>1, LinesBelow DEF Remains
    <2> QED
      BY <1>2, <2>1
  <1>4. rest = lines
    BY <1>3, SeqEqual
  <1> QED
    BY <1>1, <1>4

\* The height that the slot of a display keeps.
HeightAt(registries, k, i) ==
    IF i \in DOMAIN registries[k] /\ registries[k][i] # None
    THEN registries[k][i].rendered_height
    ELSE 0

LEMMA HeightsAre ==
    /\ HeightsNow[Displays!ScreenOwner] = Displays!ScreenHeight
    /\ \A k \in Displays!InPlace, i \in Nat :
          HeightsNow[[kind |-> k, slot |-> i]] = HeightAt(disp_slots, k, i)
    /\ \A o \in InPlaceDisplays :
          o = Displays!ScreenOwner \/ \E k \in Displays!InPlace, i \in Nat :
                                          o = [kind |-> k, slot |-> i]
  BY DisplaysApart DEF HeightsNow, HeightNow, HeightAt, Displays!Open,
     Displays!InPlace, InPlaceDisplays

DisplaySlots == Displays!Display \cup {None}

DisplaysInv ==
    /\ disp_slots \in [Displays!Freed -> Seq(DisplaySlots)]
    /\ disp_screen \in DisplaySlots
    /\ disp_tty => Tidy(disp_shown, disp_alone, HeightsNow)

LEMMA DisplayHeights ==
    ASSUME DisplaysInv
    PROVE  \A o \in InPlaceDisplays : HeightsNow[o] \in Nat
  <1>1. \A k \in Displays!InPlace, i \in Nat : HeightAt(disp_slots, k, i) \in Nat
    <2> SUFFICES ASSUME NEW k \in Displays!InPlace, NEW i \in Nat
                 PROVE  HeightAt(disp_slots, k, i) \in Nat
      OBVIOUS
    <2>1. disp_slots[k] \in Seq(DisplaySlots)
      BY DEF DisplaysInv, Displays!Freed
    <2>2. PICK s : s = disp_slots[k]
      OBVIOUS
    <2>3. i \in DOMAIN s => s[i] \in DisplaySlots
      BY <2>1, <2>2
    <2> QED
      BY <2>2, <2>3 DEF HeightAt, DisplaySlots, Displays!Display
  <1>2. Displays!ScreenHeight \in Nat
    BY DEF DisplaysInv, DisplaySlots, Displays!ScreenHeight, Displays!Display
  <1> QED
    BY <1>1, <1>2, HeightsAre

LEMMA DisplaysInit == ASSUME Displays!Init PROVE DisplaysInv
  <1>1. /\ disp_slots \in [Displays!Freed -> Seq(DisplaySlots)]
        /\ disp_screen \in DisplaySlots
    BY DEF Displays!Init, DisplaySlots
  <1>2. disp_shown = <<>> /\ disp_alone = {} /\ <<>> \in Seq(Displays!Owners)
        /\ DOMAIN <<>> = {}
    BY DEF Displays!Init
  <1> QED
    BY <1>1, <1>2 DEF DisplaysInv, Tidy

\* What no display in place is changed by.
LEMMA OthersTidy ==
    ASSUME DisplaysInv, UNCHANGED disp_tty,
           disp_slots' \in [Displays!Freed -> Seq(DisplaySlots)],
           disp_screen' \in DisplaySlots, disp_tty => UNCHANGED disp_screen,
           \A k \in Displays!InPlace, i \in Nat :
              HeightAt(disp_slots', k, i) = HeightAt(disp_slots, k, i),
           \/ UNCHANGED <<disp_shown, disp_alone>>
           \/ \E h \in Displays!Heights : Displays!emit(h)
    PROVE  DisplaysInv'
  <1>1. ASSUME disp_tty PROVE HeightsNow' = HeightsNow
    <2>1. Displays!ScreenHeight' = Displays!ScreenHeight
      BY <1>1 DEF Displays!ScreenHeight
    <2>2. /\ HeightsNow'[Displays!ScreenOwner] = Displays!ScreenHeight'
          /\ \A k \in Displays!InPlace, i \in Nat :
                HeightsNow'[[kind |-> k, slot |-> i]] = HeightAt(disp_slots', k, i)
      BY DisplaysApart DEF HeightsNow, HeightNow, HeightAt, Displays!Open,
         Displays!InPlace, InPlaceDisplays
    <2>3. \A o \in InPlaceDisplays : HeightsNow'[o] = HeightsNow[o]
      BY <2>1, <2>2, HeightsAre
    <2> QED
      BY <2>3 DEF HeightsNow
  <1>2. ASSUME disp_tty PROVE Tidy(disp_shown', disp_alone', HeightsNow')
    <2>1. Tidy(disp_shown, disp_alone, HeightsNow)
      BY <1>2 DEF DisplaysInv
    <2>2. CASE UNCHANGED <<disp_shown, disp_alone>>
      BY <1>1, <1>2, <2>1, <2>2
    <2>3. CASE \E h \in Displays!Heights : Displays!emit(h)
      <3>1. PICK h \in Displays!Heights : Displays!emit(h)
        BY <2>3
      <3>2. /\ h \in Nat /\ disp_alone' = {}
            /\ disp_shown' = disp_shown \o Displays!Lines(Displays!Text, h)
        BY <3>1, NativeAssumption DEF Displays!Heights, Displays!emit, Displays!DisplaysAssumption
      <3>3. Tidy(disp_shown', {}, HeightsNow)
        BY <2>1, <3>2, TidyText
      <3> QED
        BY <1>1, <1>2, <3>2, <3>3
    <2> QED
      BY <2>2, <2>3
  <1> QED
    BY <1>2 DEF DisplaysInv

\* Where a display in place gets another height.
LEMMA NewHeights ==
    ASSUME NEW o \in InPlaceDisplays, NEW h,
           o # Displays!ScreenOwner => UNCHANGED disp_screen,
           o = Displays!ScreenOwner => Displays!ScreenHeight' = h,
           \A k \in Displays!InPlace, i \in Nat :
              HeightAt(disp_slots', k, i) =
                IF o = [kind |-> k, slot |-> i] THEN h ELSE HeightAt(disp_slots, k, i)
    PROVE  \A p \in InPlaceDisplays : HeightsNow'[p] = IF p = o THEN h ELSE HeightsNow[p]
  <1>1. /\ HeightsNow'[Displays!ScreenOwner] = Displays!ScreenHeight'
        /\ \A k \in Displays!InPlace, i \in Nat :
              HeightsNow'[[kind |-> k, slot |-> i]] = HeightAt(disp_slots', k, i)
    BY DisplaysApart DEF HeightsNow, HeightNow, HeightAt, Displays!Open,
       Displays!InPlace, InPlaceDisplays
  <1>2. o # Displays!ScreenOwner => Displays!ScreenHeight' = Displays!ScreenHeight
    BY DEF Displays!ScreenHeight
  <1> QED
    BY <1>1, <1>2, HeightsAre

\* The slot that a new display gets is empty, or the next one.
LEMMA FreeSlot ==
    ASSUME NEW k, disp_slots[k] \in Seq(DisplaySlots)
    PROVE  \/ /\ Displays!Slot(k) \in DOMAIN disp_slots[k]
              /\ disp_slots[k][Displays!Slot(k)] = None
           \/ Displays!Slot(k) = Len(disp_slots[k]) + 1
  <1>1. PICK s : s = disp_slots[k]
    OBVIOUS
  <1>2. Len(s) \in Nat /\ DOMAIN s = 1 .. Len(s)
    BY <1>1
  <1>3. CASE \E i \in DOMAIN s : s[i] = None
    <2>1. PICK T : T = {i \in DOMAIN s : s[i] = None}
      OBVIOUS
    <2>2. T \subseteq Nat /\ T # {}
      BY <1>2, <1>3, <2>1
    <2>3. PICK i \in T : \A j \in T : i <= j
      BY <2>2, Least
    <2>4. i \in DOMAIN s /\ s[i] = None /\ i \in 1 .. Len(s)
      BY <1>2, <2>1, <2>3
    <2>5. ASSUME NEW j \in 1 .. i - 1 PROVE s[j] # None
      <3>1. j \in DOMAIN s /\ ~(i <= j)
        BY <1>2, <2>4, <2>5
      <3> QED
        BY <2>1, <2>3, <3>1
    <2>6. Displays!Slot(k) = CHOOSE j \in DOMAIN s : s[j] = None /\ \A l \in 1 .. j - 1 : s[l] # None
      BY <1>1, <1>3 DEF Displays!Slot
    <2> QED
      BY <1>1, <2>4, <2>5, <2>6
  <1>4. CASE ~\E i \in DOMAIN s : s[i] = None
    BY <1>1, <1>4 DEF Displays!Slot
  <1> QED
    BY <1>3, <1>4

LEMMA DisplayStartKeeps ==
    ASSUME DisplaysInv, NEW k \in Displays!Freed, Displays!start(k)
    PROVE  DisplaysInv'
  <1>1. PICK s : s = disp_slots[k]
    OBVIOUS
  <1>2. s \in Seq(DisplaySlots) /\ Len(s) \in Nat /\ DOMAIN s = 1 .. Len(s)
    BY <1>1 DEF DisplaysInv
  <1>3. PICK j : j = Displays!Slot(k)
    OBVIOUS
  <1>4. (j \in DOMAIN s /\ s[j] = None) \/ j = Len(s) + 1
    BY <1>1, <1>2, <1>3, FreeSlot
  <1>5. Displays!New \in DisplaySlots /\ Displays!New.rendered_height = 0
    BY DEF Displays!New, DisplaySlots, Displays!Display
  <1>6. PICK t : t = [i \in DOMAIN s \cup {j} |-> IF i = j THEN Displays!New ELSE s[i]]
    OBVIOUS
  <1>7. disp_slots' = [disp_slots EXCEPT ![k] = t]
    BY <1>1, <1>3, <1>6 DEF Displays!start, Displays!allocate
  <1>8. t \in Seq(DisplaySlots)
    <2>1. PICK n : n = IF j = Len(s) + 1 THEN Len(s) + 1 ELSE Len(s)
      OBVIOUS
    <2>2. n \in Nat /\ DOMAIN s \cup {j} = 1 .. n
      <3>1. CASE j = Len(s) + 1
        <4>1. n = Len(s) + 1
          BY <2>1, <3>1
        <4> QED
          BY <1>2, <3>1, <4>1
      <3>2. CASE j \in DOMAIN s
        <4>1. j \in 1 .. Len(s) /\ j # Len(s) + 1
          BY <1>2, <3>2
        <4>2. n = Len(s)
          BY <2>1, <4>1
        <4> QED
          BY <1>2, <4>1, <4>2
      <3> QED
        BY <1>4, <3>1, <3>2
    <2>3. \A i \in DOMAIN s : s[i] \in DisplaySlots
      BY <1>2
    <2>4. t \in [1 .. n -> DisplaySlots]
      BY <1>5, <1>6, <2>2, <2>3
    <2> QED
      BY <2>2, <2>4
  <1>9. disp_slots' \in [Displays!Freed -> Seq(DisplaySlots)]
    BY <1>7, <1>8 DEF DisplaysInv
  <1>10. ASSUME NEW p \in Displays!InPlace, NEW i \in Nat
         PROVE  HeightAt(disp_slots', p, i) = HeightAt(disp_slots, p, i)
    <2>1. CASE p # k
      <3>1. disp_slots'[p] = disp_slots[p]
        BY <1>7, <2>1 DEF DisplaysInv, Displays!Freed
      <3> QED
        BY <3>1 DEF HeightAt
    <2>2. CASE p = k
      <3>1. disp_slots'[p] = t /\ disp_slots[p] = s
        BY <1>1, <1>7, <2>2 DEF DisplaysInv, Displays!Freed
      <3>2. CASE i = j
        <4>1. HeightAt(disp_slots', p, i) = 0
          BY <1>5, <1>6, <3>1, <3>2 DEF HeightAt
        <4>2. i \in DOMAIN s => s[i] = None
          BY <1>2, <1>4, <3>2
        <4> QED
          BY <3>1, <4>1, <4>2 DEF HeightAt
      <3>3. CASE i # j
        <4>1. i \in DOMAIN t <=> i \in DOMAIN s
          BY <1>6, <3>3
        <4>2. i \in DOMAIN t => t[i] = s[i]
          BY <1>6, <3>3
        <4> QED
          BY <3>1, <4>1, <4>2 DEF HeightAt
      <3> QED
        BY <3>2, <3>3
    <2> QED
      BY <2>1, <2>2
  <1>11. UNCHANGED <<disp_tty, disp_screen, disp_shown, disp_alone>>
    BY DEF Displays!start
  <1> QED
    BY <1>9, <1>10, <1>11, OthersTidy DEF DisplaysInv

\* Slot j of registry k of the displays is e in these registries.
SlotIs(registries, k, j, e) ==
    /\ registries \in [Displays!Freed -> Seq(DisplaySlots)]
    /\ j \in Nat
    /\ \A p \in Displays!InPlace, i \in Nat :
          HeightAt(registries, p, i) =
            IF p = k /\ i = j THEN IF e = None THEN 0 ELSE e.rendered_height
            ELSE HeightAt(disp_slots, p, i)

\* A slot is given another element.
LEMMA SlotChanged ==
    ASSUME DisplaysInv, NEW k \in Displays!Freed, NEW j \in DOMAIN disp_slots[k],
           NEW e \in DisplaySlots, disp_slots' = [disp_slots EXCEPT ![k][j] = e]
    PROVE  SlotIs(disp_slots', k, j, e)
  <1>1. PICK s : s = disp_slots[k]
    OBVIOUS
  <1>2. s \in Seq(DisplaySlots) /\ Len(s) \in Nat /\ DOMAIN s = 1 .. Len(s)
    BY <1>1 DEF DisplaysInv
  <1>3. PICK t : t = [s EXCEPT ![j] = e]
    OBVIOUS
  <1>4. /\ t \in Seq(DisplaySlots) /\ DOMAIN t = DOMAIN s /\ j \in DOMAIN s
        /\ \A i \in DOMAIN s : t[i] = IF i = j THEN e ELSE s[i]
    BY <1>1, <1>2, <1>3
  <1>5. disp_slots' = [disp_slots EXCEPT ![k] = t]
    BY <1>1, <1>3
  <1>6. disp_slots' \in [Displays!Freed -> Seq(DisplaySlots)]
    BY <1>4, <1>5 DEF DisplaysInv
  <1>7. ASSUME NEW p \in Displays!InPlace, NEW i \in Nat
        PROVE  HeightAt(disp_slots', p, i) =
                   IF p = k /\ i = j THEN IF e = None THEN 0 ELSE e.rendered_height
                   ELSE HeightAt(disp_slots, p, i)
    <2>1. CASE p # k
      <3>1. disp_slots'[p] = disp_slots[p]
        BY <1>5, <2>1 DEF DisplaysInv, Displays!Freed
      <3> QED
        BY <2>1, <3>1 DEF HeightAt
    <2>2. CASE p = k
      <3>1. disp_slots'[p] = t /\ disp_slots[p] = s
        BY <1>1, <1>5, <2>2 DEF DisplaysInv, Displays!Freed
      <3> QED
        BY <1>4, <2>2, <3>1 DEF HeightAt
    <2> QED
      BY <2>1, <2>2
  <1>8. j \in Nat
    BY <1>2, <1>4
  <1> QED
    BY <1>6, <1>7, <1>8 DEF SlotIs

LEMMA TaskKeeps ==
    ASSUME DisplaysInv, NEW j, Displays!progress_add_task(j)
    PROVE  DisplaysInv'
  <1>1. j \in DOMAIN disp_slots["progress"] /\ disp_slots["progress"][j] # None
    BY DEF Displays!progress_add_task, Displays!Open
  <1>2. "progress" \in Displays!Freed
    BY DEF Displays!Freed, Displays!InPlace
  <1>3. PICK s : s = disp_slots["progress"]
    OBVIOUS
  <1>4. s \in Seq(DisplaySlots) /\ DOMAIN s = 1 .. Len(s)
    BY <1>2, <1>3 DEF DisplaysInv
  <1>5. s[j] \in Displays!Display
    BY <1>1, <1>3, <1>4 DEF DisplaySlots
  <1>6. PICK e : e = [s[j] EXCEPT !.tasks = @ + 1]
    OBVIOUS
  <1>7. e \in Displays!Display /\ e.rendered_height = s[j].rendered_height /\ e # None
    BY <1>5, <1>6, NativeAssumption DEF Displays!Display, Displays!DisplaysAssumption
  <1>8. disp_slots' = [disp_slots EXCEPT !["progress"][j] = e]
    BY <1>3, <1>6 DEF Displays!progress_add_task
  <1>9. /\ disp_slots' \in [Displays!Freed -> Seq(DisplaySlots)]
        /\ j \in Nat
        /\ \A p \in Displays!InPlace, i \in Nat :
              HeightAt(disp_slots', p, i) =
                IF p = "progress" /\ i = j THEN e.rendered_height ELSE HeightAt(disp_slots, p, i)
    <2>1. e \in DisplaySlots
      BY <1>7 DEF DisplaySlots
    <2>2. SlotIs(disp_slots', "progress", j, e)
      BY <1>1, <1>2, <1>8, <2>1, SlotChanged
    <2> QED
      BY <1>7, <2>2 DEF SlotIs
  <1>10. HeightAt(disp_slots, "progress", j) = e.rendered_height
    BY <1>1, <1>3, <1>7 DEF HeightAt
  <1>11. \A p \in Displays!InPlace, i \in Nat :
              HeightAt(disp_slots', p, i) = HeightAt(disp_slots, p, i)
    BY <1>7, <1>9, <1>10
  <1>12. UNCHANGED <<disp_tty, disp_screen, disp_shown, disp_alone>>
    BY DEF Displays!progress_add_task
  <1> QED
    BY <1>9, <1>11, <1>12, OthersTidy DEF DisplaysInv

LEMMA StatusKeeps ==
    ASSUME DisplaysInv, NEW j, NEW h \in Displays!Heights,
           Displays!status_update(j, h) \/ Displays!status_stop(j, h) \/ Displays!print(h)
    PROVE  DisplaysInv'
  <1>1. Displays!emit(h) /\ UNCHANGED <<disp_tty, disp_screen>>
    BY DEF Displays!status_update, Displays!status_stop, Displays!print
  <1>2. CASE UNCHANGED disp_slots
    BY <1>1, <1>2, OthersTidy DEF DisplaysInv
  <1>3. CASE Displays!status_stop(j, h)
    <2>1. "status" \in Displays!Freed /\ "status" \notin Displays!InPlace
      BY DEF Displays!Freed, Displays!InPlace
    <2>2. j \in DOMAIN disp_slots["status"]
      BY <1>3 DEF Displays!status_stop, Displays!Open
    <2>3. disp_slots' = [disp_slots EXCEPT !["status"][j] = None] /\ None \in DisplaySlots
      BY <1>3 DEF Displays!status_stop, DisplaySlots
    <2>4. SlotIs(disp_slots', "status", j, None)
      BY <2>1, <2>2, <2>3, SlotChanged
    <2>5. /\ disp_slots' \in [Displays!Freed -> Seq(DisplaySlots)]
          /\ \A p \in Displays!InPlace, i \in Nat :
                HeightAt(disp_slots', p, i) = HeightAt(disp_slots, p, i)
      BY <2>1, <2>4 DEF SlotIs
    <2> QED
      BY <1>1, <2>5, OthersTidy DEF DisplaysInv
  <1> QED
    BY <1>2, <1>3 DEF Displays!status_update, Displays!print

\* A display in place is rendered over its last rendering.
LEMMA RedrawKeeps ==
    ASSUME DisplaysInv, NEW k \in Displays!InPlace, NEW j, NEW h \in Displays!Heights,
           Displays!redraw(k, j, h)
    PROVE  DisplaysInv'
  <1>1. j \in DOMAIN disp_slots[k] /\ disp_slots[k][j] # None
    BY DEF Displays!redraw, Displays!Ready, Displays!Open
  <1>2. k \in Displays!Freed /\ h \in Nat \ {0}
    BY NativeAssumption DEF Displays!Freed, Displays!Heights, Displays!DisplaysAssumption
  <1>3. PICK s : s = disp_slots[k]
    OBVIOUS
  <1>4. s \in Seq(DisplaySlots) /\ DOMAIN s = 1 .. Len(s)
    BY <1>2, <1>3 DEF DisplaysInv
  <1>5. s[j] \in Displays!Display
    BY <1>1, <1>3, <1>4 DEF DisplaySlots
  <1>6. PICK e : e = [s[j] EXCEPT !.rendered_height = h]
    OBVIOUS
  <1>7. e \in Displays!Display /\ e.rendered_height = h /\ e # None
    BY <1>2, <1>5, <1>6, NativeAssumption DEF Displays!Display, Displays!DisplaysAssumption
  <1>8. disp_slots' = [disp_slots EXCEPT ![k][j] = e]
    BY <1>3, <1>6 DEF Displays!redraw
  <1>9. /\ disp_slots' \in [Displays!Freed -> Seq(DisplaySlots)]
        /\ j \in Nat
        /\ \A p \in Displays!InPlace, i \in Nat :
              HeightAt(disp_slots', p, i) =
                IF p = k /\ i = j THEN e.rendered_height ELSE HeightAt(disp_slots, p, i)
    <2>1. e \in DisplaySlots
      BY <1>7 DEF DisplaySlots
    <2>2. SlotIs(disp_slots', k, j, e)
      BY <1>1, <1>2, <1>8, <2>1, SlotChanged
    <2> QED
      BY <1>7, <2>2 DEF SlotIs
  <1>10. PICK o : o = [kind |-> k, slot |-> j]
    OBVIOUS
  <1>11. o \in InPlaceDisplays /\ o # Displays!ScreenOwner
    BY <1>9, <1>10, DisplaysApart
  <1>12. HeightsNow[o] = s[j].rendered_height
    BY <1>1, <1>3, <1>9, <1>10, HeightsAre DEF HeightAt
  <1>13. UNCHANGED <<disp_tty, disp_screen>>
    BY DEF Displays!redraw
  <1>14. \A p \in Displays!InPlace, i \in Nat :
              HeightAt(disp_slots', p, i) =
                IF o = [kind |-> p, slot |-> i] THEN h ELSE HeightAt(disp_slots, p, i)
    BY <1>7, <1>9, <1>10
  <1>15. \A p \in InPlaceDisplays : HeightsNow'[p] = IF p = o THEN h ELSE HeightsNow[p]
    BY <1>11, <1>13, <1>14, NewHeights
  <1>16. ASSUME disp_tty PROVE Tidy(disp_shown', disp_alone', HeightsNow')
    <2>1. Displays!emit_in_place(o, h, HeightsNow[o])
      BY <1>3, <1>10, <1>12 DEF Displays!redraw
    <2>2. /\ disp_shown' = Displays!Below(disp_shown, HeightsNow[o]) \o Displays!Lines(o, h)
          /\ disp_alone' = (disp_alone \cap {o}) \cup IF HeightsNow[o] = 0 THEN {o} ELSE {}
      BY <1>16, <2>1 DEF Displays!emit_in_place
    <2>3. Tidy(disp_shown, disp_alone, HeightsNow) /\ HeightsNow[o] \in Nat
      BY <1>11, <1>16, DisplayHeights DEF DisplaysInv
    <2> QED
      <3>1. Redrawn(disp_shown, disp_alone, HeightsNow, o, h, disp_shown', disp_alone', HeightsNow')
        BY <1>15, <2>2 DEF Redrawn
      <3> QED
        BY <1>2, <1>11, <2>3, <3>1, TidyRedraw
  <1> QED
    BY <1>9, <1>13, <1>16 DEF DisplaysInv

\* The lines a display leaves when it stops.
LEMMA DisplayStopKeeps ==
    ASSUME DisplaysInv, NEW k \in Displays!InPlace, NEW j, NEW h \in Displays!Heights,
           Displays!stop(k, j, h)
    PROVE  DisplaysInv'
  <1>1. j \in DOMAIN disp_slots[k] /\ disp_slots[k][j] # None
    BY DEF Displays!stop, Displays!Open
  <1>2. k \in Displays!Freed /\ h \in Nat
    BY NativeAssumption DEF Displays!Freed, Displays!Heights, Displays!DisplaysAssumption
  <1>3. disp_slots' = [disp_slots EXCEPT ![k][j] = None] /\ None \in DisplaySlots
    BY DEF Displays!stop, DisplaySlots
  <1>4. /\ disp_slots' \in [Displays!Freed -> Seq(DisplaySlots)]
        /\ j \in Nat
        /\ \A p \in Displays!InPlace, i \in Nat :
              HeightAt(disp_slots', p, i) =
                IF p = k /\ i = j THEN 0 ELSE HeightAt(disp_slots, p, i)
    <2>1. SlotIs(disp_slots', k, j, None)
      BY <1>1, <1>2, <1>3, SlotChanged
    <2> QED
      BY <2>1 DEF SlotIs
  <1>5. PICK o : o = [kind |-> k, slot |-> j]
    OBVIOUS
  <1>6. o \in InPlaceDisplays /\ o # Displays!ScreenOwner
    BY <1>4, <1>5, DisplaysApart
  <1>7. HeightsNow[o] = disp_slots[k][j].rendered_height
    BY <1>1, <1>4, <1>5, HeightsAre DEF HeightAt
  <1>8. UNCHANGED <<disp_tty, disp_screen>>
    BY DEF Displays!stop
  <1>9. \A p \in Displays!InPlace, i \in Nat :
              HeightAt(disp_slots', p, i) =
                IF o = [kind |-> p, slot |-> i] THEN 0 ELSE HeightAt(disp_slots, p, i)
    BY <1>4, <1>5
  <1>10. \A p \in InPlaceDisplays : HeightsNow'[p] = IF p = o THEN 0 ELSE HeightsNow[p]
    BY <1>6, <1>8, <1>9, NewHeights
  <1>11. ASSUME disp_tty PROVE Tidy(disp_shown', disp_alone', HeightsNow')
    <2>1. PICK kept : kept = Displays!Settled(Displays!Below(disp_shown, HeightsNow[o]), o)
      OBVIOUS
    <2>2. disp_shown' = kept \o Displays!Lines(Displays!Text, h) /\ disp_alone' = {}
      BY <1>5, <1>7, <1>11, <2>1 DEF Displays!stop
    <2>3. Tidy(disp_shown, disp_alone, HeightsNow) /\ HeightsNow[o] \in Nat
      BY <1>6, <1>11, DisplayHeights DEF DisplaysInv
    <2>4. Tidy(kept, {}, HeightsNow')
      BY <1>6, <1>10, <2>1, <2>3, TidySettled
    <2>5. Tidy(disp_shown', {}, HeightsNow')
      BY <1>2, <2>2, <2>4, TidyText
    <2> QED
      BY <2>2, <2>5
  <1> QED
    BY <1>4, <1>8, <1>11 DEF DisplaysInv

\* The full-screen display.
LEMMA ScreenKeeps ==
    ASSUME DisplaysInv, NEW h \in Displays!Heights,
           Displays!screen_start(h) \/ Displays!screen_update(h) \/ Displays!screen_stop(h)
    PROVE  DisplaysInv'
  <1>1. PICK o : o = Displays!ScreenOwner
    OBVIOUS
  <1>2. o \in InPlaceDisplays /\ \A p \in Displays!InPlace, i \in Nat : o # [kind |-> p, slot |-> i]
    BY <1>1, DisplaysApart
  <1>3. UNCHANGED <<disp_tty, disp_slots>> /\ h \in Nat \ {0}
    BY NativeAssumption DEF Displays!screen_start, Displays!screen_update,
       Displays!screen_stop, Displays!Heights, Displays!DisplaysAssumption
  <1>4. HeightsNow[o] = Displays!ScreenHeight
    BY <1>1, HeightsAre
  <1>5. ASSUME NEW g, Displays!ScreenHeight' = g
        PROVE  \A p \in InPlaceDisplays : HeightsNow'[p] = IF p = o THEN g ELSE HeightsNow[p]
    BY <1>1, <1>2, <1>3, <1>5, NewHeights DEF HeightAt
  <1>6. disp_screen' = None
          \/ disp_screen' = [Displays!New EXCEPT !.rendered_height = IF disp_tty THEN h ELSE 0]
    BY DEF Displays!screen_start, Displays!screen_update, Displays!screen_stop
  <1>7. PICK e : e = [Displays!New EXCEPT !.rendered_height = IF disp_tty THEN h ELSE 0]
    OBVIOUS
  <1>8. /\ e \in Displays!Display /\ e # None
        /\ e.rendered_height = IF disp_tty THEN h ELSE 0
    BY <1>3, <1>7, NativeAssumption DEF Displays!New, Displays!Display, Displays!DisplaysAssumption
  <1>9. disp_screen' \in DisplaySlots
    BY <1>6, <1>7, <1>8 DEF DisplaySlots
  <1>10. ASSUME disp_tty PROVE Tidy(disp_shown', disp_alone', HeightsNow')
    <2>1. Tidy(disp_shown, disp_alone, HeightsNow) /\ HeightsNow[o] \in Nat
      BY <1>2, <1>10, DisplayHeights DEF DisplaysInv
    <2>2. CASE Displays!screen_start(h)
      <3>1. PICK kept : kept = Displays!Settled(disp_shown, o)
        OBVIOUS
      <3>2. /\ disp_shown' = kept \o Displays!Lines(o, h)
            /\ disp_alone' = {o} /\ disp_screen' = e
        BY <1>1, <1>7, <1>10, <2>2, <3>1 DEF Displays!screen_start
      <3>3. PICK middle : middle = [p \in InPlaceDisplays |-> IF p = o THEN 0 ELSE HeightsNow[p]]
        OBVIOUS
      <3>4. \A p \in InPlaceDisplays : middle[p] = IF p = o THEN 0 ELSE HeightsNow[p]
        BY <3>3
      <3>5. Displays!Below(disp_shown, 0) = disp_shown
        BY <2>1, NothingBelow DEF Tidy
      <3>6. kept = Displays!Settled(Displays!Below(disp_shown, 0), o)
        BY <3>1, <3>5
      <3>7. Tidy(kept, {}, middle)
        BY <1>2, <2>1, <3>4, <3>6, TidySettled
      <3>8. Displays!Below(kept, 0) = kept
        BY <3>7, NothingBelow DEF Tidy
      <3>9. middle[o] = 0
        BY <1>2, <3>4
      <3>10. disp_shown' = Displays!Below(kept, middle[o]) \o Displays!Lines(o, h)
        BY <3>2, <3>8, <3>9
      <3>11. Displays!ScreenHeight' = h
        BY <1>8, <1>10, <3>2 DEF Displays!ScreenHeight
      <3>12. \A p \in InPlaceDisplays : HeightsNow'[p] = IF p = o THEN h ELSE middle[p]
        BY <1>5, <3>4, <3>11
      <3>13. disp_alone' = ({} \cap {o}) \cup IF middle[o] = 0 THEN {o} ELSE {}
        BY <3>2, <3>9
      <3>14. middle[o] \in Nat
        BY <3>9
      <3> QED
        <4>1. Redrawn(kept, {}, middle, o, h, disp_shown', disp_alone', HeightsNow')
          BY <3>10, <3>12, <3>13 DEF Redrawn
        <4> QED
          BY <1>2, <1>3, <3>7, <3>14, <4>1, TidyRedraw
    <2>3. CASE Displays!screen_update(h)
      <3>1. Displays!emit_in_place(o, h, HeightsNow[o]) /\ disp_screen' = e
        BY <1>1, <1>4, <1>7, <1>10, <2>3 DEF Displays!screen_update
      <3>2. /\ disp_shown' = Displays!Below(disp_shown, HeightsNow[o]) \o Displays!Lines(o, h)
            /\ disp_alone' = (disp_alone \cap {o}) \cup IF HeightsNow[o] = 0 THEN {o} ELSE {}
        BY <1>10, <3>1 DEF Displays!emit_in_place
      <3>3. Displays!ScreenHeight' = h
        BY <1>8, <1>10, <3>1 DEF Displays!ScreenHeight
      <3>4. \A p \in InPlaceDisplays : HeightsNow'[p] = IF p = o THEN h ELSE HeightsNow[p]
        BY <1>5, <3>3
      <3> QED
        <4>1. Redrawn(disp_shown, disp_alone, HeightsNow, o, h, disp_shown', disp_alone', HeightsNow')
          BY <3>2, <3>4 DEF Redrawn
        <4> QED
          BY <1>2, <1>3, <2>1, <4>1, TidyRedraw
    <2>4. CASE Displays!screen_stop(h)
      <3>1. disp_screen' = None
        BY <2>4 DEF Displays!screen_stop
      <3>2. Displays!ScreenHeight' = 0
        BY <3>1 DEF Displays!ScreenHeight
      <3>3. \A p \in InPlaceDisplays : HeightsNow'[p] = IF p = o THEN 0 ELSE HeightsNow[p]
        BY <1>5, <3>2
      <3>4. CASE disp_screen = None
        <4>1. UNCHANGED <<disp_shown, disp_alone>>
          BY <2>4, <3>4 DEF Displays!screen_stop
        <4>2. HeightsNow[o] = 0
          BY <1>4, <3>4 DEF Displays!ScreenHeight
        <4>3. \A p \in InPlaceDisplays : HeightsNow'[p] = HeightsNow[p]
          BY <3>3, <4>2
        <4>4. HeightsNow' = HeightsNow
          BY <4>3 DEF HeightsNow
        <4> QED
          BY <2>1, <4>1, <4>4
      <3>5. CASE disp_screen # None
        <4>1. PICK kept : kept = Displays!Settled(Displays!Below(disp_shown, HeightsNow[o]), o)
          OBVIOUS
        <4>2. disp_shown' = kept \o Displays!Lines(Displays!Text, h) /\ disp_alone' = {}
          BY <1>1, <1>4, <2>4, <3>5, <4>1 DEF Displays!screen_stop
        <4>3. Tidy(kept, {}, HeightsNow')
          BY <1>2, <2>1, <3>3, <4>1, TidySettled
        <4>4. Tidy(disp_shown', {}, HeightsNow')
          BY <1>3, <4>2, <4>3, TidyText
        <4> QED
          BY <4>2, <4>4
      <3> QED
        BY <3>4, <3>5
    <2> QED
      BY <2>2, <2>3, <2>4
  <1> QED
    BY <1>3, <1>9, <1>10 DEF DisplaysInv

LEMMA DisplaysStep == ASSUME DisplaysInv, [Displays!Next]_disp_vars PROVE DisplaysInv'
  <1>1. CASE UNCHANGED disp_vars
    <2>1. UNCHANGED <<disp_tty, disp_slots, disp_screen, disp_shown, disp_alone>>
      BY <1>1 DEF disp_vars
    <2> QED
      BY <2>1, OthersTidy DEF DisplaysInv
  <1>2. ASSUME \/ Displays!table_create \/ Displays!tree_create \/ Displays!layout_create
               \/ \E i \in 1 .. MaxSlots + MaxDocuments :
                    \/ Displays!table_add_row(i) \/ Displays!tree_add(i)
                    \/ \E sections \in 0 .. MaxSlots : Displays!layout_sections(i, sections)
        PROVE  DisplaysInv'
    <2>1. UNCHANGED <<disp_tty, disp_slots, disp_screen, disp_shown, disp_alone>>
      BY <1>2 DEF Displays!table_create, Displays!tree_create, Displays!layout_create,
         Displays!table_add_row, Displays!tree_add, Displays!layout_sections, Displays!Displays
    <2> QED
      BY <2>1, OthersTidy DEF DisplaysInv
  <1> QED
    BY <1>1, <1>2, DisplayStartKeeps, TaskKeeps, StatusKeeps, RedrawKeeps,
       DisplayStopKeeps, ScreenKeeps
       DEF Displays!Next

LEMMA DisplaysAreReplaced == ASSUME DisplaysInv PROVE Displays!DisplaysReplaceThemselves
  <1> SUFFICES ASSUME disp_tty, NEW o \in disp_alone
               PROVE  /\ Displays!HeightOf(o) <= Len(disp_shown)
                      /\ {line \in DOMAIN disp_shown : disp_shown[line] = o}
                           = Len(disp_shown) - Displays!HeightOf(o) + 1 .. Len(disp_shown)
    BY DEF Displays!DisplaysReplaceThemselves
  <1>1. Tidy(disp_shown, disp_alone, HeightsNow)
    BY DEF DisplaysInv
  <1>2. /\ o \in InPlaceDisplays /\ HeightsNow[o] # 0 /\ HeightsNow[o] <= Len(disp_shown)
        /\ \A l \in DOMAIN disp_shown : disp_shown[l] = o <=> l > Len(disp_shown) - HeightsNow[o]
    BY <1>1 DEF Tidy
  <1>3. Displays!HeightOf(o) = HeightsNow[o]
    <2>1. HeightsNow[o] = HeightNow(o)
      BY <1>2 DEF HeightsNow
    <2> QED
      BY <1>2, <2>1 DEF HeightNow, Displays!HeightOf
  <1>4. HeightsNow[o] \in Nat
    BY <1>2, DisplayHeights
  <1>5. Len(disp_shown) \in Nat /\ DOMAIN disp_shown = 1 .. Len(disp_shown)
    BY <1>1 DEF Tidy
  <1>6. PICK h : h = HeightsNow[o]
    OBVIOUS
  <1>7. PICK n : n = Len(disp_shown)
    OBVIOUS
  <1>8. {line \in 1 .. n : line > n - h} = n - h + 1 .. n
    BY <1>2, <1>4, <1>5, <1>6, <1>7
  <1>9. {line \in DOMAIN disp_shown : disp_shown[line] = o} = {line \in 1 .. n : line > n - h}
    BY <1>2, <1>5, <1>6, <1>7
  <1> QED
    BY <1>2, <1>3, <1>6, <1>7, <1>8, <1>9

\* A display that nothing was printed between is erased whole and alone by its
\* next rendering, for any displays, slots and heights (emit_in_place).
THEOREM DisplaysAreReplacedWhole == Spec => []DisplaysReplaceThemselves
  <1>1. Init => (focus = "displays" => DisplaysInv)
    BY FocusStart, DisplaysInit
  <1>2. (focus = "displays" => DisplaysInv) /\ [Next]_vars
            => (focus = "displays" => DisplaysInv)'
    BY FocusStep, DisplaysStep
  <1>3. (focus = "displays" => DisplaysInv) => DisplaysReplaceThemselves
    BY DisplaysAreReplaced DEF DisplaysReplaceThemselves
  <1> QED
    BY <1>1, <1>2, <1>3, PTL DEF Spec

-----------------------------------------------------------------------------
(* Databases.                                                              *)

\* A connection that has read or written in a transaction is in one.
InTransaction(c) ==
    /\ c \in Store!Connected
    /\ c.read => c.open
    /\ c.written > 0 => c.open

DatabaseInv ==
    /\ db_connections \in Seq(Store!Connected \cup {None})
    /\ \A h \in Store!LiveHandles : InTransaction(db_connections[h])

SomeTransaction == \E h \in Store!LiveHandles : db_connections[h].open

LEMMA NewConnection ==
    ASSUME NEW path \in Databases
    PROVE  InTransaction(Store!Connection(path)) /\ Store!Connection(path).path = path
  BY DEF InTransaction, Store!Connection, Store!Connected

LEMMA BlockedByTransaction ==
    ASSUME DatabaseInv, NEW c, NEW but, NEW statement, Store!Blocked(c, but, statement)
    PROVE  SomeTransaction
  <1>1. PICK path : path = c.path
    OBVIOUS
  <1>2. Store!Writing(path, but) # {} \/ Store!Reading(path, but) # {}
    BY <1>1 DEF Store!Blocked
  <1>3. PICK h \in Store!LiveHandles : db_connections[h].read \/ db_connections[h].written > 0
    BY <1>2 DEF Store!Writing, Store!Reading
  <1> QED
    BY <1>3 DEF DatabaseInv, InTransaction, SomeTransaction

\* What a script has come to: the connection is still the one it began with, and
\* only a transaction of a live handle locks it.
Reached(outcome, path) ==
    /\ InTransaction(outcome.connection) /\ outcome.connection.path = path
    /\ outcome.answer = "locked" => SomeTransaction

LEMMA StatementReaches ==
    ASSUME DatabaseInv, NEW c, InTransaction(c), NEW rows, NEW but,
           NEW statement, NEW path, c.path = path
    PROVE  Reached(Store!Execute(c, rows, but, statement), path)
  <1> SUFFICES ASSUME NEW r, r = Store!Execute(c, rows, but, statement)
               PROVE  Reached(r, path)
    OBVIOUS
  <1>1. c \in Store!Connected /\ path \in Databases
    BY DEF InTransaction, Store!Connected
  <1>2. CASE Store!Blocked(c, but, statement)
    <2>1. r = Store!Outcome(c, rows, "locked")
      BY <1>2 DEF Store!Execute, Store!Blocked
    <2> QED
      BY <1>2, <2>1, BlockedByTransaction DEF Reached, Store!Outcome
  <1>3. CASE ~Store!Blocked(c, but, statement)
    <2>1. CASE statement = "insert"
      <3>1. r = IF c.open THEN Store!Outcome([c EXCEPT !.written = @ + 1], rows, "ok")
                ELSE Store!Outcome(c, rows + 1, "ok")
        BY <1>3, <2>1 DEF Store!Execute
      <3>2. PICK d : d = [c EXCEPT !.written = @ + 1]
        OBVIOUS
      <3>3. c.open => InTransaction(d) /\ d.path = path
        BY <1>1, <3>2 DEF InTransaction, Store!Connected
      <3> QED
        BY <3>1, <3>2, <3>3 DEF Reached, Store!Outcome
    <2>2. CASE statement = "begin" /\ ~c.open
      <3>1. PICK d : d = [c EXCEPT !.open = TRUE]
        OBVIOUS
      <3>2. r = Store!Outcome(d, rows, "ok")
        BY <1>3, <2>2, <3>1 DEF Store!Execute
      <3>3. InTransaction(d) /\ d.path = path
        BY <1>1, <3>1 DEF InTransaction, Store!Connected
      <3> QED
        BY <3>2, <3>3 DEF Reached, Store!Outcome
    <2>3. CASE statement = "commit" /\ c.open
      <3>1. r = Store!Outcome(Store!Connection(c.path), rows + c.written, "ok")
        BY <1>3, <2>3 DEF Store!Execute
      <3> QED
        BY <1>1, <3>1, NewConnection DEF Reached, Store!Outcome
    <2>4. CASE statement = "rollback" /\ c.open
      <3>1. r = Store!Outcome(Store!Connection(c.path), rows, "ok")
        BY <1>3, <2>4 DEF Store!Execute
      <3> QED
        BY <1>1, <3>1, NewConnection DEF Reached, Store!Outcome
    <2>5. CASE statement = "query"
      <3>1. PICK d : d = [c EXCEPT !.read = c.open]
        OBVIOUS
      <3>2. r = Store!Outcome(d, rows, "ok")
        BY <1>3, <2>5, <3>1 DEF Store!Execute
      <3>3. InTransaction(d) /\ d.path = path
        BY <1>1, <3>1 DEF InTransaction, Store!Connected
      <3> QED
        BY <3>2, <3>3 DEF Reached, Store!Outcome
    <2>6. CASE /\ statement # "insert" /\ statement # "query"
               /\ ~(statement = "begin" /\ ~c.open)
               /\ ~(statement = "commit" /\ c.open)
               /\ ~(statement = "rollback" /\ c.open)
      <3>1. r = Store!Outcome(c, rows, "failed")
        BY <1>3, <2>6 DEF Store!Execute
      <3> QED
        BY <3>1 DEF Reached, Store!Outcome
    <2> QED
      BY <2>1, <2>2, <2>3, <2>4, <2>5, <2>6
  <1> QED
    BY <1>2, <1>3

\* What the statements of a script come to, one after the other.
IsRun(run, n, c, rows, but, script) ==
    run = [k \in 0 .. n |->
             IF k = 0 THEN Store!Outcome(c, rows, "ok")
             ELSE LET before == run[k - 1]
                  IN  IF before.answer # "ok" THEN before
                      ELSE Store!Execute(before.connection, before.rows, but, script[k])]

\* There is such a run, however long the script: the shortest without one would
\* have one, the run before it and one statement more.
LEMMA ScriptRuns ==
    ASSUME NEW c, NEW rows, NEW but, NEW script
    PROVE  \A n \in Nat : \E run : IsRun(run, n, c, rows, but, script)
  <1>1. PICK T : T = {n \in Nat : ~\E run : IsRun(run, n, c, rows, but, script)}
    OBVIOUS
  <1>2. ASSUME T # {} PROVE FALSE
    <2>1. PICK n \in T : \A m \in T : n <= m
      BY <1>1, <1>2, Least
    <2>2. n \in Nat /\ ~\E run : IsRun(run, n, c, rows, but, script)
      BY <1>1, <2>1
    <2>3. CASE n = 0
      <3>1. PICK run : run = [k \in 0 .. 0 |-> Store!Outcome(c, rows, "ok")]
        OBVIOUS
      <3>2. IsRun(run, 0, c, rows, but, script)
        BY <3>1 DEF IsRun
      <3> QED
        BY <2>2, <2>3, <3>2
    <2>4. CASE n # 0
      <3>1. n - 1 \in Nat /\ ~(n <= n - 1)
        BY <2>2, <2>4
      <3>2. PICK run : IsRun(run, n - 1, c, rows, but, script)
        BY <1>1, <2>1, <3>1
      <3>3. PICK last : last = LET before == run[n - 1]
                               IN  IF before.answer # "ok" THEN before
                                   ELSE Store!Execute(before.connection, before.rows, but, script[n])
        OBVIOUS
      <3>4. PICK longer : longer = [k \in 0 .. n |-> IF k = n THEN last ELSE run[k]]
        OBVIOUS
      <3>5. \A k \in 0 .. n - 1 : longer[k] = run[k]
        BY <2>2, <3>4
      <3>6. ASSUME NEW k \in 0 .. n
            PROVE  longer[k] =
                      IF k = 0 THEN Store!Outcome(c, rows, "ok")
                      ELSE LET before == longer[k - 1]
                           IN  IF before.answer # "ok" THEN before
                               ELSE Store!Execute(before.connection, before.rows, but, script[k])
        <4>1. CASE k = n
          <5>1. longer[k] = last /\ longer[k - 1] = run[n - 1] /\ k # 0
            BY <2>2, <2>4, <3>4, <3>5, <4>1
          <5> QED
            BY <3>3, <4>1, <5>1
        <4>2. CASE k # n
          <5>1. k \in 0 .. n - 1 /\ longer[k] = run[k]
            BY <2>2, <3>5, <4>2
          <5>2. run[k] = IF k = 0 THEN Store!Outcome(c, rows, "ok")
                      ELSE LET before == run[k - 1]
                           IN  IF before.answer # "ok" THEN before
                               ELSE Store!Execute(before.connection, before.rows, but, script[k])
            BY <3>2, <5>1 DEF IsRun
          <5>3. k # 0 => longer[k - 1] = run[k - 1]
            BY <2>2, <3>5, <5>1
          <5> QED
            BY <5>1, <5>2, <5>3
        <4> QED
          BY <4>1, <4>2
      <3>7. longer = [k \in 0 .. n |-> longer[k]]
        BY <3>4
      <3>8. IsRun(longer, n, c, rows, but, script)
        BY <3>6, <3>7 DEF IsRun
      <3> QED
        BY <2>2, <3>8
    <2> QED
      BY <2>3, <2>4
  <1> QED
    BY <1>1, <1>2

LEMMA ScriptReaches ==
    ASSUME DatabaseInv, NEW c, InTransaction(c), NEW rows, NEW but,
           NEW script \in Scripts, NEW path, c.path = path
    PROVE  Reached(Store!op_script(c, rows, but, script), path)
  <1>1. Len(script) \in Nat
    BY NativeAssumption DEF Store!DatabaseAssumption
  <1>2. PICK run : run = CHOOSE r : IsRun(r, Len(script), c, rows, but, script)
    OBVIOUS
  <1>3. IsRun(run, Len(script), c, rows, but, script)
    BY <1>1, <1>2, ScriptRuns
  <1>4. Store!op_script(c, rows, but, script) = run[Len(script)]
    BY <1>2 DEF Store!op_script, IsRun
  <1>5. PICK T : T = {k \in 0 .. Len(script) : ~Reached(run[k], path)}
    OBVIOUS
  <1>6. ASSUME T # {} PROVE FALSE
    <2>0. T \subseteq Nat
      BY <1>1, <1>5
    <2>1. PICK k \in T : \A m \in T : k <= m
      BY <1>6, <2>0, Least
    <2>2. k \in 0 .. Len(script) /\ ~Reached(run[k], path) /\ k \in Nat
      BY <1>1, <1>5, <2>1
    <2>3. run[k] = IF k = 0 THEN Store!Outcome(c, rows, "ok")
                   ELSE LET before == run[k - 1]
                        IN  IF before.answer # "ok" THEN before
                            ELSE Store!Execute(before.connection, before.rows, but, script[k])
      BY <1>3, <2>2 DEF IsRun
    <2>4. CASE k = 0
      BY <2>2, <2>3, <2>4 DEF Reached, Store!Outcome
    <2>5. CASE k # 0
      <3>1. k - 1 \in 0 .. Len(script) /\ ~(k <= k - 1)
        BY <1>1, <2>2, <2>5
      <3>2. Reached(run[k - 1], path)
        BY <1>5, <2>1, <3>1
      <3>3. CASE run[k - 1].answer # "ok"
        BY <2>2, <2>3, <2>5, <3>2, <3>3
      <3>4. CASE run[k - 1].answer = "ok"
        <4>1. run[k] = Store!Execute(run[k - 1].connection, run[k - 1].rows, but, script[k])
          BY <2>3, <2>5, <3>4
        <4>2. InTransaction(run[k - 1].connection) /\ run[k - 1].connection.path = path
          BY <3>2 DEF Reached
        <4> QED
          BY <2>2, <4>1, <4>2, StatementReaches
      <3> QED
        BY <3>3, <3>4
    <2> QED
      BY <2>4, <2>5
  <1>7. Len(script) \in 0 .. Len(script)
    BY <1>1
  <1> QED
    BY <1>4, <1>5, <1>6, <1>7

LEMMA DatabaseInit == ASSUME Store!Init PROVE DatabaseInv
  <1>1. db_connections = <<>> /\ <<>> \in Seq(Store!Connected \cup {None}) /\ DOMAIN <<>> = {}
    BY DEF Store!Init
  <1> QED
    BY <1>1 DEF DatabaseInv, Store!LiveHandles

\* Connections that are the ones from before, but for one.
Replaced(connections, h, c) ==
    /\ connections \in Seq(Store!Connected \cup {None})
    /\ DOMAIN connections = DOMAIN db_connections
    /\ Len(connections) = Len(db_connections)
    /\ \A g \in DOMAIN db_connections : connections[g] = IF g = h THEN c ELSE db_connections[g]

LEMMA ConnectionReplaced ==
    ASSUME DatabaseInv, NEW h, NEW c \in Store!Connected \cup {None}
    PROVE  Replaced([db_connections EXCEPT ![h] = c], h, c)
  <1>1. PICK V : V = Store!Connected \cup {None}
    OBVIOUS
  <1>2. PICK s : s = db_connections
    OBVIOUS
  <1>3. s \in Seq(V) /\ c \in V
    BY <1>1, <1>2 DEF DatabaseInv
  <1>4. Len(s) \in Nat /\ s \in [1 .. Len(s) -> V]
    BY <1>3
  <1>5. PICK r : r = [s EXCEPT ![h] = c]
    OBVIOUS
  <1>6. r \in [1 .. Len(s) -> V]
    BY <1>3, <1>4, <1>5
  <1>7. r \in Seq(V) /\ Len(r) = Len(s) /\ DOMAIN r = DOMAIN s
    BY <1>4, <1>6
  <1>8. \A g \in DOMAIN s : r[g] = IF g = h THEN c ELSE s[g]
    BY <1>4, <1>5
  <1> QED
    BY <1>1, <1>2, <1>5, <1>7, <1>8 DEF Replaced

\* What a call does to the connections, and what it answers.
LEMMA CallKeeps ==
    ASSUME DatabaseInv, NEW h, NEW c, c = None \/ InTransaction(c),
           Replaced(db_connections', h, c)
    PROVE  DatabaseInv'
  <1>1. ASSUME NEW g \in Store!LiveHandles' PROVE InTransaction(db_connections'[g])
    <2>1. g \in DOMAIN db_connections' /\ db_connections'[g] # None
      BY <1>1 DEF Store!LiveHandles, Store!Live
    <2>2. g \in DOMAIN db_connections /\ (g = h => db_connections'[g] = c)
          /\ (g # h => db_connections'[g] = db_connections[g])
      BY <2>1 DEF Replaced
    <2>3. CASE g = h
      BY <2>1, <2>2, <2>3
    <2>4. CASE g # h
      <3>1. g \in Store!LiveHandles
        BY <2>1, <2>2, <2>4 DEF Store!LiveHandles, Store!Live
      <3> QED
        BY <2>2, <2>4, <3>1 DEF DatabaseInv
    <2> QED
      BY <2>3, <2>4
  <1> QED
    BY <1>1 DEF DatabaseInv, Replaced

LEMMA OpenKeeps ==
    ASSUME DatabaseInv, NEW path \in Databases, Store!open(path)
    PROVE  DatabaseInv' /\ Store!TransactionsBelongToHandles
  <1>1. PICK s : s = db_connections
    OBVIOUS
  <1>2. PICK V : V = Store!Connected \cup {None}
    OBVIOUS
  <1>3. PICK c : c = Store!Connection(path)
    OBVIOUS
  <1>4. s \in Seq(V) /\ c \in V /\ InTransaction(c) /\ db_connections' = Append(s, c)
    BY <1>1, <1>2, <1>3, NewConnection DEF DatabaseInv, Store!open, InTransaction
  <1>5. PICK t : t = db_connections'
    OBVIOUS
  <1>6. /\ t \in Seq(V) /\ Len(s) \in Nat /\ DOMAIN s = 1 .. Len(s)
        /\ DOMAIN t = 1 .. Len(s) + 1
        /\ \A g \in DOMAIN s : t[g] = s[g]
        /\ t[Len(s) + 1] = c
    BY <1>4, <1>5
  <1>7. \A g \in DOMAIN t : g \in DOMAIN s \/ t[g] = c
    BY <1>6
  <1>8. ASSUME NEW g \in Store!LiveHandles' PROVE InTransaction(db_connections'[g])
    <2>1. g \in DOMAIN t /\ t[g] # None
      BY <1>5, <1>8 DEF Store!LiveHandles, Store!Live
    <2>2. CASE g \in DOMAIN s
      <3>1. g \in Store!LiveHandles /\ t[g] = s[g]
        BY <1>1, <1>6, <2>1, <2>2 DEF Store!LiveHandles, Store!Live
      <3> QED
        BY <1>1, <1>5, <3>1 DEF DatabaseInv
    <2>3. CASE t[g] = c
      BY <1>4, <1>5, <2>3
    <2> QED
      BY <1>7, <2>1, <2>2, <2>3
  <1>9. DatabaseInv'
    BY <1>2, <1>5, <1>6, <1>8 DEF DatabaseInv
  <1>10. \A h \in DOMAIN db_connections : db_connections'[h] = db_connections[h]
    BY <1>1, <1>5, <1>6
  <1>11. db_answer' = "ok" /\ db_stored' = db_stored
    BY DEF Store!open
  <1> QED
    BY <1>9, <1>10, <1>11 DEF Store!TransactionsBelongToHandles, Store!Live

LEMMA CloseKeeps ==
    ASSUME DatabaseInv, NEW h, Store!close(h)
    PROVE  DatabaseInv' /\ Store!TransactionsBelongToHandles
  <1>1. CASE Store!Live(h)
    <2>1. db_connections' = [db_connections EXCEPT ![h] = None]
          /\ db_answer' = "ok" /\ db_stored' = db_stored
      BY <1>1 DEF Store!close
    <2>2. Replaced(db_connections', h, None)
      BY <2>1, ConnectionReplaced
    <2>3. DatabaseInv'
      BY <2>2, CallKeeps
    <2> QED
      BY <2>1, <2>2, <2>3 DEF Replaced, Store!TransactionsBelongToHandles, Store!Live
  <1>2. CASE ~Store!Live(h)
    <2>1. UNCHANGED <<db_connections, db_stored>> /\ db_answer' = "unknown"
      BY <1>2 DEF Store!close
    <2>2. DatabaseInv'
      BY <2>1 DEF DatabaseInv, Store!LiveHandles, Store!Live
    <2> QED
      BY <2>1, <2>2 DEF Store!TransactionsBelongToHandles, Store!Live
  <1> QED
    BY <1>1, <1>2

LEMMA PathKeeps ==
    ASSUME DatabaseInv, NEW path \in Databases, NEW script \in Scripts,
           Store!with_path(path, script)
    PROVE  DatabaseInv' /\ Store!TransactionsBelongToHandles
  <1>1. PICK done : done = Store!op_script(Store!Connection(path), db_stored[path], 0, script)
    OBVIOUS
  <1>2. Reached(done, path)
    BY <1>1, NewConnection, ScriptReaches
  <1>3. db_answer' = done.answer /\ UNCHANGED db_connections
    BY <1>1 DEF Store!with_path
  <1>4. DatabaseInv'
    BY <1>3 DEF DatabaseInv, Store!LiveHandles, Store!Live
  <1>5. UNCHANGED Store!LiveHandles
    BY <1>3 DEF Store!LiveHandles, Store!Live
  <1>6. db_answer' = "locked" => SomeTransaction
    BY <1>2, <1>3 DEF Reached
  <1>7. Len(db_connections) \in Nat
    BY DEF DatabaseInv
  <1> QED
    BY <1>3, <1>4, <1>5, <1>6, <1>7
       DEF Store!TransactionsBelongToHandles, Store!Live, SomeTransaction

LEMMA HandleKeeps ==
    ASSUME DatabaseInv, NEW h, NEW script \in Scripts, Store!with_handle(h, script)
    PROVE  DatabaseInv' /\ Store!TransactionsBelongToHandles
  <1>1. CASE ~Store!Live(h)
    <2>1. UNCHANGED <<db_connections, db_stored>> /\ db_answer' = "unknown"
      BY <1>1 DEF Store!with_handle
    <2>2. DatabaseInv'
      BY <2>1 DEF DatabaseInv, Store!LiveHandles, Store!Live
    <2> QED
      BY <2>1, <2>2 DEF Store!TransactionsBelongToHandles, Store!Live
  <1>2. CASE Store!Live(h)
    <2>1. PICK path : path = db_connections[h].path
      OBVIOUS
    <2>2. PICK done : done = Store!op_script(db_connections[h], db_stored[path], h, script)
      OBVIOUS
    <2>3. InTransaction(db_connections[h]) /\ h \in DOMAIN db_connections
      BY <1>2 DEF DatabaseInv, Store!LiveHandles, Store!Live
    <2>4. Reached(done, path)
      BY <2>1, <2>2, <2>3, ScriptReaches
    <2>5. PICK c : c = done.connection
      OBVIOUS
    <2>6. InTransaction(c) /\ c \in Store!Connected /\ c # None /\ c.path = path
      BY <2>4, <2>5, NativeAssumption DEF Reached, InTransaction, Store!DatabaseAssumption
    <2>7. db_connections' = [db_connections EXCEPT ![h] = c] /\ db_answer' = done.answer
      BY <1>2, <2>1, <2>2, <2>5 DEF Store!with_handle
    <2>8. Replaced(db_connections', h, c)
      BY <2>6, <2>7, ConnectionReplaced
    <2>9. DatabaseInv'
      BY <2>6, <2>8, CallKeeps
    <2>10. Store!LiveHandles' = Store!LiveHandles
      BY <1>2, <2>6, <2>8 DEF Replaced, Store!LiveHandles, Store!Live
    <2>11. db_answer' = "locked" => SomeTransaction
      BY <2>4, <2>7 DEF Reached
    <2>12. Len(db_connections) \in Nat /\ Len(db_connections') = Len(db_connections)
      BY <2>8 DEF Replaced, DatabaseInv
    <2>13. \A g \in DOMAIN db_connections :
              IF Store!Live(g)
              THEN db_connections'[g] # None => db_connections'[g].path = db_connections[g].path
              ELSE db_connections'[g] = None
      BY <1>2, <2>1, <2>6, <2>8 DEF Replaced, Store!Live
    <2> QED
      BY <2>9, <2>10, <2>11, <2>12, <2>13
         DEF Store!TransactionsBelongToHandles, SomeTransaction
  <1> QED
    BY <1>1, <1>2

LEMMA DatabaseStep == ASSUME DatabaseInv, [Store!Next]_db_vars PROVE DatabaseInv'
  <1>1. CASE UNCHANGED db_vars
    BY <1>1 DEF db_vars, DatabaseInv, Store!LiveHandles, Store!Live
  <1> QED
    BY <1>1, OpenKeeps, CloseKeeps, PathKeeps, HandleKeeps DEF Store!Next

LEMMA DatabaseSteps ==
    ASSUME DatabaseInv, Store!Next
    PROVE  Store!TransactionsBelongToHandles
  BY OpenKeeps, CloseKeeps, PathKeeps, HandleKeeps DEF Store!Next

\* A call by path leaves no transaction, a handle keeps its connection, and only
\* the transaction of a live handle locks a database, for any databases, handles
\* and scripts of any length (with_path, with_handle, close).
THEOREM TransactionsAreTheHandles == Spec => TransactionsBelongToHandles
  <1>1. Init => (focus = "database" => DatabaseInv)
    BY FocusStart, DatabaseInit
  <1>2. (focus = "database" => DatabaseInv) /\ [Next]_vars
            => (focus = "database" => DatabaseInv)'
    BY FocusStep, DatabaseStep
  <1>3. ASSUME (focus = "database" => DatabaseInv), [Next]_vars
        PROVE  [focus = "database" => Store!TransactionsBelongToHandles]_vars
    <2>1. CASE UNCHANGED vars
      BY <2>1
    <2>2. CASE Next /\ focus # "database"
      BY <2>2
    <2>3. CASE Next /\ focus = "database"
      <3>1. Store!Next
        BY <2>3 DEF Next
      <3> QED
        BY <1>3, <2>3, <3>1, DatabaseSteps
    <2> QED
      BY <1>3, <2>1, <2>2, <2>3
  <1> QED
    BY <1>1, <1>2, <1>3, PTL DEF Spec, TransactionsBelongToHandles

-----------------------------------------------------------------------------
(* The watches.                                                            *)

Events == Seq(Watching!Event)

\* The events that are on their way still tell a kind of a path.
LEMMA TellsAppended ==
    ASSUME NEW events \in Events, NEW e \in Watching!Event, NEW path, NEW kind,
           \/ e.path = path /\ e.kind = kind
           \/ e.path # path /\ Watching!Tells(events, path, kind)
    PROVE  Watching!Tells(Append(events, e), path, kind)
  <1>1. PICK more : more = Append(events, e)
    OBVIOUS
  <1>2. PICK n : n = Len(events)
    OBVIOUS
  <1>3. /\ n \in Nat /\ DOMAIN events = 1 .. n /\ DOMAIN more = 1 .. n + 1
        /\ more[n + 1] = e /\ \A i \in 1 .. n : more[i] = events[i]
    BY <1>1, <1>2 DEF Events
  <1>4. CASE e.path = path /\ e.kind = kind
    <2>1. n + 1 \in DOMAIN more /\ \A j \in DOMAIN more : ~(j > n + 1)
      BY <1>3
    <2> QED
      BY <1>1, <1>3, <1>4, <2>1 DEF Watching!Tells
  <1>5. CASE e.path # path /\ Watching!Tells(events, path, kind)
    <2>1. PICK i \in DOMAIN events :
             /\ events[i].path = path /\ events[i].kind = kind
             /\ \A j \in DOMAIN events : j > i => events[j].path # path
      BY <1>5 DEF Watching!Tells
    <2>2. i \in DOMAIN more /\ more[i] = events[i]
      BY <1>3
    <2>3. ASSUME NEW j \in DOMAIN more, j > i PROVE more[j].path # path
      <3>1. CASE j = n + 1
        BY <1>3, <1>5, <3>1
      <3>2. CASE j # n + 1
        <4>1. j \in DOMAIN events /\ more[j] = events[j]
          BY <1>3, <3>2
        <4> QED
          BY <2>1, <2>3, <4>1
      <3> QED
        BY <3>1, <3>2
    <2> QED
      BY <1>1, <2>1, <2>2, <2>3 DEF Watching!Tells
  <1> QED
    BY <1>4, <1>5

\* What two sequences of events tell together, the later one tells, or the
\* earlier one.
LEMMA TellsConcatenated ==
    ASSUME NEW first \in Events, NEW then \in Events, NEW path, NEW kind,
           Watching!Tells(first \o then, path, kind)
    PROVE  Watching!Tells(first, path, kind) \/ Watching!Tells(then, path, kind)
  <1>1. PICK all : all = first \o then
    OBVIOUS
  <1>2. PICK m : m = Len(first)
    OBVIOUS
  <1>3. PICK n : n = Len(then)
    OBVIOUS
  <1>4. m \in Nat /\ n \in Nat /\ DOMAIN first = 1 .. m /\ DOMAIN then = 1 .. n
    BY <1>2, <1>3 DEF Events
  <1>5. /\ DOMAIN all = 1 .. m + n
        /\ \A i \in 1 .. m + n : all[i] = IF i <= m THEN first[i] ELSE then[i - m]
    <2>1. /\ all \in Events /\ Len(all) = m + n
          /\ \A i \in 1 .. m + n : all[i] = IF i <= m THEN first[i] ELSE then[i - m]
      BY <1>1, <1>2, <1>3, ConcatProperties DEF Events
    <2> QED
      BY <2>1 DEF Events
  <1>6. PICK i \in DOMAIN all :
             /\ all[i].path = path /\ all[i].kind = kind
             /\ \A j \in DOMAIN all : j > i => all[j].path # path
    BY <1>1 DEF Watching!Tells
  <1>7. CASE i <= m
    <2>1. i \in DOMAIN first /\ first[i] = all[i]
      BY <1>4, <1>5, <1>6, <1>7
    <2>2. ASSUME NEW j \in DOMAIN first, j > i PROVE first[j].path # path
      <3>1. j \in DOMAIN all /\ all[j] = first[j]
        BY <1>4, <1>5, <2>2
      <3> QED
        BY <1>6, <2>2, <3>1
    <2> QED
      BY <1>6, <2>1, <2>2 DEF Watching!Tells
  <1>8. CASE ~(i <= m)
    <2>1. i - m \in DOMAIN then /\ then[i - m] = all[i]
      BY <1>4, <1>5, <1>6, <1>8
    <2>2. ASSUME NEW j \in DOMAIN then, j > i - m PROVE then[j].path # path
      <3>1. j + m \in DOMAIN all /\ all[j + m] = then[j] /\ j + m > i
        <4>1. j + m \in 1 .. m + n /\ ~(j + m <= m) /\ (j + m) - m = j
          BY <1>4, <2>2
        <4>2. i \in Nat
          BY <1>5, <1>6
        <4> QED
          BY <1>4, <1>5, <2>2, <4>1, <4>2
      <3> QED
        BY <1>6, <3>1
    <2> QED
      BY <1>6, <2>1, <2>2 DEF Watching!Tells
  <1> QED
    BY <1>7, <1>8

\* merge: the n first events, with the last of each path only.
Kept(kept, events, n) ==
    /\ kept \in Events
    /\ \A i, j \in DOMAIN kept : kept[i].path = kept[j].path => i = j
    /\ \A i \in DOMAIN kept : \E m \in 1 .. n :
          events[m] = kept[i] /\ \A l \in 1 .. n : l > m => events[l].path # kept[i].path
    /\ \A m \in 1 .. n : \E i \in DOMAIN kept : kept[i].path = events[m].path

LEMMA MergeKeeps ==
    ASSUME NEW events \in Events, NEW n \in 1 .. Len(events),
           NEW before, Kept(before, events, n - 1),
           NEW kept, kept = Watching!Merge(before, events[n])
    PROVE  Kept(kept, events, n)
  <1>1. PICK e : e = events[n]
    OBVIOUS
  <1>2. Len(events) \in Nat /\ n \in Nat /\ n >= 1
    BY DEF Events
  <1>3. e \in Watching!Event
    BY <1>1 DEF Events
  <1>4. /\ before \in Events
        /\ \A i, j \in DOMAIN before : before[i].path = before[j].path => i = j
        /\ \A i \in DOMAIN before : \E m \in 1 .. n - 1 :
              events[m] = before[i]
              /\ \A l \in 1 .. n - 1 : l > m => events[l].path # before[i].path
        /\ \A m \in 1 .. n - 1 : \E i \in DOMAIN before : before[i].path = events[m].path
    BY DEF Kept
  <1>5. PICK k : k = Len(before)
    OBVIOUS
  <1>6. k \in Nat /\ DOMAIN before = 1 .. k
    BY <1>4, <1>5 DEF Events
  \* Which events are kept.
  <1>7. /\ kept \in Events
        /\ \A i, j \in DOMAIN kept : kept[i].path = kept[j].path => i = j
        /\ \A i \in DOMAIN kept :
              kept[i] = e \/ (i \in DOMAIN before /\ kept[i] = before[i] /\ kept[i].path # e.path)
        /\ \A i \in DOMAIN before : i \in DOMAIN kept /\ kept[i].path = before[i].path
        /\ \E i \in DOMAIN kept : kept[i] = e
    <2>1. CASE \E i \in DOMAIN before : before[i].path = e.path
      <3>1. kept = [i \in DOMAIN before |-> IF before[i].path = e.path THEN e ELSE before[i]]
        BY <1>1, <2>1 DEF Watching!Merge
      <3>2. kept \in [1 .. k -> Watching!Event]
        <4>1. \A i \in 1 .. k : before[i] \in Watching!Event
          BY <1>4, <1>6 DEF Events
        <4> QED
          BY <1>3, <1>6, <3>1, <4>1
      <3>3. kept \in Events /\ DOMAIN kept = DOMAIN before
        BY <1>6, <3>2 DEF Events
      <3>4. \A i \in DOMAIN kept : kept[i] = IF before[i].path = e.path THEN e ELSE before[i]
        BY <3>1, <3>3
      <3>5. \A i \in DOMAIN kept : kept[i].path = before[i].path
        BY <3>4
      <3> QED
        BY <1>4, <2>1, <3>3, <3>4, <3>5
    <2>2. CASE ~\E i \in DOMAIN before : before[i].path = e.path
      <3>1. kept = Append(before, e)
        BY <1>1, <2>2 DEF Watching!Merge
      <3>2. /\ kept \in Events /\ DOMAIN kept = 1 .. k + 1
            /\ kept[k + 1] = e /\ \A i \in 1 .. k : kept[i] = before[i]
        BY <1>3, <1>4, <1>5, <1>6, <3>1 DEF Events
      <3>3. \A i \in DOMAIN kept : i = k + 1 \/ i \in DOMAIN before
        BY <1>6, <3>2
      <3>4. k + 1 \in DOMAIN kept /\ \A i \in DOMAIN before : i \in DOMAIN kept /\ i # k + 1
        BY <1>6, <3>2
      <3>5. \A i \in DOMAIN before : kept[i] = before[i] /\ kept[i].path # e.path
        BY <1>6, <2>2, <3>2
      <3>6. ASSUME NEW i \in DOMAIN kept, NEW j \in DOMAIN kept, kept[i].path = kept[j].path
            PROVE  i = j
        <4>1. CASE i = k + 1 /\ j # k + 1
          BY <3>2, <3>3, <3>5, <3>6, <4>1
        <4>2. CASE i # k + 1 /\ j = k + 1
          BY <3>2, <3>3, <3>5, <3>6, <4>2
        <4>3. CASE i # k + 1 /\ j # k + 1
          BY <1>4, <3>3, <3>5, <3>6, <4>3
        <4> QED
          BY <4>1, <4>2, <4>3
      <3> QED
        BY <3>2, <3>3, <3>4, <3>5, <3>6
    <2> QED
      BY <2>1, <2>2
  <1>8. n \in 1 .. n /\ \A l \in 1 .. n : ~(l > n)
    BY <1>2
  <1>9. ASSUME NEW i \in DOMAIN kept
        PROVE  \E m \in 1 .. n :
                 events[m] = kept[i] /\ \A l \in 1 .. n : l > m => events[l].path # kept[i].path
    <2>1. CASE kept[i] = e
      BY <1>1, <1>8, <2>1
    <2>2. CASE i \in DOMAIN before /\ kept[i] = before[i] /\ kept[i].path # e.path
      <3>1. PICK m \in 1 .. n - 1 :
               events[m] = before[i]
               /\ \A l \in 1 .. n - 1 : l > m => events[l].path # before[i].path
        BY <1>4, <2>2
      <3>2. m \in 1 .. n
        BY <1>2
      <3>3. ASSUME NEW l \in 1 .. n, l > m PROVE events[l].path # kept[i].path
        <4>1. CASE l = n
          BY <1>1, <2>2, <4>1
        <4>2. CASE l # n
          <5>1. l \in 1 .. n - 1
            BY <1>2, <4>2
          <5> QED
            BY <2>2, <3>1, <3>3, <5>1
        <4> QED
          BY <4>1, <4>2
      <3> QED
        BY <2>2, <3>1, <3>2, <3>3
    <2> QED
      BY <1>7, <2>1, <2>2
  <1>10. ASSUME NEW m \in 1 .. n
         PROVE  \E i \in DOMAIN kept : kept[i].path = events[m].path
    <2>1. CASE m = n
      BY <1>1, <1>7, <2>1
    <2>2. CASE m # n
      <3>1. m \in 1 .. n - 1
        BY <1>2, <2>2
      <3> QED
        BY <1>4, <1>7, <3>1
    <2> QED
      BY <2>1, <2>2
  <1> QED
    BY <1>7, <1>9, <1>10 DEF Kept

\* What merge is of the n first events, for every n.
AreMerged(merged, events, n) ==
    merged = [k \in 0 .. n |-> IF k = 0 THEN <<>> ELSE Watching!Merge(merged[k - 1], events[k])]

LEMMA MergedExist ==
    ASSUME NEW events
    PROVE  \A n \in Nat : \E merged : AreMerged(merged, events, n)
  <1>1. PICK T : T = {n \in Nat : ~\E merged : AreMerged(merged, events, n)}
    OBVIOUS
  <1>2. ASSUME T # {} PROVE FALSE
    <2>1. T \subseteq Nat
      BY <1>1
    <2>2. PICK n \in T : \A m \in T : n <= m
      BY <1>2, <2>1, Least
    <2>3. n \in Nat /\ ~\E merged : AreMerged(merged, events, n)
      BY <1>1, <2>2
    <2>4. CASE n = 0
      <3>1. PICK merged : merged = [k \in 0 .. 0 |-> <<>>]
        OBVIOUS
      <3>2. AreMerged(merged, events, 0)
        BY <3>1 DEF AreMerged
      <3> QED
        BY <2>3, <2>4, <3>2
    <2>5. CASE n # 0
      <3>1. n - 1 \in Nat /\ ~(n <= n - 1)
        BY <2>3, <2>5
      <3>2. PICK merged : AreMerged(merged, events, n - 1)
        BY <1>1, <2>2, <3>1
      <3>3. PICK last : last = Watching!Merge(merged[n - 1], events[n])
        OBVIOUS
      <3>4. PICK longer : longer = [k \in 0 .. n |-> IF k = n THEN last ELSE merged[k]]
        OBVIOUS
      <3>5. \A k \in 0 .. n - 1 : longer[k] = merged[k]
        BY <2>3, <3>4
      <3>6. ASSUME NEW k \in 0 .. n
            PROVE  longer[k] =
                     IF k = 0 THEN <<>> ELSE Watching!Merge(longer[k - 1], events[k])
        <4>1. CASE k = n
          <5>1. longer[k] = last /\ longer[k - 1] = merged[n - 1] /\ k # 0
            BY <2>3, <2>5, <3>4, <3>5, <4>1
          <5> QED
            BY <3>3, <4>1, <5>1
        <4>2. CASE k # n
          <5>1. k \in 0 .. n - 1 /\ longer[k] = merged[k]
            BY <2>3, <3>5, <4>2
          <5>2. merged[k] =
                     IF k = 0 THEN <<>> ELSE Watching!Merge(merged[k - 1], events[k])
            BY <3>2, <5>1 DEF AreMerged
          <5>3. k # 0 => longer[k - 1] = merged[k - 1]
            BY <2>3, <3>5, <5>1
          <5> QED
            BY <5>1, <5>2, <5>3
        <4> QED
          BY <4>1, <4>2
      <3>7. longer = [k \in 0 .. n |-> longer[k]]
        BY <3>4
      <3>8. AreMerged(longer, events, n)
        BY <3>6, <3>7 DEF AreMerged
      <3> QED
        BY <2>3, <3>8
    <2> QED
      BY <2>4, <2>5
  <1> QED
    BY <1>1, <1>2

LEMMA MergedKeeps ==
    ASSUME NEW events \in Events
    PROVE  Kept(Watching!Merged(events), events, Len(events))
  <1>1. Len(events) \in Nat
    BY DEF Events
  <1>2. PICK merged : merged = CHOOSE r : AreMerged(r, events, Len(events))
    OBVIOUS
  <1>3. AreMerged(merged, events, Len(events))
    BY <1>1, <1>2, MergedExist
  <1>4. Watching!Merged(events) = merged[Len(events)]
    BY <1>2 DEF Watching!Merged, AreMerged
  <1>5. PICK T : T = {k \in 0 .. Len(events) : ~Kept(merged[k], events, k)}
    OBVIOUS
  <1>6. ASSUME T # {} PROVE FALSE
    <2>1. T \subseteq Nat
      BY <1>1, <1>5
    <2>2. PICK k \in T : \A m \in T : k <= m
      BY <1>6, <2>1, Least
    <2>3. k \in 0 .. Len(events) /\ ~Kept(merged[k], events, k) /\ k \in Nat
      BY <1>5, <2>1, <2>2
    <2>4. merged[k] = IF k = 0 THEN <<>> ELSE Watching!Merge(merged[k - 1], events[k])
      BY <1>3, <2>3 DEF AreMerged
    <2>5. CASE k = 0
      <3>1. merged[k] = <<>> /\ <<>> \in Events /\ DOMAIN <<>> = {} /\ 1 .. 0 = {}
        BY <2>4, <2>5 DEF Events
      <3> QED
        BY <2>3, <2>5, <3>1 DEF Kept
    <2>6. CASE k # 0
      <3>1. k - 1 \in 0 .. Len(events) /\ ~(k <= k - 1) /\ k \in 1 .. Len(events)
        BY <1>1, <2>3, <2>6
      <3>2. Kept(merged[k - 1], events, k - 1)
        BY <1>5, <2>2, <3>1
      <3>3. merged[k] = Watching!Merge(merged[k - 1], events[k])
        BY <2>4, <2>6
      <3> QED
        BY <2>3, <3>1, <3>2, <3>3, MergeKeeps
    <2> QED
      BY <2>5, <2>6
  <1>7. Len(events) \in 0 .. Len(events)
    BY <1>1
  <1> QED
    BY <1>4, <1>5, <1>6, <1>7

\* The debounce window hides no change.
LEMMA MergedTells ==
    ASSUME NEW events \in Events, NEW path, NEW kind, Watching!Tells(events, path, kind)
    PROVE  Watching!Tells(Watching!Merged(events), path, kind)
  <1>1. PICK kept : kept = Watching!Merged(events)
    OBVIOUS
  <1>2. Kept(kept, events, Len(events))
    BY <1>1, MergedKeeps
  <1>3. PICK n : n = Len(events)
    OBVIOUS
  <1>4. n \in Nat /\ DOMAIN events = 1 .. n
    BY <1>3 DEF Events
  <1>5. PICK i \in 1 .. n : /\ events[i].path = path /\ events[i].kind = kind
                            /\ \A j \in 1 .. n : j > i => events[j].path # path
    BY <1>4 DEF Watching!Tells
  <1>6. PICK k \in DOMAIN kept : kept[k].path = path
    BY <1>2, <1>3, <1>5 DEF Kept
  <1>7. PICK m \in 1 .. n :
           events[m] = kept[k] /\ \A l \in 1 .. n : l > m => events[l].path # kept[k].path
    BY <1>2, <1>3, <1>6 DEF Kept
  <1>8. m = i
    <2>1. ~(m > i) /\ ~(i > m)
      BY <1>5, <1>6, <1>7
    <2> QED
      BY <1>4, <1>5, <1>7, <2>1
  <1>9. \A j \in DOMAIN kept : kept[j].path = path => j = k
    BY <1>2, <1>6 DEF Kept
  <1>10. kept \in Events /\ k \in Nat
    <2>1. kept \in Events
      BY <1>2 DEF Kept
    <2>2. DOMAIN kept = 1 .. Len(kept)
      BY <2>1 DEF Events
    <2> QED
      BY <1>6, <2>1, <2>2
  <1>11. \A j \in DOMAIN kept : j > k => kept[j].path # path
    BY <1>9, <1>10
  <1> QED
    BY <1>1, <1>5, <1>6, <1>7, <1>8, <1>11 DEF Watching!Tells

\* Events tell every change that no drain has told.
Told(unseen, events) ==
    \A p \in DOMAIN unseen : Watching!Tells(events, p, unseen[p])

WatchTypes ==
    /\ DOMAIN watch_pc = Threads /\ DOMAIN watch_on = Threads
    /\ watch_watches \subseteq Watches
    /\ watch_kernel \in [Watches -> Events] /\ watch_queue \in [Watches -> Events]
    /\ watch_armed \in [Watches -> BOOLEAN] /\ watch_overflowed \in [Watches -> BOOLEAN]
    /\ DOMAIN watch_worker = Watches /\ DOMAIN watch_ready = Watches
    /\ DOMAIN watch_unseen = Watches

\* Who adds or removes a watch holds the lock; the watch is not one yet, or no
\* more.
WatchCalls ==
    /\ \A t \in Threads : watch_pc[t] \in {"adding", "removing"} =>
          t = watch_holder /\ watch_windows /\ watch_on[t] \notin watch_watches
    /\ \A t \in Threads : watch_pc[t] = "adding" => watch_on[t] \notin watch_added
    /\ \A t \in Threads : watch_pc[t] = "removing" => watch_on[t] \in watch_added
    /\ watch_watches \subseteq watch_added

\* The kernel notes what happens to a watch, or it is known that it does not.
WatchArmed ==
    /\ \A h \in Watches : h \in watch_watches \/ h \notin watch_added =>
          (watch_ready[h] = "armed" => watch_armed[h] \/ watch_overflowed[h])
    /\ watch_windows => \A h \in watch_watches : watch_ready[h] = "armed"
    /\ ~watch_windows => \A h \in watch_watches : watch_armed[h]
    /\ ~watch_windows => \A h \in Watches : watch_worker[h] = "none" /\ watch_queue[h] = <<>>

WatchSeen ==
    /\ \A h \in Watches \ watch_watches : DOMAIN watch_unseen[h] = {}
    /\ \A h \in watch_watches :
          watch_overflowed[h] \/ Told(watch_unseen[h], watch_queue[h] \o watch_kernel[h])

WatchInv == WatchTypes /\ WatchCalls /\ WatchArmed /\ WatchSeen

LEMMA WatchInit == ASSUME Watching!Init PROVE WatchInv
  <1>1. <<>> \in Events /\ DOMAIN Watching!NoChange = {}
    BY DEF Events, Watching!NoChange
  <1> QED
    BY <1>1 DEF Watching!Init, WatchInv, WatchTypes, WatchCalls, WatchArmed, WatchSeen

\* What the waiting threads and the lock do not change.
Noted == <<watch_windows, watch_watches, watch_added, watch_kernel, watch_armed,
           watch_overflowed, watch_worker, watch_ready, watch_queue, watch_unseen>>

LEMMA NotedKeeps ==
    ASSUME WatchInv, UNCHANGED Noted, WatchCalls',
           DOMAIN watch_pc' = Threads, DOMAIN watch_on' = Threads
    PROVE  WatchInv'
  <1>1. WatchTypes'
    BY DEF WatchInv, WatchTypes, Noted
  <1>2. WatchArmed'
    BY DEF WatchInv, WatchArmed, Noted
  <1>3. WatchSeen'
    BY DEF WatchInv, WatchSeen, Noted
  <1> QED
    BY <1>1, <1>2, <1>3 DEF WatchInv

LEMMA LockKeeps ==
    ASSUME WatchInv, NEW t \in Threads,
           \/ Watching!Yield(t) \/ Watching!Acquire(t) \/ Watching!wait_blocks(t)
           \/ \E timed_out \in BOOLEAN : Watching!wait_returns(t, timed_out)
           \/ \E h \in Watches : \/ Watching!wait_starts(t, h)
                                 \/ \E on_off \in BOOLEAN : Watching!set_debounce(t, h, on_off)
    PROVE  WatchInv'
  <1>1. UNCHANGED Noted
    BY DEF Watching!Yield, Watching!Acquire, Watching!wait_blocks, Watching!wait_returns,
           Watching!wait_starts, Watching!set_debounce, Watching!own, Noted
  <1>2. None \notin Threads
    BY NativeAssumption DEF Watching!WatchAssumption
  <1>3. DOMAIN watch_pc = Threads /\ DOMAIN watch_on = Threads
    BY DEF WatchInv, WatchTypes
  <1>4. /\ watch_pc[t] \notin {"adding", "removing"}
        /\ watch_pc'[t] \notin {"adding", "removing"}
        /\ \A u \in Threads \ {t} : watch_pc'[u] = watch_pc[u] /\ watch_on'[u] = watch_on[u]
        /\ DOMAIN watch_pc' = Threads /\ DOMAIN watch_on' = Threads
        /\ watch_holder' = watch_holder \/ watch_holder \in {t, None}
    BY <1>3 DEF Watching!Yield, Watching!Acquire, Watching!wait_blocks, Watching!wait_returns,
           Watching!wait_starts, Watching!set_debounce, Watching!Goto, Watching!Code
  <1>5. ASSUME NEW u \in Threads, watch_pc'[u] \in {"adding", "removing"}
        PROVE  u # t /\ watch_pc[u] \in {"adding", "removing"} /\ watch_holder' = watch_holder
    <2>1. u # t /\ watch_pc[u] \in {"adding", "removing"}
      BY <1>4, <1>5
    <2>2. u = watch_holder
      BY <2>1 DEF WatchInv, WatchCalls
    <2> QED
      BY <1>2, <1>4, <2>1, <2>2
  <1>6. WatchCalls'
    BY <1>1, <1>4, <1>5 DEF WatchInv, WatchCalls, Noted
  <1> QED
    BY <1>1, <1>4, <1>6, NotedKeeps

\* The kernel notes a change of every watch that is armed, or drops.
LEMMA ChangeKeeps ==
    ASSUME WatchInv, NEW e \in Watching!Event, Watching!Change(e)
    PROVE  WatchInv'
  <1>1. PICK full \in SUBSET {h \in Watches : watch_armed[h]} :
          /\ watch_kernel' = [h \in Watches |->
               CASE h \in full -> <<>>
                 [] watch_armed[h] /\ h \notin full -> Append(watch_kernel[h], e)
                 [] OTHER -> watch_kernel[h]]
          /\ watch_overflowed' = [h \in Watches |-> watch_overflowed[h] \/ h \in full]
    BY DEF Watching!Change
  <1>2. /\ UNCHANGED <<watch_windows, watch_holder, watch_pc, watch_on, watch_watches,
                       watch_added, watch_armed, watch_worker, watch_ready, watch_queue>>
        /\ watch_unseen' = [h \in Watches |->
             IF h \in watch_watches
             THEN [p \in DOMAIN watch_unseen[h] \cup {e.path} |->
                     IF p = e.path THEN e.kind ELSE watch_unseen[h][p]]
             ELSE watch_unseen[h]]
    BY DEF Watching!Change
  <1>3. WatchTypes
    BY DEF WatchInv
  <1>4. ASSUME NEW h \in Watches
        PROVE  watch_kernel'[h] \in Events /\ watch_overflowed'[h] \in BOOLEAN
    <2>1. watch_kernel[h] \in Events /\ <<>> \in Events /\ Append(watch_kernel[h], e) \in Events
      BY <1>3 DEF WatchTypes, Events
    <2>2. watch_kernel'[h] \in {<<>>, Append(watch_kernel[h], e), watch_kernel[h]}
      BY <1>1
    <2> QED
      BY <1>1, <2>1, <2>2
  <1>5. /\ watch_kernel' \in [Watches -> Events]
        /\ watch_overflowed' \in [Watches -> BOOLEAN]
    <2>1. watch_kernel' = [h \in Watches |-> watch_kernel'[h]]
          /\ watch_overflowed' = [h \in Watches |-> watch_overflowed'[h]]
      BY <1>1
    <2> QED
      BY <1>4, <2>1
  <1>6. WatchTypes'
    BY <1>2, <1>3, <1>5 DEF WatchTypes
  <1>7. WatchCalls'
    BY <1>2 DEF WatchInv, WatchCalls
  <1>8. \A h \in Watches : watch_overflowed[h] => watch_overflowed'[h]
    BY <1>1
  <1>9. WatchArmed'
    BY <1>2, <1>8 DEF WatchInv, WatchArmed
  <1>10. ASSUME NEW h \in Watches \ watch_watches PROVE DOMAIN watch_unseen'[h] = {}
    BY <1>2 DEF WatchInv, WatchSeen
  <1>11. ASSUME NEW h \in watch_watches, ~watch_overflowed'[h]
         PROVE  Told(watch_unseen'[h], watch_queue'[h] \o watch_kernel'[h])
    <2>1. h \in Watches /\ ~watch_overflowed[h] /\ h \notin full
      BY <1>1, <1>3, <1>11 DEF WatchTypes
    <2>2. watch_armed[h]
      BY <1>11, <2>1 DEF WatchInv, WatchArmed
    <2>3. watch_kernel'[h] = Append(watch_kernel[h], e)
      BY <1>1, <2>1, <2>2
    <2>4. PICK coming : coming = watch_queue[h] \o watch_kernel[h]
      OBVIOUS
    <2>5. watch_queue[h] \in Events /\ watch_kernel[h] \in Events
      BY <1>3, <2>1 DEF WatchTypes
    <2>6. coming \in Events
      BY <2>4, <2>5 DEF Events
    <2>7. watch_queue'[h] \o watch_kernel'[h] = Append(coming, e)
      <3>1. PICK q : q = watch_queue[h]
        OBVIOUS
      <3>2. PICK k : k = watch_kernel[h]
        OBVIOUS
      <3>3. q \in Seq(Watching!Event) /\ k \in Seq(Watching!Event) /\ <<e>> \in Seq(Watching!Event)
        BY <2>5, <3>1, <3>2 DEF Events
      <3>4. (q \o k) \o <<e>> = q \o (k \o <<e>>)
        <4>1. Joins(q, k, <<e>>)
          BY <3>3, SeqJoins
        <4> QED
          BY <4>1 DEF Joins
      <3>5. k \o <<e>> = Append(k, e)
        BY <3>3
      <3>6. coming \o <<e>> = Append(coming, e)
        BY <2>6 DEF Events
      <3> QED
        BY <1>2, <2>3, <2>4, <3>1, <3>2, <3>4, <3>5, <3>6
    <2>8. Told(watch_unseen[h], coming)
      BY <1>11, <2>1, <2>4 DEF WatchInv, WatchSeen
    <2>9. PICK u : u = watch_unseen'[h]
      OBVIOUS
    <2>10. u = [p \in DOMAIN watch_unseen[h] \cup {e.path} |->
                     IF p = e.path THEN e.kind ELSE watch_unseen[h][p]]
      BY <1>2, <1>11, <2>1, <2>9
    <2>11. ASSUME NEW p \in DOMAIN u PROVE Watching!Tells(Append(coming, e), p, u[p])
      <3>1. CASE p = e.path
        BY <2>6, <2>10, <3>1, TellsAppended
      <3>2. CASE p # e.path
        <4>1. p \in DOMAIN watch_unseen[h] /\ u[p] = watch_unseen[h][p]
          BY <2>10, <2>11, <3>2
        <4>2. Watching!Tells(coming, p, u[p])
          BY <2>8, <4>1 DEF Told
        <4> QED
          BY <2>6, <3>2, <4>2, TellsAppended
      <3> QED
        BY <3>1, <3>2
    <2> QED
      BY <2>7, <2>9, <2>11 DEF Told
  <1>12. WatchSeen'
    BY <1>2, <1>10, <1>11 DEF WatchSeen
  <1> QED
    BY <1>6, <1>7, <1>9, <1>12 DEF WatchInv

LEMMA WorkerKeeps ==
    ASSUME WatchInv, NEW h \in Watches,
           Watching!WorkerChecks(h) \/ Watching!WorkerReads(h) \/ Watching!WorkerWakes(h)
    PROVE  WatchInv'
  <1>1. /\ UNCHANGED <<watch_windows, watch_holder, watch_pc, watch_on, watch_watches,
                       watch_added, watch_unseen>>
        /\ watch_worker[h] # "none"
    BY DEF Watching!WorkerChecks, Watching!WorkerReads, Watching!WorkerWakes
  <1>2. WatchTypes
    BY DEF WatchInv
  <1>3. watch_windows
    BY <1>1 DEF WatchInv, WatchArmed
  <1>4. WatchCalls'
    BY <1>1 DEF WatchInv, WatchCalls
  <1>5. CASE Watching!WorkerChecks(h)
    <2>1. /\ UNCHANGED <<watch_kernel, watch_armed, watch_overflowed, watch_ready, watch_queue>>
          /\ DOMAIN watch_worker' = Watches
      BY <1>2, <1>5 DEF Watching!WorkerChecks, WatchTypes
    <2>2. WatchTypes'
      BY <1>1, <1>2, <2>1 DEF WatchTypes
    <2>3. WatchArmed'
      BY <1>1, <1>3, <2>1 DEF WatchInv, WatchArmed
    <2>4. WatchSeen'
      BY <1>1, <2>1 DEF WatchInv, WatchSeen
    <2> QED
      BY <1>4, <2>2, <2>3, <2>4 DEF WatchInv
  <1>6. CASE Watching!WorkerReads(h)
    <2>1. PICK started \in BOOLEAN :
            /\ watch_worker' = [watch_worker EXCEPT ![h] = IF started THEN "wait" ELSE "done"]
            /\ watch_armed' = [watch_armed EXCEPT ![h] = started]
            /\ watch_ready' = [watch_ready EXCEPT ![h] =
                  IF @ # "unknown" THEN @ ELSE IF started THEN "armed" ELSE "failed"]
            /\ watch_overflowed' = [watch_overflowed EXCEPT ![h] = @ \/ ~started]
      BY <1>6 DEF Watching!WorkerReads
    <2>2. UNCHANGED <<watch_kernel, watch_queue>>
      BY <1>6 DEF Watching!WorkerReads
    <2>3. /\ watch_armed' \in [Watches -> BOOLEAN]
          /\ watch_overflowed' \in [Watches -> BOOLEAN]
          /\ DOMAIN watch_worker' = Watches /\ DOMAIN watch_ready' = Watches
      BY <1>2, <2>1 DEF WatchTypes
    <2>4. WatchTypes'
      BY <1>1, <1>2, <2>2, <2>3 DEF WatchTypes
    <2>5. /\ watch_armed'[h] \/ watch_overflowed'[h]
          /\ watch_ready[h] = "armed" => watch_ready'[h] = "armed"
          /\ \A g \in Watches : watch_overflowed[g] => watch_overflowed'[g]
          /\ \A g \in Watches \ {h} : /\ watch_armed'[g] = watch_armed[g]
                                      /\ watch_overflowed'[g] = watch_overflowed[g]
                                      /\ watch_ready'[g] = watch_ready[g]
      BY <1>2, <2>1 DEF WatchTypes
    <2>6. watch_watches \subseteq Watches
      BY <1>2 DEF WatchTypes
    <2>7. WatchArmed'
      BY <1>1, <1>3, <2>5, <2>6 DEF WatchInv, WatchArmed
    <2>8. WatchSeen'
      BY <1>1, <2>2, <2>5, <2>6 DEF WatchInv, WatchSeen
    <2> QED
      BY <1>4, <2>4, <2>7, <2>8 DEF WatchInv
  <1>7. CASE Watching!WorkerWakes(h)
    <2>1. /\ watch_queue' = [watch_queue EXCEPT ![h] = @ \o watch_kernel[h]]
          /\ watch_kernel' = [watch_kernel EXCEPT ![h] = <<>>]
          /\ UNCHANGED <<watch_armed, watch_overflowed, watch_ready>>
          /\ DOMAIN watch_worker' = Watches
      BY <1>2, <1>7 DEF Watching!WorkerWakes, WatchTypes
    <2>2. PICK q : q = watch_queue[h] \o watch_kernel[h]
      OBVIOUS
    <2>3. q \in Events /\ <<>> \in Events
      <3>1. watch_queue[h] \in Events /\ watch_kernel[h] \in Events
        BY <1>2 DEF WatchTypes
      <3> QED
        BY <2>2, <3>1 DEF Events
    <2>4. watch_queue' = [watch_queue EXCEPT ![h] = q]
      BY <2>1, <2>2
    <2>5. watch_queue' \in [Watches -> Events] /\ watch_kernel' \in [Watches -> Events]
      <3>1. watch_queue \in [Watches -> Events] /\ watch_kernel \in [Watches -> Events]
        BY <1>2 DEF WatchTypes
      <3>2. watch_kernel' = [watch_kernel EXCEPT ![h] = <<>>]
        BY <2>1
      <3>3. watch_queue' \in [Watches -> Events]
        BY <2>3, <2>4, <3>1
      <3>4. watch_kernel' \in [Watches -> Events]
        BY <2>3, <3>1, <3>2
      <3> QED
        BY <3>3, <3>4
    <2>6. WatchTypes'
      BY <1>1, <1>2, <2>1, <2>5 DEF WatchTypes
    <2>7. WatchArmed'
      BY <1>1, <1>3, <2>1 DEF WatchInv, WatchArmed
    <2>8. \A g \in Watches : watch_queue'[g] \o watch_kernel'[g] = watch_queue[g] \o watch_kernel[g]
      <3>1. q \o <<>> = q
        BY <2>3, ConcatEmptySeq DEF Events
      <3>2. /\ watch_queue'[h] = q /\ watch_kernel'[h] = <<>>
            /\ \A g \in Watches \ {h} : /\ watch_queue'[g] = watch_queue[g]
                                        /\ watch_kernel'[g] = watch_kernel[g]
        BY <1>2, <2>1, <2>4 DEF WatchTypes
      <3> QED
        BY <2>2, <3>1, <3>2
    <2>9. watch_watches \subseteq Watches
      BY <1>2 DEF WatchTypes
    <2>10. WatchSeen'
      BY <1>1, <2>1, <2>8, <2>9 DEF WatchInv, WatchSeen
    <2> QED
      BY <1>4, <2>6, <2>7, <2>10 DEF WatchInv
  <1> QED
    BY <1>5, <1>6, <1>7

\* No thread but the one that runs code adds or removes.
LEMMA OnlyTheHolder ==
    ASSUME WatchInv, NEW t \in Threads, Watching!Code(t)
    PROVE  \A u \in Threads : watch_pc[u] \notin {"adding", "removing"}
  BY DEF WatchInv, WatchCalls, Watching!Code

LEMMA AddKeeps ==
    ASSUME WatchInv, NEW t \in Threads, NEW h \in Watches,
           \/ Watching!add_inotify(t, h) \/ Watching!add_starts(t, h)
           \/ Watching!add_returns(t, h) \/ Watching!add_fails(t, h)
    PROVE  WatchInv'
  <1>1. WatchTypes /\ watch_watches \subseteq watch_added
    BY DEF WatchInv, WatchCalls
  <1>2. CASE Watching!add_inotify(t, h)
    <2>1. /\ Watching!Code(t) /\ ~watch_windows /\ h \notin watch_added
          /\ watch_armed' = [watch_armed EXCEPT ![h] = TRUE]
          /\ watch_watches' = watch_watches \cup {h} /\ watch_added' = watch_added \cup {h}
          /\ UNCHANGED <<watch_windows, watch_holder, watch_pc, watch_on, watch_kernel,
                         watch_overflowed, watch_worker, watch_ready, watch_queue, watch_unseen>>
      BY <1>2 DEF Watching!add_inotify, Watching!NewHandle, Watching!own
    <2>2. WatchTypes'
      BY <1>1, <2>1 DEF WatchTypes
    <2>3. WatchCalls'
      BY <1>1, <2>1, OnlyTheHolder DEF WatchCalls
    <2>4. watch_armed'[h] /\ \A g \in Watches \ {h} : watch_armed'[g] = watch_armed[g]
      BY <1>1, <2>1 DEF WatchTypes
    <2>5. WatchArmed'
      BY <1>1, <2>1, <2>4 DEF WatchInv, WatchArmed, WatchTypes
    <2>6. DOMAIN watch_unseen[h] = {}
      BY <1>1, <2>1 DEF WatchInv, WatchSeen
    <2>7. WatchSeen'
      BY <2>1, <2>6 DEF WatchInv, WatchSeen, Told
    <2> QED
      BY <2>2, <2>3, <2>5, <2>7 DEF WatchInv
  <1>3. CASE Watching!add_starts(t, h)
    <2>1. /\ Watching!Code(t) /\ watch_windows /\ h \notin watch_added
          /\ watch_worker' = [watch_worker EXCEPT ![h] = "check"]
          /\ watch_on' = [watch_on EXCEPT ![t] = h]
          /\ watch_pc' = [watch_pc EXCEPT ![t] = "adding"]
          /\ UNCHANGED <<watch_windows, watch_holder, watch_watches, watch_added, watch_kernel,
                         watch_armed, watch_overflowed, watch_ready, watch_queue, watch_unseen>>
      BY <1>3 DEF Watching!add_starts, Watching!NewHandle, Watching!Goto
    <2>2. WatchTypes'
      BY <1>1, <2>1 DEF WatchTypes
    <2>3. /\ watch_pc'[t] = "adding" /\ watch_on'[t] = h /\ watch_holder = t
          /\ \A u \in Threads \ {t} : watch_pc'[u] = watch_pc[u]
      BY <1>1, <2>1 DEF WatchTypes, Watching!Code
    <2>4. \A u \in Threads : watch_pc'[u] \in {"adding", "removing"} => u = t
      BY <2>1, <2>3, OnlyTheHolder
    <2>5. WatchCalls'
      BY <1>1, <2>1, <2>3, <2>4 DEF WatchCalls
    <2>6. WatchArmed'
      BY <2>1 DEF WatchInv, WatchArmed
    <2>7. WatchSeen'
      BY <2>1 DEF WatchInv, WatchSeen
    <2> QED
      BY <2>2, <2>5, <2>6, <2>7 DEF WatchInv
  <1>4. ASSUME watch_pc[t] = "adding", watch_on[t] = h,
               watch_on' = [watch_on EXCEPT ![t] = 0],
               watch_pc' = [watch_pc EXCEPT ![t] = "code"], UNCHANGED watch_holder
        PROVE  /\ watch_windows /\ h \notin watch_added
               /\ \A u \in Threads : watch_pc'[u] \notin {"adding", "removing"}
               /\ DOMAIN watch_pc' = Threads /\ DOMAIN watch_on' = Threads
    <2>1. t = watch_holder /\ watch_windows /\ h \notin watch_added
      BY <1>4 DEF WatchInv, WatchCalls
    <2>2. \A u \in Threads \ {t} : watch_pc[u] \notin {"adding", "removing"}
      BY <2>1 DEF WatchInv, WatchCalls
    <2>3. watch_pc'[t] = "code" /\ \A u \in Threads \ {t} : watch_pc'[u] = watch_pc[u]
      BY <1>1, <1>4 DEF WatchTypes
    <2> QED
      BY <1>1, <1>4, <2>1, <2>2, <2>3 DEF WatchTypes
  <1>5. CASE Watching!add_returns(t, h)
    <2>1. /\ watch_pc[t] = "adding" /\ watch_on[t] = h /\ watch_ready[h] = "armed"
          /\ watch_watches' = watch_watches \cup {h} /\ watch_added' = watch_added \cup {h}
          /\ watch_on' = [watch_on EXCEPT ![t] = 0]
          /\ watch_pc' = [watch_pc EXCEPT ![t] = "code"]
          /\ UNCHANGED <<watch_windows, watch_holder, watch_kernel, watch_armed,
                         watch_overflowed, watch_worker, watch_ready, watch_queue, watch_unseen>>
      BY <1>5 DEF Watching!add_returns, Watching!Answered, Watching!Goto, Watching!own
    <2>2. /\ watch_windows /\ h \notin watch_added
          /\ \A u \in Threads : watch_pc'[u] \notin {"adding", "removing"}
          /\ DOMAIN watch_pc' = Threads /\ DOMAIN watch_on' = Threads
      BY <1>4, <2>1
    <2>3. WatchTypes'
      BY <1>1, <2>1, <2>2 DEF WatchTypes
    <2>4. WatchCalls'
      BY <1>1, <2>1, <2>2 DEF WatchCalls
    <2>5. WatchArmed'
      BY <2>1, <2>2 DEF WatchInv, WatchArmed
    <2>6. DOMAIN watch_unseen[h] = {}
      BY <1>1, <2>2 DEF WatchInv, WatchSeen
    <2>7. WatchSeen'
      BY <2>1, <2>6 DEF WatchInv, WatchSeen, Told
    <2> QED
      BY <2>3, <2>4, <2>5, <2>7 DEF WatchInv
  <1>6. CASE Watching!add_fails(t, h)
    <2>1. /\ watch_pc[t] = "adding" /\ watch_on[t] = h
          /\ watch_on' = [watch_on EXCEPT ![t] = 0]
          /\ watch_pc' = [watch_pc EXCEPT ![t] = "code"]
          /\ watch_worker' = [watch_worker EXCEPT ![h] = "none"]
          /\ watch_ready' = [watch_ready EXCEPT ![h] = "unknown"]
          /\ watch_overflowed' = [watch_overflowed EXCEPT ![h] = FALSE]
          /\ UNCHANGED <<watch_windows, watch_holder, watch_watches, watch_added, watch_kernel,
                         watch_armed, watch_queue, watch_unseen>>
      BY <1>6 DEF Watching!add_fails, Watching!Goto
    <2>2. /\ watch_windows /\ h \notin watch_added
          /\ \A u \in Threads : watch_pc'[u] \notin {"adding", "removing"}
          /\ DOMAIN watch_pc' = Threads /\ DOMAIN watch_on' = Threads
      BY <1>4, <2>1
    <2>3. WatchTypes'
      BY <1>1, <2>1, <2>2 DEF WatchTypes
    <2>4. WatchCalls'
      BY <1>1, <2>1, <2>2 DEF WatchCalls
    <2>5. /\ watch_ready'[h] = "unknown" /\ h \notin watch_watches
          /\ watch_watches \subseteq Watches
          /\ \A g \in Watches \ {h} : /\ watch_ready'[g] = watch_ready[g]
                                      /\ watch_overflowed'[g] = watch_overflowed[g]
      BY <1>1, <2>1, <2>2 DEF WatchTypes
    <2>6. WatchArmed'
      BY <2>1, <2>2, <2>5 DEF WatchInv, WatchArmed
    <2>7. WatchSeen'
      BY <2>1, <2>5 DEF WatchInv, WatchSeen
    <2> QED
      BY <2>3, <2>4, <2>6, <2>7 DEF WatchInv
  <1> QED
    BY <1>2, <1>3, <1>5, <1>6

LEMMA RemoveKeeps ==
    ASSUME WatchInv, NEW t \in Threads, NEW h \in Watches,
           \/ Watching!remove_inotify(t, h) \/ Watching!remove_starts(t, h)
           \/ Watching!remove_returns(t, h)
    PROVE  WatchInv'
  <1>1. WatchTypes /\ watch_watches \subseteq watch_added /\ <<>> \in Events
        /\ DOMAIN Watching!NoChange = {}
    BY DEF WatchInv, WatchCalls, Events, Watching!NoChange
  <1>2. CASE Watching!remove_inotify(t, h)
    <2>1. /\ Watching!Code(t) /\ ~watch_windows /\ h \in watch_watches
          /\ watch_watches' = watch_watches \ {h}
          /\ watch_armed' = [watch_armed EXCEPT ![h] = FALSE]
          /\ watch_kernel' = [watch_kernel EXCEPT ![h] = <<>>]
          /\ watch_unseen' = [watch_unseen EXCEPT ![h] = Watching!NoChange]
          /\ UNCHANGED <<watch_windows, watch_holder, watch_pc, watch_on, watch_added,
                         watch_overflowed, watch_worker, watch_ready, watch_queue>>
      BY <1>2 DEF Watching!remove_inotify, Watching!own
    <2>2. WatchTypes'
      BY <1>1, <2>1 DEF WatchTypes
    <2>3. WatchCalls'
      BY <1>1, <2>1, OnlyTheHolder DEF WatchCalls
    <2>4. /\ DOMAIN watch_unseen'[h] = {}
          /\ \A g \in Watches \ {h} : /\ watch_armed'[g] = watch_armed[g]
                                      /\ watch_kernel'[g] = watch_kernel[g]
                                      /\ watch_unseen'[g] = watch_unseen[g]
      BY <1>1, <2>1 DEF WatchTypes
    <2>5. h \in watch_added /\ h \notin watch_watches' /\ watch_watches' \subseteq Watches \ {h}
      BY <1>1, <2>1 DEF WatchTypes
    <2>6. WatchArmed'
      BY <2>1, <2>4, <2>5 DEF WatchInv, WatchArmed
    <2>7. WatchSeen'
      BY <2>1, <2>4, <2>5 DEF WatchInv, WatchSeen
    <2> QED
      BY <2>2, <2>3, <2>6, <2>7 DEF WatchInv
  <1>3. CASE Watching!remove_starts(t, h)
    <2>1. /\ Watching!Code(t) /\ watch_windows /\ h \in watch_watches
          /\ watch_watches' = watch_watches \ {h}
          /\ watch_unseen' = [watch_unseen EXCEPT ![h] = Watching!NoChange]
          /\ watch_pc' = [u \in Threads |->
                CASE u = t -> "removing"
                  [] watch_pc[u] = "waiting" /\ watch_on[u] = h -> "waited"
                  [] OTHER -> watch_pc[u]]
          /\ watch_on' = [u \in Threads |->
                CASE u = t -> h
                  [] watch_pc[u] = "waiting" /\ watch_on[u] = h -> 0
                  [] OTHER -> watch_on[u]]
          /\ UNCHANGED <<watch_windows, watch_holder, watch_added, watch_kernel, watch_armed,
                         watch_overflowed, watch_worker, watch_ready, watch_queue>>
      BY <1>3 DEF Watching!remove_starts
    <2>2. WatchTypes'
      BY <1>1, <2>1 DEF WatchTypes
    <2>3. watch_holder = t /\ watch_pc[t] = "code"
      BY <2>1 DEF Watching!Code
    <2>4. watch_pc'[t] = "removing" /\ watch_on'[t] = h
      BY <2>1, <2>3
    <2>5. \A u \in Threads \ {t} : watch_pc'[u] \in {"waited", watch_pc[u]}
      BY <2>1
    <2>6. \A u \in Threads \ {t} : watch_pc'[u] \notin {"adding", "removing"}
      BY <2>1, <2>5, OnlyTheHolder
    <2>7. WatchCalls'
      BY <1>1, <2>1, <2>3, <2>4, <2>6 DEF WatchCalls
    <2>8. /\ DOMAIN watch_unseen'[h] = {}
          /\ \A g \in Watches \ {h} : watch_unseen'[g] = watch_unseen[g]
      BY <1>1, <2>1 DEF WatchTypes
    <2>9. h \in watch_added /\ h \notin watch_watches' /\ watch_watches' \subseteq Watches \ {h}
      BY <1>1, <2>1 DEF WatchTypes
    <2>10. WatchArmed'
      BY <2>1, <2>9 DEF WatchInv, WatchArmed
    <2>11. WatchSeen'
      BY <2>1, <2>8, <2>9 DEF WatchInv, WatchSeen
    <2> QED
      BY <2>2, <2>7, <2>10, <2>11 DEF WatchInv
  <1>4. CASE Watching!remove_returns(t, h)
    <2>1. /\ watch_pc[t] = "removing" /\ watch_on[t] = h
          /\ watch_armed' = [watch_armed EXCEPT ![h] = FALSE]
          /\ watch_kernel' = [watch_kernel EXCEPT ![h] = <<>>]
          /\ watch_on' = [watch_on EXCEPT ![t] = 0]
          /\ watch_pc' = [watch_pc EXCEPT ![t] = "code"]
          /\ UNCHANGED <<watch_windows, watch_holder, watch_watches, watch_added,
                         watch_overflowed, watch_worker, watch_ready, watch_queue, watch_unseen>>
      BY <1>4 DEF Watching!remove_returns, Watching!Goto, Watching!own
    <2>2. t = watch_holder /\ watch_windows /\ h \notin watch_watches /\ h \in watch_added
      BY <2>1 DEF WatchInv, WatchCalls
    <2>3. \A u \in Threads \ {t} : watch_pc[u] \notin {"adding", "removing"}
      BY <2>2 DEF WatchInv, WatchCalls
    <2>4. watch_pc'[t] = "code" /\ \A u \in Threads \ {t} : watch_pc'[u] = watch_pc[u]
      BY <1>1, <2>1 DEF WatchTypes
    <2>5. WatchTypes'
      BY <1>1, <2>1 DEF WatchTypes
    <2>6. WatchCalls'
      BY <1>1, <2>1, <2>3, <2>4 DEF WatchCalls
    <2>7. /\ watch_watches \subseteq Watches \ {h}
          /\ \A g \in Watches \ {h} : /\ watch_armed'[g] = watch_armed[g]
                                      /\ watch_kernel'[g] = watch_kernel[g]
      BY <1>1, <2>1, <2>2 DEF WatchTypes
    <2>8. WatchArmed'
      BY <2>1, <2>2, <2>7 DEF WatchInv, WatchArmed
    <2>9. WatchSeen'
      BY <2>1, <2>7 DEF WatchInv, WatchSeen
    <2> QED
      BY <2>5, <2>6, <2>8, <2>9 DEF WatchInv
  <1> QED
    BY <1>2, <1>3, <1>4

\* A drain tells, merged or not, what it takes.
LEMMA DrainKeeps ==
    ASSUME WatchInv, NEW t \in Threads, NEW h \in Watches, Watching!drain(t, h)
    PROVE  WatchInv'
  <1>1. WatchTypes /\ <<>> \in Events /\ h \in watch_watches
    BY DEF WatchInv, Events, Watching!drain
  <1>2. PICK events : events = IF watch_windows THEN watch_queue[h] ELSE watch_kernel[h]
    OBVIOUS
  <1>3. PICK answer : answer = IF watch_debounce[h] THEN Watching!Merged(events) ELSE events
    OBVIOUS
  <1>4. PICK told : told = {p \in DOMAIN watch_unseen[h] :
                               Watching!Tells(answer, p, watch_unseen[h][p])}
    OBVIOUS
  <1>5. /\ watch_unseen' = [watch_unseen EXCEPT ![h] = [p \in DOMAIN @ \ told |-> @[p]]]
        /\ IF watch_windows THEN watch_queue' = [watch_queue EXCEPT ![h] = <<>>]
                                 /\ UNCHANGED watch_kernel
           ELSE watch_kernel' = [watch_kernel EXCEPT ![h] = <<>>] /\ UNCHANGED watch_queue
        /\ UNCHANGED <<watch_windows, watch_holder, watch_pc, watch_on, watch_watches,
                       watch_added, watch_armed, watch_overflowed, watch_worker, watch_ready>>
    BY <1>2, <1>3, <1>4 DEF Watching!drain
  <1>6. WatchTypes'
    BY <1>1, <1>5 DEF WatchTypes
  <1>7. WatchCalls'
    BY <1>5 DEF WatchInv, WatchCalls
  <1>8. /\ \A g \in Watches \ {h} : /\ watch_queue'[g] = watch_queue[g]
                                    /\ watch_kernel'[g] = watch_kernel[g]
                                    /\ watch_unseen'[g] = watch_unseen[g]
        /\ watch_queue'[h] = (IF watch_windows THEN <<>> ELSE watch_queue[h])
        /\ watch_kernel'[h] = (IF watch_windows THEN watch_kernel[h] ELSE <<>>)
    BY <1>1, <1>5 DEF WatchTypes
  <1>9. WatchArmed'
    BY <1>5, <1>8 DEF WatchInv, WatchArmed
  <1>10. PICK left : left = watch_unseen'[h]
    OBVIOUS
  <1>11. left = [p \in DOMAIN watch_unseen[h] \ told |-> watch_unseen[h][p]]
    BY <1>1, <1>5, <1>10 DEF WatchTypes
  <1>12. ASSUME ~watch_overflowed[h], NEW p \in DOMAIN left
         PROVE  Watching!Tells(watch_queue'[h] \o watch_kernel'[h], p, left[p])
    <2>1. PICK kind : kind = left[p]
      OBVIOUS
    <2>2. p \in DOMAIN watch_unseen[h] /\ kind = watch_unseen[h][p]
          /\ ~Watching!Tells(answer, p, kind)
      BY <1>4, <1>11, <1>12, <2>1
    <2>3. PICK q : q = watch_queue[h]
      OBVIOUS
    <2>4. PICK k : k = watch_kernel[h]
      OBVIOUS
    <2>5. q \in Events /\ k \in Events
      BY <1>1, <2>3, <2>4 DEF WatchTypes
    <2>6. Watching!Tells(q \o k, p, kind)
      BY <1>1, <1>12, <2>2, <2>3, <2>4 DEF WatchInv, WatchSeen, Told
    <2>7. Watching!Tells(q, p, kind) \/ Watching!Tells(k, p, kind)
      BY <2>5, <2>6, TellsConcatenated
    <2>8. events \in Events
      BY <1>2, <2>3, <2>4, <2>5
    <2>9. ~Watching!Tells(events, p, kind)
      BY <1>3, <2>2, <2>8, MergedTells
    <2>10. CASE watch_windows
      <3>1. Watching!Tells(k, p, kind)
        BY <1>2, <2>3, <2>7, <2>9, <2>10
      <3>2. watch_queue'[h] \o watch_kernel'[h] = k
        <4>1. <<>> \o k = k
          BY <2>5, ConcatEmptySeq DEF Events
        <4> QED
          BY <1>8, <2>4, <2>10, <4>1
      <3> QED
        BY <2>1, <3>1, <3>2
    <2>11. CASE ~watch_windows
      <3>1. q = <<>>
        BY <2>3, <2>11 DEF WatchInv, WatchArmed
      <3>2. q \o k = k
        BY <2>5, <3>1, ConcatEmptySeq DEF Events
      <3> QED
        BY <1>2, <2>4, <2>6, <2>9, <2>11, <3>2
    <2> QED
      BY <2>10, <2>11
  <1>13. watch_overflowed[h] \/ Told(watch_unseen'[h], watch_queue'[h] \o watch_kernel'[h])
    BY <1>10, <1>12 DEF Told
  <1>14. watch_watches \subseteq Watches
    BY <1>1 DEF WatchTypes
  <1>15. WatchSeen'
    BY <1>1, <1>5, <1>8, <1>13, <1>14 DEF WatchInv, WatchSeen
  <1> QED
    BY <1>6, <1>7, <1>9, <1>15 DEF WatchInv

LEMMA WatchStep == ASSUME WatchInv, [Watching!Next]_watch_vars PROVE WatchInv'
  <1>1. CASE UNCHANGED watch_vars
    <2>1. UNCHANGED Noted /\ UNCHANGED <<watch_holder, watch_pc, watch_on>>
      BY <1>1 DEF watch_vars, Noted
    <2>2. WatchCalls'
      BY <2>1 DEF WatchInv, WatchCalls, Noted
    <2> QED
      BY <2>1, <2>2, NotedKeeps DEF WatchInv, WatchTypes
  <1>2. CASE \E path \in Files, kind \in Changes :
                Watching!Change([path |-> path, kind |-> kind])
    <2>1. PICK path \in Files, kind \in Changes :
                Watching!Change([path |-> path, kind |-> kind])
      BY <1>2
    <2>2. [path |-> path, kind |-> kind] \in Watching!Event
      BY DEF Watching!Event
    <2> QED
      BY <2>1, <2>2, ChangeKeeps
  <1> QED
    BY <1>1, <1>2, WorkerKeeps, LockKeeps, AddKeeps, RemoveKeeps, DrainKeeps
       DEF Watching!Next

\* A change after watchAdd is on its way until a drain has told it, for any
\* threads, paths, kinds and watches (add_impl, worker, drain_impl, merge).
THEOREM ChangesReachTheirWatch == Spec => []ChangesAreSeen
  <1>1. Init => (focus = "watch" => WatchInv)
    BY FocusStart, WatchInit
  <1>2. (focus = "watch" => WatchInv) /\ [Next]_vars => (focus = "watch" => WatchInv)'
    BY FocusStep, WatchStep
  <1>3. (focus = "watch" => WatchInv) => ChangesAreSeen
    BY DEF ChangesAreSeen, Watching!ChangesAreSeen, WatchInv, WatchSeen, Told
  <1> QED
    BY <1>1, <1>2, <1>3, PTL DEF Spec

-----------------------------------------------------------------------------
(* Pictures: the region of a point.                                        *)

Spots == [x : Int, y : Int]

LEMMA SameCount == ASSUME NEW S PROVE Pictures!Cardinality(S) = Cardinality(S)
  BY DEF Pictures!Cardinality, Cardinality

LEMMA GridsAreFinite ==
    ASSUME NEW size \in ImageSizes
    PROVE  IsFiniteSet(Pictures!Grid(size)) /\ Pictures!Grid(size) \subseteq Spots
  <1>1. size.width \in Int /\ size.height \in Int
    BY NativeAssumption DEF Pictures!ImagesAssumption
  <1>2. PICK W : W = 0 .. size.width - 1
    OBVIOUS
  <1>3. PICK H : H = 0 .. size.height - 1
    OBVIOUS
  <1>4. Pictures!Grid(size) = {[x |-> x, y |-> y] : x \in W, y \in H}
    BY <1>2, <1>3 DEF Pictures!Grid
  <1>5. IsFiniteSet(W)
    <2>1. 0 \in Int /\ size.width - 1 \in Int
      BY <1>1
    <2> QED
      BY <1>2, <2>1, FS_Interval
  <1>6. IsFiniteSet(H)
    <2>1. 0 \in Int /\ size.height - 1 \in Int
      BY <1>1
    <2> QED
      BY <1>3, <2>1, FS_Interval
  <1>7. IsFiniteSet(W \X H)
    BY <1>5, <1>6, FS_Product
  <1>8. PICK f : f = [p \in W \X H |-> [x |-> p[1], y |-> p[2]]]
    OBVIOUS
  <1>9. PICK G : G = Pictures!Grid(size)
    OBVIOUS
  <1>10. f \in [W \X H -> G]
    BY <1>4, <1>8, <1>9
  <1>11. ASSUME NEW g \in G PROVE \E p \in W \X H : f[p] = g
    <2>1. PICK x \in W, y \in H : g = [x |-> x, y |-> y]
      BY <1>4, <1>9
    <2>2. <<x, y>> \in W \X H /\ f[<<x, y>>] = g
      BY <1>8, <2>1
    <2> QED
      BY <2>2
  <1>12. f \in Surjection(W \X H, G)
    BY <1>10, <1>11 DEF Surjection
  <1>13. IsFiniteSet(G)
    BY <1>7, <1>12, FS_Surjection
  <1>14. W \subseteq Int /\ H \subseteq Int
    BY <1>1, <1>2, <1>3
  <1>15. G \subseteq Spots
    BY <1>4, <1>9, <1>14 DEF Spots
  <1> QED
    BY <1>9, <1>13, <1>15

\* What Region goes through.
Wider(picture, at, before) ==
    before \cup {p \in DOMAIN picture :
        picture[p] = picture[at] /\ \E q \in before : Pictures!Adjacent(p, q)}

AreGrown(grown, picture, at) ==
    grown = [n \in Nat |->
               IF n = 0 THEN {at}
               ELSE LET before == grown[n - 1]
                    IN  before \cup {p \in DOMAIN picture :
                          picture[p] = picture[at] /\ \E q \in before : Pictures!Adjacent(p, q)}]

Grows(grown, picture, at) ==
    /\ grown \in [Nat -> SUBSET DOMAIN picture] /\ grown[0] = {at}
    /\ \A n \in Nat : grown[n + 1] = Wider(picture, at, grown[n])
    /\ Pictures!Region(picture, at) = grown[Cardinality(DOMAIN picture)]

LEMMA RegionGrows ==
    ASSUME NEW picture, NEW at \in DOMAIN picture
    PROVE  \E grown : Grows(grown, picture, at)
  <1>1. PICK S : S = SUBSET DOMAIN picture
    OBVIOUS
  <1>2. PICK G : G = [p \in Nat \X S |-> Wider(picture, at, p[2])]
    OBVIOUS
  <1>3. \A B \in S : Wider(picture, at, B) \in S
    BY <1>1 DEF Wider
  <1>4. G \in [Nat \X S -> S] /\ \A n \in Nat, B \in S : G[<<n, B>>] = Wider(picture, at, B)
    BY <1>2, <1>3
  <1>5. {at} \in S
    BY <1>1
  <1>6. PICK f : Repeats(f, S, {at}, G)
    BY <1>4, <1>5, RecursionExists
  <1>7. f \in [Nat -> S] /\ f[0] = {at} /\ \A n \in Nat : f[n + 1] = Wider(picture, at, f[n])
    <2>1. f \in [Nat -> S] /\ f[0] = {at} /\ \A n \in Nat : f[n + 1] = G[<<n + 1, f[n]>>]
      BY <1>6 DEF Repeats
    <2>2. ASSUME NEW n \in Nat PROVE f[n + 1] = Wider(picture, at, f[n])
      <3>1. n + 1 \in Nat /\ f[n] \in S
        BY <2>1
      <3> QED
        BY <1>4, <2>1, <3>1
    <2> QED
      BY <2>1, <2>2
  <1>8. ASSUME NEW n \in Nat
        PROVE  f[n] = IF n = 0 THEN {at}
                      ELSE LET before == f[n - 1]
                           IN  before \cup {p \in DOMAIN picture :
                                 picture[p] = picture[at] /\ \E q \in before : Pictures!Adjacent(p, q)}
    <2>1. CASE n = 0
      BY <1>7, <2>1
    <2>2. CASE n # 0
      <3>1. n - 1 \in Nat /\ (n - 1) + 1 = n
        BY <2>2
      <3>2. f[n] = Wider(picture, at, f[n - 1])
        BY <1>7, <3>1
      <3> QED
        BY <2>2, <3>2 DEF Wider
    <2> QED
      BY <2>1, <2>2
  <1>9. f = [n \in Nat |-> f[n]]
    BY <1>7
  <1>10. AreGrown(f, picture, at)
    BY <1>8, <1>9 DEF AreGrown
  <1>11. PICK grown : grown = CHOOSE g : AreGrown(g, picture, at)
    OBVIOUS
  <1>12. AreGrown(grown, picture, at)
    BY <1>10, <1>11
  <1>13. Pictures!Region(picture, at) = grown[Cardinality(DOMAIN picture)]
    BY <1>11, SameCount DEF Pictures!Region, AreGrown
  <1>14. grown[0] = {at} /\ \A n \in Nat : grown[n + 1] = Wider(picture, at, grown[n])
    <2>1. grown[0] = {at}
      BY <1>12 DEF AreGrown
    <2>2. ASSUME NEW n \in Nat PROVE grown[n + 1] = Wider(picture, at, grown[n])
      <3>1. n + 1 \in Nat /\ n + 1 # 0 /\ (n + 1) - 1 = n
        OBVIOUS
      <3> QED
        BY <1>12, <3>1 DEF AreGrown, Wider
    <2> QED
      BY <2>1, <2>2
  <1>15. PICK T : T = {n \in Nat : grown[n] \in S}
    OBVIOUS
  <1>16. \A n \in Nat : n \in T
    <2>1. 0 \in T
      BY <1>5, <1>14, <1>15
    <2>2. ASSUME NEW n \in Nat, n \in T PROVE n + 1 \in T
      BY <1>3, <1>14, <1>15, <2>2
    <2> QED
      BY <2>1, <2>2, Induction
  <1>17. grown \in [Nat -> S]
    <2>1. grown = [n \in Nat |-> grown[n]]
      BY <1>12 DEF AreGrown
    <2> QED
      BY <1>15, <1>16, <2>1
  <1> QED
    BY <1>1, <1>13, <1>14, <1>17 DEF Grows

\* A set of points that has `at` and, with a point, those of the colour next to it.
Spreads(Z, picture, at) ==
    /\ at \in Z
    /\ \A q \in Z : \A p \in DOMAIN picture :
          picture[p] = picture[at] /\ Pictures!Adjacent(p, q) => p \in Z

\* The least such set.
IsRegion(R, picture, at) ==
    /\ R \subseteq DOMAIN picture /\ \A p \in R : picture[p] = picture[at]
    /\ Spreads(R, picture, at)
    /\ \A Z : Spreads(Z, picture, at) => R \subseteq Z

LEMMA RegionIs ==
    ASSUME NEW picture, NEW at \in DOMAIN picture, IsFiniteSet(DOMAIN picture)
    PROVE  IsRegion(Pictures!Region(picture, at), picture, at)
  <1>1. PICK grown : Grows(grown, picture, at)
    BY RegionGrows
  <1>2. PICK C : C = Cardinality(DOMAIN picture)
    OBVIOUS
  <1>3. C \in Nat /\ Pictures!Region(picture, at) = grown[C]
    BY <1>1, <1>2, FS_CardinalityType DEF Grows
  <1>4. /\ grown \in [Nat -> SUBSET DOMAIN picture] /\ grown[0] = {at}
        /\ \A n \in Nat : grown[n + 1] = Wider(picture, at, grown[n])
    BY <1>1 DEF Grows
  <1>5. ASSUME NEW n \in Nat
        PROVE  /\ IsFiniteSet(grown[n]) /\ Cardinality(grown[n]) \in Nat
               /\ Cardinality(grown[n]) <= C
    <2>1. grown[n] \in SUBSET DOMAIN picture
      BY <1>4
    <2>2. IsFiniteSet(grown[n]) /\ Cardinality(grown[n]) <= C
      BY <1>2, <2>1, FS_Subset
    <2> QED
      BY <2>2, FS_CardinalityType
  <1>6. PICK T : T = {n \in Nat : n + 1 <= Cardinality(grown[n]) \/ grown[n + 1] = grown[n]}
    OBVIOUS
  <1>7. 0 \in T
    <2>1. Cardinality(grown[0]) = 1
      BY <1>4, FS_Singleton
    <2> QED
      BY <1>6, <2>1
  <1>8. ASSUME NEW n \in Nat, n \in T PROVE n + 1 \in T
    <2>1. CASE grown[n + 1] = grown[n]
      <3>1. n + 1 \in Nat
        OBVIOUS
      <3>2. grown[(n + 1) + 1] = grown[n + 1]
        BY <1>4, <2>1, <3>1
      <3> QED
        BY <1>6, <3>1, <3>2
    <2>2. CASE grown[n + 1] # grown[n]
      <3>1. n + 1 \in Nat /\ n + 1 <= Cardinality(grown[n])
        BY <1>6, <1>8, <2>2
      <3>2. grown[n] \in SUBSET grown[n + 1]
        BY <1>4 DEF Wider
      <3>3. IsFiniteSet(grown[n + 1])
        BY <1>5, <3>1
      <3>4. /\ Cardinality(grown[n]) <= Cardinality(grown[n + 1])
            /\ Cardinality(grown[n + 1]) # Cardinality(grown[n])
        BY <2>2, <3>2, <3>3, FS_Subset
      <3>5. Cardinality(grown[n]) \in Nat /\ Cardinality(grown[n + 1]) \in Nat
        BY <1>5, <3>1
      <3>6. (n + 1) + 1 <= Cardinality(grown[n + 1])
        BY <3>1, <3>4, <3>5
      <3> QED
        BY <1>6, <3>1, <3>6
    <2> QED
      BY <2>1, <2>2
  <1>9. C \in T
    BY <1>3, <1>7, <1>8, Induction
  <1>10. grown[C + 1] = grown[C]
    BY <1>3, <1>5, <1>6, <1>9
  <1>11. PICK M : M = {n \in Nat : at \in grown[n] /\ \A p \in grown[n] : picture[p] = picture[at]}
    OBVIOUS
  <1>12. C \in M
    <2>1. 0 \in M
      BY <1>4, <1>11
    <2>2. ASSUME NEW n \in Nat, n \in M PROVE n + 1 \in M
      BY <1>4, <1>11, <2>2 DEF Wider
    <2> QED
      BY <1>3, <2>1, <2>2, Induction
  <1>13. Spreads(grown[C], picture, at)
    <2>1. Wider(picture, at, grown[C]) = grown[C]
      BY <1>3, <1>4, <1>10
    <2> QED
      BY <1>11, <1>12, <2>1 DEF Spreads, Wider
  <1>14. ASSUME NEW Z, Spreads(Z, picture, at) PROVE grown[C] \subseteq Z
    <2>1. PICK L : L = {n \in Nat : grown[n] \subseteq Z}
      OBVIOUS
    <2>2. 0 \in L
      BY <1>4, <1>14, <2>1 DEF Spreads
    <2>3. ASSUME NEW n \in Nat, n \in L PROVE n + 1 \in L
      BY <1>4, <1>14, <2>1, <2>3 DEF Spreads, Wider
    <2> QED
      BY <1>3, <2>1, <2>2, <2>3, Induction
  <1>15. grown[C] \subseteq DOMAIN picture
    BY <1>3, <1>4
  <1> QED
    BY <1>3, <1>11, <1>12, <1>13, <1>14, <1>15 DEF IsRegion

-----------------------------------------------------------------------------
(* Pictures: one turn of flood_fill.                                       *)

On(q, s) == \E i \in DOMAIN s : s[i] = q

Pops(s, r) ==
    /\ Len(r) = Len(s) - 1
    /\ On(s[Len(s)], s)
    /\ \A q : On(q, r) => On(q, s)
    /\ \A q : On(q, s) => On(q, r) \/ q = s[Len(s)]

LEMMA Popped ==
    ASSUME NEW S, NEW s \in Seq(S), s # <<>>, NEW r, r = SubSeq(s, 1, Len(s) - 1)
    PROVE  r \in Seq(S) /\ Len(s) \in Nat \ {0} /\ s[Len(s)] \in S /\ Pops(s, r)
  <1>1. Len(s) \in Nat /\ Len(s) # 0 /\ DOMAIN s = 1 .. Len(s)
    BY EmptySeq
  <1>2. /\ r \in Seq(S) /\ Len(r) = Len(s) - 1
        /\ \A i \in 1 .. Len(s) - 1 : r[i] = s[i]
    BY <1>1, SubSeqProperties
  <1>3. DOMAIN r = 1 .. Len(s) - 1
    BY <1>1, <1>2
  <1>4. Len(s) \in DOMAIN s /\ s[Len(s)] \in S
    BY <1>1
  <1>5. ASSUME NEW q, On(q, r) PROVE On(q, s)
    BY <1>1, <1>2, <1>3, <1>5 DEF On
  <1>6. ASSUME NEW q, On(q, s) PROVE On(q, r) \/ q = s[Len(s)]
    <2>1. PICK i \in DOMAIN s : s[i] = q
      BY <1>6 DEF On
    <2>2. i = Len(s) \/ i \in 1 .. Len(s) - 1
      BY <1>1, <2>1
    <2> QED
      BY <1>2, <1>3, <2>1, <2>2 DEF On
  <1> QED
    BY <1>1, <1>2, <1>4, <1>5, <1>6 DEF Pops, On

Pushes(r, t, four) ==
    /\ Len(t) = Len(r) + 4
    /\ \A q : On(q, t) <=> On(q, r) \/ q \in four

LEMMA Pushed ==
    ASSUME NEW S, NEW r \in Seq(S), NEW a \in S, NEW b \in S, NEW c \in S, NEW d \in S,
           NEW t, t = r \o <<a, b, c, d>>
    PROVE  t \in Seq(S) /\ Pushes(r, t, {a, b, c, d})
  <1>1. PICK u : u = <<a, b, c, d>>
    OBVIOUS
  <1>2. u \in Seq(S) /\ Len(u) = 4 /\ u[1] = a /\ u[2] = b /\ u[3] = c /\ u[4] = d
    BY <1>1
  <1>3. t = r \o u
    BY <1>1
  <1>4. Len(r) \in Nat /\ DOMAIN r = 1 .. Len(r)
    OBVIOUS
  <1>5. /\ t \in Seq(S) /\ Len(t) = Len(r) + 4 /\ DOMAIN t = 1 .. Len(r) + 4
        /\ \A i \in 1 .. Len(r) : t[i] = r[i]
        /\ t[Len(r) + 1] = a /\ t[Len(r) + 2] = b /\ t[Len(r) + 3] = c /\ t[Len(r) + 4] = d
    BY <1>2, <1>3, <1>4, SMTT(30)
  <1>6. ASSUME NEW q, On(q, t) PROVE On(q, r) \/ q \in {a, b, c, d}
    <2>1. PICK i \in 1 .. Len(r) + 4 : t[i] = q
      BY <1>5, <1>6 DEF On
    <2>2. i \in 1 .. Len(r) \/ i = Len(r) + 1 \/ i = Len(r) + 2 \/ i = Len(r) + 3 \/ i = Len(r) + 4
      BY <1>4, <2>1
    <2> QED
      BY <1>4, <1>5, <2>1, <2>2 DEF On
  <1>7. ASSUME NEW q, On(q, r) PROVE On(q, t)
    <2>1. PICK i \in 1 .. Len(r) : r[i] = q
      BY <1>4, <1>7 DEF On
    <2>2. i \in DOMAIN t /\ t[i] = q
      BY <1>4, <1>5, <2>1
    <2> QED
      BY <2>2 DEF On
  <1>8. On(a, t) /\ On(b, t) /\ On(c, t) /\ On(d, t)
    <2>1. /\ Len(r) + 1 \in DOMAIN t /\ Len(r) + 2 \in DOMAIN t
          /\ Len(r) + 3 \in DOMAIN t /\ Len(r) + 4 \in DOMAIN t
      BY <1>4, <1>5
    <2>2. \A i \in DOMAIN t : On(t[i], t)
      BY DEF On
    <2> QED
      BY <1>5, <2>1, <2>2
  <1> QED
    BY <1>5, <1>6, <1>7, <1>8 DEF Pushes

\* The four points next to a point are those at distance one.
Neighbours(p) ==
    {Pictures!Moved(p, 1, 0), Pictures!Moved(p, -1, 0), Pictures!Moved(p, 0, 1), Pictures!Moved(p, 0, -1)}

LEMMA UnitSquares ==
    ASSUME NEW a \in Int, NEW b \in Int, a * a + b * b = 1
    PROVE  (a = 0 /\ (b = 1 \/ b = -1)) \/ (b = 0 /\ (a = 1 \/ a = -1))
  <1>1. \A c \in Int : c * c >= 0 /\ (c >= 2 => c * c >= 2) /\ (c <= -2 => c * c >= 2)
    OBVIOUS
  <1>2. a \in -1 .. 1 /\ b \in -1 .. 1
    BY <1>1
  <1>3. (a = -1 \/ a = 0 \/ a = 1) /\ (b = -1 \/ b = 0 \/ b = 1)
    BY <1>2
  <1> QED
    BY <1>3

LEMMA AdjacentAreNeighbours ==
    ASSUME NEW p \in Spots, NEW q \in Spots
    PROVE  /\ Pictures!Adjacent(q, p) <=> q \in Neighbours(p)
           /\ Pictures!Adjacent(p, q) <=> q \in Neighbours(p)
           /\ Neighbours(p) \subseteq Spots
  <1>1. PICK a : a = q.x - p.x
    OBVIOUS
  <1>2. PICK b : b = q.y - p.y
    OBVIOUS
  <1>3. /\ p.x \in Int /\ p.y \in Int /\ q.x \in Int /\ q.y \in Int
        /\ p = [x |-> p.x, y |-> p.y] /\ q = [x |-> q.x, y |-> q.y]
    BY DEF Spots
  <1>4. a \in Int /\ b \in Int /\ q.x = p.x + a /\ q.y = p.y + b
    BY <1>1, <1>2, <1>3
  <1>5. Pictures!Adjacent(q, p) <=> a * a + b * b = 1
    BY <1>1, <1>2 DEF Pictures!Adjacent
  <1>6. Pictures!Adjacent(p, q) <=> a * a + b * b = 1
    <2>1. p.x - q.x = -a /\ p.y - q.y = -b
      BY <1>1, <1>2, <1>3
    <2>2. (-a) * (-a) = a * a /\ (-b) * (-b) = b * b
      BY <1>4
    <2> QED
      BY <2>1, <2>2 DEF Pictures!Adjacent
  <1>7. a * a + b * b = 1 <=>
          (a = 0 /\ (b = 1 \/ b = -1)) \/ (b = 0 /\ (a = 1 \/ a = -1))
    <2>1. (a = 0 /\ (b = 1 \/ b = -1)) \/ (b = 0 /\ (a = 1 \/ a = -1)) => a * a + b * b = 1
      BY <1>4
    <2> QED
      BY <1>4, <2>1, UnitSquares
  <1>8. q \in Neighbours(p) <=>
          (a = 0 /\ (b = 1 \/ b = -1)) \/ (b = 0 /\ (a = 1 \/ a = -1))
    <2>1. \A dx, dy \in Int : Pictures!Moved(p, dx, dy) = q <=> p.x + dx = q.x /\ p.y + dy = q.y
      BY <1>3 DEF Pictures!Moved
    <2>2. \A dx, dy \in Int : Pictures!Moved(p, dx, dy) = q <=> a = dx /\ b = dy
      <3>1. ASSUME NEW dx \in Int, NEW dy \in Int
            PROVE  (p.x + dx = q.x <=> a = dx) /\ (p.y + dy = q.y <=> b = dy)
        BY <1>3, <1>4
      <3> QED
        BY <2>1, <3>1
    <2> QED
      BY <2>2 DEF Neighbours
  <1>9. Neighbours(p) \subseteq Spots
    BY <1>3 DEF Neighbours, Pictures!Moved, Spots
  <1> QED
    BY <1>5, <1>6, <1>7, <1>8, <1>9

\* A fill under way: the copy that is painted, and the points to look at.
Fills(D, V) == [buffer : [D -> V], stack : Seq(Spots)]

Paints(fill, next, p, colour, D, V) ==
    /\ next \in Fills(D, V) /\ Len(fill.stack) \in Nat
    /\ next.buffer = [fill.buffer EXCEPT ![p] = colour]
    /\ Len(next.stack) = Len(fill.stack) + 3
    /\ \A q : On(q, next.stack) => On(q, fill.stack) \/ q \in Neighbours(p)
    /\ \A q : On(q, fill.stack) => On(q, next.stack) \/ q = p
    /\ \A q \in Neighbours(p) : On(q, next.stack)

LEMMA StepPaints ==
    ASSUME NEW D, D \subseteq Spots, NEW V, NEW fill \in Fills(D, V), NEW colour \in V, NEW seed,
           fill.stack # <<>>, NEW p, p = fill.stack[Len(fill.stack)],
           p \in D, fill.buffer[p] = seed,
           NEW next, next = Pictures!Step(fill, seed, colour)
    PROVE  Paints(fill, next, p, colour, D, V)
  <1>1. fill.stack \in Seq(Spots) /\ fill.buffer \in [D -> V]
    BY DEF Fills
  <1>2. PICK s : s = fill.stack
    OBVIOUS
  <1>3. PICK r : r = SubSeq(s, 1, Len(s) - 1)
    OBVIOUS
  <1>4. r \in Seq(Spots) /\ Len(s) \in Nat \ {0} /\ Pops(s, r)
    BY <1>1, <1>2, <1>3, Popped
  <1>5. Neighbours(p) \subseteq Spots
    BY AdjacentAreNeighbours
  <1>6. PICK t : t = r \o <<Pictures!Moved(p, 1, 0), Pictures!Moved(p, -1, 0),
                           Pictures!Moved(p, 0, 1), Pictures!Moved(p, 0, -1)>>
    OBVIOUS
  <1>7. t \in Seq(Spots) /\ Pushes(r, t, Neighbours(p))
    <2>1. PICK a \in Spots, b \in Spots, c \in Spots, d \in Spots :
             /\ Neighbours(p) = {a, b, c, d} /\ t = r \o <<a, b, c, d>>
      BY <1>5, <1>6 DEF Neighbours
    <2>2. PICK four : four = {a, b, c, d}
      OBVIOUS
    <2>3. r \in Seq(Spots) /\ t = r \o <<a, b, c, d>>
      BY <1>4, <2>1
    <2>4. t \in Seq(Spots) /\ Pushes(r, t, four)
      BY <2>2, <2>3, Pushed
    <2> QED
      BY <2>1, <2>2, <2>4
  <1>8. PICK b : b = [fill.buffer EXCEPT ![p] = colour]
    OBVIOUS
  <1>9. b \in [D -> V]
    BY <1>1, <1>8
  <1>10. next = [buffer |-> b, stack |-> t]
    <2>1. DOMAIN fill.buffer = D
      BY <1>1
    <2> QED
      BY <1>2, <1>3, <1>6, <1>8, <2>1 DEF Pictures!Step
  <1>11. next.buffer = b /\ next.stack = t /\ next \in Fills(D, V)
    BY <1>7, <1>9, <1>10 DEF Fills
  <1>12. Len(t) = Len(s) + 3
    BY <1>4, <1>7 DEF Pops, Pushes
  <1>13. /\ \A q : On(q, t) => On(q, s) \/ q \in Neighbours(p)
         /\ \A q : On(q, s) => On(q, t) \/ q = p
         /\ \A q \in Neighbours(p) : On(q, t)
    BY <1>2, <1>4, <1>7 DEF Pops, Pushes
  <1> QED
    BY <1>2, <1>4, <1>8, <1>11, <1>12, <1>13 DEF Paints

Skips(fill, next, p, D, V) ==
    /\ next \in Fills(D, V) /\ Len(fill.stack) \in Nat
    /\ next.buffer = fill.buffer
    /\ Len(next.stack) = Len(fill.stack) - 1
    /\ \A q : On(q, next.stack) => On(q, fill.stack)
    /\ \A q : On(q, fill.stack) => On(q, next.stack) \/ q = p

LEMMA StepSkips ==
    ASSUME NEW D, NEW V, NEW fill \in Fills(D, V), NEW colour, NEW seed,
           fill.stack # <<>>, NEW p, p = fill.stack[Len(fill.stack)],
           ~(p \in D /\ fill.buffer[p] = seed),
           NEW next, next = Pictures!Step(fill, seed, colour)
    PROVE  Skips(fill, next, p, D, V)
  <1>1. fill.stack \in Seq(Spots) /\ fill.buffer \in [D -> V] /\ DOMAIN fill.buffer = D
    BY DEF Fills
  <1>2. PICK s : s = fill.stack
    OBVIOUS
  <1>3. PICK r : r = SubSeq(s, 1, Len(s) - 1)
    OBVIOUS
  <1>4. r \in Seq(Spots) /\ Len(s) \in Nat \ {0} /\ Pops(s, r)
    BY <1>1, <1>2, <1>3, Popped
  <1>5. next = [fill EXCEPT !.stack = r]
    BY <1>1, <1>2, <1>3 DEF Pictures!Step
  <1>6. next.buffer = fill.buffer /\ next.stack = r /\ next \in Fills(D, V)
    BY <1>4, <1>5 DEF Fills
  <1> QED
    BY <1>2, <1>4, <1>6 DEF Pops, Skips

\* What holds after n turns: P has been painted, all of it in the region, and what
\* is next to P in the region is painted or waits on the stack.  A turn
\* takes one point off the stack and puts four there for each point it paints.
Floods(fill, n, P, picture, at, colour, V) ==
    /\ fill \in Fills(DOMAIN picture, V)
    /\ P \subseteq Pictures!Region(picture, at)
    /\ fill.buffer = Pictures!Painted(picture, P, colour)
    /\ at \in P \/ On(at, fill.stack)
    /\ \A q \in DOMAIN picture :
          On(q, fill.stack) /\ picture[q] = picture[at] => q \in Pictures!Region(picture, at)
    /\ \A q \in P : \A p \in DOMAIN picture :
          picture[p] = picture[at] /\ Pictures!Adjacent(p, q) => p \in P \/ On(p, fill.stack)
    /\ fill.stack = <<>> \/ Len(fill.stack) + n <= 1 + 4 * Cardinality(P)

LEMMA FloodTurns ==
    ASSUME NEW V, NEW picture, picture \in [DOMAIN picture -> V], DOMAIN picture \subseteq Spots,
           IsFiniteSet(DOMAIN picture), NEW at \in DOMAIN picture, NEW colour \in V,
           picture[at] # colour, NEW n \in Nat, NEW fill, fill.stack # <<>>,
           NEW P, Floods(fill, n, P, picture, at, colour, V),
           NEW next, next = Pictures!Step(fill, picture[at], colour)
    PROVE  \E Q : Floods(next, n + 1, Q, picture, at, colour, V)
  <1>1. PICK D : D = DOMAIN picture
    OBVIOUS
  <1>2. PICK R : R = Pictures!Region(picture, at)
    OBVIOUS
  <1>3. IsRegion(R, picture, at)
    BY <1>2, RegionIs
  <1>4. R \subseteq D /\ \A p \in R : picture[p] = picture[at]
    BY <1>1, <1>3 DEF IsRegion
  <1>5. /\ fill \in Fills(D, V) /\ P \subseteq R
        /\ fill.buffer = Pictures!Painted(picture, P, colour)
        /\ at \in P \/ On(at, fill.stack)
        /\ \A q \in D : On(q, fill.stack) /\ picture[q] = picture[at] => q \in R
        /\ \A q \in P : \A p \in D :
              picture[p] = picture[at] /\ Pictures!Adjacent(p, q) => p \in P \/ On(p, fill.stack)
        /\ Len(fill.stack) + n <= 1 + 4 * Cardinality(P)
    BY <1>1, <1>2 DEF Floods
  <1>6. IsFiniteSet(P) /\ Cardinality(P) \in Nat
    BY <1>1, <1>4, <1>5, FS_Subset, FS_CardinalityType
  <1>7. PICK top : top = fill.stack[Len(fill.stack)]
    OBVIOUS
  <1>8. fill.stack \in Seq(Spots)
    BY <1>5 DEF Fills
  <1>9. On(top, fill.stack)
    <2>1. PICK r : r = SubSeq(fill.stack, 1, Len(fill.stack) - 1)
      OBVIOUS
    <2> QED
      BY <1>7, <1>8, <2>1, Popped DEF Pops
  <1>10. \A q \in D : fill.buffer[q] = IF q \in P THEN colour ELSE picture[q]
    BY <1>1, <1>5 DEF Pictures!Painted
  <1>11. CASE top \in D /\ fill.buffer[top] = picture[at]
    <2>1. top \notin P /\ picture[top] = picture[at] /\ top \in R
      BY <1>5, <1>9, <1>10, <1>11
    <2>2. /\ next \in Fills(D, V) /\ Len(fill.stack) \in Nat
          /\ next.buffer = [fill.buffer EXCEPT ![top] = colour]
          /\ Len(next.stack) = Len(fill.stack) + 3
          /\ \A q : On(q, next.stack) => On(q, fill.stack) \/ q \in Neighbours(top)
          /\ \A q : On(q, fill.stack) => On(q, next.stack) \/ q = top
          /\ \A q \in Neighbours(top) : On(q, next.stack)
      <3>1. D \subseteq Spots /\ top \in D /\ fill.buffer[top] = picture[at]
        BY <1>1, <1>11
      <3>2. Paints(fill, next, top, colour, D, V)
        BY <1>5, <1>7, <3>1, StepPaints
      <3> QED
        BY <3>2 DEF Paints
    <2>3. PICK Q : Q = P \cup {top}
      OBVIOUS
    <2>4. Q \subseteq R
      BY <1>5, <2>1, <2>3
    <2>5. next.buffer = Pictures!Painted(picture, Q, colour)
      <3>1. next.buffer = [q \in D |-> IF q \in Q THEN colour ELSE picture[q]]
        BY <1>1, <1>5, <1>10, <2>2, <2>3 DEF Pictures!Painted
      <3> QED
        BY <1>1, <3>1 DEF Pictures!Painted
    <2>6. at \in Q \/ On(at, next.stack)
      BY <1>5, <2>2, <2>3
    <2>7. ASSUME NEW q \in D, On(q, next.stack), picture[q] = picture[at] PROVE q \in R
      <3>1. CASE On(q, fill.stack)
        BY <1>5, <2>7, <3>1
      <3>2. CASE q \in Neighbours(top)
        <4>1. Pictures!Adjacent(q, top)
          BY <1>1, <1>11, <3>2, AdjacentAreNeighbours
        <4> QED
          BY <1>1, <1>3, <2>1, <2>7, <4>1 DEF IsRegion, Spreads
      <3> QED
        BY <2>2, <2>7, <3>1, <3>2
    <2>8. ASSUME NEW q \in Q, NEW p \in D, picture[p] = picture[at], Pictures!Adjacent(p, q)
          PROVE  p \in Q \/ On(p, next.stack)
      <3>1. CASE q \in P
        BY <1>5, <2>2, <2>3, <2>8, <3>1
      <3>2. CASE q = top
        <4>1. p \in Neighbours(top)
          BY <1>1, <1>11, <2>8, <3>2, AdjacentAreNeighbours
        <4> QED
          BY <2>2, <4>1
      <3> QED
        BY <2>3, <3>1, <3>2
    <2>9. Cardinality(Q) = Cardinality(P) + 1
      BY <1>6, <2>1, <2>3, FS_AddElement
    <2>10. Len(next.stack) + (n + 1) <= 1 + 4 * Cardinality(Q)
      BY <1>5, <1>6, <2>2, <2>9
    <2>11. Floods(next, n + 1, Q, picture, at, colour, V)
      BY <1>1, <1>2, <2>2, <2>4, <2>5, <2>6, <2>7, <2>8, <2>10 DEF Floods
    <2> QED
      BY <2>11
  <1>12. CASE ~(top \in D /\ fill.buffer[top] = picture[at])
    <2>1. /\ next \in Fills(D, V) /\ Len(fill.stack) \in Nat
          /\ next.buffer = fill.buffer
          /\ Len(next.stack) = Len(fill.stack) - 1
          /\ \A q : On(q, next.stack) => On(q, fill.stack)
          /\ \A q : On(q, fill.stack) => On(q, next.stack) \/ q = top
      <3>1. Skips(fill, next, top, D, V)
        BY <1>5, <1>7, <1>12, StepSkips
      <3> QED
        BY <3>1 DEF Skips
    <2>2. \A q \in D : picture[q] = picture[at] /\ On(q, fill.stack) => q \in P \/ On(q, next.stack)
      BY <1>10, <1>12, <2>1
    <2>3. at \in P \/ On(at, next.stack)
      BY <1>1, <1>5, <2>2
    <2>4. \A q \in D : On(q, next.stack) /\ picture[q] = picture[at] => q \in R
      BY <1>5, <2>1
    <2>5. \A q \in P : \A p \in D :
             picture[p] = picture[at] /\ Pictures!Adjacent(p, q) => p \in P \/ On(p, next.stack)
      BY <1>5, <2>2
    <2>6. Len(next.stack) + (n + 1) <= 1 + 4 * Cardinality(P)
      BY <1>5, <1>6, <2>1
    <2>7. Floods(next, n + 1, P, picture, at, colour, V)
      BY <1>1, <1>2, <1>5, <2>1, <2>3, <2>4, <2>5, <2>6 DEF Floods
    <2> QED
      BY <2>7
  <1> QED
    BY <1>11, <1>12

-----------------------------------------------------------------------------
(* Pictures: all turns of flood_fill, and the theorem.                     *)

Turned(fill, seed, colour) ==
    IF fill.stack = <<>> THEN fill ELSE Pictures!Step(fill, seed, colour)

AreFilled(after, picture, at, colour) ==
    after = [n \in Nat |->
               IF n = 0 THEN [buffer |-> picture, stack |-> <<at>>]
               ELSE LET fill == after[n - 1]
                    IN  IF fill.stack = <<>> THEN fill ELSE Pictures!Step(fill, picture[at], colour)]

FillsUp(after, picture, at, colour) ==
    /\ after[0] = [buffer |-> picture, stack |-> <<at>>]
    /\ \A n \in Nat : after[n + 1] = Turned(after[n], picture[at], colour)
    /\ picture[at] # colour =>
          Pictures!Flooded(picture, at, colour) = after[Pictures!Turns(picture)].buffer

LEMMA FillsExist ==
    ASSUME NEW V, NEW picture, picture \in [DOMAIN picture -> V], DOMAIN picture \subseteq Spots,
           NEW at \in DOMAIN picture, NEW colour \in V
    PROVE  \E after : FillsUp(after, picture, at, colour)
  <1>1. PICK D : D = DOMAIN picture
    OBVIOUS
  <1>2. PICK S : S = Fills(D, V)
    OBVIOUS
  <1>3. PICK first : first = [buffer |-> picture, stack |-> <<at>>]
    OBVIOUS
  <1>4. first \in S
    <2>1. <<at>> \in Seq(Spots)
      BY <1>1
    <2> QED
      BY <1>1, <1>2, <1>3, <2>1 DEF Fills
  <1>5. ASSUME NEW fill \in S PROVE Turned(fill, picture[at], colour) \in S
    <2>1. CASE fill.stack = <<>>
      BY <2>1 DEF Turned
    <2>2. CASE fill.stack # <<>>
      <3>1. PICK next : next = Pictures!Step(fill, picture[at], colour)
        OBVIOUS
      <3>2. PICK top : top = fill.stack[Len(fill.stack)]
        OBVIOUS
      <3>3. D \subseteq Spots /\ fill \in Fills(D, V)
        BY <1>1, <1>2
      <3>4. CASE top \in D /\ fill.buffer[top] = picture[at]
        <4>1. Paints(fill, next, top, colour, D, V)
          BY <2>2, <3>1, <3>2, <3>3, <3>4, StepPaints
        <4> QED
          BY <1>2, <2>2, <3>1, <4>1 DEF Paints, Turned
      <3>5. CASE ~(top \in D /\ fill.buffer[top] = picture[at])
        <4>1. Skips(fill, next, top, D, V)
          BY <2>2, <3>1, <3>2, <3>3, <3>5, StepSkips
        <4> QED
          BY <1>2, <2>2, <3>1, <4>1 DEF Skips, Turned
      <3> QED
        BY <3>4, <3>5
    <2> QED
      BY <2>1, <2>2
  <1>6. PICK G : G = [p \in Nat \X S |-> Turned(p[2], picture[at], colour)]
    OBVIOUS
  <1>7. /\ G \in [Nat \X S -> S]
        /\ \A n \in Nat, fill \in S : G[<<n, fill>>] = Turned(fill, picture[at], colour)
    BY <1>5, <1>6
  <1>8. PICK f : Repeats(f, S, first, G)
    BY <1>4, <1>7, RecursionExists
  <1>9. f \in [Nat -> S] /\ f[0] = first /\ \A n \in Nat : f[n + 1] = G[<<n + 1, f[n]>>]
    BY <1>8 DEF Repeats
  <1>10. ASSUME NEW n \in Nat
         PROVE  f[n] = IF n = 0 THEN [buffer |-> picture, stack |-> <<at>>]
                       ELSE LET fill == f[n - 1]
                            IN  IF fill.stack = <<>> THEN fill
                                ELSE Pictures!Step(fill, picture[at], colour)
    <2>1. CASE n = 0
      BY <1>3, <1>9, <2>1
    <2>2. CASE n # 0
      <3>1. n - 1 \in Nat /\ (n - 1) + 1 = n
        BY <2>2
      <3>2. f[n] = G[<<n, f[n - 1]>>] /\ f[n - 1] \in S
        BY <1>9, <3>1
      <3>3. f[n] = Turned(f[n - 1], picture[at], colour)
        BY <1>7, <3>2
      <3> QED
        BY <2>2, <3>3 DEF Turned
    <2> QED
      BY <2>1, <2>2
  <1>11. f = [n \in Nat |-> f[n]]
    BY <1>9
  <1>12. AreFilled(f, picture, at, colour)
    BY <1>10, <1>11 DEF AreFilled
  <1>13. PICK after : after = CHOOSE g : AreFilled(g, picture, at, colour)
    OBVIOUS
  <1>14. AreFilled(after, picture, at, colour)
    BY <1>12, <1>13
  <1>15. picture[at] # colour =>
           Pictures!Flooded(picture, at, colour) = after[Pictures!Turns(picture)].buffer
    BY <1>13 DEF Pictures!Flooded, AreFilled
  <1>16. after[0] = [buffer |-> picture, stack |-> <<at>>]
    BY <1>14 DEF AreFilled
  <1>17. ASSUME NEW n \in Nat PROVE after[n + 1] = Turned(after[n], picture[at], colour)
    <2>1. n + 1 \in Nat /\ n + 1 # 0 /\ (n + 1) - 1 = n
      OBVIOUS
    <2> QED
      BY <1>14, <2>1 DEF AreFilled, Turned
  <1> QED
    BY <1>15, <1>16, <1>17 DEF FillsUp

\* A flood fill ends, and has painted the region of its point and nothing else.
LEMMA FloodPaintsRegion ==
    ASSUME NEW V, NEW picture, picture \in [DOMAIN picture -> V], DOMAIN picture \subseteq Spots,
           IsFiniteSet(DOMAIN picture), NEW at \in DOMAIN picture, NEW colour \in V
    PROVE  Pictures!Flooded(picture, at, colour) =
             Pictures!Painted(picture, Pictures!Region(picture, at), colour)
  <1>1. PICK D : D = DOMAIN picture
    OBVIOUS
  <1>2. PICK R : R = Pictures!Region(picture, at)
    OBVIOUS
  <1>3. IsRegion(R, picture, at)
    BY <1>2, RegionIs
  <1>4. R \subseteq D /\ at \in R /\ \A p \in R : picture[p] = picture[at]
    BY <1>1, <1>3 DEF IsRegion, Spreads
  <1>5. CASE picture[at] = colour
    <2>1. Pictures!Flooded(picture, at, colour) = picture
      BY <1>5 DEF Pictures!Flooded
    <2>2. picture = [p \in D |-> IF p \in R THEN colour ELSE picture[p]]
      BY <1>1, <1>4, <1>5
    <2> QED
      BY <1>1, <1>2, <2>1, <2>2 DEF Pictures!Painted
  <1>6. CASE picture[at] # colour
    <2>1. PICK after : FillsUp(after, picture, at, colour)
      BY FillsExist
    <2>2. PICK T : T = {n \in Nat : \E P : Floods(after[n], n, P, picture, at, colour, V)}
      OBVIOUS
    <2>3. 0 \in T
      <3>1. PICK fill : fill = after[0]
        OBVIOUS
      <3>2. fill = [buffer |-> picture, stack |-> <<at>>]
        BY <2>1, <3>1 DEF FillsUp
      <3>3. fill.stack = <<at>> /\ fill.buffer = picture
        BY <3>2
      <3>4. /\ fill.stack \in Seq(Spots) /\ Len(fill.stack) = 1
            /\ DOMAIN fill.stack = {1} /\ fill.stack[1] = at
        BY <3>3
      <3>5. fill \in Fills(D, V)
        BY <1>1, <3>2, <3>3, <3>4 DEF Fills
      <3>6. \A q : On(q, fill.stack) <=> q = at
        BY <3>4 DEF On
      <3>7. picture = [p \in D |-> IF p \in {} THEN colour ELSE picture[p]]
        BY <1>1
      <3>8. fill.buffer = Pictures!Painted(picture, {}, colour)
        BY <1>1, <3>3, <3>7 DEF Pictures!Painted
      <3>9. Len(fill.stack) + 0 <= 1 + 4 * Cardinality({})
        <4>1. Cardinality({}) = 0
          BY FS_EmptySet
        <4> QED
          BY <3>4, <4>1
      <3>10. Floods(fill, 0, {}, picture, at, colour, V)
        BY <1>1, <1>2, <1>4, <3>5, <3>6, <3>8, <3>9 DEF Floods
      <3> QED
        BY <2>2, <3>1, <3>10
    <2>4. ASSUME NEW n \in Nat, n \in T PROVE n + 1 \in T
      <3>1. PICK fill : fill = after[n]
        OBVIOUS
      <3>2. PICK P : Floods(fill, n, P, picture, at, colour, V)
        BY <2>2, <2>4, <3>1
      <3>3. PICK next : next = after[n + 1]
        OBVIOUS
      <3>4. next = Turned(fill, picture[at], colour)
        BY <2>1, <3>1, <3>3 DEF FillsUp
      <3>5. CASE fill.stack = <<>>
        <4>1. next = fill
          BY <3>4, <3>5 DEF Turned
        <4>2. Floods(next, n + 1, P, picture, at, colour, V)
          BY <3>2, <3>5, <4>1 DEF Floods
        <4> QED
          BY <2>2, <3>3, <4>2
      <3>6. CASE fill.stack # <<>>
        <4>1. next = Pictures!Step(fill, picture[at], colour)
          BY <3>4, <3>6 DEF Turned
        <4>2. \E Q : Floods(next, n + 1, Q, picture, at, colour, V)
          BY <1>6, <3>2, <3>6, <4>1, FloodTurns
        <4> QED
          BY <2>2, <3>3, <4>2
      <3> QED
        BY <3>5, <3>6
    <2>5. PICK N : N = Pictures!Turns(picture)
      OBVIOUS
    <2>6. Cardinality(D) \in Nat /\ N = 4 * Cardinality(D) + 1
      <3>1. Cardinality(D) \in Nat
        BY <1>1, FS_CardinalityType
      <3>2. Pictures!Cardinality(D) = Cardinality(D)
        BY SameCount
      <3> QED
        BY <1>1, <2>5, <3>1, <3>2 DEF Pictures!Turns
    <2>7. N \in T
      <3>1. N \in Nat
        BY <2>6
      <3> QED
        BY <2>3, <2>4, <3>1, Induction
    <2>8. PICK fill : fill = after[N]
      OBVIOUS
    <2>9. PICK P : Floods(fill, N, P, picture, at, colour, V)
      BY <2>2, <2>7, <2>8
    <2>10. P \subseteq R /\ P \subseteq D
      BY <1>2, <1>4, <2>9 DEF Floods
    <2>11. Cardinality(P) \in Nat /\ Cardinality(P) <= Cardinality(D)
      BY <1>1, <2>10, FS_Subset, FS_CardinalityType
    <2>12. fill.stack = <<>>
      <3>1. ASSUME fill.stack # <<>> PROVE FALSE
        <4>1. Len(fill.stack) + N <= 1 + 4 * Cardinality(P)
          BY <2>9, <3>1 DEF Floods
        <4>2. Len(fill.stack) \in Nat /\ Len(fill.stack) # 0
          <5>1. PICK s : s = fill.stack
            OBVIOUS
          <5>2. s \in Seq(Spots)
            BY <2>9, <5>1 DEF Floods, Fills
          <5> QED
            BY <3>1, <5>1, <5>2, EmptySeq
        <4> QED
          BY <2>6, <2>11, <4>1, <4>2
      <3> QED
        BY <3>1
    <2>13. \A q : ~On(q, fill.stack)
      BY <2>12 DEF On
    <2>14. Spreads(P, picture, at)
      BY <2>9, <2>13 DEF Floods, Spreads
    <2>15. P = R
      BY <1>3, <2>10, <2>14 DEF IsRegion
    <2>16. fill.buffer = Pictures!Painted(picture, R, colour)
      BY <2>9, <2>15 DEF Floods
    <2> QED
      BY <1>2, <1>6, <2>1, <2>5, <2>8, <2>16 DEF FillsUp
  <1> QED
    BY <1>5, <1>6

-----------------------------------------------------------------------------
(* Pictures: the table, and the theorem.                                   *)

\* Any recolouring of a picture is a picture.
LEMMA PicturesAre ==
    ASSUME NEW picture \in Pictures!Pictures
    PROVE  /\ picture \in [DOMAIN picture -> Colours]
           /\ DOMAIN picture \subseteq Spots /\ IsFiniteSet(DOMAIN picture)
           /\ [DOMAIN picture -> Colours] \subseteq Pictures!Pictures
           /\ picture # None
  <1>1. PICK size \in ImageSizes : picture \in [Pictures!Grid(size) -> Colours]
    BY DEF Pictures!Pictures
  <1>2. PICK D : D = Pictures!Grid(size)
    OBVIOUS
  <1>3. DOMAIN picture = D /\ picture \in [D -> Colours]
    BY <1>1, <1>2
  <1>4. IsFiniteSet(D) /\ D \subseteq Spots
    BY <1>2, GridsAreFinite
  <1>5. [D -> Colours] \subseteq Pictures!Pictures
    BY <1>2 DEF Pictures!Pictures
  <1>6. picture # None
    BY NativeAssumption DEF Pictures!ImagesAssumption
  <1> QED
    BY <1>3, <1>4, <1>5, <1>6

Slots == Pictures!Pictures \cup {None}

ImagesInv == img_table \in Seq(Slots)

LEMMA ImagesInit == Pictures!Init => ImagesInv
  BY EmptySeq DEF Pictures!Init, ImagesInv

\* An image that is open is a picture.
LEMMA OpenIsPicture ==
    ASSUME ImagesInv, NEW i, Pictures!Open(i)
    PROVE  i \in DOMAIN img_table /\ img_table[i] \in Pictures!Pictures
  <1>1. i \in DOMAIN img_table /\ img_table[i] # None
    BY DEF Pictures!Open
  <1>2. PICK S : S = Slots
    OBVIOUS
  <1>3. img_table \in Seq(S)
    BY <1>2 DEF ImagesInv
  <1>4. DOMAIN img_table = 1 .. Len(img_table)
    BY <1>3
  <1>5. img_table[i] \in S
    BY <1>1, <1>3, <1>4
  <1> QED
    BY <1>1, <1>2, <1>5 DEF Slots

LEMMA StoreKeeps ==
    ASSUME ImagesInv, NEW pictures \in Seq(Slots), Pictures!store(pictures)
    PROVE  ImagesInv'
  <1>1. PICK S : S = Slots
    OBVIOUS
  <1>2. img_table \in Seq(S) /\ pictures \in Seq(S)
    BY <1>1 DEF ImagesInv
  <1>3. img_table' = img_table \o pictures
    BY DEF Pictures!store
  <1>4. img_table' \in Seq(S)
    BY <1>2, <1>3
  <1> QED
    BY <1>1, <1>4 DEF ImagesInv, Slots

LEMMA StoreOneKeeps ==
    ASSUME ImagesInv, NEW picture \in Pictures!Pictures, Pictures!store(<<picture>>)
    PROVE  ImagesInv'
  <1>1. PICK S : S = Slots
    OBVIOUS
  <1>2. picture \in S
    BY <1>1 DEF Slots
  <1>3. <<picture>> \in Seq(S)
    BY <1>2
  <1> QED
    BY <1>1, <1>3, StoreKeeps

LEMMA UpdateKeeps ==
    ASSUME ImagesInv, NEW i, i \in DOMAIN img_table, NEW slot \in Slots,
           Pictures!update(i, slot)
    PROVE  ImagesInv'
  <1>1. PICK S : S = Slots
    OBVIOUS
  <1>2. img_table \in Seq(S) /\ slot \in S
    BY <1>1 DEF ImagesInv
  <1>3. img_table' = [img_table EXCEPT ![i] = slot]
    BY DEF Pictures!update
  <1>4. img_table' \in Seq(S)
    BY <1>2, <1>3
  <1> QED
    BY <1>1, <1>4 DEF ImagesInv, Slots

\* A picture that is drawn on is stored back with its points and other colours.
LEMMA RepaintKeeps ==
    ASSUME ImagesInv, NEW i, Pictures!Open(i),
           NEW picture \in [DOMAIN img_table[i] -> Colours], Pictures!update(i, picture)
    PROVE  ImagesInv'
  <1>1. i \in DOMAIN img_table /\ img_table[i] \in Pictures!Pictures
    BY OpenIsPicture
  <1>2. picture \in Slots
    BY <1>1, PicturesAre DEF Slots
  <1> QED
    BY <1>1, <1>2, UpdateKeeps

LEMMA PaintedIs ==
    ASSUME NEW picture, picture \in [DOMAIN picture -> Colours], NEW points,
           NEW colour \in Colours
    PROVE  Pictures!Painted(picture, points, colour) \in [DOMAIN picture -> Colours]
  BY DEF Pictures!Painted

LEMMA TableKeeps ==
    ASSUME ImagesInv
    PROVE  /\ Pictures!open => ImagesInv'
           /\ Pictures!create => ImagesInv'
           /\ \A i : \/ Pictures!copy(i) \/ Pictures!close(i) \/ Pictures!filter(i)
                     \/ Pictures!resize(i) \/ Pictures!split_channels(i)
                     => ImagesInv'
  <1>1. Pictures!open => ImagesInv'
    BY StoreOneKeeps DEF Pictures!open
  <1>2. ASSUME Pictures!create PROVE ImagesInv'
    <2>1. PICK size \in ImageSizes, colour \in Colours :
             Pictures!store(<<[p \in Pictures!Grid(size) |-> colour]>>)
      BY <1>2 DEF Pictures!create
    <2>2. [p \in Pictures!Grid(size) |-> colour] \in Pictures!Pictures
      BY <2>1 DEF Pictures!Pictures
    <2> QED
      BY <2>1, <2>2, StoreOneKeeps
  <1>3. ASSUME NEW i, Pictures!copy(i) PROVE ImagesInv'
    BY <1>3, OpenIsPicture, StoreOneKeeps DEF Pictures!copy
  <1>4. ASSUME NEW i, Pictures!close(i) PROVE ImagesInv'
    <2>1. None \in Slots
      BY DEF Slots
    <2> QED
      BY <1>4, <2>1, UpdateKeeps DEF Pictures!close
  <1>5. ASSUME NEW i, Pictures!filter(i) PROVE ImagesInv'
    <2>1. img_table[i] \in Pictures!Pictures
      BY <1>5, OpenIsPicture DEF Pictures!filter
    <2>2. PICK picture \in [DOMAIN img_table[i] -> Colours] : Pictures!store(<<picture>>)
      BY <1>5 DEF Pictures!filter
    <2>3. picture \in Pictures!Pictures
      BY <2>1, <2>2, PicturesAre
    <2> QED
      BY <2>2, <2>3, StoreOneKeeps
  <1>6. ASSUME NEW i, Pictures!resize(i) PROVE ImagesInv'
    BY <1>1, <1>6 DEF Pictures!resize
  <1>7. ASSUME NEW i, Pictures!split_channels(i) PROVE ImagesInv'
    <2>1. img_table[i] \in Pictures!Pictures
      BY <1>7, OpenIsPicture DEF Pictures!split_channels
    <2>2. PICK P : P = [DOMAIN img_table[i] -> Colours]
      OBVIOUS
    <2>3. P \subseteq Slots
      BY <2>1, <2>2, PicturesAre DEF Slots
    <2>4. PICK bands \in [1 .. Bands -> P] : Pictures!store(bands)
      BY <1>7, <2>2 DEF Pictures!split_channels
    <2>5. PICK S : S = Slots
      OBVIOUS
    <2>6. bands \in [1 .. Bands -> S] /\ Bands \in Nat
      BY <2>3, <2>4, <2>5, NativeAssumption DEF Pictures!ImagesAssumption
    <2>7. bands \in Seq(S)
      BY <2>6
    <2> QED
      BY <2>4, <2>5, <2>7, StoreKeeps
  <1> QED
    BY <1>1, <1>2, <1>3, <1>4, <1>5, <1>6, <1>7

LEMMA DrawingKeeps ==
    ASSUME ImagesInv, NEW i, NEW colour \in Colours
    PROVE  /\ Pictures!fill_image(i, colour) => ImagesInv'
           /\ \A p : Pictures!set_pixel(i, p, colour) => ImagesInv'
           /\ \A points : Pictures!draw_op(i, points, colour) => ImagesInv'
  <1>1. ASSUME Pictures!Open(i) PROVE img_table[i] \in [DOMAIN img_table[i] -> Colours]
    BY <1>1, OpenIsPicture, PicturesAre
  <1>2. ASSUME Pictures!fill_image(i, colour) PROVE ImagesInv'
    <2>1. [p \in DOMAIN img_table[i] |-> colour] \in [DOMAIN img_table[i] -> Colours]
      OBVIOUS
    <2> QED
      BY <1>2, <2>1, RepaintKeeps DEF Pictures!fill_image
  <1>3. ASSUME NEW p, Pictures!set_pixel(i, p, colour) PROVE ImagesInv'
    <2>1. Pictures!Open(i) /\ Pictures!update(i, Pictures!Painted(img_table[i], {p}, colour))
      BY <1>3 DEF Pictures!set_pixel
    <2>2. Pictures!Painted(img_table[i], {p}, colour) \in [DOMAIN img_table[i] -> Colours]
      BY <1>1, <2>1, PaintedIs
    <2> QED
      BY <2>1, <2>2, RepaintKeeps
  <1>4. ASSUME NEW points, Pictures!draw_op(i, points, colour) PROVE ImagesInv'
    <2>1. Pictures!Open(i) /\ Pictures!update(i, Pictures!Painted(img_table[i], points, colour))
      BY <1>4 DEF Pictures!draw_op
    <2>2. Pictures!Painted(img_table[i], points, colour) \in [DOMAIN img_table[i] -> Colours]
      BY <1>1, <2>1, PaintedIs
    <2> QED
      BY <2>1, <2>2, RepaintKeeps
  <1> QED
    BY <1>2, <1>3, <1>4

LEMMA PasteKeeps ==
    ASSUME ImagesInv, NEW i, NEW source, NEW at, NEW transparent,
           Pictures!paste(i, source, at, transparent)
    PROVE  ImagesInv'
  <1>1. Pictures!Open(i) /\ Pictures!Open(source)
    BY DEF Pictures!paste
  <1>2. img_table[i] \in [DOMAIN img_table[i] -> Colours]
    BY <1>1, OpenIsPicture, PicturesAre
  <1>3. img_table[source] \in [DOMAIN img_table[source] -> Colours]
    BY <1>1, OpenIsPicture, PicturesAre
  <1>4. PICK pasted : pasted =
           [p \in DOMAIN img_table[i] |->
              IF [x |-> p.x - at.x, y |-> p.y - at.y] \in DOMAIN img_table[source] \ transparent
              THEN img_table[source][[x |-> p.x - at.x, y |-> p.y - at.y]]
              ELSE img_table[i][p]]
    OBVIOUS
  <1>5. pasted \in [DOMAIN img_table[i] -> Colours]
    BY <1>2, <1>3, <1>4
  <1>6. Pictures!update(i, pasted)
    BY <1>4 DEF Pictures!paste
  <1> QED
    BY <1>1, <1>5, <1>6, RepaintKeeps

LEMMA FloodIs ==
    ASSUME NEW picture \in Pictures!Pictures, NEW at, NEW colour \in Colours
    PROVE  /\ Pictures!Flooded(picture, at, colour) \in [DOMAIN picture -> Colours]
           /\ at \in DOMAIN picture =>
                Pictures!Flooded(picture, at, colour) =
                  Pictures!Painted(picture, Pictures!Region(picture, at), colour)
  <1>1. /\ picture \in [DOMAIN picture -> Colours]
        /\ DOMAIN picture \subseteq Spots /\ IsFiniteSet(DOMAIN picture)
    BY PicturesAre
  <1>2. CASE at \notin DOMAIN picture
    <2>1. Pictures!Flooded(picture, at, colour) = picture
      BY <1>2 DEF Pictures!Flooded
    <2> QED
      BY <1>1, <1>2, <2>1
  <1>3. CASE at \in DOMAIN picture
    <2>1. Pictures!Flooded(picture, at, colour) =
            Pictures!Painted(picture, Pictures!Region(picture, at), colour)
      BY <1>1, <1>3, FloodPaintsRegion
    <2> QED
      BY <1>1, <2>1, PaintedIs
  <1> QED
    BY <1>2, <1>3

LEMMA ImagesStep == ImagesInv /\ [Pictures!Next]_img_vars => ImagesInv'
  <1> SUFFICES ASSUME ImagesInv, [Pictures!Next]_img_vars PROVE ImagesInv'
    OBVIOUS
  <1>1. CASE Pictures!open \/ Pictures!create
    BY <1>1, TableKeeps
  <1>2. CASE \E i \in 1..MaxImages :
               \/ Pictures!copy(i) \/ Pictures!close(i) \/ Pictures!filter(i)
               \/ Pictures!resize(i) \/ Pictures!split_channels(i)
    BY <1>2, TableKeeps
  <1>3. CASE \E i \in 1..MaxImages, colour \in Colours :
               \/ Pictures!fill_image(i, colour)
               \/ \E p \in Pictures!Points : Pictures!set_pixel(i, p, colour)
               \/ \E points \in Shapes : Pictures!draw_op(i, points, colour)
    BY <1>3, DrawingKeeps
  <1>4. CASE \E i \in 1..MaxImages, colour \in Colours :
               \E p \in Pictures!Points : Pictures!flood_fill(i, p, colour)
    <2>1. PICK i \in 1..MaxImages, colour \in Colours, p \in Pictures!Points :
             Pictures!flood_fill(i, p, colour)
      BY <1>4
    <2>2. /\ Pictures!Open(i)
          /\ Pictures!update(i, Pictures!Flooded(img_table[i], p, colour))
      BY <2>1 DEF Pictures!flood_fill
    <2>3. Pictures!Flooded(img_table[i], p, colour) \in [DOMAIN img_table[i] -> Colours]
      BY <2>2, OpenIsPicture, FloodIs
    <2> QED
      BY <2>2, <2>3, RepaintKeeps
  <1>5. CASE \E i \in 1..MaxImages, source \in 1..MaxImages, at \in Pasted,
                transparent \in {{}, Pictures!Points} :
               Pictures!paste(i, source, at, transparent)
    BY <1>5, PasteKeeps
  <1>6. CASE UNCHANGED img_vars
    BY <1>6 DEF img_vars, ImagesInv, Slots
  <1> QED
    BY <1>1, <1>2, <1>3, <1>4, <1>5, <1>6 DEF Pictures!Next

LEMMA ImagesInvFills == ImagesInv => Pictures!FillsPaintTheRegion
  <1> SUFFICES ASSUME ImagesInv PROVE Pictures!FillsPaintTheRegion
    OBVIOUS
  <1>1. ASSUME NEW i \in DOMAIN img_table, img_table[i] # None,
               NEW at \in DOMAIN img_table[i], NEW colour \in Colours
        PROVE  Pictures!Flooded(img_table[i], at, colour) =
                 Pictures!Painted(img_table[i], Pictures!Region(img_table[i], at), colour)
    <2>1. Pictures!Open(i)
      BY <1>1 DEF Pictures!Open
    <2>2. img_table[i] \in Pictures!Pictures
      BY <2>1, OpenIsPicture
    <2> QED
      BY <1>1, <2>2, FloodIs
  <1> QED
    BY <1>1 DEF Pictures!FillsPaintTheRegion

\* A flood fill ends with the region of its point painted and nothing else, over
\* images of any sizes and colours and any drawing on them (image/src/lib.rs,
\* flood_fill).
THEOREM FillsPaintRegions == Spec => []FillsPaintTheRegion
  <1>1. Init => (focus = "images" => ImagesInv)
    BY FocusStart, ImagesInit
  <1>2. (focus = "images" => ImagesInv) /\ [Next]_vars => (focus = "images" => ImagesInv)'
    BY FocusStep, ImagesStep
  <1>3. (focus = "images" => ImagesInv) => FillsPaintTheRegion
    BY ImagesInvFills DEF FillsPaintTheRegion
  <1> QED
    BY <1>1, <1>2, <1>3, PTL DEF Spec

-----------------------------------------------------------------------------
(* Connections: what they and what was received of them are.               *)

\* The slots of the registries: a thread, a kind and a name.
ConnectionSlots == Clients \X Net!Kinds \X Names
SlotOf(table, s) == table[s[1]][s[2]][s[3]]

\* A thread inside an operation has a call.
ClientsCall == \A t \in Clients : net_pc[t] = "blocking" => net_call[t] \in Net!Call

\* A connection is opened once, for one slot, and the slot holds it or nothing.
PeersAreFresh == \A p \in Peers \ net_opened : net_sent[p] = 0 /\ net_taken[p] = 0

PeersAreOwned ==
    \A s \in ConnectionSlots :
       /\ SlotOf(net_newest, s) # None => SlotOf(net_newest, s) \in net_opened
       /\ SlotOf(net_registry, s) \in {None, SlotOf(net_newest, s)}
       /\ \A r \in ConnectionSlots :
             SlotOf(net_newest, s) = SlotOf(net_newest, r) /\ SlotOf(net_newest, s) # None => s = r

\* What was received under a name is what was read of its connection.
ReadOf(s) == IF SlotOf(net_newest, s) = None THEN 0 ELSE net_taken[SlotOf(net_newest, s)]

MessagesAreWhole ==
    \A s \in ConnectionSlots :
       /\ Len(SlotOf(net_received, s)) = ReadOf(s)
       /\ \A i \in 1 .. Len(SlotOf(net_received, s)) :
             SlotOf(net_received, s)[i] = [from |-> SlotOf(net_newest, s), number |-> i]

PeersAreCounted == \A p \in Peers : net_taken[p] <= net_sent[p]

NetInv ==
    /\ Net!TypeOK /\ ClientsCall /\ PeersAreFresh /\ PeersAreOwned
    /\ MessagesAreWhole /\ PeersAreCounted

LEMMA NetInit == ASSUME Net!NetworkAssumption, Net!Init PROVE NetInv
  <1>1. <<>> \in Seq(Net!Message) /\ Len(<<>>) = 0
    OBVIOUS
  <1>2. Net!TypeOK
    <2>1. net_received \in [Clients -> [Net!Kinds -> [Names -> Seq(Net!Message)]]]
      BY <1>1 DEF Net!Init
    <2>2. net_registry \in Net!Registry /\ net_newest \in Net!Registry
      BY DEF Net!Init, Net!Unopened, Net!Registry
    <2>3. MaxSent \in Nat
      BY DEF Net!NetworkAssumption
    <2> QED
      BY <2>1, <2>2, <2>3 DEF Net!Init, Net!TypeOK
  <1>3. \A s \in ConnectionSlots : /\ SlotOf(net_newest, s) = None /\ SlotOf(net_registry, s) = None
                         /\ SlotOf(net_received, s) = <<>>
    BY DEF Net!Init, Net!Unopened, ConnectionSlots, SlotOf
  <1>4. ClientsCall
    BY DEF Net!Init, ClientsCall
  <1>5. PeersAreFresh /\ PeersAreCounted
    BY DEF Net!Init, PeersAreFresh, PeersAreCounted
  <1>6. PeersAreOwned
    BY <1>3 DEF PeersAreOwned
  <1>7. MessagesAreWhole
    <2>1. ASSUME NEW s \in ConnectionSlots
          PROVE  Len(SlotOf(net_received, s)) = 0 /\ ReadOf(s) = 0
      BY <1>1, <1>3 DEF ReadOf
    <2> QED
      BY <2>1 DEF MessagesAreWhole
  <1> QED
    BY <1>2, <1>4, <1>5, <1>6, <1>7 DEF NetInv

-----------------------------------------------------------------------------
(* Steps that leave the connections as they are.                           *)

NetLockType ==
    /\ net_holder \in Clients \cup {None}
    /\ net_pc \in [Clients -> {"code", "blocking", "returned", "waiting"}]
    /\ net_call \in [Clients -> Net!Call \cup {None}]

NetConnectionType ==
    /\ net_registry \in Net!Registry /\ net_newest \in Net!Registry
    /\ net_connected \in [Peers -> BOOLEAN]
    /\ net_opened \subseteq Peers /\ net_ended \subseteq Peers
    /\ net_sent \in [Peers -> 0..MaxSent] /\ net_taken \in [Peers -> 0..MaxSent]
    /\ net_received \in [Clients -> [Net!Kinds -> [Names -> Seq(Net!Message)]]]

LEMMA NetTypeParts == Net!TypeOK <=> NetLockType /\ NetConnectionType
  BY DEF Net!TypeOK, NetLockType, NetConnectionType

LEMMA ConnectionsKept ==
    ASSUME NetInv, UNCHANGED Net!connections, NetLockType', ClientsCall'
    PROVE  NetInv'
  <1>1. UNCHANGED <<net_registry, net_connected, net_opened, net_ended, net_sent, net_taken,
                   net_newest, net_received>>
    BY DEF Net!connections
  <1>2. NetConnectionType'
    BY <1>1, NetTypeParts DEF NetInv, NetConnectionType
  <1>3. PeersAreFresh' /\ PeersAreCounted'
    BY <1>1 DEF NetInv, PeersAreFresh, PeersAreCounted
  <1>4. PeersAreOwned'
    BY <1>1 DEF NetInv, PeersAreOwned, SlotOf
  <1>5. MessagesAreWhole'
    BY <1>1 DEF NetInv, MessagesAreWhole, ReadOf, SlotOf
  <1> QED
    BY <1>2, <1>3, <1>4, <1>5 DEF NetInv, Net!TypeOK, NetLockType, NetConnectionType

LEMMA NetReturnedKeeps ==
    ASSUME NetInv, Net!NetworkAssumption, NEW t \in Clients, Net!Returned(t)
    PROVE  NetLockType' /\ ClientsCall'
  BY DEF NetInv, Net!TypeOK, ClientsCall, Net!Returned, NetLockType

NetLockStep(t) == Net!Yield(t) \/ Net!Acquire(t) \/ \E c \in Net!Call : Net!Begin(t, c)

LEMMA NetLockStepKeeps ==
    ASSUME NetInv, Net!NetworkAssumption, NEW t \in Clients, NetLockStep(t) PROVE NetInv'
  <1>1. NetLockType' /\ ClientsCall'
    BY ZenonT(60)
       DEF NetInv, Net!TypeOK, ClientsCall, NetLockStep, Net!Yield, Net!Acquire, Net!Begin,
           NetLockType
  <1>2. UNCHANGED Net!connections
    BY DEF NetLockStep, Net!Yield, Net!Acquire, Net!Begin
  <1> QED
    BY <1>1, <1>2, ConnectionsKept

\* The answers that change no connection.
NetPlainAnswer(t) ==
    \/ Net!http(t) \/ Net!fail(t) \/ Net!send(t) \/ Net!receive_times_out(t)
    \/ \E ok \in BOOLEAN : Net!sent_first(t, ok)

LEMMA NetPlainAnswerKeeps ==
    ASSUME NetInv, Net!NetworkAssumption, NEW t \in Clients, NetPlainAnswer(t) PROVE NetInv'
  <1>1. UNCHANGED Net!connections
    BY DEF NetPlainAnswer, Net!http, Net!fail, Net!send, Net!receive_times_out, Net!sent_first
  <1>2. CASE Net!Returned(t)
    BY <1>1, <1>2, NetReturnedKeeps, ConnectionsKept
  <1>3. CASE /\ Net!In(t, "send_receive") /\ net_call' = [net_call EXCEPT ![t].op = "receive"]
             /\ UNCHANGED <<net_holder, net_pc>>
    <2>1. net_call[t] \in Net!Call
      BY <1>3 DEF Net!In, NetInv, ClientsCall
    <2>2. [net_call[t] EXCEPT !.op = "receive"] \in Net!Call
      BY <2>1 DEF Net!Call
    <2>3. net_call' = [net_call EXCEPT ![t] = [net_call[t] EXCEPT !.op = "receive"]]
      BY <1>3
    <2>4. NetLockType' /\ ClientsCall'
      BY <1>3, <2>2, <2>3 DEF NetInv, Net!TypeOK, ClientsCall, NetLockType
    <2> QED
      BY <1>1, <2>4, ConnectionsKept
  <1> QED
    BY <1>2, <1>3
       DEF NetPlainAnswer, Net!http, Net!fail, Net!send, Net!receive_times_out, Net!sent_first

-----------------------------------------------------------------------------
(* One slot changes.                                                       *)

NetTables(V) == [Clients -> [Net!Kinds -> [Names -> V]]]
SlotUpdate(T, s, v) == [T EXCEPT ![s[1]][s[2]][s[3]] = v]

LEMMA UpdatedSlot ==
    ASSUME NEW V, NEW T \in NetTables(V), NEW v \in V, NEW s \in ConnectionSlots
    PROVE  /\ SlotUpdate(T, s, v) \in NetTables(V) /\ SlotOf(SlotUpdate(T, s, v), s) = v
           /\ \A r \in ConnectionSlots \ {s} : SlotOf(SlotUpdate(T, s, v), r) = SlotOf(T, r)
  <1>0. PICK new : new = SlotUpdate(T, s, v)
    OBVIOUS
  <1>1. PICK t \in Clients, k \in Net!Kinds, n \in Names : s = <<t, k, n>>
    BY DEF ConnectionSlots
  <1>2. s[1] = t /\ s[2] = k /\ s[3] = n
    BY <1>1
  <1>3. T[t] \in [Net!Kinds -> [Names -> V]] /\ T[t][k] \in [Names -> V]
    BY DEF NetTables
  <1>4. PICK row : row = [T[t][k] EXCEPT ![n] = v]
    OBVIOUS
  <1>5. row \in [Names -> V] /\ row[n] = v /\ \A o \in Names \ {n} : row[o] = T[t][k][o]
    BY <1>3, <1>4
  <1>6. PICK plane : plane = [T[t] EXCEPT ![k] = row]
    OBVIOUS
  <1>7. /\ plane \in [Net!Kinds -> [Names -> V]] /\ plane[k] = row
        /\ \A o \in Net!Kinds \ {k} : plane[o] = T[t][o]
    BY <1>3, <1>5, <1>6
  <1>8. new = [T EXCEPT ![t] = plane]
    BY <1>0, <1>2, <1>4, <1>6 DEF SlotUpdate
  <1>9. /\ new \in [Clients -> [Net!Kinds -> [Names -> V]]] /\ new[t] = plane
        /\ \A o \in Clients \ {t} : new[o] = T[o]
    BY <1>7, <1>8 DEF NetTables
  <1>10. SlotOf(new, s) = v
    BY <1>2, <1>5, <1>7, <1>9 DEF SlotOf
  <1>11. ASSUME NEW r \in ConnectionSlots, r # s PROVE SlotOf(new, r) = SlotOf(T, r)
    <2>1. PICK u \in Clients, l \in Net!Kinds, o \in Names : r = <<u, l, o>>
      BY DEF ConnectionSlots
    <2>2. CASE u # t
      BY <1>9, <2>1, <2>2 DEF SlotOf
    <2>3. CASE u = t /\ l # k
      BY <1>7, <1>9, <2>1, <2>3 DEF SlotOf
    <2>4. CASE u = t /\ l = k
      BY <1>1, <1>5, <1>7, <1>9, <1>11, <2>1, <2>4 DEF SlotOf
    <2> QED
      BY <2>2, <2>3, <2>4
  <1> QED
    BY <1>0, <1>9, <1>10, <1>11 DEF NetTables

LEMMA UpdatedMessages ==
    ASSUME NEW T \in NetTables(Seq(Net!Message)), NEW v \in Seq(Net!Message),
           NEW s \in ConnectionSlots
    PROVE  /\ SlotUpdate(T, s, v) \in NetTables(Seq(Net!Message))
           /\ SlotOf(SlotUpdate(T, s, v), s) = v
           /\ \A r \in ConnectionSlots \ {s} : SlotOf(SlotUpdate(T, s, v), r) = SlotOf(T, r)
  <1>1. PICK V : V = Seq(Net!Message)
    OBVIOUS
  <1>2. T \in NetTables(V) /\ v \in V
    BY <1>1
  <1>3. /\ SlotUpdate(T, s, v) \in NetTables(V) /\ SlotOf(SlotUpdate(T, s, v), s) = v
        /\ \A r \in ConnectionSlots \ {s} : SlotOf(SlotUpdate(T, s, v), r) = SlotOf(T, r)
    BY <1>2, UpdatedSlot
  <1> QED
    BY <1>1, <1>3

\* The slot an operation is about.
LEMMA SlotOfCall ==
    ASSUME NetInv, NEW t \in Clients, net_pc[t] = "blocking"
    PROVE  /\ net_call[t] \in Net!Call
           /\ net_call[t].kind \in Net!Kinds /\ net_call[t].name \in Names
           /\ <<t, net_call[t].kind, net_call[t].name>> \in ConnectionSlots
           /\ Net!Entry(t) = SlotOf(net_registry, <<t, net_call[t].kind, net_call[t].name>>)
  BY DEF NetInv, ClientsCall, Net!Call, ConnectionSlots, Net!Entry, SlotOf

\* The slot of a connection that is held is the only one to know it.
LEMMA HeldConnection ==
    ASSUME NetInv, Net!NetworkAssumption, NEW s \in ConnectionSlots, SlotOf(net_registry, s) # None
    PROVE  /\ SlotOf(net_newest, s) = SlotOf(net_registry, s) /\ SlotOf(net_registry, s) \in Peers
           /\ \A r \in ConnectionSlots \ {s} : SlotOf(net_newest, r) # SlotOf(net_registry, s)
  BY DEF NetInv, PeersAreOwned, Net!TypeOK

LEMMA NetReceiveEndsKeeps ==
    ASSUME NetInv, Net!NetworkAssumption, NEW t \in Clients, Net!receive_ends(t) PROVE NetInv'
  <1>1. NetLockType' /\ ClientsCall'
    BY NetReturnedKeeps DEF Net!receive_ends
  <1>2. UNCHANGED <<net_registry, net_opened, net_ended, net_sent, net_taken, net_newest,
                   net_received>>
    BY DEF Net!receive_ends
  <1>3. net_connected' \in [Peers -> BOOLEAN]
    <2>1. \/ net_connected' = net_connected
          \/ net_connected' = [net_connected EXCEPT ![Net!Entry(t)] = FALSE]
      BY DEF Net!receive_ends
    <2> QED
      BY <2>1 DEF NetInv, Net!TypeOK
  <1>4. NetConnectionType'
    BY <1>2, <1>3 DEF NetInv, Net!TypeOK, NetConnectionType
  <1>5. PeersAreFresh' /\ PeersAreCounted'
    BY <1>2 DEF NetInv, PeersAreFresh, PeersAreCounted
  <1>6. PeersAreOwned' /\ MessagesAreWhole'
    BY <1>2 DEF NetInv, PeersAreOwned, MessagesAreWhole, ReadOf, SlotOf
  <1> QED
    BY <1>1, <1>4, <1>5, <1>6, NetTypeParts DEF NetInv, Net!TypeOK, NetLockType, NetConnectionType

LEMMA NetCloseKeeps ==
    ASSUME NetInv, Net!NetworkAssumption, NEW t \in Clients, Net!close(t) PROVE NetInv'
  <1>0. PICK s \in ConnectionSlots : s = <<t, net_call[t].kind, net_call[t].name>>
    BY SlotOfCall DEF Net!close, Net!In
  <1>1. NetLockType' /\ ClientsCall'
    BY NetReturnedKeeps DEF Net!close
  <1>2. UNCHANGED <<net_connected, net_opened, net_ended, net_sent, net_taken, net_newest,
                   net_received>>
    BY DEF Net!close
  <1>3. net_call[t].kind \in Net!Kinds /\ net_call[t].name \in Names
    BY SlotOfCall DEF Net!close, Net!In
  <1>4. /\ net_registry' \in Net!Registry /\ SlotOf(net_registry', s) = None
        /\ \A r \in ConnectionSlots \ {s} : SlotOf(net_registry', r) = SlotOf(net_registry, r)
    <2>1. net_registry' = SlotUpdate(net_registry, s, None)
      BY <1>0 DEF Net!close, SlotUpdate
    <2>2. net_registry \in NetTables(Peers \cup {None})
      BY DEF NetInv, Net!TypeOK, Net!Registry, NetTables
    <2>3. None \in Peers \cup {None}
      OBVIOUS
    <2>4. /\ net_registry' \in NetTables(Peers \cup {None}) /\ SlotOf(net_registry', s) = None
          /\ \A r \in ConnectionSlots \ {s} : SlotOf(net_registry', r) = SlotOf(net_registry, r)
      BY <2>1, <2>2, <2>3, UpdatedSlot
    <2> QED
      BY <2>4 DEF Net!Registry, NetTables
  <1>5. NetConnectionType'
    BY <1>2, <1>4 DEF NetInv, Net!TypeOK, NetConnectionType
  <1>6. PeersAreFresh' /\ PeersAreCounted'
    BY <1>2 DEF NetInv, PeersAreFresh, PeersAreCounted
  <1>7. PeersAreOwned'
    <2>1. ASSUME NEW r \in ConnectionSlots
          PROVE  SlotOf(net_registry', r) \in {None, SlotOf(net_newest, r)}
      BY <1>4 DEF NetInv, PeersAreOwned
    <2> QED
      BY <1>2, <2>1 DEF NetInv, PeersAreOwned
  <1>8. MessagesAreWhole'
    BY <1>2 DEF NetInv, MessagesAreWhole, ReadOf, SlotOf
  <1> QED
    BY <1>1, <1>5, <1>6, <1>7, <1>8 DEF NetInv, Net!TypeOK, NetLockType, NetConnectionType

LEMMA NetPeersKeep ==
    ASSUME NetInv, Net!NetworkAssumption, NEW p \in Peers, Net!PeerSends(p) \/ Net!PeerCloses(p)
    PROVE  NetInv'
  <1>1. UNCHANGED <<net_holder, net_pc, net_call, net_registry, net_connected, net_opened,
                   net_taken, net_newest, net_received>>
    BY DEF Net!PeerSends, Net!PeerCloses
  <1>2. net_ended' \subseteq Peers
    BY DEF Net!PeerSends, Net!PeerCloses, NetInv, Net!TypeOK
  <1>3. p \in net_opened /\ MaxSent \in Nat
    BY DEF Net!PeerSends, Net!PeerCloses, Net!NetworkAssumption
  <1>4. net_sent \in [Peers -> 0..MaxSent] /\ net_taken \in [Peers -> 0..MaxSent]
    BY DEF NetInv, Net!TypeOK
  <1>5. \/ net_sent' = net_sent
        \/ net_sent' = [net_sent EXCEPT ![p] = @ + 1] /\ net_sent[p] < MaxSent
    BY DEF Net!PeerSends, Net!PeerCloses
  <1>6. /\ net_sent' \in [Peers -> 0..MaxSent] /\ net_sent'[p] >= net_sent[p]
        /\ \A q \in Peers \ {p} : net_sent'[q] = net_sent[q]
    BY <1>3, <1>4, <1>5
  <1>7. NetLockType' /\ NetConnectionType' /\ ClientsCall'
    BY <1>1, <1>2, <1>6 DEF NetInv, Net!TypeOK, NetLockType, NetConnectionType, ClientsCall
  <1>8. PeersAreFresh'
    BY <1>1, <1>3, <1>6 DEF NetInv, PeersAreFresh
  <1>9. PeersAreCounted'
    BY <1>1, <1>3, <1>4, <1>6 DEF NetInv, PeersAreCounted
  <1>10. PeersAreOwned' /\ MessagesAreWhole'
    BY <1>1 DEF NetInv, PeersAreOwned, MessagesAreWhole, ReadOf, SlotOf
  <1> QED
    BY <1>7, <1>8, <1>9, <1>10 DEF NetInv, Net!TypeOK, NetLockType, NetConnectionType

-----------------------------------------------------------------------------
(* A connection is opened.                                                 *)

LEMMA NetConnectKeeps ==
    ASSUME NetInv, Net!NetworkAssumption, NEW t \in Clients, NEW p \in Peers, Net!connect(t, p)
    PROVE  NetInv'
  <1>1. PICK s \in ConnectionSlots : s = <<t, net_call[t].kind, net_call[t].name>>
    BY SlotOfCall DEF Net!connect, Net!In
  <1>2. net_call[t].kind \in Net!Kinds /\ net_call[t].name \in Names
    BY SlotOfCall DEF Net!connect, Net!In
  <1>3. NetLockType' /\ ClientsCall'
    BY NetReturnedKeeps DEF Net!connect
  <1>4. /\ p \in Peers \ net_opened /\ net_opened' = net_opened \cup {p}
        /\ UNCHANGED <<net_ended, net_sent, net_taken>>
    BY DEF Net!connect
  <1>5. p # None
    BY DEF Net!NetworkAssumption
  <1>6. net_registry' \in Net!Registry /\ SlotOf(net_registry', s) = p
        /\ \A r \in ConnectionSlots \ {s} : SlotOf(net_registry', r) = SlotOf(net_registry, r)
    <2>1. net_registry' = SlotUpdate(net_registry, s, p)
      BY <1>1 DEF Net!connect, SlotUpdate
    <2>2. net_registry \in NetTables(Peers \cup {None})
      BY DEF NetInv, Net!TypeOK, Net!Registry, NetTables
    <2>3. p \in Peers \cup {None}
      OBVIOUS
    <2>4. /\ net_registry' \in NetTables(Peers \cup {None}) /\ SlotOf(net_registry', s) = p
          /\ \A r \in ConnectionSlots \ {s} : SlotOf(net_registry', r) = SlotOf(net_registry, r)
      BY <1>1, <2>1, <2>2, <2>3, UpdatedSlot
    <2> QED
      BY <2>4 DEF Net!Registry, NetTables
  <1>7. net_newest' \in Net!Registry /\ SlotOf(net_newest', s) = p
        /\ \A r \in ConnectionSlots \ {s} : SlotOf(net_newest', r) = SlotOf(net_newest, r)
    <2>1. net_newest' = SlotUpdate(net_newest, s, p)
      BY <1>1 DEF Net!connect, SlotUpdate
    <2>2. net_newest \in NetTables(Peers \cup {None})
      BY DEF NetInv, Net!TypeOK, Net!Registry, NetTables
    <2>3. p \in Peers \cup {None}
      OBVIOUS
    <2>4. /\ net_newest' \in NetTables(Peers \cup {None}) /\ SlotOf(net_newest', s) = p
          /\ \A r \in ConnectionSlots \ {s} : SlotOf(net_newest', r) = SlotOf(net_newest, r)
      BY <1>1, <2>1, <2>2, <2>3, UpdatedSlot
    <2> QED
      BY <2>4 DEF Net!Registry, NetTables
  <1>8. /\ net_received' \in [Clients -> [Net!Kinds -> [Names -> Seq(Net!Message)]]]
        /\ SlotOf(net_received', s) = <<>>
        /\ \A r \in ConnectionSlots \ {s} : SlotOf(net_received', r) = SlotOf(net_received, r)
    <2>0. <<>> \in Seq(Net!Message)
      OBVIOUS
    <2>1. PICK empty \in Seq(Net!Message) : empty = <<>>
      BY <2>0
    <2>2. net_received' = SlotUpdate(net_received, s, empty)
      BY <1>1, <2>1 DEF Net!connect, SlotUpdate
    <2>3. net_received \in NetTables(Seq(Net!Message))
      BY DEF NetInv, Net!TypeOK, NetTables
    <2>4. /\ net_received' \in NetTables(Seq(Net!Message)) /\ SlotOf(net_received', s) = empty
          /\ \A r \in ConnectionSlots \ {s} : SlotOf(net_received', r) = SlotOf(net_received, r)
      <3>1. s \in ConnectionSlots /\ empty \in Seq(Net!Message)
        BY <1>1, <2>1
      <3>2. /\ SlotUpdate(net_received, s, empty) \in NetTables(Seq(Net!Message))
            /\ SlotOf(SlotUpdate(net_received, s, empty), s) = empty
            /\ \A r \in ConnectionSlots \ {s} :
                  SlotOf(SlotUpdate(net_received, s, empty), r) = SlotOf(net_received, r)
        BY <2>3, <3>1, UpdatedMessages, ZenonT(60)
      <3> QED
        BY <2>2, <3>2, Zenon
    <2> QED
      BY <2>1, <2>4 DEF NetTables
  <1>9. NetConnectionType'
    BY <1>4, <1>6, <1>7, <1>8 DEF NetInv, Net!TypeOK, NetConnectionType, Net!connect
  <1>10. PeersAreFresh' /\ PeersAreCounted'
    BY <1>4 DEF NetInv, PeersAreFresh, PeersAreCounted
  <1>11. \A r \in ConnectionSlots \ {s} : SlotOf(net_newest, r) # p
    BY <1>4, <1>5 DEF NetInv, PeersAreOwned
  <1>12. PeersAreOwned'
    BY <1>4, <1>6, <1>7, <1>11 DEF NetInv, PeersAreOwned
  <1>13. MessagesAreWhole'
    <2>1. net_taken[p] = 0
      BY <1>4 DEF NetInv, PeersAreFresh
    <2>2. Len(<<>>) = 0
      OBVIOUS
    <2>3. ReadOf(s)' = 0 /\ Len(SlotOf(net_received', s)) = 0
      BY <1>4, <1>5, <1>7, <1>8, <2>1, <2>2 DEF ReadOf
    <2>4. ASSUME NEW r \in ConnectionSlots \ {s}
          PROVE  ReadOf(r)' = ReadOf(r) /\ SlotOf(net_received', r) = SlotOf(net_received, r)
                 /\ SlotOf(net_newest', r) = SlotOf(net_newest, r)
      BY <1>4, <1>7, <1>8, <2>4 DEF ReadOf
    <2> QED
      BY <2>3, <2>4 DEF NetInv, MessagesAreWhole
  <1> QED
    BY <1>3, <1>9, <1>10, <1>12, <1>13 DEF NetInv, Net!TypeOK, NetLockType, NetConnectionType

-----------------------------------------------------------------------------
(* Messages are received.                                                  *)

\* The messages of p after the first read of them.
MessagesFrom(p, read, count) == [i \in 1 .. count |-> [from |-> p, number |-> read + i]]

LEMMA MessagesAfter ==
    ASSUME NEW p \in Peers, NEW read \in Nat, NEW count \in Nat, MaxSent \in Nat,
           read + count <= MaxSent
    PROVE  /\ MessagesFrom(p, read, count) \in Seq(Net!Message)
           /\ Len(MessagesFrom(p, read, count)) = count
           /\ \A i \in 1 .. count :
                 MessagesFrom(p, read, count)[i] = [from |-> p, number |-> read + i]
  <1>1. \A i \in 1 .. count : [from |-> p, number |-> read + i] \in Net!Message
    BY DEF Net!Message
  <1> QED
    BY <1>1 DEF MessagesFrom

LEMMA MoreMessages ==
    ASSUME NEW got \in Seq(Net!Message), NEW new \in Seq(Net!Message), NEW p \in Peers,
           \A i \in 1 .. Len(got) : got[i] = [from |-> p, number |-> i],
           \A i \in 1 .. Len(new) : new[i] = [from |-> p, number |-> Len(got) + i]
    PROVE  /\ got \o new \in Seq(Net!Message) /\ Len(got \o new) = Len(got) + Len(new)
           /\ \A i \in 1 .. Len(got \o new) : (got \o new)[i] = [from |-> p, number |-> i]
  <1>1. got \o new \in Seq(Net!Message) /\ Len(got \o new) = Len(got) + Len(new)
    OBVIOUS
  <1>2. ASSUME NEW i \in 1 .. Len(got) + Len(new)
        PROVE  (got \o new)[i] = [from |-> p, number |-> i]
    <2>1. CASE i <= Len(got)
      <3>1. i \in 1 .. Len(got)
        BY <2>1
      <3>2. (got \o new)[i] = got[i]
        BY <3>1
      <3> QED
        BY <3>1, <3>2
    <2>2. CASE i > Len(got)
      <3>1. (got \o new)[i] = new[i - Len(got)] /\ i - Len(got) \in 1 .. Len(new)
        BY <2>2
      <3>2. Len(got) + (i - Len(got)) = i
        OBVIOUS
      <3> QED
        BY <3>1, <3>2
    <2>3. i \in Nat /\ Len(got) \in Nat
      OBVIOUS
    <2>4. i <= Len(got) \/ i > Len(got)
      BY <2>3
    <2> QED
      BY <2>1, <2>2, <2>4
  <1> QED
    BY <1>1, <1>2

LEMMA NetReceiveKeeps ==
    ASSUME NetInv, Net!NetworkAssumption, NEW t \in Clients, NEW count \in 1 .. MaxSent,
           Net!receive(t, count)
    PROVE  NetInv'
  <1>1. PICK s \in ConnectionSlots : s = <<t, net_call[t].kind, net_call[t].name>>
    BY SlotOfCall DEF Net!receive, Net!In
  <1>2. Net!Entry(t) = SlotOf(net_registry, s) /\ Net!Entry(t) # None
    BY <1>1, SlotOfCall DEF Net!receive, Net!In, Net!Usable
  <1>3. PICK p \in Peers : /\ p = SlotOf(net_registry, s) /\ p = SlotOf(net_newest, s)
                          /\ p = Net!Entry(t)
                          /\ p \in net_opened /\ p # None
                          /\ \A r \in ConnectionSlots \ {s} : SlotOf(net_newest, r) # p
    BY <1>1, <1>2, HeldConnection DEF NetInv, PeersAreOwned
  <1>4. NetLockType' /\ ClientsCall'
    BY NetReturnedKeeps DEF Net!receive
  <1>5. /\ net_taken' = [net_taken EXCEPT ![p] = net_taken[p] + count]
        /\ UNCHANGED <<net_registry, net_connected, net_opened, net_ended, net_sent, net_newest>>
    BY <1>3 DEF Net!receive
  <1>6. /\ net_taken[p] \in Nat /\ net_sent[p] \in 0 .. MaxSent /\ MaxSent \in Nat /\ count \in Nat
        /\ net_taken[p] + count <= net_sent[p]
    <2>1. net_taken[p] \in 0 .. MaxSent /\ net_sent[p] \in 0 .. MaxSent /\ MaxSent \in Nat
      BY DEF NetInv, Net!TypeOK, Net!NetworkAssumption
    <2>2. count \in 1 .. (net_sent[p] - net_taken[p])
      BY <1>3 DEF Net!receive
    <2> QED
      BY <2>1, <2>2
  <1>7. /\ net_taken' \in [Peers -> 0 .. MaxSent] /\ net_taken'[p] = net_taken[p] + count
        /\ \A q \in Peers \ {p} : net_taken'[q] = net_taken[q]
    <2>1. net_taken[p] + count \in 0 .. MaxSent
      BY <1>6
    <2> QED
      BY <1>5, <2>1 DEF NetInv, Net!TypeOK
  <1>8. PICK got \in Seq(Net!Message) : got = SlotOf(net_received, s)
    BY <1>1 DEF NetInv, Net!TypeOK, ConnectionSlots, SlotOf
  <1>9. /\ Len(got) = net_taken[p]
        /\ \A i \in 1 .. Len(got) : got[i] = [from |-> p, number |-> i]
    <2>1. Len(SlotOf(net_received, s)) = ReadOf(s)
      BY <1>1 DEF NetInv, MessagesAreWhole
    <2>2. ReadOf(s) = net_taken[p]
      BY <1>3 DEF ReadOf
    <2>3. \A i \in 1 .. Len(SlotOf(net_received, s)) :
             SlotOf(net_received, s)[i] = [from |-> SlotOf(net_newest, s), number |-> i]
      BY <1>1 DEF NetInv, MessagesAreWhole
    <2> QED
      BY <1>3, <1>8, <2>1, <2>2, <2>3
  <1>10. PICK all : all = got \o MessagesFrom(p, Len(got), count)
    OBVIOUS
  <1>11. /\ all \in Seq(Net!Message) /\ Len(all) = net_taken[p] + count
         /\ \A i \in 1 .. Len(all) : all[i] = [from |-> p, number |-> i]
    <2>1. /\ Len(got) + count <= MaxSent /\ count \in Nat /\ MaxSent \in Nat
          /\ got \in Seq(Net!Message)
      BY <1>6, <1>8, <1>9
    <2>2. PICK new : new = MessagesFrom(p, Len(got), count)
      OBVIOUS
    <2>3. Len(got) \in Nat
      OBVIOUS
    <2>4. /\ MessagesFrom(p, Len(got), count) \in Seq(Net!Message)
          /\ Len(MessagesFrom(p, Len(got), count)) = count
          /\ \A i \in 1 .. count :
                MessagesFrom(p, Len(got), count)[i] = [from |-> p, number |-> Len(got) + i]
      BY <2>1, <2>3, MessagesAfter
    <2>5. /\ new \in Seq(Net!Message) /\ Len(new) = count
          /\ \A i \in 1 .. Len(new) : new[i] = [from |-> p, number |-> Len(got) + i]
      BY <2>2, <2>4
    <2>6. /\ got \o new \in Seq(Net!Message) /\ Len(got \o new) = Len(got) + Len(new)
          /\ \A i \in 1 .. Len(got \o new) : (got \o new)[i] = [from |-> p, number |-> i]
      BY <1>9, <2>1, <2>5, MoreMessages
    <2> QED
      BY <1>9, <1>10, <2>2, <2>5, <2>6
  <1>12. /\ net_received' \in NetTables(Seq(Net!Message)) /\ SlotOf(net_received', s) = all
         /\ \A r \in ConnectionSlots \ {s} : SlotOf(net_received', r) = SlotOf(net_received, r)
    <2>1. net_received' = SlotUpdate(net_received, s, all)
      <3>1. SlotOf(net_received, s) = net_received[t][net_call[t].kind][net_call[t].name]
        BY <1>1 DEF SlotOf
      <3>2. all = net_received[t][net_call[t].kind][net_call[t].name]
                  \o [i \in 1 .. count |->
                        [from |-> Net!Entry(t), number |-> net_taken[Net!Entry(t)] + i]]
        BY <1>3, <1>8, <1>9, <1>10, <3>1 DEF MessagesFrom
      <3> QED
        BY <1>1, <3>2 DEF Net!receive, SlotUpdate
    <2>2. net_received \in NetTables(Seq(Net!Message))
      BY DEF NetInv, Net!TypeOK, NetTables
    <2>3. s \in ConnectionSlots /\ all \in Seq(Net!Message)
      BY <1>1, <1>11
    <2>4. /\ SlotUpdate(net_received, s, all) \in NetTables(Seq(Net!Message))
          /\ SlotOf(SlotUpdate(net_received, s, all), s) = all
          /\ \A r \in ConnectionSlots \ {s} :
                SlotOf(SlotUpdate(net_received, s, all), r) = SlotOf(net_received, r)
      BY <2>2, <2>3, UpdatedMessages, ZenonT(60)
    <2> QED
      BY <2>1, <2>4, Zenon
  <1>13. NetConnectionType'
    BY <1>5, <1>7, <1>12 DEF NetInv, Net!TypeOK, NetConnectionType, NetTables
  <1>14. PeersAreFresh' /\ PeersAreCounted'
    BY <1>3, <1>5, <1>6, <1>7 DEF NetInv, PeersAreFresh, PeersAreCounted
  <1>15. PeersAreOwned'
    BY <1>5 DEF NetInv, PeersAreOwned
  <1>16. MessagesAreWhole'
    <2>1. ReadOf(s)' = net_taken[p] + count
      BY <1>3, <1>5, <1>7 DEF ReadOf
    <2>2. ASSUME NEW r \in ConnectionSlots \ {s}
          PROVE  ReadOf(r)' = ReadOf(r) /\ SlotOf(net_received', r) = SlotOf(net_received, r)
                 /\ SlotOf(net_newest', r) = SlotOf(net_newest, r)
      <3>1. SlotOf(net_newest, r) # p /\ SlotOf(net_newest, r) \in Peers \cup {None}
        BY <1>3, <2>2 DEF NetInv, PeersAreOwned, Net!TypeOK
      <3> QED
        BY <1>5, <1>7, <1>12, <2>2, <3>1 DEF ReadOf
    <2>3. SlotOf(net_newest', s) = p
      BY <1>3, <1>5
    <2> QED
      BY <1>11, <1>12, <2>1, <2>2, <2>3 DEF NetInv, MessagesAreWhole
  <1> QED
    BY <1>4, <1>13, <1>14, <1>15, <1>16 DEF NetInv, Net!TypeOK, NetLockType, NetConnectionType

-----------------------------------------------------------------------------
(* Every step.                                                             *)

LEMMA NetCases ==
    Net!Next => \/ \E t \in Clients :
                  \/ NetLockStep(t) \/ NetPlainAnswer(t) \/ Net!receive_ends(t) \/ Net!close(t)
                  \/ \E p \in Peers : Net!connect(t, p)
                  \/ \E count \in 1 .. MaxSent : Net!receive(t, count)
            \/ \E p \in Peers : Net!PeerSends(p) \/ Net!PeerCloses(p)
  BY DEF Net!Next, NetLockStep, NetPlainAnswer

LEMMA NetStep ==
    ASSUME NetInv, Net!NetworkAssumption, [Net!Next]_net_vars PROVE NetInv'
  <1>1. CASE UNCHANGED net_vars
    <2>1. UNCHANGED <<net_holder, net_pc, net_call>> /\ UNCHANGED Net!connections
      BY <1>1 DEF net_vars, Net!connections
    <2>2. NetLockType' /\ ClientsCall'
      BY <2>1 DEF NetInv, Net!TypeOK, NetLockType, ClientsCall
    <2> QED
      BY <2>1, <2>2, ConnectionsKept
  <1> QED
    BY <1>1, NetCases, NetLockStepKeeps, NetPlainAnswerKeeps, NetReceiveEndsKeeps, NetCloseKeeps,
       NetConnectKeeps, NetReceiveKeeps, NetPeersKeep

\* What a thread receives under a name is what the connection it opened last has
\* sent, in order and once, for any threads, names, connections and messages
\* (connect, receive and close over the registries).
THEOREM MessagesInOrder == Spec => []ReceivedInOrder
  <1>1. Net!NetworkAssumption
    BY NativeAssumption
  <1>2. Init => (focus = "network" => NetInv)
    BY <1>1, FocusStart, NetInit
  <1>3. (focus = "network" => NetInv) /\ [Next]_vars => (focus = "network" => NetInv)'
    BY <1>1, FocusStep, NetStep
  <1>4. (focus = "network" => NetInv) => ReceivedInOrder
    <2> SUFFICES ASSUME NetInv, NEW t \in Clients, NEW k \in Net!Kinds, NEW n \in Names,
                        NEW i \in DOMAIN net_received[t][k][n]
                 PROVE  net_received[t][k][n][i] = [from |-> net_newest[t][k][n], number |-> i]
      BY DEF ReceivedInOrder, Net!ReceivedInOrder
    <2>1. PICK s \in ConnectionSlots : s = <<t, k, n>>
      BY DEF ConnectionSlots
    <2>2. /\ SlotOf(net_received, s) = net_received[t][k][n]
          /\ SlotOf(net_newest, s) = net_newest[t][k][n]
      BY <2>1 DEF SlotOf
    <2>3. net_received[t][k][n] \in Seq(Net!Message)
      BY DEF NetInv, Net!TypeOK
    <2>4. i \in 1 .. Len(net_received[t][k][n])
      BY <2>3
    <2> QED
      BY <2>1, <2>2, <2>4 DEF NetInv, MessagesAreWhole
  <1> QED
    BY <1>2, <1>3, <1>4, PTL DEF Spec

\* Type correctness of the connections, for any threads, names and peers.
THEOREM ConnectionTypes == Spec => [](focus = "network" => Net!TypeOK)
  <1>1. Net!NetworkAssumption
    BY NativeAssumption
  <1>2. Init => (focus = "network" => NetInv)
    BY <1>1, FocusStart, NetInit
  <1>3. (focus = "network" => NetInv) /\ [Next]_vars => (focus = "network" => NetInv)'
    BY <1>1, FocusStep, NetStep
  <1>4. NetInv => Net!TypeOK
    BY DEF NetInv
  <1> QED
    BY <1>2, <1>3, <1>4, PTL DEF Spec

=============================================================================
