-------------------------------- MODULE Input --------------------------------
(***************************************************************************)
(* The keyboard and the mouse of the graphics module                       *)
(* (rust/graphics/src/input.rs) and of the game module                     *)
(* (rust/game/src/input.rs): keys by name, what is down or was pressed in  *)
(* this frame, and the movement and the scrolling, which the game module   *)
(* answers once and resets.  The window of macroquad is external.          *)
(***************************************************************************)
EXTENDS Integers, Sequences

CONSTANTS
    Keys,          \* macroquad's key codes
    KEYS,          \* the names of the graphics module, canonical ones first
    GameKeys,      \* the names of the game module: from names to codes
    Buttons,       \* mouse buttons
    UnknownButton, \* macroquad's button for those it does not know
    Steps,         \* how far the pointer and the wheel move at a time
    MaxFrames,     \* bound: frames of a run
    MaxEvents      \* bound: events between two frames

\* What the constants are: a name is in the table once, and the table has every
\* code that the game module knows.
InputAssumption ==
    /\ KEYS \in Seq(STRING \X Keys)
    /\ \A i \in DOMAIN KEYS : KEYS[i][1] # ""
    /\ \A i, j \in DOMAIN KEYS : KEYS[i][1] = KEYS[j][1] => i = j
    /\ \A name \in DOMAIN GameKeys : \E i \in DOMAIN KEYS : KEYS[i][2] = GameKeys[name]
    /\ UnknownButton \in Buttons
    /\ Steps \subseteq Int /\ MaxFrames \in Nat /\ MaxEvents \in Nat

VARIABLES
    headless,
    \* macroquad, external
    down, pressed, released,   \* keys and buttons: now, and in this frame
    pointer, wheel,            \* where the pointer is, and the wheel's turn in this frame
    pending,                   \* events that the next frame will see
    frame,
    \* the game module's STATE
    mouse_query,               \* where the pointer was when its movement was last asked for
    scroll,                    \* the wheel's turn that was not yet asked for
    \* the program
    moved,                     \* the movement it was told of, in all
    scrolled                   \* the turns it was told of in this frame, in all

vars == <<headless, down, pressed, released, pointer, wheel, pending, frame,
          mouse_query, scroll, moved, scrolled>>

macroquad == <<down, pressed, released, pointer, wheel, pending, frame>>
Switches == Keys \cup Buttons
NoKey == "none"

-----------------------------------------------------------------------------
\* Names and codes.  A name is looked up in its normal form (small letters and
\* digits; the game module: capitals), which is what the model writes; a code has
\* the first of its names.
Named(name) == {i \in DOMAIN KEYS : KEYS[i][1] = name}
FirstOf(positions) == CHOOSE i \in positions : \A j \in positions : i <= j
key_code(name) == IF Named(name) = {} THEN NoKey ELSE KEYS[FirstOf(Named(name))][2]
key_name(code) ==
    LET named == {i \in DOMAIN KEYS : KEYS[i][2] = code}
    IN  IF named = {} THEN "" ELSE KEYS[FirstOf(named)][1]
game_key_code(name) == IF name \in DOMAIN GameKeys THEN GameKeys[name] ELSE NoKey
key_set(codes) == {key_name(code) : code \in codes}

\* A query about a key: nothing is pressed without a window, nor under a name
\* that is not in the table.
Query(code, switches) == ~headless /\ code \in switches

is_down(name) == Query(key_code(name), down)
is_pressed(name) == Query(key_code(name), pressed)
is_released(name) == Query(key_code(name), released)
any_down == ~headless /\ down \cap Keys # {}
keys_down == IF headless THEN {} ELSE key_set(down \cap Keys)
keys_pressed == IF headless THEN {} ELSE key_set(pressed \cap Keys)
keys_released == IF headless THEN {} ELSE key_set(released \cap Keys)

game_key_down(name) == Query(game_key_code(name), down)
game_key_pressed(name) == Query(game_key_code(name), pressed)
game_key_released(name) == Query(game_key_code(name), released)
game_key_up(name) == ~headless /\ game_key_code(name) \notin down

\* The graphics module takes an index it does not know for the unknown button,
\* which a user may have; the game module knows no such name.
button_of(index) == IF index \in Buttons THEN index ELSE UnknownButton
mouse_button(name) == IF name \in Buttons \ {UnknownButton} THEN name ELSE NoKey
mouse_down(index) == Query(button_of(index), down)
mouse_pressed(index) == Query(button_of(index), pressed)
mouse_released(index) == Query(button_of(index), released)

\* The game module asks by the button's name.
game_mouse_down(name) == Query(mouse_button(name), down)
game_mouse_pressed(name) == Query(mouse_button(name), pressed)
game_mouse_released(name) == Query(mouse_button(name), released)

\* The graphics module answers with the frame's movement and may be asked again.
mouse_wheel == IF headless THEN 0 ELSE wheel
mouse_position == IF headless THEN 0 ELSE pointer

-----------------------------------------------------------------------------
TypeOK ==
    /\ headless \in BOOLEAN
    /\ down \subseteq Switches /\ pressed \subseteq Switches /\ released \subseteq Switches
    /\ pointer \in Int /\ wheel \in Int /\ mouse_query \in Int /\ moved \in Int
    /\ scroll \in Int /\ scrolled \in Int
    /\ frame \in 0 .. MaxFrames /\ Len(pending) <= MaxEvents

Init ==
    /\ headless \in BOOLEAN
    /\ down = {} /\ pressed = {} /\ released = {}
    /\ pointer = 0 /\ wheel = 0 /\ pending = <<>> /\ frame = 0
    /\ mouse_query = 0 /\ scroll = 0
    /\ moved = 0 /\ scrolled = 0

\* The user does something; the window hands it over with the next frame.
Event(kind, of) == [kind |-> kind, of |-> of]
User ==
    /\ ~headless /\ frame < MaxFrames /\ Len(pending) < MaxEvents
    /\ \E event \in {Event("down", s) : s \in Switches} \cup {Event("up", s) : s \in Switches}
                    \cup {Event("move", d) : d \in Steps} \cup {Event("turn", d) : d \in Steps} :
          pending' = Append(pending, event)
    /\ UNCHANGED <<headless, down, pressed, released, pointer, wheel, frame,
                   mouse_query, scroll, moved, scrolled>>

OfKind(kind) == {i \in DOMAIN pending : pending[i].kind = kind}
Happened(kind) == {pending[i].of : i \in OfKind(kind)}
Total(kind) ==
    LET sum[n \in Nat] ==
          IF n = 0 THEN 0 ELSE sum[n - 1] + IF n \in OfKind(kind) THEN pending[n].of ELSE 0
    IN  sum[Len(pending)]
LastOf(s) == CHOOSE i \in OfKind("down") \cup OfKind("up") :
                pending[i].of = s /\ \A j \in OfKind("down") \cup OfKind("up") :
                    pending[j].of = s => j <= i

\* A mistake: the turn that nobody asked for is kept and added to.
NextFrame_adds_up ==
    /\ frame < MaxFrames
    /\ frame' = frame + 1
    /\ pressed' = Happened("down") \ down
    /\ released' = Happened("up") \cap (down \cup Happened("down"))
    /\ down' = (down \ Happened("up")) \cup
               {s \in Happened("down") : pending[LastOf(s)].kind = "down"}
    /\ pointer' = pointer + Total("move")
    /\ wheel' = Total("turn")
    /\ pending' = <<>>
    /\ scroll' = IF headless THEN scroll ELSE scroll + wheel'
    /\ scrolled' = 0
    /\ UNCHANGED <<headless, mouse_query, moved>>

\* The next frame of the game: what happened since the last one, and the turn of
\* the wheel, which replaces the one that nobody asked for.
NextFrame ==
    /\ frame < MaxFrames
    /\ frame' = frame + 1
    /\ pressed' = Happened("down") \ down
    /\ released' = Happened("up") \cap (down \cup Happened("down"))
    /\ down' = (down \ Happened("up")) \cup
               {s \in Happened("down") : pending[LastOf(s)].kind = "down"}
    /\ pointer' = pointer + Total("move")
    /\ wheel' = Total("turn")
    /\ pending' = <<>>
    /\ scroll' = IF headless THEN scroll ELSE wheel'
    /\ scrolled' = 0
    /\ UNCHANGED <<headless, mouse_query, moved>>

\* game.mouseDeltaX: the movement since the last question.
Delta == IF headless THEN 0 ELSE pointer - mouse_query
mouse_delta ==
    /\ moved' = moved + Delta
    /\ mouse_query' = IF headless THEN mouse_query ELSE pointer
    /\ UNCHANGED <<headless, macroquad, scroll, scrolled>>

\* game.mouseScrollX: the turn that nobody was told of.
mouse_scroll ==
    /\ scrolled' = scrolled + scroll
    /\ scroll' = 0
    /\ UNCHANGED <<headless, macroquad, mouse_query, moved>>

Next == User \/ NextFrame \/ mouse_delta \/ mouse_scroll

Spec == Init /\ [][Next]_vars

-----------------------------------------------------------------------------
\* What the game module told of the pointer's movement is where the pointer was
\* when it was last asked, however many frames passed between the questions, and
\* with what it would tell now it is where the graphics module says the pointer
\* is; what it told of this frame's turn of the wheel and has still to tell is the
\* graphics module's turn.  The lists of keys and the questions about one key
\* agree, whatever other names the key has, and so do the two modules; a key or a
\* button pressed in this frame and not down was released in it.
InputIsReportedOnce ==
    /\ moved = mouse_query /\ moved + Delta = mouse_position
    /\ scrolled + scroll = mouse_wheel
    /\ \A i \in DOMAIN KEYS : LET name == KEYS[i][1]  main == key_name(KEYS[i][2]) IN
          /\ is_down(name) = (main \in keys_down) /\ (is_down(name) => any_down)
          /\ is_pressed(name) = (main \in keys_pressed)
          /\ is_released(name) = (main \in keys_released)
          /\ is_pressed(name) => is_down(name) \/ is_released(name)
    /\ \A name \in DOMAIN GameKeys : LET main == key_name(GameKeys[name]) IN
          /\ game_key_down(name) = is_down(main) /\ game_key_pressed(name) = is_pressed(main)
          /\ game_key_released(name) = is_released(main)
          /\ ~(game_key_up(name) /\ game_key_down(name))
    /\ \A b \in Buttons \ {UnknownButton} :
          /\ game_mouse_down(b) = mouse_down(b) /\ game_mouse_pressed(b) = mouse_pressed(b)
          /\ game_mouse_released(b) = mouse_released(b)
    /\ \A b \in Buttons : mouse_pressed(b) => mouse_down(b) \/ mouse_released(b)
=============================================================================
