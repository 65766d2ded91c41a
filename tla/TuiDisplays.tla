---------------------------- MODULE TuiDisplays ----------------------------
(***************************************************************************)
(* What the native module `tui` (rust/tui/src/lib.rs) keeps and prints:    *)
(* the progress bars, live displays and the full-screen display, which are *)
(* printed over their last rendering, status lines, tables, trees and      *)
(* layouts.  One thread: the state is thread_local.                        *)
(*                                                                         *)
(* A rendering is the number of lines it takes; what is on the terminal is *)
(* the sequence of its lines, each with the display it is of.              *)
(***************************************************************************)
EXTENDS Naturals, Sequences, FiniteSets

CONSTANTS MaxSlots,      \* bound on the slots of a registry, on rows and on sections
          MaxDocuments,  \* bound on the tables, nodes and layouts together
          MaxHeight,     \* bound on the lines of a rendering
          MaxShown,      \* bound on the lines printed in a run
          Empty          \* an empty slot

InPlace == {"progress", "live"}
Freed == InPlace \cup {"status"}

Display == [tasks : Nat, rendered_height : Nat]

\* What a line is of: a display (its registry and slot), or nothing that is
\* still up.
Text == [kind |-> "text", slot |-> 0]
Owners == [kind : InPlace, slot : Nat] \cup {Text, [kind |-> "screen", slot |-> 0]}

\* What the constants are.
DisplaysAssumption == /\ {MaxSlots, MaxDocuments, MaxHeight, MaxShown} \subseteq Nat
                             /\ Empty \notin Display

VARIABLES
    tty,
    slots,        \* progress, live and status: slots from 1
    screen,       \* the full-screen display
    tables,       \* tables: their rows
    trees,        \* the nodes of all trees: their children
    layouts,      \* layouts: how many sections
    shown,        \* the lines of the terminal
    alone         \* displays that nothing was printed between since they are up

vars == <<tty, slots, screen, tables, trees, layouts, shown, alone>>

TypeOK ==
    /\ tty \in BOOLEAN
    /\ \A k \in Freed : slots[k] \in Seq(Display \cup {Empty})
    /\ screen \in Display \cup {Empty}
    /\ tables \in Seq(Nat) /\ layouts \in Seq(Nat)
    /\ \A n \in DOMAIN trees : trees[n] \in Seq(Nat)
    /\ shown \in Seq(Owners) /\ alone \subseteq Owners

Init ==
    /\ tty \in BOOLEAN
    /\ slots = [k \in Freed |-> <<>>] /\ screen = Empty
    /\ tables = <<>> /\ trees = <<>> /\ layouts = <<>>
    /\ shown = <<>> /\ alone = {}

New == [tasks |-> 0, rendered_height |-> 0]
Open(k, i) == i \in DOMAIN slots[k] /\ slots[k][i] # Empty

\* The first empty slot, or a new one.
Slot(k) ==
    IF \E i \in DOMAIN slots[k] : slots[k][i] = Empty
    THEN CHOOSE i \in DOMAIN slots[k] :
            slots[k][i] = Empty /\ \A j \in 1..i - 1 : slots[k][j] # Empty
    ELSE Len(slots[k]) + 1

allocate(k) ==
    [slots EXCEPT ![k] = [i \in DOMAIN @ \cup {Slot(k)} |-> IF i = Slot(k) THEN New ELSE @[i]]]

Heights == 1..MaxHeight
Lines(owner, height) == [line \in 1..height |-> owner]
Below(lines, height) == IF height >= Len(lines) THEN <<>> ELSE SubSeq(lines, 1, Len(lines) - height)

\* The lines of a display that is closed stay.
Settled(lines, owner) == [line \in DOMAIN lines |-> IF lines[line] = owner THEN Text ELSE lines[line]]

Fits(height) == Len(shown) + height <= MaxShown

emit(height) ==
    /\ Fits(height)
    /\ shown' = shown \o Lines(Text, height)
    /\ alone' = {}

\* On a terminal the last rendering is erased first.
emit_in_place(owner, height, previous_height) ==
    /\ Fits(height)
    /\ shown' = (IF tty THEN Below(shown, previous_height) ELSE shown) \o Lines(owner, height)
    /\ alone' = (alone \cap {owner}) \cup IF previous_height = 0 THEN {owner} ELSE {}

-----------------------------------------------------------------------------
(* Progress bars, live displays and status lines.                          *)

Documents == <<tables, trees, layouts>>

start(k) ==
    /\ Slot(k) <= MaxSlots
    /\ slots' = allocate(k)
    /\ UNCHANGED <<tty, screen, Documents, shown, alone>>

progress_add_task(i) ==
    /\ Open("progress", i) /\ slots["progress"][i].tasks < MaxHeight
    /\ slots' = [slots EXCEPT !["progress"][i].tasks = @ + 1]
    /\ UNCHANGED <<tty, screen, Documents, shown, alone>>

\* advance and update of a progress bar, which takes a line per task, update
\* and panel of a live display.
Ready(k, i, height) ==
    /\ Open(k, i)
    /\ k = "progress" => slots[k][i].tasks > 0 /\ height = slots[k][i].tasks

\* A mistake: the height is kept from the first rendering.
redraw_keeps_height(k, i, height) ==
    /\ Ready(k, i, height)
    /\ emit_in_place([kind |-> k, slot |-> i], height, slots[k][i].rendered_height)
    /\ slots' = [slots EXCEPT ![k][i].rendered_height = IF @ = 0 THEN height ELSE @]
    /\ UNCHANGED <<tty, screen, Documents>>

redraw(k, i, height) ==
    /\ Ready(k, i, height)
    /\ emit_in_place([kind |-> k, slot |-> i], height, slots[k][i].rendered_height)
    /\ slots' = [slots EXCEPT ![k][i].rendered_height = height]
    /\ UNCHANGED <<tty, screen, Documents>>

\* A display is printed a last time; its slot is free. A progress bar without
\* tasks prints an empty line.
stop(k, i, height) ==
    /\ Open(k, i) /\ Fits(height)
    /\ k = "progress" => height = IF slots[k][i].tasks = 0 THEN 1 ELSE slots[k][i].tasks
    /\ LET owner == [kind |-> k, slot |-> i]
           kept == IF tty THEN Below(shown, slots[k][i].rendered_height) ELSE shown
       IN  /\ shown' = Settled(kept, owner) \o Lines(Text, height)
           /\ alone' = {}
    /\ slots' = [slots EXCEPT ![k][i] = Empty]
    /\ UNCHANGED <<tty, screen, Documents>>

status_update(i, height) ==
    /\ Open("status", i) /\ emit(height)
    /\ UNCHANGED <<tty, slots, screen, Documents>>

status_stop(i, height) ==
    /\ Open("status", i) /\ emit(height)
    /\ slots' = [slots EXCEPT !["status"][i] = Empty]
    /\ UNCHANGED <<tty, screen, Documents>>

-----------------------------------------------------------------------------
(* The full-screen display.                                                *)

ScreenOwner == [kind |-> "screen", slot |-> 0]

\* A new screen is printed below the old one.
screen_start(height) ==
    /\ Fits(height)
    /\ shown' = Settled(shown, ScreenOwner) \o Lines(IF tty THEN ScreenOwner ELSE Text, height)
    /\ alone' = IF tty THEN {ScreenOwner} ELSE {}
    /\ screen' = [New EXCEPT !.rendered_height = IF tty THEN height ELSE 0]
    /\ UNCHANGED <<tty, slots, Documents>>

ScreenHeight == IF screen = Empty THEN 0 ELSE screen.rendered_height

screen_update(height) ==
    /\ IF tty THEN emit_in_place(ScreenOwner, height, ScreenHeight) ELSE emit(height)
    /\ screen' = [New EXCEPT !.rendered_height = IF tty THEN height ELSE 0]
    /\ UNCHANGED <<tty, slots, Documents>>

screen_stop(height) ==
    /\ IF screen = Empty THEN UNCHANGED <<shown, alone>>
       ELSE /\ Fits(height)
            /\ shown' = Settled(Below(shown, ScreenHeight), ScreenOwner) \o Lines(Text, height)
            /\ alone' = {}
    /\ screen' = Empty
    /\ UNCHANGED <<tty, slots, Documents>>

-----------------------------------------------------------------------------
(* Tables, trees and layouts.                                              *)

Displays == <<tty, slots, screen, shown, alone>>

Room == Len(tables) + Len(trees) + Len(layouts) < MaxDocuments

table_create ==
    /\ Room
    /\ tables' = Append(tables, 0)
    /\ UNCHANGED <<Displays, trees, layouts>>

table_add_row(i) ==
    /\ i \in DOMAIN tables /\ tables[i] < MaxSlots
    /\ tables' = [tables EXCEPT ![i] = @ + 1]
    /\ UNCHANGED <<Displays, trees, layouts>>

tree_create ==
    /\ Room
    /\ trees' = Append(trees, <<>>)
    /\ UNCHANGED <<Displays, tables, layouts>>

\* The nodes of all trees are in one registry; none is ever freed.
tree_add(parent) ==
    /\ parent \in DOMAIN trees /\ Room
    /\ trees' = Append([trees EXCEPT ![parent] = Append(@, Len(trees) + 1)], <<>>)
    /\ UNCHANGED <<Displays, tables, layouts>>

layout_create ==
    /\ Room
    /\ layouts' = Append(layouts, 0)
    /\ UNCHANGED <<Displays, tables, trees>>

\* splitRows and splitColumns replace the sections, update and panel add one
\* that is missing.
layout_sections(i, sections) ==
    /\ i \in DOMAIN layouts
    /\ layouts' = [layouts EXCEPT ![i] = sections]
    /\ UNCHANGED <<Displays, tables, trees>>

\* A block is printed: a table, a tree, a layout or any other.
print(height) ==
    /\ emit(height)
    /\ UNCHANGED <<tty, slots, screen, Documents>>

-----------------------------------------------------------------------------
Next ==
    \/ table_create \/ tree_create \/ layout_create
    \/ \E k \in Freed : start(k)
    \/ \E i \in 1..MaxSlots + MaxDocuments :
         \/ progress_add_task(i) \/ table_add_row(i) \/ tree_add(i)
         \/ \E sections \in 0..MaxSlots : layout_sections(i, sections)
    \/ \E height \in Heights :
         \/ print(height) \/ screen_start(height) \/ screen_update(height) \/ screen_stop(height)
         \/ \E i \in 1..MaxSlots :
              \/ status_update(i, height) \/ status_stop(i, height)
              \/ \E k \in InPlace : redraw(k, i, height) \/ stop(k, i, height)

Spec == Init /\ [][Next]_vars

-----------------------------------------------------------------------------
HeightOf(owner) == IF owner.kind = "screen" THEN ScreenHeight
                   ELSE slots[owner.kind][owner.slot].rendered_height

\* While nothing else is printed in between, a display is on the terminal once,
\* at the end, with the height it will erase: its next rendering takes the place
\* of the whole last one and of no other line, whatever was rendered before,
\* stopped, or started in the same slot (emit_in_place: "a repeat update moves
\* the cursor back over the previous render and clears it first").
DisplaysReplaceThemselves ==
    tty => \A owner \in alone :
        /\ HeightOf(owner) <= Len(shown)
        /\ {line \in DOMAIN shown : shown[line] = owner}
              = Len(shown) - HeightOf(owner) + 1 .. Len(shown)
=============================================================================
