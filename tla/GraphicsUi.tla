----------------------------- MODULE GraphicsUi -----------------------------
(***************************************************************************)
(* The immediate-mode widgets of the native module `graphics`              *)
(* (rust/graphics/src/ui.rs): between window_begin or group_begin and the  *)
(* matching end, widgets are buffered on a stack of blocks; a block that   *)
(* ends inside another becomes a command of it, the outermost one is       *)
(* replayed.                                                               *)
(*                                                                         *)
(* Commands are written as in the source of a program: a block is its      *)
(* begin, its commands and its end.                                        *)
(***************************************************************************)
EXTENDS Naturals, Sequences

CONSTANTS Ids,          \* ids of widgets and blocks
          Widgets,      \* the kinds of widgets a program uses
          MaxCommands,  \* bound on the commands of an outermost block
          Unset         \* no value

BlockKinds == {"window", "group"}
Plain == {"label", "progress_bar", "separator", "same_line"}
Valued == {"checkbox", "slider", "input_text", "combo_box"}
WidgetKinds == Plain \cup Valued \cup {"button"}

Command == [op : WidgetKinds \cup {"begin_window", "begin_group", "end"}, id : Ids]
Begin(kind, id) == [op |-> IF kind = "window" THEN "begin_window" ELSE "begin_group", id |-> id]
End(id) == [op |-> "end", id |-> id]

\* UiValue: a value has the kind of the widget that wrote it.
UiValue == [kind : Valued, touched : BOOLEAN]

\* What the constants are.
UiAssumption == Widgets \subseteq WidgetKinds /\ Unset \notin UiValue /\ MaxCommands \in Nat

VARIABLES
    windowed,         \* not headless
    callback_active,  \* a callback of run is running
    ui_stack,         \* open blocks, outermost first, with their commands
    ui_values,        \* the value of each id
    ui_results,       \* the buttons that were shown, and whether they were hit
    ui_options,       \* the ids of combo boxes
    issued,           \* what the program said since the outermost begin
    replayed          \* the commands of the last outermost block

vars == <<windowed, callback_active, ui_stack, ui_values, ui_results, ui_options,
          issued, replayed>>

TypeOK ==
    /\ windowed \in BOOLEAN /\ callback_active \in BOOLEAN
    /\ ui_stack \in Seq([kind : BlockKinds, id : Ids, commands : Seq(Command)])
    /\ ui_values \in [Ids -> UiValue \cup {Unset}]
    /\ ui_results \in [Ids -> BOOLEAN]
    /\ ui_options \subseteq Ids
    /\ issued \in Seq(Command) /\ replayed \in Seq(Command)

Cleared ==
    /\ ui_stack' = <<>>
    /\ ui_values' = [id \in Ids |-> Unset]
    /\ ui_results' = [id \in Ids |-> FALSE]
    /\ ui_options' = {}
    /\ issued' = <<>> /\ replayed' = <<>>

Init ==
    /\ windowed \in BOOLEAN
    /\ callback_active = FALSE
    /\ ui_stack = <<>>
    /\ ui_values = [id \in Ids |-> Unset]
    /\ ui_results = [id \in Ids |-> FALSE]
    /\ ui_options = {}
    /\ issued = <<>> /\ replayed = <<>>

-----------------------------------------------------------------------------
\* State::reset
init == Cleared /\ UNCHANGED <<windowed, callback_active>>

invoke_callback ==
    /\ callback_active' = ~callback_active
    /\ UNCHANGED <<windowed, ui_stack, ui_values, ui_results, ui_options, issued, replayed>>

buffering == ui_stack # <<>>
Innermost == ui_stack[Len(ui_stack)]
Outer == SubSeq(ui_stack, 1, Len(ui_stack) - 1)

\* graphics_context_allowed, for widgets and for the end of a block.
WidgetAllowed == ~windowed \/ callback_active \/ buffering
EndAllowed == ~windowed \/ callback_active \/ Len(ui_stack) > 1

Push(stack, commands) ==
    [stack EXCEPT ![Len(stack)].commands = @ \o commands]

\* What a widget shows: its value if it is of its kind, or the fallback.
ValueOf(kind, id) == IF ui_values[id] # Unset /\ ui_values[id].kind = kind
                     THEN ui_values[id].touched ELSE FALSE

\* A widget outside blocks: nothing without a window; with one, the user may
\* touch it, and its value or result is stored.
Immediate(kind, id, touched) ==
    /\ ui_values' = IF windowed /\ kind \in Valued
                    THEN [ui_values EXCEPT ![id] =
                             [kind |-> kind, touched |-> touched \/ ValueOf(kind, id)]]
                    ELSE ui_values
    /\ ui_results' = IF windowed /\ kind = "button"
                     THEN [ui_results EXCEPT ![id] = touched] ELSE ui_results
    /\ UNCHANGED <<ui_stack, issued>>

Buffered(kind, id) ==
    /\ Len(issued) < MaxCommands
    /\ ui_stack' = Push(ui_stack, <<[op |-> kind, id |-> id]>>)
    /\ issued' = Append(issued, [op |-> kind, id |-> id])
    /\ UNCHANGED <<ui_values, ui_results>>

\* combo_box stores its options first, whatever else it does.
widget(kind, id, touched) ==
    /\ WidgetAllowed
    /\ ui_options' = IF kind = "combo_box" THEN ui_options \cup {id} ELSE ui_options
    /\ IF buffering THEN Buffered(kind, id) ELSE Immediate(kind, id, touched)
    /\ UNCHANGED <<windowed, callback_active, replayed>>

\* setCheckboxValue, setSliderValue, setInputText
set_value(kind, id, touched) ==
    /\ ui_values' = [ui_values EXCEPT ![id] = [kind |-> kind, touched |-> touched]]
    /\ UNCHANGED <<windowed, callback_active, ui_stack, ui_results, ui_options,
                   issued, replayed>>

block_begin(kind, id) ==
    /\ buffering => Len(issued) < MaxCommands
    /\ ui_stack' = Append(ui_stack, [kind |-> kind, id |-> id, commands |-> <<>>])
    /\ issued' = Append(IF buffering THEN issued ELSE <<>>, Begin(kind, id))
    /\ UNCHANGED <<windowed, callback_active, ui_values, ui_results, ui_options, replayed>>

\* A finished block as the commands of its parent.
Block(block) == <<Begin(block.kind, block.id)>> \o block.commands \o <<End(block.id)>>

\* execute_block: every valued widget leaves its value, touched by the user or
\* as it was, every button its result; a later widget of an id wins.
Executed(commands, touches) ==
    LET Last(id, kinds) == {i \in DOMAIN commands :
            /\ commands[i].id = id /\ commands[i].op \in kinds
            /\ \A j \in DOMAIN commands :
                  j > i => commands[j].id # id \/ commands[j].op \notin kinds}
    IN  /\ ui_values' = [id \in Ids |->
               IF Last(id, Valued) = {} THEN ui_values[id]
               ELSE LET kind == commands[CHOOSE i \in Last(id, Valued) : TRUE].op
                        same == \A j \in DOMAIN commands :
                                   commands[j].id = id => commands[j].op \notin Valued \ {kind}
                    IN  [kind |-> kind,
                         touched |-> id \in touches \/ (same /\ ValueOf(kind, id))]]
        /\ ui_results' = [id \in Ids |->
               IF Last(id, {"button"}) = {} THEN ui_results[id] ELSE id \in touches]

\* A mistake: an inner block goes to the end of its outermost block.
finish_block_outermost(kind, touches) ==
    /\ EndAllowed /\ buffering /\ Innermost.kind = kind
    /\ issued' = Append(issued, End(Innermost.id))
    /\ IF Outer # <<>>
       THEN /\ ui_stack' = [Outer EXCEPT ![1].commands = @ \o Block(Innermost)]
            /\ UNCHANGED <<ui_values, ui_results, replayed>>
       ELSE /\ ui_stack' = <<>>
            /\ replayed' = Block(Innermost)
            /\ IF windowed THEN Executed(Innermost.commands, touches)
                           ELSE UNCHANGED <<ui_values, ui_results>>
    /\ UNCHANGED <<windowed, callback_active, ui_options>>

\* window_end and group_end; the wrong one answers -1.
finish_block(kind, touches) ==
    /\ EndAllowed /\ buffering /\ Innermost.kind = kind
    /\ issued' = Append(issued, End(Innermost.id))
    /\ IF Outer # <<>>
       THEN /\ ui_stack' = Push(Outer, Block(Innermost))
            /\ UNCHANGED <<ui_values, ui_results, replayed>>
       ELSE /\ ui_stack' = <<>>
            /\ replayed' = Block(Innermost)
            /\ IF windowed THEN Executed(Innermost.commands, touches)
                           ELSE UNCHANGED <<ui_values, ui_results>>
    /\ UNCHANGED <<windowed, callback_active, ui_options>>

-----------------------------------------------------------------------------
Next ==
    \/ init \/ invoke_callback
    \/ \E kind \in Widgets, id \in Ids, touched \in BOOLEAN : widget(kind, id, touched)
    \/ \E kind \in (Valued \cap Widgets) \ {"combo_box"}, id \in Ids, touched \in BOOLEAN :
          set_value(kind, id, touched)
    \/ \E kind \in BlockKinds, id \in Ids : block_begin(kind, id)
    \/ \E kind \in BlockKinds, touches \in SUBSET Ids : finish_block(kind, touches)

Spec == Init /\ [][Next]_vars

-----------------------------------------------------------------------------
\* The commands of the open blocks, outermost first.
Flat[n \in 0 .. Len(ui_stack)] ==
    IF n = 0 THEN <<>>
    ELSE Flat[n - 1] \o <<Begin(ui_stack[n].kind, ui_stack[n].id)>> \o ui_stack[n].commands

\* Every widget stays in the block it was issued in, in its place, over any
\* nesting of windows and groups, mismatched ends and callbacks that leave a
\* block open; what is replayed is what the program said (ui.rs, the test
\* nested_ui_blocks_keep_children_in_the_parent_buffer).
WidgetsKeepTheirBlock ==
    issued = IF buffering THEN Flat[Len(ui_stack)] ELSE replayed
=============================================================================
