----------------------------- MODULE TuiPrompts -----------------------------
(***************************************************************************)
(* The modes of the terminal and the prompts of the native module `tui`    *)
(* (rust/tui/src/lib.rs): TUI mode (enter, exit), the menus that read keys *)
(* in raw mode, and the reading of a key, of a line and of a password.     *)
(*                                                                         *)
(* The terminal is the process's; what tui remembers of it is thread_local.*)
(* A prompt keeps the interpreter lock until it is over, so there is one   *)
(* at a time.  The steps of a prompt are the keys that are pressed.        *)
(***************************************************************************)
EXTENDS Naturals, FiniteSets

CONSTANTS Threads,
          MaxChoices,   \* bound on the choices of a menu
          Nothing       \* no prompt

Menus == {"select", "menu", "multiselect"}

\* entries: how many; guard: whether the end turns raw mode off; before:
\* whether the terminal was in raw mode when the prompt began.
Prompt == [by : Threads, kind : Menus \cup {"key", "password"}, entries : Nat,
           selected : Nat, checked : SUBSET Nat, guard : BOOLEAN, before : BOOLEAN]

\* What the constants are.
PromptsAssumption == MaxChoices \in Nat /\ Nothing \notin Prompt

VARIABLES tty,          \* whether stdin and stdout are a terminal
          raw, alt,     \* the terminal: raw mode, alternate screen
          raw_mode,     \* TuiState of each thread
          alt_screen,
          prompt

vars == <<tty, raw, alt, raw_mode, alt_screen, prompt>>

TypeOK ==
    /\ {tty, raw, alt} \subseteq BOOLEAN
    /\ raw_mode \in [Threads -> BOOLEAN] /\ alt_screen \in [Threads -> BOOLEAN]
    /\ prompt # Nothing =>
          /\ prompt.by \in Threads /\ prompt.kind \in Menus \cup {"key", "password"}
          /\ prompt.selected \in Nat /\ prompt.checked \subseteq 0..MaxChoices
          /\ {prompt.guard, prompt.before} \subseteq BOOLEAN

Init ==
    /\ tty \in BOOLEAN
    /\ raw = FALSE /\ alt = FALSE
    /\ raw_mode = [t \in Threads |-> FALSE] /\ alt_screen = [t \in Threads |-> FALSE]
    /\ prompt = Nothing

enter(t) ==
    /\ prompt = Nothing /\ tty
    /\ raw' = TRUE /\ alt' = TRUE
    /\ raw_mode' = [raw_mode EXCEPT ![t] = TRUE]
    /\ alt_screen' = [alt_screen EXCEPT ![t] = TRUE]
    /\ UNCHANGED <<tty, prompt>>

exit(t) ==
    /\ prompt = Nothing
    /\ alt' = (alt /\ ~alt_screen[t])
    /\ raw' = (raw /\ ~raw_mode[t])
    /\ raw_mode' = [raw_mode EXCEPT ![t] = FALSE]
    /\ alt_screen' = [alt_screen EXCEPT ![t] = FALSE]
    /\ UNCHANGED <<tty, prompt>>

-----------------------------------------------------------------------------
(* Prompts.                                                                *)

\* A prompt begins; with a guard it is in raw mode.
Begin(t, kind, entries, guard) ==
    /\ prompt = Nothing /\ tty
    /\ prompt' = [by |-> t, kind |-> kind, entries |-> entries, selected |-> 0,
                  checked |-> {}, guard |-> guard, before |-> raw]
    /\ raw' = (raw \/ guard)
    /\ UNCHANGED <<tty, alt, raw_mode, alt_screen>>

\* The guard is dropped with an answer.
End ==
    /\ raw' = (raw /\ ~prompt.guard)
    /\ prompt' = Nothing
    /\ UNCHANGED <<tty, alt, raw_mode, alt_screen>>

\* A mistake: the guard is made in TUI mode too.
interactive_always_guarded(t, kind, entries) == Begin(t, kind, entries, TRUE)

\* A menu needs the guard unless the thread is in TUI mode.
interactive(t, kind, entries) == Begin(t, kind, entries, ~raw_mode[t])

\* menu and multiselect answer at once when there are no choices; select does
\* not.
select(t, entries) == interactive(t, "select", entries)
menu(t, entries) == entries > 0 /\ interactive(t, "menu", entries)
multiselect(t, entries) == entries > 0 /\ interactive(t, "multiselect", entries)

\* input and pollInput
read_key(t) == interactive(t, "key", 0)

\* askPassword turns raw mode off whatever it was.
read_secret(t) == Begin(t, "password", 0, TRUE)

-----------------------------------------------------------------------------
(* Keys.                                                                   *)

InMenu == prompt # Nothing /\ prompt.kind \in Menus

Show(changed) ==
    /\ prompt' = changed
    /\ UNCHANGED <<tty, raw, alt, raw_mode, alt_screen>>

Up == /\ InMenu /\ prompt.selected > 0
      /\ Show([prompt EXCEPT !.selected = @ - 1])

Down == /\ InMenu /\ prompt.selected + 1 < prompt.entries
        /\ Show([prompt EXCEPT !.selected = @ + 1])

Space ==
    /\ InMenu /\ prompt.kind = "multiselect"
    /\ Show([prompt EXCEPT !.checked = IF prompt.selected \in @ THEN @ \ {prompt.selected}
                                       ELSE @ \cup {prompt.selected}])

\* Enter, q, Esc, or an error of the terminal
Answer == InMenu /\ End

\* A key, a line, or the time is over.
Read == prompt # Nothing /\ ~InMenu /\ End

-----------------------------------------------------------------------------
Next ==
    \/ \E t \in Threads :
         \/ enter(t) \/ exit(t) \/ read_key(t) \/ read_secret(t)
         \/ \E entries \in 0..MaxChoices :
               select(t, entries) \/ menu(t, entries) \/ multiselect(t, entries)
    \/ Up \/ Down \/ Space \/ Answer \/ Read

Spec == Init /\ [][Next]_vars

-----------------------------------------------------------------------------
\* The end of a prompt leaves the mode the prompt began in, with two exceptions.
PromptEndsAsItBegan ==
    (prompt # Nothing /\ prompt' = Nothing) =>
        \/ raw' = prompt.before
        \/ prompt.kind = "password"
        \/ \E u \in Threads \ {prompt.by} : raw_mode[u]

\* A prompt leaves the terminal in the mode it found it in, inside TUI mode and
\* outside, over any calls of enter and exit before; but askPassword ends in
\* the normal mode, and so does a prompt of a thread while TUI mode is on in
\* another (RawModeGuard; tui_enter, tui_exit).
PromptsRestoreTheTerminal == [][PromptEndsAsItBegan]_vars
=============================================================================
