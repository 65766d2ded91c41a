---------------------------- MODULE NativeModules ----------------------------
(***************************************************************************)
(* The native modules side by side.  They share nothing that these         *)
(* specifications read, so that a behaviour follows one of them: `focus`   *)
(* says which.  NativeModulesMC adds the modules that have no theorems.    *)
(***************************************************************************)
EXTENDS Integers, Sequences

CONSTANTS
    None,             \* no value; the value of a variable that is not followed
    \* the frame loops
    Threads, MainThread, FrameModules, HEADLESS_FRAMES, MaxRuns, INTERRUPT, EXIT,
    \* surfaces and widgets
    Shades, Black, Places, Home, Sizes, MaxHandles, Ids, Widgets, MaxCommands,
    \* the game's registries
    Names, MaxTextures, MaxSprites, MaxOthers,
    \* watches and connections
    Files, Changes, Watches, MaxEvents, Clients, Peers, MaxSent,
    \* the terminal
    MaxChoices, MaxSlots, MaxDocuments, MaxHeight, MaxShown,
    \* sounds and databases
    Levels, Loudest, MaxSounds, MaxPlayers, Databases, Scripts, MaxOpened, MaxRows,
    \* pictures
    ImageSizes, Colours, Pasted, Shapes, Bands, MaxImages,
    \* the keyboard and the mouse
    Keys, KEYS, GameKeys, Buttons, UnknownButton, Steps, MaxFrames,
    \* the platformer
    Obstacles, OneWay, Slopes, WallPlaces, Starts, PlayerSpeeds, Gravity,
    HalfWidth, HalfHeight, WallHalfWidth, WallHalfHeight, GROUND_SNAP, Limit,
    \* sprites
    SpritePlaces, Halves, Velocities, Scales, Zooms, SpriteScenes, WindowHalf,
    MaxLists, MaxUpdates, MaxChanges,
    \* tile maps and regular expressions
    MapFiles, Bytes, Characters, MaxLength, Replacements, Continuation

Modules ==
    {"frames", "surfaces", "ui", "world", "watch", "network", "prompts",
     "displays", "sound", "database", "images", "input", "physics", "sprites",
     "tilemap", "regex"}

VARIABLES
    focus,
    loop_holder, loop_pc, loop_runs, loop_raised, loop_deferred,
    loop_interrupted, loop_exiting, loop_headless, loop_registered,
    loop_quit_requested, loop_callback_active, loop_running,
    paint_windowed, paint_callback_active, paint_size, paint_images,
    paint_textures, paint_targets, paint_source, paint_active_target,
    paint_framebuffer, paint_camera, paint_camera2d, paint_saved, paint_fonts,
    paint_materials, paint_turtles, paint_bound,
    ui_windowed, ui_callback_active, ui_ui_stack, ui_ui_values, ui_ui_results,
    ui_ui_options, ui_issued, ui_replayed,
    world_headless, world_textures, world_sprites, world_lists, world_scenes,
    world_cameras, world_active_camera, world_labels, world_sounds,
    world_animations,
    watch_windows, watch_holder, watch_pc, watch_on, watch_watches,
    watch_added, watch_fd, watch_debounce, watch_kernel, watch_armed,
    watch_overflowed, watch_worker, watch_ready, watch_stop, watch_signalled,
    watch_queue, watch_unseen,
    net_holder, net_pc, net_call, net_registry, net_connected, net_opened,
    net_ended, net_sent, net_taken, net_newest, net_received,
    term_tty, term_raw, term_alt, term_raw_mode, term_alt_screen, term_prompt,
    disp_tty, disp_slots, disp_screen, disp_tables, disp_trees, disp_layouts,
    disp_shown, disp_alone,
    sound_device, sound_file, sound_entries, sound_players, sound_answer,
    db_stored, db_connections, db_answer,
    img_table,
    in_headless, in_down, in_pressed, in_released, in_pointer, in_wheel,
    in_pending, in_frame, in_mouse_query, in_scroll, in_moved, in_scrolled,
    body_wall, body_x, body_y, body_vx, body_vy, body_on_ground,
    body_standing_on, body_ridden,
    sprite_headless, sprite_sprites, sprite_lists, sprite_camera,
    sprite_frame, sprite_changes, sprite_call,
    map_headless, map_file, map_textures, map_lists, map_scene, map_answer,
    re_regex, re_call, re_result

Loop == INSTANCE FrameLoop WITH
    NoError <- None,
    holder <- loop_holder, pc <- loop_pc, runs <- loop_runs,
    raised <- loop_raised, deferred <- loop_deferred,
    interrupted <- loop_interrupted, exiting <- loop_exiting,
    headless <- loop_headless, registered <- loop_registered,
    quit_requested <- loop_quit_requested,
    callback_active <- loop_callback_active, running <- loop_running

Surfaces == INSTANCE GraphicsSurfaces WITH
    Nothing <- None,
    windowed <- paint_windowed, callback_active <- paint_callback_active,
    size <- paint_size, images <- paint_images, textures <- paint_textures,
    targets <- paint_targets, source <- paint_source,
    active_target <- paint_active_target, framebuffer <- paint_framebuffer,
    camera <- paint_camera, camera2d <- paint_camera2d, saved <- paint_saved,
    fonts <- paint_fonts,
    materials <- paint_materials, turtles <- paint_turtles,
    bound <- paint_bound

Ui == INSTANCE GraphicsUi WITH
    Unset <- None,
    windowed <- ui_windowed, callback_active <- ui_callback_active,
    ui_stack <- ui_ui_stack, ui_values <- ui_ui_values,
    ui_results <- ui_ui_results, ui_options <- ui_ui_options,
    issued <- ui_issued, replayed <- ui_replayed

World == INSTANCE GameWorld WITH
    Gone <- None,
    headless <- world_headless, textures <- world_textures,
    sprites <- world_sprites, lists <- world_lists, scenes <- world_scenes,
    cameras <- world_cameras, active_camera <- world_active_camera,
    labels <- world_labels, sounds <- world_sounds,
    animations <- world_animations

Watching == INSTANCE Watch WITH
    Paths <- Files, Kinds <- Changes, Handles <- Watches, Nobody <- None,
    windows <- watch_windows, holder <- watch_holder, pc <- watch_pc,
    on <- watch_on, watches <- watch_watches, added <- watch_added,
    fd <- watch_fd, debounce <- watch_debounce, kernel <- watch_kernel,
    armed <- watch_armed, overflowed <- watch_overflowed,
    worker <- watch_worker, ready <- watch_ready, stop <- watch_stop,
    signalled <- watch_signalled, queue <- watch_queue, unseen <- watch_unseen

Net == INSTANCE Network WITH
    Threads <- Clients, Closed <- None,
    holder <- net_holder, pc <- net_pc, call <- net_call,
    registry <- net_registry, connected <- net_connected,
    opened <- net_opened, ended <- net_ended, sent <- net_sent,
    taken <- net_taken, newest <- net_newest, received <- net_received

Prompts == INSTANCE TuiPrompts WITH
    Nothing <- None,
    tty <- term_tty, raw <- term_raw, alt <- term_alt,
    raw_mode <- term_raw_mode, alt_screen <- term_alt_screen,
    prompt <- term_prompt

Displays == INSTANCE TuiDisplays WITH
    Empty <- None,
    tty <- disp_tty, slots <- disp_slots, screen <- disp_screen,
    tables <- disp_tables, trees <- disp_trees, layouts <- disp_layouts,
    shown <- disp_shown, alone <- disp_alone

Sounds == INSTANCE Sound WITH
    device <- sound_device, file <- sound_file, entries <- sound_entries,
    players <- sound_players, answer <- sound_answer

Store == INSTANCE Database WITH
    Paths <- Databases, MaxHandles <- MaxOpened,
    stored <- db_stored, connections <- db_connections, answer <- db_answer

Pictures == INSTANCE Images WITH
    Sizes <- ImageSizes, Offsets <- Pasted, Closed <- None,
    table <- img_table

Inputs == INSTANCE Input WITH
    headless <- in_headless, down <- in_down, pressed <- in_pressed,
    released <- in_released, pointer <- in_pointer, wheel <- in_wheel,
    pending <- in_pending, frame <- in_frame, mouse_query <- in_mouse_query,
    scroll <- in_scroll, moved <- in_moved, scrolled <- in_scrolled

Physics == INSTANCE GamePhysics WITH
    Speeds <- PlayerSpeeds, Walls <- Obstacles, Nowhere <- None,
    wall <- body_wall, x <- body_x, y <- body_y, vx <- body_vx, vy <- body_vy,
    on_ground <- body_on_ground, standing_on <- body_standing_on,
    ridden <- body_ridden

Sprites == INSTANCE GameSprites WITH
    Places <- SpritePlaces, Scenes <- SpriteScenes, MaxFrames <- MaxUpdates, Gone <- None,
    headless <- sprite_headless, sprites <- sprite_sprites,
    lists <- sprite_lists, camera <- sprite_camera, frame <- sprite_frame,
    changes <- sprite_changes, call <- sprite_call

Maps == INSTANCE Tilemap WITH
    Files <- MapFiles,
    headless <- map_headless, file <- map_file, textures <- map_textures,
    lists <- map_lists, scene <- map_scene, answer <- map_answer

Engine == INSTANCE RegexEngine WITH
    regex <- re_regex, call <- re_call, result <- re_result

loop_vars == <<loop_holder, loop_pc, loop_runs, loop_raised, loop_deferred,
               loop_interrupted, loop_exiting, loop_headless, loop_registered,
               loop_quit_requested, loop_callback_active, loop_running>>
paint_vars == <<paint_windowed, paint_callback_active, paint_size,
                paint_images, paint_textures, paint_targets, paint_source,
                paint_active_target, paint_framebuffer, paint_camera,
                paint_camera2d, paint_saved, paint_fonts, paint_materials, paint_turtles,
                paint_bound>>
ui_vars == <<ui_windowed, ui_callback_active, ui_ui_stack, ui_ui_values,
             ui_ui_results, ui_ui_options, ui_issued, ui_replayed>>
world_vars == <<world_headless, world_textures, world_sprites, world_lists,
                world_scenes, world_cameras, world_active_camera,
                world_labels, world_sounds, world_animations>>
watch_vars == <<watch_windows, watch_holder, watch_pc, watch_on,
                watch_watches, watch_added, watch_fd, watch_debounce,
                watch_kernel, watch_armed, watch_overflowed, watch_worker,
                watch_ready, watch_stop, watch_signalled, watch_queue,
                watch_unseen>>
net_vars == <<net_holder, net_pc, net_call, net_registry, net_connected,
              net_opened, net_ended, net_sent, net_taken, net_newest,
              net_received>>
term_vars == <<term_tty, term_raw, term_alt, term_raw_mode, term_alt_screen,
               term_prompt>>
disp_vars == <<disp_tty, disp_slots, disp_screen, disp_tables, disp_trees,
               disp_layouts, disp_shown, disp_alone>>
sound_vars == <<sound_device, sound_file, sound_entries, sound_players,
                sound_answer>>
db_vars == <<db_stored, db_connections, db_answer>>
img_vars == <<img_table>>
in_vars == <<in_headless, in_down, in_pressed, in_released, in_pointer,
             in_wheel, in_pending, in_frame, in_mouse_query, in_scroll,
             in_moved, in_scrolled>>
body_vars == <<body_wall, body_x, body_y, body_vx, body_vy, body_on_ground,
               body_standing_on, body_ridden>>
sprite_vars == <<sprite_headless, sprite_sprites, sprite_lists, sprite_camera,
                 sprite_frame, sprite_changes, sprite_call>>
map_vars == <<map_headless, map_file, map_textures, map_lists, map_scene,
              map_answer>>
re_vars == <<re_regex, re_call, re_result>>

vars == <<focus, loop_vars, paint_vars, ui_vars, world_vars, watch_vars, net_vars,
         term_vars, disp_vars, sound_vars, db_vars, img_vars, in_vars,
         body_vars, sprite_vars, map_vars, re_vars>>

ASSUME NativeAssumption ==
    /\ Loop!FrameAssumption
    /\ Surfaces!SurfaceAssumption
    /\ Ui!UiAssumption
    /\ World!WorldAssumption
    /\ Watching!WatchAssumption
    /\ Net!NetworkAssumption
    /\ Prompts!PromptsAssumption
    /\ Displays!DisplaysAssumption
    /\ Sounds!SoundAssumption
    /\ Store!DatabaseAssumption
    /\ Pictures!ImagesAssumption
    /\ Inputs!InputAssumption
    /\ Physics!PhysicsAssumption
    /\ Sprites!SpritesAssumption
    /\ Maps!TilemapAssumption
    /\ Engine!RegexAssumption

Start ==
    /\ IF focus = "frames" THEN Loop!Init
       ELSE /\ loop_holder = None /\ loop_pc = None /\ loop_runs = None
            /\ loop_raised = None /\ loop_deferred = None
            /\ loop_interrupted = None /\ loop_exiting = None
            /\ loop_headless = None /\ loop_registered = None
            /\ loop_quit_requested = None /\ loop_callback_active = None
            /\ loop_running = None
    /\ IF focus = "surfaces" THEN Surfaces!Init
       ELSE /\ paint_windowed = None /\ paint_callback_active = None
            /\ paint_size = None /\ paint_images = None
            /\ paint_textures = None /\ paint_targets = None
            /\ paint_source = None /\ paint_active_target = None
            /\ paint_framebuffer = None /\ paint_camera = None
            /\ paint_camera2d = None /\ paint_saved = None /\ paint_fonts = None
            /\ paint_materials = None /\ paint_turtles = None
            /\ paint_bound = None
    /\ IF focus = "ui" THEN Ui!Init
       ELSE /\ ui_windowed = None /\ ui_callback_active = None
            /\ ui_ui_stack = None /\ ui_ui_values = None
            /\ ui_ui_results = None /\ ui_ui_options = None
            /\ ui_issued = None /\ ui_replayed = None
    /\ IF focus = "world" THEN World!Init
       ELSE /\ world_headless = None /\ world_textures = None
            /\ world_sprites = None /\ world_lists = None
            /\ world_scenes = None /\ world_cameras = None
            /\ world_active_camera = None /\ world_labels = None
            /\ world_sounds = None /\ world_animations = None
    /\ IF focus = "watch" THEN Watching!Init
       ELSE /\ watch_windows = None /\ watch_holder = None /\ watch_pc = None
            /\ watch_on = None /\ watch_watches = None /\ watch_added = None
            /\ watch_fd = None /\ watch_debounce = None /\ watch_kernel = None
            /\ watch_armed = None /\ watch_overflowed = None
            /\ watch_worker = None /\ watch_ready = None /\ watch_stop = None
            /\ watch_signalled = None /\ watch_queue = None
            /\ watch_unseen = None
    /\ IF focus = "network" THEN Net!Init
       ELSE /\ net_holder = None /\ net_pc = None /\ net_call = None
            /\ net_registry = None /\ net_connected = None
            /\ net_opened = None /\ net_ended = None /\ net_sent = None
            /\ net_taken = None /\ net_newest = None /\ net_received = None
    /\ IF focus = "prompts" THEN Prompts!Init
       ELSE /\ term_tty = None /\ term_raw = None /\ term_alt = None
            /\ term_raw_mode = None /\ term_alt_screen = None
            /\ term_prompt = None
    /\ IF focus = "displays" THEN Displays!Init
       ELSE /\ disp_tty = None /\ disp_slots = None /\ disp_screen = None
            /\ disp_tables = None /\ disp_trees = None /\ disp_layouts = None
            /\ disp_shown = None /\ disp_alone = None
    /\ IF focus = "sound" THEN Sounds!Init
       ELSE /\ sound_device = None /\ sound_file = None
            /\ sound_entries = None /\ sound_players = None
            /\ sound_answer = None
    /\ IF focus = "database" THEN Store!Init
       ELSE /\ db_stored = None /\ db_connections = None /\ db_answer = None
    /\ IF focus = "images" THEN Pictures!Init
       ELSE /\ img_table = None
    /\ IF focus = "input" THEN Inputs!Init
       ELSE /\ in_headless = None /\ in_down = None /\ in_pressed = None
            /\ in_released = None /\ in_pointer = None /\ in_wheel = None
            /\ in_pending = None /\ in_frame = None /\ in_mouse_query = None
            /\ in_scroll = None /\ in_moved = None /\ in_scrolled = None
    /\ IF focus = "physics" THEN Physics!Init
       ELSE /\ body_wall = None /\ body_x = None /\ body_y = None
            /\ body_vx = None /\ body_vy = None /\ body_on_ground = None
            /\ body_standing_on = None /\ body_ridden = None
    /\ IF focus = "sprites" THEN Sprites!Init
       ELSE /\ sprite_headless = None /\ sprite_sprites = None
            /\ sprite_lists = None /\ sprite_camera = None
            /\ sprite_frame = None /\ sprite_changes = None
            /\ sprite_call = None
    /\ IF focus = "tilemap" THEN Maps!Init
       ELSE /\ map_headless = None /\ map_file = None /\ map_textures = None
            /\ map_lists = None /\ map_scene = None /\ map_answer = None
    /\ IF focus = "regex" THEN Engine!Init
       ELSE /\ re_regex = None /\ re_call = None /\ re_result = None

Init == focus \in Modules /\ Start

Next ==
    \/ /\ focus = "frames" /\ Loop!Next
       /\ UNCHANGED <<focus, paint_vars, ui_vars, world_vars, watch_vars,
                       net_vars, term_vars, disp_vars, sound_vars, db_vars,
                       img_vars, in_vars, body_vars, sprite_vars, map_vars,
                       re_vars>>
    \/ /\ focus = "surfaces" /\ Surfaces!Next
       /\ UNCHANGED <<focus, loop_vars, ui_vars, world_vars, watch_vars,
                       net_vars, term_vars, disp_vars, sound_vars, db_vars,
                       img_vars, in_vars, body_vars, sprite_vars, map_vars,
                       re_vars>>
    \/ /\ focus = "ui" /\ Ui!Next
       /\ UNCHANGED <<focus, loop_vars, paint_vars, world_vars, watch_vars,
                       net_vars, term_vars, disp_vars, sound_vars, db_vars,
                       img_vars, in_vars, body_vars, sprite_vars, map_vars,
                       re_vars>>
    \/ /\ focus = "world" /\ World!Next
       /\ UNCHANGED <<focus, loop_vars, paint_vars, ui_vars, watch_vars,
                       net_vars, term_vars, disp_vars, sound_vars, db_vars,
                       img_vars, in_vars, body_vars, sprite_vars, map_vars,
                       re_vars>>
    \/ /\ focus = "watch" /\ Watching!Next
       /\ UNCHANGED <<focus, loop_vars, paint_vars, ui_vars, world_vars,
                       net_vars, term_vars, disp_vars, sound_vars, db_vars,
                       img_vars, in_vars, body_vars, sprite_vars, map_vars,
                       re_vars>>
    \/ /\ focus = "network" /\ Net!Next
       /\ UNCHANGED <<focus, loop_vars, paint_vars, ui_vars, world_vars,
                       watch_vars, term_vars, disp_vars, sound_vars, db_vars,
                       img_vars, in_vars, body_vars, sprite_vars, map_vars,
                       re_vars>>
    \/ /\ focus = "prompts" /\ Prompts!Next
       /\ UNCHANGED <<focus, loop_vars, paint_vars, ui_vars, world_vars,
                       watch_vars, net_vars, disp_vars, sound_vars, db_vars,
                       img_vars, in_vars, body_vars, sprite_vars, map_vars,
                       re_vars>>
    \/ /\ focus = "displays" /\ Displays!Next
       /\ UNCHANGED <<focus, loop_vars, paint_vars, ui_vars, world_vars,
                       watch_vars, net_vars, term_vars, sound_vars, db_vars,
                       img_vars, in_vars, body_vars, sprite_vars, map_vars,
                       re_vars>>
    \/ /\ focus = "sound" /\ Sounds!Next
       /\ UNCHANGED <<focus, loop_vars, paint_vars, ui_vars, world_vars,
                       watch_vars, net_vars, term_vars, disp_vars, db_vars,
                       img_vars, in_vars, body_vars, sprite_vars, map_vars,
                       re_vars>>
    \/ /\ focus = "database" /\ Store!Next
       /\ UNCHANGED <<focus, loop_vars, paint_vars, ui_vars, world_vars,
                       watch_vars, net_vars, term_vars, disp_vars, sound_vars,
                       img_vars, in_vars, body_vars, sprite_vars, map_vars,
                       re_vars>>
    \/ /\ focus = "images" /\ Pictures!Next
       /\ UNCHANGED <<focus, loop_vars, paint_vars, ui_vars, world_vars,
                       watch_vars, net_vars, term_vars, disp_vars, sound_vars,
                       db_vars, in_vars, body_vars, sprite_vars, map_vars,
                       re_vars>>
    \/ /\ focus = "input" /\ Inputs!Next
       /\ UNCHANGED <<focus, loop_vars, paint_vars, ui_vars, world_vars,
                       watch_vars, net_vars, term_vars, disp_vars, sound_vars,
                       db_vars, img_vars, body_vars, sprite_vars, map_vars,
                       re_vars>>
    \/ /\ focus = "physics" /\ Physics!Next
       /\ UNCHANGED <<focus, loop_vars, paint_vars, ui_vars, world_vars,
                       watch_vars, net_vars, term_vars, disp_vars, sound_vars,
                       db_vars, img_vars, in_vars, sprite_vars, map_vars,
                       re_vars>>
    \/ /\ focus = "sprites" /\ Sprites!Next
       /\ UNCHANGED <<focus, loop_vars, paint_vars, ui_vars, world_vars,
                       watch_vars, net_vars, term_vars, disp_vars, sound_vars,
                       db_vars, img_vars, in_vars, body_vars, map_vars,
                       re_vars>>
    \/ /\ focus = "tilemap" /\ Maps!Next
       /\ UNCHANGED <<focus, loop_vars, paint_vars, ui_vars, world_vars,
                       watch_vars, net_vars, term_vars, disp_vars, sound_vars,
                       db_vars, img_vars, in_vars, body_vars, sprite_vars,
                       re_vars>>
    \/ /\ focus = "regex" /\ Engine!Next
       /\ UNCHANGED <<focus, loop_vars, paint_vars, ui_vars, world_vars,
                       watch_vars, net_vars, term_vars, disp_vars, sound_vars,
                       db_vars, img_vars, in_vars, body_vars, sprite_vars,
                       map_vars>>

Spec == Init /\ [][Next]_vars

-----------------------------------------------------------------------------

\* The error that ended a frame is the error its run throws, however deep the
\* run is and whatever other threads and earlier callbacks have left behind;
\* only an exit request takes precedence (docs/stdlib/game.md: "the loop stops
\* and the error is reported at the run() call site").
CallbackErrorsAreThrown == [][focus = "frames" => Loop!RunThrowsItsError]_vars

\* A render target shows only what was drawn while it was bound: nothing is on
\* a target that set_render_target has not named since init, whatever was
\* bound before, and whichever of textures, turtles and cameras took part.
OnlyBoundTargetsArePainted == focus = "surfaces" => Surfaces!OnlyBoundTargetsArePainted

\* Every widget stays in the block it was issued in, in its place, over any
\* nesting of windows and groups, mismatched ends and callbacks that leave a
\* block open; what is replayed is what the program said (ui.rs, the test
\* nested_ui_blocks_keep_children_in_the_parent_buffer).
WidgetsKeepTheirBlock == focus = "ui" => Ui!WidgetsKeepTheirBlock

\* What is drawn exists: every sprite shows a texture of this run or none,
\* every animation goes through textures of this run, every scene through lists
\* of this run, and the active camera is one, over failed loads, destroyed
\* sprites and repeated calls of init (extras.rs indexes the textures of an
\* animation, and state.rs promises that "repeated runs in one process start
\* clean").
IndicesResolve == focus = "world" => World!IndicesResolve

\* A change made after watchAdd returned is not missed: until a drain has told
\* it, the last change of every path is on its way, unless the kernel dropped
\* events (windows_backend.rs: "otherwise a change made immediately after
\* `watchAdd` can be missed"; it holds over the worker's races with drains,
\* with the kernel and with other watches, and with the debounce window).
ChangesAreSeen == focus = "watch" => Watching!ChangesAreSeen

\* Under a name a thread receives what the connection it opened last has sent,
\* all of it, in order and once, whatever timeouts, other names, threads and
\* connections under the same name came between.
ReceivedInOrder == focus = "network" => Net!ReceivedInOrder

\* A prompt leaves the terminal in the mode it found it in, inside TUI mode and
\* outside, over any calls of enter and exit before; but askPassword ends in
\* the normal mode, and so does a prompt of a thread while TUI mode is on in
\* another (RawModeGuard; tui_enter, tui_exit).
PromptsRestoreTheTerminal == [][focus = "prompts" => Prompts!PromptEndsAsItBegan]_vars

\* While nothing else is printed in between, a display is on the terminal once,
\* at the end, with the height it will erase: its next rendering takes the place
\* of the whole last one and of no other line, whatever was rendered before,
\* stopped, or started in the same slot (emit_in_place: "a repeat update moves
\* the cursor back over the previous render and clears it first").
DisplaysReplaceThemselves == focus = "displays" => Displays!DisplaysReplaceThemselves

\* What is heard can be controlled: every player that sounds is the one of a
\* live handle, with the volume that was last set for that handle, so that it
\* can be stopped; a handle is heard at most once, is_playing tells whether it
\* is, and without a device nothing sounds.
PlayersFollowTheirHandle == focus = "sound" => Sounds!PlayersFollowTheirHandle

\* A handle stands for the connection that open returned it for and for no later
\* one, and it stays closed once it is closed.  A call by path leaves no
\* transaction behind, however its script ends: a statement is refused as locked
\* only while a handle that the program can still close is in a transaction.
\* Closing a handle stores nothing.
TransactionsBelongToHandles == [][focus = "database" => Store!TransactionsBelongToHandles]_vars

\* A flood fill ends, and has painted the region of its point and nothing else,
\* whatever holes and corners earlier drawing has left in the picture
\* (docs/stdlib/image.md: "the contiguous region under the seed point").
FillsPaintTheRegion == focus = "images" => Pictures!FillsPaintTheRegion

\* What the game module told of the pointer's movement is where the pointer was
\* when it was last asked, however many frames passed between the questions, and
\* with what it would tell now it is where the graphics module says the pointer
\* is; what it told of this frame's turn of the wheel and has still to tell is the
\* graphics module's turn.  The lists of keys and the questions about one key
\* agree, whatever other names the key has, and so do the two modules; a key or a
\* button pressed in this frame and not down was released in it.
InputIsReportedOnce == focus = "input" => Inputs!InputIsReportedOnce

\* A player that rests on a flat platform rides it: however the program moves
\* the platform between the steps, the player ends a step on it, where it stood
\* (the carry, the fall and the landing take part, on solid walls and on
\* one-way platforms alike).
RidersStayOnTheirPlatform == [][focus = "physics" => Physics!RiderIsCarried]_vars

\* Sprites behave as they are seen.  When sprites are drawn, two of them collide
\* exactly when their pictures on the screen touch, whatever camera looks at them
\* and however they are turned and scaled (but not a solid sprite that is turned:
\* it is drawn as if it were not), and a list collides when one of its sprites
\* does.  An update of a sprite or of a list moves every sprite that it names by one
\* frame, once, and no other: sprites that were added twice, destroyed and added
\* again, or that never were, neither move twice nor stop the rest.
SpritesActAsSeen == [][focus = "sprites" => Sprites!SpritesActAsSeen]_vars

\* A map looks as its file says.  In whatever order the file lists its tilesets,
\* a tile that one of them counts as its own shows that tileset's cut-out, when
\* the image has room for it; two tiles of one tileset show parts of the image
\* that do not overlap and do not leave it.  The sprites of a layer lie apart,
\* in rows from the top down and from left to right, in the order of its list,
\* when the map gives its tiles a size.
TilesShowTheirPictures == focus = "tilemap" => Maps!TilesShowTheirPictures

\* No operation loses or doubles a part of the subject: every match put in its
\* own place, all of them or only some, gives the subject back, and so do the
\* pieces of a split with the separators that it keeps.  Replacing matches by
\* nothing leaves the pieces that a split makes of the subject, and as many
\* matches are replaced as are counted.  Whatever is taken out of the subject
\* starts and ends between two characters, also at an empty match behind a
\* character of several bytes and at the ends of a truncated text.
SubjectIsKept == focus = "regex" => Engine!SubjectIsKept
=============================================================================
