-------------------------- MODULE GraphicsSurfaces --------------------------
(***************************************************************************)
(* What the native module `graphics` draws on, and with what: the window's *)
(* frame, render targets, textures, images, fonts, materials, cameras and  *)
(* turtles (rust/graphics/src: lib.rs, texture_ops.rs, shapes.rs, camera.rs,*)
(* text_ops.rs, material.rs, turtle.rs, raster.rs, state.rs).              *)
(*                                                                         *)
(* Handles count from 0 in the code and from 1 here.  A picture is the set *)
(* of the colours that were drawn on it.  Without a window (headless) the  *)
(* module draws on buffers of its own; with one, macroquad draws on what   *)
(* its camera looks at, inside a callback of run only.                     *)
(***************************************************************************)
EXTENDS Naturals, Sequences

CONSTANTS Shades,       \* colours
          Black,        \* the pen of a new turtle
          Places,       \* positions and headings of a turtle
          Home,         \* the place a turtle starts at
          Sizes,        \* sizes of the window
          MaxHandles,   \* bound on each registry
          Nothing       \* an empty slot

Pictures == SUBSET Shades
Turtles == [at : Places, heading : Places, pen_down : BOOLEAN, color : Shades]

\* What the constants are.
SurfaceAssumption ==
    /\ Home \in Places /\ Black \in Shades /\ MaxHandles \in Nat
    /\ Nothing \notin Turtles \cup [size : Sizes, picture : Pictures]

VARIABLES
    windowed,         \* not headless
    callback_active,  \* a callback of run is running
    size,             \* width and height
    images, textures, targets,
    source,           \* windowed: the target whose picture a texture shows, or 0
    active_target,    \* headless: the target drawn on, or 0
    framebuffer,      \* headless: the frame, with the size it was made for
    camera,           \* macroquad's camera, and the target it looks at or 0
    camera2d,         \* the camera screenToWorld reads
    saved,            \* the cameras pushCameraState keeps in macroquad
    fonts,            \* how many fonts and materials there are
    materials,
    turtles,
    bound             \* the targets set_render_target has named since init

registries == <<images, textures, targets, source, fonts, materials>>
vars == <<windowed, callback_active, size, registries, active_target, framebuffer,
          camera, camera2d, saved, turtles, bound>>

Looks == [kind : {"default", "2d", "3d", "target", "gone"}, target : 0..Len(targets)]

TypeOK ==
    /\ windowed \in BOOLEAN /\ callback_active \in BOOLEAN /\ size \in Sizes
    /\ images \in Seq(Pictures) /\ textures \in Seq(Pictures) /\ targets \in Seq(Pictures)
    /\ source \in [DOMAIN textures -> 0..Len(targets)]
    /\ active_target \in 0..Len(targets)
    /\ framebuffer \in [size : Sizes, picture : Pictures] \cup {Nothing}
    /\ camera \in Looks /\ saved \in Seq(Looks)
    /\ camera2d \in Places
    /\ fonts \in Nat /\ materials \in Nat
    /\ turtles \in Seq(Turtles \cup {Nothing})
    /\ bound \subseteq 1..MaxHandles

Look(kind) == [kind |-> kind, target |-> 0]

Init ==
    /\ windowed \in BOOLEAN
    /\ callback_active = FALSE
    /\ size \in Sizes
    /\ images = <<>> /\ textures = <<>> /\ targets = <<>> /\ source = <<>>
    /\ active_target = 0 /\ framebuffer = Nothing
    /\ camera = Look("default") /\ camera2d = Home /\ saved = <<>>
    /\ fonts = 0 /\ materials = 0
    /\ turtles = <<>>
    /\ bound = {}

-----------------------------------------------------------------------------
(* The window and its callbacks.                                           *)

\* graphics_context_allowed: without a window everything is.
Allowed == ~windowed \/ callback_active

\* A mistake: a second init keeps the target that was bound.
reset_keeps_target ==
    /\ images' = <<>> /\ textures' = <<>> /\ targets' = <<>> /\ source' = <<>>
    /\ framebuffer' = Nothing
    /\ fonts' = 0 /\ materials' = 0
    /\ turtles' = <<>> /\ camera2d' = Home
    /\ bound' = {}
    /\ UNCHANGED active_target

\* State::reset
reset ==
    /\ images' = <<>> /\ textures' = <<>> /\ targets' = <<>> /\ source' = <<>>
    /\ active_target' = 0 /\ framebuffer' = Nothing
    /\ fonts' = 0 /\ materials' = 0
    /\ turtles' = <<>> /\ camera2d' = Home
    /\ bound' = {}

\* Within a windowed run macroquad's camera stays as it is, and so do those it
\* keeps; a target one looks at is no longer in the registry.
Forget(look) == IF look.kind = "target" THEN Look("gone") ELSE look

init(newSize) ==
    /\ reset
    /\ size' = newSize
    /\ camera' = Forget(camera)
    /\ saved' = [i \in DOMAIN saved |-> Forget(saved[i])]
    /\ UNCHANGED <<windowed, callback_active>>

\* setWindowSize and requestScreenSize; the frame is made anew when it is
\* drawn on next.
set_window_size(newSize) ==
    /\ size' = newSize
    /\ UNCHANGED <<windowed, callback_active, registries, active_target, framebuffer,
                   camera, camera2d, saved, turtles, bound>>

\* invoke_callback; a windowed frame starts with macroquad's default camera, and
\* its second callback with the one that the first has left.
invoke_callback ==
    /\ callback_active' = ~callback_active
    /\ \/ windowed /\ callback_active' /\ camera' = Look("default")
       \/ UNCHANGED camera
    /\ UNCHANGED <<windowed, size, registries, active_target, framebuffer, camera2d, saved,
                   turtles, bound>>

-----------------------------------------------------------------------------
(* Where drawings go.                                                      *)

\* The target drawn on: 0 is the frame.
Canvas == IF windowed THEN camera.target
          ELSE IF active_target \in DOMAIN targets THEN active_target ELSE 0

\* with_framebuffer: a frame of another size is replaced by an empty one.
Frame == IF framebuffer = Nothing \/ framebuffer.size # size
         THEN [size |-> size, picture |-> {}] ELSE framebuffer

\* A drawing that turns the picture p into Effect(p).
Draw(Effect(_)) ==
    /\ targets' = IF Canvas = 0 THEN targets ELSE [targets EXCEPT ![Canvas] = Effect(@)]
    /\ framebuffer' = IF windowed \/ Canvas # 0 THEN framebuffer
                      ELSE [Frame EXCEPT !.picture = Effect(@)]

\* Whatever is only drawn: shapes, lines and polygons ...
draw_shape(shade) ==
    /\ Allowed
    /\ Draw(LAMBDA p : p \cup {shade})
    /\ UNCHANGED <<windowed, callback_active, size, images, textures, source,
                   active_target, camera, camera2d, saved, fonts, materials, turtles, bound>>

\* ... text, in a font that was loaded or the built-in one ...
draw_text(shade) == draw_shape(shade)

\* ... and 3D primitives, which need a window.
draw_3d(shade) == windowed /\ draw_shape(shade)

clear_background(shade) ==
    /\ Allowed
    /\ Draw(LAMBDA p : {shade})
    /\ UNCHANGED <<windowed, callback_active, size, images, textures, source,
                   active_target, camera, camera2d, saved, fonts, materials, turtles, bound>>

\* drawTexture, scaled, of a region or rotated.  An unknown handle draws
\* nothing.  With a window, a texture of a target shows what is there now.
Shown(h) == IF source[h] # 0 THEN targets[source[h]] ELSE textures[h]

draw_texture(h) ==
    /\ Allowed
    /\ h \in DOMAIN textures
    /\ Draw(LAMBDA p : p \cup Shown(h))
    /\ UNCHANGED <<windowed, callback_active, size, images, textures, source,
                   active_target, camera, camera2d, saved, fonts, materials, turtles, bound>>

-----------------------------------------------------------------------------
(* Images and textures.                                                    *)

Room(registry) == Len(registry) < MaxHandles

push_image(picture) ==
    /\ Room(images)
    /\ images' = Append(images, picture)
    /\ UNCHANGED <<windowed, callback_active, size, textures, targets, source,
                   active_target, framebuffer, camera, camera2d, saved, fonts, materials,
                   turtles, bound>>

push_texture(picture, target) ==
    /\ Room(textures)
    /\ textures' = Append(textures, picture)
    /\ source' = Append(source, target)
    /\ UNCHANGED <<windowed, callback_active, size, images, targets, active_target,
                   framebuffer, camera, camera2d, saved, fonts, materials, turtles, bound>>

load_texture(picture) == Allowed /\ push_texture(picture, 0)
load_image(picture) == Allowed /\ push_image(picture)
gen_image(shade) == push_image({shade})

texture_from_image(h) == Allowed /\ h \in DOMAIN images /\ push_texture(images[h], 0)
image_from_texture(h) == Allowed /\ h \in DOMAIN textures /\ push_image(Shown(h))

\* A pixel outside the image answers -1 and changes nothing.
image_set_pixel(h, shade) ==
    /\ h \in DOMAIN images
    /\ images' = [images EXCEPT ![h] = @ \cup {shade}]
    /\ UNCHANGED <<windowed, callback_active, size, textures, targets, source,
                   active_target, framebuffer, camera, camera2d, saved, fonts, materials,
                   turtles, bound>>

\* getScreenData; -1 while nothing has been drawn on the frame.  With a window
\* the picture is the screen's.
screen_image ==
    /\ Allowed
    /\ IF windowed THEN \E picture \in Pictures : push_image(picture)
                   ELSE framebuffer # Nothing /\ push_image(framebuffer.picture)

-----------------------------------------------------------------------------
(* Render targets and cameras.                                             *)

render_target ==
    /\ Allowed /\ Room(targets)
    /\ targets' = Append(targets, {})
    /\ UNCHANGED <<windowed, callback_active, size, images, textures, source,
                   active_target, framebuffer, camera, camera2d, saved, fonts, materials,
                   turtles, bound>>

\* Without a window the texture is a copy of what the target shows now.
render_target_texture(h) ==
    /\ Allowed /\ h \in DOMAIN targets
    /\ push_texture(targets[h], IF windowed THEN h ELSE 0)

set_render_target(h) ==
    /\ Allowed /\ h \in DOMAIN targets
    /\ IF windowed THEN camera' = [kind |-> "target", target |-> h] /\ UNCHANGED active_target
                   ELSE active_target' = h /\ UNCHANGED camera
    /\ bound' = bound \cup {h}
    /\ UNCHANGED <<windowed, callback_active, size, registries, framebuffer, camera2d, saved,
                   turtles>>

end_render_target ==
    /\ Allowed
    /\ IF windowed THEN camera' = Look("default") /\ UNCHANGED active_target
                   ELSE active_target' = 0 /\ UNCHANGED camera
    /\ UNCHANGED <<windowed, callback_active, size, registries, framebuffer, camera2d, saved,
                   turtles, bound>>

\* setCamera2D, setCamera2DRect and setDefaultCamera remember the camera; with
\* a window they also take the place of a render target's camera.
set_camera_2d(place, kind) ==
    /\ Allowed
    /\ camera2d' = IF kind = "default" THEN Home ELSE place
    /\ camera' = IF windowed THEN Look(kind) ELSE camera
    /\ UNCHANGED <<windowed, callback_active, size, registries, active_target,
                   framebuffer, saved, turtles, bound>>

set_camera_3d ==
    /\ Allowed
    /\ camera' = IF windowed THEN Look("3d") ELSE camera
    /\ UNCHANGED <<windowed, callback_active, size, registries, active_target,
                   framebuffer, camera2d, saved, turtles, bound>>

\* pushCameraState and popCameraState do nothing without a window.
push_camera_state ==
    /\ windowed /\ Allowed /\ Room(saved)
    /\ saved' = Append(saved, camera)
    /\ UNCHANGED <<windowed, callback_active, size, registries, active_target,
                   framebuffer, camera, camera2d, turtles, bound>>

pop_camera_state ==
    /\ windowed /\ Allowed /\ saved # <<>>
    /\ camera' = saved[Len(saved)]
    /\ saved' = SubSeq(saved, 1, Len(saved) - 1)
    /\ UNCHANGED <<windowed, callback_active, size, registries, active_target,
                   framebuffer, camera2d, turtles, bound>>

-----------------------------------------------------------------------------
(* Fonts and materials are only counted.                                   *)

load_font ==
    /\ Allowed /\ fonts < MaxHandles
    /\ fonts' = fonts + 1
    /\ UNCHANGED <<windowed, callback_active, size, images, textures, targets, source,
                   active_target, framebuffer, camera, camera2d, saved, materials, turtles, bound>>

load_material ==
    /\ windowed /\ Allowed /\ materials < MaxHandles
    /\ materials' = materials + 1
    /\ UNCHANGED <<windowed, callback_active, size, images, textures, targets, source,
                   active_target, framebuffer, camera, camera2d, saved, fonts, turtles, bound>>

-----------------------------------------------------------------------------
(* Turtles: handle 0 of the code, 1 here, is the default turtle.           *)

default_turtle == [at |-> Home, heading |-> Home, pen_down |-> TRUE,
                   color |-> Black]

\* with_turtle, on the handle of the code: an unknown handle makes the vector
\* longer, a handle below 1 makes the default turtle.
Padded(h) == IF Len(turtles) > h THEN turtles
             ELSE [i \in 1..(h + 1) |-> IF i \in DOMAIN turtles THEN turtles[i] ELSE Nothing]

Prepared(h) == IF h = 0 /\ Padded(0)[1] = Nothing
               THEN [Padded(0) EXCEPT ![1] = default_turtle] ELSE Padded(h)

with_turtle(h, Effect(_)) ==
    turtles' = [Prepared(h) EXCEPT ![h + 1] = IF @ = Nothing THEN Nothing ELSE Effect(@)]

turtle_create(place, heading) ==
    /\ Room(turtles)
    /\ turtles' = Append(turtles, [default_turtle EXCEPT !.at = place, !.heading = heading])
    /\ UNCHANGED <<windowed, callback_active, size, registries, active_target,
                   framebuffer, camera, camera2d, saved, bound>>

\* forward, back, goto and home: a stroke is drawn where the pen is down.
\* home alone asks for no context: outside a callback of a window macroquad
\* panics, the guard answers -1, and the turtle has moved.
turtle_moves(h, place, heading) ==
    LET before == Prepared(h)[h + 1]
        strokes == before # Nothing /\ before.pen_down /\ (~windowed \/ callback_active)
    IN  /\ with_turtle(h, LAMBDA t : [t EXCEPT !.at = place, !.heading = heading])
        /\ IF strokes THEN Draw(LAMBDA p : p \cup {before.color})
                      ELSE UNCHANGED <<targets, framebuffer>>
        /\ UNCHANGED <<windowed, callback_active, size, images, textures, source,
                       active_target, camera, camera2d, saved, fonts, materials, bound>>

\* forward, back and goto keep the heading.
turtle_goto(h, place) ==
    /\ Allowed
    /\ turtle_moves(h, place, IF Prepared(h)[h + 1] = Nothing THEN Home
                              ELSE Prepared(h)[h + 1].heading)

turtle_home(h) == turtle_moves(h, Home, Home)

\* turnLeft, turnRight, penUp, penDown, setColor and setWidth; the readers
\* leave the turtle as it is, and make the default one just so.
turtle_set(h, heading, down, shade) ==
    /\ with_turtle(h, LAMBDA t : [t EXCEPT !.heading = heading, !.pen_down = down,
                                           !.color = shade])
    /\ UNCHANGED <<windowed, callback_active, size, registries, active_target,
                   framebuffer, camera, camera2d, saved, bound>>

turtle_remove(h) ==
    /\ h > 0 /\ h + 1 \in DOMAIN turtles
    /\ turtles' = [turtles EXCEPT ![h + 1] = Nothing]
    /\ UNCHANGED <<windowed, callback_active, size, registries, active_target,
                   framebuffer, camera, camera2d, saved, bound>>

-----------------------------------------------------------------------------
Surfaces ==
    \/ \E s \in Sizes : init(s) \/ set_window_size(s)
    \/ invoke_callback
    \/ \E shade \in Shades : draw_shape(shade) \/ draw_text(shade) \/ draw_3d(shade)
                             \/ clear_background(shade)
    \/ \E h \in 1..MaxHandles : draw_texture(h) \/ texture_from_image(h)
                                \/ image_from_texture(h) \/ render_target_texture(h)
                                \/ set_render_target(h)
    \/ \E picture \in Pictures : load_texture(picture) \/ load_image(picture)
    \/ \E shade \in Shades : gen_image(shade)
    \/ \E h \in 1..MaxHandles, shade \in Shades : image_set_pixel(h, shade)
    \/ screen_image \/ render_target \/ end_render_target
    \/ \E place \in Places, kind \in {"default", "2d"} : set_camera_2d(place, kind)
    \/ set_camera_3d \/ push_camera_state \/ pop_camera_state \/ load_font \/ load_material

TurtleOps ==
    \/ \E place, heading \in Places : turtle_create(place, heading)
    \/ \E h \in 0..MaxHandles :
          \/ \E place \in Places : turtle_goto(h, place)
          \/ turtle_home(h)
          \/ \E heading \in Places, down \in BOOLEAN, shade \in Shades :
                turtle_set(h, heading, down, shade)
          \/ turtle_remove(h)

Next == Surfaces \/ TurtleOps

Spec == Init /\ [][Next]_vars

-----------------------------------------------------------------------------
\* A render target shows only what was drawn while it was bound: nothing is on
\* a target that set_render_target has not named since init, whatever was
\* bound before, and whichever of textures, turtles and cameras took part.
OnlyBoundTargetsArePainted ==
    \A h \in DOMAIN targets : targets[h] # {} => h \in bound
=============================================================================
