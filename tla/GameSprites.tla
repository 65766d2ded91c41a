----------------------------- MODULE GameSprites -----------------------------
(***************************************************************************)
(* Where the sprites of the game module are, how they move, what of them   *)
(* collides and where they are drawn (rust/game/src: sprites.rs,           *)
(* camera.rs, extras.rs, state.rs).                                        *)
(*                                                                         *)
(* Lengths are integers, angles are quarter turns, and a frame takes one   *)
(* unit of time.  A sprite has its size by halves.  Which textures sprites *)
(* show is GameWorld.                                                      *)
(***************************************************************************)
EXTENDS Integers, Sequences

CONSTANTS
    Places,        \* where a program puts sprites and cameras
    Halves,        \* sizes: half the width and half the height
    Velocities,
    Scales, Zooms, \* a zoom that is not positive is one
    Scenes,        \* sequences of lists
    WindowHalf,    \* half the window's width and height
    MaxSprites, MaxLists, MaxFrames,   \* bounds
    MaxChanges,    \* bound: calls that change an attribute of a sprite or the camera
    Gone           \* a destroyed sprite; no camera

Point == [x : Int, y : Int]
Sprite ==
    [at : Point, half : Point, scale : Nat \ {0}, angle : Int, velocity : Point,
     angular_velocity : Int, visible : BOOLEAN, textured : BOOLEAN]
Camera == [at : Point, zoom : Nat \ {0}]
Indices == 1 .. MaxSprites

\* What the constants are.
SpritesAssumption ==
    /\ Places \cup Halves \cup Velocities \cup {WindowHalf} \subseteq Point
    /\ \A h \in Halves : h.x > 0 /\ h.y > 0
    /\ Scales \subseteq Nat \ {0} /\ Zooms \subseteq Int
    /\ Scenes \subseteq Seq(Nat)
    /\ {MaxSprites, MaxLists, MaxFrames, MaxChanges} \subseteq Nat
    /\ Gone \notin Sprite \cup Camera

VARIABLES
    headless,
    sprites,    \* the registry
    lists,      \* the indices in each list
    camera,     \* the active camera
    frame,      \* how often sprites were moved
    changes,    \* how often an attribute was changed
    call        \* the last update or drawing, and the sprites it is about

vars == <<headless, sprites, lists, camera, frame, changes, call>>

At(x, y) == [x |-> x, y |-> y]
Solid(place, half) ==
    [at |-> place, half |-> half, scale |-> 1, angle |-> 0, velocity |-> At(0, 0),
     angular_velocity |-> 0, visible |-> TRUE, textured |-> FALSE]

Live(i) == i \in DOMAIN sprites /\ sprites[i] # Gone

\* The elements of a sequence that are in a set, in their order.
Chosen(s, set) ==
    LET chosen[n \in Nat] ==
            IF n = 0 THEN <<>>
            ELSE IF n \in DOMAIN s /\ s[n] \in set THEN Append(chosen[n - 1], s[n])
            ELSE chosen[n - 1]
    IN  chosen[Len(s)]

-----------------------------------------------------------------------------
(* Collisions and the screen.                                              *)

\* The half extents of a box along the axes: a quarter turn exchanges them.
Extents(half, angle) == IF angle % 2 = 1 THEN At(half.y, half.x) ELSE half
Scaled(half, by) == At(half.x * by, half.y * by)
Distance(a, b) == IF a < b THEN b - a ELSE a - b

\* Two boxes touch when no axis of either separates them.
Touch(at1, extents1, at2, extents2) ==
    /\ Distance(at1.x, at2.x) <= extents1.x + extents2.x
    /\ Distance(at1.y, at2.y) <= extents1.y + extents2.y

Box(s) == Extents(Scaled(s.half, s.scale), s.angle)
collides(a, b) == Touch(a.at, Box(a), b.at, Box(b))
sprite_collides(i, j) == Live(i) /\ Live(j) /\ collides(sprites[i], sprites[j])
colliding(i, l) == Chosen(lists[l], {j \in Indices : sprite_collides(i, j)})
collides_with_list(i, l) == \E k \in DOMAIN lists[l] : sprite_collides(i, lists[l][k])

\* The world is bottom-up, the screen is top-down; the camera is its middle.
screen_scale == IF camera = Gone THEN 1 ELSE camera.zoom
screen_pos(p) ==
    LET world == IF camera = Gone THEN p
                 ELSE At((p.x - camera.at.x) * camera.zoom + WindowHalf.x,
                         (p.y - camera.at.y) * camera.zoom + WindowHalf.y)
    IN  At(world.x, 2 * WindowHalf.y - world.y)
\* A texture is turned as the sprite is, the rectangle of a solid sprite is not.
OnScreen(s) ==
    LET half == Scaled(s.half, s.scale * screen_scale)
    IN  [at |-> screen_pos(s.at),
         extents |-> IF s.textured THEN Extents(half, s.angle) ELSE half]

-----------------------------------------------------------------------------
NoCall == [name |-> "none", about |-> <<>>, shown |-> <<>>]

Init ==
    /\ headless \in BOOLEAN
    /\ sprites = <<>> /\ lists = <<>> /\ camera = Gone /\ frame = 0
    /\ changes = 0 /\ call = NoCall

Called(name, about, shown) == call' = [name |-> name, about |-> about, shown |-> shown]

make_solid_sprite(place, half) ==
    /\ Len(sprites) < MaxSprites
    /\ sprites' = Append(sprites, Solid(place, half))
    /\ call' = NoCall
    /\ UNCHANGED <<headless, lists, camera, frame, changes>>

\* A texture has a size of its own, and there is none without a window.
load_sprite(place, half, scale) ==
    /\ ~headless
    /\ Len(sprites) < MaxSprites
    /\ sprites' = Append(sprites, [Solid(place, half) EXCEPT !.scale = scale, !.textured = TRUE])
    /\ call' = NoCall
    /\ UNCHANGED <<headless, lists, camera, frame, changes>>

\* The functions that set one attribute do nothing to a sprite that is gone.
Changed(i, s) ==
    /\ Live(i)
    /\ changes < MaxChanges
    /\ changes' = changes + 1
    /\ sprites' = [sprites EXCEPT ![i] = s]
    /\ call' = NoCall
    /\ UNCHANGED <<headless, lists, camera, frame>>

set_sprite_pos(i, place) == Live(i) /\ Changed(i, [sprites[i] EXCEPT !.at = place])
set_sprite_angle(i, angle) == Live(i) /\ Changed(i, [sprites[i] EXCEPT !.angle = angle])
set_sprite_scale(i, scale) == Live(i) /\ Changed(i, [sprites[i] EXCEPT !.scale = scale])
set_sprite_velocity(i, v) == Live(i) /\ Changed(i, [sprites[i] EXCEPT !.velocity = v])
stop_sprite(i) == set_sprite_velocity(i, At(0, 0))
set_sprite_angular_velocity(i, v) ==
    Live(i) /\ Changed(i, [sprites[i] EXCEPT !.angular_velocity = v])
set_sprite_visible(i, visible) == Live(i) /\ Changed(i, [sprites[i] EXCEPT !.visible = visible])

destroy_sprite(i) ==
    /\ i \in DOMAIN sprites
    /\ sprites' = [sprites EXCEPT ![i] = Gone]
    /\ lists' = [l \in DOMAIN lists |-> Chosen(lists[l], Indices \ {i})]
    /\ call' = NoCall
    /\ UNCHANGED <<headless, camera, frame, changes>>

make_sprite_list ==
    /\ Len(lists) < MaxLists
    /\ lists' = Append(lists, <<>>)
    /\ call' = NoCall
    /\ UNCHANGED <<headless, sprites, camera, frame, changes>>

\* A mistake: a sprite that the list has is added again.
add_to_list_again(l, i) ==
    /\ l \in DOMAIN lists /\ Len(lists[l]) < MaxSprites
    /\ lists' = [lists EXCEPT ![l] = Append(@, i)]
    /\ call' = NoCall
    /\ UNCHANGED <<headless, sprites, camera, frame, changes>>

\* Any index goes into a list, once.
add_to_list(l, i) ==
    /\ l \in DOMAIN lists /\ \A k \in DOMAIN lists[l] : lists[l][k] # i
    /\ lists' = [lists EXCEPT ![l] = Append(@, i)]
    /\ call' = NoCall
    /\ UNCHANGED <<headless, sprites, camera, frame, changes>>

remove_sprite_from_list(l, i) ==
    /\ l \in DOMAIN lists
    /\ lists' = [lists EXCEPT ![l] = Chosen(@, Indices \ {i})]
    /\ call' = NoCall
    /\ UNCHANGED <<headless, sprites, camera, frame, changes>>

\* A sprite after one frame.
Moved(s) ==
    [s EXCEPT !.at = At(@.x + s.velocity.x, @.y + s.velocity.y),
              !.angle = (@ + s.angular_velocity) % 4]

\* Moves sprites one after the other, as often as each is named.
MovedAll(members) ==
    LET moved[n \in Nat] ==
            IF n = 0 THEN sprites
            ELSE IF n \in DOMAIN members /\ Live(members[n])
                 THEN [moved[n - 1] EXCEPT ![members[n]] = Moved(@)]
            ELSE moved[n - 1]
    IN  moved[Len(members)]
Update(name, members) ==
    /\ frame < MaxFrames
    /\ frame' = frame + 1
    /\ sprites' = MovedAll(members)
    /\ Called(name, members, <<>>)
    /\ UNCHANGED <<headless, lists, camera, changes>>

update_sprite(i) == Update("update", <<i>>)
update_sprite_list(l) == l \in DOMAIN lists /\ Update("update", lists[l])

\* The lists of a scene one after the other; a list that is not there is empty.
Members(scene) ==
    LET members[n \in Nat] ==
            IF n = 0 THEN <<>>
            ELSE IF n \in DOMAIN scene /\ scene[n] \in DOMAIN lists
                 THEN members[n - 1] \o lists[scene[n]]
            ELSE members[n - 1]
    IN  members[Len(scene)]
update_scene(scene) == Update("update_scene", Members(scene))

\* draw_sprite: what is gone or hidden is not drawn, nor is anything without a
\* window.
Draw(name, members) ==
    LET shown == Chosen(members, {i \in DOMAIN sprites : Live(i) /\ sprites[i].visible})
    IN  /\ ~headless
        /\ Called(name, <<>>, [k \in DOMAIN shown |-> OnScreen(sprites[shown[k]])])
        /\ UNCHANGED <<headless, sprites, lists, camera, frame, changes>>

draw_sprite(i) == Draw("draw", <<i>>)
draw_sprite_list(l) == l \in DOMAIN lists /\ Draw("draw", lists[l])
draw_scene(scene) == Draw("draw", Members(scene))

-----------------------------------------------------------------------------
(* The camera in use.                                                      *)

Look(c) ==
    /\ changes < MaxChanges
    /\ changes' = changes + 1
    /\ camera' = c
    /\ call' = NoCall
    /\ UNCHANGED <<headless, sprites, lists, frame>>

use_camera == camera = Gone /\ Look([at |-> At(0, 0), zoom |-> 1])
set_camera_pos(place) == camera # Gone /\ Look([camera EXCEPT !.at = place])
zoom_camera(zoom) == camera # Gone /\ Look([camera EXCEPT !.zoom = IF zoom > 0 THEN zoom ELSE 1])
reset_camera == camera # Gone /\ Look(Gone)

Next ==
    \/ \E place \in Places, half \in Halves :
          \/ make_solid_sprite(place, half)
          \/ \E scale \in Scales : load_sprite(place, half, scale)
    \/ \E i \in Indices :
          \/ destroy_sprite(i) \/ stop_sprite(i) \/ update_sprite(i) \/ draw_sprite(i)
          \/ \E place \in Places : set_sprite_pos(i, place)
          \/ \E v \in Velocities : set_sprite_velocity(i, v)
          \/ \E quarter \in {1} : set_sprite_angle(i, quarter) \/ set_sprite_angular_velocity(i, quarter)
          \/ \E scale \in Scales : set_sprite_scale(i, scale)
          \/ set_sprite_visible(i, FALSE)
    \/ make_sprite_list
    \/ \E l \in 1 .. MaxLists :
          \/ \E i \in Indices : add_to_list(l, i) \/ remove_sprite_from_list(l, i)
          \/ update_sprite_list(l) \/ draw_sprite_list(l)
    \/ \E scene \in Scenes : update_scene(scene) \/ draw_scene(scene)
    \/ use_camera \/ reset_camera
    \/ \E place \in Places : set_camera_pos(place)
    \/ \E zoom \in Zooms : zoom_camera(zoom)

Spec == Init /\ [][Next]_vars

-----------------------------------------------------------------------------
\* The registry holds sprites, no list holds a sprite twice, and a zoom is positive.
SpritesInv ==
    /\ sprites \in Seq(Sprite \cup {Gone})
    /\ lists \in Seq(Seq(Indices))
    /\ \A l \in DOMAIN lists : \A k, m \in DOMAIN lists[l] : lists[l][k] = lists[l][m] => k = m
    /\ camera \in Camera \cup {Gone}

\* The picture of the sprite is turned as its box is.
TurnsAsItsBox(i) == Live(i) /\ (sprites[i].textured \/ sprites[i].angle % 2 = 0)

Named(i) == \E k \in DOMAIN call'.about : call'.about[k] = i

\* Drawn, two sprites collide exactly when their pictures touch.
CollisionsAreSeen ==
    \A i, j \in DOMAIN sprites : TurnsAsItsBox(i) /\ TurnsAsItsBox(j) =>
       LET a == OnScreen(sprites[i])
           b == OnScreen(sprites[j])
       IN  sprite_collides(i, j) = Touch(a.at, a.extents, b.at, b.extents)
CollisionsAreMutual == \A i, j \in DOMAIN sprites : sprite_collides(i, j) = sprite_collides(j, i)
ListsCollide ==
    \A l \in DOMAIN lists, i \in DOMAIN sprites :
       collides_with_list(i, l) = (colliding(i, l) # <<>>)
\* An update moves what it names once.
NamedSpritesMove ==
    \A i \in DOMAIN sprites :
       sprites'[i] = IF Live(i) /\ Named(i) THEN Moved(sprites[i]) ELSE sprites[i]

\* Sprites behave as they are seen.  When sprites are drawn, two of them collide
\* exactly when their pictures on the screen touch, whatever camera looks at them
\* and however they are turned and scaled (but not a solid sprite that is turned:
\* it is drawn as if it were not), and a list collides when one of its sprites
\* does.  An update of a sprite or of a list moves every sprite that it names by one
\* frame, once, and no other: sprites that were added twice, destroyed and added
\* again, or that never were, neither move twice nor stop the rest.
SpritesActAsSeen ==
    /\ call'.name = "draw" => CollisionsAreSeen /\ CollisionsAreMutual /\ ListsCollide
    /\ call'.name = "update" /\ frame' # frame => NamedSpritesMove
=============================================================================
