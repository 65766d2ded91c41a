----------------------------- MODULE GameWorld -----------------------------
(***************************************************************************)
(* The registries of the native module `game` (rust/game/src: sprites.rs,  *)
(* extras.rs, camera.rs, state.rs): textures, sprites, sprite lists,       *)
(* scenes, cameras, labels, sounds and animations name each other by       *)
(* index.                                                                  *)
(*                                                                         *)
(* Indices count from 0 in the code and from 1 here; 0 stands for the      *)
(* negative ones, which many functions read as the first.  Where a sprite  *)
(* is, and how it moves, is GamePhysics.                                   *)
(***************************************************************************)
EXTENDS Integers, Sequences

CONSTANTS Names,       \* names of the lists of a scene
          MaxTextures, MaxSprites, MaxOthers,   \* bounds on the registries
          Gone         \* an empty slot

Sprite == [texture : Nat]
Sound == {"paused", "playing", "looping"}
Indices == 0..MaxSprites

\* What the constants are.
WorldAssumption == /\ {MaxTextures, MaxSprites, MaxOthers} \subseteq Nat
                          /\ Gone \notin Sprite \cup Sound

VARIABLES
    headless,
    textures,       \* how many there are
    sprites,
    lists,          \* sequences of indices of sprites
    scenes,         \* the list under each name
    cameras,        \* how many there are
    active_camera,  \* or 0
    labels,         \* whether each is there
    sounds,
    animations      \* by sprite: the textures it cycles through, the one it is at

vars == <<headless, textures, sprites, lists, scenes, cameras, active_camera,
          labels, sounds, animations>>

TypeOK ==
    /\ headless \in BOOLEAN
    /\ {textures, cameras, active_camera} \subseteq Nat
    /\ sprites \in Seq(Sprite \cup {Gone})
    /\ lists \in Seq(Seq(Indices))
    /\ \A s \in DOMAIN scenes :
          DOMAIN scenes[s] \subseteq Names /\ scenes[s] \in [DOMAIN scenes[s] -> Nat]
    /\ labels \in Seq(BOOLEAN) /\ sounds \in Seq(Sound)
    /\ DOMAIN animations \subseteq Indices
    /\ \A i \in DOMAIN animations :
          animations[i] \in [textures : Seq(Nat), frame : Nat]

NoAnimation == [i \in {} |-> Gone]
NoLists == [n \in {} |-> Gone]

Init ==
    /\ headless \in BOOLEAN
    /\ textures = 0 /\ sprites = <<>> /\ lists = <<>> /\ scenes = <<>>
    /\ cameras = 0 /\ active_camera = 0 /\ labels = <<>> /\ sounds = <<>>
    /\ animations = NoAnimation

\* A mistake: the animations of an earlier run are left.
reset_keeps_animations ==
    /\ textures' = 0 /\ sprites' = <<>> /\ lists' = <<>> /\ scenes' = <<>>
    /\ cameras' = 0 /\ active_camera' = 0 /\ labels' = <<>> /\ sounds' = <<>>
    /\ UNCHANGED <<headless, animations>>

\* State::reset, by init
reset ==
    /\ textures' = 0 /\ sprites' = <<>> /\ lists' = <<>> /\ scenes' = <<>>
    /\ cameras' = 0 /\ active_camera' = 0 /\ labels' = <<>> /\ sounds' = <<>>
    /\ animations' = NoAnimation
    /\ UNCHANGED headless

-----------------------------------------------------------------------------
(* Sprites and textures.                                                   *)

Live(i) == i \in DOMAIN sprites /\ sprites[i] # Gone
AtLeastFirst(i) == IF i = 0 THEN 1 ELSE i

Others == <<headless, cameras, active_camera, labels, sounds>>

NewSprite(texture) == Append(sprites, [texture |-> texture])

make_solid_sprite ==
    /\ Len(sprites) < MaxSprites
    /\ sprites' = NewSprite(0)
    /\ UNCHANGED <<textures, lists, scenes, animations, Others>>

\* A file that is no image answers -1.
load_texture ==
    /\ ~headless /\ textures < MaxTextures
    /\ textures' = textures + 1
    /\ UNCHANGED <<sprites, lists, scenes, animations, Others>>

load_sprite ==
    /\ ~headless /\ textures < MaxTextures /\ Len(sprites) < MaxSprites
    /\ textures' = textures + 1
    /\ sprites' = NewSprite(textures + 1)
    /\ UNCHANGED <<lists, scenes, animations, Others>>

\* A negative index shows no texture, with the size of the first.
set_sprite_texture(i, texture) ==
    /\ Live(i) /\ AtLeastFirst(texture) \in 1..textures
    /\ sprites' = [sprites EXCEPT ![i].texture = texture]
    /\ UNCHANGED <<textures, lists, scenes, animations, Others>>

\* The slot stays empty; its animation stays.
destroy_sprite(i) ==
    /\ i \in DOMAIN sprites
    /\ sprites' = [sprites EXCEPT ![i] = Gone]
    /\ lists' = [l \in DOMAIN lists |-> SelectSeq(lists[l], LAMBDA s : s # i)]
    /\ UNCHANGED <<textures, scenes, animations, Others>>

\* n frames, of which the first `loaded` are images; when one is not, the
\* textures before it stay.
make_animated_sprite(n, loaded) ==
    /\ ~headless /\ textures + loaded <= MaxTextures /\ Len(sprites) < MaxSprites
    /\ textures' = textures + loaded
    /\ IF loaded = n
       THEN /\ sprites' = NewSprite(textures + 1)
            /\ animations' = [i \in DOMAIN animations \cup {Len(sprites')} |->
                  IF i = Len(sprites')
                  THEN [textures |-> [f \in 1..n |-> textures + f], frame |-> 1]
                  ELSE animations[i]]
       ELSE UNCHANGED <<sprites, animations>>
    /\ UNCHANGED <<lists, scenes, Others>>

\* The time since the last call has run over `steps` frames.
update_animation(i, steps) ==
    /\ i \in DOMAIN animations /\ Len(animations[i].textures) > 1
    /\ LET shown == animations[i].textures
           frame == ((animations[i].frame - 1 + steps) % Len(shown)) + 1
       IN  /\ animations' = [animations EXCEPT ![i].frame = frame]
           /\ sprites' = IF Live(i) THEN [sprites EXCEPT ![i].texture = shown[frame]]
                         ELSE sprites
    /\ UNCHANGED <<textures, lists, scenes, Others>>

-----------------------------------------------------------------------------
(* Lists, scenes and tilemaps.                                             *)

make_sprite_list ==
    /\ Len(lists) < MaxOthers
    /\ lists' = Append(lists, <<>>)
    /\ UNCHANGED <<textures, sprites, scenes, animations, Others>>

ChangeList(l, Effect(_)) ==
    /\ AtLeastFirst(l) \in DOMAIN lists
    /\ lists' = [lists EXCEPT ![AtLeastFirst(l)] = Effect(@)]
    /\ UNCHANGED <<textures, sprites, scenes, animations, Others>>

\* Any index goes into a list, once.
add_to_list(l, i) ==
    ChangeList(l, LAMBDA s : IF \E k \in DOMAIN s : s[k] = i THEN s ELSE Append(s, i))

remove_sprite_from_list(l, i) == ChangeList(l, LAMBDA s : SelectSeq(s, LAMBDA e : e # i))
clear_sprite_list(l) == ChangeList(l, LAMBDA s : <<>>)

make_scene ==
    /\ Len(scenes) < MaxOthers
    /\ scenes' = Append(scenes, NoLists)
    /\ UNCHANGED <<textures, sprites, lists, animations, Others>>

\* A name is used once in a scene.  (The order in which a scene draws its lists
\* is left out.)
add_list_to_scene(scene, l, name) ==
    /\ scene \in DOMAIN scenes /\ l \in DOMAIN lists
    /\ scenes' = [scenes EXCEPT ![scene] =
          [n \in DOMAIN @ \cup {name} |-> IF n = name THEN l ELSE @[n]]]
    /\ UNCHANGED <<textures, sprites, lists, animations, Others>>

\* A map of one layer and one tileset: its atlas, when it loads, is a texture,
\* its tiles are new sprites, in a new list, in a new scene.
load_tilemap(tiles, name, atlas) ==
    /\ atlas => ~headless /\ textures < MaxTextures
    /\ Len(sprites) + tiles <= MaxSprites /\ Len(lists) < MaxOthers /\ Len(scenes) < MaxOthers
    /\ LET texture == IF atlas THEN textures + 1 ELSE 0
       IN  /\ textures' = IF atlas THEN texture ELSE textures
           /\ sprites' = sprites \o [k \in 1..tiles |-> [texture |-> texture]]
    /\ lists' = Append(lists, [k \in 1..tiles |-> Len(sprites) + k])
    /\ scenes' = Append(scenes, [n \in {name} |-> Len(lists) + 1])
    /\ UNCHANGED <<animations, Others>>

-----------------------------------------------------------------------------
(* Cameras, labels and sounds.                                             *)

\* The bound on these registries is one on all of them.
Room == cameras + Len(labels) + Len(sounds) < MaxOthers

Picture == <<headless, textures, sprites, lists, scenes, animations>>

make_camera ==
    /\ Room
    /\ cameras' = cameras + 1
    /\ UNCHANGED <<Picture, active_camera, labels, sounds>>

use_camera(i) ==
    /\ i \in 1..cameras
    /\ active_camera' = i
    /\ UNCHANGED <<Picture, cameras, labels, sounds>>

reset_camera ==
    /\ active_camera' = 0
    /\ UNCHANGED <<Picture, cameras, labels, sounds>>

make_text_label ==
    /\ Room
    /\ labels' = Append(labels, TRUE)
    /\ UNCHANGED <<Picture, cameras, active_camera, sounds>>

destroy_text_label(i) ==
    /\ i \in DOMAIN labels /\ labels[i]
    /\ labels' = [labels EXCEPT ![i] = FALSE]
    /\ UNCHANGED <<Picture, cameras, active_camera, sounds>>

load_sound ==
    /\ ~headless /\ Room
    /\ sounds' = Append(sounds, "paused")
    /\ UNCHANGED <<Picture, cameras, active_camera, labels>>

\* A file that has gone since it was loaded answers -1.
start_sound(i, looping) ==
    /\ i \in DOMAIN sounds
    /\ sounds' = [sounds EXCEPT ![i] = IF looping THEN "looping" ELSE "playing"]
    /\ UNCHANGED <<Picture, cameras, active_camera, labels>>

\* By stopSound, or a sound that has played.
stop_sound(i) ==
    /\ i \in DOMAIN sounds
    /\ sounds' = [sounds EXCEPT ![i] = "paused"]
    /\ UNCHANGED <<Picture, cameras, active_camera, labels>>

-----------------------------------------------------------------------------
SpriteOps ==
    \/ make_solid_sprite \/ load_texture \/ load_sprite
    \/ \E i \in Indices : destroy_sprite(i)
    \/ \E i \in Indices, texture \in 0..MaxTextures : set_sprite_texture(i, texture)
    \/ \E n \in 1..2 : \E loaded \in 0..n : make_animated_sprite(n, loaded)
    \/ \E i \in Indices, steps \in 0..1 : update_animation(i, steps)

ListOps ==
    \/ make_sprite_list \/ make_scene
    \/ \E l \in 0..MaxOthers, i \in Indices : add_to_list(l, i) \/ remove_sprite_from_list(l, i)
    \/ \E l \in 0..MaxOthers : clear_sprite_list(l)
    \/ \E scene, l \in 1..MaxOthers, name \in Names : add_list_to_scene(scene, l, name)
    \/ \E tiles \in 0..1, name \in Names, atlas \in BOOLEAN : load_tilemap(tiles, name, atlas)

OtherOps ==
    \/ make_camera \/ reset_camera \/ make_text_label \/ load_sound
    \/ \E i \in 1..MaxOthers : \/ use_camera(i) \/ destroy_text_label(i) \/ stop_sound(i)
                               \/ \E looping \in BOOLEAN : start_sound(i, looping)

Next == reset \/ SpriteOps \/ ListOps \/ OtherOps

Spec == Init /\ [][Next]_vars

-----------------------------------------------------------------------------
\* What is drawn exists: every sprite shows a texture of this run or none,
\* every animation goes through textures of this run, every scene through lists
\* of this run, and the active camera is one, over failed loads, destroyed
\* sprites and repeated calls of init (extras.rs indexes the textures of an
\* animation, and state.rs promises that "repeated runs in one process start
\* clean").
IndicesResolve ==
    /\ \A i \in DOMAIN sprites : sprites[i] # Gone => sprites[i].texture <= textures
    /\ \A i \in DOMAIN animations : \A f \in DOMAIN animations[i].textures :
          animations[i].textures[f] \in 1..textures
    /\ \A s \in DOMAIN scenes : \A n \in DOMAIN scenes[s] : scenes[s][n] \in DOMAIN lists
    /\ active_camera <= cameras
=============================================================================
