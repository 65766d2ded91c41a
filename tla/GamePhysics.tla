---------------------------- MODULE GamePhysics ----------------------------
(***************************************************************************)
(* The platformer physics of the native module `game`                      *)
(* (rust/game/src/extras.rs, update_physics): one engine, its player, and  *)
(* the walls, slopes and one-way platforms of its two lists, which the     *)
(* program moves between the steps.                                        *)
(*                                                                         *)
(* Coordinates are whole numbers, a step takes one unit of time, extents   *)
(* are half extents, a slope rises one in one.  The player and the walls   *)
(* keep their angle, so that a platform carries without turning.           *)
(***************************************************************************)
EXTENDS Integers, Sequences

CONSTANTS Walls,        \* the sprites of the two lists, in their order: a sequence
          OneWay,       \* those of the one-way list, a set
          Slopes,       \* those with an angle
          WallPlaces,   \* where the program puts them
          Starts,       \* where it puts the player
          Speeds,       \* the velocities it gives the player
          Gravity,
          HalfWidth, HalfHeight,           \* of the player
          WallHalfWidth, WallHalfHeight,   \* of the walls
          GROUND_SNAP,
          Limit,        \* bound on the player's coordinates and speed
          Nowhere       \* no platform

WallIds == {Walls[i] : i \in DOMAIN Walls}
Place == [x : Int, y : Int]
Standing == [wall : WallIds, at : Place]

\* What the constants are.
PhysicsAssumption ==
    /\ Walls \in Seq(WallIds)
    /\ OneWay \subseteq WallIds /\ Slopes \subseteq WallIds \ OneWay
    /\ WallPlaces \subseteq Place /\ Starts \subseteq Place
    /\ Speeds \subseteq Int /\ Gravity \in Int
    /\ {HalfWidth, HalfHeight, WallHalfWidth, WallHalfHeight, GROUND_SNAP} \subseteq Nat
    /\ Nowhere \notin Place \cup Standing

VARIABLES
    wall,         \* the place of each wall, or Nowhere when it is destroyed
    x, y, vx, vy, \* the player
    on_ground,
    standing_on,  \* the wall landed on last, and where it was
    ridden        \* where the wall the player stands on was in the last step

player == <<x, y, vx, vy>>
vars == <<wall, player, on_ground, standing_on, ridden>>

TypeOK ==
    /\ wall \in [WallIds -> WallPlaces \cup {Nowhere}]
    /\ {x, y, vx, vy} \subseteq -Limit..Limit
    /\ on_ground \in BOOLEAN
    /\ standing_on \in Standing \cup {Nowhere}
    /\ ridden \in WallPlaces \cup {Nowhere}

Init ==
    /\ wall \in [WallIds -> WallPlaces]
    /\ \E p \in Starts : x = p.x /\ y = p.y
    /\ vx = 0 /\ vy = 0
    /\ on_ground = FALSE /\ standing_on = Nowhere /\ ridden = Nowhere

-----------------------------------------------------------------------------
(* What the program does between two steps.                                *)

\* Moves or destroys a wall: setSpritePos, or a sprite with a velocity that
\* is updated on its own, in its list or in its scene.
move_wall(w, place) ==
    /\ wall[w] # Nowhere
    /\ wall' = [wall EXCEPT ![w] = place]
    /\ UNCHANGED <<player, on_ground, standing_on, ridden>>

\* setSpriteVelocity, stopSprite, moveSpriteToward
set_velocity(dx, dy) ==
    /\ vx' = dx /\ vy' = dy
    /\ UNCHANGED <<wall, x, y, on_ground, standing_on, ridden>>

\* setSpritePos on the player
set_player_pos(place) ==
    /\ x' = place.x /\ y' = place.y
    /\ UNCHANGED <<wall, vx, vy, on_ground, standing_on, ridden>>

\* Only from the ground.
jump_player(speed) ==
    /\ on_ground
    /\ vy' = speed
    /\ on_ground' = FALSE
    /\ UNCHANGED <<wall, x, y, vx, standing_on, ridden>>

-----------------------------------------------------------------------------
(* A step.  The player is a record p, passed through the phases of the     *)
(* code; each goes through the walls in their order (wall_boxes skips the  *)
(* sprites that were destroyed).                                           *)

Abs(n) == IF n < 0 THEN -n ELSE n
Solid == WallIds \ OneWay

Beside(p, w) == Abs(p.x - wall[w].x) <= HalfWidth + WallHalfWidth
Overlaps(p, w) == Beside(p, w) /\ Abs(p.y - wall[w].y) <= HalfHeight + WallHalfHeight
Top(w) == wall[w].y + WallHalfHeight

\* A standing player goes where its platform has gone.
Carried(p) ==
    IF on_ground /\ standing_on # Nowhere /\ wall[standing_on.wall] # Nowhere
    THEN [p EXCEPT !.x = @ + wall[standing_on.wall].x - standing_on.at.x,
                   !.y = @ + wall[standing_on.wall].y - standing_on.at.y]
    ELSE p

PushOut(p, w) ==
    IF ~Overlaps(p, w) THEN p
    ELSE [p EXCEPT !.vx = 0,
                   !.x = CASE p.vx > 0 -> wall[w].x - WallHalfWidth - HalfWidth
                           [] p.vx < 0 -> wall[w].x + WallHalfWidth + HalfWidth
                           [] p.vx = 0 -> @]

\* A mistake: a player that stays on a platform keeps the place the platform
\* had when the player came.
LandWithOldPose(p, w, surface) ==
    [p EXCEPT !.y = surface + HalfHeight, !.vy = 0, !.ground = TRUE,
              !.on = IF standing_on # Nowhere /\ standing_on.wall = w THEN standing_on
                     ELSE [wall |-> w, at |-> wall[w]]]

\* Rest on a surface, and remember where the wall is now.
Land(p, w, surface) ==
    [p EXCEPT !.y = surface + HalfHeight, !.vy = 0, !.ground = TRUE,
              !.on = [wall |-> w, at |-> wall[w]]]

LandOnWall(p, w) ==
    CASE Overlaps(p, w) /\ p.vy <= 0 /\ p.y >= wall[w].y -> Land(p, w, Top(w))
      [] Overlaps(p, w) /\ p.vy > 0 /\ p.y < wall[w].y ->
            [p EXCEPT !.y = wall[w].y - WallHalfHeight - HalfHeight, !.vy = 0]
      [] OTHER -> p

\* slope_surface: from the bottom left corner up to the top.
SlopeSurface(w, at) ==
    LET along == at - (wall[w].x - WallHalfWidth)
        rise == CASE along < 0 -> 0
                  [] along > 2 * WallHalfWidth -> 2 * WallHalfWidth
                  [] OTHER -> along
    IN  IF rise > 2 * WallHalfHeight THEN Top(w) ELSE wall[w].y - WallHalfHeight + rise

\* p.feet is where the feet were after the carry.
LandOnSlope(p, w) ==
    LET surface == SlopeSurface(w, p.x)
    IN  IF Beside(p, w) /\ p.vy <= 0 /\ p.y - HalfHeight <= surface
           /\ p.feet >= surface - GROUND_SNAP
        THEN Land(p, w, surface) ELSE p

LandOnPlatform(p, w) ==
    IF Overlaps(p, w) /\ p.vy <= 0 /\ p.feet >= Top(w) - GROUND_SNAP
    THEN Land(p, w, Top(w)) ELSE p

\* What a phase does when the player meets a wall of its list.
WallsOf(phase) ==
    CASE phase \in {"push", "walls"} -> Solid \ Slopes
      [] phase = "slopes" -> Slopes
      [] phase = "platforms" -> OneWay
Meet(phase, p, w) ==
    CASE phase = "push" -> PushOut(p, w)
      [] phase = "walls" -> LandOnWall(p, w)
      [] phase = "slopes" -> LandOnSlope(p, w)
      [] phase = "platforms" -> LandOnPlatform(p, w)

\* The player after a phase.
HasBox(phase, n) ==
    n \in DOMAIN Walls /\ Walls[n] \in WallsOf(phase) /\ wall[Walls[n]] # Nowhere
Through(phase, p) ==
    LET after[n \in Nat] ==
            IF n = 0 THEN p
            ELSE IF HasBox(phase, n) THEN Meet(phase, after[n - 1], Walls[n])
            ELSE after[n - 1]
    IN  after[Len(Walls)]

Walked(p) == Through("push", [p EXCEPT !.x = @ + p.vx])
Fallen(p) ==
    LET falls == [p EXCEPT !.vy = @ - Gravity, !.y = @ + p.vy - Gravity]
    IN  Through("platforms", Through("slopes", Through("walls", falls)))

Stepped ==
    LET start == [x |-> x, y |-> y, vx |-> vx, vy |-> vy, feet |-> 0,
                  ground |-> FALSE, on |-> Nowhere]
        carried == Carried(start)
    IN  Fallen(Walked([carried EXCEPT !.feet = carried.y - HalfHeight]))

update_physics ==
    LET p == Stepped
    IN  /\ {p.x, p.y, p.vx, p.vy} \subseteq -Limit..Limit
        /\ x' = p.x /\ y' = p.y /\ vx' = p.vx /\ vy' = p.vy
        /\ on_ground' = p.ground /\ standing_on' = p.on
        /\ ridden' = IF p.ground THEN wall[p.on.wall] ELSE Nowhere
        /\ UNCHANGED wall

-----------------------------------------------------------------------------
Next ==
    \/ \E w \in WallIds, place \in WallPlaces \cup {Nowhere} : move_wall(w, place)
    \/ \E dx, dy \in Speeds : set_velocity(dx, dy)
    \/ \E place \in Starts : set_player_pos(place)
    \/ \E speed \in Speeds : jump_player(speed)
    \/ update_physics

Spec == Init /\ [][Next]_vars

-----------------------------------------------------------------------------
\* The player touches no wall but w: where w has carried it, or one fall below.
Alone(w) ==
    \A v \in {u \in WallIds \ {w} : wall[u] # Nowhere}, dy \in {0, Gravity} :
       ~Overlaps([x |-> x + wall[w].x - ridden.x, y |-> y + wall[w].y - ridden.y - dy], v)

\* At rest on a flat wall, which may have moved since the last step.
Rests(w) ==
    /\ on_ground /\ vx = 0 /\ vy = 0
    /\ w \notin Slopes /\ standing_on.wall = w /\ wall[w] # Nowhere
    /\ y - HalfHeight = ridden.y + WallHalfHeight
    /\ Abs(x - ridden.x) <= HalfWidth + WallHalfWidth

\* A step is short: the fall of one step from rest does not go through a wall, and
\* a player that is below a slope is not within reach of its surface.
ShortSteps ==
    /\ Gravity \in 0..(HalfHeight + WallHalfHeight)
    /\ GROUND_SNAP <= 2 * HalfHeight

\* A step takes a player that rests on w, and meets nothing else, along with w.
RiderIsCarried ==
    \A w \in WallIds : (ShortSteps /\ Rests(w) /\ Alone(w) /\ update_physics) =>
        /\ on_ground' /\ standing_on'.wall = w
        /\ x' - wall[w].x = x - ridden.x
        /\ y' - HalfHeight = Top(w)

\* The platform stood on is the one the last step landed on, where it was then.
PhysicsInv ==
    /\ wall \in [WallIds -> Place \cup {Nowhere}]
    /\ x \in Int /\ y \in Int /\ vx \in Int /\ vy \in Int
    /\ on_ground => standing_on \in Standing /\ ridden = standing_on.at

\* A player that rests on a flat platform rides it: however the program moves
\* the platform between the steps, the player ends a step on it, where it stood
\* (the carry, the fall and the landing take part, on solid walls and on
\* one-way platforms alike).
RidersStayOnTheirPlatform == [][RiderIsCarried]_vars
=============================================================================
