------------------------------- MODULE Tilemap -------------------------------
(***************************************************************************)
(* Tile maps of the game module (rust/game/src/extras.rs): how a map file, *)
(* with its tilesets and layers, becomes sprites that show cut-outs of     *)
(* atlases.  The texts of map files (XML, CSV, base64) are read before:    *)
(* an attribute that is absent is 0.  Places are counted in half tiles.    *)
(***************************************************************************)
EXTENDS Integers, Sequences, FiniteSets

CONSTANTS
    Files,     \* map files: [tile_width, tile_height, tilesets, layers]
    None       \* no rectangle; a map that cannot be read

Tileset == [first_gid : Nat, tile_width : Nat, tile_height : Nat, columns : Nat,
            tile_count : Nat, margin : Nat, spacing : Nat, image : BOOLEAN,
            image_width : Nat, image_height : Nat,
            found : BOOLEAN]   \* it stands in the map's file, or its own can be read

\* A tile of a layer: its number among all tilesets, and its three flags.
Tile == [gid : Nat, flip_x : BOOLEAN, flip_y : BOOLEAN, turned : BOOLEAN]
Layer == [name : STRING, decodes : BOOLEAN, width : Nat, tiles : Seq(Tile)]

TilesetsOf(f) == {f.tilesets[t] : t \in DOMAIN f.tilesets}

\* What the constants are: no two tilesets of a file begin with the same tile.
TilemapAssumption ==
    \A f \in Files :
        /\ f.tile_width \in Nat /\ f.tile_height \in Nat
        /\ f.tilesets \in Seq(Tileset) /\ f.layers \in Seq(Layer)
        /\ \A t, u \in TilesetsOf(f) : t.first_gid = u.first_gid => t = u

VARIABLES
    headless,
    file,       \* the file that is loaded
    textures,   \* how many the registry holds
    lists,      \* the sprites of each layer
    scene,      \* the layers' names with their lists
    answer      \* of load_tilemap

vars == <<headless, file, textures, lists, scene, answer>>

-----------------------------------------------------------------------------
(* Reading a file.                                                         *)

\* A map is read only if all its external tilesets can be.
expand_external_tilesets(f) == \A t \in DOMAIN f.tilesets : f.tilesets[t].found

\* The data of a layer is text, elements, or base64 with a compression that the
\* module knows.
decode_layer_data(layer) == layer.decodes

\* A tileset without a tile size is no tileset.
parse_tileset(t) == t.tile_width > 0 /\ t.tile_height > 0

\* The numbers of a finite set from the smallest on.
Ascending(S) ==
    CHOOSE s \in [1 .. Cardinality(S) -> S] :
        /\ \A x \in S : \E k \in DOMAIN s : s[k] = x
        /\ \A i, j \in DOMAIN s : i < j => s[i] < s[j]

\* Tilesets in the order of the tiles that they begin with.
Sorted(tilesets) ==
    LET first == Ascending({t.first_gid : t \in tilesets})
    IN  [k \in DOMAIN first |-> CHOOSE t \in tilesets : t.first_gid = first[k]]

\* A layer without a width is one row.
parse_layer(layer) ==
    [name |-> layer.name, tiles |-> layer.tiles,
     width |-> IF layer.width > 0 THEN layer.width
               ELSE IF layer.tiles = <<>> THEN 1 ELSE Len(layer.tiles)]

Parsed(f, tilesets) ==
    [tile_width |-> f.tile_width, tile_height |-> f.tile_height, tilesets |-> tilesets,
     layers |-> [l \in DOMAIN f.layers |-> parse_layer(f.layers[l])]]

Usable(f) == {t \in TilesetsOf(f) : parse_tileset(t)}

\* A mistake: the tilesets stay in the order of the file.
parse_tilemap_unsorted(f) ==
    LET order == Ascending({t \in DOMAIN f.tilesets : parse_tileset(f.tilesets[t])})
    IN  IF \/ Usable(f) = {} \/ f.layers = <<>>
           \/ \E l \in DOMAIN f.layers : ~decode_layer_data(f.layers[l])
        THEN None
        ELSE Parsed(f, [k \in DOMAIN order |-> f.tilesets[order[k]]])

parse_tilemap(f) ==
    IF \/ Usable(f) = {} \/ f.layers = <<>>
       \/ \E l \in DOMAIN f.layers : ~decode_layer_data(f.layers[l])
    THEN None
    ELSE Parsed(f, Sorted(Usable(f)))

-----------------------------------------------------------------------------
(* The rectangle of a tile in its atlas.                                   *)

columns_of(t, width) ==
    IF t.columns > 0 THEN t.columns
    ELSE (width - 2 * t.margin + t.spacing) \div (t.tile_width + t.spacing)

tile_source_rect(t, id) ==
    LET columns == columns_of(t, t.image_width)
        x == t.margin + (id % columns) * (t.tile_width + t.spacing)
        y == t.margin + (id \div columns) * (t.tile_height + t.spacing)
    IN  IF \/ t.image_width = 0 \/ t.image_height = 0
           \/ columns <= 0 \/ (t.tile_count > 0 /\ id >= t.tile_count)
        THEN None
        ELSE IF x + t.tile_width > t.image_width \/ y + t.tile_height > t.image_height
        THEN None
        ELSE [x |-> x, y |-> y, w |-> t.tile_width, h |-> t.tile_height]

-----------------------------------------------------------------------------
(* Placing the tiles.                                                      *)

\* The atlases of tilesets whose images load, in the order of the tilesets.
HasAtlas(t) == ~headless /\ t.image
atlas_of(map, t) ==
    IF ~HasAtlas(map.tilesets[t]) THEN 0
    ELSE textures + Cardinality({u \in 1 .. t : HasAtlas(map.tilesets[u])})

\* The last tileset that begins with the tile's number or before it, or 0.
selected(map, gid) ==
    LET before == {t \in DOMAIN map.tilesets : map.tilesets[t].first_gid <= gid}
    IN  IF before = {} THEN 0 ELSE CHOOSE t \in before : \A u \in before : u <= t

Rows(layer) ==
    LET rows == (Len(layer.tiles) + layer.width - 1) \div layer.width
    IN  IF rows < 1 THEN 1 ELSE rows

\* The sprite of the tile at a position of its layer; the world is bottom-up.
SpriteOf(map, layer, position) ==
    LET tile == layer.tiles[position]
        column == (position - 1) % layer.width
        row == (position - 1) \div layer.width
        t == selected(map, tile.gid)
        source == IF t = 0 THEN None
                  ELSE tile_source_rect(map.tilesets[t], tile.gid - map.tilesets[t].first_gid)
    IN  [gid |-> tile.gid,
         x |-> (2 * column + 1) * map.tile_width,
         y |-> (2 * (Rows(layer) - row - 1) + 1) * map.tile_height,
         source |-> source,
         texture |-> IF source = None THEN 0 ELSE atlas_of(map, t),
         flip_x |-> source # None /\ tile.flip_x,
         flip_y |-> source # None /\ tile.flip_y,
         angle |-> IF source # None /\ tile.turned THEN 90 ELSE 0]

\* One sprite for each tile that is there.
SpritesOf(map, layer) ==
    LET filled == Ascending({p \in DOMAIN layer.tiles : layer.tiles[p].gid # 0})
    IN  [k \in DOMAIN filled |-> SpriteOf(map, layer, filled[k])]

-----------------------------------------------------------------------------
TypeOK ==
    /\ headless \in BOOLEAN /\ file \in Files /\ textures \in Nat
    /\ answer \in {"none", "failed", "loaded"}
    /\ Len(scene) = Len(lists)

Init ==
    /\ headless \in BOOLEAN /\ file \in Files
    /\ textures = 0 /\ lists = <<>> /\ scene = <<>> /\ answer = "none"

Readable == expand_external_tilesets(file) /\ parse_tilemap(file) # None

\* A map that cannot be read leaves nothing behind.
load_fails ==
    /\ answer = "none" /\ ~Readable
    /\ answer' = "failed"
    /\ UNCHANGED <<headless, file, textures, lists, scene>>

load_tilemap ==
    /\ answer = "none" /\ Readable
    /\ LET map == parse_tilemap(file) IN
       /\ textures' = textures + Cardinality({t \in DOMAIN map.tilesets : HasAtlas(map.tilesets[t])})
       /\ lists' = [l \in DOMAIN map.layers |-> SpritesOf(map, map.layers[l])]
       /\ scene' = [l \in DOMAIN map.layers |-> [name |-> map.layers[l].name, list |-> l]]
    /\ answer' = "loaded"
    /\ UNCHANGED <<headless, file>>

\* get_tilemap_layer: the first layer of that name, or 0.
get_tilemap_layer(name) ==
    LET named == {e \in DOMAIN scene : scene[e].name = name}
    IN  IF named = {} THEN 0 ELSE CHOOSE e \in named : \A d \in named : e <= d

Next == load_fails \/ load_tilemap

Spec == Init /\ [][Next]_vars

-----------------------------------------------------------------------------
\* A tileset counts a tile as its own up to where the next one begins.
Holds(t, gid) ==
    /\ parse_tileset(t) /\ t.first_gid <= gid /\ gid < t.first_gid + t.tile_count
    /\ \A u \in Usable(file) : u.first_gid <= gid => u.first_gid <= t.first_gid
Apart(a, b) == a.x + a.w <= b.x \/ b.x + b.w <= a.x \/ a.y + a.h <= b.y \/ b.y + b.h <= a.y

ShowsItsPicture(s) ==
    /\ \A t \in TilesetsOf(file) :
          Holds(t, s.gid) => s.source = tile_source_rect(t, s.gid - t.first_gid)
    /\ s.source # None => \E t \in Usable(file) :
          /\ t.first_gid <= s.gid
          /\ s.source.x + s.source.w <= t.image_width
          /\ s.source.y + s.source.h <= t.image_height
          /\ s.texture \in 0 .. textures /\ (s.texture = 0 <=> headless \/ ~t.image)
PicturesApart(s, other) ==
    /\ s.gid # other.gid /\ s.source # None /\ other.source # None
    /\ \E t \in TilesetsOf(file) : Holds(t, s.gid) /\ Holds(t, other.gid)
    => Apart(s.source, other.source)

\* A map looks as its file says.  In whatever order the file lists its tilesets,
\* a tile that one of them counts as its own shows that tileset's cut-out, when
\* the image has room for it; two tiles of one tileset show parts of the image
\* that do not overlap and do not leave it.  The sprites of a layer lie apart,
\* in rows from the top down and from left to right, in the order of its list,
\* when the map gives its tiles a size.
TilesShowTheirPictures ==
    answer = "loaded" =>
    \A l \in DOMAIN lists :
        /\ \A i \in DOMAIN lists[l] : ShowsItsPicture(lists[l][i])
        /\ \A i, j \in DOMAIN lists[l] : PicturesApart(lists[l][i], lists[l][j])
        /\ file.tile_width > 0 /\ file.tile_height > 0 =>
              \A i, j \in DOMAIN lists[l] : i < j =>
                  \/ lists[l][j].y < lists[l][i].y
                  \/ lists[l][j].y = lists[l][i].y /\ lists[l][j].x > lists[l][i].x
        /\ scene[get_tilemap_layer(scene[l].name)].name = scene[l].name
=============================================================================
