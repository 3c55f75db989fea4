---------------------------- MODULE RegionUpdate ----------------------------
(***************************************************************************)
(* What a region update is made of: the host compares a frame with the one *)
(* before in tiles, merges changed tiles into rectangles, packs their      *)
(* pixels, and the viewer unpacks them and patches its framebuffer.        *)
(* DesktopStream treats all of this as one patch of exactly the changed    *)
(* tiles, on a lane that loses and reorders; here updates arrive in order. *)
(*                                                                         *)
(* A pixel is one byte, and a frame sent whole is shown as it was          *)
(* captured: the loss of the codec is left out.  The size of the desktop   *)
(* does not change during a session: a capturer whose display mode changes *)
(* reports an error.                                                       *)
(***************************************************************************)
EXTENDS Integers, Sequences, FiniteSetsExt, SequencesExt

CONSTANTS
  Layouts,        \* [width, height, stride] of the desktops
  Pixel,          \* byte values
  TileSizes,      \* what tile_size may be
  RegionLimit,    \* MAX_DESKTOP_REGIONS
  RunLimit        \* longest run of PackBits; its bit in a header marks a repeat

RepeatMinimum == 4

ASSUME RegionAssumption ==
  /\ Layouts \subseteq [width : Nat \ {0}, height : Nat \ {0}, stride : Nat]
  /\ \A l \in Layouts : l.stride >= l.width
  /\ Pixel \subseteq 0..(2 * RunLimit - 1)
  /\ TileSizes \subseteq Nat \ {0} /\ RegionLimit \in Nat \ {0}
  /\ RunLimit \in Nat /\ RunLimit >= RepeatMinimum

VARIABLES
  layout,          \* of every frame of the session
  tile_size,       \* of the detector
  previous,        \* data of the frame the detector saw last, empty before the first
  updates,         \* the message on its way, if any
  desktop_pixels,  \* framebuffer of the viewer, empty before the first frame
  viewer_error     \* applying an update failed

vars == <<layout, tile_size, previous, updates, desktop_pixels, viewer_error>>

Least(a, b) == IF a < b THEN a ELSE b

\* Rows are `stride` bytes long, whatever lies behind their last pixel is zero.
PixelAt(data, x, y) == data[y * layout.stride + x + 1]
Visible(data) ==
  [i \in 1..(layout.width * layout.height) |->
     PixelAt(data, (i - 1) % layout.width, (i - 1) \div layout.width)]
FrameOf(pixels) ==
  [i \in 1..(layout.stride * layout.height) |->
     LET x == (i - 1) % layout.stride
         y == (i - 1) \div layout.stride
     IN  IF x < layout.width THEN pixels[y * layout.width + x + 1] ELSE 0]
Captured == {FrameOf(pixels) : pixels \in [1..(layout.width * layout.height) -> Pixel]}

-----------------------------------------------------------------------------
(* The detector. *)

Rect(x, y, right, bottom) == [x |-> x, y |-> y, width |-> right - x, height |-> bottom - y]
Right(r)  == r.x + r.width
Bottom(r) == r.y + r.height
FullFrame == Rect(0, 0, layout.width, layout.height)

TilesX == (layout.width + tile_size - 1) \div tile_size
TilesY == (layout.height + tile_size - 1) \div tile_size

\* A border of a tile never lies outside the frame.
ColumnAt(tile_x) == Least(tile_x * tile_size, layout.width)
RowAt(tile_y)    == Least(tile_y * tile_size, layout.height)

TileChanged(base, current, tile_x, tile_y) ==
  \E x \in ColumnAt(tile_x)..(ColumnAt(tile_x + 1) - 1),
     y \in RowAt(tile_y)..(RowAt(tile_y + 1) - 1) :
    PixelAt(base, x, y) # PixelAt(current, x, y)

\* The run of changed tiles of a row that ends in front of tile_x, as a sequence of
\* its rectangle; empty if none ends there.
RunBefore(base, current, tile_x, tile_y) ==
  LET changed(t) == t \in 0..(TilesX - 1) /\ TileChanged(base, current, t, tile_y)
      starts     == {t \in 0..(tile_x - 1) : \A u \in t..(tile_x - 1) : changed(u)}
  IN  IF starts = {} \/ changed(tile_x) THEN <<>>
      ELSE <<Rect(ColumnAt(Min(starts)), RowAt(tile_y), ColumnAt(tile_x), RowAt(tile_y + 1))>>

ChangedRegions(base, current) ==
  FlattenSeq([y \in 1..TilesY |->
    FlattenSeq([x \in 1..TilesX |-> RunBefore(base, current, x, y - 1)])])

\* The rectangle around all regions.
Surrounding(regions) ==
  Rect(Min({regions[k].x : k \in DOMAIN regions}),
       Min({regions[k].y : k \in DOMAIN regions}),
       Max({Right(regions[k]) : k \in DOMAIN regions}),
       Max({Bottom(regions[k]) : k \in DOMAIN regions}))

\* Mutant: the regions over the limit are left out.
Coalesced_Truncated(regions) == SubSeq(regions, 1, Least(Len(regions), RegionLimit))

Coalesced(regions) ==
  IF Len(regions) <= RegionLimit THEN regions ELSE <<Surrounding(regions)>>

Detected(base, current) ==
  Coalesced(IF base = <<>> THEN <<FullFrame>> ELSE ChangedRegions(base, current))

-----------------------------------------------------------------------------
(* PackBits. *)

RepeatedRun(input, i) ==
  Max({n \in 1..Least(RunLimit, Len(input) - i + 1) :
         \A k \in i..(i + n - 1) : input[k] = input[i]})

\* Mutant: a literal that ends with a short run may exceed the limit.
LiteralEnd_Unbounded(input, start) ==
  LET end[i \in 1..(Len(input) + 1)] ==
        IF \/ i > Len(input)
           \/ i - start >= RunLimit
           \/ RepeatedRun(input, i) >= RepeatMinimum
        THEN i
        ELSE end[i + RepeatedRun(input, i)]
  IN  end[start + RepeatedRun(input, start)]

\* A literal ends before the next run worth a header of its own, and in any case
\* after RunLimit bytes.
LiteralEnd(input, start) ==
  LET end[i \in 1..(Len(input) + 1)] ==
        IF \/ i > Len(input)
           \/ i - start >= RunLimit
           \/ RepeatedRun(input, i) >= RepeatMinimum
        THEN Least(i, start + RunLimit)
        ELSE end[i + RepeatedRun(input, i)]
  IN  end[start + RepeatedRun(input, start)]

\* Mutant: the header of a repeat holds its length, not one less.
PackBits_Count(input) ==
  LET pack[i \in 1..(Len(input) + 1)] ==
        IF i > Len(input) THEN <<>>
        ELSE LET run == RepeatedRun(input, i)
                 end == LiteralEnd(input, i)
             IN  IF run >= RepeatMinimum
                 THEN <<RunLimit + run, input[i]>> \o pack[i + run]
                 ELSE <<end - i - 1>> \o SubSeq(input, i, end - 1) \o pack[end]
  IN  pack[1]

PackBits(input) ==
  LET pack[i \in 1..(Len(input) + 1)] ==
        IF i > Len(input) THEN <<>>
        ELSE LET run == RepeatedRun(input, i)
                 end == LiteralEnd(input, i)
             IN  IF run >= RepeatMinimum
                 THEN <<RunLimit + run - 1, input[i]>> \o pack[i + run]
                 ELSE <<end - i - 1>> \o SubSeq(input, i, end - 1) \o pack[end]
  IN  pack[1]

\* The output, as a set: empty if the data is malformed or of another length.
UnpackBits(data, expected) ==
  LET unpack[at \in (1..(Len(data) + 1)) \X (0..expected)] ==
        IF at[1] > Len(data) \/ at[2] = 0
        THEN IF at[1] > Len(data) /\ at[2] = 0 THEN {<<>>} ELSE {}
        ELSE LET i      == at[1]
                 room   == at[2]
                 count  == (data[i] % RunLimit) + 1
                 repeat == data[i] >= RunLimit
                 next   == i + 1 + (IF repeat THEN 1 ELSE count)
                 bytes  == IF repeat THEN [k \in 1..count |-> data[i + 1]]
                                     ELSE SubSeq(data, i + 1, i + count)
             IN  IF next <= Len(data) + 1 /\ count <= room
                 THEN {bytes \o rest : rest \in unpack[<<next, room - count>>]}
                 ELSE {}
  IN  unpack[<<1, expected>>]

-----------------------------------------------------------------------------
(* The message, and what the viewer does with it. *)

InFrame(r) ==
  /\ r.width > 0 /\ r.height > 0
  /\ Right(r) <= layout.width /\ Bottom(r) <= layout.height
Area(r) == r.width * r.height

RegionPixels(data, r) ==
  [i \in 1..Area(r) |-> PixelAt(data, r.x + ((i - 1) % r.width), r.y + ((i - 1) \div r.width))]

FullUpdate(data) == [type |-> "Video", data |-> data]

Raw(data, regions) == FlattenSeq([k \in DOMAIN regions |-> RegionPixels(data, regions[k])])

RegionUpdateOf(data, regions) ==
  LET raw        == Raw(data, regions)
      compressed == PackBits(raw)
  IN  [type |-> "DesktopUpdate", regions |-> regions,
       encoding |-> IF Len(compressed) < Len(raw) THEN "pack_bits" ELSE "raw",
       data     |-> IF Len(compressed) < Len(raw) THEN compressed ELSE raw]

\* Where the part of each region ends in the payload.
Offsets(regions) ==
  LET offset[k \in 0..Len(regions)] == IF k = 0 THEN 0 ELSE offset[k - 1] + Area(regions[k])
  IN  offset
PayloadSize(regions) == Offsets(regions)[Len(regions)]

\* The decoded payload, as a set: empty if decode_region_payload refuses it.
Payloads(m) ==
  IF \E k \in DOMAIN m.regions : ~InFrame(m.regions[k]) THEN {}
  ELSE IF m.encoding = "pack_bits" THEN UnpackBits(m.data, PayloadSize(m.regions))
  ELSE IF Len(m.data) = PayloadSize(m.regions) THEN {m.data} ELSE {}

Inside(r, x, y) == x >= r.x /\ x < Right(r) /\ y >= r.y /\ y < Bottom(r)

\* The framebuffer behind regions whose pixels follow one another in the payload: the
\* last region over a pixel is the one that stays.
Patched(pixels, regions, payload) ==
  [i \in DOMAIN pixels |->
     LET x    == (i - 1) % layout.width
         y    == (i - 1) \div layout.width
         over == {k \in DOMAIN regions : Inside(regions[k], x, y)}
         r    == regions[Max(over)]
     IN  IF over = {} THEN pixels[i]
         ELSE payload[Offsets(regions)[Max(over) - 1] + (y - r.y) * r.width + (x - r.x) + 1]]

-----------------------------------------------------------------------------
Init ==
  /\ layout \in Layouts
  /\ tile_size \in TileSizes
  /\ previous = <<>>
  /\ updates = <<>>
  /\ desktop_pixels = <<>>
  /\ viewer_error = FALSE

\* The first frame of a session, and later ones now and then, are sent whole.
SendFull ==
  /\ updates = <<>>
  /\ \E data \in Captured :
       /\ previous' = data
       /\ updates' = <<FullUpdate(data)>>
  /\ UNCHANGED <<layout, tile_size, desktop_pixels, viewer_error>>

\* An unchanged frame has no regions and is not sent.
SendRegions ==
  /\ updates = <<>>
  /\ previous # <<>>
  /\ \E data \in Captured :
       LET regions == Detected(previous, data) IN
       /\ regions # <<>>
       /\ updates' = <<RegionUpdateOf(data, regions)>>
       /\ previous' = data
  /\ UNCHANGED <<layout, tile_size, desktop_pixels, viewer_error>>

Arrives(type) == updates # <<>> /\ Head(updates).type = type /\ updates' = Tail(updates)

Present ==
  /\ Arrives("Video")
  /\ desktop_pixels' = Visible(Head(updates).data)
  /\ UNCHANGED <<layout, tile_size, previous, viewer_error>>

ApplyRegions ==
  /\ Arrives("DesktopUpdate")
  /\ LET payloads == Payloads(Head(updates)) IN
     IF desktop_pixels = <<>> \/ payloads = {}
     THEN viewer_error' = TRUE /\ UNCHANGED desktop_pixels
     ELSE /\ \E payload \in payloads :
               desktop_pixels' = Patched(desktop_pixels, Head(updates).regions, payload)
          /\ UNCHANGED viewer_error
  /\ UNCHANGED <<layout, tile_size, previous>>

Next == SendFull \/ SendRegions \/ Present \/ ApplyRegions

Spec == Init /\ [][Next]_vars

-----------------------------------------------------------------------------
\* The updates on their way.
OnTheWay == {k \in DOMAIN updates : updates[k].type = "DesktopUpdate"}

\* Every variable holds a value of its type, and a message stays within what the
\* protocol can carry: bytes, and as many regions of the frame as it allows.
TypeOK ==
  /\ layout \in Layouts
  /\ tile_size \in TileSizes
  /\ previous # <<>> => previous \in Captured
  /\ desktop_pixels # <<>> => desktop_pixels \in [1..(layout.width * layout.height) -> Pixel]
  /\ \A k \in OnTheWay :
       /\ Len(updates[k].regions) \in 1..RegionLimit
       /\ \A n \in DOMAIN updates[k].regions : InFrame(updates[k].regions[n])
       /\ updates[k].data \in Seq(0..(2 * RunLimit - 1))
  /\ viewer_error \in BOOLEAN

\* The viewer never refuses an update the host encoded: regions lie in the frame,
\* and the packed payload unpacks to exactly the size the regions call for.  (An
\* error here ends the viewer.)
UpdatesAreAccepted == ~viewer_error

\* Packing loses nothing, also where it does not pay and the payload travels as it
\* is: runs at the limit and literals that reach it unpack to the same bytes.
PackingIsLossless ==
  \A k \in OnTheWay : \A payload \in Payloads(updates[k]) :
    UnpackBits(PackBits(payload), Len(payload)) = {payload}

\* Once an update is applied, the framebuffer is the captured frame, pixel by
\* pixel: tiles cover every change, also at the borders and when regions are
\* merged, and every region takes its own part of the payload.
WindowIsExact ==
  (updates = <<>> /\ previous # <<>> /\ ~viewer_error) => desktop_pixels = Visible(previous)
=============================================================================
