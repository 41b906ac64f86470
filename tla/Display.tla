------------------------------ MODULE Display ------------------------------
(***************************************************************************)
(* The frame-buffer plane of the display controller                        *)
(* (graphics/gbe_framebuffer.cpp) and what the window's widget makes of it *)
(* (gui/framebufferwidget.cpp). The plane keeps its registers and, apart   *)
(* from them, the surface they describe; the widget reads the surface and  *)
(* fetches its pixels from memory, all in one call. Registers are the      *)
(* fields that update_derived_params takes out of them; narrow writes that *)
(* are not at the start of one are lost, the others write some word. The   *)
(* widget's other source, the MRE, is never there (see Machine).           *)
(***************************************************************************)
EXTENDS Naturals

CONSTANTS
    RowBytes,   \* Bytes of a tile's row: 512.
    TileRows,   \* Rows of a tile: 128.
    MaxTiles,   \* Bound on the width in tiles; the field has eight bits.
    MaxHeight,  \* Bound on the height; the field has sixteen bits.
    MaxTilePtr, \* Bound on the address, in units of RowBytes.
    MaxSide,    \* The widget's limit on width and height: 4096.
    NoWidth, NoHeight,            \* Defaults of the plane: 1280 by 1024.
    FallbackWidth, FallbackHeight \* Those of the widget: 1024 by 768.

ASSUME DisplayAssumption ==
    /\ RowBytes \in Nat \ {0} /\ RowBytes % 4 = 0 /\ TileRows \in Nat \ {0}
    /\ MaxTiles \in Nat /\ MaxHeight \in Nat /\ MaxTilePtr \in Nat
    /\ MaxSide \in Nat
    /\ {NoWidth, NoHeight, FallbackWidth, FallbackHeight} \subseteq Nat \ {0}

VARIABLES
    frmTiles,    \* The width in frm_size_tile_
    frmDepth,    \* and its depth code.
    frmHeight,   \* The height in frm_size_pixel_.
    frmLinear,   \* FRM_LINEAR in frm_control_
    frmTilePtr,  \* and the tile pointer in it.
    surface      \* fb_width_, fb_height_, fb_depth_, fb_stride_, fb_base_,
                 \* linear_mode_

frmVars == <<frmTiles, frmDepth, frmHeight, frmLinear, frmTilePtr>>
displayVars == <<frmVars, surface>>

(* depth_to_bpp, in bytes. *)
BytesPerPixel == [code \in 0..3 |-> IF code = 0 THEN 1 ELSE IF code = 1 THEN 2 ELSE 4]

(* update_derived_params *)
Derived(tiles, code, rows, linear, ptr) ==
    LET bytes == BytesPerPixel[code]
        width == IF tiles > 0 THEN tiles * (RowBytes \div bytes) ELSE NoWidth
    IN  [width |-> width, height |-> IF rows > 0 THEN rows ELSE NoHeight,
         bytes |-> bytes, stride |-> width * bytes,
         base |-> ptr * RowBytes, linear |-> linear]

Surfaces ==
    [width : Nat, height : Nat, bytes : {1, 2, 4}, stride : Nat, base : Nat,
     linear : BOOLEAN]

DisplayTypeOK ==
    /\ frmTiles \in 0..MaxTiles /\ frmDepth \in 0..3
    /\ frmHeight \in 0..MaxHeight
    /\ frmLinear \in BOOLEAN /\ frmTilePtr \in 0..MaxTilePtr
    /\ surface \in Surfaces

UpdateDerived ==
    surface' = Derived(frmTiles', frmDepth', frmHeight', frmLinear', frmTilePtr')

-----------------------------------------------------------------------------
(* reset *)
DisplayInit ==
    /\ frmTiles = 0 /\ frmDepth = 0 /\ frmHeight = 0
    /\ frmLinear = FALSE /\ frmTilePtr = 0
    /\ surface = Derived(0, 0, 0, FALSE, 0)

DisplayReset ==
    /\ frmTiles' = 0 /\ frmDepth' = 0 /\ frmHeight' = 0
    /\ frmLinear' = FALSE /\ frmTilePtr' = 0
    /\ UpdateDerived

(* write32 of FRM_SIZE_TILE, FRM_SIZE_PIXEL and FRM_CONTROL. *)
WriteSizeTile(tiles, code) ==
    /\ frmTiles' = tiles /\ frmDepth' = code
    /\ UNCHANGED <<frmHeight, frmLinear, frmTilePtr>>
    /\ UpdateDerived

WriteSizePixel(rows) ==
    /\ frmHeight' = rows
    /\ UNCHANGED <<frmTiles, frmDepth, frmLinear, frmTilePtr>>
    /\ UpdateDerived

WriteFrmControl(linear, ptr) ==
    /\ frmLinear' = linear /\ frmTilePtr' = ptr
    /\ UNCHANGED <<frmTiles, frmDepth, frmHeight>>
    /\ UpdateDerived

DisplayNext ==
    \/ DisplayReset
    \/ \E tiles \in 0..MaxTiles, code \in 0..3 : WriteSizeTile(tiles, code)
    \/ \E rows \in 0..MaxHeight : WriteSizePixel(rows)
    \/ \E linear \in BOOLEAN, ptr \in 0..MaxTilePtr : WriteFrmControl(linear, ptr)

DisplaySpec == DisplayInit /\ [][DisplayNext]_displayVars

-----------------------------------------------------------------------------
(* is_configured, as far as the fields go. *)
Configured ==
    frmTiles # 0 \/ frmDepth # 0 \/ frmHeight # 0 \/ frmLinear \/ frmTilePtr # 0

(* updateFramebuffer and the validation in updateTexture: a surface that   *)
(* is too large is read as if it were another, at the same address and     *)
(* with the same layout.                                                   *)
Shown ==
    IF surface.width > MaxSide \/ surface.height > MaxSide
    THEN [surface EXCEPT !.width = FallbackWidth, !.height = FallbackHeight,
                         !.bytes = 4, !.stride = FallbackWidth * 4]
    ELSE surface

Pixels(s) == (0..(s.width - 1)) \X (0..(s.height - 1))

(* updateTexture: where the pixel at column p[1] of row p[2] is. *)
TilesAcross(s) ==
    LET w == RowBytes \div s.bytes IN (s.width + w - 1) \div w

TiledAddress(s, p) ==
    LET w == RowBytes \div s.bytes
        tile == (p[2] \div TileRows) * TilesAcross(s) + p[1] \div w
    IN  s.base + tile * RowBytes * TileRows
          + (p[2] % TileRows) * RowBytes + (p[1] % w) * s.bytes

(* Mutant of PixelAddress: tiles are taken for as wide in pixels whatever  *)
(* the depth is.                                                           *)
PixelAddressNarrow(s, p) ==
    LET w == RowBytes \div 4
        tile == (p[2] \div TileRows) * TilesAcross(s) + p[1] \div w
    IN  s.base + tile * RowBytes * TileRows
          + (p[2] % TileRows) * RowBytes + (p[1] % w) * s.bytes

PixelAddress(s, p) ==
    IF s.linear THEN s.base + p[2] * s.stride + p[1] * s.bytes
                ELSE TiledAddress(s, p)

(* The surface's end: of whole tiles, or of whole rows. *)
SurfaceEnd(s) ==
    IF s.linear
    THEN s.base + s.height * s.stride
    ELSE s.base + TilesAcross(s) * ((s.height + TileRows - 1) \div TileRows)
                    * RowBytes * TileRows

(* The surface the widget sees is the one the registers describe, in       *)
(* whatever order they were written.                                       *)
SurfaceFollowsRegisters ==
    surface = Derived(frmTiles, frmDepth, frmHeight, frmLinear, frmTilePtr)

(* What is drawn is an image of that surface: its pixels are in different  *)
(* places in memory, a pixel apart at least, and inside the surface. This  *)
(* holds for each depth and width in tiles, for heights that end within a  *)
(* tile, and for the widget's fallback.                                    *)
PixelsDistinct ==
    Configured =>
    \A p \in Pixels(Shown) :
        /\ PixelAddress(Shown, p) + Shown.bytes <= SurfaceEnd(Shown)
        /\ \A q \in Pixels(Shown) :
               PixelAddress(Shown, p) < PixelAddress(Shown, q) =>
                   PixelAddress(Shown, p) + Shown.bytes <= PixelAddress(Shown, q)
        /\ \A q \in Pixels(Shown) :
               PixelAddress(Shown, p) = PixelAddress(Shown, q) => p = q
=============================================================================
