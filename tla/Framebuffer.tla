----------------------------- MODULE Framebuffer -----------------------------
(***************************************************************************)
(* The frame buffer (graphics/framebuffer.cpp): two buffers and a swap,    *)
(* and one store for tiles and lines alike, which grows as the geometry    *)
(* asks for it, with a directory of the tiles that does not. Offsets and   *)
(* sizes are words (u32) and wrap; only the store is sized in u64. Sizes   *)
(* are scaled down: a word has WordSize values, the picture is a few       *)
(* pixels, and tiles have sides of SmallTile or LargeTile. The contents of *)
(* pixels and of the directory are left out.                               *)
(***************************************************************************)
EXTENDS VideoModes, Integers

CONSTANTS
    WordSize,             \* 2^32
    DirectoryEntries,     \* The size of tile_directory_, 16384.
    Bases,                \* Buffer addresses; 0 is one.
    Lengths, FirstLength, \* Widths and heights, and those after a reset.
    RawLengths,           \* What the size registers are written with.
    Depths, FirstDepth,   \* Bytes of a pixel (bytes_per_pixel), likewise.
    TileDepths,           \* tile_bpp_ / 8, which may be 0.
    SmallTile, LargeTile, \* Two of the sides of TileConfig.
    FirstMemory           \* Bytes of tile_memory_ after a reset.

Words == 0..(WordSize - 1)

ASSUME FramebufferAssumption ==
    /\ WordSize \in Nat \ {0} /\ DirectoryEntries \in Words
    /\ 0 \in Bases
    /\ Lengths \subseteq Words /\ FirstLength \in Lengths
    /\ RawLengths \subseteq Words
    /\ Depths \subseteq Words \ {0} /\ FirstDepth \in Depths
    /\ TileDepths \subseteq Words /\ FirstDepth \in TileDepths
    /\ SmallTile \in Words \ {0} /\ LargeTile \in Words \ {0}
    /\ FirstMemory \in Nat

Sides == {SmallTile, LargeTile}

VARIABLES
    double,            \* double_buffer_
    base,              \* base_addr_
    front, back,       \* front_base_, back_base_
    current,           \* current_base_
    geometry,          \* width_, height_, format_, stride_, tile_config_, ...
    memory,            \* The size of tile_memory_.
    raw                \* Auxiliary: a size was written without a check.

bufferVars == <<double, base, front, back, current>>
storeVars == <<geometry, memory, raw>>
framebufferVars == <<bufferVars, storeVars>>

Geometries ==
    [width : Words, height : Words, depth : Words \ {0}, stride : Words,
     side : Sides, tileWidth : Words, tileHeight : Words, tileDepth : Words,
     across : Words, down : Words]

FramebufferTypeOK ==
    /\ double \in BOOLEAN /\ raw \in BOOLEAN
    /\ base \in Bases /\ front \in Bases /\ back \in Bases /\ current \in Bases
    /\ geometry \in Geometries
    /\ memory \in Nat

-----------------------------------------------------------------------------
(* Arithmetic of u32. *)
Word(n) == n % WordSize
Larger(a, b) == IF a >= b THEN a ELSE b
Smaller(a, b) == IF a <= b THEN a ELSE b

(* update_stride *)
Restrided(g) == [g EXCEPT !.stride = Word(g.width * g.depth)]

(* update_tile_dimensions, without the storage. *)
Retiled(g) ==
    [g EXCEPT !.tileWidth = g.side, !.tileHeight = g.side,
              !.across = Word(g.width + g.side - 1) \div g.side,
              !.down = Word(g.height + g.side - 1) \div g.side]

LinearSize(g) == g.stride * g.height
TilePixels(g) == g.tileWidth * g.tileHeight
TilesSize(g) == g.across * g.down * (TilePixels(g) * g.tileDepth)

(* Mutant of Required: the lines are thought to be enough. *)
RequiredLinear(g) == LinearSize(g)

(* ensure_storage, in u64. *)
Required(g) ==
    Larger(LinearSize(g), TilesSize(g) % (WordSize * WordSize))

Sized(g) ==
    /\ geometry' = g
    /\ memory' = Larger(memory, Required(g))
    /\ raw' = FALSE
    /\ UNCHANGED <<bufferVars>>

(* A register write that changes a size and nothing that follows from it. *)
Unsized(g) ==
    /\ geometry' = g
    /\ raw' = TRUE
    /\ UNCHANGED <<bufferVars, memory>>

FirstGeometry ==
    Retiled(Restrided(
        [width |-> FirstLength, height |-> FirstLength, depth |-> FirstDepth,
         stride |-> 0, side |-> SmallTile, tileWidth |-> 0, tileHeight |-> 0,
         tileDepth |-> FirstDepth, across |-> 0, down |-> 0]))

(* Framebuffer::reset: the store is made anew. *)
FramebufferInit ==
    /\ double = FALSE
    /\ base = 0 /\ front = 0 /\ back = 0 /\ current = 0
    /\ geometry = FirstGeometry
    /\ memory = Larger(FirstMemory, Required(FirstGeometry))
    /\ raw = FALSE

FramebufferReset ==
    /\ double' = FALSE
    /\ base' = 0 /\ front' = 0 /\ back' = 0 /\ current' = 0
    /\ geometry' = FirstGeometry
    /\ memory' = Larger(FirstMemory, Required(FirstGeometry))
    /\ raw' = FALSE

-----------------------------------------------------------------------------
(* write, FB_CONTROL without CTRL_RESET, and set_double_buffer; with       *)
(* CTRL_SWAP_PENDING it goes on with swap_buffers.                         *)
FramebufferControl(enable) ==
    /\ double' = enable
    /\ UNCHANGED <<base, front, back, current, storeVars>>

ControlAndSwap ==
    /\ double' = TRUE
    /\ front' = back /\ back' = front /\ current' = back
    /\ UNCHANGED <<base, storeVars>>

(* swap_buffers, by FB_SWAP as well: nothing without double buffering. *)
Swap ==
    /\ double
    /\ front' = back /\ back' = front /\ current' = back
    /\ UNCHANGED <<double, base, storeVars>>

(* FB_BASE_ADDR, set_base_address *)
SetBase(a) ==
    /\ base' = a /\ current' = a
    /\ UNCHANGED <<double, front, back, storeVars>>

(* Mutant of SetFront: the picture moves at once in either mode. *)
SetFrontAtOnce(a) ==
    /\ front' = a /\ current' = a
    /\ UNCHANGED <<double, base, back, storeVars>>

(* FB_FRONT_BASE, set_front_buffer *)
SetFront(a) ==
    /\ front' = a
    /\ current' = IF double THEN current ELSE a
    /\ UNCHANGED <<double, base, back, storeVars>>

(* FB_BACK_BASE, set_back_buffer *)
SetBack(a) ==
    /\ back' = a
    /\ UNCHANGED <<double, base, front, current, storeVars>>

-----------------------------------------------------------------------------
(* set_format, set_dimensions (and set_video_mode), set_stride and         *)
(* set_tile_config.                                                        *)
SetFormat(d) == Sized(Restrided([geometry EXCEPT !.depth = d]))

SetDimensions(w, h) ==
    Sized(Retiled(Restrided([geometry EXCEPT !.width = w, !.height = h])))

SetStride(s) == Sized([geometry EXCEPT !.stride = s])

SetTileConfig(side, d) ==
    Sized(Retiled([geometry EXCEPT !.side = side, !.tileDepth = d]))

(* FB_TILE_CONFIG: the depth of a tile's pixels stays. *)
WriteTileConfig(side) == Sized(Retiled([geometry EXCEPT !.side = side]))

(* The registers of the same names: the value is stored and no more. *)
WriteLineRegister ==
    \/ \E n \in RawLengths :
          \/ Unsized([geometry EXCEPT !.width = n])
          \/ Unsized([geometry EXCEPT !.height = n])
          \/ Unsized([geometry EXCEPT !.stride = n])
    \/ \E d \in Depths : Unsized([geometry EXCEPT !.depth = d])

WriteTileRegister ==
    \/ \E n \in RawLengths :
          \/ Unsized([geometry EXCEPT !.tileWidth = n])
          \/ Unsized([geometry EXCEPT !.tileHeight = n])
    \/ \E d \in TileDepths : Unsized([geometry EXCEPT !.tileDepth = d])

BufferNext ==
    \/ \E enable \in BOOLEAN : FramebufferControl(enable)
    \/ ControlAndSwap \/ Swap
    \/ \E a \in Bases : SetBase(a) \/ SetFront(a) \/ SetBack(a)

SetGeometry ==
    \/ \E d \in Depths : SetFormat(d)
    \/ \E w, h \in Lengths : SetDimensions(w, h)
    \/ \E s \in Lengths : SetStride(s)
    \/ \E side \in Sides :
          WriteTileConfig(side) \/ \E d \in TileDepths : SetTileConfig(side, d)

StoreNext == SetGeometry \/ WriteLineRegister \/ WriteTileRegister

FramebufferNext == FramebufferReset \/ BufferNext \/ StoreNext

FramebufferSpec == FramebufferInit /\ [][FramebufferNext]_framebufferVars

-----------------------------------------------------------------------------
(* Drawing: the run of bytes an operation touches, from a first byte on.   *)
(* The check looks at the end as a word; the bytes are where they are.     *)
Run(first, count) == [first |-> first, end |-> first + count]
Passes(run) == Word(run.end) <= memory
Inside(run) == run.end <= memory

Lands(run) == Passes(run) /\ Inside(run)
Strays(run) == Passes(run) /\ ~Inside(run)

(* tile_index: the entry of tile_directory_ that write_tile and clear_tile *)
(* set, invalidate_tile resets and read_tile reads, none with a check.     *)
TileIndex(g, x, y) == Word(y * g.across + x)
TileFirst(g, x, y) == Word(TileIndex(g, x, y) * (TilePixels(g) * g.tileDepth))

(* write_tile, with the size of its data, and clear_tile, which leaves out *)
(* bytes of a tile's pixels that are larger than those of the picture.     *)
WriteTileRun(g, x, y, size) == Run(TileFirst(g, x, y), size)
ClearTileRun(g, x, y) ==
    Run(TileFirst(g, x, y), Word(TilePixels(g)) * g.tileDepth)

(* write_pixel, read_pixel *)
PixelFirst(g, x, y) == Word(y * g.stride + x * g.depth)
PixelRun(g, x, y) == Run(PixelFirst(g, x, y), g.depth)

(* write_span, read_span: n pixels, unless they pass the end of the line.  *)
SpanDrawn(g, x, y, n) == y < g.height /\ Word(x + n) <= g.width
SpanRun(g, x, y, n) == Run(PixelFirst(g, x, y), n * g.depth)

(* clear_rect, and so clear: a row of the rectangle is cut at the right of *)
(* the picture, and wraps when it ends to the left of where it starts.     *)
RectEnd(g, x, n) == Smaller(Word(x + n), g.width)
RectRun(g, x, y, n) ==
    Run(PixelFirst(g, x, y), Word(RectEnd(g, x, n) - x) * g.depth)

(* blit, which copies a row when both of its runs are drawn and pass. *)
BlitRun(g, x, y, n) == Run(PixelFirst(g, x, y), Word(n * g.depth))

(* get_video_mode and get_video_mode_by_resolution *)
BufferModeNamed(w, h, hz) ==
    FirstMode(LAMBDA m : m.size = <<w, h>> /\ m.hz = hz)
BufferModeOfSize(w, h, hz) ==
    FirstMode(LAMBDA m : m.size = <<w, h>> /\ m.hz = hz)

-----------------------------------------------------------------------------
(* With double buffering the picture on the screen moves only at a swap,   *)
(* to the buffer that was the back one, or to a new base address: not when *)
(* the software aims the two buffers at other addresses.                   *)
ScanoutChangesAtSwap ==
    [][ double' /\ current' # current =>
           \/ <<front', back', current'>> = <<back, front, back>>
           \/ current' = base' ]_framebufferVars

(* Tiles whose store fits a word: each lands for as much as it holds, or,  *)
(* after a size register was written, is dropped.                          *)
TilesLand(g) ==
    TilesSize(g) < WordSize =>
        \A x \in 0..(g.across - 1), y \in 0..(g.down - 1) :
            \A run \in {ClearTileRun(g, x, y)} \union
                  {WriteTileRun(g, x, y, size) :
                      size \in 0..(TilePixels(g) * g.tileDepth)} :
                ~Strays(run) /\ (raw \/ Lands(run))

(* The directory is as long as after a reset: it has an entry for each     *)
(* tile of those pictures, and no others, that have no more tiles.         *)
EntriesFit(g) ==
    (\A x \in 0..(g.across - 1), y \in 0..(g.down - 1) :
         TileIndex(g, x, y) < DirectoryEntries)
    <=> g.across * g.down <= DirectoryEntries

(* Lines whose last pixel fits a word: what starts and ends within the     *)
(* picture never strays, and lands when lines fit the stride and no size   *)
(* register was written.                                                   *)
FitsWord(g) == (g.height - 1) * g.stride + g.width * g.depth < WordSize
FitsStride(g) == g.width * g.depth <= g.stride

DrawnInside(g, x, y, n) ==
    {RectRun(g, x, y, n)} \union
    (IF x < g.width THEN {PixelRun(g, x, y)} ELSE {}) \union
    (IF x + n <= g.width THEN {SpanRun(g, x, y, n), BlitRun(g, x, y, n)}
                         ELSE {})

LinesLand(g) ==
    FitsWord(g) =>
        \A y \in 0..(g.height - 1), x \in 0..g.width :
            \A n \in 0..(WordSize - 1 - x) :
                \A run \in DrawnInside(g, x, y, n) :
                    ~Strays(run) /\ (FitsStride(g) => raw \/ Lands(run))

(* And what strays: the guard of a span is passed by a wrapped sum, and a  *)
(* rectangle's end may wrap or lie left of its start. Then the check is    *)
(* passed as well and the loop runs out of the store (but for starts that  *)
(* wrap into it, less than its size below WordSize).                       *)
CutsExact(g) ==
    FitsWord(g) /\ FitsStride(g) /\ ~raw =>
        \A y \in 0..(g.height - 1), n \in Words,
           x \in 0..(WordSize - 1 - memory) :
            /\ SpanDrawn(g, x, y, n) =>
                  (Strays(SpanRun(g, x, y, n)) <=> x + n >= WordSize)
            /\ Strays(RectRun(g, x, y, n)) <=>
                  x > g.width \/ x + n >= WordSize

(* Whatever order the geometry is set in, what is drawn inside the picture *)
(* lies in the store, and is not dropped unless a size register was        *)
(* written; and just where the arithmetic of u32 and the fixed directory   *)
(* let a tile, a span or a rectangle write outside.                        *)
DrawingLands ==
    /\ TilesLand(geometry) /\ EntriesFit(geometry)
    /\ LinesLand(geometry) /\ CutsExact(geometry)
=============================================================================
