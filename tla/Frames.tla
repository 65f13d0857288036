------------------------------- MODULE Frames -------------------------------
(***************************************************************************)
(* What is in a frame, from the driver's buffer to the picture and to the  *)
(* face detection: the format v4l2_set_pix_format agrees on, the sizes     *)
(* video_v4l2_start, _motion_init and rotate_init derive, and then, frame  *)
(* by frame, the conversion in v4l2_next (src/common/video_conv.c and      *)
(* jpegutils.c), the rotation (src/common/rotate.c), the conversion of     *)
(* _motion_capture and the picture written to a file.  The camera comes up *)
(* as in MotionStart, whose steps "format" and "images" get their contents *)
(* here; V4l2Capture has the buffers.                                      *)
(*                                                                         *)
(* Arithmetic on pixels is left out: a byte is the set of places of the    *)
(* scene, <<plane, x, y>>, that it was computed from, and an image is a    *)
(* function from offsets to bytes.                                         *)
(***************************************************************************)
EXTENDS MotionStart, SequencesExt

CONSTANTS
    Sizes,    \* <<width, height>> the program may be started with
    Lists,    \* the formats a driver may enumerate, in its order
    Grants,   \* what the driver may make of a width
    Degrees,  \* conf.rotate_deg: 90 in the code
    PassRows, \* the rows decode_jpeg_raw writes in one pass: 16
    MaxFrames \* bound on frames

ASSUME FrameAssumption ==
    /\ Sizes \subseteq (Nat \ {0}) \X (Nat \ {0})
    /\ \A s \in Sizes : s[1] % 4 = 0 /\ s[2] % 4 = 0   \* "Size must be 16times"
    /\ Grants \subseteq {"same", "half", "double", "three_to_two", "fourfold"}
    /\ Degrees \subseteq {0, 90, 180, 270}
    /\ PassRows \in Nat \ {0} /\ MaxFrames \in Nat

VARIABLES
    list, grant, \* external: what the driver enumerates and grants
    dev,         \* VideoDevice->width and ->height: what was asked for, then imgs
    degrees,     \* conf.rotate_deg, then rotate_data.degrees
    format,      \* the pixel format set, and
    fmt,         \* the size the driver set with it
    cap, imgs,   \* rotate_data.cap_width and _height, imgs.width and .height
    virgin,      \* image_virgin
    ret,         \* of the last video_v4l2_next; 1 before the first
    ConvImg,     \* what faces are looked for in
    file,        \* the picture last written
    color,       \* capture mode: pictures are written; else faces are looked for
    frames

geometry == <<list, grant, dev, degrees, color, format, fmt, cap, imgs>>
frameVars == <<geometry, virgin, ret, ConvImg, file, frames>>

Width(s)  == s[1]
Height(s) == s[2]
Area(s)   == s[1] * s[2]
Size420(s) == (3 * Area(s)) \div 2
Swap(s)   == <<s[2], s[1]>>
Unset == <<0, 0>>

Outside == {<<"outside">>}
At(buffer, i) == IF i \in DOMAIN buffer THEN buffer[i] ELSE Outside

-----------------------------------------------------------------------------
(* The format.  A higher index means better chance to be used.             *)

supported_formats == <<"SN9C10X", "SBGGR8", "MJPEG", "JPEG", "RGB24", "UYVY", "YUYV", "YUV422P", "YUV420">>
v4l2_palette == 9
RankOf(f) == IF Contains(supported_formats, f)
             THEN CHOOSE i \in DOMAIN supported_formats : supported_formats[i] = f ELSE 0

Best(formats) == FoldLeft(LAMBDA best, f : IF RankOf(f) > best THEN RankOf(f) ELSE best, 0, formats)

Granted(s) == CASE grant = "half"   -> <<s[1] \div 2, s[2]>>
                [] grant = "double" -> <<s[1] * 2, s[2]>>
                [] grant = "fourfold" -> <<s[1] * 4, s[2]>>
                [] grant = "three_to_two" -> <<(s[1] * 3) \div 2, s[2]>>
                [] OTHER -> s

\* v4l2_set_pix_format: the configured palette, or the best of the driver's.
SetFormat ==
    LET choice == IF Contains(list, supported_formats[v4l2_palette]) THEN v4l2_palette ELSE Best(list)
    IN  /\ pc = "format"
        /\ IF choice > 0 THEN Inquire
           ELSE Goto("format", "err") /\ UNCHANGED <<mem, private, fd, mapped, owner, next, streaming, fault>>
        /\ IF pc' = "err" THEN UNCHANGED <<format, fmt>>
           ELSE format' = supported_formats[choice] /\ fmt' = Granted(dev)
        /\ UNCHANGED <<list, grant, dev, degrees, color, cap, imgs, virgin, ret, ConvImg, file, frames>>

\* rotate_init: the capture size is kept and the output size follows.
RotateInit ==
    /\ AllocImages /\ pc' = "thread"
    /\ cap' = imgs
    /\ imgs' = IF degrees \in {90, 270} THEN Swap(imgs) ELSE imgs
    /\ virgin' = [i \in 0 .. Size420(dev) - 1 |-> {}]
    /\ UNCHANGED <<list, grant, dev, degrees, color, format, fmt, ret, ConvImg, file, frames>>

-----------------------------------------------------------------------------
(* What the driver puts into a buffer for a picture of size s.             *)

Block(plane, x, y) == {plane} \X {2 * x, 2 * x + 1} \X {2 * y, 2 * y + 1}

\* Planar 4:2:0, the layout of image_virgin, too.
Planar(s) ==
    [i \in 0 .. Size420(s) - 1 |->
        LET j == (i - Area(s)) % (Area(s) \div 4)
            w == Width(s) \div 2
        IN  IF i < Area(s) THEN {<<"Y", i % Width(s), i \div Width(s)>>}
            ELSE Block(IF i < Area(s) + Area(s) \div 4 THEN "U" ELSE "V", j % w, j \div w)]

\* Four bytes for two pixels; luma at the even offsets or at the odd ones.
Packed(s, luma) ==
    [i \in 0 .. Area(s) * 2 - 1 |->
        LET x == (i \div 2) % Width(s)
            y == i \div (2 * Width(s))
            pair == {2 * (x \div 2), 2 * (x \div 2) + 1}
        IN  IF i % 2 = luma THEN {<<"Y", x, y>>}
            ELSE {IF x % 2 = 0 THEN "U" ELSE "V"} \X pair \X {y}]

Coloured(s) == [i \in 0 .. Area(s) * 3 - 1 |-> {<<"RGB", (i \div 3) % Width(s), i \div (3 * Width(s))>>}]

Buffer(f, s) ==
    CASE f \in {"YUYV", "YUV422P"} -> Packed(s, 0)
      [] f = "UYVY" -> Packed(s, 1)
      [] f = "RGB24" -> Coloured(s)
      [] OTHER -> Planar(s)

-----------------------------------------------------------------------------
(* The conversions of v4l2_next, called with a width and a height.         *)

\* The planes of the result: luma i, and chroma <<j, k>>, column j of row k.
Pixels(w, h) == 0 .. w * h - 1
Half(n)      == 0 .. n \div 2 - 1

Image(w, h, Y, U, V) ==
    [i \in 0 .. Size420(<<w, h>>) - 1 |->
        LET n == (i - w * h) % ((w * h) \div 4)
            j == n % (w \div 2)
            k == n \div (w \div 2)
        IN  IF i < w * h THEN Y[i] ELSE IF i < w * h + (w * h) \div 4 THEN U[<<j, k>>] ELSE V[<<j, k>>]]

\* Chroma is the mean of two rows, of the byte at offset o of four.
TwoRows(src, w, h, o) ==
    [p \in Half(w) \X Half(h) |->
        LET i == 4 * w * p[2] + 4 * p[1] + o IN At(src, i) \cup At(src, i + 2 * w)]

conv_yuv422to420p(src, w, h) ==
    Image(w, h, [i \in Pixels(w, h) |-> At(src, 2 * i)], TwoRows(src, w, h, 1), TwoRows(src, w, h, 3))

conv_uyvyto420p(src, w, h) ==
    Image(w, h, [i \in Pixels(w, h) |-> At(src, 2 * i + 1)], TwoRows(src, w, h, 0), TwoRows(src, w, h, 2))

\* Chroma is summed over two pixels of two rows.
conv_rgb24toyuv420p(src, w, h) ==
    LET Pixel(i) == UNION {At(src, 3 * i + c) : c \in 0 .. 2}
        As(plane, places) == {IF Len(p) = 3 THEN <<plane, p[2], p[3]>> ELSE p : p \in places}
        Four(j, k) == UNION {Pixel(w * (2 * k + b) + 2 * j + a) : a, b \in 0 .. 1}
        Y == [i \in Pixels(w, h) |-> As("Y", Pixel(i))]
        U == [p \in Half(w) \X Half(h) |-> As("U", Four(p[1], p[2]))]
        V == [p \in Half(w) \X Half(h) |-> As("V", Four(p[1], p[2]))]
    IN  Image(w, h, Y, U, V)

\* memcpy of v4l_bufsize bytes, computed when the program starts.
Copy(src, size) == [i \in 0 .. size - 1 |-> At(src, i)]

\* decode_jpeg_raw, of a 4:2:0 picture of size s.  The height must fit (half
\* of it is for interlaced pictures, which are refused); a picture that is too
\* wide is shrunk 2:1 or 3:2 or loses its margins.
Fits(s, h) == Height(s) = h

Shrink(s, w) ==
    CASE w < (2 * Width(s)) \div 3 -> "2:1"
      [] w = (2 * Width(s)) \div 3 -> "3:2"
      [] OTHER -> "no"

\* As if the margin did not depend on the shrinking.
Bug_Margin(s, w) ==
    IF Width(s) < w THEN 0 ELSE 2 * ((Width(s) - w) \div 4)

\* xsl, made even, and xsc, its half: the margin on the left.
Margin(s, w) ==
    LET wide == IF Shrink(s, w) = "2:1" THEN 2 * w ELSE w
        xsl  == (Width(s) - wide) \div 2
    IN  IF Shrink(s, w) = "3:2" \/ Width(s) < wide THEN 0 ELSE 2 * (xsl \div 2)

\* The columns of the picture that column x of the result is the mean of.
Columns(s, w, margin, x) ==
    CASE Shrink(s, w) = "2:1" -> {margin + 2 * x, margin + 2 * x + 1}
      [] Shrink(s, w) = "3:2" -> {3 * (x \div 2) + 2 * (x % 2), 3 * (x \div 2) + 1}
      [] OTHER -> {margin + x}

\* The rows of the decoder are static: beyond the picture's width they hold
\* what was there before.
decode_jpeg_raw(s, w, h) ==
    LET picture == Planar(s)
        m == Margin(s, w)
        Cell(base, width, x, y) == IF x < width THEN picture[base + y * width + x] ELSE Outside
        Y == [i \in Pixels(w, h) |->
            UNION {Cell(0, Width(s), x, i \div w) : x \in Columns(s, w, m, i % w)}]
        Chroma(base) == [p \in Half(w) \X Half(h) |->
            UNION {Cell(base, Width(s) \div 2, x, p[2]) : x \in Columns(s, w, m \div 2, p[1])}]
    IN  Image(w, h, Y, Chroma(Area(s)), Chroma(Area(s) + Area(s) \div 4))

Converted(w, h) ==
    LET src == Buffer(format, fmt)
    IN  CASE format = "RGB24" -> conv_rgb24toyuv420p(src, w, h)
          [] format = "UYVY" -> conv_uyvyto420p(src, w, h)
          [] format \in {"YUYV", "YUV422P"} -> conv_yuv422to420p(src, w, h)
          [] format \in {"JPEG", "MJPEG"} -> decode_jpeg_raw(fmt, w, h)
          [] OTHER -> Copy(src, Size420(cap))

-----------------------------------------------------------------------------
(* Rotation of a plane of width w and height h that begins at base.        *)

\* Columns from the left, each from the bottom up.
rot90cw(map, base, w, h) ==
    [i \in 0 .. w * h - 1 |-> map[base + w * h - w + (i \div h) - w * (i % h)]]

\* The same, written from the end.
rot90ccw(map, base, w, h) ==
    [i \in 0 .. w * h - 1 |-> rot90cw(map, base, w, h)[w * h - 1 - i]]

\* Four bytes at a time from both ends, the bytes of each four swapped, until
\* the ends meet: a quad in the middle stays as it is.
reverse_inplace_quad(map, base, size) ==
    LET Quad(i) == i \div 4
        last    == size \div 4 - 1
    IN  [i \in 0 .. size - 1 |->
            map[base + (IF 2 * Quad(i) = last THEN i ELSE 4 * (last - Quad(i)) + 3 - (i % 4))]]

Planes3(size, Y, U, V) ==
    [i \in 0 .. size + size \div 2 - 1 |->
        IF i < size THEN Y[i]
        ELSE IF i < size + size \div 4 THEN U[i - size] ELSE V[i - size - size \div 4]]

Bug_rotate_map(map) ==
    LET w == Width(imgs) h == Height(imgs) wh == w * h
        Planes(Rot(_, _, _, _)) ==
            Planes3(wh, Rot(map, 0, w, h), Rot(map, wh, w \div 2, h \div 2),
                 Rot(map, wh + wh \div 4, w \div 2, h \div 2))
    IN  CASE degrees = 90  -> Planes(rot90cw)
          [] degrees = 270 -> Planes(rot90ccw)
          [] OTHER -> map

rotate_map(map) ==
    LET w == Width(cap) h == Height(cap) wh == w * h
        Planes(Rot(_, _, _, _)) ==
            Planes3(wh, Rot(map, 0, w, h), Rot(map, wh, w \div 2, h \div 2),
                 Rot(map, wh + wh \div 4, w \div 2, h \div 2))
    IN  CASE degrees = 90  -> Planes(rot90cw)
          [] degrees = 270 -> Planes(rot90ccw)
          [] degrees = 180 -> Planes3(wh, reverse_inplace_quad(map, 0, wh),
                                   reverse_inplace_quad(map, wh, wh \div 4),
                                   reverse_inplace_quad(map, wh + wh \div 4, wh \div 4))
          [] OTHER -> map

-----------------------------------------------------------------------------
\* bayer2rgb24 writes to imgs.common_buffer, which nobody allocates: with the
\* formats that need it the first frame ends the program.
NeedsCommonBuffer == format \in {"SN9C10X", "SBGGR8"}

\* mjpegtoyuv420p copies its buffers, never filled, when the decoder fails.
Decodes == format \in {"JPEG", "MJPEG"} => Fits(fmt, Height(imgs))
Garbage == [i \in 0 .. Size420(cap) - 1 |-> Outside]

\* The last pass of the decoder writes behind the planes when the height is not
\* a multiple of its rows: such a frame, too, ends the program.
Overruns == format \in {"JPEG", "MJPEG"} /\ Decodes /\ Height(fmt) % PassRows # 0

\* video_v4l2_next, when the driver has a frame, rotates whatever it returns.
\* v4l2_set_input stores the sizes of imgs, and v4l2_next gets them.
NextFrame ==
    /\ pc = "running" /\ frames < MaxFrames /\ ~NeedsCommonBuffer /\ ~Overruns
    /\ dev' = imgs
    /\ frames' = frames + 1
    /\ ret' = IF Decodes THEN 0 ELSE -1
    /\ virgin' = rotate_map(IF Decodes THEN Converted(Width(imgs), Height(imgs)) ELSE Garbage)
    /\ ConvImg' = <<>> /\ file' = <<>>
    /\ UNCHANGED <<list, grant, degrees, color, format, fmt, cap, imgs, vars>>

\* The chroma pointers of conv_yuv420p_to_gray and _to_gbr24 advance with
\* every second pixel and go back half a row after the odd rows.
ChromaRow(y) == (y + 1) \div 2

\* Luma and chroma of the pixel i of a picture of width w and height h.
Parts(map, w, h, i) ==
    LET n == w * h + ChromaRow(i \div w) * (w \div 2) + (i % w) \div 2
    IN  [Y |-> At(map, i), U |-> At(map, n), V |-> At(map, n + (w * h) \div 4)]

conv_yuv420p_to_gray(map, w, h) ==
    [i \in 0 .. w * h - 1 |-> LET p == Parts(map, w, h, i) IN p.Y \cup p.U \cup p.V]

conv_yuv420p_to_gbr24(map, w, h) ==
    [i \in 0 .. 3 * w * h - 1 |->
        LET p == Parts(map, w, h, i \div 3)
        IN  p.Y \cup (IF i % 3 = 0 THEN {} ELSE p.U) \cup (IF i % 3 = 2 THEN {} ELSE p.V)]

\* _motion_capture hands on the size of the device.
Convert ==
    /\ pc = "running" /\ ret = 0 /\ ConvImg = <<>>
    /\ ConvImg' = IF color THEN conv_yuv420p_to_gbr24(virgin, Width(dev), Height(dev))
                  ELSE conv_yuv420p_to_gray(virgin, Width(dev), Height(dev))
    /\ UNCHANGED <<geometry, vars, virgin, ret, file, frames>>

\* put_jpeg_yuv420p_file: each row of chroma goes with two rows of luma.
put_jpeg(map, w, h) ==
    [p \in (0 .. w - 1) \X (0 .. h - 1) |->
        LET n == w * h + (w \div 2) * (p[2] \div 2) + p[1] \div 2
        IN  At(map, w * p[2] + p[1]) \cup At(map, n) \cup At(map, n + (w * h) \div 4)]

\* _motion_write_picture, of the picture as it came, failed or not.
WritePicture ==
    /\ pc = "running" /\ color /\ frames > 0 /\ file = <<>>
    /\ ret = 0 => ConvImg # <<>>
    /\ file' = put_jpeg(virgin, Width(imgs), Height(imgs))
    /\ UNCHANGED <<geometry, vars, virgin, ret, ConvImg, frames>>

FInit ==
    /\ Init
    /\ list \in Lists /\ grant \in Grants /\ dev \in Sizes
    /\ degrees \in Degrees /\ color \in BOOLEAN
    /\ format = "none" /\ fmt = Unset /\ cap = Unset
    /\ imgs = dev
    /\ virgin = <<>> /\ ret = 1 /\ ConvImg = <<>> /\ file = <<>> /\ frames = 0

FNext ==
    \/ SetFormat \/ RotateInit
    \/ pc \notin {"format", "images"} /\ Start /\ UNCHANGED frameVars
    \/ AllocImages /\ pc' = "exited" /\ UNCHANGED frameVars
    \/ NextFrame \/ Convert \/ WritePicture
    \/ Finished /\ UNCHANGED frameVars

FSpec == FInit /\ [][FNext]_<<vars, frameVars>>

-----------------------------------------------------------------------------
(* The place of the scene that a picture turned by some degrees shows at   *)
(* x, y: what "rotate" means, for a picture of size s before the turn.     *)
Shown(s, x, y) ==
    CASE degrees = 90  -> <<y, Height(s) - 1 - x>>
      [] degrees = 180 -> <<Width(s) - 1 - x, Height(s) - 1 - y>>
      [] degrees = 270 -> <<Width(s) - 1 - y, x>>
      [] OTHER -> <<x, y>>

Turn(places) == {LET q == Shown(cap, p[2], p[3]) IN <<p[1], q[1], q[2]>> : p \in places}

SizeKept == fmt = cap

\* Upside down, a plane of chroma with an odd number of quads keeps the middle
\* one as it was; sides that are "16times" make the number even.
OddQuads == degrees = 180 /\ Area(cap) % 32 # 0

\* The bytes of image_virgin that are right: always luma, and chroma, too,
\* unless the sizes were swapped and the format makes v4l2_next need them ("we
\* need to use capture dimensions"), or a quad was not turned.
Upright == (imgs = cap \/ format = "YUV420") /\ ~OddQuads

DeliveredRight ==
    \A i \in DOMAIN virgin :
        i < Area(imgs) \/ Upright => virgin[i] = Turn(Planar(imgs)[i])

FileHas(x, y) == {<<"Y", x, y>>} \cup Block("U", x \div 2, y \div 2) \cup Block("V", x \div 2, y \div 2)

FileRight ==
    file # <<>> /\ Upright =>
        file = [p \in (0 .. Width(imgs) - 1) \X (0 .. Height(imgs) - 1) |-> Turn(FileHas(p[1], p[2]))]

(* Every frame delivered shows the scene turned as asked, whichever format *)
(* the driver offers, as long as it grants the size; and the picture in a  *)
(* file has, at each pixel, the luma of that place of the turned scene and *)
(* the chroma of the four pixels around it.                                *)
FrameRight == ret = 0 /\ SizeKept => DeliveredRight /\ FileRight

(* No picture is made from bytes beyond the driver's buffer, or from none, *)
(* unless the driver made the picture smaller than asked for.              *)
ReadsInside ==
    ret = 0 /\ Area(fmt) >= Area(cap) =>
        \A i \in DOMAIN virgin : virgin[i] # {} /\ Outside \cap virgin[i] = {}

(* "Y1 Y2 Y7 Y8 will be sharing U1 and V1": a pixel in which faces are      *)
(* looked for is made of the luma and chroma of one place of the picture.  *)
GrayRight ==
    ConvImg # <<>> /\ ~color =>
        \A x \in 0 .. Width(imgs) - 1, y \in 0 .. Height(imgs) - 1 :
            ConvImg[y * Width(imgs) + x] = put_jpeg(virgin, Width(imgs), Height(imgs))[<<x, y>>]
=============================================================================
