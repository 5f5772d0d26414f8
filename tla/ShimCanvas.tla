----------------------------- MODULE ShimCanvas -----------------------------
(***************************************************************************)
(* Canvases and bitmaps of the ART shim: the fixed tables of bitmap and    *)
(* canvas states that Java's native pointers are looked up in, the matrix, *)
(* clip and save stack of a canvas, and what the drawing calls store.      *)
(*                                                                         *)
(* The code treats the two axes alike and separately; the model has one.   *)
(* Lengths that Java passes as floats are counted in half pixels, so that  *)
(* floor and ceil differ.  A colour is 0 (transparent) or opaque; blending *)
(* and glyph shapes are left out.                                          *)
(***************************************************************************)
EXTENDS Integers, Sequences, SequencesExt, FiniteSets, FiniteSetsExt

CONSTANTS BitmapSlots, CanvasSlots,  \* sizes of the two tables
          StackLimit,                \* entries of a canvas's save stack
          MaxBitmaps, MaxCanvases,   \* bound: tokens given out
          MaxCalls                   \* bound: calls of the framework

VARIABLES bmp,       \* muplar_bitmaps
          cvs,       \* muplar_canvases
          wrapIdx,   \* canvases taken from the table when it was full
          bmpToken, cvsToken,   \* last token given out
          surface,   \* mNativeCanvasWrapper of the surface's Canvas object
          probe,     \* a save that the client will restore to, and its state
          calls

vars == <<bmp, cvs, wrapIdx, bmpToken, cvsToken, surface, probe, calls>>

Screen == 3
NoBitmap == [token |-> 0, px |-> <<>>]
NoProbe == [token |-> 0, count |-> 0, was |-> <<>>]
Bitmap(t) == {i \in 1..BitmapSlots : t # 0 /\ bmp[i].token = t}
Canvas(t) == {i \in 1..CanvasSlots : t # 0 /\ cvs[i].token = t}
Width(b) == Len(bmp[b].px)

\* muplar_canvas_reset() for the bitmap slots bs (none or one).
Reset(c, bs) == [c EXCEPT !.tx = 0, !.sx = 1, !.left = 0, !.stack = <<>>,
                          !.right = IF bs = {} THEN Screen ELSE Width(CHOOSE b \in bs : TRUE)]
NoCanvas == [token |-> 0, bitmap |-> 0, tx |-> 0, sx |-> 1, left |-> 0, right |-> 0,
             stack |-> <<>>]

Init == /\ bmp = [i \in 1..BitmapSlots |-> NoBitmap]
        /\ cvs = [i \in 1..CanvasSlots |-> NoCanvas]
        /\ wrapIdx = 0 /\ bmpToken = 0 /\ cvsToken = 0 /\ surface = 0
        /\ probe = NoProbe /\ calls = 0

Called == calls < MaxCalls /\ calls' = calls + 1

----
(* The tables                                                              *)

FreeBitmaps == {i \in 1..BitmapSlots : bmp[i].token = 0}
FreeCanvases == {i \in 1..CanvasSlots : cvs[i].token = 0}

\* muplar_alloc_bitmap(), the pixels set to colour c; nothing when the table is full.
AllocBitmap(w, c) ==
    IF FreeBitmaps = {} THEN UNCHANGED <<bmp, bmpToken>>
    ELSE /\ bmpToken < MaxBitmaps /\ bmpToken' = bmpToken + 1
         /\ bmp' = [bmp EXCEPT ![Min(FreeBitmaps)] =
                      [token |-> bmpToken', px |-> [x \in 1..(IF w <= 0 THEN 1 ELSE w) |-> c]]]

\* muplar_alloc_canvas(): a full table gives up its slots in turn.
EvictedSlot == (wrapIdx % CanvasSlots) + 1
AllocCanvas(t, bs) ==
    LET i == IF FreeCanvases # {} THEN Min(FreeCanvases) ELSE EvictedSlot IN
    /\ cvsToken < MaxCanvases /\ cvsToken' = cvsToken + 1
    /\ wrapIdx' = IF FreeCanvases # {} THEN wrapIdx ELSE wrapIdx + 1
    /\ cvs' = [cvs EXCEPT ![i] = Reset([NoCanvas EXCEPT !.token = cvsToken', !.bitmap = t], bs)]

\* HardwareRenderer.nCreateHardwareBitmap, Bitmap.nativeCreate with a colour array.
CreateBitmap(w, c) ==
    /\ Called /\ AllocBitmap(w, IF w <= 0 THEN 0 ELSE c)
    /\ UNCHANGED <<cvs, wrapIdx, cvsToken, surface, probe>>

Recycle(t) ==
    /\ Called /\ Bitmap(t) # {}
    /\ bmp' = [i \in 1..BitmapSlots |-> IF i \in Bitmap(t) THEN NoBitmap ELSE bmp[i]]
    /\ UNCHANGED <<cvs, wrapIdx, bmpToken, cvsToken, surface, probe>>

\* nInitRaster, and RecordingCanvas.nCreateDisplayListCanvas with t = 0.
InitRaster(t) == /\ Called /\ AllocCanvas(t, Bitmap(t))
                 /\ UNCHANGED <<bmp, bmpToken, surface, probe>>

\* Surface.lockCanvas: a canvas that is not found any more is made anew.
LockCanvas ==
    /\ Called
    /\ IF Canvas(surface) = {}
       THEN /\ AllocBitmap(Screen, 0)
            /\ AllocCanvas(IF FreeBitmaps = {} THEN 0 ELSE bmpToken', {})
            /\ surface' = cvsToken'
            /\ UNCHANGED probe
       ELSE /\ cvs' = [i \in 1..CanvasSlots |-> IF i \in Canvas(surface)
                          THEN Reset(cvs[i], Bitmap(cvs[i].bitmap)) ELSE cvs[i]]
            /\ probe' = IF probe.token = surface THEN NoProbe ELSE probe
            /\ UNCHANGED <<bmp, bmpToken, wrapIdx, cvsToken, surface>>

----
(* Matrix, clip and save stack                                             *)

\* A call on canvas t that changes its state to F(state); unknown tokens are
\* ignored.
OnCanvas(t, F(_)) == cvs' = [i \in 1..CanvasSlots |->
                               IF i \in Canvas(t) THEN F(cvs[i]) ELSE cvs[i]]
Rest == UNCHANGED <<bmp, wrapIdx, bmpToken, cvsToken, surface>>

Floor(h) == h \div 2
Ceil(h) == -((-h) \div 2)
Entry(c) == <<c.tx, c.sx, c.left, c.right>>
Restored(c, e) == [c EXCEPT !.tx = e[1], !.sx = e[2], !.left = e[3], !.right = e[4]]

Push(c) == IF Len(c.stack) < StackLimit
           THEN [c EXCEPT !.stack = Append(@, Entry(c))] ELSE c
Clip(c, l, r) == [c EXCEPT !.left = Max({@, Floor(l * c.sx + c.tx)}),
                           !.right = Min({@, Ceil(r * c.sx + c.tx)})]
\* Mutant: an entry too many is left on the stack.
PopToAbove(c, count) ==
    LET n == (IF count < 1 THEN 1 ELSE count) + 1 IN
    IF Len(c.stack) < n THEN c
    ELSE [Restored(c, c.stack[n]) EXCEPT !.stack = SubSeq(@, 1, n - 1)]
\* nRestoreToCount() leaves the state of the lowest entry it takes off.
PopTo(c, count) ==
    LET n == IF count < 1 THEN 1 ELSE count IN
    IF Len(c.stack) < n THEN c
    ELSE [Restored(c, c.stack[n]) EXCEPT !.stack = SubSeq(@, 1, n - 1)]

\* The probe ends when the client restores to it or below it, and when a save
\* above it finds the stack full.
Keep(t, depth) == probe' = IF probe.token = t /\ depth < probe.count THEN NoProbe ELSE probe
Depth(i) == Len(cvs[i].stack)

\* nSave and nSaveLayer (with a clip): the count is the new depth.
SaveLayer(t, clips, l, r) ==
    /\ Called /\ Canvas(t) # {}
    /\ OnCanvas(t, LAMBDA c : IF clips /\ r > l THEN Clip(Push(c), l, r) ELSE Push(c))
    /\ \E i \in Canvas(t) :
          probe' = CASE Depth(i) = StackLimit -> IF probe.token = t THEN NoProbe ELSE probe
                     [] probe = NoProbe -> [token |-> t, count |-> Depth(i) + 1,
                                            was |-> Entry(cvs[i])]
                     [] OTHER -> probe
    /\ Rest

Restore(t) ==
    /\ Called /\ Canvas(t) # {}
    /\ OnCanvas(t, LAMBDA c : PopTo(c, Len(c.stack)))
    /\ \E i \in Canvas(t) : Keep(t, Depth(i) - 1)
    /\ Rest

RestoreToCount(t, count) ==
    /\ Called /\ Canvas(t) # {}
    /\ OnCanvas(t, LAMBDA c : PopTo(c, count))
    /\ Keep(t, count - 1)
    /\ Rest

ClipRect(t, l, r) == /\ Called /\ Canvas(t) # {} /\ OnCanvas(t, LAMBDA c : Clip(c, l, r))
                     /\ Rest /\ UNCHANGED probe

Translate(t, dx) == /\ Called /\ Canvas(t) # {}
                    /\ OnCanvas(t, LAMBDA c : [c EXCEPT !.tx = @ + dx * c.sx])
                    /\ Rest /\ UNCHANGED probe

Scale(t, f) == /\ Called /\ Canvas(t) # {} /\ OnCanvas(t, LAMBDA c : [c EXCEPT !.sx = @ * f])
               /\ Rest /\ UNCHANGED probe

SetMatrix(t) == /\ Called /\ Canvas(t) # {}
                /\ OnCanvas(t, LAMBDA c : [c EXCEPT !.tx = 0, !.sx = 1])
                /\ Rest /\ UNCHANGED probe

Forget(t) == probe' = IF probe.token = t THEN NoProbe ELSE probe

SetBitmap(t, b) ==
    /\ Called /\ Canvas(t) # {}
    /\ OnCanvas(t, LAMBDA c : Reset([c EXCEPT !.bitmap = b], Bitmap(b)))
    /\ Forget(t) /\ Rest

ResetDisplayListCanvas(t, w) ==
    /\ Called /\ Canvas(t) # {}
    /\ OnCanvas(t, LAMBDA c : LET n == Reset([c EXCEPT !.bitmap = 0], {}) IN
                              IF w > 0 THEN [n EXCEPT !.right = w] ELSE n)
    /\ Forget(t) /\ Rest

----
(* Drawing: the cells that a call stores to                                *)

\* muplar_fill_rect() from l up to r.
FillCells(b, l, r) == Max({l, 0}) .. Min({r, Width(b)}) - 1

\* nDrawRect and the shapes drawn as rectangles; nDrawColor and nDrawPaint fill
\* the clip.
RectCells(c, b, l, r) == FillCells(b, Max({Floor(l * c.sx + c.tx), c.left}),
                                      Min({Ceil(r * c.sx + c.tx), c.right}))
PaintCells(c, b) == FillCells(b, c.left, c.right)
\* nDrawCircle looks at the bitmap only.
CircleCells(c, b, m, rad) == FillCells(b, Floor(m * c.sx + c.tx - rad * c.sx),
                                          Ceil(m * c.sx + c.tx + rad * c.sx))
\* muplar_draw_text(): a glyph of GlyphWidth cells.
GlyphWidth == 2
TextCells(c, b, x) == {p \in Floor(x * c.sx + c.tx) .. Floor(x * c.sx + c.tx) + GlyphWidth - 1 :
                         p \in c.left .. c.right - 1 /\ p \in 0 .. Width(b) - 1}

\* muplar_blit_bitmap(): steps 0..dw-1 of the target from dx on, each with the
\* source cell it reads; steps outside clip, target or source are left out.
BlitSteps(c, b, src, dx, dw, sx, sw) ==
    IF dw <= 0 \/ sw <= 0 THEN <<>>
    ELSE SelectSeq([i \in 1..dw |-> <<dx + i - 1, sx + ((i - 1) * sw) \div dw>>],
                   LAMBDA s : /\ s[1] \in c.left .. c.right - 1 /\ s[1] \in 0 .. Width(b) - 1
                              /\ s[2] \in 0 .. Width(src) - 1)
\* Source and target may be the same bitmap: the steps are taken in order.
Blit(b, src, steps) ==
    FoldLeft(LAMBDA px, s : LET v == IF src = b THEN px[s[2] + 1] ELSE bmp[src].px[s[2] + 1] IN
                            IF v = 0 THEN px ELSE [px EXCEPT ![s[1] + 1] = v],
             bmp[b].px, steps)

Fill(b, cells, color) ==
    bmp' = [bmp EXCEPT ![b].px = [x \in DOMAIN @ |-> IF color # 0 /\ x - 1 \in cells
                                                     THEN color ELSE @[x]]]
Drawn == UNCHANGED <<cvs, wrapIdx, bmpToken, cvsToken, surface, probe>>

\* A drawing call on canvas t that has a bitmap; without one nothing is drawn.
Targets(t) == {<<cvs[i], b>> : i \in Canvas(t), b \in UNION {Bitmap(cvs[i].bitmap) : i \in Canvas(t)}}

DrawRect(t, l, r, color) ==
    /\ Called /\ Drawn
    /\ \E d \in Targets(t) : Fill(d[2], RectCells(d[1], d[2], l, r), color)

DrawPaint(t, color) ==
    /\ Called /\ Drawn /\ \E d \in Targets(t) : Fill(d[2], PaintCells(d[1], d[2]), color)

DrawCircle(t, m, rad, color) ==
    /\ Called /\ Drawn /\ rad > 0
    /\ \E d \in Targets(t) : Fill(d[2], CircleCells(d[1], d[2], m, rad), color)

DrawText(t, x, color) ==
    /\ Called /\ Drawn /\ \E d \in Targets(t) : Fill(d[2], TextCells(d[1], d[2], x), color)

\* nDrawBitmap at left, nDrawBitmapRect and nDrawNinePatch over the source sx, sw.
DrawBitmap(t, left, src) ==
    /\ Called /\ Drawn
    /\ \E d \in Targets(t), s \in Bitmap(src) :
          bmp' = [bmp EXCEPT ![d[2]].px =
                    Blit(d[2], s, BlitSteps(d[1], d[2], s, Floor(left * d[1].sx + d[1].tx),
                                            Width(s) * d[1].sx, 0, Width(s)))]

DrawBitmapRect(t, l, r, src, sx, sw) ==
    /\ Called /\ Drawn
    /\ \E d \in Targets(t), s \in Bitmap(src) :
          LET c == d[1]
              dx == Floor(l * c.sx + c.tx) IN
          bmp' = [bmp EXCEPT ![d[2]].px =
                    Blit(d[2], s, BlitSteps(c, d[2], s, dx, Ceil(r * c.sx + c.tx) - dx, sx, sw))]

\* nDrawPath draws a bitmap shader over the size of the target.
DrawPath(t, src) ==
    /\ Called /\ Drawn
    /\ \E d \in Targets(t), s \in Bitmap(src) :
          LET dw == Width(d[2]) * d[1].sx IN
          bmp' = [bmp EXCEPT ![d[2]].px =
                    Blit(d[2], s, BlitSteps(d[1], d[2], s, Floor(d[1].tx),
                                            IF dw <= 0 THEN Width(d[2]) ELSE dw, 0, Width(s)))]

Erase(t, color) == /\ Called /\ Drawn /\ \E b \in Bitmap(t) :
                        bmp' = [bmp EXCEPT ![b].px = [x \in DOMAIN @ |-> color]]

SetPixel(t, x, color) ==
    /\ Called /\ Drawn /\ \E b \in Bitmap(t) : /\ x \in 0 .. Width(b) - 1
                                               /\ bmp' = [bmp EXCEPT ![b].px[x + 1] = color]

----
Spans == {<<0, 2>>, <<1, 5>>}    \* in half pixels
Tables ==
    \/ \E w \in {0, 2} : CreateBitmap(w, 1)
    \/ \E t \in 1..bmpToken : Recycle(t)
    \/ \E t \in 0..bmpToken : InitRaster(t)
    \/ LockCanvas
States(t) ==
    \/ \E s \in Spans, clips \in BOOLEAN : SaveLayer(t, clips, s[1], s[2])
    \/ Restore(t) \/ \E n \in 1..StackLimit : RestoreToCount(t, n)
    \/ \E s \in Spans : ClipRect(t, s[1], s[2])
    \/ \E dx \in {-1, 3} : Translate(t, dx)
    \/ Scale(t, 2) \/ SetMatrix(t)
    \/ \E b \in 0..bmpToken : SetBitmap(t, b)
    \/ \E w \in {0, 1} : ResetDisplayListCanvas(t, w)
Draws(t) ==
    \/ \E s \in Spans, k \in {0, 2} : DrawRect(t, s[1], s[2], k)
    \/ DrawPaint(t, 2) \/ DrawCircle(t, 2, 1, 2) \/ DrawText(t, 1, 2)
    \/ \E b \in 1..bmpToken : \/ DrawBitmap(t, 1, b) \/ DrawPath(t, b)
                              \/ DrawBitmapRect(t, 0, 4, b, -1, 2)
Next == \/ Tables
        \/ \E t \in 1..cvsToken : States(t) \/ Draws(t)
        \/ \E t \in 1..bmpToken : Erase(t, 0) \/ SetPixel(t, 1, 2)

Spec == Init /\ [][Next]_vars

----
TypeOK == /\ \A i \in 1..BitmapSlots : bmp[i].token \in 0..bmpToken /\ bmp[i].px \in Seq(0..2)
          /\ \A i \in 1..CanvasSlots : /\ cvs[i].token \in 0..cvsToken
                                       /\ cvs[i].bitmap \in 0..bmpToken
                                       /\ Len(cvs[i].stack) \in 0..StackLimit
          /\ surface \in 0..cvsToken /\ calls \in 0..MaxCalls

\* However saves, clips, matrix calls, recycled bitmaps and bitmap changes are
\* mixed, the clip of a canvas lies inside its bitmap, and rectangles, paints,
\* text and blits store inside the clip and inside the pixels; only a circle
\* may leave the clip (nDrawCircle), never the bitmap.
DrawsInClip ==
    \A t \in 1..cvsToken : \A d \in Targets(t) :
        LET c == d[1]  b == d[2]
            inside == (c.left .. c.right - 1) \cap (0 .. Width(b) - 1) IN
        /\ c.left >= 0 /\ c.right <= Width(b)
        /\ PaintCells(c, b) \subseteq inside
        /\ \A s \in Spans : RectCells(c, b, s[1], s[2]) \subseteq inside
        /\ CircleCells(c, b, 2, 1) \subseteq 0 .. Width(b) - 1
        /\ \A s \in Range(BlitSteps(c, b, b, Floor(c.tx), Screen * c.sx, -1, Width(b) + 1)) :
              s[1] \in inside

\* A client that restores to the count of a save gets back the matrix and clip
\* of that save: as long as the stack did not run full and nobody restored
\* below it, its entry is the one that count stands for.
RestoreMatches ==
    probe # NoProbe => \A i \in Canvas(probe.token) :
        LET c == PopTo(cvs[i], probe.count) IN
        Depth(i) >= probe.count => Entry(c) = probe.was /\ Len(c.stack) = probe.count - 1

\* The newest canvases, as many as the table has slots, are always found, and no
\* token is in two slots: a full table gives up the oldest canvas first.
NewestCanvasesLive ==
    \A t \in 1..cvsToken : /\ Cardinality(Canvas(t)) <= 1
                           /\ t > cvsToken - CanvasSlots => Canvas(t) # {}

\* Canvases draw inside their clip, restore what they saved, and the newest
\* ones are found.
CanvasSound == DrawsInClip /\ RestoreMatches /\ NewestCanvasesLive
=============================================================================
